---------------------------- MODULE DylibRegistry ----------------------------
(***************************************************************************)
(* What both JIT engines of the repository promise about the JITDylibs of  *)
(* a namespace, whatever loads them.  A namespace, identified by the key   *)
(* under which the engine files it, owns a list of dylibs that only ever   *)
(* grows; the newest one is the one symbols are looked up in.  A dylib     *)
(* created for the namespace itself is called "ns#n", where n is its       *)
(* position in the list; a dylib that wraps a library is called "ns#0".    *)
(*                                                                         *)
(* Halley.tla (libserene) and SereneContext.tla (libserene.v0) implement   *)
(* this specification.                                                     *)
(***************************************************************************)
EXTENDS Naturals, Sequences

CONSTANT Keys           \* the keys namespaces are filed under

VARIABLE registered     \* registered[k]: the numbers of k's dylibs, oldest first

Library == 0            \* the number in the name of a library's dylib

TypeOK == registered \in [Keys -> Seq(Nat)]

Init == registered = [k \in Keys |-> << >>]

\* A dylib created for namespace k is numbered after those k already has.
RegisterNamespace(k) ==
    registered' = [registered EXCEPT ![k] = Append(@, Len(@) + 1)]

\* A library dylib filed under k does not take a number of its own.
RegisterLibrary(k) ==
    registered' = [registered EXCEPT ![k] = Append(@, Library)]

Next == \E k \in Keys : RegisterNamespace(k) \/ RegisterLibrary(k)

Spec == Init /\ [][Next]_registered

-----------------------------------------------------------------------------
(* The number in a dylib's name is its position, unless it is a library.   *)
NumberedByPosition ==
    \A k \in Keys : \A i \in DOMAIN registered[k] :
        registered[k][i] \in {Library, i}

(* Two dylibs of the same namespace never get the same number, so their    *)
(* names "ns#n" never clash, however loads, libraries and failures mix.    *)
NumbersUnique ==
    \A k \in Keys : \A i, j \in DOMAIN registered[k] :
        registered[k][i] = registered[k][j] => i = j \/ registered[k][i] = Library

(* The list of a namespace is append-only: a dylib in use is never dropped *)
(* nor overtaken by an older one.                                          *)
OnlyGrows ==
    [][\A k \in Keys :
          /\ Len(registered[k]) <= Len(registered'[k])
          /\ SubSeq(registered'[k], 1, Len(registered[k])) = registered[k]
      ]_registered
=============================================================================
