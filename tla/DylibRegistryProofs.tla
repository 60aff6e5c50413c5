-------------------------- MODULE DylibRegistryProofs --------------------------
(* Theorems about DylibRegistry, for every set of keys.                    *)
EXTENDS DylibRegistry, TLAPS

\* NumberedByPosition, strengthened by the types, is inductive.
IInv == TypeOK /\ NumberedByPosition

\* What a registration does to the lists: k's grows by one element, which is
\* a library's number or the position it gets.
LEMMA Registration ==
    ASSUME TypeOK, NEW k \in Keys, NEW n \in {Library, Len(registered[k]) + 1},
           registered' = [registered EXCEPT ![k] = Append(@, n)]
    PROVE  /\ TypeOK'
           /\ \A l \in Keys \ {k} : registered'[l] = registered[l]
           /\ registered'[k] = Append(registered[k], n)
           /\ Len(registered'[k]) = Len(registered[k]) + 1
           /\ \A i \in 1 .. Len(registered[k]) :
                 registered'[k][i] = registered[k][i]
           /\ registered'[k][Len(registered[k]) + 1] = n
<1>1. registered[k] \in Seq(Nat) /\ n \in Nat
    BY DEF TypeOK, Library
<1>2. registered'[k] = Append(registered[k], n)
    BY DEF TypeOK
<1>3. TypeOK'
    BY <1>1 DEF TypeOK
<1> QED
    BY <1>1, <1>2, <1>3 DEF TypeOK

\* Both registrations are of that form.
LEMMA NextRegisters ==
    ASSUME Next
    PROVE  \E k \in Keys : \E n \in {Library, Len(registered[k]) + 1} :
              registered' = [registered EXCEPT ![k] = Append(@, n)]
BY DEF Next, RegisterNamespace, RegisterLibrary

LEMMA InvariantHolds == Spec => []IInv
<1>1. Init => IInv
    BY DEF Init, IInv, TypeOK, NumberedByPosition
<1>2. IInv /\ [Next]_registered => IInv'
    <2> SUFFICES ASSUME IInv, [Next]_registered PROVE IInv'
        OBVIOUS
    <2>1. CASE UNCHANGED registered
        BY <2>1 DEF IInv, TypeOK, NumberedByPosition
    <2>2. CASE Next
        <3>0. PICK k \in Keys : \E n \in {Library, Len(registered[k]) + 1} :
                 registered' = [registered EXCEPT ![k] = Append(@, n)]
            BY <2>2, NextRegisters
        <3>1. PICK n \in {Library, Len(registered[k]) + 1} :
                 registered' = [registered EXCEPT ![k] = Append(@, n)]
            BY <3>0
        <3>2. TypeOK
            BY DEF IInv
        <3>3. registered'[k] \in Seq(Nat) /\ registered[k] \in Seq(Nat)
            BY <3>1, <3>2, Registration DEF TypeOK
        <3>4. ASSUME NEW i \in DOMAIN registered'[k]
              PROVE  registered'[k][i] \in {Library, i}
            <4>1. i \in 1 .. Len(registered[k]) \/ i = Len(registered[k]) + 1
                BY <3>1, <3>2, <3>3, <3>4, Registration
            <4> QED
                BY <3>1, <3>2, <3>3, <4>1, Registration
                   DEF IInv, NumberedByPosition
        <3>5. NumberedByPosition'
            BY <3>1, <3>2, <3>4, Registration DEF IInv, NumberedByPosition
        <3> QED
            BY <3>1, <3>2, <3>5, Registration DEF IInv
    <2> QED
        BY <2>1, <2>2
<1> QED
    BY <1>1, <1>2, PTL DEF Spec

\* Whatever is loaded, reloaded or wrapped, in any order, a dylib's number is
\* its position in the list of its namespace, or marks a library.
THEOREM NumberingIsPositional == Spec => []NumberedByPosition
<1>1. IInv => NumberedByPosition
    BY DEF IInv
<1> QED
    BY <1>1, InvariantHolds, PTL

\* Hence the names of a namespace's dylibs never clash.
THEOREM NumbersNeverClash == Spec => []NumbersUnique
<1>1. IInv => NumbersUnique
    BY DEF IInv, NumberedByPosition, NumbersUnique
<1> QED
    BY <1>1, InvariantHolds, PTL

\* The lists are append-only.
THEOREM ListsOnlyGrow == Spec => OnlyGrows
<1> DEFINE Grows ==
        \A k \in Keys :
            /\ Len(registered[k]) <= Len(registered'[k])
            /\ SubSeq(registered'[k], 1, Len(registered[k])) = registered[k]
<1>1. IInv /\ [Next]_registered => [Grows]_registered
    <2> SUFFICES ASSUME IInv, Next PROVE Grows
        OBVIOUS
    <2>0. PICK k \in Keys : \E n \in {Library, Len(registered[k]) + 1} :
             registered' = [registered EXCEPT ![k] = Append(@, n)]
        BY NextRegisters
    <2>1. PICK n \in {Library, Len(registered[k]) + 1} :
             registered' = [registered EXCEPT ![k] = Append(@, n)]
        BY <2>0
    <2>2. ASSUME NEW l \in Keys
          PROVE  /\ Len(registered[l]) <= Len(registered'[l])
                 /\ SubSeq(registered'[l], 1, Len(registered[l])) = registered[l]
        <3>1. registered[l] \in Seq(Nat) /\ registered'[l] \in Seq(Nat)
            BY <2>1, Registration DEF IInv, TypeOK
        <3>2. CASE l # k
            BY <3>1, <3>2, <2>1, Registration DEF IInv
        <3>3. CASE l = k
            BY <3>1, <3>3, <2>1, Registration DEF IInv
        <3> QED
            BY <3>2, <3>3
    <2> QED
        BY <2>2
<1> QED
    BY <1>1, InvariantHolds, PTL DEF Spec, OnlyGrows
=============================================================================
