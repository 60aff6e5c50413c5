------------------------------- MODULE MCHalley -------------------------------
(* Instances of Halley for TLC.                                            *)
EXTENDS Halley

CONSTANTS d1, d2, n1, n2, img, libc, junk       \* model values
CONSTANT Kept                           \* extensions of the files on disk

OnePath == <<d1>>
TwoPaths == <<d1, d2>>

\* Names that all end where they should, and names of which n2 may run on
\* into something else, or into the name n1, which begins with it.
Ended == [n \in NS |-> {n}]
RunningOn == [n \in NS |-> IF n = n1 THEN {n1} ELSE {n1, n2, junk}]
RunningOnAlone == [n \in NS |-> {n, junk}]

\* One file system: good files with the extensions of Kept in the last
\* directory, the one that needs the host process belonging to n2.
Fixed ==
    {[f \in Files |->
        IF f[3] \notin Kept \/ f[1] # CLPaths[Len(CLPaths)] THEN Absent
        ELSE IF f[2] = n1 THEN img ELSE libc]}

\* The files edited while the engine runs.
NoFiles == {}
Objects == {<<d, n1, "o">> : d \in Dirs}
ObjectsAndModules == Objects \cup {<<d2, n1, "ll">>}
=============================================================================
