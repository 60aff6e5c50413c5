------------------------------- MODULE EditedLine -------------------------------
(* What an editor of one line of text promises, character by character: the *)
(* line is what is left and right of the cursor, and memory holds the lines *)
(* that can be recalled.                                                    *)
EXTENDS Naturals, Sequences, SequencesExt

CONSTANTS
    Characters,
    Space,              \* the character between words
    IsMark(_)           \* a character that belongs to the one before it

VARIABLES open, left, right, memory, result

vars == <<open, left, right, memory, result>>

Init == open = FALSE /\ left = <<>> /\ right = <<>> /\ memory = <<>> /\ result = <<>>

\* Where the last character with its marks begins, and the first one ends:
\* marks that follow nothing are never passed going left.
LastFrom(s) ==
    LET bases == {i \in DOMAIN s : ~IsMark(s[i])}
    IN  IF bases = {} THEN Len(s) + 1 ELSE CHOOSE i \in bases : \A j \in bases : j <= i
FirstTo(s) ==
    LET ends == {i \in DOMAIN s : \A j \in 2 .. i : IsMark(s[j])}
    IN  CHOOSE i \in ends : \A j \in ends : j <= i
\* Where the last word begins.
LastWordFrom(s) ==
    CHOOSE i \in 1 .. Len(s) + 1 :
        /\ i = 1 \/ s[i - 1] = Space
        /\ \E k \in i .. Len(s) + 1 :
              /\ \A j \in i .. k - 1 : s[j] # Space
              /\ \A j \in k .. Len(s) : s[j] = Space
              /\ k > i \/ i = 1

Upto(s, i) == SubSeq(s, 1, i)
From(s, i) == SubSeq(s, i, Len(s))

\* The lines a key may make of the line <<l, r>>.
Inserted(l, r) == {<<Append(l, c), r>> : c \in Characters}
Moved(l, r) ==
    {<<Upto(l, LastFrom(l) - 1), From(l, LastFrom(l)) \o r>>, <<<<>>, l \o r>>, <<l \o r, <<>>>>}
    \cup IF r = <<>> THEN {} ELSE {<<l \o Upto(r, FirstTo(r)), From(r, FirstTo(r) + 1)>>}
Removed(l, r) ==
    {<<Upto(l, LastFrom(l) - 1), r>>, <<Upto(l, LastWordFrom(l) - 1), r>>,
     <<<<>>, <<>>>>, <<l, <<>>>>}
    \cup IF r = <<>> THEN {} ELSE {<<l, From(r, FirstTo(r) + 1)>>}
\* The characters on both sides of the cursor change places, and the cursor
\* moves on unless that would put it at the end.
Swapped(l, r) ==
    IF l = <<>> \/ r = <<>> THEN {}
    ELSE LET before == Append(Front(l), Head(r))
         IN  {IF Len(r) = 1 THEN <<before, <<Last(l)>>>>
              ELSE <<Append(before, Last(l)), Tail(r)>>}

Edited(l, r) == left' = l /\ right' = r
Swap == <<left', right'>> \in Swapped(left, right)
Edit ==
    /\ open
    /\ LET l == left
           r == right
       IN  <<left', right'>> \in
              Inserted(l, r) \cup Moved(l, r) \cup Removed(l, r) \cup Swapped(l, r)
    /\ UNCHANGED <<open, memory, result>>

\* One remembered line becomes what has been edited, and another one is shown.
Recall ==
    /\ open
    /\ \E i \in DOMAIN memory : memory' = [memory EXCEPT ![i] = left \o right]
    /\ \/ UNCHANGED <<left, right>>
       \/ \E j \in DOMAIN memory : Edited(memory'[j], <<>>)
    /\ UNCHANGED <<open, result>>

Open ==
    /\ ~open
    /\ open' = TRUE
    /\ Edited(<<>>, <<>>)
    /\ UNCHANGED result
\* The whole line is handed over, wherever the cursor is.
Accept ==
    /\ open
    /\ open' = FALSE
    /\ result' = left \o right
Abandon == open /\ open' = FALSE /\ UNCHANGED result
\* Between two lines the memory is not the editor's, nor is the result.
Rest == ~open /\ open' = FALSE

Next == Edit \/ Recall \/ Open \/ Accept \/ Abandon \/ Rest
Spec == Init /\ [][Next]_vars
=============================================================================
