-------------------------------- MODULE Terminal --------------------------------
(* A terminal as the line editor of the REPL uses it (external: the editor  *)
(* only writes to it).  A screen has w columns and as many rows as needed;  *)
(* a character in the last column leaves the cursor there, with the wrap    *)
(* pending until the next one, as terminals of the xterm family do.         *)
EXTENDS Utf8, SequencesExt

Blank == <<32>>                 \* a cell: a character and its marks
Beside == <<0>>                 \* the second cell of a wide character

BlankRow(w) == [i \in 1 .. w |-> Blank]
Cleared(w) == [rows |-> <<BlankRow(w)>>, row |-> 1, col |-> 0, wrap |-> FALSE, w |-> w]

RowOf(s, r) == IF r <= Len(s.rows) THEN s.rows[r] ELSE BlankRow(s.w)
\* Rows are added as the cursor gets to them.
Upto(s, r) ==
    [s EXCEPT !.rows = @ \o [i \in 1 .. (IF r > Len(@) THEN r - Len(@) ELSE 0)
                                |-> BlankRow(s.w)],
              !.row = r, !.wrap = FALSE]

CarriageReturn(s) == [s EXCEPT !.col = 0, !.wrap = FALSE]
NewLine(s) == [Upto(s, s.row + 1) EXCEPT !.col = 0]
Up(s, n) == [s EXCEPT !.row = IF @ - n < 1 THEN 1 ELSE @ - n, !.wrap = FALSE]
Down(s, n) == Upto(s, s.row + n)
Right(s, n) == [s EXCEPT !.col = IF @ + n >= s.w THEN s.w - 1 ELSE @ + n, !.wrap = FALSE]
EraseRight(s) ==
    [s EXCEPT !.rows[s.row] = [i \in 1 .. s.w |-> IF i > s.col THEN Blank ELSE @[i]]]

\* A mark is added to the character before the cursor.
PutMark(s, cp) ==
    LET i == IF s.wrap THEN s.w ELSE s.col
        j == IF i > 1 /\ s.rows[s.row][i] = Beside THEN i - 1 ELSE i
    IN  IF j = 0 THEN s ELSE [s EXCEPT !.rows[s.row][j] = Append(@, cp)]

PutBase(s, cp) ==
    LET k == Width(cp)
        t == IF s.wrap \/ s.col + k > s.w THEN NewLine(s) ELSE s
        full == t.col + k >= t.w
    IN  [t EXCEPT !.rows[t.row] =
                    [i \in 1 .. t.w |-> IF i = t.col + 1 THEN <<cp>>
                                        ELSE IF i = t.col + 2 /\ k = 2 THEN Beside
                                        ELSE @[i]],
                  !.col = IF full THEN t.w - 1 ELSE @ + k,
                  !.wrap = full]

\* What may be written to it: characters, and the sequences the editor uses.
Text(bytes) == LET cps == Decoded(bytes) IN [i \in DOMAIN cps |-> <<"put", cps[i]>>]
Return == <<"return">>
Feed == <<"feed">>
ToErase == <<"erase">>
Move(direction, n) == IF n > 0 THEN <<<<direction, n>>>> ELSE <<>>

Obey(s, c) ==
    CASE c[1] = "put" -> IF IsCombining(c[2]) THEN PutMark(s, c[2]) ELSE PutBase(s, c[2])
      [] c[1] = "return" -> CarriageReturn(s)
      [] c[1] = "feed" -> NewLine(s)
      [] c[1] = "erase" -> EraseRight(s)
      [] c[1] = "up" -> Up(s, c[2])
      [] c[1] = "down" -> Down(s, c[2])
      [] c[1] = "right" -> Right(s, c[2])
Written(s, commands) ==
    LET upTo[i \in 0 .. Len(commands)] ==
            IF i = 0 THEN s ELSE Obey(upTo[i - 1], commands[i])
    IN  upTo[Len(commands)]

\* Where the next character would appear.
Cursor(s) == IF s.wrap THEN <<s.row + 1, 0>> ELSE <<s.row, s.col>>
\* Two screens look the same.
SameRows(s, t) ==
    \A r \in 1 .. (IF Len(s.rows) > Len(t.rows) THEN Len(s.rows) ELSE Len(t.rows)) :
        RowOf(s, r) = RowOf(t, r)
=============================================================================
