------------------------------- MODULE LineEditor -------------------------------
(* The line editor of the REPL (serene-repl/serene/linenoise.h, in the      *)
(* multi-line mode the REPL chooses): the buffer it edits, byte by byte,    *)
(* the history it walks through, and what it writes to the terminal.        *)
(* A key the editor reads is handled to its end before the next one is read.*)
EXTENDS Terminal

CONSTANTS
    Prompt,             \* the bytes of the prompt
    HistoryMaxLen,      \* how many lines the history holds
    Users               \* who may sit at the terminal: what they press (keys),
                        \* what they type (typed, characters as bytes), the size
                        \* of the editor's buffer (maxLine), the characters of a
                        \* line (maxChars, a bound), the widths of the terminal
                        \* (widths), whether the history file can be opened
                        \* (path), and the lines read (maxLines, a bound)

\* The editor writes its prompt on one row.
ASSUME PromptAssumption == \A u \in Users : \A w \in u.widths : ColumnPos(Prompt) < w
ASSUME HistoryAssumption == HistoryMaxLen \in Nat \ {0}

VARIABLES
    user,       \* the user of this session
    mode,       \* "down", "prompt", "edit", "eval", "quit" or "hung"
    l,          \* struct linenoiseState: buf (up to len), pos, oldcolpos,
                \* maxrows, history_index, cols
    history,    \* the lines that can be recalled, the oldest first
    screen,     \* the terminal
    top,        \* the row of the terminal on which the prompt begins
    line        \* the line handed to the REPL

editorVars == <<mode, l, history, screen, top, line>>

NoLine == [buf |-> <<>>, pos |-> 0, oldcolpos |-> 0, maxrows |-> 0, history_index |-> 0,
           cols |-> 80]

\* The first byte 0 ends a C string.
CString(b) ==
    LET ends == {i \in DOMAIN b : b[i] = 0}
    IN  IF ends = {} THEN b ELSE SubSeq(b, 1, (CHOOSE i \in ends : \A j \in ends : i <= j) - 1)

(***************************************************************************)
(* AddHistory.                                                             *)
(***************************************************************************)
\* A fault for mutation: duplicates are added.
AddedAgain(h, text) == Append(IF Len(h) = HistoryMaxLen THEN Tail(h) ELSE h, text)

Added(h, text) ==
    IF h # <<>> /\ Last(h) = text THEN h
    ELSE Append(IF Len(h) = HistoryMaxLen THEN Tail(h) ELSE h, text)

(***************************************************************************)
(* refreshMultiLine: the rows written before are cleared from the last one *)
(* up, the prompt and the buffer are written again, and the cursor is      *)
(* moved from their end to its place.                                      *)
(***************************************************************************)
ClearedUp(n) == [i \in 1 .. 3 * n |-> <<Return, ToErase, <<"up", 1>>>>[((i - 1) % 3) + 1]]
RowsFor(columns, cols) == (columns + cols - 1) \div cols
\* A fault for mutation: no new line where the text ends with the row.
NeverAtEdge(n, columns) == FALSE

AtEdge(n, columns) == n.pos > 0 /\ n.pos = Len(n.buf) /\ columns % n.cols = 0

\* What is written, and the state of the editor after it.
Refreshed(n) ==
    LET pcolwid == ColumnPos(Prompt)
        colpos == ColumnPosForMultiLine(n.buf, Len(n.buf), n.cols, pcolwid)
        colpos2 == ColumnPosForMultiLine(n.buf, n.pos, n.cols, pcolwid)
        rpos == (pcolwid + n.oldcolpos + n.cols) \div n.cols
        rpos2 == (pcolwid + colpos2 + n.cols) \div n.cols
        edge == AtEdge(n, pcolwid + colpos2)
        rows == RowsFor(pcolwid + colpos, n.cols) + (IF edge THEN 1 ELSE 0)
        col == (pcolwid + colpos2) % n.cols
    IN  [ab |-> Move("down", n.maxrows - rpos) \o ClearedUp(n.maxrows - 1)
                \o <<Return, ToErase>> \o Text(Prompt \o n.buf)
                \o (IF edge THEN <<Feed, Return>> ELSE <<>>)
                \o Move("up", rows - rpos2) \o <<Return>> \o Move("right", col),
         l |-> [n EXCEPT !.maxrows = IF rows > @ THEN rows ELSE @, !.oldcolpos = colpos2]]

\* The editor goes on with the state n, and refreshes the line.  Counting the
\* columns of bytes that are no character never ends.
Refresh(n, s) ==
    IF Readable(n.buf, Len(n.buf))
    THEN \E r \in {Refreshed(n)} : mode' = "edit" /\ l' = r.l /\ screen' = Written(s, r.ab)
    ELSE mode' = "hung" /\ l' = n /\ screen' = s

Stays == UNCHANGED <<mode, l, screen>>
Pressed(k) == mode = "edit" /\ k \in user.keys
Edits == UNCHANGED <<history, top, line>>

(***************************************************************************)
(* The keys.                                                               *)
(***************************************************************************)
Before == SubSeq(l.buf, 1, l.pos)
After == SubSeq(l.buf, l.pos + 1, Len(l.buf))
\* One byte of the buffer is kept for the terminator.
Room == user.maxLine - 1

\* Bounds on what is typed, which the code does not have: the length of a line,
\* and marks are only typed behind a character of the line.
TypedNow(c) ==
    /\ Len(Decoded(l.buf)) < user.maxChars
    /\ l.pos = 0 => ~IsCombining(Decoded(c)[1])

\* linenoiseEditInsert.  It is enough for a character if one byte is left.
Insert(c) ==
    /\ mode = "edit"
    /\ c \in user.typed /\ TypedNow(c)
    /\ IF Len(l.buf) < Room
       THEN Refresh([l EXCEPT !.buf = Before \o c \o After, !.pos = @ + Len(c)], screen)
       ELSE Stays
    /\ Edits

\* linenoiseEditMoveLeft: Ctrl-b, Left.
MoveLeft ==
    /\ Pressed("Left")
    /\ IF l.pos > 0
       THEN Refresh([l EXCEPT !.pos = @ - PrevGraphemeLen(l.buf, @)], screen)
       ELSE Stays
    /\ Edits

\* linenoiseEditMoveRight: Ctrl-f, Right.
MoveRight ==
    /\ Pressed("Right")
    /\ IF l.pos # Len(l.buf)
       THEN Refresh([l EXCEPT !.pos = @ + GraphemeLen(l.buf, @)], screen)
       ELSE Stays
    /\ Edits

\* linenoiseEditMoveHome: Ctrl-a, Home.
MoveHome ==
    /\ Pressed("Home")
    /\ IF l.pos # 0 THEN Refresh([l EXCEPT !.pos = 0], screen) ELSE Stays
    /\ Edits

\* linenoiseEditMoveEnd: Ctrl-e, End.
MoveEnd ==
    /\ Pressed("End")
    /\ IF l.pos # Len(l.buf) THEN Refresh([l EXCEPT !.pos = Len(l.buf)], screen) ELSE Stays
    /\ Edits

\* linenoiseEditBackspace.
Backspace ==
    /\ Pressed("Backspace")
    /\ LET glen == PrevGraphemeLen(l.buf, l.pos)
       IN  IF l.pos > 0
           THEN Refresh([l EXCEPT !.buf = SubSeq(@, 1, l.pos - glen) \o After,
                                  !.pos = @ - glen], screen)
           ELSE Stays
    /\ Edits

\* linenoiseEditDelete: Delete, and Ctrl-d on a line with text.
Delete ==
    /\ Pressed("Delete")
    /\ LET glen == GraphemeLen(l.buf, l.pos)
       IN  IF l.pos < Len(l.buf)
           THEN Refresh([l EXCEPT !.buf = Before \o SubSeq(@, l.pos + glen + 1, Len(@))], screen)
           ELSE Stays
    /\ Edits

\* linenoiseEditDeletePrevWord: Ctrl-w.  Spaces, and what is before them.
DeletePrevWord ==
    /\ Pressed("DeletePrevWord")
    /\ LET spaces == {p \in 0 .. l.pos : \A i \in p + 1 .. l.pos : l.buf[i] = 32}
           word == CHOOSE p \in spaces : \A q \in spaces : p <= q
           starts == {p \in 0 .. word : \A i \in p + 1 .. word : l.buf[i] # 32}
           start == CHOOSE p \in starts : \A q \in starts : p <= q
       IN  Refresh([l EXCEPT !.buf = SubSeq(@, 1, start) \o After, !.pos = start], screen)
    /\ Edits

\* Ctrl-u and Ctrl-k.
DeleteLine ==
    /\ Pressed("DeleteLine")
    /\ Refresh([l EXCEPT !.buf = <<>>, !.pos = 0], screen)
    /\ Edits
DeleteRest ==
    /\ Pressed("DeleteRest")
    /\ Refresh([l EXCEPT !.buf = Before], screen)
    /\ Edits

\* Ctrl-l.
ClearScreen ==
    /\ Pressed("ClearScreen")
    /\ Refresh(l, Cleared(l.cols))
    /\ top' = 1
    /\ UNCHANGED <<history, line>>

\* Ctrl-t: the bytes on both sides of the cursor.
SwapChars ==
    /\ Pressed("SwapChars")
    /\ IF l.pos > 0 /\ l.pos < Len(l.buf)
       THEN Refresh([l EXCEPT !.buf = [@ EXCEPT ![l.pos] = l.buf[l.pos + 1],
                                                ![l.pos + 1] = l.buf[l.pos]],
                              !.pos = IF @ # Len(l.buf) - 1 THEN @ + 1 ELSE @], screen)
       ELSE Stays
    /\ Edits

\* linenoiseEditHistoryNext: Ctrl-p and Up (dir = 1), Ctrl-n and Down (-1).
\* The entry that is left becomes what has been made of it.
HistoryNext(dir) ==
    /\ Pressed(IF dir = 1 THEN "Up" ELSE "Down")
    /\ LET size == Len(history)
           h == [history EXCEPT ![size - l.history_index] = CString(l.buf)]
           i == l.history_index + dir
           text == h[size - i]
       IN  IF size <= 1 THEN Stays /\ UNCHANGED history
           ELSE /\ history' = h
                /\ IF i \in 0 .. size - 1
                   THEN Refresh([l EXCEPT !.history_index = i, !.buf = text,
                                          !.pos = Len(text)], screen)
                   ELSE Stays
    /\ UNCHANGED <<top, line>>

\* Enter.  The entry made for this line is dropped, and the cursor goes to
\* the end of the text before the new line.
Enter ==
    /\ Pressed("Enter")
    /\ history' = IF history = <<>> THEN <<>> ELSE Front(history)
    /\ LET end == [l EXCEPT !.pos = Len(l.buf)]
       IN  screen' = Written(screen, (IF l # end THEN Refreshed(end).ab ELSE <<>>) \o <<Feed>>)
    /\ mode' = "eval"
    /\ line' = l.buf
    /\ l' = NoLine
    /\ UNCHANGED top

\* Ctrl-c leaves the entry of this line in the history, Ctrl-d on an empty
\* line drops it.
CtrlC ==
    /\ Pressed("CtrlC")
    /\ mode' = "quit"
    /\ l' = NoLine
    /\ screen' = Written(screen, <<Feed>>)
    /\ UNCHANGED <<history, top, line>>
CtrlD ==
    /\ Pressed("CtrlD")
    /\ l.buf = <<>>
    /\ history' = Front(history)
    /\ mode' = "quit"
    /\ l' = NoLine
    /\ screen' = Written(screen, <<Feed>>)
    /\ UNCHANGED <<top, line>>

\* A read that fails, a terminal that is gone, a byte that begins no character:
\* the line is what has been typed so far.
InputError ==
    /\ Pressed("InputError")
    /\ mode' = "eval"
    /\ line' = l.buf
    /\ l' = NoLine
    /\ screen' = Written(screen, <<Feed>>)
    /\ UNCHANGED <<history, top>>

Keys ==
    \/ \E c \in user.typed : Insert(c)
    \/ MoveLeft \/ MoveRight \/ MoveHome \/ MoveEnd \/ Backspace \/ Delete
    \/ DeletePrevWord \/ DeleteLine \/ DeleteRest \/ ClearScreen \/ SwapChars
    \/ \E dir \in {1, -1} : HistoryNext(dir)
    \/ Enter \/ CtrlC \/ CtrlD

(***************************************************************************)
(* Readline on a terminal: the raw mode, and the prompt on a row of its    *)
(* own under what was written before.  The width is asked for once a line. *)
(***************************************************************************)
\* What the terminal says its width is, one way or another.
GetColumns == user.widths
FirstRow(w) == Written(Cleared(w), Text(<<62>>) \o <<Feed>>)
Readline ==
    /\ mode = "prompt"
    /\ "Plain" \notin user.keys
    /\ history' = Added(history, <<>>)
    /\ \E w \in GetColumns :
          /\ l' = [NoLine EXCEPT !.cols = w]
          /\ screen' = Written(FirstRow(w), Text(Prompt))
    /\ top' = 2
    /\ mode' = "edit"
    /\ UNCHANGED line

\* The terminal does not take the raw mode: the line is empty.
RawModeFails ==
    /\ mode = "prompt"
    /\ "NoRawMode" \in user.keys
    /\ mode' = "eval"
    /\ line' = <<>>
    /\ UNCHANGED <<l, history, screen, top>>

\* Input that is not a terminal, or one that cannot be edited on: a line is
\* read as it is, an empty one at the end of the input.
ReadPlain ==
    /\ mode = "prompt"
    /\ \E text \in user.typed \union {<<>>} : line' = text
    /\ "Plain" \in user.keys
    /\ mode' = "eval"
    /\ UNCHANGED <<l, history, screen, top>>
=============================================================================
