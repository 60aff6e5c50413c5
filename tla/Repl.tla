---------------------------------- MODULE Repl ----------------------------------
(* The REPL (serene-repl/serene-repl.cpp): read a line, evaluate it, keep   *)
(* it in the history when that succeeded; load the history when it starts   *)
(* and save it when it is asked to quit.  What evaluation does is           *)
(* SereneContext's subject; here it succeeds, fails, or ends the process.   *)
EXTENDS LineEditor

CONSTANT MaxStarts      \* bound: processes of the REPL

VARIABLES
    file,       \* the history file: a sequence of lines, or empty
    starts, lines,                          \* what the bounds count
    said,       \* what the user remembers: the lines evaluated with success,
                \* and whether nothing else was left in the history (alone)
    saidSaved   \* and what of the processes that were asked to quit

replVars == <<file, starts, lines, said, saidSaved>>
vars == <<user, editorVars, replVars>>

Init ==
    /\ user \in Users
    /\ mode = "down" /\ l = NoLine /\ history = <<>> /\ line = <<>>
    /\ screen = Cleared(1) /\ top = 1
    /\ file = <<>>
    /\ said = [lines |-> <<>>, alone |-> TRUE] /\ saidSaved = said
    /\ starts = 0 /\ lines = 0

\* The lines an entry is written as: a byte 10 in it begins another one.
LinesOf(text) ==
    LET upTo[i \in 0 .. Len(text)] ==
            IF i = 0 THEN <<<<>>>>
            ELSE LET done == upTo[i - 1]
                 IN  IF text[i] = 10 THEN Append(done, <<>>)
                     ELSE Append(Front(done), Append(Last(done), text[i]))
    IN  upTo[Len(text)]
\* SaveHistory.
Saved(h) ==
    LET upTo[i \in 0 .. Len(h)] == IF i = 0 THEN <<>> ELSE upTo[i - 1] \o LinesOf(h[i])
    IN  upTo[Len(h)]

\* The lines of the file are added one by one.
LoadHistory(text) ==
    LET upTo[i \in 0 .. Len(text)] ==
            IF i = 0 THEN <<>> ELSE Added(upTo[i - 1], text[i])
    IN  upTo[Len(text)]

\* The process starts with an empty history of the chosen length, to which the
\* file is loaded.
Start ==
    /\ mode = "down"
    /\ starts < MaxStarts
    /\ starts' = starts + 1
    /\ history' = IF user.path THEN LoadHistory(file) ELSE <<>>
    /\ said' = saidSaved
    /\ mode' = "prompt"
    /\ UNCHANGED <<user, l, screen, top, line, file, lines, saidSaved>>

\* The user walks away from an old entry and has made another line of it.
Overwrites ==
    /\ mode' = "edit" /\ history' # history
    /\ l.history_index # 0
    /\ CString(l.buf) # history[Len(history) - l.history_index]
\* The entry of the line being edited holds what was typed before the user
\* walked away from it, and stays when the line is given up.
LeavesDraft == history' = history /\ mode' # "edit" /\ Last(history) # <<>>

\* One key of the editor.
Edit ==
    /\ Keys
    /\ said' = [said EXCEPT !.alone = @ /\ ~Overwrites /\ ~LeavesDraft]
    /\ UNCHANGED <<user, file, starts, lines, saidSaved>>

\* What was typed is evaluated, with the entry still in the history.
InputFails ==
    /\ InputError
    /\ said' = [said EXCEPT !.alone = @ /\ ~LeavesDraft /\ line' = <<>>]
    /\ UNCHANGED <<user, file, starts, lines, saidSaved>>

ReadLine ==
    /\ lines < user.maxLines
    /\ lines' = lines + 1
    /\ Readline \/ RawModeFails \/ ReadPlain
    /\ UNCHANGED <<user, file, starts, said, saidSaved>>

\* A line that was read and evaluated is added to the history, as a C string.
Evaluated ==
    /\ mode = "eval"
    /\ mode' = "prompt"
    /\ LET text == CString(line)
           known == text = <<>> \/ (said.lines # <<>> /\ Last(said.lines) = text)
       IN  /\ history' = Added(history, text)
           /\ said' = IF known THEN said ELSE [said EXCEPT !.lines = Append(@, text)]
    /\ UNCHANGED <<user, l, screen, top, line, file, starts, lines, saidSaved>>

\* A line with errors is not.
Refused ==
    /\ mode = "eval"
    /\ mode' = "prompt"
    /\ UNCHANGED <<user, l, history, screen, top, line, replVars>>

\* Evaluation may end the process (see SereneContext), which then saves nothing.
Dies ==
    /\ mode = "eval"
    /\ mode' = "down"
    /\ history' = <<>>
    /\ UNCHANGED <<user, l, screen, top, line, replVars>>

\* Asked to quit, the REPL writes its history over the file, if it can.
Quit ==
    /\ mode = "quit"
    /\ mode' = "down"
    /\ file' = IF user.path THEN Saved(history) ELSE file
    /\ saidSaved' = IF user.path THEN said ELSE saidSaved
    /\ history' = <<>>
    /\ UNCHANGED <<user, l, screen, top, line, starts, lines, said>>

Next == Start \/ ReadLine \/ Edit \/ InputFails \/ Evaluated \/ Refused \/ Dies \/ Quit

Spec == Init /\ [][Next]_vars

(***************************************************************************)
(* Whom the editor makes its promises to: its buffer is one of bytes, and  *)
(* it trusts what is typed (unicodeReadUTF8Char, linenoiseEditInsert).     *)
(***************************************************************************)
\* No byte 0, and no character in more bytes than it needs.
Shortest(t) ==
    \A i \in 1 .. Len(t) :
        /\ t[i] \notin {0, 192, 193}
        /\ i < Len(t) /\ t[i] = 224 => t[i + 1] >= 160
        /\ i < Len(t) /\ t[i] = 240 => t[i + 1] >= 144

\* Users whose characters are single bytes; who type no byte 0 and the shortest
\* encodings; whose line fits the buffer, whatever character is typed last, and
\* one line of the history file, and who swap single bytes only.
Singles(u) == \A c \in u.typed : Len(c) = 1
OneLine(t) == \A i \in 1 .. Len(t) : t[i] # 10
Proper(u) == \A c \in u.typed : Shortest(c)
Fits(u) ==
    /\ \A c \in u.typed : IsChar(c) /\ OneLine(c)
    /\ u.maxLine \in Nat \ {0} /\ u.maxChars \in Nat
    /\ Singles(u) \/ 4 * u.maxChars <= u.maxLine - 1
    /\ "SwapChars" \in u.keys => Singles(u)
\* Whose terminal has three columns or more: on two the editor miscounts a wide
\* character, which fills a row (columnPosForMultiLine).  They type nothing the
\* terminal obeys (Terminal has no control characters).
Wide(u) ==
    /\ \A w \in u.widths : w \in Nat /\ w >= 3
    /\ \A c \in u.typed : c[1] >= 32 /\ c[1] # 127

(***************************************************************************)
(* Properties.                                                             *)
(***************************************************************************)
\* The editor holds a line that fits its buffer, an entry of the history, and
\* the line the cursor is in consists of whole characters on both sides of the
\* cursor, whatever was deleted, recalled and typed by users whose last
\* character fits the buffer as well (linenoiseEdit; TerminatorFits has those
\* whose does not).
CursorOnCharacter ==
    mode = "edit" =>
        /\ l.pos \in 0 .. Len(l.buf)
        /\ Len(l.buf) <= Room
        /\ l.history_index \in 0 .. Len(history) - 1
        /\ Readable(Before, l.pos) /\ Readable(After, Len(After))
        /\ Decoded(Before) \o Decoded(After) = Decoded(l.buf)

\* What the terminal shows while a key is awaited is what was there before,
\* the prompt, the line, and nothing left of what the line was earlier; and
\* the cursor stands where the character at the cursor is (refreshMultiLine).
Shown == IF top = 1 THEN Cleared(l.cols) ELSE FirstRow(l.cols)
CursorCell(s) ==
    LET next == IF After = <<>> THEN 0 ELSE CodePoint(l.buf, l.pos, Len(After)).cp
    IN  IF Cursor(s)[2] + Width(next) > s.w THEN <<Cursor(s)[1] + 1, 0>> ELSE Cursor(s)
ScreenShowsLine ==
    mode = "edit" =>
        /\ SameRows(screen, Written(Shown, Text(Prompt \o l.buf)))
        /\ Cursor(screen) = CursorCell(Written(Shown, Text(Prompt \o Before)))

\* linenoise.h:2295 ("Make sure there is always space for the nulterm"): the
\* byte behind the line, which every insertion writes, is in the buffer.
TerminatorFits == mode = "edit" => Len(l.buf) <= Room

\* Users who walk through the history, take old entries and come back to their
\* drafts find the latest lines that were evaluated with success in it (up to
\* a byte 0), in order, one less than it may hold at least, also in the next
\* session after quitting.  Only who changes an old entry before leaving it,
\* leaves a draft behind in it or types a byte 10 finds something else (AddHistory,
\* linenoiseEditHistoryNext, SaveHistory, LoadHistory).  An empty line can
\* only be the last.  (Input that is not edited has no use for a history.)
Said(h) == IF h # <<>> /\ Last(h) = <<>> THEN Front(h) ELSE h
Rereads == user.path /\ "Plain" \notin user.keys /\ \A c \in user.typed : OneLine(c)
HistoryIsRecent ==
    mode = "prompt" /\ said.alone /\ Rereads =>
        /\ Len(history) <= HistoryMaxLen
        /\ IsSuffix(Said(history), said.lines)
        /\ \/ Said(history) = said.lines
           \/ Len(Said(history)) >= HistoryMaxLen - 1

\* The characters the users know.
Alphabet == UNION {{Decoded(c)[1] : c \in u.typed} : u \in Users}

\* Every step of the editor is a step of an editor of characters: no key does
\* anything else to the line, and Enter hands over all of it.
Abstract == INSTANCE EditedLine WITH
    Characters <- Alphabet,
    Space <- 32,
    IsMark <- IsCombining,
    open <- (mode = "edit"),
    left <- IF mode = "edit" THEN Decoded(Before) ELSE <<>>,
    right <- IF mode = "edit" THEN Decoded(After) ELSE <<>>,
    memory <- [i \in DOMAIN history |-> Decoded(history[i])],
    result <- Decoded(line)
ImplementsEditedLine == Abstract!Spec

\* Ctrl-t "swaps current character with previous" (linenoise.h:2356).
SwapsCharacters ==
    [][SwapChars => Abstract!Swap \/ Stays]_vars
=============================================================================
