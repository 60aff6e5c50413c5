--------------------------------- MODULE MCRepl ---------------------------------
(* Users for checking Repl.                                                *)
EXTENDS Repl

CONSTANT MaxChars       \* bound: the characters of the long line

a == <<97>>
b == <<98>>
blank == <<32>>
acute == <<204, 129>>                   \* U+0301, a mark
han == <<228, 184, 173>>                \* U+4E2D, two columns wide

ShortPrompt == <<62>>

\* One who edits one long line of all kinds of characters on a narrow terminal,
\* and one who edits words.
Writer ==
    [typed |-> {a, acute, han},
     keys |-> {"Left", "Right", "Home", "End", "Backspace", "Delete",
               "DeleteLine", "DeleteRest", "ClearScreen"},
     widths |-> {3}, path |-> TRUE,
     maxLine |-> 4096, maxChars |-> MaxChars, maxLines |-> 1]
Novelist ==
    [Writer EXCEPT !.typed = {blank, han}, !.widths = {4},
                   !.keys = {"Left", "Right", "Home", "DeletePrevWord", "Enter"}]
\* One who enters many short lines and walks through the history.
Talker ==
    [typed |-> {a, b},
     keys |-> {"Up", "Down", "Enter", "CtrlC", "CtrlD", "InputError", "NoRawMode"},
     widths |-> {9}, path |-> TRUE, maxLine |-> 2, maxChars |-> 2, maxLines |-> 4]
\* One who swaps single-byte characters in a buffer that gets full, on a
\* terminal that fails.
Swapper ==
    [typed |-> {a, b, blank},
     keys |-> {"Left", "Right", "SwapChars", "Enter", "InputError", "NoRawMode"},
     widths |-> {3}, path |-> FALSE, maxLine |-> 5, maxChars |-> 5, maxLines |-> 1]
\* Input from a file.
Script ==
    [typed |-> {a, b}, keys |-> {"Plain"},
     widths |-> {9}, path |-> TRUE, maxLine |-> 2, maxChars |-> 2, maxLines |-> 4]

Careful == {Writer, Novelist, Talker, Swapper, Script}
\* What the theorems about users assume.
ASSUME CarefulFit == \A u \in Careful : Fits(u) /\ Proper(u) /\ Wide(u)
ASSUME PromptFits == Whole(Prompt) /\ ColumnPos(Prompt) # 0
\* One whose line fills the buffer, with a last character of several bytes.
Crammer ==
    [typed |-> {a, han}, keys |-> {"Left", "Backspace", "Enter"},
     widths |-> {9}, path |-> FALSE, maxLine |-> 4, maxChars |-> 4, maxLines |-> 1]
Crammed == {Crammer}
Careless == {[Writer EXCEPT !.keys = @ \union {"SwapChars"}]}
=============================================================================
