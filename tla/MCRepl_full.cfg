\* A character of several bytes is typed when one byte of the buffer is left.
SPECIFICATION Spec
CHECK_DEADLOCK FALSE
CONSTANTS
    Prompt <- ShortPrompt
    HistoryMaxLen = 3
    Users <- Crammed
    MaxStarts = 1
    MaxChars = 4
INVARIANT TerminatorFits
