\* Users of every habit but one: swapping characters of several bytes.
SPECIFICATION Spec
CHECK_DEADLOCK FALSE
CONSTANTS
    Prompt <- ShortPrompt
    HistoryMaxLen = 3
    Users <- Careful
    MaxStarts = 2
    MaxChars = 4
INVARIANTS
    CursorOnCharacter
    ScreenShowsLine
    HistoryIsRecent
PROPERTY ImplementsEditedLine
