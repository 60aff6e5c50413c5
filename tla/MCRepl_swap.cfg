\* Ctrl-t exchanges bytes, also those of one character.
SPECIFICATION Spec
CHECK_DEADLOCK FALSE
CONSTANTS
    Prompt <- ShortPrompt
    HistoryMaxLen = 3
    Users <- Careless
    MaxStarts = 1
    MaxChars = 2
PROPERTY SwapsCharacters
