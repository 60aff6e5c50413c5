\* A buffer without a terminator, and what lies behind it.
SPECIFICATION SrcSpec
CHECK_DEADLOCK FALSE
CONSTANTS
    MaxText = 2
    MaxReads = 0
    MaxEdits = 0
    Texts <- AllTexts
    Tails <- AnyTail
    LocMod = 4
    Names <- TwoNames
    LoadPaths = 2
    Contents <- NoContents
    Sessions <- TwoKinds
    Widths <- TwoWidths
    NoFile = NoFile
INVARIANT StaysInBuffer
