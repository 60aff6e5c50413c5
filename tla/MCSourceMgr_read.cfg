\* Every input of up to four characters, with and without a terminator, and
\* namespaces read from two load paths while their files change.
SPECIFICATION SrcSpec
CHECK_DEADLOCK FALSE
CONSTANTS
    MaxText = 4
    MaxReads = 3
    MaxEdits = 2
    Texts <- AllTexts
    Tails <- AnyTail
    LocMod = 4
    Names <- TwoNames
    LoadPaths = 2
    Contents <- SomeContents
    Sessions <- TwoKinds
    Widths <- TwoWidths
    NoFile = NoFile
INVARIANTS
    SrcTypeOK
    OverrunsAreKnown
    NothingDropped
    VerdictIsRight
    LocationsAreRight
    PointersAreRight
PROPERTY ReaderReturns
