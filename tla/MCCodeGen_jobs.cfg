\* Every tree of up to three forms, every small SLIR and LLVM module.
SPECIFICATION Spec
CHECK_DEADLOCK FALSE
CONSTANTS
    IntMax = 4
    Parts = {"ns", "/", "_serene_", "randomname", "f", "g", "h", "a", "b"}
    MaxForms = 3
    Jobs <- AllJobs
INVARIANTS
    OutcomeIsRight
    PackedOnce
    LoweredIsClosed
