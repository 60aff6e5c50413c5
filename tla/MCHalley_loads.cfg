\* Every call of the engine, interleaved with an edit of an object file
\* or of a file of LLVM IR.
SPECIFICATION Spec
CHECK_DEADLOCK FALSE
INVARIANTS
    TypeOK
    LoadedVersionsRun
    RegisteredOnce
    ModulesRunTheirPathsCode
PROPERTIES
    AddressesStable
    LoadedIsLatest
    SearchFollowsLoadPaths
    LoadReturns
CONSTANTS
    NS = {n1, n2}
    Dirs = {d1, d2}
    CLPaths <- TwoPaths
    Kept = {"o", "a", "so", "ll"}
    Disks <- Fixed
    Volatile <- ObjectsAndModules
    Strings = {n1, n2}
    Reads <- Ended
    Assertions = TRUE
    SessionMayFail = TRUE
    EnableObjectCache = TRUE
    MaxDylibs = 2
    MaxEdits = 1
CONSTANTS
    d1 = d1
    d2 = d2
    n1 = n1
    n2 = n2
    img = img
    libc = libc
    Images = {img, libc}
    NeedProcess = {libc}
    Absent = Absent
    Corrupt = Corrupt
    NoImage = NoImage
    Pending = Pending
    Failed = Failed
    junk = junk
