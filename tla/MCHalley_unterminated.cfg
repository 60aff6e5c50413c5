\* DylibJustCreatedIsFound does not hold: see PROJECT.json, findings.
SPECIFICATION Spec
CHECK_DEADLOCK FALSE
INVARIANT DylibJustCreatedIsFound
CONSTANTS
    NS = {n1}
    Dirs = {d1}
    CLPaths <- OnePath
    Kept = {"o"}
    Disks <- Fixed
    Volatile <- NoFiles
    Strings = {n1, junk}
    Reads <- RunningOnAlone
    Assertions = TRUE
    SessionMayFail = FALSE
    EnableObjectCache = FALSE
    MaxDylibs = 2
    MaxEdits = 0
CONSTANTS
    d1 = d1
    d2 = d2
    n1 = n1
    n2 = n2
    img = img
    libc = libc
    Images = {img, libc}
    NeedProcess = {libc}
    Absent = Absent
    Corrupt = Corrupt
    NoImage = NoImage
    Pending = Pending
    Failed = Failed
    junk = junk
