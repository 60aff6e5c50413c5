\* How namespaces and libraries are filed and numbered, when what follows a
\* name in memory may be a terminator or not.
SPECIFICATION Spec
CHECK_DEADLOCK FALSE
INVARIANTS
    VersionNamesUnique
PROPERTIES
    ImplementsRegistry
CONSTANTS
    NS = {n1, n2}
    Dirs = {d1}
    CLPaths <- OnePath
    Kept = {"o", "a", "so"}
    Disks <- Fixed
    Volatile <- NoFiles
    Strings = {n1, n2, junk}
    Reads <- RunningOn
    Assertions = FALSE
    SessionMayFail = FALSE
    EnableObjectCache = FALSE
    MaxDylibs = 3
    MaxEdits = 0
CONSTANTS
    d1 = d1
    d2 = d2
    n1 = n1
    n2 = n2
    img = img
    libc = libc
    Images = {img, libc}
    NeedProcess = {libc}
    Absent = Absent
    Corrupt = Corrupt
    NoImage = NoImage
    Pending = Pending
    Failed = Failed
    junk = junk
