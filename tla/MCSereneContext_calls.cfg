SPECIFICATION Spec
CONSTANTS
    user = user
    n1 = n1
    foo = foo
    bar = bar
    none = none
    random = random
    nosource = nosource
    unparsable = unparsable
    Default = user
    Syms = {foo, bar}
    NoSym = none
    RandomName = random
    NoSource = nosource
    Unparsable = unparsable
    NS = {user, n1}
    Programs <- All
    InitialFiles <- EmptyFiles
    Editable = {n1}
    Reloadable = {n1}
    Phases = {0, 3, 6}
    EnableObjectCache = TRUE
    SessionMayFail = TRUE
    MaxCalls = 5
INVARIANTS
    TypeOK
    FnNamesUnique
    EvaluatedIsPublished
    NeverPanics
    BufferAtLeastAsNew
PROPERTIES ImportedIsPublished ImplementsRegistry
CHECK_DEADLOCK FALSE
