SPECIFICATION Spec
CONSTANTS
    user = user
    n1 = n1
    foo = foo
    bar = bar
    none = none
    random = random
    nosource = nosource
    unparsable = unparsable
    Default = user
    Syms = {foo, bar}
    NoSym = none
    RandomName = random
    NoSource = nosource
    Unparsable = unparsable
    NS = {user}
    Programs <- Functions
    InitialFiles <- NoFiles
    Editable = {}
    Reloadable = {}
    Phases = {6}
    EnableObjectCache = TRUE
    SessionMayFail = FALSE
    MaxCalls = 4
INVARIANT EvalAnswers
CHECK_DEADLOCK FALSE
