\* Every form of two levels of lists, and short programs of simpler forms.
SPECIFICATION Spec
CHECK_DEADLOCK FALSE
CONSTANTS
    def = def
    fn = fn
    f = f
    g = g
    MaxList = 3
    MaxForms = 3
    Syms <- AllSyms
    Forms <- AllForms
    Programs <- AllPrograms
    Bounds <- AllBounds
    Depth <- AllDepths
INVARIANTS
    TypeOK
    FunctionsKnowTheirNames
    AcceptanceIsRight
    EffectsAreRight
    EveryFormIsAnalysed
