\* One player at a time, that may quit, die and start again.
SPECIFICATION Spec
CONSTANTS
    model = model
    interp = interp
    Engines <- MCEngines
    Chains <- MCChains
    MaxProcs = 4
    MaxCalls = 3
INVARIANTS
    TypeOK
    EngineWhole
    QuitIsClean
PROPERTIES
    ChainSettles

\* The user may stop playing.
CHECK_DEADLOCK FALSE
