\* One player at a time, that may quit, die and start again.
SPECIFICATION Spec
CONSTANTS
    model = model
    rife = rife
    Engines <- MCEngines
    Chains <- MCChains
    Frail <- MCFrail
    MaxProcs = 4
    MaxCalls = 3
INVARIANTS
    TypeOK
    EngineWhole
    ConfigureDoesNotWait
    QuitIsClean
PROPERTIES
    ChainSettles

\* The user may stop playing.
CHECK_DEADLOCK FALSE
