\* One worker, whatever the order of collection; two, the oldest first.
SPECIFICATION Spec
CONSTANTS
    KRing = 3
    MaxWorkers = 2
    Modes <- MCModes
    Depth = 3
    MaxFrames = 4
INVARIANTS
    TypeOK
    SlotsSound
PROPERTIES
    ImplementsTickets
    Progress
