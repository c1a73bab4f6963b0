SPECIFICATION Spec
CONSTANTS
    KRing = 2
    Depth = 2
    MaxFrames = 3
INVARIANTS
    TypeOK
    SlotsSound
    CollectedMeansWritten
PROPERTIES
    CallsReturn
    ImplementsTickets
