\* Two workers, and a filter that drains by waiting for its newest ticket.
SPECIFICATION Spec
CONSTANTS
    KRing = 2
    MaxWorkers = 2
    Modes <- MCParallelDrain
    Depth = 2
    MaxFrames = 3
INVARIANTS
    CompleteMeansFinished
