\* Waits may time out.
SPECIFICATION Spec
CONSTANTS
    Depth = 2
    MaxMarkers = 6
    MaxLists = 4
    Late = {TRUE}
INVARIANTS
    CompleteMeansReached
