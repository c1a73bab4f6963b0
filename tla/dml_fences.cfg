\* A GPU that answers in time, and one that may stop.
SPECIFICATION Spec
CONSTANTS
    Depth = 2
    MaxMarkers = 5
    MaxLists = 4
    Late = {FALSE, TRUE}
INVARIANTS
    TypeOK
    IdleWhenReset
PROPERTIES
    CallsReturn
    ImplementsTickets

\* The caller may stop calling.
CHECK_DEADLOCK FALSE
