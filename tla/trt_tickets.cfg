\* A ring of two events and a caller that keeps three frames in flight.
SPECIFICATION Spec
CONSTANTS
    Ring = 2
    Depth = 3
    MaxOps = 10
INVARIANTS
    TypeOK
    CompleteMeansRan
    RingTracksTickets
    FlushDoesNotBlock
PROPERTIES
    ImplementsTickets

\* The caller may stop calling.
CHECK_DEADLOCK FALSE
