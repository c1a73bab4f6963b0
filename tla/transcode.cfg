\* Depths at both ends of the clamp; no RIFE, and RIFE that doubles or triples.
SPECIFICATION Spec
CONSTANTS
    NumSurfaces = 3
    NumPool = 4
    MaxRing = 3
    Requests = {0, 5}
    Factors = {1, 2, 3}
    MaxPictures = 5
    MaxPackets = 2
INVARIANTS
    TypeOK
    PicturesInOrder
    NothingLost
PROPERTIES
    RunEnds
