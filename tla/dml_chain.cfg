\* One call may fail between two aji_configure.
SPECIFICATION ChainSpec
CONSTANTS
    Files <- MCConf
    Slots = {0, 1, 2}
    Libraries <- MCLibraries
    Scale <- MCScale
    Half <- MCHalf
    Sizes <- MCSizes
    Rates = {24}
    Formats = {"nv12", "p010", "rgb10"}
    Sitings = {"left", "center"}
    Textures = {1}
    RifeDir = TRUE
    MaxFailures = 1
INVARIANTS
    ChainTypeOK
    FramesGetTheirOwn
    InFlightKept
    PicturesFit

\* The user may stop playing.
CHECK_DEADLOCK FALSE
