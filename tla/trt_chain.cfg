\* Both modes, with a caller that asks aji_pre_resize each time.
SPECIFICATION Spec
CONSTANTS
    Files <- MCConf
    Slots = {0, 1}
    Libraries <- MCLibraries
    Scale <- MCScale
    Sizes <- MCSizes
    Rates = {24}
    Formats = {"nv12", "yuv444p16"}
    Sitings = {"left", "center"}
    Colours = {"bt709"}
    RifeDir = TRUE
    OrderFirst = FALSE
    DirectModes = {TRUE, FALSE}
INVARIANTS
    TypeOK
    MemorySafe
    FramesGetTheirChain
    NeverRefused
    HoistIsInvisible

\* The user may stop playing.
CHECK_DEADLOCK FALSE
