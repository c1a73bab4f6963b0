\* A caller that asks aji_pre_resize only when RIFE comes first.
SPECIFICATION Spec
CONSTANTS
    Files <- MCConf
    Slots = {0, 1}
    Libraries <- MCLibraries
    Scale <- MCScale
    Sizes <- MCSizes
    Rates = {24}
    Formats = {"nv12", "yuv444p16"}
    Sitings = {"left", "center"}
    Colours = {"bt709"}
    RifeDir = TRUE
    OrderFirst = TRUE
    DirectModes = {FALSE}
INVARIANTS
    NeverRefused

CHECK_DEADLOCK FALSE
