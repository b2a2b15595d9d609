\* Two monitors, the second listing one mode of the first.
SPECIFICATION Spec
CONSTANTS
    Timings = {1, 2}
    ModeLists <- Lists
    Preferred = {2}
    MaxQueueDepth = 1
    MaxFrames = 1
    MaxPlugs = 1
    MaxCalls = 1
    MaxQueries = 2
    IoctlFailures = TRUE
INVARIANTS
    TypeOK
    ConfigsKeepMeaning
    BlobsAccounted
PROPERTIES
    ModesetConverges
\* Nothing happens on a display that is off.
CHECK_DEADLOCK FALSE
