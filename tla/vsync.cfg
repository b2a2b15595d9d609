\* Two frame times, a microsecond of two units, one change of the table.
SPECIFICATION Spec
CONSTANTS
    Frames = {2, 3}
    Granule = 2
    MaxTime = 7
    MaxProcs = 2
    MaxToggles = 3
INVARIANTS
    TypeOK
    OneCallAfterDisable
    OneCallToOldProcs
    SleepsInPhase
PROPERTIES
    TimestampsAdvance
    EnableWakes
\* Time is bounded.
CHECK_DEADLOCK FALSE
