\* Both workers in ApplyFrame at once.
SPECIFICATION Spec
CONSTANTS
    MaxFrames = 2
    DisplayBuffers = 3
    Plans <- PreCompPlans
    Failures = TRUE
INVARIANT
    DisabledIsSignalled
CHECK_DEADLOCK FALSE
