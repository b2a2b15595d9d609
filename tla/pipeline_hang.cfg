\* No errors, only test commits the kernel refuses.
SPECIFICATION Spec
CONSTANTS
    MaxFrames = 4
    DisplayBuffers = 3
    Plans <- PreCompPlans
    Failures = FALSE
PROPERTY
    PrepareReturns
CHECK_DEADLOCK FALSE
