\* Every plan, every error, and SquashAll at any time.
SPECIFICATION Spec
CONSTANTS
    MaxFrames = 3
    DisplayBuffers = 3
    Plans <- AllPlans
    Failures = TRUE
INVARIANTS
    TypeOK
    ScanoutNotReleased
    NoScribble
    NoOrphanFence
PROPERTY
    NeverOlder
\* Clients may stop sending frames.
CHECK_DEADLOCK FALSE
