\* The real queue depth, and enough frames to fill it behind one in the hand.
SPECIFICATION Spec
CONSTANTS
    MaxQueueDepth = 3
    MaxLayers = 2
    MaxPoints = 9
    SpuriousWakeups = TRUE
    Failures = TRUE
INVARIANTS
    TypeOK
    NoEarlyRelease
PROPERTIES
    QueueCompositeReturns
    QueueDrains
\* SurfaceFlinger may stop submitting.
CHECK_DEADLOCK FALSE
