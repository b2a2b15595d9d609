\* Two HAL threads, the real queue depth, kernel errors and spurious wakeups.
SPECIFICATION Spec
CONSTANTS
    Threads = {sf, hotplug}
    MaxQueueDepth = 2
    MaxCompositions = 3
    SpuriousWorkers = {"compositor", "frame"}
    IoctlFailures = TRUE
INVARIANTS
    TypeOK
    QueueBounded
    FrameSignalNotLost
PROPERTIES
    FramesInOrder
    FrameQueueDrains
    TimedWaitRecovers
\* HAL threads may stop submitting.
CHECK_DEADLOCK FALSE
