\* One caller is enough to lose two signals and then block for ever.
SPECIFICATION Spec
CONSTANTS
    Threads = {sf}
    MaxQueueDepth = 2
    MaxCompositions = 3
    SpuriousWorkers = {}
    IoctlFailures = FALSE
PROPERTY QueueCompositionReturns
CHECK_DEADLOCK FALSE
