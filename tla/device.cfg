\* Two connectors and a virtual display, two calls, every failure.
SPECIFICATION Spec
CONSTANTS
    primary = primary
    external = external
    Virtual = virtual
    Connectors <- TwoConnectors
    Buffers = {b1}
    Contents <- SmallContents
    MaxCalls = 2
    MaxQueued = 2
    MaxRefused = 1
INVARIANTS
    FencesAnswered
    DescriptorsAccounted
    NoEarlyFence
\* The calls are bounded.
CHECK_DEADLOCK FALSE
