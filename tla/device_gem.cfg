\* One display that shows its buffer again before the frame that showed it
\* first has ended.
SPECIFICATION Spec
CONSTANTS
    primary = primary
    external = external
    Virtual = virtual
    Connectors <- OneConnector
    Buffers = {b1}
    Contents <- PlainContents
    MaxCalls = 2
    MaxQueued = 2
    MaxRefused = 0
INVARIANT ReleaseIsInverse
CHECK_DEADLOCK FALSE
