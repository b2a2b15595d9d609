\* Overlaps of two, three and four rectangles; a limit of four.
SPECIFICATION Spec
CONSTANTS
    Inputs <- GridInputs
    MaxElements = 4
INVARIANTS
    TypeOK
    SweptExactly
    AssertsHold
PROPERTY
    EverythingEnded
\* The sweep ends.
CHECK_DEADLOCK FALSE
