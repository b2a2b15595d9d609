\* Three usable planes of five, two of them primary, two regions, a history of one frame.
SPECIFICATION Spec
CONSTANTS
    p1 = p1
    p2 = p2
    p3 = p3
    o1 = o1
    o2 = o2
    Cells = {1, 2}
    Geometries <- SmallGeometries
    PrimaryPlanes <- Primaries
    OverlayPlanes <- Overlays
    Supported = {p1, p3, o2}
    HistoryLength = 1
    Handles = 2
    MaxGeometries = 2
    MaxPending = 1
INVARIANTS
    TypeOK
    PictureRight
    ProtectedNeverRendered
    ProtectedNotCovered
    PlanesSuffice
    StaleOnlyPrimary
    ReleaseAfterLastUse
\* Clients may stop sending frames.
CHECK_DEADLOCK FALSE
