CONSTANTS
    p1 = p1
    p2 = p2
    Events <- ThreeEvents
    Commits <- TwoWagers
    Publishers = {p1, p2}
    Stopping = {p1}
    BatchLimit = 2
    MaxCopies = 2
SPECIFICATION Spec
INVARIANTS
    TypeOK
PROPERTIES
    ImplementsRelay
    EveryEventIsPublished
CHECK_DEADLOCK FALSE
