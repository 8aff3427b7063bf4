SPECIFICATION Spec
CONSTANTS
    None = None
    Tasks = {t1}
    Bookings = {b1}
    Requests = {r1, r2}
    Photos = {p1}
    Attempts = 2
    MaxStalls = 0
    MaxFaults = 1
    MaxCrashes = 1
SYMMETRY Identical
INVARIANTS
    TypeOK
    PlacementAccounted
    AnswersBounded
PROPERTY
    UndisturbedWritesKeep
