SPECIFICATION Spec
CONSTANTS
    r1 = r1
    r2 = r2
    Seasons = {1, 2}
    First = 1
    Users = {"ana", "bea"}
    Founder = "ana"
    Roles = {"admin", "seller"}
    Requests = {r1, r2}
    MaxServed = 4
    MaxHistory = 1
SYMMETRY RequestSymmetry
CHECK_DEADLOCK FALSE
INVARIANTS TypeOK OneInCourse OrderlyCourse HistoryKept
PROPERTIES DirectionGuarded ArrivesWithDirection
