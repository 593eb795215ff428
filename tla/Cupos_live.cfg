\* One function whose capacity is edited and one seller, with sales of up to two
\* tickets: every request is answered, and every sale is atomic.
SPECIFICATION FairSpec
CONSTANTS
    Functions = {f1}
    Seasons = {s1}
    ActiveSeason = s1
    SeasonOf <- MCSeasonOf
    Users <- MCOneUser
    Role0 <- MCRole0
    Churn = {}
    Edited = {f1}
    Requests = {r1, r2}
    MaxCapacity = 3
    MaxQuantity = 2
    Free = Free
INVARIANTS TypeOK ChecksStillTrue
PROPERTIES SeatsTakenAtomically RequestsEnd
\* Once its only function is deleted, nothing more can be asked of the system.
CHECK_DEADLOCK FALSE
