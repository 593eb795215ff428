\* One function, two requests at a time, an untouched seller and one whose
\* membership changes.
SPECIFICATION Spec
CONSTANTS
    Functions = {f1}
    Seasons = {s1}
    ActiveSeason = s1
    SeasonOf <- MCSeasonOf
    Users <- MCUsers
    Role0 <- MCRole0
    Churn <- MCChurn
    Edited = {}
    Requests = {r1, r2}
    MaxCapacity = 2
    MaxQuantity = 1
    Free = Free
INVARIANTS CapacityHolds QuotaHolds AssignedFits DeletedIsBare
SYMMETRY MCRequestSymmetry
