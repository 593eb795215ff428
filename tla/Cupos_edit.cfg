\* The capacity of the function is edited while tickets are sold.
SPECIFICATION Spec
CONSTANTS
    Functions = {f1}
    Seasons = {s1}
    ActiveSeason = s1
    SeasonOf <- MCSeasonOf
    Users <- MCOneUser
    Role0 <- MCRole0
    Churn = {}
    Edited = {f1}
    Requests = {r1, r2}
    MaxCapacity = 2
    MaxQuantity = 1
    Free = Free
INVARIANT CapacityCoversIssued
CHECK_DEADLOCK FALSE
