\* One function, two requests at a time, one seller who stays and one who leaves
\* and comes back.
SPECIFICATION Spec
CONSTANTS
    Functions = {f1}
    Seasons = {s1}
    ActiveSeason = s1
    SeasonOf <- MCSeasonOf
    Users <- MCUsers
    Role0 <- MCRole0
    Churn <- MCChurn
    Edited = {}
    Requests = {r1, r2}
    MaxCapacity = 2
    MaxQuantity = 1
    Free = Free
INVARIANT SumFitsCapacity
SYMMETRY MCRequestSymmetry
