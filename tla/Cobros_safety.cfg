\* Two sales, two requests at a time, two payments of each sale.
SPECIFICATION Spec
CONSTANTS
    s1 = s1
    s2 = s2
    Sales = {s1, s2}
    Price <- MCPrice
    Requests = {r1, r2}
    MaxPayments = 2
INVARIANTS OrderlySales OnlyBulkDeadlocks
PROPERTY CacheHeals
SYMMETRY MCRequestSymmetry
\* When every sale is void and has no payments, nothing is left to do.
CHECK_DEADLOCK FALSE
