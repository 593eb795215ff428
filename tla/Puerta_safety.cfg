\* One sale of two tickets; three requests at a time.
SPECIFICATION Spec
CONSTANTS
    t1 = t1
    s1 = s1
    t2 = t2
    Sales = {s1}
    Tickets = {t1, t2}
    SaleOf <- MCSaleOf
    Requests = {r1, r2, r3}
INVARIANTS OneGreen AnnulledStaysOut VoidedSaleIsEmpty SnapshotNamesWhoEntered
PROPERTY EntriesAreFinal
SYMMETRY MCRequestSymmetry
