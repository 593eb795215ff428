\* One device that queues at most three entries of one ticket, whose code is also in a
\* QR with a false signature; two check-ins at once and a batch of at most two.
SPECIFICATION Spec
CONSTANTS
    Devices = {d1}
    Tickets = {t1}
    Forged = {t1}
    Tasks = {k1, k2}
    Calls = {c1, c2}
    MaxItems = 3
    MaxBatch = 2
    NoSnapshot = NoSnapshot
    Nobody = Nobody
INVARIANTS GreenIsKept RedHasReason
SYMMETRY MCSymmetry
