\* One ticket with a true QR, and two check-ins of one device at once.
SPECIFICATION Spec
CONSTANTS
    Devices = {d1}
    Tickets = {t1}
    Forged = {}
    Tasks = {k1, k2}
    Calls = {c1, c2}
    MaxItems = 2
    MaxBatch = 2
    NoSnapshot = NoSnapshot
    Nobody = Nobody
INVARIANT OneGreenPerDevice
