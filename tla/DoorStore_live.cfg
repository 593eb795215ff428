\* One ticket, scanned at most three times, its code also in a QR with a false
\* signature; a batch of the server takes two entries.
SPECIFICATION FairSpec
CONSTANTS
    Devices = {d1}
    Tickets = {t1}
    Forged = {t1}
    Tasks = {k1}
    Calls = {c1}
    MaxItems = 3
    MaxBatch = 2
    NoSnapshot = NoSnapshot
    Nobody = Nobody
PROPERTY QueueReachesServer
