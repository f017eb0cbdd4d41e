\* One replica, one backend, no failure: a read races a delete.
SPECIFICATION Spec
CONSTANTS
    Hashes = {1}
    Backends = {disk}
    Janitors = {}
    Pruners = {}
    Readers = {r1}
    Writers = {w1}
    Deleters = {a1}
    MaxAge = 2
    UnreadAfter = 1
    PruneAges = {1}
    PageSize = 1
    MaxTime = 3
    MaxSwaps = 0
    MaxFaults = 0
    None = None
INVARIANTS
    NoOrphanRows
