\* One replica, one backend, no failure: an upload races a sweep.
SPECIFICATION Spec
CONSTANTS
    Hashes = {1}
    Backends = {disk}
    Janitors = {j1}
    Pruners = {}
    Readers = {}
    Writers = {w1}
    Deleters = {a1}
    MaxAge = 2
    UnreadAfter = 1
    PruneAges = {1}
    PageSize = 1
    MaxTime = 3
    MaxSwaps = 0
    MaxFaults = 0
    None = None
PROPERTIES
    AgeGate
