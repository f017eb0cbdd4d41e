\* Sweeps under fairness, with one swap of the backend and one failure.
SPECIFICATION FairSpec
CONSTANTS
    Hashes = {1, 2}
    Backends = {disk, bucket}
    Janitors = {j1}
    Pruners = {}
    Readers = {}
    Writers = {w1}
    Deleters = {a1}
    MaxAge = 1
    UnreadAfter = 1
    PruneAges = {1}
    PageSize = 1
    MaxTime = 2
    MaxSwaps = 1
    MaxFaults = 1
    None = None
PROPERTIES
    OldEntriesGo
    ScansSpareTheRest
    ScansAreComplete
