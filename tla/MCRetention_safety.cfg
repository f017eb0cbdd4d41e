\* A sweep and a prune over two pages of one entry each, with uploads and reads.
SPECIFICATION Spec
CONSTANTS
    Hashes = {1, 2}
    Backends = {disk}
    Janitors = {j1}
    Pruners = {p1}
    Readers = {r1}
    Writers = {w1}
    Deleters = {}
    MaxAge = 1
    UnreadAfter = 0
    PruneAges = {1}
    PageSize = 1
    MaxTime = 2
    MaxSwaps = 0
    MaxFaults = 0
    None = None
INVARIANTS
    TypeOK
PROPERTIES
    ScansSpareTheRest
    ScansAreComplete
    ScansAdvance
    OnlyLateReadsOrphan
