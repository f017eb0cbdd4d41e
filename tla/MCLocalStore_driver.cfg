\* Two requests at once on one hash, two bodies, two inodes; with fairness,
\* and so without symmetry.
SPECIFICATION FairSpec
CONSTANTS
    Callers = {c1, c2}
    Hashes = {h1}
    short = short
    long = long
    Bodies = {short, long}
    Length <- MCLength
    None = None
    Inodes = {i1, i2}
INVARIANTS
    TypeOK
    WholeArtifacts
    HandedOutWhole
    TempsAccounted
PROPERTIES
    WriteOnce
    CallsAdvance
    ImplementsContract
    CallsReturn
    TempsReclaimed
