\* Three requests at once on one hash, with each of the two drivers.
SPECIFICATION Spec
CONSTANTS
    Callers = {c1, c2, c3}
    Hashes = {h1}
    short = short
    long = long
    Bodies = {short, long}
    Length <- MCLength
    None = None
    MaxLate = 1
    Drivers = {"s3", "gcs"}
SYMMETRY Symmetry
INVARIANTS
    TypeOK
PROPERTIES
    KeepsRestOfContract
