\* The GCS driver alone.
SPECIFICATION Spec
CONSTANTS
    Callers = {c1, c2}
    Hashes = {h1}
    short = short
    long = long
    Bodies = {short, long}
    Length <- MCLength
    None = None
    MaxLate = 0
    Drivers = {"gcs"}
SYMMETRY Symmetry
INVARIANTS
    WholeArtifacts
