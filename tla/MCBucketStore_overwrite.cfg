\* The S3 driver alone.
SPECIFICATION Spec
CONSTANTS
    Callers = {c1, c2}
    Hashes = {h1}
    short = short
    long = long
    Bodies = {short, long}
    Length <- MCLength
    None = None
    MaxLate = 0
    Drivers = {"s3"}
SYMMETRY Symmetry
PROPERTIES
    WriteOnce
