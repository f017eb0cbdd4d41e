\* One replica with two admins at it, a local directory and a bucket with one
\* credential, a change of the encryption key, and two failures or crashes.
SPECIFICATION FairSpec
CONSTANTS
    p1 = p1
    r1 = r1
    local = local
    bucket = bucket
    Replicas = {p1}
    Handlers = {r1, r2}
    Replica <- MCReplica
    Targets = {local, bucket, nowhere}
    Nowhere = nowhere
    Fields = {f1, f2}
    Secrets = {s1}
    Empty = Empty
    Nil = Nil
    Ttls = {1, 2}
    Sizes = {1, 2}
    Inputs <- MCInputs
    Working <- MCWorking
    Keys = {k1, k2}
    Seed <- MCSeed
    MaxAttempts = 2
    MaxFaults = 2
    None = None
INVARIANTS
    TypeOK
    StoredWorks
    ReportedIsInForce
    LiveIsStored
PROPERTIES
    RequestsAnswered
    ComesBack
    ImplementsRegister
    UndriftedSecretsKept
