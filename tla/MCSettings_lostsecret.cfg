\* Two replicas with an admin at each, and nothing that fails: one of them
\* stores a credential, the other stores something else with no credential given.
SPECIFICATION Spec
CONSTANTS
    p1 = p1
    r1 = r1
    local = local
    bucket = bucket
    Replicas = {p1, p2}
    Handlers = {r1, r2}
    Replica <- MCReplica
    Targets = {local, bucket, nowhere}
    Nowhere = nowhere
    Fields = {f1, f2}
    Secrets = {s1, s2}
    Empty = Empty
    Nil = Nil
    Ttls = {1, 2}
    Sizes = {1, 2}
    Inputs <- MCInputs
    Working <- MCWorking
    Keys = {k1}
    Seed <- MCSeed
    MaxAttempts = 1
    MaxFaults = 0
    None = None
PROPERTIES
    OmittedSecretsKept
