\* Two replicas with one request each, two user ids and two emails.
SPECIFICATION Spec
CONSTANTS
    Users = {u1, u2}
    Emails = {admin, other}
    Sessions = {s1, s2}
    Tokens = {t1}
    r1 = r1
    p1 = p1
    p2 = p2
    Replicas = {p1, p2}
    Handlers = {r1, r2}
    Replica <- MCReplica
    BootEmail = admin
    MaxChanges = 1
    None = None
SYMMETRY Symmetry
INVARIANTS
    TypeOK
    DeadCredentialsStayOut
    SessionsHaveUsers
    SomebodyCanLogIn
PROPERTIES
    ChangesHaveCallers
