SPECIFICATION Spec
CONSTANTS
    c1 = c1  c2 = c2  a1 = a1  a2 = a2  g1 = g1  t1 = t1
    Nodes = {n1}
    Requests = {r1}
    GateIds = {g1, g2}
    Contacts = {c1, c2, c3}
    Addresses = {a1, a2}
    Subject <- MCSubject
    Domains = {d1}
    Tokens = {t1, t2}
    Kinds = {"text", "blank", "noFile", "interactive", "noButtons"}
    TypeCacheSize = 1
    PsidCacheSize = 1
    NoDomain = NoDomain
    None = None
CONSTRAINT MCTokens
INVARIANTS
    TypeOK
    CachesAreTrue
    LeavesThroughItsGate
PROPERTY CachesAreNotSeen
