SPECIFICATION Spec
CONSTANTS
    u1 = u1  u2 = u2  pg1 = pg1  pg2 = pg2  g1 = g1  g2 = g2  n1 = n1  n2 = n2
    None = None
    Deliveries = {d1}
    Payloads <- MCBatchedPayloads
    Users = {u1, u2}
    Names = {n1}
    Localized = {}
    Pages = {pg1, pg2}
    GateIds = {g1, g2}
    MaxAttempts = 1
    MaxTries = 1
INVARIANTS
    GateOfOwnPage
CHECK_DEADLOCK FALSE
