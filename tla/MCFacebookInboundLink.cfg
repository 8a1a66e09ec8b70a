SPECIFICATION Spec
CONSTANTS
    u1 = u1  u2 = u2  pg1 = pg1  pg2 = pg2  g1 = g1  g2 = g2  n1 = n1  n2 = n2
    None = None
    Deliveries = {d1}
    Payloads <- MCPostback
    Users = {u1}
    Names = {n1, n2}
    Localized = {}
    Pages = {pg1}
    GateIds = {g1, g2}
    MaxAttempts = 2
    MaxTries = 1
INVARIANTS
    LinkedUnlessCallFailed
CHECK_DEADLOCK FALSE
