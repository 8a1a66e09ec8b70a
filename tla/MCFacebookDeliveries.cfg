SPECIFICATION MCFairSpec
CONSTANTS
    u1 = u1  u2 = u2  pg1 = pg1  pg2 = pg2  g1 = g1  g2 = g2  n1 = n1  n2 = n2
    d1 = d1  d2 = d2
    None = None
    Deliveries = {d1, d2}
    Payloads <- MCPayloads
    Users = {u1, u2}
    Names = {n1, n2}
    Localized = {u2}
    Pages = {pg1}
    GateIds = {g1}
    MaxAttempts = 2
    MaxTries = 2
INVARIANTS
    TypeOK
    ContactBeforeMessage
    InPayloadOrder
    ForwardedByOneCall
    FailureBlocksNoOther
PROPERTIES
    NeverForwardedAgain
    EveryDeliveryAnswered
CHECK_DEADLOCK FALSE
