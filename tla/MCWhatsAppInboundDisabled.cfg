SPECIFICATION Spec
CONSTANTS
    u1 = u1  u2 = u2  a1 = a1  a2 = a2  d1 = d1  d2 = d2
    Deliveries = {d1}
    Payloads <- MCPayloads
    Users = {u1, u2}
    Accounts = {a1, a2}
    MaxAttempts = 2
    MaxTries = 2
PROPERTIES
    NoEnabledGateIsNoError
CHECK_DEADLOCK FALSE
