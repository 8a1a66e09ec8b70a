SPECIFICATION Spec
CONSTANTS
    Requests = {r1, r2}
    Bots = {b1, b2}
    Phones = {p1}
    None = None
INVARIANT NotFoundMeansMissing
