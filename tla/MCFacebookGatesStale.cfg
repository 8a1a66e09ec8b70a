\* One node, one delivery, one RPC, one gate.
CONSTANTS
    Nodes = {n1}
    Requests = {r1}
    Admins = {a1}
    GateIds = {g1}
    Apps = {app1}
    Pages = {page1}
    Peers = {bot1}
    CacheSize = 1
    None = None
SPECIFICATION Spec
INVARIANT IgnoredOnlyIfDisabled
