\* A delivery, two RPCs, two gates, two nodes; two pages compete for a cache
\* of one entry.
CONSTANTS
    Nodes = {n1, n2}
    Requests = {r1}
    Admins = {a1, a2}
    GateIds = {g1, g2}
    Apps = {app1}
    Pages = {page1, page2}
    Peers = {bot1}
    CacheSize = 1
    None = None
SYMMETRY Symmetry
SPECIFICATION Spec
INVARIANTS
    TypeOK
    RoutedOnLiveRow
    IgnoredWasDisabledOnce
    OnePageOneGate
PROPERTIES
    DeletedStaysDeleted
