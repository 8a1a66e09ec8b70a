SPECIFICATION ServicesSpec
CONSTANTS
    added = added  n1 = n1  n2 = n2
    a1 = a1  k1 = k1  k2 = k2  s1 = s1  u1 = u1  l1 = l1  x2 = x2  b1 = b1
    Gates = {g1}
    EventTypes = {e1, e2}
    Templates = {t1, t2}
    Shows <- MCShows
    Bare = {t2}
    Broken = {}
    Roles = {added}
    Persons = {c1, c2}
    Profiles <- MCProfiles
    Senders = {r1}
    NameCacheSize = 1
    Blank = Blank
    Given = Given
    Nothing = Nothing
    Apps = {a1, a2}
    AppKeys = {k1, k2}
    Secrets = {s1, s2}
    SecretOf <- MCSecretOf
    Redirects = {u1, u2}
    ScopeLists = {l1, l2}
    Calls = {x1, x2}
    Flows = {f1}
    NoScopes = NoScopes
    NoApp = NoApp
    Uploads = {m1, m2}
    Bodies = {b1, b2}
    Blocks <- MCBlocks
    Buffers = {p1, p2}
    None = None
    Keyboards <- MCKeyboards
    Menus <- MCMenus
    MaxQuickReplies = 3
    MaxButtons = 2
    MaxElements = 2
    MaxButtonsPerElement = 1
    ListedGates = {h1, h2, h3}
    Times = {1, 2, 3}
    Sizes = {0, 2}
    DefaultSize = 1
SYMMETRY MCSymmetry
INVARIANTS
    MessagesTypeOK
    TemplatesHaveGates
    TextOfOwnGate
    NamesOfOwnContacts
    SkippedForAReason
    AppsTypeOK
    DeletedOnceForAll
    SettingsNamedTogether
    TokenOfOwnDialog
    MediaTypeOK
    BuffersAccounted
    WholeOrNothing
    KeyboardFits
    NothingLeftOut
    MenuFlattened
    EveryGateListed
PROPERTIES
    UploadIsOneStep
    PassesGoForward
CHECK_DEADLOCK FALSE
