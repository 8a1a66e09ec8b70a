\* A gate with one event and one template, and a request.
SPECIFICATION MessagesSpec
CONSTANTS
    added = added  n1 = n1  n2 = n2
    Gates = {g1}
    EventTypes = {e1}
    Templates = {t1}
    Shows <- MCShows
    Bare = {}
    Broken = {}
    Roles = {added}
    Persons = {c1}
    Profiles <- MCProfiles
    Senders = {r1}
    NameCacheSize = 1
    Blank = Blank
    Given = Given
    Nothing = Nothing
INVARIANT DefaultTextUsed
CHECK_DEADLOCK FALSE
