---------------------------- MODULE FacebookGates ----------------------------
(***************************************************************************)
(* Facebook gates: the rows that bind a Facebook page to a bot, the LRU    *)
(* cache of their state that every instance of the service keeps in        *)
(* memory, the webhook handler that resolves a page to a gate, and the     *)
(* administration RPCs that create, update and delete gates.               *)
(*                                                                         *)
(* A webhook and an RPC are sequences of calls (a cache access, a          *)
(* statement, a transaction), and other requests run between two of them:  *)
(* every call is an action of its own.  The database is shared by the      *)
(* instances ("nodes"); a cache belongs to one node and is lost with it.   *)
(*                                                                         *)
(* A meta app is identified with its webhook URI (both are UNIQUE).        *)
(***************************************************************************)
EXTENDS Naturals, FiniteSets

CONSTANTS
    Nodes,       \* running instances of the service
    Requests,    \* webhook deliveries in flight
    Admins,      \* administration RPCs in flight
    GateIds,     \* UUIDs the database can issue
    Apps,        \* meta apps, each with its webhook URI
    Pages,       \* Facebook page ids
    Peers,       \* bot identities a gate can be bound to
    CacheSize,   \* capacity of the LRU cache
    None         \* absent row, entry or value

Key == Apps \X Pages            \* gateKey: uri + ":" + pageID

ASSUME CacheSizePositive == CacheSize \in Nat \ {0}
ASSUME PagesAreNotKeys == Pages \cap Key = {}
ASSUME NoneIsNoValue == None \notin Key /\ None \notin GateIds

\* A gate as the three-table join returns it.
Version == [gate : GateIds, key : Key, enabled : BOOLEAN, peer : Peers]
GateRow == [enabled : BOOLEAN, peer : Peers]
CacheEntry == [gate : GateIds, enabled : BOOLEAN, peer : Peers]
CacheKey == Key \cup Pages

Job == [node : Nodes, key : Key]
Task == [node : Nodes, row : Version]

ASSUME NoneIsNoRecord ==
    /\ None \notin Version
    /\ None \notin GateRow
    /\ None \notin CacheEntry
    /\ None \notin Job
    /\ None \notin Task

VARIABLES
    gates,      \* tables gates and bots: GateIds -> GateRow or None
    facebook,   \* table facebook: GateIds -> Key or None
    cache,      \* GateCache of each node: CacheKey -> CacheEntry or None
    pc,         \* where each webhook delivery stands
    job,        \* node and page of each webhook delivery
    copy,       \* the gate a delivery has read
    apc,        \* where each administration RPC stands
    task,       \* node and row of each administration RPC
    past,       \* history: every version ever committed
    seen        \* history: versions committed while a delivery ran

db == <<gates, facebook, past, seen>>
webhook == <<pc, job, copy>>
admin == <<apc, task>>
vars == <<gates, facebook, cache, pc, job, copy, apc, task, past, seen>>

Finished == {"idle", "routed", "ignored", "failed"}
Running == {"lookup", "select", "store", "route"}

-----------------------------------------------------------------------------
(* The join over gates, bots and facebook.                                  *)

Exists(g) == gates[g] # None /\ facebook[g] # None

Row(g) == [gate    |-> g,
           key     |-> facebook[g],
           enabled |-> gates[g].enabled,
           peer    |-> gates[g].peer]

Rows == {Row(g) : g \in {h \in GateIds : Exists(h)}}

Issued == {v.gate : v \in past}

RowsAt(k) == {v \in Rows : v.key = k}

\* A commit makes the new rows visible to every delivery that is running.
Record ==
    /\ past' = past \cup Rows'
    /\ seen' = [r \in Requests |->
                  IF pc[r] \in Running
                  THEN seen[r] \cup {v \in Rows' : v.key = job[r].key}
                  ELSE seen[r]]

-----------------------------------------------------------------------------
(* The gate cache.                                                          *)

Cached(n) == {k \in CacheKey : cache[n][k] # None}

\* lru.Add: a new key on a full cache evicts one entry.
Set(n, k, e) ==
    LET full == k \notin Cached(n) /\ Cardinality(Cached(n)) >= CacheSize
    IN \E out \in SUBSET Cached(n) :
         /\ Cardinality(out) = IF full THEN 1 ELSE 0
         /\ cache' = [cache EXCEPT ![n] =
                        [x \in CacheKey |-> IF x = k THEN e
                                            ELSE IF x \in out THEN None
                                            ELSE cache[n][x]]]

\* lru.Remove
Delete(n, k) == cache' = [cache EXCEPT ![n][k] = None]

Empty == [k \in CacheKey |-> None]

-----------------------------------------------------------------------------
Init ==
    /\ gates = [g \in GateIds |-> None]
    /\ facebook = [g \in GateIds |-> None]
    /\ cache = [n \in Nodes |-> Empty]
    /\ pc = [r \in Requests |-> "idle"]
    /\ job = [r \in Requests |-> None]
    /\ copy = [r \in Requests |-> None]
    /\ apc = [a \in Admins |-> "idle"]
    /\ task = [a \in Admins |-> None]
    /\ past = {}
    /\ seen = [r \in Requests |-> {}]

-----------------------------------------------------------------------------
(* A webhook delivery: HandleWebhook and resolveGate.                       *)

\* Meta posts (or, after a 500, posts again) a payload of page k to node n.
Receive(r, n, k) ==
    /\ pc[r] \in Finished
    /\ pc' = [pc EXCEPT ![r] = "lookup"]
    /\ job' = [job EXCEPT ![r] = [node |-> n, key |-> k]]
    /\ copy' = [copy EXCEPT ![r] = None]
    /\ seen' = [seen EXCEPT ![r] = RowsAt(k)]
    /\ UNCHANGED <<gates, facebook, past, cache, admin>>

CachedDisabled(n, k) == cache[n][k] # None /\ ~ cache[n][k].enabled

\* Mutant of Lookup: a cached enabled gate is used without reading its row.
LookupTrustsCache(r) ==
    LET e == cache[job[r].node][job[r].key]
    IN /\ pc[r] = "lookup"
       /\ IF e # None /\ e.enabled
          THEN /\ pc' = [pc EXCEPT ![r] = "route"]
               /\ copy' = [copy EXCEPT ![r] =
                             [gate |-> e.gate, key |-> job[r].key,
                              enabled |-> TRUE, peer |-> e.peer]]
          ELSE /\ pc' = [pc EXCEPT ![r] = IF e # None THEN "ignored" ELSE "select"]
               /\ UNCHANGED copy
       /\ UNCHANGED <<job, db, cache, admin>>

\* gateCache.Get: only a cached disabled gate answers; anything else reads on.
Lookup(r) ==
    /\ pc[r] = "lookup"
    /\ pc' = [pc EXCEPT ![r] = IF CachedDisabled(job[r].node, job[r].key)
                               THEN "ignored" ELSE "select"]
    /\ UNCHANGED <<job, copy, db, cache, admin>>

\* SelectByPageAndURI finds a row.
SelectGate(r) ==
    /\ pc[r] = "select"
    /\ \E v \in RowsAt(job[r].key) : copy' = [copy EXCEPT ![r] = v]
    /\ pc' = [pc EXCEPT ![r] = "store"]
    /\ UNCHANGED <<job, db, cache, admin>>

\* Mutant of SelectFails: the missing row is handed on as an empty gate.
SelectFailsAsEmptyGate(r) ==
    /\ pc[r] = "select"
    /\ RowsAt(job[r].key) = {}
    /\ cache' = [cache EXCEPT ![job[r].node][job[r].key] =
                    [gate |-> None, enabled |-> FALSE, peer |-> None]]
    /\ pc' = [pc EXCEPT ![r] = "failed"]
    /\ UNCHANGED <<job, copy, db, admin>>

\* SelectByPageAndURI finds none, or the database fails: the webhook is
\* answered with an error and nothing is cached.
SelectFails(r) ==
    /\ pc[r] = "select"
    /\ pc' = [pc EXCEPT ![r] = "failed"]
    /\ UNCHANGED <<job, copy, db, cache, admin>>

\* Mutant of Store: the state is built without its Enabled field.
StoreWithoutEnabled(r) ==
    /\ pc[r] = "store"
    /\ Set(job[r].node, job[r].key,
           [gate |-> copy[r].gate, enabled |-> FALSE, peer |-> copy[r].peer])
    /\ pc' = [pc EXCEPT ![r] = IF copy[r].enabled THEN "route" ELSE "ignored"]
    /\ UNCHANGED <<job, copy, db, admin>>

\* gateCache.Set, then the test of gate.Enabled.
Store(r) ==
    /\ pc[r] = "store"
    /\ Set(job[r].node, job[r].key,
           [gate |-> copy[r].gate, enabled |-> copy[r].enabled,
            peer |-> copy[r].peer])
    /\ pc' = [pc EXCEPT ![r] = IF copy[r].enabled THEN "route" ELSE "ignored"]
    /\ UNCHANGED <<job, copy, db, admin>>

\* The messages of the payload are forwarded to the bot of the gate read.
Route(r) ==
    /\ pc[r] = "route"
    /\ pc' = [pc EXCEPT ![r] = "routed"]
    /\ UNCHANGED <<job, copy, db, cache, admin>>

-----------------------------------------------------------------------------
(* Administration.                                                          *)

\* Mutant of Insert: UNIQUE (meta_app_id, page_id) is missing.
InsertNotUnique(g, k, p) ==
    /\ g \notin Issued
    /\ gates' = [gates EXCEPT ![g] = [enabled |-> TRUE, peer |-> p]]
    /\ facebook' = [facebook EXCEPT ![g] = k]
    /\ Record
    /\ UNCHANGED <<cache, webhook, admin>>

\* CreateGate and Insert: one statement over the three tables; the row is
\* enabled, its id is new, and (meta_app_id, page_id) is UNIQUE.
Insert(g, k, p) ==
    /\ g \notin Issued
    /\ \A h \in GateIds : facebook[h] # k
    /\ gates' = [gates EXCEPT ![g] = [enabled |-> TRUE, peer |-> p]]
    /\ facebook' = [facebook EXCEPT ![g] = k]
    /\ Record
    /\ UNCHANGED <<cache, webhook, admin>>

ApplyTo(row, e, p) ==
    [gate |-> row.gate, key |-> row.key, enabled |-> e, peer |-> p]

\* UpdateGate: Select, then ApplyTo on the copy.
BeginUpdate(a, n, g, e, p) ==
    /\ apc[a] = "idle"
    /\ Exists(g)
    /\ apc' = [apc EXCEPT ![a] = "update"]
    /\ task' = [task EXCEPT ![a] = [node |-> n, row |-> ApplyTo(Row(g), e, p)]]
    /\ UNCHANGED <<db, cache, webhook>>

\* Mutant of CommitUpdate: an upsert, which does not need the row.
CommitUpsert(a) ==
    LET row == task[a].row
    IN /\ apc[a] = "update"
       /\ gates' = [gates EXCEPT ![row.gate] =
                      [enabled |-> row.enabled, peer |-> row.peer]]
       /\ facebook' = [facebook EXCEPT ![row.gate] = row.key]
       /\ Record
       /\ apc' = [apc EXCEPT ![a] = "invalidate"]
       /\ UNCHANGED <<cache, webhook, task>>

\* The transaction of Update; its first statement fails when the row is gone.
CommitUpdate(a) ==
    LET row == task[a].row
    IN /\ apc[a] = "update"
       /\ Exists(row.gate)
       /\ gates' = [gates EXCEPT ![row.gate] =
                      [enabled |-> row.enabled, peer |-> row.peer]]
       /\ facebook' = [facebook EXCEPT ![row.gate] = row.key]
       /\ Record
       /\ apc' = [apc EXCEPT ![a] = "invalidate"]
       /\ UNCHANGED <<cache, webhook, task>>

\* DeleteGate: Select.
BeginDelete(a, n, g) ==
    /\ apc[a] = "idle"
    /\ Exists(g)
    /\ apc' = [apc EXCEPT ![a] = "delete"]
    /\ task' = [task EXCEPT ![a] = [node |-> n, row |-> Row(g)]]
    /\ UNCHANGED <<db, cache, webhook>>

\* The transaction of Unbind: the row of gates goes, and with it, by ON
\* DELETE CASCADE, the rows of bots and facebook.
CommitDelete(a) ==
    LET g == task[a].row.gate
    IN /\ apc[a] = "delete"
       /\ gates[g] # None
       /\ gates' = [gates EXCEPT ![g] = None]
       /\ facebook' = [facebook EXCEPT ![g] = None]
       /\ Record
       /\ apc' = [apc EXCEPT ![a] = "invalidate"]
       /\ UNCHANGED <<cache, webhook, task>>

\* A transaction that fails or finds no row: error, and no invalidation.
CommitFails(a) ==
    /\ apc[a] \in {"update", "delete"}
    /\ apc' = [apc EXCEPT ![a] = "idle"]
    /\ task' = [task EXCEPT ![a] = None]
    /\ UNCHANGED <<db, cache, webhook>>

\* s.cache.Delete(pageID), after the commit and on this node only.
Invalidate(a) ==
    /\ apc[a] = "invalidate"
    /\ Delete(task[a].node, task[a].row.key[2])
    /\ apc' = [apc EXCEPT ![a] = "idle"]
    /\ task' = [task EXCEPT ![a] = None]
    /\ UNCHANGED <<db, webhook>>

-----------------------------------------------------------------------------
\* A node stops and starts: its cache and its unfinished requests are lost.
Restart(n) ==
    LET lost == {a \in Admins : apc[a] # "idle" /\ task[a].node = n}
    IN
    /\ cache' = [cache EXCEPT ![n] = Empty]
    /\ pc' = [r \in Requests |->
                IF pc[r] \in Running /\ job[r].node = n THEN "failed" ELSE pc[r]]
    /\ apc' = [a \in Admins |-> IF a \in lost THEN "idle" ELSE apc[a]]
    /\ task' = [a \in Admins |-> IF a \in lost THEN None ELSE task[a]]
    /\ UNCHANGED <<job, copy, db>>

-----------------------------------------------------------------------------
Deliver(r) ==
    \/ \E n \in Nodes, k \in Key : Receive(r, n, k)
    \/ Lookup(r)
    \/ SelectGate(r)
    \/ SelectFails(r)
    \/ Store(r)
    \/ Route(r)

Administer(a) ==
    \/ \E n \in Nodes, g \in GateIds, e \in BOOLEAN, p \in Peers :
          BeginUpdate(a, n, g, e, p)
    \/ CommitUpdate(a)
    \/ \E n \in Nodes, g \in GateIds : BeginDelete(a, n, g)
    \/ CommitDelete(a)
    \/ CommitFails(a)
    \/ Invalidate(a)

Next ==
    \/ \E r \in Requests : Deliver(r)
    \/ \E a \in Admins : Administer(a)
    \/ \E g \in GateIds, k \in Key, p \in Peers : Insert(g, k, p)
    \/ \E n \in Nodes : Restart(n)

Spec == Init /\ [][Next]_vars

-----------------------------------------------------------------------------
(* Properties.                                                              *)

\* The state has the shape the code gives it.
TypeOK ==
    /\ gates \in [GateIds -> GateRow \cup {None}]
    /\ facebook \in [GateIds -> Key \cup {None}]
    /\ cache \in [Nodes -> [CacheKey -> CacheEntry \cup {None}]]
    /\ pc \in [Requests -> Finished \cup Running]
    /\ job \in [Requests -> Job \cup {None}]
    /\ copy \in [Requests -> Version \cup {None}]
    /\ apc \in [Admins -> {"idle", "update", "delete", "invalidate"}]
    /\ task \in [Admins -> Task \cup {None}]
    /\ past \in SUBSET Version
    /\ seen \in [Requests -> SUBSET Version]

\* A delivery is forwarded only to a gate of its own page that was enabled,
\* with the very bot it is forwarded to, at some moment while the delivery
\* was being handled: a gate disabled, rebound or deleted before the
\* delivery arrived never gets it, whatever the caches hold.
RoutedOnLiveRow ==
    \A r \in Requests : pc[r] \in {"route", "routed"} =>
        /\ copy[r] \in seen[r]
        /\ copy[r].enabled
        /\ copy[r].key = job[r].key

\* A delivery is dropped as "disabled" only for a page one of whose gates an
\* administrator once disabled: no interleaving of caches, evictions and
\* restarts makes a page that was always enabled lose a message.
IgnoredWasDisabledOnce ==
    \A r \in Requests : pc[r] = "ignored" =>
        \E v \in past : v.key = job[r].key /\ ~ v.enabled

\* A page of an app belongs to one gate, so the webhook lookup, which takes
\* the page and the URI, is unambiguous.
OnePageOneGate ==
    \A g, h \in GateIds : facebook[g] # None /\ facebook[g] = facebook[h] => g = h

\* A deleted gate never comes back: an update that selected the row before it
\* was deleted fails instead of writing it again.
DeletedStaysDeleted ==
    [][\A g \in Issued : gates[g] = None => gates'[g] = None]_vars

\* "Disabled gates are short-circuited": a delivery is dropped as "disabled"
\* only if its gate was disabled at some moment while it was being handled.
IgnoredOnlyIfDisabled ==
    \A r \in Requests : pc[r] = "ignored" => \E v \in seen[r] : ~ v.enabled
=============================================================================
