------------------------ MODULE FacebookGates_proofs ------------------------
(***************************************************************************)
(* Proofs about FacebookGates, for every number of nodes, deliveries, RPCs, *)
(* gates, pages and bots, and every cache capacity.                        *)
(*                                                                         *)
(* The typing of the state is inductive by itself.  The safety properties  *)
(* follow from IInv, which adds what links the parts of the state: what a   *)
(* delivery holds was seen by it, what a cache holds was once committed,   *)
(* and what an RPC is about to write still names the page of its gate.     *)
(***************************************************************************)
EXTENDS FacebookGates, TLAPS

-----------------------------------------------------------------------------
(* The join and the cache.                                                  *)

\* A row of the join is a version.
LEMMA RowType ==
    ASSUME TypeOK, NEW g \in GateIds, Exists(g)
    PROVE  Row(g) \in Version
BY NoneIsNoValue, NoneIsNoRecord DEF TypeOK, Row, Exists, Version, GateRow

LEMMA RowsType == TypeOK => Rows \subseteq Version
BY RowType DEF Rows

LEMMA RowsTypePrime ==
    ASSUME gates' \in [GateIds -> GateRow \cup {None}],
           facebook' \in [GateIds -> Key \cup {None}]
    PROVE  Rows' \subseteq Version
BY NoneIsNoValue, NoneIsNoRecord DEF Rows, Row, Exists, Version, GateRow

\* Record keeps the history typed, and it only grows.
LEMMA RecordType ==
    ASSUME TypeOK, Record,
           gates' \in [GateIds -> GateRow \cup {None}],
           facebook' \in [GateIds -> Key \cup {None}]
    PROVE  /\ past' \in SUBSET Version
           /\ seen' \in [Requests -> SUBSET Version]
<1>1. Rows' \subseteq Version
  BY RowsTypePrime
<1>. QED
  BY <1>1 DEF TypeOK, Record

\* What lru.Add does to an entry: it sets one, and keeps or evicts the others.
LEMMA SetEffect ==
    ASSUME TypeOK, NEW n \in Nodes, NEW k \in Key, NEW e \in CacheEntry, Set(n, k, e)
    PROVE  /\ cache' \in [Nodes -> [CacheKey -> CacheEntry \cup {None}]]
           /\ \A m \in Nodes, x \in CacheKey :
                 \/ cache'[m][x] = cache[m][x]
                 \/ cache'[m][x] = None
                 \/ m = n /\ x = k /\ cache'[m][x] = e
<1>1. PICK out \in SUBSET Cached(n) :
        cache' = [cache EXCEPT ![n] =
                    [x \in CacheKey |-> IF x = k THEN e
                                        ELSE IF x \in out THEN None
                                        ELSE cache[n][x]]]
  BY DEF Set
<1>2. cache \in [Nodes -> [CacheKey -> CacheEntry \cup {None}]]
  BY DEF TypeOK
<1>. QED
  BY <1>1, <1>2

-----------------------------------------------------------------------------
(* Typing.  An action is given what it needs to stay in the type: the job of *)
(* a running delivery, the gate a delivery stores, the task of a busy RPC.   *)

\* What a process holds where its program counter stands.
Holds ==
    /\ \A r \in Requests : pc[r] # "idle" => job[r] # None
    /\ \A r \in Requests : pc[r] \in {"store", "route", "routed"} => copy[r] # None
    /\ \A a \in Admins : apc[a] # "idle" => task[a] # None

Typed == TypeOK /\ Holds

LEMMA InitTyped == Init => Typed
BY DEF Init, Typed, TypeOK, Holds, Empty, Finished

LEMMA ReceiveTyped ==
    ASSUME Typed, NEW r \in Requests, NEW n \in Nodes, NEW k \in Key, Receive(r, n, k)
    PROVE  Typed'
<1>1. RowsAt(k) \subseteq Version
  BY RowsType DEF Typed, RowsAt
<1>. QED
  BY <1>1, NoneIsNoRecord DEF Typed, TypeOK, Holds, Receive, Running, Finished, Job, admin

LEMMA DeliverTyped ==
    ASSUME Typed, NEW r \in Requests,
           Lookup(r) \/ SelectGate(r) \/ SelectFails(r) \/ Store(r) \/ Route(r)
    PROVE  Typed'
<1>1. CASE Lookup(r) \/ SelectFails(r) \/ Route(r)
  BY <1>1 DEF Typed, TypeOK, Holds, Lookup, SelectFails, Route, Running, Finished, db, admin
<1>2. CASE SelectGate(r)
  <2>1. PICK v \in RowsAt(job[r].key) : copy' = [copy EXCEPT ![r] = v]
    BY <1>2 DEF SelectGate
  <2>2. v \in Version /\ v # None
    BY <2>1, RowsType, NoneIsNoRecord DEF RowsAt, Typed
  <2>. QED
    BY <1>2, <2>1, <2>2 DEF Typed, TypeOK, Holds, SelectGate, Running, Finished, db, admin
<1>3. CASE Store(r)
  <2>1. job[r] \in Job /\ copy[r] \in Version
    BY <1>3 DEF Typed, TypeOK, Holds, Store
  <2>2. cache' \in [Nodes -> [CacheKey -> CacheEntry \cup {None}]]
    BY <1>3, <2>1, SetEffect DEF Store, Typed, Version, CacheEntry, Job
  <2>. QED
    BY <1>3, <2>2 DEF Typed, TypeOK, Holds, Store, Running, Finished, db, admin
<1>. QED
  BY <1>1, <1>2, <1>3

LEMMA InsertTyped ==
    ASSUME Typed, NEW g \in GateIds, NEW k \in Key, NEW p \in Peers, Insert(g, k, p)
    PROVE  Typed'
<1>1. /\ gates' \in [GateIds -> GateRow \cup {None}]
      /\ facebook' \in [GateIds -> Key \cup {None}]
  BY DEF Typed, TypeOK, Insert, GateRow
<1>2. past' \in SUBSET Version /\ seen' \in [Requests -> SUBSET Version]
  BY <1>1, RecordType DEF Insert, Typed
<1>. QED
  BY <1>1, <1>2 DEF Typed, TypeOK, Holds, Insert, webhook, admin

LEMMA BeginTyped ==
    ASSUME Typed, NEW a \in Admins, NEW n \in Nodes, NEW g \in GateIds,
           \/ \E e \in BOOLEAN, p \in Peers : BeginUpdate(a, n, g, e, p)
           \/ BeginDelete(a, n, g)
    PROVE  Typed'
<1>1. Row(g) \in Version
  BY RowType DEF Typed, BeginUpdate, BeginDelete
<1>2. \A e \in BOOLEAN, p \in Peers : ApplyTo(Row(g), e, p) \in Version
  BY <1>1 DEF Version, ApplyTo
<1>3. PICK row \in Version : task' = [task EXCEPT ![a] = [node |-> n, row |-> row]]
  BY <1>1, <1>2 DEF BeginUpdate, BeginDelete
<1>4. [node |-> n, row |-> row] \in Task
  BY DEF Task
<1>5. [node |-> n, row |-> row] # None
  BY <1>4, NoneIsNoRecord
<1>6. task' \in [Admins -> Task \cup {None}] /\ task'[a] # None
  BY <1>3, <1>4, <1>5 DEF Typed, TypeOK
<1>7. \A b \in Admins : b # a => task'[b] = task[b] /\ apc'[b] = apc[b]
  BY <1>3 DEF Typed, TypeOK, BeginUpdate, BeginDelete
<1>8. apc' \in [Admins -> {"idle", "update", "delete", "invalidate"}]
  BY DEF Typed, TypeOK, BeginUpdate, BeginDelete
<1>9. UNCHANGED <<db, cache, webhook>>
  BY DEF BeginUpdate, BeginDelete
<1>10. TypeOK'
  BY <1>6, <1>8, <1>9 DEF Typed, TypeOK, db, webhook
<1>11. Holds'
  BY <1>6, <1>7, <1>9 DEF Typed, Holds, db, webhook
<1>. QED
  BY <1>10, <1>11 DEF Typed

LEMMA CommitTyped ==
    ASSUME Typed, NEW a \in Admins, CommitUpdate(a) \/ CommitDelete(a)
    PROVE  Typed'
<1>1. task[a] \in Task
  BY DEF Typed, TypeOK, Holds, CommitUpdate, CommitDelete
<1>2. /\ gates' \in [GateIds -> GateRow \cup {None}]
      /\ facebook' \in [GateIds -> Key \cup {None}]
  <2>1. task[a].row \in Version
    BY <1>1 DEF Task
  <2>2. task[a].row.gate \in GateIds /\ task[a].row.key \in Key
    BY <2>1 DEF Version
  <2>3. [enabled |-> task[a].row.enabled, peer |-> task[a].row.peer] \in GateRow
    BY <2>1 DEF Version, GateRow
  <2>4. CASE CommitUpdate(a)
    BY <2>2, <2>3, <2>4 DEF Typed, TypeOK, CommitUpdate
  <2>5. CASE CommitDelete(a)
    BY <2>2, <2>5 DEF Typed, TypeOK, CommitDelete
  <2>. QED
    BY <2>4, <2>5
<1>3. past' \in SUBSET Version /\ seen' \in [Requests -> SUBSET Version]
  BY <1>2, RecordType DEF CommitUpdate, CommitDelete, Typed
<1>. QED
  BY <1>1, <1>2, <1>3 DEF Typed, TypeOK, Holds, CommitUpdate, CommitDelete, webhook

LEMMA EndTyped ==
    ASSUME Typed, NEW a \in Admins, CommitFails(a) \/ Invalidate(a)
    PROVE  Typed'
<1>1. CASE CommitFails(a)
  BY <1>1 DEF Typed, TypeOK, Holds, CommitFails, db, webhook
<1>2. CASE Invalidate(a)
  <2>1. cache' \in [Nodes -> [CacheKey -> CacheEntry \cup {None}]]
    BY <1>2 DEF Typed, TypeOK, Invalidate, Delete
  <2>. QED
    BY <1>2, <2>1 DEF Typed, TypeOK, Holds, Invalidate, db, webhook
<1>. QED
  BY <1>1, <1>2

LEMMA RestartTyped ==
    ASSUME Typed, NEW n \in Nodes, Restart(n)
    PROVE  Typed'
<1>1. cache' \in [Nodes -> [CacheKey -> CacheEntry \cup {None}]]
  BY DEF Typed, TypeOK, Restart, Empty
<1>. QED
  BY <1>1 DEF Typed, TypeOK, Holds, Restart, Running, Finished, db

\* The variables keep their types in every behaviour of the gates.
THEOREM TypeCorrect == Spec => []TypeOK
<1>1. Typed /\ [Next]_vars => Typed'
  <2>1. ASSUME Typed, Next PROVE Typed'
    BY <2>1, ReceiveTyped, DeliverTyped, InsertTyped, BeginTyped, CommitTyped,
       EndTyped, RestartTyped DEF Next, Deliver, Administer
  <2>2. ASSUME Typed, UNCHANGED vars PROVE Typed'
    BY <2>2 DEF Typed, TypeOK, Holds, vars
  <2>. QED
    BY <2>1, <2>2
<1>2. Typed => TypeOK
  BY DEF Typed
<1>. QED
  BY InitTyped, <1>1, <1>2, PTL DEF Spec

-----------------------------------------------------------------------------
(* The inductive invariant.                                                 *)

\* What is visible now, or was while a delivery ran, was once committed.
HistoryInv ==
    /\ Rows \subseteq past
    /\ \A r \in Requests : seen[r] \subseteq past

\* A running delivery has seen what it can read, and holds what it has seen.
DeliveryInv ==
    \A r \in Requests :
        /\ pc[r] \in Running => RowsAt(job[r].key) \subseteq seen[r]
        /\ pc[r] \in {"store", "route", "routed"} =>
              copy[r] \in seen[r] /\ copy[r].key = job[r].key
        /\ pc[r] \in {"route", "routed"} => copy[r].enabled

\* A cache entry tells of a committed version of the page it is found under.
CacheInv ==
    \A n \in Nodes, k \in CacheKey : cache[n][k] # None =>
        \E v \in past : v.key = k /\ v.enabled = cache[n][k].enabled

\* A row an RPC is about to write is that of an issued gate and names the page
\* that gate has, as long as it exists.
TaskInv ==
    \A a \in Admins : apc[a] # "idle" =>
        LET row == task[a].row
        IN row.gate \in Issued /\ facebook[row.gate] \in {None, row.key}

\* The rows of a gate are written and deleted in one transaction.
NoOrphanRows == \A g \in GateIds : gates[g] = None <=> facebook[g] = None

\* The inductive invariant.
IInv ==
    /\ Typed
    /\ HistoryInv
    /\ DeliveryInv
    /\ CacheInv
    /\ TaskInv
    /\ NoOrphanRows
    /\ OnePageOneGate
    /\ IgnoredWasDisabledOnce

-----------------------------------------------------------------------------
LEMMA InitInv == Init => IInv
<1> SUFFICES ASSUME Init PROVE IInv
  OBVIOUS
<1>1. Rows = {}
  BY DEF Init, Rows, Exists
<1>2. Typed
  BY InitTyped
<1>. QED
  BY <1>1, <1>2 DEF Init, IInv, HistoryInv, DeliveryInv, CacheInv, TaskInv,
     NoOrphanRows, OnePageOneGate, IgnoredWasDisabledOnce, Empty, Running, RowsAt

\* A step that leaves the tables and the history alone leaves the join alone.
LEMMA QuietDatabase ==
    ASSUME UNCHANGED <<gates, facebook, past>>
    PROVE  /\ Rows' = Rows
           /\ Issued' = Issued
           /\ \A k : RowsAt(k)' = RowsAt(k)
           /\ NoOrphanRows' = NoOrphanRows
           /\ OnePageOneGate' = OnePageOneGate
BY DEF Rows, Row, Exists, Issued, RowsAt, NoOrphanRows, OnePageOneGate

\* A commit that records the new rows keeps everything said of deliveries
\* and caches: it only adds versions to the past and to what is seen.
LEMMA CommitKeeps ==
    ASSUME IInv, Record, UNCHANGED <<cache, webhook>>
    PROVE  HistoryInv' /\ DeliveryInv' /\ CacheInv' /\ IgnoredWasDisabledOnce'
<1>1. past \subseteq past' /\ Rows' \subseteq past'
  BY DEF Record
<1>2. \A r \in Requests :
        /\ seen[r] \subseteq seen'[r]
        /\ seen'[r] \subseteq past'
        /\ pc[r] \in Running => RowsAt(job[r].key)' \subseteq seen'[r]
  BY DEF Record, IInv, HistoryInv, RowsAt, webhook
<1>3. HistoryInv'
  BY <1>1, <1>2 DEF HistoryInv
<1>4. DeliveryInv'
  BY <1>2 DEF IInv, DeliveryInv, webhook
<1>5. CacheInv'
  BY <1>1 DEF IInv, CacheInv
<1>6. IgnoredWasDisabledOnce'
  BY <1>1 DEF IInv, IgnoredWasDisabledOnce, webhook
<1>. QED
  BY <1>3, <1>4, <1>5, <1>6

LEMMA ReceiveInv ==
    ASSUME IInv, NEW r \in Requests, NEW n \in Nodes, NEW k \in Key, Receive(r, n, k)
    PROVE  IInv'
<1>1. Typed'
  BY ReceiveTyped DEF IInv
<1>2. UNCHANGED <<gates, facebook, past, cache, apc, task>>
  BY DEF Receive, admin
<1>3. seen'[r] = RowsAt(k) /\ pc'[r] = "lookup" /\ job'[r].key = k
  BY DEF Receive, IInv, Typed, TypeOK
<1>4. \A q \in Requests : q # r =>
        seen'[q] = seen[q] /\ pc'[q] = pc[q] /\ job'[q] = job[q] /\ copy'[q] = copy[q]
  BY DEF Receive, IInv, Typed, TypeOK
<1>5. HistoryInv'
  BY <1>2, <1>3, <1>4, QuietDatabase DEF IInv, HistoryInv, RowsAt
<1>6. DeliveryInv'
  BY <1>2, <1>3, <1>4, QuietDatabase DEF IInv, DeliveryInv
<1>7. CacheInv' /\ TaskInv'
  BY <1>2, QuietDatabase DEF IInv, CacheInv, TaskInv
<1>8. IgnoredWasDisabledOnce'
  BY <1>2, <1>3, <1>4 DEF IInv, IgnoredWasDisabledOnce
<1>. QED
  BY <1>1, <1>2, <1>5, <1>6, <1>7, <1>8, QuietDatabase DEF IInv

\* A delivery that moves on without touching the caches.
LEMMA ReadInv ==
    ASSUME IInv, NEW r \in Requests,
           Lookup(r) \/ SelectGate(r) \/ SelectFails(r) \/ Route(r)
    PROVE  IInv'
<1>1. Typed'
  BY DeliverTyped DEF IInv
<1>2. UNCHANGED <<gates, facebook, past, seen, cache, apc, task, job>>
  BY DEF Lookup, SelectGate, SelectFails, Route, db, admin
<1>3. \A q \in Requests : q # r => pc'[q] = pc[q] /\ copy'[q] = copy[q]
  BY DEF Lookup, SelectGate, SelectFails, Route, IInv, Typed, TypeOK
<1>4. HistoryInv' /\ CacheInv' /\ TaskInv'
  BY <1>2, QuietDatabase DEF IInv, HistoryInv, CacheInv, TaskInv
<1>5. DeliveryInv'
  <2>1. CASE Lookup(r) \/ SelectFails(r)
    <3>1. pc[r] \in Running /\ pc'[r] \in {"select", "ignored", "failed"}
      BY <2>1 DEF Lookup, SelectFails, Running, IInv, Typed, TypeOK
    <3>. QED
      BY <1>2, <1>3, <3>1, QuietDatabase DEF IInv, DeliveryInv, Running
  <2>2. CASE SelectGate(r)
    <3>1. pc[r] = "select" /\ pc'[r] = "store" /\ copy'[r] \in RowsAt(job[r].key)
      BY <2>2 DEF SelectGate, IInv, Typed, TypeOK
    <3>2. copy'[r] \in seen[r] /\ copy'[r].key = job[r].key
      BY <3>1 DEF IInv, DeliveryInv, Running, RowsAt
    <3>. QED
      BY <1>2, <1>3, <3>1, <3>2, QuietDatabase DEF IInv, DeliveryInv, Running
  <2>3. CASE Route(r)
    <3>1. pc[r] = "route" /\ pc'[r] = "routed" /\ copy' = copy
      BY <2>3 DEF Route, IInv, Typed, TypeOK
    <3>. QED
      BY <1>2, <1>3, <3>1, QuietDatabase DEF IInv, DeliveryInv, Running
  <2>. QED
    BY <2>1, <2>2, <2>3
<1>6. IgnoredWasDisabledOnce'
  <2>1. pc'[r] = "ignored" =>
          \E v \in past : v.key = job[r].key /\ ~ v.enabled
    <3>1. SUFFICES ASSUME pc'[r] = "ignored"
                   PROVE  \E v \in past : v.key = job[r].key /\ ~ v.enabled
      OBVIOUS
    <3>2. Lookup(r) /\ CachedDisabled(job[r].node, job[r].key)
      BY <3>1 DEF Lookup, SelectGate, SelectFails, Route, IInv, Typed, TypeOK
    <3>3. job[r].node \in Nodes /\ job[r].key \in CacheKey
      BY <3>2 DEF Lookup, IInv, Typed, TypeOK, Holds, Job, CacheKey
    <3>. QED
      BY <3>2, <3>3 DEF CachedDisabled, IInv, CacheInv
  <2>. QED
    BY <1>2, <1>3, <2>1 DEF IInv, IgnoredWasDisabledOnce
<1>. QED
  BY <1>1, <1>2, <1>4, <1>5, <1>6, QuietDatabase DEF IInv

LEMMA StoreInv ==
    ASSUME IInv, NEW r \in Requests, Store(r)
    PROVE  IInv'
<1>1. Typed'
  BY DeliverTyped DEF IInv
<1>2. UNCHANGED <<gates, facebook, past, seen, apc, task, job, copy>>
  BY DEF Store, db, admin
<1>3. /\ pc[r] = "store"
      /\ pc'[r] = IF copy[r].enabled THEN "route" ELSE "ignored"
      /\ \A q \in Requests : q # r => pc'[q] = pc[q]
  BY DEF Store, IInv, Typed, TypeOK
<1>4. HistoryInv' /\ TaskInv'
  BY <1>2, QuietDatabase DEF IInv, HistoryInv, TaskInv
<1>5. DeliveryInv'
  BY <1>2, <1>3, QuietDatabase DEF IInv, DeliveryInv, Running
<1>6. copy[r] \in past /\ copy[r].key = job[r].key
  BY <1>3 DEF IInv, DeliveryInv, HistoryInv
<1>7. IgnoredWasDisabledOnce'
  BY <1>2, <1>3, <1>6 DEF IInv, IgnoredWasDisabledOnce
<1>8. CacheInv'
  <2>1. job[r] \in Job /\ copy[r] \in Version
    BY <1>3 DEF IInv, Typed, TypeOK, Holds
  <2> DEFINE e == [gate |-> copy[r].gate, enabled |-> copy[r].enabled,
                   peer |-> copy[r].peer]
  <2>2. e \in CacheEntry /\ job[r].node \in Nodes /\ job[r].key \in Key
    BY <2>1 DEF Job, Version, CacheEntry
  <2>3. Set(job[r].node, job[r].key, e)
    BY DEF Store
  <2>4. \A m \in Nodes, x \in CacheKey :
           \/ cache'[m][x] = cache[m][x]
           \/ cache'[m][x] = None
           \/ x = job[r].key /\ cache'[m][x] = e
    BY <2>2, <2>3, SetEffect DEF IInv, Typed
  <2>5. e.enabled = copy[r].enabled
    OBVIOUS
  <2>. QED
    BY <1>2, <1>6, <2>4, <2>5 DEF IInv, CacheInv
<1>. QED
  BY <1>1, <1>2, <1>4, <1>5, <1>7, <1>8, QuietDatabase DEF IInv

LEMMA InsertInv ==
    ASSUME IInv, NEW g \in GateIds, NEW k \in Key, NEW p \in Peers, Insert(g, k, p)
    PROVE  IInv'
<1>1. Typed'
  BY InsertTyped DEF IInv
<1>2. HistoryInv' /\ DeliveryInv' /\ CacheInv' /\ IgnoredWasDisabledOnce'
  BY CommitKeeps DEF Insert
<1>3. /\ k # None
      /\ [enabled |-> TRUE, peer |-> p] # None
      /\ gates'[g] = [enabled |-> TRUE, peer |-> p]
      /\ facebook'[g] = k
      /\ \A h \in GateIds : h # g => gates'[h] = gates[h] /\ facebook'[h] = facebook[h]
  <2>1. [enabled |-> TRUE, peer |-> p] \in GateRow
    BY DEF GateRow
  <2>. QED
    BY <2>1, NoneIsNoValue, NoneIsNoRecord DEF Insert, IInv, Typed, TypeOK
<1>4. NoOrphanRows'
  BY <1>3 DEF IInv, NoOrphanRows
<1>5. OnePageOneGate'
  BY <1>3 DEF IInv, OnePageOneGate, Insert
<1>6. TaskInv'
  <2>1. Issued \subseteq Issued' /\ UNCHANGED <<apc, task>>
    BY DEF Insert, Record, Issued, admin
  <2>2. \A a \in Admins : apc[a] # "idle" => task[a].row.gate \in GateIds
    BY DEF IInv, Typed, TypeOK, Holds, Task, Version
  <2>. QED
    BY <1>3, <2>1, <2>2 DEF IInv, TaskInv, Insert
<1>. QED
  BY <1>1, <1>2, <1>4, <1>5, <1>6 DEF IInv

LEMMA BeginInv ==
    ASSUME IInv, NEW a \in Admins, NEW n \in Nodes, NEW g \in GateIds,
           \/ \E e \in BOOLEAN, p \in Peers : BeginUpdate(a, n, g, e, p)
           \/ BeginDelete(a, n, g)
    PROVE  IInv'
<1>1. Typed'
  BY BeginTyped DEF IInv
<1>2. UNCHANGED <<gates, facebook, past, seen, cache, pc, job, copy>>
  BY DEF BeginUpdate, BeginDelete, db, webhook
<1>3. HistoryInv' /\ DeliveryInv' /\ CacheInv' /\ IgnoredWasDisabledOnce'
  BY <1>2, QuietDatabase
     DEF IInv, HistoryInv, DeliveryInv, CacheInv, IgnoredWasDisabledOnce
<1>4. /\ task'[a].row.gate = g
      /\ task'[a].row.key = facebook[g]
      /\ \A b \in Admins : b # a => task'[b] = task[b] /\ apc'[b] = apc[b]
  BY DEF BeginUpdate, BeginDelete, IInv, Typed, TypeOK, ApplyTo, Row
<1>5. g \in Issued
  <2>1. Row(g) \in Rows /\ Row(g).gate = g
    BY DEF Rows, Row, BeginUpdate, BeginDelete
  <2>. QED
    BY <2>1 DEF IInv, HistoryInv, Issued
<1>6. TaskInv'
  BY <1>2, <1>4, <1>5, QuietDatabase DEF IInv, TaskInv
<1>. QED
  BY <1>1, <1>2, <1>3, <1>6, QuietDatabase DEF IInv

LEMMA CommitInv ==
    ASSUME IInv, NEW a \in Admins, CommitUpdate(a) \/ CommitDelete(a)
    PROVE  IInv'
<1> DEFINE row == task[a].row
<1>1. Typed'
  BY CommitTyped DEF IInv
<1>2. HistoryInv' /\ DeliveryInv' /\ CacheInv' /\ IgnoredWasDisabledOnce'
  BY CommitKeeps DEF CommitUpdate, CommitDelete
<1>3. row \in Version /\ row.gate \in GateIds /\ row.key \in Key
  <2>1. task[a] \in Task
    BY DEF IInv, Typed, TypeOK, Holds, CommitUpdate, CommitDelete
  <2>. QED
    BY <2>1 DEF Task, Version
<1>4. /\ \/ gates'[row.gate] # None /\ facebook'[row.gate] = facebook[row.gate]
         \/ gates'[row.gate] = None /\ facebook'[row.gate] = None
      /\ \A h \in GateIds : h # row.gate =>
            gates'[h] = gates[h] /\ facebook'[h] = facebook[h]
  <2>1. CASE CommitUpdate(a)
    <3>1. facebook[row.gate] = row.key
      BY <2>1 DEF CommitUpdate, Exists, IInv, TaskInv
    <3>2. [enabled |-> row.enabled, peer |-> row.peer] \in GateRow
      BY <1>3 DEF Version, GateRow
    <3>. QED
      BY <1>3, <2>1, <3>1, <3>2, NoneIsNoRecord DEF CommitUpdate, IInv, Typed, TypeOK
  <2>2. CASE CommitDelete(a)
    BY <1>3, <2>2 DEF CommitDelete, IInv, Typed, TypeOK
  <2>. QED
    BY <2>1, <2>2
<1>5. gates[row.gate] # None /\ facebook[row.gate] # None
  BY <1>3 DEF CommitUpdate, CommitDelete, Exists, IInv, NoOrphanRows
<1>6. NoOrphanRows'
  BY <1>3, <1>4, <1>5 DEF IInv, NoOrphanRows
<1>7. OnePageOneGate'
  BY <1>3, <1>4 DEF IInv, OnePageOneGate
<1>8. TaskInv'
  <2>1. Issued \subseteq Issued' /\ UNCHANGED task
    BY DEF CommitUpdate, CommitDelete, Record, Issued
  <2>2. \A b \in Admins : apc'[b] # "idle" => apc[b] # "idle"
    BY DEF CommitUpdate, CommitDelete, IInv, Typed, TypeOK
  <2>3. \A b \in Admins : apc[b] # "idle" => task[b].row.gate \in GateIds
    BY DEF IInv, Typed, TypeOK, Holds, Task, Version
  <2>. QED
    BY <1>4, <2>1, <2>2, <2>3 DEF IInv, TaskInv
<1>. QED
  BY <1>1, <1>2, <1>6, <1>7, <1>8 DEF IInv

\* The end of an RPC, and the loss of a node: the tables are not touched, and
\* entries only leave the caches.
LEMMA EndInv ==
    ASSUME IInv,
           \/ \E a \in Admins : CommitFails(a) \/ Invalidate(a)
           \/ \E n \in Nodes : Restart(n)
    PROVE  IInv'
<1>1. Typed'
  BY EndTyped, RestartTyped DEF IInv
<1>2. UNCHANGED <<gates, facebook, past, seen, job, copy>>
  BY DEF CommitFails, Invalidate, Restart, db, webhook
<1>3. \A r \in Requests : pc'[r] = pc[r] \/ pc'[r] = "failed"
  BY DEF CommitFails, Invalidate, Restart, webhook
<1>4. \A m \in Nodes, x \in CacheKey : cache'[m][x] \in {None, cache[m][x]}
  <2>1. ASSUME NEW a \in Admins, Invalidate(a)
        PROVE  \A m \in Nodes, x \in CacheKey : cache'[m][x] \in {None, cache[m][x]}
    <3>1. cache' = [cache EXCEPT ![task[a].node][task[a].row.key[2]] = None]
      BY <2>1 DEF Invalidate, Delete
    <3>2. cache \in [Nodes -> [CacheKey -> CacheEntry \cup {None}]]
      BY DEF IInv, Typed, TypeOK
    <3>. QED
      BY <3>1, <3>2
  <2>2. ASSUME NEW n \in Nodes, Restart(n)
        PROVE  \A m \in Nodes, x \in CacheKey : cache'[m][x] \in {None, cache[m][x]}
    BY <2>2 DEF Restart, Empty, IInv, Typed, TypeOK
  <2>. QED
    BY <2>1, <2>2 DEF CommitFails
<1>5. \A b \in Admins : apc'[b] # "idle" => apc[b] # "idle" /\ task'[b] = task[b]
  BY DEF CommitFails, Invalidate, Restart, IInv, Typed, TypeOK
<1>6. HistoryInv' /\ DeliveryInv' /\ IgnoredWasDisabledOnce'
  BY <1>2, <1>3, QuietDatabase
     DEF IInv, HistoryInv, DeliveryInv, IgnoredWasDisabledOnce, Running
<1>7. CacheInv'
  BY <1>2, <1>4 DEF IInv, CacheInv
<1>8. TaskInv'
  BY <1>2, <1>5, QuietDatabase DEF IInv, TaskInv
<1>. QED
  BY <1>1, <1>2, <1>6, <1>7, <1>8, QuietDatabase DEF IInv

LEMMA NextInv == IInv /\ [Next]_vars => IInv'
<1>1. ASSUME IInv, Next PROVE IInv'
  BY <1>1, ReceiveInv, ReadInv, StoreInv, InsertInv, BeginInv, CommitInv, EndInv
     DEF Next, Deliver, Administer
<1>2. ASSUME IInv, UNCHANGED vars PROVE IInv'
  <2>1. Typed'
    BY <1>2 DEF IInv, Typed, TypeOK, Holds, vars
  <2>2. UNCHANGED <<gates, facebook, past>>
    BY <1>2 DEF vars
  <2>. QED
    BY <1>2, <2>1, <2>2, QuietDatabase DEF IInv, HistoryInv, DeliveryInv, CacheInv,
       TaskInv, IgnoredWasDisabledOnce, vars
<1>. QED
  BY <1>1, <1>2

LEMMA Inductive == Spec => []IInv
BY InitInv, NextInv, PTL DEF Spec

-----------------------------------------------------------------------------
(* The theorems.                                                            *)

\* A delivery is only forwarded to a gate that was enabled, for its page and
\* with that bot, at some moment while the delivery was being handled.
THEOREM RoutedLive == Spec => []RoutedOnLiveRow
<1>1. IInv => RoutedOnLiveRow
  BY DEF IInv, DeliveryInv, RoutedOnLiveRow
<1>. QED
  BY Inductive, <1>1, PTL

\* A page whose gates were never disabled never loses a delivery to a cache.
THEOREM IgnoredJustified == Spec => []IgnoredWasDisabledOnce
<1>1. IInv => IgnoredWasDisabledOnce
  BY DEF IInv
<1>. QED
  BY Inductive, <1>1, PTL

\* A page of an app never belongs to two gates.
THEOREM PageUnique == Spec => []OnePageOneGate
<1>1. IInv => OnePageOneGate
  BY DEF IInv
<1>. QED
  BY Inductive, <1>1, PTL

\* No step writes the row of a deleted gate again.
THEOREM NoResurrection == Spec => DeletedStaysDeleted
<1>1. ASSUME IInv, [Next]_vars, NEW g \in Issued, gates[g] = None
      PROVE  gates'[g] = None
  <2>1. g \in GateIds
    BY <1>1 DEF IInv, Typed, TypeOK, Issued, Version
  <2>2. CASE \E h \in GateIds, k \in Key, p \in Peers : Insert(h, k, p)
    BY <1>1, <2>1, <2>2 DEF Insert, IInv, Typed, TypeOK
  <2>3. CASE \E a \in Admins : CommitUpdate(a)
    BY <1>1, <2>1, <2>3 DEF CommitUpdate, Exists, IInv, Typed, TypeOK
  <2>4. CASE \E a \in Admins : CommitDelete(a)
    BY <1>1, <2>1, <2>4 DEF CommitDelete, IInv, Typed, TypeOK
  <2>5. CASE gates' = gates
    BY <1>1, <2>5
  <2>6. \/ \E h \in GateIds, k \in Key, p \in Peers : Insert(h, k, p)
        \/ \E a \in Admins : CommitUpdate(a) \/ CommitDelete(a)
        \/ gates' = gates
    BY <1>1 DEF Next, vars, Deliver, Administer, Receive, Lookup, SelectGate,
       SelectFails, Store, Route, BeginUpdate, BeginDelete, CommitFails,
       Invalidate, Restart, db
  <2>. QED
    BY <2>2, <2>3, <2>4, <2>5, <2>6
<1>2. IInv /\ [Next]_vars => [\A g \in Issued : gates[g] = None => gates'[g] = None]_vars
  BY <1>1
<1>. QED
  BY Inductive, <1>2, PTL DEF Spec, DeletedStaysDeleted
=============================================================================
