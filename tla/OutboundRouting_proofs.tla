----------------------- MODULE OutboundRouting_proofs -----------------------
(***************************************************************************)
(* Proofs about OutboundRouting, for every number of nodes, requests,      *)
(* gates, contacts and tokens, and every cache capacity.                   *)
(*                                                                         *)
(* The inductive invariant has three parts: the types, the agreement of    *)
(* the caches and of the rows with what never changes (the type a gate was *)
(* created with, the address of a contact), and what a request holds at    *)
(* the place where it stands.                                              *)
(***************************************************************************)
EXTENDS OutboundRouting, TLAPS

\* The type of a row is the type its gate was created with.
RowsKeepType == \A g \in GateIds : gate[g] # None => gate[g].type = origin[g]

\* The address a message must reach.
Receiver(m) == IF m.to \in Contacts THEN Subject[m.to] ELSE m.to

\* What request r holds: its gate as it is now was seen; the provider and the
\* token it has read are those of a row it has seen; the address is the one of
\* the contact; and nothing was sent yet.
HoldsOf(r) ==
    /\ pc[r] # "idle" => msg[r] # None
    /\ pc[r] = "idle" => accepted[r] = None
    /\ pc[r] \in Running => accepted[r] = None /\ gate[msg[r].gate] \in seen[r]
    /\ pc[r] = "type" => sender[r] = None
    /\ pc[r] \in {"fetch", "locate", "send"} => sender[r] # None
    /\ pc[r] \in {"locate", "send"} =>
          /\ bearer[r] # None
          /\ \E row \in Current(r) : row.type = sender[r] /\ row.token = bearer[r]
    /\ pc[r] = "send" => address[r] # None /\ address[r] = Receiver(msg[r])

LeavesOf(r) ==
    accepted[r] # None =>
        /\ accepted[r].to = Receiver(msg[r])
        /\ \E row \in Current(r) :
              row.type = accepted[r].type /\ row.token = accepted[r].token

AnswerOf(r) ==
    /\ pc[r] = "ok" => accepted[r] # None
    /\ pc[r] = "gateNotFound" /\ sender[r] # "whatsapp" => None \in seen[r]
    /\ pc[r] = "tokenInvalid" => bearer[r] # None /\ token[bearer[r]] # "valid"
    /\ pc[r] = "unimplemented" => origin[msg[r].gate] = "whatsapp"
    /\ pc[r] \in {"gateNotFound", "tokenInvalid", "unimplemented"} => accepted[r] = None

Shared == CachesAreTrue /\ RowsKeepType

RequestOK(r) == HoldsOf(r) /\ LeavesOf(r) /\ AnswerOf(r)

IInv == TypeOK /\ Shared /\ \A r \in Requests : RequestOK(r)

-----------------------------------------------------------------------------
(* What a request has when it runs, and what lru.Add does.                  *)

LEMMA Running1 ==
    ASSUME IInv, NEW r \in Requests, pc[r] # "idle"
    PROVE  /\ msg[r] \in Message
           /\ msg[r].node \in Nodes /\ msg[r].gate \in GateIds
           /\ msg[r].to \in Contacts \cup Addresses /\ msg[r].domain \in Domains
<1>1. msg[r] \in Message
  BY DEF IInv, TypeOK, RequestOK, HoldsOf
<1>. QED
  BY <1>1 DEF Message

LEMMA AddedType ==
    ASSUME NEW keys, NEW V, None \in V, NEW entries \in [keys -> V],
           NEW k \in keys, NEW v \in V, NEW size,
           NEW after \in Added(entries, keys, size, k, v)
    PROVE  after \in [keys -> V]
<1>1. PICK out : after = [x \in keys |-> IF x = k THEN v ELSE IF x \in out THEN None
                                                             ELSE entries[x]]
  BY DEF Added
<1>. QED
  BY <1>1

LEMMA AddedValues ==
    ASSUME NEW keys, NEW entries, NEW k, NEW v, NEW size,
           NEW after \in Added(entries, keys, size, k, v), NEW x \in keys
    PROVE  \/ after[x] = entries[x]
           \/ after[x] = None
           \/ x = k /\ after[x] = v
BY DEF Added

\* A row that is read is one of the database.
LEMMA RowRead ==
    ASSUME IInv, NEW g \in GateIds, gate[g] # None
    PROVE  /\ gate[g] \in Row
           /\ gate[g].type \in Types /\ gate[g].token \in Tokens
           /\ gate[g].domain \in Domains /\ gate[g].enabled \in BOOLEAN
           /\ gate[g].type = origin[g]
<1>1. gate[g] \in Row
  BY DEF IInv, TypeOK
<1>. QED
  BY <1>1 DEF IInv, Shared, RowsKeepType, Row

-----------------------------------------------------------------------------
(* Types.                                                                  *)

LEMMA InitTypes == Init => TypeOK
BY DEF Init, TypeOK, Stages

LEMMA ArriveTypes ==
    ASSUME IInv, NEW r \in Requests, NEW m \in Message, Arrive(r, m)
    PROVE  TypeOK'
<1>1. m.gate \in GateIds
  BY DEF Message
<1>2. seen' \in [Requests -> SUBSET (Row \cup {None})]
  BY <1>1 DEF IInv, TypeOK, Arrive
<1>. QED
  BY <1>2 DEF IInv, TypeOK, Arrive, Goto, admin, caches, Stages

LEMMA GiveToTypes ==
    ASSUME IInv, NEW r \in Requests, NEW t \in Types, GiveTo(r, t),
           typeCache' \in [Nodes -> [GateIds -> Types \cup {None}]]
    PROVE  TypeOK'
<1>1. pc' \in [Requests -> Stages \cup Answers]
  BY DEF IInv, TypeOK, GiveTo, Goto, Stages, Answers
<1>. QED
  BY <1>1 DEF IInv, TypeOK, GiveTo, admin

LEMMA HandlerTypes ==
    ASSUME IInv, NEW r \in Requests, TypeHit(r) \/ TypeRead(r)
    PROVE  TypeOK'
<1>1. msg[r].node \in Nodes /\ msg[r].gate \in GateIds
  BY Running1 DEF TypeHit, TypeRead
<1>2. typeCache \in [Nodes -> [GateIds -> Types \cup {None}]]
  BY DEF IInv, TypeOK
<1>3. CASE TypeHit(r)
  <2>1. CachedType(r) \in Types /\ GiveTo(r, CachedType(r)) /\ UNCHANGED typeCache
    BY <1>1, <1>2, <1>3 DEF TypeHit, CachedType
  <2>. QED
    BY <1>2, <2>1, GiveToTypes
<1>4. CASE TypeRead(r)
  <2>. DEFINE n == msg[r].node  g == msg[r].gate
  <2>1. gate[g].type \in Types
    BY <1>1, <1>4, RowRead DEF TypeRead
  <2>2. PICK after \in Added(typeCache[n], GateIds, TypeCacheSize, g, gate[g].type) :
           typeCache' = [typeCache EXCEPT ![n] = after]
    BY <1>4 DEF TypeRead
  <2>3. after \in [GateIds -> Types \cup {None}]
    <3>1. typeCache[n] \in [GateIds -> Types \cup {None}]
      BY <1>1, <1>2
    <3>2. None \in Types \cup {None} /\ gate[g].type \in Types \cup {None}
      BY <2>1
    <3>3. g \in GateIds
      BY <1>1
    <3>. HIDE DEF n, g
    <3>. QED
      BY <2>2, <3>1, <3>2, <3>3, AddedType
  <2>4. typeCache' \in [Nodes -> [GateIds -> Types \cup {None}]]
    BY <1>2, <2>2, <2>3
  <2>. QED
    BY <1>4, <2>1, <2>4, GiveToTypes DEF TypeRead
<1>. QED
  BY <1>3, <1>4

\* An answer is all an action gives.
LEMMA AnswerTypes ==
    ASSUME IInv, NEW r \in Requests, NEW a \in Answers, Answer(r, a)
    PROVE  TypeOK'
BY DEF IInv, TypeOK, Answer, Goto, admin, caches, held

LEMMA Answering ==
    ASSUME NEW r \in Requests,
           \/ TypeAbsent(r) \/ QueryFails(r) \/ FetchAbsent(r)
           \/ RefuseLocally(r) \/ RefuseToken(r) \/ SendFails(r)
    PROVE  \E a \in {"gateNotFound", "tokenInvalid", "error"} : Answer(r, a)
BY DEF TypeAbsent, QueryFails, FetchAbsent, RefuseLocally, RefuseToken, SendFails

LEMMA FetchTypes ==
    ASSUME IInv, NEW r \in Requests, Fetch(r)
    PROVE  TypeOK'
<1>1. msg[r].gate \in GateIds
  BY Running1 DEF Fetch
<1>2. gate[msg[r].gate].token \in Tokens
  BY <1>1, RowRead DEF Fetch
<1>3. pc' \in [Requests -> Stages \cup Answers]
  BY DEF IInv, TypeOK, Fetch, Goto, Stages, Answers
<1>. QED
  BY <1>2, <1>3 DEF IInv, TypeOK, Fetch, admin, caches

LEMMA LocateTypes ==
    ASSUME IInv, NEW r \in Requests, PsidKnown(r) \/ Located(r) \/ NotLocated(r)
    PROVE  TypeOK'
<1>1. /\ msg[r].node \in Nodes /\ msg[r].to \in Contacts \cup Addresses
      /\ msg[r].domain \in Domains
  BY Running1 DEF PsidKnown, Located, NotLocated, Asks
<1>2. psidCache \in [Nodes -> [Contacts -> Addresses \cup {None}]]
  BY DEF IInv, TypeOK
<1>3. CASE PsidKnown(r)
  <2>1. CachedPsid(r) \in Addresses
    BY <1>1, <1>2, <1>3 DEF PsidKnown, CachedPsid
  <2>. QED
    BY <1>3, <2>1 DEF IInv, TypeOK, PsidKnown, Goto, admin, caches, Stages
<1>4. CASE Located(r)
  <2>. DEFINE n == msg[r].node  c == msg[r].to
  <2>1. c \in Contacts /\ Subject[c] \in Addresses
    BY <1>4, SubjectsAreAddresses DEF Located
  <2>2. psidCache' \in [Nodes -> [Contacts -> Addresses \cup {None}]]
    <3>1. CASE UNCHANGED psidCache
      BY <1>2, <3>1
    <3>2. CASE sender[r] = "facebook"
      <4>1. PICK after \in Added(psidCache[n], Contacts, PsidCacheSize, c, Subject[c]) :
               psidCache' = [psidCache EXCEPT ![n] = after]
        BY <1>4, <3>2 DEF Located
      <4>2. after \in [Contacts -> Addresses \cup {None}]
        <5>1. psidCache[n] \in [Contacts -> Addresses \cup {None}]
          BY <1>1, <1>2
        <5>2. None \in Addresses \cup {None} /\ Subject[c] \in Addresses \cup {None}
          BY <2>1
        <5>. HIDE DEF n, c
        <5>. QED
          BY <2>1, <4>1, <5>1, <5>2, AddedType
      <4>. QED
        BY <1>2, <4>1, <4>2
    <3>. QED
      BY <1>4, <3>1, <3>2 DEF Located
  <2>3. asked' \in [Requests -> Domains \cup {NoDomain, None}]
    BY <1>1, <1>4 DEF IInv, TypeOK, Located, Asks
  <2>. QED
    BY <1>4, <2>1, <2>2, <2>3 DEF IInv, TypeOK, Located, Goto, admin, Stages
<1>5. CASE NotLocated(r)
  <2>1. asked' \in [Requests -> Domains \cup {NoDomain, None}]
    BY <1>1, <1>5 DEF IInv, TypeOK, NotLocated, Asks
  <2>. QED
    BY <1>5, <2>1 DEF IInv, TypeOK, NotLocated, Goto, admin, caches, Answers
<1>. QED
  BY <1>3, <1>4, <1>5

LEMMA AcceptTypes ==
    ASSUME IInv, NEW r \in Requests, Accept(r)
    PROVE  TypeOK'
<1>. DEFINE d == [type |-> sender[r], token |-> bearer[r], to |-> address[r]]
<1>1. sender[r] \in Types /\ bearer[r] \in Tokens /\ address[r] \in Addresses
  BY DEF Accept, Calls, IInv, TypeOK, RequestOK, HoldsOf
<1>2. d \in Delivery
  BY <1>1 DEF Delivery
<1>3. accepted' = [accepted EXCEPT ![r] = d]
  BY DEF Accept
<1>4. accepted' \in [Requests -> Delivery \cup {None}]
  BY <1>2, <1>3 DEF IInv, TypeOK
<1>5. pc' \in [Requests -> Stages \cup Answers]
  BY DEF IInv, TypeOK, Accept, Goto, Answers
<1>. QED
  BY <1>4, <1>5 DEF IInv, TypeOK, Accept, admin, caches

LEMMA RestartTypes ==
    ASSUME IInv, NEW n \in Nodes, Restart(n)
    PROVE  TypeOK'
<1>1. pc' \in [Requests -> Stages \cup Answers]
  BY DEF IInv, TypeOK, Restart, Answers
<1>. QED
  BY <1>1 DEF IInv, TypeOK, Restart, admin, held

\* A commit adds a row or None to what the requests of its gate have seen.
LEMMA CommitEffect ==
    ASSUME IInv, NEW g \in GateIds, NEW row \in Row \cup {None}, Commit(g, row)
    PROVE  /\ gate' \in [GateIds -> Row \cup {None}]
           /\ gate'[g] = row
           /\ \A h \in GateIds : h # g => gate'[h] = gate[h]
           /\ seen' \in [Requests -> SUBSET (Row \cup {None})]
           /\ \A r \in Requests :
                 /\ seen[r] \subseteq seen'[r]
                 /\ pc[r] \in Running /\ msg[r].gate = g => row \in seen'[r]
BY DEF IInv, TypeOK, Commit

LEMMA AdministerTypes ==
    ASSUME IInv, NEW g \in GateIds, Administer(g)
    PROVE  TypeOK'
<1>1. ASSUME NEW row \in Row, Create(g, row)  PROVE TypeOK'
  <2>1. row.type \in Types
    BY DEF Row
  <2>2. Commit(g, row)
    BY <1>1 DEF Create
  <2>3. /\ gate' \in [GateIds -> Row \cup {None}]
        /\ seen' \in [Requests -> SUBSET (Row \cup {None})]
    BY <2>2, CommitEffect
  <2>. QED
    BY <1>1, <2>1, <2>3 DEF IInv, TypeOK, Create, request, caches, held
<1>2. ASSUME NEW t \in Tokens, OAuthCallback(g, t)  PROVE TypeOK'
  BY <1>2 DEF IInv, TypeOK, OAuthCallback, request, caches, held
<1>3. ASSUME NEW e \in BOOLEAN, UpdateGate(g, e)  PROVE TypeOK'
  <2>1. [gate[g] EXCEPT !.enabled = e] \in Row
    BY <1>3, RowRead DEF UpdateGate, Row
  <2>2. Commit(g, [gate[g] EXCEPT !.enabled = e])
    BY <1>3 DEF UpdateGate
  <2>3. /\ gate' \in [GateIds -> Row \cup {None}]
        /\ seen' \in [Requests -> SUBSET (Row \cup {None})]
    BY <2>1, <2>2, CommitEffect
  <2>4. renewed' \subseteq GateIds
    BY <1>3 DEF IInv, TypeOK, UpdateGate
  <2>. QED
    BY <1>3, <2>3, <2>4 DEF IInv, TypeOK, UpdateGate, request, caches, held
<1>4. CASE DeleteGate(g)
  <2>1. Commit(g, None)
    BY <1>4 DEF DeleteGate
  <2>2. /\ gate' \in [GateIds -> Row \cup {None}]
        /\ seen' \in [Requests -> SUBSET (Row \cup {None})]
    BY <2>1, CommitEffect
  <2>. QED
    BY <1>4, <2>2 DEF IInv, TypeOK, DeleteGate, request, caches, held
<1>. QED
  BY <1>1, <1>2, <1>3, <1>4 DEF Administer

\* Who does the step: a request, an administrator, Meta, or the process.
LEMMA Steps ==
    ASSUME Next
    PROVE  \/ \E r \in Requests : \E m \in Message : Arrive(r, m)
           \/ \E r \in Requests : TypeHit(r) \/ TypeRead(r)
           \/ \E r \in Requests : \E a \in {"gateNotFound", "tokenInvalid", "error"} : Answer(r, a)
           \/ \E r \in Requests : Fetch(r)
           \/ \E r \in Requests : PsidKnown(r) \/ Located(r) \/ NotLocated(r)
           \/ \E r \in Requests : Accept(r)
           \/ \E r \in Requests : Panic(r)
           \/ \E g \in GateIds : Administer(g)
           \/ \E t \in Tokens, how \in {"revoked", "expired"} : Invalidate(t, how)
           \/ \E n \in Nodes : Restart(n)
BY Answering DEF Next, Handle

LEMMA PanicRestarts ==
    ASSUME IInv, NEW r \in Requests, Panic(r)
    PROVE  \E n \in Nodes : Restart(n)
BY Running1 DEF Panic

LEMMA TypesInductive == IInv /\ [Next]_vars => TypeOK'
<1>. SUFFICES ASSUME IInv, [Next]_vars  PROVE TypeOK'
  OBVIOUS
<1>1. CASE UNCHANGED vars
  BY <1>1 DEF IInv, TypeOK, vars
<1>2. ASSUME NEW t \in Tokens, NEW how \in {"revoked", "expired"}, Invalidate(t, how)
      PROVE  TypeOK'
  BY <1>2 DEF IInv, TypeOK, Invalidate, caches, request, held
<1>3. ASSUME NEW r \in Requests, NEW a \in {"gateNotFound", "tokenInvalid", "error"}, Answer(r, a)
      PROVE  TypeOK'
  BY <1>3, AnswerTypes DEF Answers
<1>4. CASE Next
  BY <1>2, <1>3, <1>4, Steps, ArriveTypes, HandlerTypes, FetchTypes, LocateTypes,
     AcceptTypes, RestartTypes, PanicRestarts, AdministerTypes
<1>. QED
  BY <1>1, <1>4

-----------------------------------------------------------------------------
(* The caches agree with what never changes.                                *)

LEMMA SharedKept ==
    ASSUME IInv, UNCHANGED <<gate, origin, typeCache, psidCache>>
    PROVE  Shared'
BY DEF IInv, Shared, CachesAreTrue, RowsKeepType

LEMMA SharedOfRestart ==
    ASSUME IInv, NEW n \in Nodes, Restart(n)
    PROVE  Shared'
BY DEF IInv, TypeOK, Shared, CachesAreTrue, RowsKeepType, Restart, admin

LEMMA SharedOfTypeRead ==
    ASSUME IInv, NEW r \in Requests, TypeRead(r)
    PROVE  Shared'
<1>. DEFINE n == msg[r].node  g == msg[r].gate
<1>1. n \in Nodes /\ g \in GateIds
  BY Running1 DEF TypeRead
<1>2. gate[g].type \in Types /\ gate[g].type = origin[g]
  BY <1>1, RowRead DEF TypeRead
<1>3. PICK after \in Added(typeCache[n], GateIds, TypeCacheSize, g, gate[g].type) :
         typeCache' = [typeCache EXCEPT ![n] = after]
  BY DEF TypeRead
<1>4. typeCache \in [Nodes -> [GateIds -> Types \cup {None}]]
  BY DEF IInv, TypeOK
<1>5. \A x \in GateIds : \/ after[x] = typeCache[n][x]
                         \/ after[x] = None
                         \/ x = g /\ after[x] = gate[g].type
  BY <1>3, AddedValues
<1>6. UNCHANGED <<gate, origin, psidCache>>
  BY DEF TypeRead, GiveTo, admin
<1>7. \A x \in GateIds : after[x] \in {None, origin[x]}
  BY <1>1, <1>2, <1>5 DEF IInv, Shared, CachesAreTrue
<1>8. \A k \in Nodes : typeCache'[k] = IF k = n THEN after ELSE typeCache[k]
  BY <1>3, <1>4
<1>. QED
  BY <1>6, <1>7, <1>8 DEF IInv, Shared, CachesAreTrue, RowsKeepType

LEMMA SharedOfLocated ==
    ASSUME IInv, NEW r \in Requests, Located(r)
    PROVE  Shared'
<1>. DEFINE n == msg[r].node  c == msg[r].to
<1>1. n \in Nodes /\ c \in Contacts
  BY Running1 DEF Located, Asks
<1>2. UNCHANGED <<gate, origin, typeCache>>
  BY DEF Located, admin
<1>3. CASE UNCHANGED psidCache
  BY <1>2, <1>3, SharedKept
<1>4. CASE sender[r] = "facebook"
  <2>1. PICK after \in Added(psidCache[n], Contacts, PsidCacheSize, c, Subject[c]) :
           psidCache' = [psidCache EXCEPT ![n] = after]
    BY <1>4 DEF Located
  <2>2. psidCache \in [Nodes -> [Contacts -> Addresses \cup {None}]]
    BY DEF IInv, TypeOK
  <2>3. \A x \in Contacts : \/ after[x] = psidCache[n][x]
                            \/ after[x] = None
                            \/ x = c /\ after[x] = Subject[c]
    BY <2>1, AddedValues
  <2>4. \A x \in Contacts : after[x] \in {None, Subject[x]}
    BY <1>1, <2>3 DEF IInv, Shared, CachesAreTrue
  <2>5. \A k \in Nodes : psidCache'[k] = IF k = n THEN after ELSE psidCache[k]
    BY <2>1, <2>2
  <2>. QED
    BY <1>2, <2>4, <2>5 DEF IInv, Shared, CachesAreTrue, RowsKeepType
<1>. QED
  BY <1>3, <1>4 DEF Located

LEMMA SharedOfAdminister ==
    ASSUME IInv, NEW g \in GateIds, Administer(g)
    PROVE  Shared'
<1>1. ASSUME NEW row \in Row, Create(g, row)  PROVE Shared'
  <2>1. row \in Row \cup {None} /\ Commit(g, row)
    BY <1>1 DEF Create
  <2>2. gate'[g] = row /\ \A h \in GateIds : h # g => gate'[h] = gate[h]
    BY <2>1, CommitEffect
  <2>3. /\ origin'[g] = row.type
        /\ \A h \in GateIds : h # g => origin'[h] = origin[h]
        /\ origin[g] = None
    BY <1>1 DEF Create, IInv, TypeOK
  <2>4. UNCHANGED <<typeCache, psidCache>>
    BY <1>1 DEF Create, caches
  <2>. QED
    BY <2>2, <2>3, <2>4 DEF IInv, Shared, CachesAreTrue, RowsKeepType
<1>2. ASSUME NEW t \in Tokens, OAuthCallback(g, t)  PROVE Shared'
  BY <1>2, SharedKept DEF OAuthCallback, caches
<1>3. ASSUME NEW e \in BOOLEAN, UpdateGate(g, e)  PROVE Shared'
  <2>. DEFINE row == [gate[g] EXCEPT !.enabled = e]
  <2>1. row \in Row \cup {None} /\ row.type = gate[g].type
    BY <1>3, RowRead DEF UpdateGate, Row
  <2>2. Commit(g, row)
    BY <1>3 DEF UpdateGate
  <2>3. gate[g].type = origin[g]
    BY <1>3, RowRead DEF UpdateGate
  <2>4. UNCHANGED <<origin, typeCache, psidCache>>
    BY <1>3 DEF UpdateGate, caches
  <2>. HIDE DEF row
  <2>5. gate'[g] = row /\ \A h \in GateIds : h # g => gate'[h] = gate[h]
    BY <2>1, <2>2, CommitEffect
  <2>. QED
    BY <2>1, <2>3, <2>4, <2>5 DEF IInv, Shared, CachesAreTrue, RowsKeepType
<1>4. CASE DeleteGate(g)
  <2>1. Commit(g, None)
    BY <1>4 DEF DeleteGate
  <2>2. gate'[g] = None /\ \A h \in GateIds : h # g => gate'[h] = gate[h]
    BY <2>1, CommitEffect
  <2>3. UNCHANGED <<origin, typeCache, psidCache>>
    BY <1>4 DEF DeleteGate, caches
  <2>. QED
    BY <2>2, <2>3 DEF IInv, Shared, CachesAreTrue, RowsKeepType
<1>. QED
  BY <1>1, <1>2, <1>3, <1>4 DEF Administer

LEMMA SharedInductive == IInv /\ [Next]_vars => Shared'
<1>. SUFFICES ASSUME IInv, [Next]_vars  PROVE Shared'
  OBVIOUS
<1>1. CASE UNCHANGED vars
  BY <1>1, SharedKept DEF vars
<1>2. ASSUME NEW r \in Requests,
             \/ \E m \in Message : Arrive(r, m)
             \/ TypeHit(r) \/ Fetch(r) \/ PsidKnown(r) \/ NotLocated(r) \/ Accept(r)
             \/ \E a \in {"gateNotFound", "tokenInvalid", "error"} : Answer(r, a)
      PROVE  Shared'
  BY <1>2, SharedKept DEF Arrive, TypeHit, GiveTo, Fetch, PsidKnown, NotLocated, Accept,
     Answer, admin, caches
<1>3. ASSUME NEW t \in Tokens, NEW how \in {"revoked", "expired"}, Invalidate(t, how)
      PROVE  Shared'
  BY <1>3, SharedKept DEF Invalidate, caches
<1>4. CASE Next
  BY <1>2, <1>3, <1>4, Steps, SharedOfTypeRead, SharedOfLocated, SharedOfRestart,
     PanicRestarts, SharedOfAdminister
<1>. QED
  BY <1>1, <1>4

-----------------------------------------------------------------------------
(* What a request holds.  A step of one request leaves the others as they   *)
(* are; a commit only adds to what they have seen.                          *)

\* Nothing that RequestOK(q) speaks of changes.
Kept(q) ==
    /\ pc'[q] = pc[q] /\ msg'[q] = msg[q] /\ sender'[q] = sender[q]
    /\ bearer'[q] = bearer[q] /\ address'[q] = address[q]
    /\ accepted'[q] = accepted[q] /\ seen'[q] = seen[q]

LEMMA RequestKept ==
    ASSUME IInv, NEW q \in Requests, Kept(q), UNCHANGED <<gate, origin, token>>
    PROVE  RequestOK(q)'
BY DEF IInv, RequestOK, HoldsOf, LeavesOf, AnswerOf, Kept, Current, Receiver

\* The steps of a request that touch no row.
Own(r) ==
    \/ \E m \in Message : Arrive(r, m)
    \/ TypeHit(r) \/ TypeRead(r)
    \/ Fetch(r) \/ PsidKnown(r) \/ Located(r) \/ NotLocated(r) \/ Accept(r)
    \/ \E a \in {"gateNotFound", "tokenInvalid", "error"} : Answer(r, a)

LEMMA OwnLeavesRows ==
    ASSUME NEW r \in Requests, Own(r)
    PROVE  UNCHANGED <<gate, origin, token>>
BY DEF Own, Arrive, TypeHit, TypeRead, GiveTo, Fetch, PsidKnown, Located, NotLocated,
   Accept, Answer, admin

LEMMA OwnLeavesOthers ==
    ASSUME IInv, NEW r \in Requests, Own(r), NEW q \in Requests, q # r
    PROVE  RequestOK(q)'
<1>1. Kept(q)
  BY DEF Own, Arrive, TypeHit, TypeRead, GiveTo, Fetch, PsidKnown, Located, NotLocated,
     Asks, Accept, Answer, Goto, Kept, IInv, TypeOK, admin, caches, held
<1>. QED
  BY <1>1, RequestKept, OwnLeavesRows

LEMMA ArriveHolds ==
    ASSUME IInv, NEW r \in Requests, NEW m \in Message, Arrive(r, m)
    PROVE  RequestOK(r)'
<1>1. /\ pc'[r] = "type" /\ msg'[r] = m /\ sender'[r] = None /\ accepted'[r] = None
      /\ seen'[r] = {gate[m.gate]} /\ gate' = gate
  BY DEF IInv, TypeOK, Arrive, Goto, admin
<1>2. m # None
  BY NoneIsNothing
<1>. QED
  BY <1>1, <1>2 DEF RequestOK, HoldsOf, LeavesOf, AnswerOf, Running

LEMMA GiveToHolds ==
    ASSUME IInv, NEW r \in Requests, pc[r] = "type",
           msg[r].gate \in GateIds, NEW t \in Types, t = origin[msg[r].gate], GiveTo(r, t)
    PROVE  RequestOK(r)'
<1>1. /\ sender'[r] = t /\ msg'[r] = msg[r] /\ accepted'[r] = accepted[r]
      /\ seen'[r] = seen[r] /\ gate' = gate /\ origin' = origin
  BY DEF IInv, TypeOK, GiveTo, admin
<1>2. \/ pc'[r] = "fetch"
      \/ pc'[r] = "unimplemented" /\ t = "whatsapp"
  BY DEF IInv, TypeOK, GiveTo, Goto
<1>3. /\ msg[r] # None /\ accepted[r] = None /\ gate[msg[r].gate] \in seen[r]
  BY DEF IInv, RequestOK, HoldsOf, Running
<1>4. t # None
  BY NoneIsNothing
<1>. QED
  BY <1>1, <1>2, <1>3, <1>4 DEF RequestOK, HoldsOf, LeavesOf, AnswerOf, Running

LEMMA TypeHolds ==
    ASSUME IInv, NEW r \in Requests, TypeHit(r) \/ TypeRead(r)
    PROVE  RequestOK(r)'
<1>1. pc[r] = "type" /\ msg[r].node \in Nodes /\ msg[r].gate \in GateIds
  BY Running1 DEF TypeHit, TypeRead
<1>2. CASE TypeHit(r)
  <2>1. CachedType(r) # None /\ GiveTo(r, CachedType(r))
    BY <1>2 DEF TypeHit
  <2>2. CachedType(r) = origin[msg[r].gate]
    BY <1>1, <2>1 DEF CachedType, IInv, Shared, CachesAreTrue
  <2>3. CachedType(r) \in Types
    BY <1>1, <2>1 DEF CachedType, IInv, TypeOK
  <2>. QED
    BY <1>1, <2>1, <2>2, <2>3, GiveToHolds
<1>3. CASE TypeRead(r)
  <2>1. gate[msg[r].gate].type \in Types /\ gate[msg[r].gate].type = origin[msg[r].gate]
    BY <1>1, <1>3, RowRead DEF TypeRead
  <2>. QED
    BY <1>1, <1>3, <2>1, GiveToHolds DEF TypeRead
<1>. QED
  BY <1>2, <1>3

LEMMA AnswerHolds ==
    ASSUME IInv, NEW r \in Requests,
           \/ TypeAbsent(r) \/ QueryFails(r) \/ FetchAbsent(r)
           \/ RefuseLocally(r) \/ RefuseToken(r) \/ SendFails(r)
    PROVE  RequestOK(r)'
<1>1. PICK a \in {"gateNotFound", "tokenInvalid", "error"} :
        /\ Answer(r, a)
        /\ a = "gateNotFound" => sender[r] = "whatsapp" \/ gate[msg[r].gate] = None
        /\ a = "tokenInvalid" => pc[r] = "send" /\ token[bearer[r]] # "valid"
  BY DEF TypeAbsent, QueryFails, FetchAbsent, RefuseLocally, RefuseToken, SendFails, Calls
<1>2. /\ pc[r] \in Running
  BY DEF TypeAbsent, QueryFails, FetchAbsent, RefuseLocally, RefuseToken, SendFails, Calls,
     Running
<1>3. /\ pc'[r] = a /\ msg' = msg /\ sender' = sender /\ bearer' = bearer
      /\ accepted' = accepted /\ seen' = seen /\ token' = token
  BY <1>1 DEF IInv, TypeOK, Answer, Goto, admin, held
<1>4. /\ msg[r] # None /\ accepted[r] = None /\ gate[msg[r].gate] \in seen[r]
  BY <1>2 DEF IInv, RequestOK, HoldsOf, Running
<1>5. pc[r] = "send" => bearer[r] # None
  BY DEF IInv, RequestOK, HoldsOf
<1>. QED
  BY <1>1, <1>3, <1>4, <1>5 DEF RequestOK, HoldsOf, LeavesOf, AnswerOf, Running

LEMMA FetchHolds ==
    ASSUME IInv, NEW r \in Requests, Fetch(r)
    PROVE  RequestOK(r)'
<1>. DEFINE row == gate[msg[r].gate]
<1>1. msg[r].gate \in GateIds
  BY Running1 DEF Fetch
<1>2. row # None /\ row \in Row /\ row.type = sender[r] /\ row.token \in Tokens
  BY <1>1, RowRead DEF Fetch
<1>3. /\ bearer'[r] = row.token /\ msg' = msg /\ sender' = sender
      /\ accepted' = accepted /\ seen' = seen /\ token' = token /\ gate' = gate
  BY DEF IInv, TypeOK, Fetch, admin
<1>4. /\ msg[r] # None /\ accepted[r] = None /\ row \in seen[r] /\ sender[r] # None
  BY DEF IInv, RequestOK, HoldsOf, Running, Fetch
<1>5. \/ pc'[r] = "locate"
      \/ pc'[r] = "tokenInvalid" /\ token[row.token] # "valid"
  BY DEF IInv, TypeOK, Fetch, Goto
<1>6. row \in Current(r)'
  BY <1>2, <1>3, <1>4 DEF Current
<1>7. row.token # None
  BY <1>2, NoneIsNothing
<1>. HIDE DEF row
<1>8. HoldsOf(r)'
  BY <1>2, <1>3, <1>4, <1>5, <1>6, <1>7 DEF HoldsOf, Running, row
<1>. QED
  BY <1>3, <1>4, <1>5, <1>7, <1>8 DEF RequestOK, LeavesOf, AnswerOf

LEMMA LocateHolds ==
    ASSUME IInv, NEW r \in Requests, PsidKnown(r) \/ Located(r) \/ NotLocated(r)
    PROVE  RequestOK(r)'
<1>1. pc[r] = "locate"
  BY DEF PsidKnown, Located, NotLocated, Asks
<1>2. /\ msg[r].node \in Nodes /\ msg[r].to \in Contacts \cup Addresses
  BY <1>1, Running1
<1>3. /\ msg' = msg /\ sender' = sender /\ bearer' = bearer
      /\ accepted' = accepted /\ seen' = seen /\ token' = token /\ gate' = gate
  BY DEF PsidKnown, Located, NotLocated, admin
<1>4. /\ msg[r] # None /\ accepted[r] = None /\ gate[msg[r].gate] \in seen[r]
      /\ sender[r] # None /\ bearer[r] # None
      /\ \E row \in Current(r) : row.type = sender[r] /\ row.token = bearer[r]
  BY <1>1 DEF IInv, RequestOK, HoldsOf, Running
<1>5. Current(r)' = Current(r)
  BY <1>3 DEF Current
<1>6. \/ pc'[r] = "error"
      \/ pc'[r] = "send" /\ address'[r] # None /\ address'[r] = Receiver(msg[r])
  <2>1. CASE PsidKnown(r)
    <3>1. pc'[r] = "send" /\ address'[r] = CachedPsid(r) /\ CachedPsid(r) # None
      BY <2>1 DEF IInv, TypeOK, PsidKnown, Goto
    <3>2. CachedPsid(r) = Receiver(msg[r])
      BY <1>2, <3>1 DEF CachedPsid, Receiver, IInv, Shared, CachesAreTrue
    <3>. QED
      BY <3>1, <3>2
  <2>2. CASE Located(r)
    BY <2>2 DEF IInv, TypeOK, Located, Goto, Receiver
  <2>3. CASE NotLocated(r)
    BY <2>3 DEF IInv, TypeOK, NotLocated, Goto
  <2>. QED
    BY <2>1, <2>2, <2>3
<1>. QED
  BY <1>3, <1>4, <1>5, <1>6 DEF RequestOK, HoldsOf, LeavesOf, AnswerOf, Running, Receiver

LEMMA AcceptHolds ==
    ASSUME IInv, NEW r \in Requests, Accept(r)
    PROVE  RequestOK(r)'
<1>. DEFINE d == [type |-> sender[r], token |-> bearer[r], to |-> address[r]]
<1>1. pc[r] = "send" /\ pc'[r] \in {"ok", "error"} /\ accepted'[r] = d
  BY DEF IInv, TypeOK, Accept, Calls, Goto
<1>2. msg' = msg /\ seen' = seen
  BY DEF Accept
<1>3. /\ msg[r] # None /\ address[r] = Receiver(msg[r])
      /\ \E row \in Current(r) : row.type = sender[r] /\ row.token = bearer[r]
  BY <1>1 DEF IInv, RequestOK, HoldsOf, Running
<1>4. d \in Delivery
  BY <1>1 DEF IInv, TypeOK, RequestOK, HoldsOf, Delivery
<1>5. d # None /\ d.type = sender[r] /\ d.token = bearer[r] /\ d.to = address[r]
  BY <1>4, NoneIsNothing
<1>6. Current(r)' = Current(r)
  BY <1>2 DEF Current
<1>. HIDE DEF d
<1>. QED
  BY <1>1, <1>2, <1>3, <1>5, <1>6 DEF RequestOK, HoldsOf, LeavesOf, AnswerOf, Running, Receiver

LEMMA RestartHolds ==
    ASSUME IInv, NEW n \in Nodes, Restart(n), NEW r \in Requests
    PROVE  RequestOK(r)'
<1>1. /\ UNCHANGED <<msg, sender, bearer, address, accepted, seen, gate, origin, token>>
  BY DEF Restart, admin, held
<1>2. \/ Kept(r)
      \/ pc[r] \in Running /\ pc'[r] = "lost"
  BY <1>1 DEF IInv, TypeOK, Restart, Kept
<1>3. CASE Kept(r)
  BY <1>1, <1>3, RequestKept
<1>4. CASE pc[r] \in Running /\ pc'[r] = "lost"
  <2>1. msg[r] # None /\ accepted[r] = None
    BY <1>4 DEF IInv, RequestOK, HoldsOf, Running
  <2>. QED
    BY <1>1, <1>4, <2>1 DEF RequestOK, HoldsOf, LeavesOf, AnswerOf, Running
<1>. QED
  BY <1>2, <1>3, <1>4

LEMMA InvalidateHolds ==
    ASSUME IInv, NEW t \in Tokens, NEW how \in {"revoked", "expired"}, Invalidate(t, how),
           NEW r \in Requests
    PROVE  RequestOK(r)'
<1>1. /\ UNCHANGED <<pc, msg, sender, bearer, address, accepted, seen, gate, origin>>
  BY DEF Invalidate, request, held
<1>2. \A x \in Tokens : token[x] # "valid" => token'[x] # "valid"
  BY DEF IInv, TypeOK, Invalidate
<1>3. bearer[r] \in Tokens \cup {None}
  BY DEF IInv, TypeOK
<1>. QED
  BY <1>1, <1>2, <1>3 DEF IInv, RequestOK, HoldsOf, LeavesOf, AnswerOf, Current, Receiver

LEMMA CommitHolds ==
    ASSUME IInv, NEW g \in GateIds, NEW row \in Row \cup {None}, Commit(g, row),
           \A h \in GateIds : origin[h] # None => origin'[h] = origin[h],
           UNCHANGED <<token, pc, msg, sender, bearer, address, accepted>>,
           NEW r \in Requests
    PROVE  RequestOK(r)'
<1>1. /\ gate'[g] = row
      /\ \A h \in GateIds : h # g => gate'[h] = gate[h]
      /\ seen[r] \subseteq seen'[r]
      /\ pc[r] \in Running /\ msg[r].gate = g => row \in seen'[r]
  BY CommitEffect
<1>2. pc[r] # "idle" => msg[r].gate \in GateIds
  BY Running1
<1>3. pc[r] \in Running => gate'[msg[r].gate] \in seen'[r]
  BY <1>1, <1>2 DEF IInv, RequestOK, HoldsOf, Running
<1>4. Current(r) \subseteq Current(r)'
  BY <1>1 DEF Current
<1>5. HoldsOf(r)'
  BY <1>3, <1>4 DEF IInv, RequestOK, HoldsOf, Receiver
<1>6. LeavesOf(r)'
  BY <1>4 DEF IInv, RequestOK, LeavesOf, Receiver
<1>7. pc[r] = "unimplemented" => origin'[msg[r].gate] = "whatsapp"
  BY <1>2, NoneIsNothing DEF IInv, RequestOK, AnswerOf, Types
<1>8. AnswerOf(r)'
  BY <1>1, <1>7 DEF IInv, RequestOK, AnswerOf
<1>. QED
  BY <1>5, <1>6, <1>8 DEF RequestOK

LEMMA AdministerHolds ==
    ASSUME IInv, NEW g \in GateIds, Administer(g), NEW r \in Requests
    PROVE  RequestOK(r)'
<1>1. ASSUME NEW row \in Row, Create(g, row)  PROVE RequestOK(r)'
  <2>1. Commit(g, row) /\ UNCHANGED <<token, pc, msg, sender, bearer, address, accepted>>
    BY <1>1 DEF Create, request, held
  <2>2. \A h \in GateIds : origin[h] # None => origin'[h] = origin[h]
    BY <1>1 DEF Create, IInv, TypeOK
  <2>. QED
    BY <2>1, <2>2, CommitHolds
<1>2. ASSUME NEW t \in Tokens, OAuthCallback(g, t)  PROVE RequestOK(r)'
  <2>1. Kept(r) /\ UNCHANGED <<gate, origin, token>>
    BY <1>2 DEF OAuthCallback, request, held, Kept
  <2>. QED
    BY <2>1, RequestKept
<1>3. ASSUME NEW e \in BOOLEAN, UpdateGate(g, e)  PROVE RequestOK(r)'
  <2>. DEFINE row == [gate[g] EXCEPT !.enabled = e]
  <2>1. row \in Row \cup {None}
    BY <1>3, RowRead DEF UpdateGate, Row
  <2>2. Commit(g, row) /\ UNCHANGED <<origin, token, pc, msg, sender, bearer, address, accepted>>
    BY <1>3 DEF UpdateGate, request, held
  <2>. HIDE DEF row
  <2>. QED
    BY <2>1, <2>2, CommitHolds
<1>4. CASE DeleteGate(g)
  <2>1. Commit(g, None) /\ UNCHANGED <<origin, token, pc, msg, sender, bearer, address, accepted>>
    BY <1>4 DEF DeleteGate, request, held
  <2>2. None \in Row \cup {None}
    OBVIOUS
  <2>. QED
    BY <2>1, <2>2, CommitHolds
<1>. QED
  BY <1>1, <1>2, <1>3, <1>4 DEF Administer

\* The steps of a request, with the reason of an answer.
LEMMA HandleSteps ==
    ASSUME NEW r \in Requests, Handle(r)
    PROVE  \/ Own(r)
           \/ Panic(r)
BY Answering DEF Handle, Own

LEMMA OwnHolds ==
    ASSUME IInv, NEW r \in Requests, Handle(r), ~ Panic(r)
    PROVE  RequestOK(r)'
BY ArriveHolds, TypeHolds, AnswerHolds, FetchHolds, LocateHolds, AcceptHolds DEF Handle

LEMMA RequestsInductive == IInv /\ [Next]_vars => (\A q \in Requests : RequestOK(q))'
<1>. SUFFICES ASSUME IInv, [Next]_vars, NEW q \in Requests  PROVE RequestOK(q)'
  OBVIOUS
<1>1. CASE UNCHANGED vars
  BY <1>1, RequestKept DEF Kept, vars
<1>2. ASSUME NEW r \in Requests, Handle(r)  PROVE RequestOK(q)'
  <2>1. CASE Panic(r)
    BY <2>1, PanicRestarts, RestartHolds
  <2>2. CASE ~ Panic(r) /\ q = r
    BY <1>2, <2>2, OwnHolds
  <2>3. CASE ~ Panic(r) /\ q # r
    BY <1>2, <2>3, HandleSteps, OwnLeavesOthers
  <2>. QED
    BY <2>1, <2>2, <2>3
<1>3. CASE Next
  BY <1>2, <1>3, AdministerHolds, InvalidateHolds, RestartHolds DEF Next
<1>. QED
  BY <1>1, <1>3

-----------------------------------------------------------------------------
(* The theorems.                                                           *)

LEMMA InitIInv == Init => IInv
<1>. SUFFICES ASSUME Init  PROVE IInv
  OBVIOUS
<1>1. Shared
  BY DEF Init, Shared, CachesAreTrue, RowsKeepType
<1>2. \A r \in Requests : RequestOK(r)
  BY DEF Init, RequestOK, HoldsOf, LeavesOf, AnswerOf, Running
<1>. QED
  BY <1>1, <1>2, InitTypes DEF IInv

\* The invariant from which everything else follows.
THEOREM Invariance == Spec => []IInv
<1>1. IInv /\ [Next]_vars => IInv'
  BY TypesInductive, SharedInductive, RequestsInductive DEF IInv
<1>. QED
  BY InitIInv, <1>1, PTL DEF Spec

\* The state keeps its types, of any number of requests, gates and nodes.
THEOREM TypeCorrect == Spec => []TypeOK
<1>1. IInv => TypeOK
  BY DEF IInv
<1>. QED
  BY <1>1, Invariance, PTL

\* Caches that are never invalidated stay true, whatever is created, deleted
\* and evicted (OutboundMessageHandler.typeCache, facebookProvider.psidCache).
THEOREM CachesTrue == Spec => []CachesAreTrue
<1>1. IInv => CachesAreTrue
  BY DEF IInv, Shared
<1>. QED
  BY <1>1, Invariance, PTL

\* No message leaves with the token of another gate, through a gate that was
\* deleted before the request arrived, or to another contact.
THEOREM RoutedToItsGate == Spec => []LeavesThroughItsGate
<1>1. IInv => LeavesThroughItsGate
  BY DEF IInv, RequestOK, LeavesOf, LeavesThroughItsGate, Receiver
<1>. QED
  BY <1>1, Invariance, PTL

\* What the handler answers is so.
THEOREM AnswersTrue == Spec => []AnswersAreTrue
<1>1. IInv => AnswersAreTrue
  BY DEF IInv, RequestOK, AnswerOf, AnswersAreTrue
<1>. QED
  BY <1>1, Invariance, PTL

-----------------------------------------------------------------------------
(* The service without its caches.  That a refusal names a reason needs     *)
(* more than IInv: the provider of a request is the one its gate was made   *)
(* for, and a WhatsApp gate stays, since no step deletes one.               *)

Stays == \A g \in GateIds : origin[g] = "whatsapp" => gate[g] # None

GivenTo(r) ==
    pc[r] \in {"fetch", "locate", "send"} => sender[r] = origin[msg[r].gate]

Providers == Stays /\ \A r \in Requests : GivenTo(r)

LEMMA InitProviders == Init => Providers
BY NoneIsNothing DEF Init, Providers, Stays, GivenTo, Types

\* What a step does to the rows: none, or a commit.
LEMMA RowSteps ==
    ASSUME IInv, NEW g \in GateIds, Administer(g)
    PROVE  /\ \/ UNCHANGED <<gate, seen>>
              \/ \E row \in Row \cup {None} : Commit(g, row)
           /\ UNCHANGED <<token, request>>
           /\ \A h \in GateIds : origin[h] # None => origin'[h] = origin[h]
<1>1. ASSUME NEW row \in Row, Create(g, row)
      PROVE  /\ Commit(g, row) /\ UNCHANGED <<token, request>>
             /\ \A h \in GateIds : origin[h] # None => origin'[h] = origin[h]
  BY <1>1 DEF Create, IInv, TypeOK
<1>2. ASSUME NEW t \in Tokens, OAuthCallback(g, t)
      PROVE  UNCHANGED <<gate, origin, seen, token, request>>
  BY <1>2 DEF OAuthCallback
<1>3. ASSUME NEW e \in BOOLEAN, UpdateGate(g, e)
      PROVE  /\ \E row \in Row \cup {None} : Commit(g, row)
             /\ UNCHANGED <<origin, token, request>>
  <2>1. [gate[g] EXCEPT !.enabled = e] \in Row
    BY <1>3, RowRead DEF UpdateGate, Row
  <2>. QED
    BY <1>3, <2>1 DEF UpdateGate
<1>4. ASSUME DeleteGate(g)
      PROVE  Commit(g, None) /\ UNCHANGED <<origin, token, request>>
  BY <1>4 DEF DeleteGate
<1>. QED
  BY <1>1, <1>2, <1>3, <1>4 DEF Administer

\* A gate that is made for WhatsApp stays.
LEMMA AdministerStays ==
    ASSUME IInv, Stays, NEW g \in GateIds, Administer(g)
    PROVE  Stays'
<1>1. ASSUME NEW row \in Row, Create(g, row)  PROVE Stays'
  <2>1. gate' = [gate EXCEPT ![g] = row] /\ row # None
    BY <1>1, NoneIsNothing DEF Create, Commit
  <2>2. \A h \in GateIds : h # g => origin'[h] = origin[h]
    BY <1>1 DEF Create, IInv, TypeOK
  <2>. QED
    BY <2>1, <2>2 DEF Stays, IInv, TypeOK
<1>2. ASSUME NEW t \in Tokens, OAuthCallback(g, t)  PROVE Stays'
  BY <1>2 DEF OAuthCallback, Stays
<1>3. ASSUME NEW row, Commit(g, row), gate[g] # None, gate[g].type = "facebook",
             UNCHANGED origin
      PROVE  Stays'
  <2>1. origin[g] = "facebook"
    BY <1>3, RowRead
  <2>. QED
    BY <1>3, <2>1 DEF Commit, Stays, IInv, TypeOK
<1>4. ASSUME NEW e \in BOOLEAN, UpdateGate(g, e)  PROVE Stays'
  BY <1>3, <1>4 DEF UpdateGate
<1>5. CASE DeleteGate(g)
  BY <1>3, <1>5 DEF DeleteGate
<1>. QED
  BY <1>1, <1>2, <1>4, <1>5 DEF Administer

\* The provider of a request is that of its gate when it is found.
LEMMA TypeGives ==
    ASSUME IInv, NEW r \in Requests, TypeHit(r) \/ TypeRead(r)
    PROVE  GiveTo(r, origin[msg[r].gate]) /\ origin[msg[r].gate] \in Types
<1>1. pc[r] = "type" /\ msg[r].node \in Nodes /\ msg[r].gate \in GateIds
  BY Running1 DEF TypeHit, TypeRead
<1>2. CASE TypeHit(r)
  BY <1>1, <1>2 DEF TypeHit, CachedType, IInv, TypeOK, Shared, CachesAreTrue
<1>3. CASE TypeRead(r)
  BY <1>1, <1>3, RowRead DEF TypeRead
<1>. QED
  BY <1>2, <1>3

LEMMA OwnProviders ==
    ASSUME IInv, NEW r \in Requests, GivenTo(r), Own(r)
    PROVE  GivenTo(r)'
<1>1. CASE TypeHit(r) \/ TypeRead(r)
  <2>1. GiveTo(r, origin[msg[r].gate])
    BY <1>1, TypeGives
  <2>. QED
    BY <2>1 DEF GiveTo, GivenTo, admin, IInv, TypeOK
<1>2. ASSUME NEW m \in Message, Arrive(r, m)  PROVE GivenTo(r)'
  BY <1>2 DEF Arrive, Goto, GivenTo, IInv, TypeOK
<1>3. CASE Fetch(r)
  BY <1>3 DEF Fetch, Goto, GivenTo, admin, IInv, TypeOK
<1>4. CASE PsidKnown(r) \/ Located(r) \/ NotLocated(r)
  BY <1>4 DEF PsidKnown, Located, NotLocated, Asks, Goto, GivenTo, admin, IInv, TypeOK
<1>5. CASE Accept(r)
  BY <1>5 DEF Accept, Calls, Goto, GivenTo, admin, IInv, TypeOK
<1>6. ASSUME NEW a \in {"gateNotFound", "tokenInvalid", "error"}, Answer(r, a)
      PROVE  GivenTo(r)'
  BY <1>6 DEF Answer, Goto, GivenTo, IInv, TypeOK
<1>. QED
  BY <1>1, <1>2, <1>3, <1>4, <1>5, <1>6 DEF Own

LEMMA ProvidersInductive == IInv /\ Providers /\ [Next]_vars => Providers'
<1>. SUFFICES ASSUME IInv, Providers, [Next]_vars  PROVE Providers'
  OBVIOUS
<1>1. ASSUME NEW q \in Requests, Kept(q), UNCHANGED origin  PROVE GivenTo(q)'
  BY <1>1 DEF Providers, GivenTo, Kept
<1>2. CASE UNCHANGED vars
  BY <1>1, <1>2 DEF vars, Kept, Providers, Stays
<1>3. ASSUME NEW r \in Requests, Own(r)  PROVE Providers'
  <2>1. UNCHANGED <<gate, origin, token>>
    BY <1>3, OwnLeavesRows
  <2>2. \A q \in Requests : q # r => Kept(q)
    BY <1>3 DEF Own, Arrive, TypeHit, TypeRead, GiveTo, Fetch, PsidKnown, Located, NotLocated,
       Asks, Accept, Answer, Goto, Kept, IInv, TypeOK, admin, caches, held
  <2>3. GivenTo(r)'
    BY <1>3, OwnProviders DEF Providers
  <2>. QED
    BY <1>1, <2>1, <2>2, <2>3 DEF Providers, Stays
<1>4. ASSUME NEW n \in Nodes, Restart(n)  PROVE Providers'
  BY <1>4 DEF Restart, Providers, Stays, GivenTo, admin, held, IInv, TypeOK
<1>5. ASSUME NEW g \in GateIds, Administer(g)  PROVE Providers'
  <2>1. ASSUME NEW r \in Requests  PROVE GivenTo(r)'
    <3>1. CASE pc[r] \in {"fetch", "locate", "send"}
      <4>1. msg[r].gate \in GateIds /\ sender[r] # None
        BY <3>1, Running1 DEF IInv, RequestOK, HoldsOf
      <4>2. sender[r] = origin[msg[r].gate]
        BY <3>1 DEF Providers, GivenTo
      <4>. QED
        BY <1>5, <4>1, <4>2, RowSteps DEF GivenTo, request, held
    <3>2. CASE pc[r] \notin {"fetch", "locate", "send"}
      BY <1>5, <3>2, RowSteps DEF GivenTo, request
    <3>. QED
      BY <3>1, <3>2
  <2>. QED
    BY <1>5, <2>1, AdministerStays DEF Providers
<1>6. ASSUME NEW t \in Tokens, NEW how \in {"revoked", "expired"}, Invalidate(t, how)
      PROVE  Providers'
  BY <1>6 DEF Invalidate, Providers, Stays, GivenTo, request, held
<1>7. CASE Next
  BY <1>3, <1>4, <1>5, <1>6, <1>7, HandleSteps, PanicRestarts DEF Next
<1>. QED
  BY <1>2, <1>7

THEOREM ProvidersInvariance == Spec => [](IInv /\ Providers)
<1>1. IInv /\ Providers /\ [Next]_vars => Providers'
  BY ProvidersInductive
<1>. QED
  BY InitProviders, <1>1, Invariance, PTL DEF Spec

-----------------------------------------------------------------------------
(* The refinement: what those see who see the gates, the answers and what   *)
(* Meta got.                                                                *)

Status == [r \in Requests |-> IF pc[r] \in Running THEN "pending" ELSE pc[r]]
AddressOf == [x \in Contacts \cup Addresses |-> IF x \in Contacts THEN Subject[x] ELSE x]

LEMMA SendingInit == Init => Sending!Init
BY DEF Init, Sending!Init, Running

\* A step of a request that runs on is not seen.
LEMMA Unseen ==
    ASSUME IInv, NEW r \in Requests, pc[r] \in Running, NEW place \in Running, Goto(r, place),
           UNCHANGED <<gate, token, msg, accepted, seen>>
    PROVE  UNCHANGED Sending!vars
<1>1. Status' = Status
  BY DEF Goto, Status, IInv, TypeOK
<1>. QED
  BY <1>1 DEF Sending!vars, Status

\* Its answer is.
LEMMA Answered ==
    ASSUME IInv, NEW r \in Requests, pc[r] \in Running, NEW a \in Answers, Goto(r, a),
           UNCHANGED <<gate, token, msg, seen>>
    PROVE  Sending!Answer(r, a)
<1>1. /\ Status[r] = "pending"
      /\ Status' = [Status EXCEPT ![r] = a]
  BY DEF Goto, Status, IInv, TypeOK, Running, Answers
<1>. QED
  BY <1>1 DEF Sending!Answer, Sending!Pending, Status

\* The row of a gate is one that a running request has seen.
LEMMA RowSeen ==
    ASSUME IInv, NEW r \in Requests, pc[r] \in Running
    PROVE  /\ msg[r].gate \in GateIds /\ gate[msg[r].gate] \in seen[r]
           /\ gate[msg[r].gate] # None => gate[msg[r].gate] \in Sending!Rows(r)
BY Running1 DEF IInv, RequestOK, HoldsOf, Running, Sending!Rows

\* The gate of a request given to the WhatsApp sender is one of WhatsApp.
LEMMA WhatsAppSeen ==
    ASSUME IInv, Stays, NEW r \in Requests, pc[r] \in Running,
           origin[msg[r].gate] = "whatsapp"
    PROVE  \E row \in Sending!Rows(r) : row.type = "whatsapp"
<1>1. msg[r].gate \in GateIds
  BY RowSeen
<1>2. gate[msg[r].gate] # None
  BY <1>1 DEF Stays
<1>. QED
  BY <1>1, <1>2, RowSeen, RowRead

LEMMA SeesArrive ==
    ASSUME IInv, NEW r \in Requests, NEW m \in Message, Arrive(r, m)
    PROVE  Sending!Ask(r)
<1>1. /\ Status[r] # "pending"
      /\ Status' = [Status EXCEPT ![r] = "pending"]
  BY DEF Arrive, Goto, Status, IInv, TypeOK, Running, Stages, Answers
<1>. QED
  BY <1>1 DEF Arrive, admin, Sending!Ask, Sending!Pending, Status

LEMMA SeesType ==
    ASSUME IInv, Providers, NEW r \in Requests, TypeHit(r) \/ TypeRead(r)
    PROVE  Sending!Refuse(r) \/ UNCHANGED Sending!vars
<1>. DEFINE type == origin[msg[r].gate]
<1>1. GiveTo(r, type) /\ pc[r] \in Running
  BY TypeGives DEF TypeHit, TypeRead, Running
<1>2. UNCHANGED <<gate, token, msg, accepted, seen>>
  BY <1>1 DEF GiveTo, admin
<1>3. CASE type = "whatsapp" /\ msg[r].kind \in Interactive
  <2>1. Sending!Answer(r, "unimplemented")
    BY <1>1, <1>2, <1>3, Answered DEF GiveTo, Answers
  <2>. QED
    BY <1>1, <1>2, <1>3, <2>1, WhatsAppSeen DEF Sending!Refuse, Providers
<1>4. CASE ~ (type = "whatsapp" /\ msg[r].kind \in Interactive)
  BY <1>1, <1>2, <1>4, Unseen DEF GiveTo, Running
<1>. QED
  BY <1>3, <1>4

LEMMA SeesAnswer ==
    ASSUME IInv, Providers, NEW r \in Requests,
           \/ TypeAbsent(r) \/ QueryFails(r) \/ FetchAbsent(r)
           \/ RefuseLocally(r) \/ RefuseToken(r) \/ SendFails(r)
    PROVE  Sending!Refuse(r)
<1>1. PICK a \in {"gateNotFound", "tokenInvalid", "error"} :
        /\ Answer(r, a) /\ pc[r] \in Running
        /\ a = "gateNotFound" =>
              gate[msg[r].gate] = None \/ (pc[r] = "fetch" /\ sender[r] # "facebook")
        /\ a = "tokenInvalid" => pc[r] = "send" /\ token[bearer[r]] # "valid"
  BY DEF TypeAbsent, QueryFails, FetchAbsent, RefuseLocally, RefuseToken, SendFails, Calls,
     Running
<1>2. UNCHANGED accepted /\ Sending!Answer(r, a)
  BY <1>1, Answered DEF Answer, admin, held, Answers
<1>3. CASE a = "gateNotFound"
  <2>1. CASE gate[msg[r].gate] = None
    BY <1>1, <1>2, <1>3, <2>1, RowSeen DEF Sending!Refuse, Sending!MayBeMissed
  <2>2. CASE pc[r] = "fetch" /\ sender[r] # "facebook"
    <3>1. sender[r] = "whatsapp" /\ origin[msg[r].gate] = "whatsapp"
      BY <2>2 DEF IInv, TypeOK, Types, RequestOK, HoldsOf, Providers, GivenTo
    <3>. QED
      BY <1>1, <1>2, <1>3, <3>1, WhatsAppSeen
         DEF Sending!Refuse, Sending!MayBeMissed, Providers
  <2>. QED
    BY <1>1, <1>3, <2>1, <2>2
<1>4. CASE a = "tokenInvalid"
  <2>1. PICK row \in Current(r) : row.token = bearer[r]
    BY <1>1, <1>4 DEF IInv, RequestOK, HoldsOf
  <2>. QED
    BY <1>1, <1>2, <1>4, <2>1 DEF Sending!Refuse, Sending!Rows, Current
<1>5. CASE a = "error"
  BY <1>2, <1>5 DEF Sending!Refuse
<1>. QED
  BY <1>3, <1>4, <1>5

LEMMA SeesFetch ==
    ASSUME IInv, NEW r \in Requests, Fetch(r)
    PROVE  Sending!Refuse(r) \/ UNCHANGED Sending!vars
<1>. DEFINE row == gate[msg[r].gate]
<1>1. pc[r] \in Running /\ row # None /\ UNCHANGED <<gate, token, msg, accepted, seen>>
  BY DEF Fetch, Running, admin
<1>2. row \in Sending!Rows(r)
  BY <1>1, RowSeen
<1>3. CASE sender[r] = "whatsapp" /\ token[row.token] = "expired"
  <2>1. Sending!Answer(r, "tokenInvalid")
    BY <1>1, <1>3, Answered DEF Fetch, Answers
  <2>. QED
    BY <1>1, <1>2, <1>3, <2>1 DEF Sending!Refuse
<1>4. CASE ~ (sender[r] = "whatsapp" /\ token[row.token] = "expired")
  BY <1>1, <1>4, Unseen DEF Fetch, Running
<1>. QED
  BY <1>3, <1>4

LEMMA SeesLocate ==
    ASSUME IInv, NEW r \in Requests, PsidKnown(r) \/ Located(r) \/ NotLocated(r)
    PROVE  Sending!Refuse(r) \/ UNCHANGED Sending!vars
<1>1. pc[r] \in Running /\ UNCHANGED <<gate, token, msg, accepted, seen>>
  BY DEF PsidKnown, Located, NotLocated, Asks, Running, admin
<1>2. CASE PsidKnown(r) \/ Located(r)
  BY <1>1, <1>2, Unseen DEF PsidKnown, Located, Running
<1>3. CASE NotLocated(r)
  BY <1>1, <1>3, Answered DEF NotLocated, Answers, Sending!Refuse
<1>. QED
  BY <1>2, <1>3

LEMMA SeesAccept ==
    ASSUME IInv, NEW r \in Requests, Accept(r)
    PROVE  \E row \in Sending!Rows(r) : Sending!Deliver(r, row)
<1>1. pc[r] = "send" /\ msg[r].to \in Contacts \cup Addresses
  BY Running1 DEF Accept, Calls
<1>2. PICK row \in Current(r) : row.type = sender[r] /\ row.token = bearer[r]
  BY <1>1 DEF IInv, RequestOK, HoldsOf
<1>3. address[r] # None /\ address[r] = AddressOf[msg[r].to]
  BY <1>1 DEF IInv, RequestOK, HoldsOf, Receiver, AddressOf
<1>4. accepted' = [accepted EXCEPT ![r] =
          [type |-> row.type, token |-> row.token, to |-> AddressOf[msg[r].to]]]
  BY <1>2, <1>3 DEF Accept
<1>5. Sending!Answer(r, "ok") \/ Sending!Answer(r, "error")
  BY <1>1, Answered DEF Accept, admin, Running, Answers
<1>6. token[row.token] = "valid"
  BY <1>2 DEF Accept
<1>. QED
  BY <1>2, <1>3, <1>4, <1>5, <1>6 DEF Sending!Deliver, Sending!Rows, Current, AddressOf

LEMMA SeesRestart ==
    ASSUME IInv, NEW n \in Nodes, Restart(n)
    PROVE  \E S \in SUBSET Requests : Sending!Lose(S)
<1>. DEFINE S == {r \in Requests : pc[r] \in Running /\ msg[r].node = n}
<1>1. \A r \in S : Status[r] = "pending"
  BY DEF Status
<1>2. Status' = [r \in Requests |-> IF r \in S THEN "lost" ELSE Status[r]]
  BY DEF Restart, Status, Running
<1>. QED
  BY <1>1, <1>2 DEF Restart, admin, held, Sending!Lose, Sending!Pending, Status

LEMMA SeesAdminister ==
    ASSUME IInv, NEW g \in GateIds, Administer(g)
    PROVE  \/ \E row \in Row \cup {None} : Sending!Commit(g, row)
           \/ UNCHANGED Sending!vars
<1>1. UNCHANGED <<token, pc, msg, accepted>> /\ Status' = Status
  BY RowSteps DEF request, held, Status
<1>2. CASE UNCHANGED <<gate, seen>>
  BY <1>1, <1>2 DEF Sending!vars, Status
<1>3. ASSUME NEW row \in Row \cup {None}, Commit(g, row)
      PROVE  Sending!Commit(g, row)
  <2>1. \A r \in Requests : Status[r] = "pending" <=> pc[r] \in Running
    BY DEF Status, IInv, TypeOK, Stages, Answers, Running
  <2>. QED
    BY <1>1, <1>3, <2>1 DEF Commit, Sending!Commit, Sending!Pending, Status
<1>. QED
  BY <1>2, <1>3, RowSteps

LEMMA SendingStep ==
    IInv /\ Providers /\ [Next]_vars => [Sending!Next]_(Sending!vars)
<1>. SUFFICES ASSUME IInv, Providers, [Next]_vars  PROVE [Sending!Next]_(Sending!vars)
  OBVIOUS
<1>1. CASE UNCHANGED vars
  BY <1>1 DEF vars, Sending!vars
<1>2. ASSUME NEW n \in Nodes, Restart(n)  PROVE Sending!Next
  BY <1>2, SeesRestart DEF Sending!Next
<1>3. ASSUME NEW r \in Requests, Handle(r)  PROVE [Sending!Next]_(Sending!vars)
  <2>1. CASE Panic(r)
    BY <1>2, <2>1, PanicRestarts
  <2>2. CASE ~ Panic(r)
    BY <1>3, <2>2, SeesArrive, SeesType, SeesAnswer, SeesFetch, SeesLocate, SeesAccept
       DEF Handle, Sending!Next
  <2>. QED
    BY <2>1, <2>2
<1>4. ASSUME NEW g \in GateIds, Administer(g)  PROVE [Sending!Next]_(Sending!vars)
  BY <1>4, SeesAdminister DEF Sending!Next
<1>5. ASSUME NEW t \in Tokens, NEW how \in {"revoked", "expired"}, Invalidate(t, how)
      PROVE  Sending!Next
  BY <1>5 DEF Invalidate, request, held, Sending!Next, Sending!Invalidate
<1>6. CASE Next
  BY <1>2, <1>3, <1>4, <1>5, <1>6 DEF Next
<1>. QED
  BY <1>1, <1>6

\* The caches of the handler and of the Facebook sender, and the order of the
\* calls behind a message, are not seen: each message is sent in one step and
\* once, through a row its gate had since it was asked for, and a refusal
\* names a reason that held.
THEOREM SentInOneStep == Spec => CachesAreNotSeen
BY ProvidersInvariance, SendingInit, SendingStep, PTL DEF Spec, CachesAreNotSeen, Sending!Spec
=============================================================================
