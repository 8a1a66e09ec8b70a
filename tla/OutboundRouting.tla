--------------------------- MODULE OutboundRouting ---------------------------
(***************************************************************************)
(* Outbound messages: the gRPC handler that finds the provider of a gate,  *)
(* the Facebook and the WhatsApp sender behind it, and what happens to a   *)
(* gate and its access token meanwhile.                                    *)
(*                                                                         *)
(* A request is a sequence of calls (database, contact service, Graph      *)
(* API), each an action; a look into a cache of the own process belongs to *)
(* the action that follows from it.  Two caches per process are never      *)
(* invalidated: the type of a gate and the PSID of a contact.              *)
(*                                                                         *)
(* Texts, files and buttons are abstracted to Kinds, which tell apart what *)
(* the senders treat differently; a request of kind "blank", "noFile" or   *)
(* "noButtons" carries nothing to send.  A token that cannot be decrypted  *)
(* is one that Meta refuses (Facebook) or a failing query (WhatsApp).      *)
(***************************************************************************)
EXTENDS Naturals, FiniteSets

CONSTANTS
    Nodes,          \* running instances of the service
    Requests,       \* slots for the messages being sent
    GateIds,        \* UUIDs the database can issue
    Contacts,       \* UUIDs of contacts
    Addresses,      \* PSIDs and phone numbers
    Subject,        \* the address of each contact, None for one without
    Domains,        \* business accounts of the platform
    Tokens,         \* access tokens Meta can issue
    Kinds,          \* kinds of message, see AllKinds
    TypeCacheSize,  \* capacity of the cache of gate types
    PsidCacheSize,  \* capacity of the cache of PSIDs
    NoDomain,       \* the zero value of a domain
    None            \* absent row, entry or value

Types == {"facebook", "whatsapp"}
AllKinds == {"text", "blank", "file", "noFile", "interactive", "noButtons"}
Interactive == {"interactive", "noButtons"}

\* A gate with its configuration and its bot.
Row == [type : Types, domain : Domains, enabled : BOOLEAN, token : Tokens]
Message == [node : Nodes, kind : Kinds, gate : GateIds,
            to : Contacts \cup Addresses, domain : Domains]
Delivery == [type : Types, token : Tokens, to : Addresses]

ASSUME CacheSizesPositive ==
    TypeCacheSize \in Nat \ {0} /\ PsidCacheSize \in Nat \ {0}
ASSUME KindsKnown == Kinds \subseteq AllKinds
ASSUME SubjectsAreAddresses == Subject \in [Contacts -> Addresses \cup {None}]
ASSUME ContactsAreNoAddresses == Contacts \cap Addresses = {}
ASSUME NoDomainIsNoDomain == NoDomain \notin Domains
ASSUME NoneIsNothing ==
    /\ None \notin Types \cup Addresses \cup Tokens \cup Domains \cup {NoDomain}
    /\ None \notin Row /\ None \notin Message /\ None \notin Delivery

VARIABLES
    gate,       \* tables gates, bots, facebook, gate_waba: GateIds -> Row or None
    origin,     \* the type a gate was created with, None for an unused UUID
    token,      \* "valid", "revoked" or "expired" at Meta
    granted,    \* the page token the last OAuth callback returned for a gate
    renewed,    \* gates updated after that callback
    typeCache,  \* OutboundMessageHandler.typeCache of each node
    psidCache,  \* facebookProvider.psidCache of each node
    pc,         \* where each request stands, at last its answer
    msg,        \* the request
    sender,     \* the provider a request was given to
    bearer,     \* the token of the gate a request has read
    address,    \* the address a request has resolved
    asked,      \* the domain a request named to the contact service or gateway
    accepted,   \* what the Graph API accepted for a request
    seen        \* history: what the row of its gate was while a request ran

admin == <<gate, origin, token, granted, renewed>>
caches == <<typeCache, psidCache>>
held == <<sender, bearer, address, asked, accepted>>
vars == <<gate, origin, token, granted, renewed, typeCache, psidCache,
          pc, msg, sender, bearer, address, asked, accepted, seen>>

Stages == {"idle", "type", "fetch", "locate", "send"}
\* By their text: "gate not found", "page token invalid", "access token is
\* expired"; every other failure is an "error".
Answers == {"ok", "gateNotFound", "tokenInvalid", "unimplemented", "error", "lost"}
Running == {"type", "fetch", "locate", "send"}

-----------------------------------------------------------------------------
Init ==
    /\ gate = [g \in GateIds |-> None]
    /\ origin = [g \in GateIds |-> None]
    /\ token = [t \in Tokens |-> "valid"]
    /\ granted = [g \in GateIds |-> None]
    /\ renewed = {}
    /\ typeCache = [n \in Nodes |-> [g \in GateIds |-> None]]
    /\ psidCache = [n \in Nodes |-> [c \in Contacts |-> None]]
    /\ pc = [r \in Requests |-> "idle"]
    /\ msg = [r \in Requests |-> None]
    /\ sender = [r \in Requests |-> None]
    /\ bearer = [r \in Requests |-> None]
    /\ address = [r \in Requests |-> None]
    /\ asked = [r \in Requests |-> None]
    /\ accepted = [r \in Requests |-> None]
    /\ seen = [r \in Requests |-> {}]

Goto(r, place) == pc' = [pc EXCEPT ![r] = place]

\* A mutant: the evicted entry keeps its key and gets the new value.
AddedOverOldest(entries, keys, size, k, v) ==
    IF {x \in keys : entries[x] # None} \in {{}, {k}} THEN {[entries EXCEPT ![k] = v]}
    ELSE {[entries EXCEPT ![o] = v] : o \in {x \in keys : entries[x] # None}}

\* lru.Add: a new key on a full cache evicts one entry.
Added(entries, keys, size, k, v) ==
    LET used == {x \in keys : entries[x] # None}
        full == k \notin used /\ Cardinality(used) >= size
    IN { [x \in keys |-> IF x = k THEN v ELSE IF x \in out THEN None
                                                     ELSE entries[x]] :
           out \in {o \in SUBSET used : Cardinality(o) = IF full THEN 1 ELSE 0} }

-----------------------------------------------------------------------------
(* The handler: which provider has the gate.                               *)

Arrive(r, m) ==
    /\ pc[r] \notin Running
    /\ Goto(r, "type")
    /\ msg' = [msg EXCEPT ![r] = m]
    /\ seen' = [seen EXCEPT ![r] = {gate[m.gate]}]
    /\ sender' = [sender EXCEPT ![r] = None]
    /\ bearer' = [bearer EXCEPT ![r] = None]
    /\ address' = [address EXCEPT ![r] = None]
    /\ asked' = [asked EXCEPT ![r] = None]
    /\ accepted' = [accepted EXCEPT ![r] = None]
    /\ UNCHANGED <<admin, caches>>

\* Only the Facebook provider is an InteractiveSender.
GiveTo(r, type) ==
    /\ sender' = [sender EXCEPT ![r] = type]
    /\ Goto(r, IF type = "whatsapp" /\ msg[r].kind \in Interactive
               THEN "unimplemented" ELSE "fetch")
    /\ UNCHANGED <<admin, psidCache, msg, bearer, address, asked, accepted, seen>>

CachedType(r) == typeCache[msg[r].node][msg[r].gate]

TypeHit(r) ==
    /\ pc[r] = "type"
    /\ CachedType(r) # None
    /\ GiveTo(r, CachedType(r))
    /\ UNCHANGED typeCache

\* GetTypeByID finds the gate: typeCache.Add.
TypeRead(r) ==
    LET n == msg[r].node  g == msg[r].gate
    IN /\ pc[r] = "type"
       /\ CachedType(r) = None
       /\ gate[g] # None
       /\ \E after \in Added(typeCache[n], GateIds, TypeCacheSize, g, gate[g].type) :
             typeCache' = [typeCache EXCEPT ![n] = after]
       /\ GiveTo(r, gate[g].type)

Answer(r, answer) == Goto(r, answer) /\ UNCHANGED <<admin, caches, msg, held, seen>>

TypeAbsent(r) ==
    /\ pc[r] = "type"
    /\ CachedType(r) = None
    /\ gate[msg[r].gate] = None
    /\ Answer(r, "gateNotFound")

\* A query fails: no cache is written and nothing is sent.
QueryFails(r) ==
    /\ pc[r] \in {"type", "fetch"}
    /\ pc[r] = "type" => CachedType(r) = None
    /\ Answer(r, "error")

-----------------------------------------------------------------------------
(* The senders read the gate and its token, whether or not it is enabled:  *)
(* Facebook from the primary, WhatsApp from a replica, which may not have  *)
(* a new gate yet (the row of a WhatsApp gate never changes).              *)

\* A mutant: the join without the id of the gate.
FetchWithoutId(r) ==
    \E g \in GateIds :
        /\ pc[r] = "fetch"
        /\ gate[g] # None
        /\ gate[g].type = sender[r]
        /\ bearer' = [bearer EXCEPT ![r] = gate[g].token]
        /\ Goto(r, "locate")
        /\ UNCHANGED <<admin, caches, msg, sender, address, asked, accepted, seen>>

Fetch(r) ==
    LET row == gate[msg[r].gate]
    IN /\ pc[r] = "fetch"
       /\ row # None
       /\ row.type = sender[r]
       /\ bearer' = [bearer EXCEPT ![r] = row.token]
       /\ Goto(r, IF sender[r] = "whatsapp" /\ token[row.token] = "expired"
                  THEN "tokenInvalid" ELSE "locate")
       /\ UNCHANGED <<admin, caches, msg, sender, address, asked, accepted, seen>>

\* ErrNotFound of the Facebook store reaches the caller without a code.
FetchAbsent(r) ==
    /\ pc[r] = "fetch"
    /\ sender[r] = "whatsapp" \/ gate[msg[r].gate] = None
    /\ Answer(r, IF sender[r] = "facebook" THEN "error" ELSE "gateNotFound")

-----------------------------------------------------------------------------
(* The address of the receiver.                                            *)

CachedPsid(r) ==
    IF msg[r].to \in Contacts THEN psidCache[msg[r].node][msg[r].to] ELSE msg[r].to

\* A mutant: what is in the cache counts as resolved, the contact is sent.
PsidKnownSendsContact(r) ==
    /\ pc[r] = "locate" /\ sender[r] = "facebook"
    /\ CachedPsid(r) # None
    /\ address' = [address EXCEPT ![r] = msg[r].to]
    /\ Goto(r, "send")
    /\ UNCHANGED <<admin, caches, msg, sender, bearer, asked, accepted, seen>>

\* A PSID is used as it is; a contact may be in the cache.
PsidKnown(r) ==
    /\ pc[r] = "locate" /\ sender[r] = "facebook"
    /\ CachedPsid(r) # None
    /\ address' = [address EXCEPT ![r] = CachedPsid(r)]
    /\ Goto(r, "send")
    /\ UNCHANGED <<admin, caches, msg, sender, bearer, asked, accepted, seen>>

\* The request that needs a call, with the domain it names: the store leaves
\* the domain of a Facebook gate at its zero value.
Asks(r) ==
    /\ pc[r] = "locate"
    /\ sender[r] = "facebook" => CachedPsid(r) = None
    /\ asked' = [asked EXCEPT ![r] = IF sender[r] = "facebook"
                                     THEN NoDomain ELSE msg[r].domain]

\* SearchContact or Locate; Facebook remembers the answer.
Located(r) ==
    LET n == msg[r].node  c == msg[r].to
    IN /\ Asks(r)
       /\ c \in Contacts
       /\ Subject[c] # None
       /\ address' = [address EXCEPT ![r] = Subject[c]]
       /\ IF sender[r] = "facebook"
          THEN \E after \in Added(psidCache[n], Contacts, PsidCacheSize, c, Subject[c]) :
                  psidCache' = [psidCache EXCEPT ![n] = after]
          ELSE UNCHANGED psidCache
       /\ Goto(r, "send")
       /\ UNCHANGED <<admin, typeCache, msg, sender, bearer, accepted, seen>>

\* The call fails, or the contact is unknown or has no address.
NotLocated(r) ==
    /\ Asks(r)
    /\ Goto(r, "error")
    /\ UNCHANGED <<admin, caches, msg, sender, bearer, address, accepted, seen>>

-----------------------------------------------------------------------------
(* The Graph API.                                                          *)

\* The senders refuse some messages by themselves; WhatsApp takes the first
\* file of a list without looking at its length.
Refused(r) == <<sender[r], msg[r].kind>> \in
                 {<<"facebook", "noButtons">>, <<"whatsapp", "blank">>}
Panics(r) == sender[r] = "whatsapp" /\ msg[r].kind = "noFile"

RefuseLocally(r) ==
    /\ pc[r] = "send" /\ Refused(r)
    /\ Answer(r, "error")

Calls(r) == pc[r] = "send" /\ ~ Refused(r) /\ ~ Panics(r)

\* Meta accepts the message; its answer may be lost, which is an error.
Accept(r) ==
    /\ Calls(r)
    /\ msg[r].kind \in {"text", "file", "interactive"}
    /\ token[bearer[r]] = "valid"
    /\ accepted' = [accepted EXCEPT ![r] =
            [type |-> sender[r], token |-> bearer[r], to |-> address[r]]]
    /\ \E answer \in {"ok", "error"} : Goto(r, answer)
    /\ UNCHANGED <<admin, caches, msg, sender, bearer, address, asked, seen>>

\* A mutant: every refusal is taken for a token that no longer works.
RefuseTokenAlways(r) ==
    /\ Calls(r)
    /\ Answer(r, "tokenInvalid")

\* Code 190: ErrTokenInvalid, which toGRPCError turns into Unauthenticated.
RefuseToken(r) ==
    /\ Calls(r)
    /\ token[bearer[r]] # "valid"
    /\ Answer(r, "tokenInvalid")

\* Any other refusal, or no connection.
SendFails(r) ==
    /\ Calls(r)
    /\ Answer(r, "error")

-----------------------------------------------------------------------------
(* Gates and tokens meanwhile.                                             *)

request == <<pc, msg, held>>

\* A commit is visible to the requests that run.
Commit(g, row) ==
    /\ gate' = [gate EXCEPT ![g] = row]
    /\ seen' = [r \in Requests |->
                  IF pc[r] \in Running /\ msg[r].gate = g
                  THEN seen[r] \cup {row} ELSE seen[r]]

Create(g, row) ==
    /\ origin[g] = None
    /\ row.type = "facebook" => row.enabled
    /\ Commit(g, row)
    /\ origin' = [origin EXCEPT ![g] = row.type]
    /\ UNCHANGED <<token, granted, renewed, caches, request>>

\* MetaOAuthCallback returns a new token for the page of a gate, and leaves
\* its use to the client.
OAuthCallback(g, t) ==
    /\ gate[g] # None /\ gate[g].type = "facebook"
    /\ \A h \in GateIds : t # granted[h] /\ (gate[h] # None => t # gate[h].token)
    /\ token[t] = "valid"
    /\ granted' = [granted EXCEPT ![g] = t]
    /\ renewed' = renewed \ {g}
    /\ UNCHANGED <<gate, origin, token, caches, request, seen>>

\* UpdateFacebookGate passes the name, the peer and enabled, no token.
UpdateGate(g, enabled) ==
    /\ gate[g] # None /\ gate[g].type = "facebook"
    /\ Commit(g, [gate[g] EXCEPT !.enabled = enabled])
    /\ renewed' = IF granted[g] # None THEN renewed \cup {g} ELSE renewed
    /\ UNCHANGED <<origin, token, granted, caches, request>>

DeleteGate(g) ==
    /\ gate[g] # None /\ gate[g].type = "facebook"
    /\ Commit(g, None)
    /\ UNCHANGED <<origin, token, granted, renewed, caches, request>>

\* Meta revokes a token; or its time, which a WhatsApp row records, passes.
Invalidate(t, how) ==
    /\ token[t] = "valid"
    /\ token' = [token EXCEPT ![t] = how]
    /\ UNCHANGED <<gate, origin, granted, renewed, caches, request, seen>>

\* A node stops and starts: its caches and its requests are lost.
Restart(n) ==
    /\ typeCache' = [typeCache EXCEPT ![n] = [g \in GateIds |-> None]]
    /\ psidCache' = [psidCache EXCEPT ![n] = [c \in Contacts |-> None]]
    /\ pc' = [r \in Requests |-> IF pc[r] \in Running /\ msg[r].node = n
                                 THEN "lost" ELSE pc[r]]
    /\ UNCHANGED <<admin, msg, held, seen>>

\* Nothing recovers the panic of a handler: the process ends.
Panic(r) ==
    /\ pc[r] = "send" /\ Panics(r)
    /\ Restart(msg[r].node)

-----------------------------------------------------------------------------
Handle(r) ==
    \/ \E m \in Message : Arrive(r, m)
    \/ TypeHit(r) \/ TypeRead(r) \/ TypeAbsent(r) \/ QueryFails(r)
    \/ Fetch(r) \/ FetchAbsent(r)
    \/ PsidKnown(r) \/ Located(r) \/ NotLocated(r)
    \/ RefuseLocally(r) \/ Panic(r)
    \/ Accept(r) \/ RefuseToken(r) \/ SendFails(r)

Administer(g) ==
    \/ \E row \in Row : Create(g, row)
    \/ \E t \in Tokens : OAuthCallback(g, t)
    \/ \E enabled \in BOOLEAN : UpdateGate(g, enabled)
    \/ DeleteGate(g)

Next ==
    \/ \E r \in Requests : Handle(r)
    \/ \E g \in GateIds : Administer(g)
    \/ \E t \in Tokens, how \in {"revoked", "expired"} : Invalidate(t, how)
    \/ \E n \in Nodes : Restart(n)

Spec == Init /\ [][Next]_vars

-----------------------------------------------------------------------------
(* Properties.                                                             *)

TypeOK ==
    /\ gate \in [GateIds -> Row \cup {None}]
    /\ origin \in [GateIds -> Types \cup {None}]
    /\ token \in [Tokens -> {"valid", "revoked", "expired"}]
    /\ granted \in [GateIds -> Tokens \cup {None}]
    /\ renewed \subseteq GateIds
    /\ typeCache \in [Nodes -> [GateIds -> Types \cup {None}]]
    /\ psidCache \in [Nodes -> [Contacts -> Addresses \cup {None}]]
    /\ pc \in [Requests -> Stages \cup Answers]
    /\ msg \in [Requests -> Message \cup {None}]
    /\ sender \in [Requests -> Types \cup {None}]
    /\ bearer \in [Requests -> Tokens \cup {None}]
    /\ address \in [Requests -> Addresses \cup {None}]
    /\ asked \in [Requests -> Domains \cup {NoDomain, None}]
    /\ accepted \in [Requests -> Delivery \cup {None}]
    /\ seen \in [Requests -> SUBSET (Row \cup {None})]

\* The caches are never invalidated, and need not be: whatever is created,
\* deleted and evicted, what they say of a gate or a contact stays true.
CachesAreTrue ==
    \A n \in Nodes :
        /\ \A g \in GateIds : typeCache[n][g] \in {None, origin[g]}
        /\ \A c \in Contacts : psidCache[n][c] \in {None, Subject[c]}

\* The rows the gate of a request had while it ran.
Current(r) == seen[r] \ {None}

\* A message leaves through the gate it names and no other: by its provider,
\* with a token the gate had while the request ran (so never through a gate
\* that was deleted before), to the address of the contact it names.
LeavesThroughItsGate ==
    \A r \in Requests : accepted[r] # None =>
        /\ accepted[r].to = IF msg[r].to \in Contacts THEN Subject[msg[r].to] ELSE msg[r].to
        /\ \E row \in Current(r) :
              row.type = accepted[r].type /\ row.token = accepted[r].token

\* What the caller is told is so: "ok" is a message that Meta has, "gateNotFound" a
\* gate that was absent while the request ran (WhatsApp may miss it on the
\* replica), "tokenInvalid" a token that no longer works, "unimplemented" a
\* WhatsApp gate, and nothing was sent for the last three.
AnswersAreTrue ==
    \A r \in Requests :
        /\ pc[r] = "ok" => accepted[r] # None
        /\ pc[r] = "gateNotFound" /\ sender[r] # "whatsapp" => None \in seen[r]
        /\ pc[r] = "tokenInvalid" => token[bearer[r]] # "valid"
        /\ pc[r] = "unimplemented" => origin[msg[r].gate] = "whatsapp"
        /\ pc[r] \in {"gateNotFound", "tokenInvalid", "unimplemented"} => accepted[r] = None

Sending ==
    INSTANCE MessageSending
    WITH status <- [r \in Requests |-> IF pc[r] \in Running THEN "pending" ELSE pc[r]],
         delivered <- accepted,
         AddressOf <- [x \in Contacts \cup Addresses |->
                          IF x \in Contacts THEN Subject[x] ELSE x]

\* Nobody can tell that there are caches, or that a message takes several
\* calls: each is sent in one step, at most once, through a row that its gate
\* had since the message was asked for, or not at all; it is not sent any more
\* once it was answered or lost; and every refusal names a reason that held.
CachesAreNotSeen == Sending!Spec

\* "The gate must be re-authorized via StartMetaOAuth -> MetaOAuthCallback ->
\* UpdateFacebookGate": a gate updated after the callback has the new token.
ReauthorizedGateHasNewToken ==
    \A g \in renewed : gate[g] # None => gate[g].token = granted[g]
=============================================================================
