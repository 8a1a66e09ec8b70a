--------------------------- MODULE FacebookInbound ---------------------------
(***************************************************************************)
(* The inbound pipeline of the Facebook provider: what one webhook         *)
(* delivery does after its page is resolved to a gate.  For each event of  *)
(* the payload it fetches the profile of the sender, makes sure the        *)
(* gateway knows the sender as a contact reachable via the gate, and       *)
(* forwards the text and the attachments of the event to the messenger.    *)
(*                                                                         *)
(* Every call to another service is an action: other deliveries, which     *)
(* share the contacts, the vias and the Redis cache of known users, run    *)
(* between two calls.  A call may fail, and may have taken effect all the  *)
(* same.  The client of the messenger is told to try again inside a call   *)
(* whose answer is lost, so one call may reach the messenger several       *)
(* times.  Resolving a page is one step here; FacebookGates opens it.      *)
(***************************************************************************)
EXTENDS Naturals, Sequences

CONSTANTS
    Deliveries,    \* webhook payloads posted by Meta
    Payloads,      \* what a payload may hold: sequences of events
    Users,         \* page-scoped user ids (PSIDs)
    Names,         \* first and last names a profile may show
    Localized,     \* users whose profile carries a locale
    Pages,         \* Facebook pages
    GateIds,       \* UUIDs the database can issue
    MaxAttempts,   \* bound: how often Meta posts one payload
    MaxTries,      \* bound: how often the gRPC client tries one call
    None           \* no gate

Kinds == {"message", "postback", "other"}

\* A "share" is an attachment of a type that is uploaded and then skipped.
Attachments == Seq({"media", "share"})

\* An event whose kind is "other" has no sender, is an echo, or carries neither
\* a message nor a postback.
Event == [user : Users, page : Pages, kind : Kinds, text : BOOLEAN,
          attachments : Attachments]

\* What an event asks the messenger to forward, in the order of the code.
Parts(e) ==
    CASE e.kind = "message"  -> (IF e.text THEN <<"text">> ELSE <<>>) \o e.attachments
      [] e.kind = "postback" -> <<"text">>
      [] OTHER               -> <<>>

ASSUME PayloadsAreEvents == Payloads \subseteq Seq(Event) \ {<<>>}
ASSUME LocalizedAreUsers == Localized \subseteq Users
ASSUME MaxAttemptsPositive == MaxAttempts \in Nat \ {0}
ASSUME MaxTriesPositive == MaxTries \in Nat \ {0}
ASSUME NoneIsNoGate == None \notin GateIds
ASSUME SomeName == Names # {}

VARIABLES
    gateOf,      \* the gate of each page, or None
    issued,      \* <<gate, page>>: the UUIDs given to gates, and for which page
    disabled,    \* pages whose gate is disabled
    stale,       \* pages whose gate an instance has cached as disabled
    contacts,    \* gateway: users that are contacts
    vias,        \* gateway: <<user, gate>> pairs that are linked
    known,       \* Redis: <<user, name>> pairs marked known
    locales,     \* Redis: <<gate, user>> pairs with a stored locale
    nameOf,      \* the name each profile shows now
    pc,          \* where each delivery stands
    payload,     \* its events
    attempt,     \* how often Meta has posted it
    gate,        \* the gate its first entry resolved to, None if disabled
    event,       \* index of the event in hand
    round,       \* first or second synchronisation of the sender
    profile,     \* the name the profile showed
    part,        \* index of the part in hand
    sent,        \* history: <<attempt, event, part>> the messenger got
    lost,        \* history: <<event, part>> a call of this attempt failed for
    unlinked,    \* history: <<user, gate>> pairs whose CreateVia failed
    interrupted  \* history: deliveries that were cut short

gateTable == <<gateOf, issued, disabled, stale>>
gateway == <<contacts, vias, unlinked>>
redis == <<known, locales>>
request == <<payload, attempt, gate>>
cursor == <<event, round, profile, part>>
record == <<sent, lost>>
vars == <<gateTable, gateway, redis, nameOf, pc, request, cursor, record,
          interrupted>>

Answered == {"ok", "error"}
Running == {"resolve", "next", "profile", "known", "contact", "via", "mark",
            "locale", "send", "media"}

-----------------------------------------------------------------------------
Init ==
    /\ gateOf = [p \in Pages |-> None]
    /\ issued = {}
    /\ disabled = {}
    /\ stale = {}
    /\ contacts = {}
    /\ vias = {}
    /\ known = {}
    /\ locales = {}
    /\ nameOf \in [Users -> Names]
    /\ pc = [d \in Deliveries |-> "idle"]
    /\ payload = [d \in Deliveries |-> <<>>]
    /\ attempt = [d \in Deliveries |-> 0]
    /\ gate = [d \in Deliveries |-> None]
    /\ event = [d \in Deliveries |-> 0]
    /\ round = [d \in Deliveries |-> 1]
    /\ profile \in [Deliveries -> {CHOOSE n \in Names : TRUE}]
    /\ part = [d \in Deliveries |-> 1]
    /\ sent = [d \in Deliveries |-> <<>>]
    /\ lost = [d \in Deliveries |-> {}]
    /\ unlinked = {}
    /\ interrupted = {}

Goto(d, stage) == pc' = [pc EXCEPT ![d] = stage]

Current(d) == payload[d][event[d]]
Content(d) == Parts(Current(d))
Sender(d) == Current(d).user
FirstPage(d) == payload[d][1].page

\* The parts of the event in hand.
Positions(d) == {<<event[d], j>> : j \in 1 .. Len(Content(d))}

-----------------------------------------------------------------------------
(* HandleWebhook: the payload, its gate, and the loop over its events.      *)

Receive(d, p) ==
    /\ pc[d] = "idle"
    /\ payload' = [payload EXCEPT ![d] = p]
    /\ attempt' = [attempt EXCEPT ![d] = 1]
    /\ Goto(d, "resolve")
    /\ UNCHANGED <<gateTable, gateway, redis, nameOf, gate, cursor, record, interrupted>>

\* Meta posts a payload again that was not answered with 200.
Redeliver(d) ==
    /\ pc[d] = "error"
    /\ attempt[d] < MaxAttempts
    /\ attempt' = [attempt EXCEPT ![d] = @ + 1]
    /\ gate' = [gate EXCEPT ![d] = None]
    /\ event' = [event EXCEPT ![d] = 0]
    /\ lost' = [lost EXCEPT ![d] = {}]
    /\ Goto(d, "resolve")
    /\ UNCHANGED <<gateTable, gateway, redis, nameOf, payload, round, profile,
                   part, sent, interrupted>>

\* resolveGate for the page of the first entry, whatever the others are.
Resolve(d) ==
    /\ pc[d] = "resolve"
    /\ gateOf[FirstPage(d)] # None
    /\ FirstPage(d) \notin disabled
    /\ gate' = [gate EXCEPT ![d] = gateOf[FirstPage(d)]]
    /\ Goto(d, "next")
    /\ UNCHANGED <<gateTable, gateway, redis, nameOf, payload, attempt, cursor,
                   record, interrupted>>

\* The gate is disabled, or an instance still holds it for disabled: the
\* webhook is answered with 200 and its events are not looked at.
ResolveDisabled(d) ==
    /\ pc[d] = "resolve"
    /\ FirstPage(d) \in disabled \cup stale
    /\ stale' = stale \cup {FirstPage(d)}
    /\ Goto(d, "ok")
    /\ UNCHANGED <<gateOf, issued, disabled, gateway, redis, nameOf, request,
                   cursor, record, interrupted>>

\* No gate, or the database fails: the webhook is answered with an error.
ResolveFails(d) ==
    /\ pc[d] = "resolve"
    /\ Goto(d, "error")
    /\ UNCHANGED <<gateTable, gateway, redis, nameOf, request, cursor, record, interrupted>>

\* Mutant of NextEvent: the last event of a payload is not handled.
NextEventStopsEarly(d) ==
    /\ pc[d] = "next"
    /\ IF event[d] + 1 >= Len(payload[d])
       THEN Goto(d, "ok") /\ UNCHANGED event
       ELSE /\ event' = [event EXCEPT ![d] = @ + 1]
            /\ Goto(d, IF payload[d][event[d] + 1].kind = "other" THEN "next" ELSE "profile")
    /\ round' = [round EXCEPT ![d] = 1]
    /\ UNCHANGED <<gateTable, gateway, redis, nameOf, request, profile, part, record, interrupted>>

\* Mutant of NextEvent: an event with nothing to forward is looked at again.
NextEventStuck(d) ==
    LET i == event[d] + 1
    IN /\ pc[d] = "next"
       /\ IF i > Len(payload[d])
          THEN Goto(d, "ok") /\ UNCHANGED event
          ELSE IF payload[d][i].kind = "other"
          THEN Goto(d, "next") /\ UNCHANGED event
          ELSE Goto(d, "profile") /\ event' = [event EXCEPT ![d] = i]
       /\ round' = [round EXCEPT ![d] = 1]
       /\ UNCHANGED <<gateTable, gateway, redis, nameOf, request, profile, part, record, interrupted>>

\* The loop over AllMessages, and the events processMessage drops at once.
NextEvent(d) ==
    LET i == event[d] + 1
    IN /\ pc[d] = "next"
       /\ IF i > Len(payload[d])
          THEN Goto(d, "ok") /\ UNCHANGED event
          ELSE /\ event' = [event EXCEPT ![d] = i]
               /\ Goto(d, IF payload[d][i].kind = "other" THEN "next" ELSE "profile")
       /\ round' = [round EXCEPT ![d] = 1]
       /\ UNCHANGED <<gateTable, gateway, redis, nameOf, request, profile, part, record, interrupted>>

-----------------------------------------------------------------------------
(* processMessage: profile and contact, once more for a message.            *)

GetUserProfile(d) ==
    /\ pc[d] = "profile"
    /\ profile' = [profile EXCEPT ![d] = nameOf[Sender(d)]]
    /\ Goto(d, "known")
    /\ UNCHANGED <<gateTable, gateway, redis, nameOf, request, event, round, part,
                   record, interrupted>>

\* Mutant of DropEvent: the error of an event becomes the answer.
DropDelivery(d) ==
    /\ pc[d] \in {"profile", "contact"}
    /\ \E took \in BOOLEAN :
          contacts' = IF pc[d] = "contact" /\ took
                      THEN contacts \cup {Sender(d)} ELSE contacts
    /\ lost' = [lost EXCEPT ![d] = @ \cup Positions(d)]
    /\ Goto(d, "error")
    /\ UNCHANGED <<gateTable, vias, unlinked, redis, nameOf, request, cursor, sent, interrupted>>

\* GetUserProfile or the creation of the contact fails: the event is dropped,
\* the loop goes on.
DropEvent(d) ==
    /\ pc[d] \in {"profile", "contact"}
    /\ \E took \in BOOLEAN :
          contacts' = IF pc[d] = "contact" /\ took
                      THEN contacts \cup {Sender(d)} ELSE contacts
    /\ lost' = [lost EXCEPT ![d] = @ \cup Positions(d)]
    /\ Goto(d, "next")
    /\ UNCHANGED <<gateTable, vias, unlinked, redis, nameOf, request, cursor, sent, interrupted>>

Rounds(d) == IF Current(d).kind = "postback" THEN 1 ELSE 2

\* The contact is synchronised: again for a message, then its content.
Synced(d) ==
    IF round[d] < Rounds(d)
    THEN /\ Goto(d, "profile")
         /\ round' = [round EXCEPT ![d] = @ + 1]
         /\ UNCHANGED part
    ELSE /\ Goto(d, "send")
         /\ part' = [part EXCEPT ![d] = 1]
         /\ UNCHANGED round

User(d) == <<Sender(d), profile[d]>>       \* key of the cache of known users

\* IsKnown: a hit skips the gateway.
IsKnown(d) ==
    /\ pc[d] = "known"
    /\ User(d) \in known
    /\ Synced(d)
    /\ UNCHANGED <<gateTable, gateway, redis, nameOf, request, event, profile, record, interrupted>>

\* A miss, or an error of Redis, which is ignored.
IsUnknown(d) ==
    /\ pc[d] = "known"
    /\ Goto(d, "contact")
    /\ UNCHANGED <<gateTable, gateway, redis, nameOf, request, cursor, record, interrupted>>

\* Mutant of EnsureContact: the contact is taken for granted.
AssumeContact(d) ==
    /\ pc[d] = "contact"
    /\ Goto(d, "via")
    /\ UNCHANGED <<gateTable, gateway, redis, nameOf, request, cursor, record, interrupted>>

\* ensureContact: created, or it already exists.
EnsureContact(d) ==
    /\ pc[d] = "contact"
    /\ contacts' = contacts \cup {Sender(d)}
    /\ Goto(d, "via")
    /\ UNCHANGED <<gateTable, vias, unlinked, redis, nameOf, request, cursor, record, interrupted>>

\* Mutant of EnsureVia: contact and gate change places.
EnsureViaSwapped(d) ==
    /\ pc[d] = "via"
    /\ vias' = vias \cup {<<gate[d], Sender(d)>>}
    /\ Goto(d, "mark")
    /\ UNCHANGED <<gateTable, contacts, unlinked, redis, nameOf, request, cursor, record, interrupted>>

\* ensureVia: created, or it already exists.
EnsureVia(d) ==
    /\ pc[d] = "via"
    /\ vias' = vias \cup {<<Sender(d), gate[d]>>}
    /\ Goto(d, "mark")
    /\ UNCHANGED <<gateTable, contacts, unlinked, redis, nameOf, request, cursor, record, interrupted>>

\* CreateVia fails: a warning, and the user is marked known all the same.
EnsureViaFails(d) ==
    /\ pc[d] = "via"
    /\ unlinked' = unlinked \cup {<<Sender(d), gate[d]>>}
    /\ \E took \in BOOLEAN :
          vias' = IF took THEN vias \cup {<<Sender(d), gate[d]>>} ELSE vias
    /\ Goto(d, "mark")
    /\ UNCHANGED <<gateTable, contacts, redis, nameOf, request, cursor, record, interrupted>>

\* MarkKnown, whose error is ignored, as that of SetLocale.
MarkKnown(d) ==
    /\ pc[d] = "mark"
    /\ \E took \in BOOLEAN :
          known' = IF took THEN known \cup {User(d)} ELSE known
    /\ IF Sender(d) \in Localized
       THEN Goto(d, "locale") /\ UNCHANGED <<round, part>>
       ELSE Synced(d)
    /\ UNCHANGED <<gateTable, gateway, locales, nameOf, request, event, profile, record, interrupted>>

SetLocale(d) ==
    /\ pc[d] = "locale"
    /\ \E took \in BOOLEAN :
          locales' = IF took THEN locales \cup {<<gate[d], Sender(d)>>} ELSE locales
    /\ Synced(d)
    /\ UNCHANGED <<gateTable, gateway, known, nameOf, request, event, profile, record, interrupted>>

-----------------------------------------------------------------------------
(* routeMessage and routePostback: the content, part by part.               *)

Here(d) == <<attempt[d], event[d], part[d]>>

NextPart(d) ==
    /\ part' = [part EXCEPT ![d] = @ + 1]
    /\ Goto(d, "send")

EndEvent(d) ==
    /\ pc[d] = "send"
    /\ part[d] > Len(Content(d))
    /\ Goto(d, "next")
    /\ UNCHANGED <<gateTable, gateway, redis, nameOf, request, cursor, record, interrupted>>

\* The part in hand is text to send now, or media that has been uploaded.
ReadyToSend(d) ==
    \/ pc[d] = "send" /\ part[d] <= Len(Content(d)) /\ Content(d)[part[d]] = "text"
    \/ pc[d] = "media"

\* One call has reached the messenger n times.
Delivered(d, n) == sent' = [sent EXCEPT ![d] = @ \o [k \in 1 .. n |-> Here(d)]]

\* SendText, SendImage, SendDocument: the last try is answered, the messenger
\* may have taken the ones before it as well.
Send(d) ==
    /\ ReadyToSend(d)
    /\ \E n \in 1 .. MaxTries : Delivered(d, n)
    /\ NextPart(d)
    /\ UNCHANGED <<gateTable, gateway, redis, nameOf, request, event, round,
                   profile, lost, interrupted>>

\* Mutant of SendFails: the event starts again from its first part.
SendFailsRestarts(d) ==
    /\ ReadyToSend(d)
    /\ Len(sent[d]) < 4
    /\ lost' = [lost EXCEPT ![d] = @ \cup {<<event[d], part[d]>>}]
    /\ \E n \in 0 .. MaxTries : Delivered(d, n)
    /\ part' = [part EXCEPT ![d] = 1]
    /\ Goto(d, "send")
    /\ UNCHANGED <<gateTable, gateway, redis, nameOf, request, event, round,
                   profile, interrupted>>

\* Mutant of SendFails: the code makes the call once more itself.
SendFailsAgain(d) ==
    /\ ReadyToSend(d)
    /\ Len(sent[d]) < 4
    /\ lost' = [lost EXCEPT ![d] = @ \cup {<<event[d], part[d]>>}]
    /\ \E n \in 0 .. MaxTries : Delivered(d, n)
    /\ UNCHANGED <<gateTable, gateway, redis, nameOf, pc, request, event, round,
                   profile, part, interrupted>>

\* They fail, perhaps after the messenger took the message: logged.
SendFails(d) ==
    /\ ReadyToSend(d)
    /\ lost' = [lost EXCEPT ![d] = @ \cup {<<event[d], part[d]>>}]
    /\ \E n \in 0 .. MaxTries : Delivered(d, n)
    /\ NextPart(d)
    /\ UNCHANGED <<gateTable, gateway, redis, nameOf, request, event, round,
                   profile, interrupted>>

AtAttachment(d) ==
    /\ pc[d] = "send"
    /\ part[d] <= Len(Content(d))
    /\ Content(d)[part[d]] # "text"

\* downloadAndUpload; an attachment of an unsupported type ends here.
Upload(d) ==
    /\ AtAttachment(d)
    /\ IF Content(d)[part[d]] = "media"
       THEN Goto(d, "media") /\ UNCHANGED part
       ELSE NextPart(d)
    /\ UNCHANGED <<gateTable, gateway, redis, nameOf, request, event, round,
                   profile, record, interrupted>>

UploadFails(d) ==
    /\ AtAttachment(d)
    /\ lost' = [lost EXCEPT ![d] = @ \cup {<<event[d], part[d]>>}]
    /\ NextPart(d)
    /\ UNCHANGED <<gateTable, gateway, redis, nameOf, request, event, round,
                   profile, sent, interrupted>>

-----------------------------------------------------------------------------
(* The world around a delivery.                                             *)

\* The process stops, or Meta stops waiting, which cancels the context of the
\* request and with it every later call: the payload is not answered.
Interrupt(d) ==
    /\ pc[d] \in Running
    /\ interrupted' = interrupted \cup {d}
    /\ Goto(d, "error")
    /\ UNCHANGED <<gateTable, gateway, redis, nameOf, request, cursor, record>>

CreateGate(p, g) ==
    /\ gateOf[p] = None
    /\ \A q \in Pages : <<g, q>> \notin issued
    /\ gateOf' = [gateOf EXCEPT ![p] = g]
    /\ issued' = issued \cup {<<g, p>>}
    /\ UNCHANGED <<disabled, stale, gateway, redis, nameOf, pc, request, cursor,
                   record, interrupted>>

\* UpdateGate enables the gate of a page, or disables it.
SwitchGate(p) ==
    /\ gateOf[p] # None
    /\ disabled' = IF p \in disabled THEN disabled \ {p} ELSE disabled \cup {p}
    /\ UNCHANGED <<gateOf, issued, stale, gateway, redis, nameOf, pc, request,
                   cursor, record, interrupted>>

DeleteGate(p) ==
    /\ gateOf[p] # None
    /\ gateOf' = [gateOf EXCEPT ![p] = None]
    /\ disabled' = disabled \ {p}
    /\ UNCHANGED <<issued, stale, gateway, redis, nameOf, pc, request, cursor,
                   record, interrupted>>

\* The TTL of a known user ends.
Expire(k) ==
    /\ k \in known
    /\ known' = known \ {k}
    /\ UNCHANGED <<gateTable, gateway, locales, nameOf, pc, request, cursor, record, interrupted>>

\* A Facebook user changes the profile.
Rename(u, n) ==
    /\ nameOf[u] # n
    /\ nameOf' = [nameOf EXCEPT ![u] = n]
    /\ UNCHANGED <<gateTable, gateway, redis, pc, request, cursor, record, interrupted>>

-----------------------------------------------------------------------------
Process(d) ==
    \/ Resolve(d) \/ ResolveDisabled(d) \/ ResolveFails(d) \/ NextEvent(d)
    \/ GetUserProfile(d) \/ DropEvent(d)
    \/ IsKnown(d) \/ IsUnknown(d)
    \/ EnsureContact(d) \/ EnsureVia(d) \/ EnsureViaFails(d)
    \/ MarkKnown(d) \/ SetLocale(d)
    \/ Send(d) \/ SendFails(d) \/ Upload(d) \/ UploadFails(d) \/ EndEvent(d)

Environment ==
    \/ \E d \in Deliveries :
          \/ \E p \in Payloads : Receive(d, p)
          \/ Redeliver(d)
          \/ Interrupt(d)
    \/ \E p \in Pages :
          \/ \E g \in GateIds : CreateGate(p, g)
          \/ SwitchGate(p)
          \/ DeleteGate(p)
    \/ \E k \in known : Expire(k)
    \/ \E u \in Users, n \in Names : Rename(u, n)

Next == (\E d \in Deliveries : Process(d)) \/ Environment

Spec == Init /\ [][Next]_vars

\* Every call returns: the HTTP clients have timeouts, and so does the
\* request Meta makes, which cancels the calls to the gateway.
FairSpec == Spec /\ \A d \in Deliveries : WF_vars(Process(d))

-----------------------------------------------------------------------------
(* Properties.                                                              *)

\* The state has the shape the code gives it.
TypeOK ==
    /\ gateOf \in [Pages -> GateIds \cup {None}]
    /\ issued \in SUBSET (GateIds \X Pages)
    /\ disabled \in SUBSET Pages
    /\ stale \in SUBSET Pages
    /\ contacts \in SUBSET Users
    /\ vias \in SUBSET (Users \X GateIds)
    /\ unlinked \in SUBSET (Users \X GateIds)
    /\ known \in SUBSET (Users \X Names)
    /\ locales \in SUBSET (GateIds \X Users)
    /\ nameOf \in [Users -> Names]
    /\ pc \in [Deliveries -> {"idle"} \cup Running \cup Answered]
    /\ payload \in [Deliveries -> Seq(Event)]
    /\ attempt \in [Deliveries -> 0 .. MaxAttempts]
    /\ gate \in [Deliveries -> GateIds \cup {None}]
    /\ event \in [Deliveries -> Nat]
    /\ round \in [Deliveries -> {1, 2}]
    /\ profile \in [Deliveries -> Names]
    /\ part \in [Deliveries -> Nat \ {0}]
    /\ sent \in [Deliveries -> Seq(Nat \X Nat \X Nat)]
    /\ lost \in [Deliveries -> SUBSET (Nat \X Nat)]
    /\ interrupted \in SUBSET Deliveries

\* The messenger never gets a message of someone who is not a contact, even
\* when the contact was created by another delivery, perhaps for an earlier
\* name, and only the cache of known users tells so.
ContactBeforeMessage ==
    \A d \in Deliveries : \A k \in 1 .. Len(sent[d]) :
        payload[d][sent[d][k][2]].user \in contacts

Before(x, y) ==
    \/ x[1] < y[1]
    \/ x[1] = y[1] /\ x[2] < y[2]
    \/ x[1] = y[1] /\ x[2] = y[2] /\ x[3] < y[3]

\* Each time Meta posts a payload its parts are forwarded in its own order,
\* the text of a message before its attachments, and the code never goes back
\* to a part: only the tries of one call put a part there more than once.
InPayloadOrder ==
    \A d \in Deliveries : \A k, l \in 1 .. Len(sent[d]) :
        k < l => sent[d][k] = sent[d][l] \/ Before(sent[d][k], sent[d][l])

Place(x) == <<x[2], x[3]>>

\* The service answers with an error, which makes Meta post the payload
\* again, only before it has forwarded anything: unless a delivery is cut
\* short, the messenger gets a part from one call only, so more than once only
\* because the gRPC client tried that call again, and in a row.
ForwardedByOneCall ==
    \A d \in Deliveries \ interrupted : \A k, l \in 1 .. Len(sent[d]) :
        (k < l /\ Place(sent[d][k]) = Place(sent[d][l])) =>
            sent[d][k] = sent[d][l] /\ l - k < MaxTries

Places(p) ==
    UNION {{<<i, j>> : j \in {k \in 1 .. Len(Parts(p[i])) : Parts(p[i])[k] # "share"}}
             : i \in 1 .. Len(p)}

Phase(d) ==
    CASE pc[d] = "idle" -> "idle"
      [] pc[d] = "ok" -> "accepted"
      [] pc[d] = "error" -> "refused"
      [] OTHER -> "working"

Abstract ==
    INSTANCE WebhookDelivery
    WITH Position <- UNION {Places(p) : p \in Payloads},
         phase <- [d \in Deliveries |-> Phase(d)],
         content <- [d \in Deliveries |-> Places(payload[d])],
         sent <- [d \in Deliveries |->
                    [k \in 1 .. Len(sent[d]) |-> Place(sent[d][k])]],
         cut <- interrupted

\* The pipeline implements WebhookDelivery's AtMostOneCall: whatever fails,
\* each step forwards by one call one part of its own payload that the messenger
\* never got, or the delivery was cut short before.
NeverForwardedAgain == Abstract!AtMostOneCall

\* "a single failed delivery must not block others": when a payload is
\* answered with 200, the only parts that did not reach the messenger are
\* those for which a call of their own event failed; or no part of it did,
\* because its gate was found disabled.
FailureBlocksNoOther ==
    \A d \in Deliveries : pc[d] = "ok" =>
        IF gate[d] = None
        THEN /\ FirstPage(d) \in stale
             /\ \A k \in 1 .. Len(sent[d]) : sent[d][k][1] # attempt[d]
        ELSE \A x \in Places(payload[d]) :
                \/ x \in lost[d]
                \/ \E k \in 1 .. Len(sent[d]) :
                       sent[d][k] = <<attempt[d], x[1], x[2]>>

\* Every payload is answered in the end.
EveryDeliveryAnswered ==
    \A d \in Deliveries : pc[d] \in Running ~> pc[d] \in Answered

\* What a posting has still to do of the event in hand: at most six steps for
\* each synchronisation of the sender and two for each of its parts.
SyncSteps == [profile |-> 6, known |-> 5, contact |-> 4, via |-> 3, mark |-> 2, locale |-> 1]

StepsInHand(d) ==
    LET content == 2 * Len(Content(d))
    IN CASE pc[d] = "resolve" -> 1
         [] pc[d] \in DOMAIN SyncSteps -> content + 6 * (2 - round[d]) + SyncSteps[pc[d]] + 1
         [] pc[d] = "send" -> content + 3 - 2 * part[d]
         [] pc[d] = "media" -> content + 2 - 2 * part[d]
         [] OTHER -> 0

\* The events to come, and the steps in hand.
LeftToDo(d) ==
    IF pc[d] \in Running
    THEN <<Len(payload[d]) + 1 - event[d], StepsInHand(d)>> ELSE <<0, 0>>

Fewer(x, y) == x[1] < y[1] \/ (x[1] = y[1] /\ x[2] < y[2])

\* What EveryDeliveryAnswered rests on besides fairness: the calls of a posting
\* run out, whatever fails and whatever other deliveries do meanwhile.
CallsRunOut ==
    [][\A d \in Deliveries : pc[d] \in Running =>
          /\ LeftToDo(d)' \in Nat \X Nat
          /\ LeftToDo(d)' = LeftToDo(d) \/ Fewer(LeftToDo(d)', LeftToDo(d))
          /\ Process(d) => Fewer(LeftToDo(d)', LeftToDo(d))]_vars

\* "ensureVia links the gate to the internal contact": a message is forwarded
\* via a gate its sender is linked to, unless the call that links them failed.
LinkedUnlessCallFailed ==
    \A d \in Deliveries : pc[d] = "send" =>
        <<Sender(d), gate[d]>> \in vias \cup unlinked

\* "resolveGate returns the FacebookGate for the given page": a message is
\* forwarded via a gate that was created for the page it came to.
GateOfOwnPage ==
    \A d \in Deliveries : pc[d] = "send" =>
        <<gate[d], Current(d).page>> \in issued
=============================================================================
