--------------------------- MODULE WhatsAppInbound ---------------------------
(***************************************************************************)
(* The inbound pipeline of the WhatsApp provider.  For each message of a   *)
(* webhook payload it resolves the business account of the phone number,   *)
(* copies an attached file to the storage, makes sure the gateway knows    *)
(* the sender as a contact linked to the account, and forwards the         *)
(* message.  The first error of any call ends the delivery with an error,  *)
(* and Meta posts the whole payload again.                                 *)
(*                                                                         *)
(* Every call to another service is an action; deliveries run              *)
(* concurrently and share the database and the gateway.  A call that fails *)
(* may have taken effect all the same, and one call may reach the          *)
(* messenger several times: its client tries again when an answer is lost. *)
(***************************************************************************)
EXTENDS Naturals, Sequences

CONSTANTS
    Deliveries,    \* webhook payloads posted by Meta
    Payloads,      \* what a payload may hold: sequences of messages
    Users,         \* phone numbers of senders
    Accounts,      \* phone number ids of business accounts
    MaxAttempts,   \* bound: how often Meta posts one payload
    MaxTries       \* bound: how often the gRPC client tries one call

\* A "nameless" document has no file name; "other" is any type that the
\* manager does not handle: a sticker, a reaction, a status.
Kinds == {"text", "document", "nameless", "image", "location", "contacts", "other"}

\* How many requests to the messenger a message takes: contacts go one by one.
Requests == [text |-> 1, document |-> 1, nameless |-> 1, image |-> 1,
             location |-> 1, contacts |-> 2, other |-> 0]

Message == [from : Users, to : Accounts, kind : Kinds]

ASSUME PayloadsAreMessages == Payloads \subseteq Seq(Message) \ {<<>>}
ASSUME MaxAttemptsPositive == MaxAttempts \in Nat \ {0}
ASSUME MaxTriesPositive == MaxTries \in Nat \ {0}

VARIABLES
    account,     \* tables gates, gate_waba and bots: absent, enabled, disabled
    contacts,    \* gateway: users that are contacts
    vias,        \* gateway: <<user, account>> pairs that are linked
    pc,          \* where each delivery stands
    payload,     \* its messages
    attempt,     \* how often Meta has posted it
    index,       \* index of the message in hand
    card,        \* which request of the message is next
    sent,        \* history: <<attempt, message, request>> the messenger got
    interrupted  \* history: deliveries that were cut short

gateway == <<contacts, vias>>
cursor == <<index, card>>
vars == <<account, gateway, pc, payload, attempt, cursor, sent, interrupted>>

Answered == {"ok", "error"}
Running == {"next", "resolve", "url", "download", "upload", "contact", "via", "send"}

-----------------------------------------------------------------------------
Init ==
    /\ account = [a \in Accounts |-> "absent"]
    /\ contacts = {}
    /\ vias = {}
    /\ pc = [d \in Deliveries |-> "idle"]
    /\ payload = [d \in Deliveries |-> <<>>]
    /\ attempt = [d \in Deliveries |-> 0]
    /\ index = [d \in Deliveries |-> 0]
    /\ card = [d \in Deliveries |-> 1]
    /\ sent = [d \in Deliveries |-> <<>>]
    /\ interrupted = {}

Goto(d, stage) == pc' = [pc EXCEPT ![d] = stage]

Current(d) == payload[d][index[d]]

\* Save: one statement inserts the gate, the account and the bot.
SaveGate(a, enabled) ==
    /\ account[a] = "absent"
    /\ account' = [account EXCEPT ![a] = IF enabled THEN "enabled" ELSE "disabled"]
    /\ UNCHANGED <<gateway, pc, payload, attempt, cursor, sent, interrupted>>

-----------------------------------------------------------------------------
(* HandleWebhook: the payload and the loop over its messages.               *)

Receive(d, p) ==
    /\ pc[d] = "idle"
    /\ payload' = [payload EXCEPT ![d] = p]
    /\ attempt' = [attempt EXCEPT ![d] = 1]
    /\ Goto(d, "next")
    /\ UNCHANGED <<account, gateway, cursor, sent, interrupted>>

\* Meta posts a payload again that was not answered with 200.
Redeliver(d) ==
    /\ pc[d] = "error"
    /\ attempt[d] < MaxAttempts
    /\ attempt' = [attempt EXCEPT ![d] = @ + 1]
    /\ index' = [index EXCEPT ![d] = 0]
    /\ Goto(d, "next")
    /\ UNCHANGED <<account, gateway, payload, card, sent, interrupted>>

\* The validation of a document without a file name fails, each time anew;
\* a type that is not handled is passed over.
Stage(kind) ==
    CASE kind = "other" -> "next"
      [] kind = "nameless" -> "error"
      [] OTHER -> "resolve"

\* Mutant of NextMessage: a payload is done at its last message.
NextMessageStopsEarly(d) ==
    LET i == index[d] + 1
    IN /\ pc[d] = "next"
       /\ IF i >= Len(payload[d])
          THEN Goto(d, "ok") /\ UNCHANGED index
          ELSE Goto(d, Stage(payload[d][i].kind)) /\ index' = [index EXCEPT ![d] = i]
       /\ card' = [card EXCEPT ![d] = 1]
       /\ UNCHANGED <<account, gateway, payload, attempt, sent, interrupted>>

\* Mutant of NextMessage: the first card starts where the last message ended.
NextMessageKeepsCard(d) ==
    LET i == index[d] + 1
    IN /\ pc[d] = "next"
       /\ IF i > Len(payload[d])
          THEN Goto(d, "ok") /\ UNCHANGED index
          ELSE Goto(d, Stage(payload[d][i].kind)) /\ index' = [index EXCEPT ![d] = i]
       /\ UNCHANGED <<account, gateway, payload, attempt, card, sent, interrupted>>

\* The loops of HandleWebhook and handleMessagesSubscriptionEvents.
NextMessage(d) ==
    LET i == index[d] + 1
    IN /\ pc[d] = "next"
       /\ IF i > Len(payload[d])
          THEN Goto(d, "ok") /\ UNCHANGED index
          ELSE Goto(d, Stage(payload[d][i].kind)) /\ index' = [index EXCEPT ![d] = i]
       /\ card' = [card EXCEPT ![d] = 1]
       /\ UNCHANGED <<account, gateway, payload, attempt, sent, interrupted>>

-----------------------------------------------------------------------------
(* The handlers of the messages.                                            *)

\* Resolve: a row is found only for an enabled gate.
Resolve(d) ==
    /\ pc[d] = "resolve"
    /\ account[Current(d).to] = "enabled"
    /\ Goto(d, IF Current(d).kind \in {"document", "image"} THEN "url" ELSE "contact")
    /\ UNCHANGED <<account, gateway, payload, attempt, cursor, sent, interrupted>>

\* No row: CollectOneRow fails, which is an error as any other.
ResolveNothing(d) ==
    /\ pc[d] = "resolve"
    /\ account[Current(d).to] # "enabled"
    /\ Goto(d, "error")
    /\ UNCHANGED <<account, gateway, payload, attempt, cursor, sent, interrupted>>

\* uploadReceivedMedia: the URL of the file (asked for when the message holds
\* only its id), its bytes, and their copy in the storage.
CopyMedia(d) ==
    /\ pc[d] \in {"url", "download", "upload"}
    /\ Goto(d, CASE pc[d] = "url" -> "download"
                 [] pc[d] = "download" -> "upload"
                 [] OTHER -> "contact")
    /\ UNCHANGED <<account, gateway, payload, attempt, cursor, sent, interrupted>>

\* resolveInternalContactIdentity: created, or it already exists.
CreateContact(d) ==
    /\ pc[d] = "contact"
    /\ contacts' = contacts \cup {Current(d).from}
    /\ Goto(d, "via")
    /\ UNCHANGED <<account, vias, payload, attempt, cursor, sent, interrupted>>

\* Mutant of CreateVia: its error is ignored.
CreateViaIgnoresError(d) ==
    /\ pc[d] = "via"
    /\ \E took \in BOOLEAN :
          vias' = IF took THEN vias \cup {<<Current(d).from, Current(d).to>>} ELSE vias
    /\ Goto(d, "send")
    /\ UNCHANGED <<account, contacts, payload, attempt, cursor, sent, interrupted>>

\* Mutant of CreateVia: contact and account change places.
CreateViaSwapped(d) ==
    /\ pc[d] = "via"
    /\ vias' = vias \cup {<<Current(d).to, Current(d).from>>}
    /\ Goto(d, "send")
    /\ UNCHANGED <<account, contacts, payload, attempt, cursor, sent, interrupted>>

CreateVia(d) ==
    /\ pc[d] = "via"
    /\ vias' = vias \cup {<<Current(d).from, Current(d).to>>}
    /\ Goto(d, "send")
    /\ UNCHANGED <<account, contacts, payload, attempt, cursor, sent, interrupted>>

Here(d) == <<attempt[d], index[d], card[d]>>

\* One call has reached the messenger n times.
Delivered(d, n) == sent' = [sent EXCEPT ![d] = @ \o [k \in 1 .. n |-> Here(d)]]

\* SendText, SendDocument, SendImage, SendLocation, and SendContact for each
\* card in turn, every one after its own contact and via.
Send(d) ==
    /\ pc[d] = "send"
    /\ \E n \in 1 .. MaxTries : Delivered(d, n)
    /\ card' = [card EXCEPT ![d] = @ + 1]
    /\ Goto(d, IF card[d] < Requests[Current(d).kind] THEN "contact" ELSE "next")
    /\ UNCHANGED <<account, gateway, payload, attempt, index, interrupted>>

\* What a call did that then fails: the next of contact, via and message.
TakesEffect(d) ==
    CASE pc[d] = "contact" ->
            contacts' = contacts \cup {Current(d).from} /\ UNCHANGED <<vias, sent>>
      [] pc[d] = "via" ->
            /\ vias' = vias \cup {<<Current(d).from, Current(d).to>>}
            /\ UNCHANGED <<contacts, sent>>
      [] pc[d] = "send" -> (\E n \in 1 .. MaxTries : Delivered(d, n)) /\ UNCHANGED gateway
      [] OTHER -> UNCHANGED <<gateway, sent>>

\* Mutant of CallFails: the failed message is passed over.
CallFailsPassesOver(d) ==
    /\ pc[d] \in Running \ {"next"}
    /\ TakesEffect(d) \/ UNCHANGED <<gateway, sent>>
    /\ Goto(d, "next")
    /\ UNCHANGED <<account, payload, attempt, cursor, interrupted>>

\* Mutant of CallFails: a file that cannot be copied is asked for again.
CallFailsTriesAgain(d) ==
    /\ pc[d] \in Running \ {"next"}
    /\ TakesEffect(d) \/ UNCHANGED <<gateway, sent>>
    /\ Goto(d, IF pc[d] \in {"download", "upload"} THEN "url" ELSE "error")
    /\ UNCHANGED <<account, payload, attempt, cursor, interrupted>>

\* Any call fails: the error goes up to the answer.
CallFails(d) ==
    /\ pc[d] \in Running \ {"next"}
    /\ TakesEffect(d) \/ UNCHANGED <<gateway, sent>>
    /\ Goto(d, "error")
    /\ UNCHANGED <<account, payload, attempt, cursor, interrupted>>

\* The process stops, or Meta stops waiting.
Interrupt(d) ==
    /\ pc[d] \in Running
    /\ interrupted' = interrupted \cup {d}
    /\ Goto(d, "error")
    /\ UNCHANGED <<account, gateway, payload, attempt, cursor, sent>>

-----------------------------------------------------------------------------
Process(d) ==
    \/ NextMessage(d) \/ Resolve(d) \/ ResolveNothing(d) \/ CopyMedia(d)
    \/ CreateContact(d) \/ CreateVia(d) \/ Send(d) \/ CallFails(d)

Next ==
    \/ \E d \in Deliveries : Process(d)
    \/ \E d \in Deliveries :
          (\E p \in Payloads : Receive(d, p)) \/ Redeliver(d) \/ Interrupt(d)
    \/ \E a \in Accounts, enabled \in BOOLEAN : SaveGate(a, enabled)

Spec == Init /\ [][Next]_vars

\* Every call returns: the request Meta makes ends, and its context, which the
\* calls carry, with it.
FairSpec == Spec /\ \A d \in Deliveries : WF_vars(Process(d))

-----------------------------------------------------------------------------
(* Properties.                                                              *)

\* The state has the shape the code gives it.
TypeOK ==
    /\ account \in [Accounts -> {"absent", "enabled", "disabled"}]
    /\ contacts \in SUBSET Users
    /\ vias \in SUBSET (Users \X Accounts)
    /\ pc \in [Deliveries -> {"idle"} \cup Running \cup Answered]
    /\ payload \in [Deliveries -> Seq(Message)]
    /\ attempt \in [Deliveries -> 0 .. MaxAttempts]
    /\ index \in [Deliveries -> Nat]
    /\ card \in [Deliveries -> Nat \ {0}]
    /\ sent \in [Deliveries -> Seq(Nat \X Nat \X Nat)]
    /\ interrupted \in SUBSET Deliveries

\* The messenger never gets a message whose sender the gateway does not know
\* as a contact linked to the account it wrote to, whichever delivery made
\* the contact and the link.
LinkedBeforeMessage ==
    \A d \in Deliveries : \A k \in 1 .. Len(sent[d]) :
        LET m == payload[d][sent[d][k][2]]
        IN m.from \in contacts /\ <<m.from, m.to>> \in vias

\* What the messenger gets of one posting of a payload is gapless and in
\* order: a message arrives only after every earlier one of its payload, and
\* a card only after the earlier cards of its message.
NoGaps ==
    \A d \in Deliveries : \A k \in 1 .. Len(sent[d]) :
        LET a == sent[d][k][1]
            i == sent[d][k][2]
            j == sent[d][k][3]
            Got(x, y) == \E l \in 1 .. (k - 1) : sent[d][l] = <<a, x, y>>
        IN /\ \A x \in 1 .. (i - 1) : \A y \in 1 .. Requests[payload[d][x].kind] : Got(x, y)
           /\ \A y \in 1 .. (j - 1) : Got(i, y)

Place(x) == <<x[2], x[3]>>

Places(p) == UNION {{<<i, j>> : j \in 1 .. Requests[p[i].kind]} : i \in 1 .. Len(p)}

Phase(d) ==
    CASE pc[d] = "idle" -> "idle"
      [] pc[d] = "ok" -> "accepted"
      [] pc[d] = "error" -> "refused"
      [] OTHER -> "working"

Abstract ==
    INSTANCE WebhookDelivery
    WITH Position <- UNION {Places(p) : p \in Payloads},
         phase <- [d \in Deliveries |-> Phase(d)],
         content <- [d \in Deliveries |-> Places(payload[d])],
         sent <- [d \in Deliveries |->
                    [k \in 1 .. Len(sent[d]) |-> Place(sent[d][k])]],
         cut <- interrupted

\* The pipeline implements WebhookDelivery's AtLeastOnce: a payload is answered
\* with 200 only when the messenger got all of it, counting what it got when the
\* payload was posted before.
AcceptedIsForwarded == Abstract!AtLeastOnce

\* Every posting of a payload is answered: the loops over messages and cards
\* end whatever fails in them.
EveryDeliveryAnswered ==
    \A d \in Deliveries : pc[d] \in Running ~> pc[d] \in Answered

\* The calls that a posting can still make: of the message in hand, three for
\* each request that is left, and at most ten of each message to come.
CallsInHand(d) ==
    CASE pc[d] = "resolve" -> 10
      [] pc[d] = "url" -> 9
      [] pc[d] = "download" -> 8
      [] pc[d] = "upload" -> 7
      [] pc[d] = "contact" -> 3 * (3 - card[d])
      [] pc[d] = "via" -> 3 * (3 - card[d]) - 1
      [] pc[d] = "send" -> 3 * (3 - card[d]) - 2
      [] OTHER -> 0

CallsLeft(d) ==
    IF pc[d] \in Running
    THEN 11 * (Len(payload[d]) - index[d]) + CallsInHand(d) + 1 ELSE 0

\* What EveryDeliveryAnswered rests on besides fairness: the calls of a posting
\* run out, whatever fails and whatever other deliveries do meanwhile.
CallsRunOut ==
    [][\A d \in Deliveries : pc[d] \in Running =>
          /\ CallsLeft(d)' \in 0 .. CallsLeft(d)
          /\ Process(d) => CallsLeft(d)' < CallsLeft(d)]_vars

\* "zero enabled gates found", which the handlers take for a message to drop
\* in silence: a message for an account without an enabled gate is no error.
NoEnabledGateIsNoError ==
    [][\A d \in Deliveries : ResolveNothing(d) => pc'[d] # "error"]_vars
=============================================================================
