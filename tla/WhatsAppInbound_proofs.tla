------------------------ MODULE WhatsAppInbound_proofs ------------------------
(***************************************************************************)
(* Proofs about WhatsAppInbound, for every number of deliveries, users and *)
(* accounts, and payloads of every length.                                 *)
(*                                                                         *)
(* The argument follows the cursor of a delivery: what lies before it was  *)
(* got by the messenger in this posting, and the sender of the request at  *)
(* it is as far known to the gateway as the stage says.                    *)
(***************************************************************************)
EXTENDS WhatsAppInbound, SequenceTheorems, TLAPS

InMessage == {"resolve", "url", "download", "upload", "contact", "via", "send"}

\* A delivery that handles a message stands at a request of it.
AtARequest(d) ==
    /\ pc[d] = "idle" => sent[d] = <<>> /\ index[d] = 0
    /\ pc[d] # "idle" => payload[d] \in Payloads
    /\ pc[d] \in Running => index[d] \in 0 .. Len(payload[d])
    /\ pc[d] \in InMessage =>
          index[d] \in 1 .. Len(payload[d]) /\ card[d] \in 1 .. Requests[Current(d).kind]
    /\ \A k \in 1 .. Len(sent[d]) : sent[d][k][2] \in 1 .. Len(payload[d])

\* Contact and link come before the request.
LinkedOf(d) ==
    /\ pc[d] \in {"via", "send"} => Current(d).from \in contacts
    /\ pc[d] = "send" => <<Current(d).from, Current(d).to>> \in vias
    /\ \A k \in 1 .. Len(sent[d]) :
          LET m == payload[d][sent[d][k][2]]
          IN m.from \in contacts /\ <<m.from, m.to>> \in vias

\* The messenger got this request, in this posting.
GotRequest(d, x, y) == \E k \in 1 .. Len(sent[d]) : sent[d][k] = <<attempt[d], x, y>>

\* It got all requests of the first messages.
GotFirst(d, n) ==
    \A x \in 1 .. n : \A y \in 1 .. Requests[payload[d][x].kind] : GotRequest(d, x, y)

\* It got what lies before the cursor.
SentSoFar(d) ==
    /\ pc[d] = "next" => GotFirst(d, index[d])
    /\ pc[d] \in InMessage =>
          /\ GotFirst(d, index[d] - 1)
          /\ \A y \in 1 .. card[d] - 1 : GotRequest(d, index[d], y)
    /\ pc[d] = "ok" => GotFirst(d, Len(payload[d]))

GotBefore(d, k, x, y) == \E l \in 1 .. k - 1 : sent[d][l] = <<sent[d][k][1], x, y>>

\* It got, before its k-th request, those that come before it.
NoGapBefore(d, k) ==
    /\ \A x \in 1 .. sent[d][k][2] - 1 :
          \A y \in 1 .. Requests[payload[d][x].kind] : GotBefore(d, k, x, y)
    /\ \A x \in {sent[d][k][2]} : \A y \in 1 .. sent[d][k][3] - 1 : GotBefore(d, k, x, y)

GaplessOf(d) == \A k \in 1 .. Len(sent[d]) : NoGapBefore(d, k)

DeliveryOK(d) == AtARequest(d) /\ LinkedOf(d) /\ SentSoFar(d) /\ GaplessOf(d)

InboundInv == TypeOK /\ \A d \in Deliveries : DeliveryOK(d)

-----------------------------------------------------------------------------
\* A message makes some number of requests.
LEMMA SomeRequests == \A k \in Kinds : Requests[k] \in Nat
BY DEF Kinds, Requests

\* Which messages make requests.
LEMMA HandledKinds ==
    ASSUME NEW k \in Kinds
    PROVE  /\ k \notin {"other", "nameless"} => Requests[k] \in Nat \ {0}
           /\ k = "other" => Requests[k] = 0
BY DEF Kinds, Requests

\* The messages of a payload.
LEMMA PayloadMessages ==
    ASSUME NEW p \in Payloads
    PROVE  /\ p \in Seq(Message) /\ Len(p) \in Nat \ {0}
           /\ \A i \in 1 .. Len(p) : p[i] \in Message
<1>1. p \in Seq(Message) /\ p # <<>>
    BY PayloadsAreMessages
<1> QED BY <1>1

\* The message in hand.
LEMMA CurrentMessage ==
    ASSUME InboundInv, NEW d \in Deliveries, pc[d] \in InMessage
    PROVE  /\ index[d] \in 1 .. Len(payload[d]) /\ payload[d] \in Payloads
           /\ Current(d) \in Message /\ Current(d).from \in Users
           /\ Current(d).to \in Accounts /\ Current(d).kind \in Kinds
           /\ card[d] \in 1 .. Requests[Current(d).kind]
           /\ Here(d) \in Nat \X Nat \X Nat
<1>1. /\ index[d] \in 1 .. Len(payload[d]) /\ payload[d] \in Payloads
      /\ card[d] \in 1 .. Requests[Current(d).kind]
    BY DEF InboundInv, DeliveryOK, AtARequest, InMessage
<1>2. Current(d) \in Message
    BY <1>1, PayloadMessages DEF Current
<1>3. Here(d) \in Nat \X Nat \X Nat
    BY DEF Here, InboundInv, TypeOK
<1> QED BY <1>1, <1>2, <1>3 DEF Message

\* What the tries of a call add to a sequence.
LEMMA AddCopies ==
    ASSUME NEW S, NEW s \in Seq(S), NEW x \in S, NEW n \in Nat, NEW t,
           t = s \o [k \in 1 .. n |-> x]
    PROVE  /\ t \in Seq(S)
           /\ Len(s) \in Nat /\ Len(t) = Len(s) + n
           /\ \A k \in 1 .. Len(s) : k \in 1 .. Len(t) /\ t[k] = s[k]
           /\ \A k \in 1 .. Len(t) : k \notin 1 .. Len(s) => t[k] = x
<1>1. PICK c : c = [k \in 1 .. n |-> x]
    OBVIOUS
<1>2. c \in Seq(S) /\ Len(c) = n /\ \A k \in 1 .. n : c[k] = x
    BY <1>1
<1>3. /\ t \in Seq(S) /\ Len(t) = Len(s) + Len(c)
      /\ \A k \in 1 .. Len(s) + Len(c) : t[k] = IF k <= Len(s) THEN s[k] ELSE c[k - Len(s)]
    BY <1>1, <1>2, ConcatProperties
<1>4. PICK m \in Nat : m = Len(s)
  <2>1. Len(s) \in Nat
      BY LenProperties
  <2> QED BY <2>1
<1>5. Len(t) = m + n
    BY <1>2, <1>3, <1>4
<1>6. ASSUME NEW k \in 1 .. m PROVE k \in 1 .. m + n /\ t[k] = s[k]
    BY <1>2, <1>3, <1>4, <1>6
<1>7. ASSUME NEW k \in 1 .. m + n, k \notin 1 .. m PROVE t[k] = x
  <2>1. k - m \in 1 .. n /\ ~ (k <= m)
      BY <1>7
  <2>2. t[k] = c[k - m]
      BY <1>2, <1>3, <1>4, <1>7, <2>1
  <2> QED BY <1>2, <2>1, <2>2
<1> QED BY <1>3, <1>4, <1>5, <1>6, <1>7

LEMMA TriesAreNats == 0 .. MaxTries \subseteq Nat /\ 1 .. MaxTries \subseteq 0 .. MaxTries
BY MaxTriesPositive

-----------------------------------------------------------------------------
LEMMA InitInbound == Init => InboundInv
<1> SUFFICES ASSUME Init PROVE InboundInv
    OBVIOUS
<1>1. TypeOK
    BY MaxAttemptsPositive DEF Init, TypeOK
<1>2. ASSUME NEW d \in Deliveries PROVE DeliveryOK(d)
    BY DEF Init, DeliveryOK, AtARequest, LinkedOf, SentSoFar, GaplessOf, Running, InMessage
<1> QED BY <1>1, <1>2 DEF InboundInv

\* The types.
LEMMA StepTypes == InboundInv /\ [Next]_vars => TypeOK'
<1> SUFFICES ASSUME InboundInv, [Next]_vars PROVE TypeOK'
    OBVIOUS
<1> USE DEF TypeOK, gateway, cursor, Running, Answered, Goto
<1>0. TypeOK
    BY DEF InboundInv
<1>1. ASSUME NEW d \in Deliveries, NEW p \in Payloads, Receive(d, p) PROVE TypeOK'
    BY <1>0, <1>1, PayloadMessages, MaxAttemptsPositive DEF Receive
<1>2. ASSUME NEW d \in Deliveries, Redeliver(d) PROVE TypeOK'
  <2>1. attempt[d] + 1 \in 0 .. MaxAttempts
      BY <1>0, <1>2, MaxAttemptsPositive DEF Redeliver
  <2> QED BY <1>0, <1>2, <2>1 DEF Redeliver
<1>3. ASSUME NEW d \in Deliveries, NextMessage(d) PROVE TypeOK'
  <2>1. \A kind : Stage(kind) \in {"next", "error", "resolve"}
      BY DEF Stage
  <2>2. pc' \in [Deliveries -> {"idle"} \cup Running \cup Answered]
      BY <1>0, <1>3, <2>1 DEF NextMessage
  <2>3. index' \in [Deliveries -> Nat] /\ card' \in [Deliveries -> Nat \ {0}]
      BY <1>0, <1>3 DEF NextMessage
  <2> QED BY <1>0, <1>3, <2>2, <2>3 DEF NextMessage
<1>4. ASSUME NEW d \in Deliveries, Resolve(d) \/ ResolveNothing(d) \/ CopyMedia(d) PROVE TypeOK'
    BY <1>0, <1>4 DEF Resolve, ResolveNothing, CopyMedia
<1>5. ASSUME NEW d \in Deliveries, CreateContact(d) PROVE TypeOK'
  <2>1. Current(d).from \in Users
      BY <1>5, CurrentMessage DEF CreateContact, InMessage
  <2> QED BY <1>0, <1>5, <2>1 DEF CreateContact
<1>11. ASSUME NEW d \in Deliveries, CreateVia(d) PROVE TypeOK'
  <2>1. <<Current(d).from, Current(d).to>> \in Users \X Accounts
      BY <1>11, CurrentMessage DEF CreateVia, InMessage
  <2> QED BY <1>0, <1>11, <2>1 DEF CreateVia
<1>12. ASSUME NEW d \in Deliveries, Interrupt(d) PROVE TypeOK'
    BY <1>0, <1>12 DEF Interrupt
<1>6. ASSUME NEW d \in Deliveries, pc[d] = "send", NEW n \in 1 .. MaxTries, Delivered(d, n)
      PROVE  sent' \in [Deliveries -> Seq(Nat \X Nat \X Nat)]
  <2>1. Here(d) \in Nat \X Nat \X Nat
      BY <1>6, CurrentMessage DEF InMessage
  <2>2. n \in Nat
      BY TriesAreNats
  <2>3. sent[d] \o [k \in 1 .. n |-> Here(d)] \in Seq(Nat \X Nat \X Nat)
      BY <1>0, <2>1, <2>2, AddCopies
  <2> QED BY <1>0, <1>6, <2>3 DEF Delivered
<1>7. ASSUME NEW d \in Deliveries, Send(d) PROVE TypeOK'
  <2>1. sent' \in [Deliveries -> Seq(Nat \X Nat \X Nat)]
      BY <1>6, <1>7 DEF Send
  <2>3. /\ card' \in [Deliveries -> Nat \ {0}]
        /\ pc' \in [Deliveries -> {"idle"} \cup Running \cup Answered]
      BY <1>0, <1>7 DEF Send
  <2> QED BY <1>0, <1>7, <2>1, <2>3 DEF Send
<1>8. ASSUME NEW d \in Deliveries, CallFails(d) PROVE TypeOK'
  <2>1. pc[d] \in InMessage /\ (TakesEffect(d) \/ UNCHANGED <<contacts, vias, sent>>)
      BY <1>8 DEF CallFails, InMessage
  <2>2. Current(d).from \in Users /\ <<Current(d).from, Current(d).to>> \in Users \X Accounts
      BY <2>1, CurrentMessage
  <2> DEFINE Effect == /\ sent' \in [Deliveries -> Seq(Nat \X Nat \X Nat)]
                       /\ contacts' \in SUBSET Users /\ vias' \in SUBSET (Users \X Accounts)
  <2>3. CASE pc[d] = "send" /\ TakesEffect(d)
    <3>1. (\E n \in 1 .. MaxTries : Delivered(d, n)) /\ UNCHANGED gateway
        BY <2>3 DEF TakesEffect
    <3>2. Effect
        BY <1>0, <1>6, <2>3, <3>1
    <3> QED BY <1>0, <1>8, <3>2 DEF CallFails
  <2>4. CASE ~(pc[d] = "send" /\ TakesEffect(d))
    <3>1. Effect
        BY <1>0, <2>1, <2>2, <2>4 DEF TakesEffect
    <3> QED BY <1>0, <1>8, <3>1 DEF CallFails
  <2> QED BY <2>3, <2>4
<1>9. ASSUME NEW a \in Accounts, NEW enabled \in BOOLEAN, SaveGate(a, enabled) PROVE TypeOK'
    BY <1>0, <1>9 DEF SaveGate
<1>10. CASE UNCHANGED vars
    BY <1>0, <1>10 DEF vars
<1> QED BY <1>1, <1>2, <1>3, <1>4, <1>5, <1>11, <1>12, <1>7, <1>8, <1>9, <1>10
        DEF Next, Process

-----------------------------------------------------------------------------
(* Deliveries that do not step.                                             *)

\* What a delivery has.
Untouched(c) ==
    /\ pc'[c] = pc[c] /\ payload'[c] = payload[c] /\ attempt'[c] = attempt[c]
    /\ index'[c] = index[c] /\ card'[c] = card[c] /\ sent'[c] = sent[c]

Grows == contacts \subseteq contacts' /\ vias \subseteq vias'

\* What was got stays got.
LEMMA SameSent ==
    ASSUME NEW c \in Deliveries, sent'[c] = sent[c], payload'[c] = payload[c]
    PROVE  /\ GaplessOf(c) => GaplessOf(c)'
           /\ attempt'[c] = attempt[c] =>
                 /\ \A x, y : GotRequest(c, x, y) => GotRequest(c, x, y)'
                 /\ \A n : GotFirst(c, n) => GotFirst(c, n)'
<1>1. \A k, x, y : GotBefore(c, k, x, y) => GotBefore(c, k, x, y)'
    BY DEF GotBefore
<1>2. \A k : NoGapBefore(c, k) => NoGapBefore(c, k)'
    BY <1>1 DEF NoGapBefore
<1>3. attempt'[c] = attempt[c] => \A x, y : GotRequest(c, x, y) => GotRequest(c, x, y)'
    BY DEF GotRequest
<1>4. attempt'[c] = attempt[c] => \A n : GotFirst(c, n) => GotFirst(c, n)'
    BY <1>3 DEF GotFirst
<1> QED BY <1>2, <1>3, <1>4 DEF GaplessOf

LEMMA UntouchedKeeps ==
    ASSUME NEW c \in Deliveries, DeliveryOK(c), Untouched(c), Grows
    PROVE  DeliveryOK(c)'
<1> USE DEF Untouched, Grows
<1>1. AtARequest(c)'
    BY DEF DeliveryOK, AtARequest, Current
<1>2. LinkedOf(c)'
    BY DEF DeliveryOK, LinkedOf, Current
<1>3. SentSoFar(c)'
    BY SameSent DEF DeliveryOK, SentSoFar
<1>4. GaplessOf(c)'
    BY SameSent DEF DeliveryOK
<1> QED BY <1>1, <1>2, <1>3, <1>4 DEF DeliveryOK

Delivers(d) == Process(d) \/ (\E p \in Payloads : Receive(d, p)) \/ Redeliver(d) \/ Interrupt(d)

LEMMA OthersUntouched ==
    ASSUME TypeOK, NEW d \in Deliveries, Delivers(d)
    PROVE  Grows /\ \A c \in Deliveries \ {d} : Untouched(c)
<1> USE DEF Untouched, Grows, TypeOK, gateway, cursor, Goto
<1> DEFINE Aim == Grows /\ \A c \in Deliveries \ {d} : Untouched(c)
<1>1. ASSUME NEW p \in Payloads, Receive(d, p) PROVE Aim
    BY <1>1 DEF Receive
<1>2. ASSUME Redeliver(d) \/ Interrupt(d) PROVE Aim
    BY <1>2 DEF Redeliver, Interrupt
<1>3. ASSUME NextMessage(d) \/ Resolve(d) \/ ResolveNothing(d) \/ CopyMedia(d) PROVE Aim
    BY <1>3 DEF NextMessage, Resolve, ResolveNothing, CopyMedia
<1>4. ASSUME CreateContact(d) \/ CreateVia(d) \/ Send(d) PROVE Aim
    BY <1>4 DEF CreateContact, CreateVia, Send, Delivered
<1>5. ASSUME CallFails(d) PROVE Aim
    BY <1>5 DEF CallFails, TakesEffect, Delivered
<1> QED BY <1>1, <1>2, <1>3, <1>4, <1>5 DEF Delivers, Process

-----------------------------------------------------------------------------
(* The delivery that steps.                                                 *)

\* It forwards nothing: what it forwarded remains true.
LEMMA QuietStep ==
    ASSUME NEW d \in Deliveries, DeliveryOK(d), Grows,
           sent'[d] = sent[d], payload'[d] = payload[d],
           AtARequest(d)', SentSoFar(d)',
           pc'[d] \in {"via", "send"} => Current(d)'.from \in contacts',
           pc'[d] = "send" => <<Current(d)'.from, Current(d)'.to>> \in vias'
    PROVE  DeliveryOK(d)'
<1>1. LinkedOf(d)'
    BY DEF DeliveryOK, LinkedOf, Grows
<1>2. GaplessOf(d)'
    BY SameSent DEF DeliveryOK
<1> QED BY <1>1, <1>2 DEF DeliveryOK

\* It is refused.
LEMMA RefusedStep ==
    ASSUME NEW d \in Deliveries, DeliveryOK(d), Grows, pc[d] # "idle", pc'[d] = "error",
           sent'[d] = sent[d], payload'[d] = payload[d]
    PROVE  DeliveryOK(d)'
<1>1. AtARequest(d)' /\ SentSoFar(d)'
    BY DEF DeliveryOK, AtARequest, SentSoFar, Running, InMessage
<1> QED BY <1>1, QuietStep

\* It goes on in the message, with the same request.
LEMMA CallStep ==
    ASSUME NEW d \in Deliveries, DeliveryOK(d), Grows,
           pc[d] \in InMessage, pc'[d] \in InMessage,
           sent'[d] = sent[d], payload'[d] = payload[d], attempt'[d] = attempt[d],
           index'[d] = index[d], card'[d] = card[d],
           pc'[d] \in {"via", "send"} => Current(d).from \in contacts',
           pc'[d] = "send" => <<Current(d).from, Current(d).to>> \in vias'
    PROVE  DeliveryOK(d)'
<1>1. Current(d)' = Current(d)
    BY DEF Current
<1>2. AtARequest(d)'
    BY <1>1 DEF DeliveryOK, AtARequest, Running, InMessage
<1>3. SentSoFar(d)'
    BY SameSent DEF DeliveryOK, SentSoFar, InMessage
<1> QED BY <1>1, <1>2, <1>3, QuietStep

\* The messenger gets the request at the cursor.
GotCopies(d, n) == sent'[d] = sent[d] \o [k \in 1 .. n |-> Here(d)]

\* It forwards the request at the cursor, whatever it is told, and however
\* often the client tries.
LEMMA ForwardStep ==
    ASSUME InboundInv, NEW d \in Deliveries, pc[d] = "send",
           NEW tries \in 1 .. MaxTries, GotCopies(d, tries), payload'[d] = payload[d],
           UNCHANGED gateway
    PROVE  /\ \A k \in 1 .. Len(sent'[d]) : sent'[d][k][2] \in 1 .. Len(payload'[d])
           /\ \A k \in 1 .. Len(sent'[d]) :
                 LET m == payload'[d][sent'[d][k][2]]
                 IN m.from \in contacts' /\ <<m.from, m.to>> \in vias'
           /\ GaplessOf(d)'
           /\ attempt'[d] = attempt[d] =>
                 \A x, y : GotRequest(d, x, y) \/ (x = index[d] /\ y = card[d])
                           => GotRequest(d, x, y)'
<1>1. /\ sent[d] \in Seq(Nat \X Nat \X Nat) /\ Here(d) \in Nat \X Nat \X Nat
      /\ DeliveryOK(d) /\ index[d] \in 1 .. Len(payload[d])
    BY CurrentMessage DEF InboundInv, TypeOK, InMessage
<1>0. PICK n \in Nat : n = Len(sent[d])
  <2>1. Len(sent[d]) \in Nat
      BY <1>1, LenProperties
  <2> QED BY <2>1
<1>10. tries \in Nat \ {0}
    BY TriesAreNats
<1>2. /\ Len(sent'[d]) = n + tries
      /\ \A k \in 1 .. n : sent'[d][k] = sent[d][k]
      /\ \A k \in 1 .. n + tries : k \notin 1 .. n => sent'[d][k] = Here(d)
    BY <1>0, <1>1, <1>10, AddCopies DEF GotCopies
<1>3. /\ n + 1 \in 1 .. n + tries /\ n + 1 \notin 1 .. n
      /\ \A k \in 1 .. n : k \in 1 .. n + tries
    BY <1>10
<1>4. Here(d)[1] = attempt[d] /\ Here(d)[2] = index[d] /\ Here(d)[3] = card[d]
    BY DEF Here
<1>5. \A k \in 1 .. Len(sent'[d]) : sent'[d][k][2] \in 1 .. Len(payload'[d])
    BY <1>0, <1>1, <1>2, <1>4 DEF DeliveryOK, AtARequest
<1>6. \A k \in 1 .. Len(sent'[d]) :
         LET m == payload'[d][sent'[d][k][2]]
         IN m.from \in contacts' /\ <<m.from, m.to>> \in vias'
  <2>1. Current(d).from \in contacts /\ <<Current(d).from, Current(d).to>> \in vias
      BY <1>1 DEF DeliveryOK, LinkedOf
  <2>2. \A k \in 1 .. n + tries : k \notin 1 .. n => payload'[d][sent'[d][k][2]] = Current(d)
      BY <1>2, <1>4 DEF Current
  <2> QED BY <1>0, <1>1, <1>2, <2>1, <2>2 DEF DeliveryOK, LinkedOf, gateway
<1>7. GaplessOf(d)'
  <2>1. ASSUME NEW k \in 1 .. n PROVE NoGapBefore(d, k)'
    <3>1. NoGapBefore(d, k) /\ sent'[d][k] = sent[d][k]
          /\ sent'[d][k][2] = sent[d][k][2] /\ sent'[d][k][3] = sent[d][k][3]
        BY <1>0, <1>1, <1>2 DEF DeliveryOK, GaplessOf
    <3>2. \A x, y : GotBefore(d, k, x, y) => GotBefore(d, k, x, y)'
      <4>1. \A l \in 1 .. k - 1 : sent'[d][l] = sent[d][l]
          BY <1>2
      <4> QED BY <3>1, <4>1 DEF GotBefore
    <3>3. \A x \in 1 .. sent'[d][k][2] - 1 :
             \A y \in 1 .. Requests[payload'[d][x].kind] : GotBefore(d, k, x, y)'
        BY <3>1, <3>2 DEF NoGapBefore
    <3>4. \A x \in {sent'[d][k][2]} : \A y \in 1 .. sent'[d][k][3] - 1 : GotBefore(d, k, x, y)'
        BY <3>1, <3>2 DEF NoGapBefore
    <3> QED BY <3>3, <3>4 DEF NoGapBefore
  <2>2. ASSUME NEW k \in 1 .. n + tries, k \notin 1 .. n PROVE NoGapBefore(d, k)'
    <3>0. sent'[d][k] = Here(d) /\ \A l \in 1 .. n : l \in 1 .. k - 1 /\ sent'[d][l] = sent[d][l]
        BY <1>2, <2>2
    <3>1. \A x, y : GotRequest(d, x, y) => GotBefore(d, k, x, y)'
        BY <1>0, <1>4, <3>0 DEF GotRequest, GotBefore
    <3>2. GotFirst(d, index[d] - 1) /\ \A y \in 1 .. card[d] - 1 : GotRequest(d, index[d], y)
        BY <1>1 DEF DeliveryOK, SentSoFar, InMessage
    <3>3. \A x \in 1 .. index[d] - 1 :
             \A y \in 1 .. Requests[payload'[d][x].kind] : GotBefore(d, k, x, y)'
        BY <3>1, <3>2 DEF GotFirst
    <3>4. \A x \in {index[d]} : \A y \in 1 .. card[d] - 1 : GotBefore(d, k, x, y)'
        BY <3>1, <3>2
    <3> QED BY <1>4, <3>0, <3>3, <3>4 DEF NoGapBefore
  <2> QED BY <1>2, <2>1, <2>2 DEF GaplessOf
<1>8. ASSUME attempt'[d] = attempt[d]
      PROVE  \A x, y : GotRequest(d, x, y) \/ (x = index[d] /\ y = card[d])
                       => GotRequest(d, x, y)'
  <2>1. ASSUME NEW x, NEW y, GotRequest(d, x, y) PROVE GotRequest(d, x, y)'
      BY <1>0, <1>2, <1>3, <1>8, <2>1 DEF GotRequest
  <2>2. ASSUME NEW x, NEW y, x = index[d], y = card[d] PROVE GotRequest(d, x, y)'
    <3>1. n + 1 \in 1 .. Len(sent'[d]) /\ sent'[d][n + 1] = <<attempt'[d], x, y>>
        BY <1>2, <1>3, <1>8, <2>2 DEF Here
    <3> QED BY <3>1 DEF GotRequest
  <2> QED BY <2>1, <2>2
<1> QED BY <1>5, <1>6, <1>7, <1>8

LEMMA OwnStep ==
    ASSUME InboundInv, NEW d \in Deliveries, Delivers(d)
    PROVE  DeliveryOK(d)'
<1> USE DEF gateway, cursor, Goto
<1>0. DeliveryOK(d) /\ Grows /\ TypeOK
    BY OthersUntouched DEF InboundInv, TypeOK
<1>1. ASSUME NEW p \in Payloads, Receive(d, p) PROVE DeliveryOK(d)'
  <2>1. pc'[d] = "next" /\ payload'[d] = p /\ sent'[d] = <<>> /\ index'[d] = 0
      BY <1>0, <1>1 DEF Receive, DeliveryOK, AtARequest, InboundInv, TypeOK
  <2> QED BY <2>1, PayloadMessages DEF DeliveryOK, AtARequest, LinkedOf, SentSoFar, GotFirst,
                                       GaplessOf, InMessage
<1>2. ASSUME Redeliver(d) PROVE DeliveryOK(d)'
  <2>1. /\ pc[d] = "error" /\ pc'[d] = "next" /\ index'[d] = 0
        /\ payload'[d] = payload[d] /\ sent'[d] = sent[d]
      BY <1>2 DEF Redeliver, InboundInv, TypeOK
  <2>2. AtARequest(d)' /\ SentSoFar(d)'
      BY <1>0, <2>1, PayloadMessages DEF DeliveryOK, AtARequest, SentSoFar, GotFirst, InMessage
  <2> QED BY <1>0, <2>1, <2>2, QuietStep
<1>3. ASSUME NextMessage(d) PROVE DeliveryOK(d)'
  <2>1. /\ pc[d] = "next" /\ payload[d] \in Payloads /\ index[d] \in 0 .. Len(payload[d])
        /\ GotFirst(d, index[d])
      BY <1>0, <1>3 DEF NextMessage, DeliveryOK, AtARequest, SentSoFar, Running
  <2>2. /\ card'[d] = 1 /\ payload'[d] = payload[d] /\ sent'[d] = sent[d]
        /\ attempt'[d] = attempt[d]
      BY <1>3 DEF NextMessage, InboundInv, TypeOK
  <2>3. \A n : GotFirst(d, n) => GotFirst(d, n)'
      BY <2>2, SameSent
  <2>4. PICK i \in Nat : i = index[d] + 1
      BY <2>1
  <2>5. CASE i > Len(payload[d])
    <3>1. pc'[d] = "ok" /\ index'[d] = index[d] /\ index[d] = Len(payload[d])
        BY <1>3, <2>1, <2>4, <2>5, PayloadMessages DEF NextMessage, InboundInv, TypeOK
    <3>2. AtARequest(d)' /\ SentSoFar(d)'
        BY <1>0, <2>1, <2>2, <2>3, <3>1 DEF DeliveryOK, AtARequest, SentSoFar, Running, InMessage
    <3> QED BY <1>0, <2>2, <3>1, <3>2, QuietStep
  <2>6. CASE ~(i > Len(payload[d]))
    <3>1. /\ i \in 1 .. Len(payload[d]) /\ i - 1 = index[d]
          /\ payload[d][i] \in Message /\ payload[d][i].kind \in Kinds
        BY <2>1, <2>4, <2>6, PayloadMessages DEF Message
    <3>2. pc'[d] = Stage(payload[d][i].kind) /\ index'[d] = i
        BY <1>3, <2>4, <2>6 DEF NextMessage, InboundInv, TypeOK
    <3>3. Current(d)' = payload[d][i]
        BY <2>2, <3>2 DEF Current
    <3>0. AtARequest(d)
        BY <1>0 DEF DeliveryOK
    <3>4. CASE payload[d][i].kind = "other"
      <4>1. pc'[d] = "next" /\ Requests[payload[d][i].kind] = 0
          BY <3>1, <3>2, <3>4, HandledKinds DEF Stage
      <4>2. \A x \in 1 .. i : x \in 1 .. index[d] \/ x = i
          BY <2>1, <2>4
      <4>3. GotFirst(d, i)
          BY <2>1, <4>1, <4>2 DEF GotFirst
      <4>4. GotFirst(d, i)'
          BY <2>3, <4>3
      <4>5. SentSoFar(d)'
          BY <3>2, <4>1, <4>4 DEF SentSoFar, InMessage
      <4>6. AtARequest(d)'
          BY <2>1, <2>2, <3>0, <3>1, <3>2, <4>1 DEF AtARequest, InMessage, Running
      <4> QED BY <1>0, <2>2, <4>1, <4>5, <4>6, QuietStep
    <3>5. CASE payload[d][i].kind = "nameless"
      <4>1. pc'[d] = "error"
          BY <3>2, <3>5 DEF Stage
      <4> QED BY <1>0, <2>1, <2>2, <4>1, RefusedStep
    <3>6. CASE payload[d][i].kind \notin {"other", "nameless"}
      <4>1. pc'[d] = "resolve" /\ Requests[payload[d][i].kind] \in Nat \ {0}
          BY <3>1, <3>2, <3>6, HandledKinds DEF Stage
      <4>2. AtARequest(d)'
          BY <2>1, <2>2, <3>0, <3>1, <3>2, <3>3, <4>1 DEF AtARequest, Running, InMessage
      <4>3. GotFirst(d, i - 1)'
          BY <2>1, <2>3, <3>1
      <4>4. SentSoFar(d)'
          BY <2>2, <3>2, <4>1, <4>3 DEF SentSoFar
      <4> QED BY <1>0, <2>2, <4>1, <4>2, <4>4, QuietStep
    <3> QED BY <3>4, <3>5, <3>6
  <2> QED BY <2>5, <2>6
<1>4. ASSUME Resolve(d) \/ CopyMedia(d) PROVE DeliveryOK(d)'
  <2>1. pc[d] \in InMessage /\ pc'[d] \in InMessage \ {"via", "send"}
      BY <1>0, <1>4 DEF Resolve, CopyMedia, InMessage, TypeOK
  <2> QED BY <1>0, <1>4, <2>1, CallStep DEF Resolve, CopyMedia
<1>5. ASSUME ResolveNothing(d) \/ Interrupt(d) PROVE DeliveryOK(d)'
  <2>1. pc[d] # "idle" /\ pc'[d] = "error"
      BY <1>0, <1>5 DEF ResolveNothing, Interrupt, TypeOK, Running
  <2> QED BY <1>0, <1>5, <2>1, RefusedStep DEF ResolveNothing, Interrupt
<1>6. ASSUME CreateContact(d) PROVE DeliveryOK(d)'
  <2>1. pc[d] = "contact" /\ pc'[d] = "via" /\ Current(d).from \in contacts'
      BY <1>0, <1>6 DEF CreateContact, TypeOK
  <2> QED BY <1>0, <1>6, <2>1, CallStep DEF CreateContact, InMessage
<1>7. ASSUME CreateVia(d) PROVE DeliveryOK(d)'
  <2>1. /\ pc[d] = "via" /\ pc'[d] = "send" /\ Current(d).from \in contacts'
        /\ <<Current(d).from, Current(d).to>> \in vias'
      BY <1>0, <1>7 DEF CreateVia, TypeOK, DeliveryOK, LinkedOf
  <2> QED BY <1>0, <1>7, <2>1, CallStep DEF CreateVia, InMessage
<1>8. ASSUME Send(d) PROVE DeliveryOK(d)'
  <2>0. PICK n \in 1 .. MaxTries : GotCopies(d, n)
      BY <1>0, <1>8 DEF Send, Delivered, GotCopies, TypeOK
  <2>1. /\ pc[d] = "send" /\ card'[d] = card[d] + 1
        /\ payload'[d] = payload[d] /\ index'[d] = index[d] /\ attempt'[d] = attempt[d]
        /\ UNCHANGED <<contacts, vias>>
        /\ pc'[d] = IF card[d] < Requests[Current(d).kind] THEN "contact" ELSE "next"
      BY <1>0, <1>8 DEF Send, TypeOK
  <2>2. /\ \A k \in 1 .. Len(sent'[d]) : sent'[d][k][2] \in 1 .. Len(payload'[d])
        /\ \A k \in 1 .. Len(sent'[d]) :
              LET m == payload'[d][sent'[d][k][2]]
              IN m.from \in contacts' /\ <<m.from, m.to>> \in vias'
        /\ GaplessOf(d)'
        /\ \A x, y : GotRequest(d, x, y) \/ (x = index[d] /\ y = card[d])
                     => GotRequest(d, x, y)'
      BY <2>0, <2>1, ForwardStep
  <2>3. /\ index[d] \in 1 .. Len(payload[d]) /\ payload[d] \in Payloads
        /\ Current(d).kind \in Kinds /\ Requests[Current(d).kind] \in Nat
        /\ card[d] \in 1 .. Requests[Current(d).kind] /\ Current(d)' = Current(d)
      BY <2>1, CurrentMessage, SomeRequests DEF InMessage, Current
  <2>4. AtARequest(d)'
    <3>1. pc'[d] = "contact" => card'[d] \in 1 .. Requests[Current(d)'.kind]
        BY <2>1, <2>3
    <3>2. pc'[d] \in {"contact", "next"}
        BY <2>1
    <3>3. index'[d] \in 1 .. Len(payload'[d]) /\ payload'[d] \in Payloads
        BY <2>1, <2>3
    <3>4. Len(payload'[d]) \in Nat
        BY <3>3, PayloadMessages
    <3> QED BY <2>2, <3>1, <3>2, <3>3, <3>4 DEF AtARequest, Running, InMessage
  <2>5. LinkedOf(d)'
      BY <2>1, <2>2 DEF LinkedOf
  <2>6. /\ GotFirst(d, index[d] - 1)
        /\ \A y \in 1 .. card[d] - 1 : GotRequest(d, index[d], y)
      BY <1>0, <2>1 DEF DeliveryOK, SentSoFar, InMessage
  <2>7. \A y \in 1 .. card[d] : y \in 1 .. card[d] - 1 \/ y = card[d]
      BY <2>3
  <2>8. \A x, y : x = index[d] /\ y \in 1 .. card[d] => GotRequest(d, x, y)'
      BY <2>2, <2>6, <2>7
  <2>9. \A x \in 1 .. index[d] - 1 : \A y \in 1 .. Requests[payload'[d][x].kind] :
           GotRequest(d, x, y)'
      BY <2>1, <2>2, <2>6 DEF GotFirst
  <2>10. SentSoFar(d)'
    <3>1. CASE card[d] < Requests[Current(d).kind]
      <4>1. pc'[d] = "contact" /\ card'[d] - 1 = card[d]
          BY <2>1, <2>3, <3>1
      <4>2. \A x, y : x = index'[d] /\ y \in 1 .. card'[d] - 1 => GotRequest(d, x, y)'
          BY <2>1, <2>8, <4>1
      <4>3. \A x \in 1 .. index'[d] - 1 : \A y \in 1 .. Requests[payload'[d][x].kind] :
               GotRequest(d, x, y)'
          BY <2>1, <2>9
      <4> QED BY <4>1, <4>2, <4>3 DEF SentSoFar, GotFirst, GotRequest
    <3>2. CASE ~(card[d] < Requests[Current(d).kind])
      <4>1. pc'[d] = "next" /\ card[d] = Requests[Current(d).kind]
          BY <2>1, <2>3, <3>2
      <4>2. \A x \in 1 .. index'[d] : x \in 1 .. index[d] - 1 \/ x = index[d]
          BY <2>1, <2>3
      <4>3. payload'[d][index[d]] = Current(d)
          BY <2>1 DEF Current
      <4>4. \A x \in 1 .. index'[d] : \A y \in 1 .. Requests[payload'[d][x].kind] :
               GotRequest(d, x, y)'
          BY <2>8, <2>9, <4>1, <4>2, <4>3
      <4> QED BY <4>1, <4>4 DEF SentSoFar, GotFirst, GotRequest, InMessage
    <3> QED BY <3>1, <3>2
  <2> QED BY <2>2, <2>4, <2>5, <2>10 DEF DeliveryOK
<1>9. ASSUME CallFails(d) PROVE DeliveryOK(d)'
  <2>1. /\ pc[d] \in InMessage /\ pc'[d] = "error" /\ payload'[d] = payload[d]
        /\ pc[d] # "idle"
      BY <1>0, <1>9 DEF CallFails, TypeOK, InMessage, Running
  <2>2. CASE sent'[d] = sent[d]
      BY <1>0, <2>1, <2>2, RefusedStep
  <2>3. CASE sent'[d] # sent[d]
    <3>1. pc[d] = "send" /\ TakesEffect(d)
        BY <1>9, <2>3 DEF CallFails, TakesEffect
    <3>0. PICK n \in 1 .. MaxTries : GotCopies(d, n) /\ UNCHANGED <<contacts, vias>>
        BY <1>0, <3>1 DEF TakesEffect, Delivered, GotCopies, TypeOK
    <3>2. /\ \A k \in 1 .. Len(sent'[d]) : sent'[d][k][2] \in 1 .. Len(payload'[d])
          /\ \A k \in 1 .. Len(sent'[d]) :
                LET m == payload'[d][sent'[d][k][2]]
                IN m.from \in contacts' /\ <<m.from, m.to>> \in vias'
          /\ GaplessOf(d)'
        BY <2>1, <3>0, <3>1, ForwardStep
    <3>3. AtARequest(d)' /\ LinkedOf(d)' /\ SentSoFar(d)'
        BY <1>0, <2>1, <3>2 DEF DeliveryOK, AtARequest, LinkedOf, SentSoFar, Running, InMessage
    <3> QED BY <3>2, <3>3 DEF DeliveryOK
  <2> QED BY <2>2, <2>3
<1> QED BY <1>1, <1>2, <1>3, <1>4, <1>5, <1>6, <1>7, <1>8, <1>9 DEF Delivers, Process

\* The inductive invariant.
LEMMA StepInbound == InboundInv /\ [Next]_vars => InboundInv'
<1> SUFFICES ASSUME InboundInv, [Next]_vars PROVE InboundInv'
    OBVIOUS
<1>1. TypeOK'
    BY StepTypes
<1>2. ASSUME NEW d \in Deliveries, Delivers(d) PROVE \A c \in Deliveries : DeliveryOK(c)'
  <2>1. DeliveryOK(d)' /\ Grows /\ \A c \in Deliveries \ {d} : Untouched(c)
      BY <1>2, OwnStep, OthersUntouched DEF InboundInv
  <2> QED BY <2>1, UntouchedKeeps DEF InboundInv
<1>3. ASSUME \/ UNCHANGED vars
             \/ \E a \in Accounts, enabled \in BOOLEAN : SaveGate(a, enabled)
      PROVE  \A c \in Deliveries : DeliveryOK(c)'
  <2>1. Grows /\ \A c \in Deliveries : Untouched(c)
      BY <1>3 DEF SaveGate, vars, gateway, cursor, Grows, Untouched
  <2> QED BY <2>1, UntouchedKeeps DEF InboundInv
<1>4. \A c \in Deliveries : DeliveryOK(c)'
    BY <1>2, <1>3 DEF Next, Delivers
<1> QED BY <1>1, <1>4 DEF InboundInv

LEMMA InboundInvariant == Spec => []InboundInv
BY InitInbound, StepInbound, PTL DEF Spec

-----------------------------------------------------------------------------
\* The state has the shape the code gives it.
THEOREM InboundTypeCorrect == Spec => []TypeOK
<1>1. InboundInv => TypeOK
    BY DEF InboundInv
<1> QED BY InboundInvariant, <1>1, PTL

\* resolveInternalContactIdentity: contact and link come before the message.
THEOREM SendersAreLinked == Spec => []LinkedBeforeMessage
<1>1. InboundInv => LinkedBeforeMessage
    BY DEF InboundInv, DeliveryOK, LinkedOf, LinkedBeforeMessage
<1> QED BY InboundInvariant, <1>1, PTL

\* HandleWebhook: the first error ends the delivery, and so leaves no gap.
THEOREM MessagesAreGapless == Spec => []NoGaps
<1>1. InboundInv => NoGaps
  <2> SUFFICES ASSUME InboundInv, NEW d \in Deliveries, NEW k \in 1 .. Len(sent[d])
               PROVE  /\ \A x \in 1 .. (sent[d][k][2] - 1) :
                            \A y \in 1 .. Requests[payload[d][x].kind] :
                               \E l \in 1 .. (k - 1) : sent[d][l] = <<sent[d][k][1], x, y>>
                      /\ \A y \in 1 .. (sent[d][k][3] - 1) :
                            \E l \in 1 .. (k - 1) :
                               sent[d][l] = <<sent[d][k][1], sent[d][k][2], y>>
      BY DEF NoGaps
  <2>1. NoGapBefore(d, k)
      BY DEF InboundInv, DeliveryOK, GaplessOf
  <2> QED BY <2>1 DEF NoGapBefore, GotBefore
<1> QED BY InboundInvariant, <1>1, PTL
-----------------------------------------------------------------------------
(* The pipeline implements WebhookDelivery.                                 *)

\* What the mapping makes of one delivery.
Forwarded(d) == [k \in 1 .. Len(sent[d]) |-> Place(sent[d][k])]

AbstractPhase == [d \in Deliveries |-> Phase(d)]
AbstractContent == [d \in Deliveries |-> Places(payload[d])]
AbstractSent == [d \in Deliveries |-> Forwarded(d)]

\* A place is a request of a message.
LEMMA PlacesOf ==
    ASSUME NEW p, NEW x
    PROVE  x \in Places(p) <=> \E i \in 1 .. Len(p) :
                                  \E j \in 1 .. Requests[p[i].kind] : x = <<i, j>>
BY DEF Places

\* What the tries of a call add to what was sent they add to its places.
LEMMA ForwardedMore ==
    ASSUME TypeOK, NEW d \in Deliveries, NEW n \in Nat, GotCopies(d, n)
    PROVE  Forwarded(d)' = Forwarded(d) \o [k \in 1 .. n |-> <<index[d], card[d]>>]
<1>1. /\ Here(d) \in Nat \X Nat \X Nat /\ <<index[d], card[d]>> \in Nat \X Nat
      /\ Place(Here(d)) = <<index[d], card[d]>>
      /\ sent[d] \in Seq(Nat \X Nat \X Nat)
    BY DEF TypeOK, Here, Place
<1>2. PICK m \in Nat : m = Len(sent[d])
  <2>1. Len(sent[d]) \in Nat
      BY <1>1, LenProperties
  <2> QED BY <2>1
<1>3. /\ sent'[d] \in Seq(Nat \X Nat \X Nat) /\ Len(sent'[d]) = m + n
      /\ \A k \in 1 .. m : sent'[d][k] = sent[d][k]
      /\ \A k \in 1 .. m + n : k \notin 1 .. m => sent'[d][k] = Here(d)
    BY <1>1, <1>2, AddCopies DEF GotCopies
<1>4. Forwarded(d) \in Seq(Nat \X Nat) /\ Len(Forwarded(d)) = m
  <2>1. \A k \in 1 .. m : sent[d][k] \in Nat \X Nat \X Nat
      BY <1>1, <1>2
  <2>2. Forwarded(d) \in [1 .. m -> Nat \X Nat]
      BY <1>2, <2>1 DEF Forwarded, Place
  <2> QED BY <2>2
<1>5. Forwarded(d)' = [k \in 1 .. m + n |-> Place(sent'[d][k])]
    BY <1>3 DEF Forwarded
<1>6. Forwarded(d)' \in Seq(Nat \X Nat) /\ Len(Forwarded(d)') = m + n
  <2>1. \A k \in 1 .. m + n : sent'[d][k] \in Nat \X Nat \X Nat
      BY <1>3
  <2>2. Forwarded(d)' \in [1 .. m + n -> Nat \X Nat]
      BY <1>5, <2>1 DEF Place
  <2> QED BY <2>2
<1>7. PICK t : t = Forwarded(d) \o [k \in 1 .. n |-> <<index[d], card[d]>>]
    OBVIOUS
<1>8. /\ t \in Seq(Nat \X Nat) /\ Len(t) = m + n
      /\ \A k \in 1 .. m : t[k] = Forwarded(d)[k]
      /\ \A k \in 1 .. m + n : k \notin 1 .. m => t[k] = <<index[d], card[d]>>
  <2>1. PICK f \in Seq(Nat \X Nat) : f = Forwarded(d)
      BY <1>4
  <2>2. PICK x \in Nat \X Nat : x = <<index[d], card[d]>>
      BY <1>1
  <2>3. /\ t \in Seq(Nat \X Nat) /\ Len(t) = Len(f) + n
        /\ \A k \in 1 .. Len(f) : t[k] = f[k]
        /\ \A k \in 1 .. Len(t) : k \notin 1 .. Len(f) => t[k] = x
      BY <1>7, <2>1, <2>2, AddCopies
  <2> QED BY <1>4, <2>1, <2>2, <2>3
<1>9. ASSUME NEW k \in 1 .. m + n PROVE Forwarded(d)'[k] = t[k]
  <2>1. Forwarded(d)'[k] = Place(sent'[d][k])
      BY <1>5
  <2>2. CASE k \in 1 .. m
      BY <1>2, <1>3, <1>8, <2>1, <2>2 DEF Forwarded
  <2>3. CASE k \notin 1 .. m
      BY <1>1, <1>3, <1>8, <2>1, <2>3
  <2> QED BY <2>2, <2>3
<1> QED BY <1>6, <1>7, <1>8, <1>9, SeqEqual

LEMMA InitRefines == Init => Abstract!Init
<1> SUFFICES ASSUME Init PROVE Abstract!Init
    OBVIOUS
<1>1. AbstractPhase = [d \in Deliveries |-> "idle"]
    BY DEF Init, AbstractPhase, Phase
<1>2. ASSUME NEW d \in Deliveries PROVE Places(payload[d]) = {} /\ Forwarded(d) = <<>>
  <2>1. payload[d] = <<>> /\ sent[d] = <<>>
      BY DEF Init
  <2> QED BY <2>1 DEF Places, Forwarded
<1>3. /\ AbstractContent = [d \in Deliveries |-> {}]
      /\ AbstractSent = [d \in Deliveries |-> <<>>]
    BY <1>2 DEF AbstractContent, AbstractSent
<1> QED BY <1>1, <1>3 DEF Init, Abstract!Init, AbstractPhase, AbstractContent, AbstractSent, Forwarded

\* The other deliveries stay where they are.
LEMMA OthersRefine ==
    ASSUME NEW d \in Deliveries, \A c \in Deliveries \ {d} : Untouched(c)
    PROVE  /\ AbstractPhase' = [AbstractPhase EXCEPT ![d] = Phase(d)']
           /\ payload'[d] = payload[d] => AbstractContent' = AbstractContent
           /\ AbstractContent' = [AbstractContent EXCEPT ![d] = Places(payload'[d])]
           /\ sent'[d] = sent[d] => AbstractSent' = AbstractSent
           /\ AbstractSent' = [AbstractSent EXCEPT ![d] = Forwarded(d)']
<1>1. \A c \in Deliveries \ {d} : /\ Phase(c)' = Phase(c) /\ Places(payload'[c]) = Places(payload[c])
                                  /\ Forwarded(c)' = Forwarded(c)
    BY DEF Untouched, Phase, Forwarded
<1>2. AbstractPhase' = [AbstractPhase EXCEPT ![d] = Phase(d)']
    BY <1>1 DEF AbstractPhase
<1>3. AbstractContent' = [AbstractContent EXCEPT ![d] = Places(payload'[d])]
    BY <1>1 DEF AbstractContent
<1>4. AbstractSent' = [AbstractSent EXCEPT ![d] = Forwarded(d)']
    BY <1>1 DEF AbstractSent
<1>5. payload'[d] = payload[d] => AbstractContent' = AbstractContent
    BY <1>1 DEF AbstractContent
<1>6. sent'[d] = sent[d] => Forwarded(d)' = Forwarded(d)
    BY DEF Forwarded
<1>7. sent'[d] = sent[d] => AbstractSent' = AbstractSent
    BY <1>1, <1>6 DEF AbstractSent
<1> QED BY <1>2, <1>3, <1>4, <1>5, <1>7

\* A place that is forwarded is one of the content.
LEMMA HereIsAPlace ==
    ASSUME InboundInv, NEW d \in Deliveries, pc[d] = "send"
    PROVE  /\ <<index[d], card[d]>> \in Places(payload[d])
           /\ <<index[d], card[d]>> \in UNION {Places(p) : p \in Payloads}
<1>1. /\ index[d] \in 1 .. Len(payload[d]) /\ payload[d] \in Payloads
      /\ card[d] \in 1 .. Requests[payload[d][index[d]].kind]
    BY CurrentMessage DEF InMessage, Current
<1> QED BY <1>1, PlacesOf

LEMMA OwnRefines ==
    ASSUME InboundInv, NEW d \in Deliveries, Delivers(d)
    PROVE  Abstract!NextAtLeastOnce \/ UNCHANGED Abstract!vars
<1> USE DEF gateway, cursor, Goto
<1> DEFINE Aim == Abstract!NextAtLeastOnce \/ UNCHANGED Abstract!vars
<1>0. /\ TypeOK /\ DeliveryOK(d) /\ \A c \in Deliveries \ {d} : Untouched(c)
      /\ d \in Deliveries
    BY OthersUntouched DEF InboundInv
<1>1. AbstractPhase[d] = Phase(d) /\ AbstractContent[d] = Places(payload[d])
      /\ AbstractSent[d] = Forwarded(d)
    BY DEF AbstractPhase, AbstractContent, AbstractSent
<1>2. /\ AbstractPhase' = [AbstractPhase EXCEPT ![d] = Phase(d)']
      /\ payload'[d] = payload[d] => AbstractContent' = AbstractContent
      /\ AbstractContent' = [AbstractContent EXCEPT ![d] = Places(payload'[d])]
      /\ sent'[d] = sent[d] => AbstractSent' = AbstractSent
      /\ AbstractSent' = [AbstractSent EXCEPT ![d] = Forwarded(d)']
    BY <1>0, OthersRefine
<1>3. Phase(d)' = Phase(d) => AbstractPhase' = AbstractPhase
    BY <1>1, <1>2 DEF AbstractPhase
\* A step that forwards nothing and changes no payload is a stutter or ends
\* the work.
<1>4. ASSUME payload'[d] = payload[d], sent'[d] = sent[d], UNCHANGED interrupted,
             Phase(d) = "working", Phase(d)' \in {"working", "refused"}
      PROVE  Aim
  <2>1. AbstractContent' = AbstractContent /\ AbstractSent' = AbstractSent
      BY <1>2, <1>4
  <2>2. CASE Phase(d)' = "working"
    <3>1. AbstractPhase' = AbstractPhase
        BY <1>3, <1>4, <2>2
    <3> QED BY <1>4, <2>1, <3>1
            DEF Abstract!vars, AbstractPhase, AbstractContent, AbstractSent, Forwarded
  <2>3. CASE Phase(d)' = "refused"
    <3>1. Abstract!Refuse(d)
        BY <1>1, <1>2, <1>4, <2>1, <2>3
           DEF Abstract!Refuse, AbstractPhase, AbstractContent, AbstractSent, Forwarded
    <3> QED BY <3>1 DEF Abstract!NextAtLeastOnce
  <2> QED BY <1>4, <2>2, <2>3
\* A step that forwards.
<1>5. ASSUME pc[d] = "send", payload'[d] = payload[d], UNCHANGED interrupted,
             NEW n \in 1 .. MaxTries, GotCopies(d, n), Phase(d)' \in {"working", "refused"}
      PROVE  Aim
  <2>0. PICK x \in UNION {Places(p) : p \in Payloads} :
               x = <<index[d], card[d]>> /\ x \in Places(payload[d])
      BY <1>5, HereIsAPlace
  <2>1. n \in Nat
      BY TriesAreNats
  <2>2. Phase(d) = "working"
      BY <1>5 DEF Phase
  <2>3. Forwarded(d)' = Forwarded(d) \o [k \in 1 .. n |-> x]
      BY <1>0, <1>5, <2>0, <2>1, ForwardedMore
  <2>4. AbstractSent' = [AbstractSent EXCEPT ![d] = AbstractSent[d] \o [k \in 1 .. n |-> x]]
      BY <1>1, <1>2, <2>3
  <2>5. Abstract!Forward(d, x)
      BY <1>1, <1>2, <1>5, <2>0, <2>2, <2>4
         DEF Abstract!Forward, AbstractPhase, AbstractContent, AbstractSent, Forwarded
  <2>6. AbstractPhase' \in {AbstractPhase, [AbstractPhase EXCEPT ![d] = "refused"]}
      BY <1>2, <1>3, <1>5, <2>2
  <2>7. Abstract!MayRefuse(d)
      BY <2>6 DEF Abstract!MayRefuse, AbstractPhase
  <2> QED BY <2>0, <2>5, <2>7 DEF Abstract!NextAtLeastOnce
<1>6. ASSUME NEW p \in Payloads, Receive(d, p) PROVE Aim
  <2>1. /\ pc[d] = "idle" /\ pc'[d] = "next" /\ payload'[d] = p /\ sent'[d] = sent[d]
        /\ UNCHANGED interrupted
      BY <1>0, <1>6 DEF Receive, TypeOK
  <2>2. Phase(d) = "idle" /\ Phase(d)' = "working"
      BY <2>1 DEF Phase
  <2>3. Places(p) \in SUBSET UNION {Places(q) : q \in Payloads}
      OBVIOUS
  <2>4. Abstract!Post(d, Places(p))
      BY <1>1, <1>2, <2>1, <2>2
         DEF Abstract!Post, AbstractPhase, AbstractContent, AbstractSent, Forwarded
  <2> QED BY <2>3, <2>4 DEF Abstract!NextAtLeastOnce, Abstract!Meta
<1>7. ASSUME Redeliver(d) PROVE Aim
  <2>1. /\ pc[d] = "error" /\ pc'[d] = "next" /\ payload'[d] = payload[d]
        /\ sent'[d] = sent[d] /\ UNCHANGED interrupted
      BY <1>0, <1>7 DEF Redeliver, TypeOK
  <2>2. Phase(d) = "refused" /\ Phase(d)' = "working"
      BY <2>1 DEF Phase
  <2>3. Abstract!Repeat(d)
      BY <1>1, <1>2, <2>1, <2>2
         DEF Abstract!Repeat, AbstractPhase, AbstractContent, AbstractSent, Forwarded
  <2> QED BY <2>3 DEF Abstract!NextAtLeastOnce, Abstract!Meta
<1>8. ASSUME Interrupt(d) PROVE Aim
  <2>1. /\ pc[d] \in Running /\ pc'[d] = "error" /\ payload'[d] = payload[d]
        /\ sent'[d] = sent[d] /\ interrupted' = interrupted \cup {d}
      BY <1>0, <1>8 DEF Interrupt, TypeOK
  <2>2. Phase(d) = "working" /\ Phase(d)' = "refused"
      BY <2>1 DEF Phase, Running
  <2>3. Abstract!Cut(d)
      BY <1>1, <1>2, <2>1, <2>2
         DEF Abstract!Cut, AbstractPhase, AbstractContent, AbstractSent, Forwarded
  <2> QED BY <2>3 DEF Abstract!NextAtLeastOnce, Abstract!Meta
<1>9. ASSUME NextMessage(d) PROVE Aim
  <2>1. /\ pc[d] = "next" /\ pc'[d] \in {"ok", "next", "error", "resolve"}
        /\ payload'[d] = payload[d] /\ sent'[d] = sent[d] /\ UNCHANGED interrupted
      BY <1>0, <1>9 DEF NextMessage, Stage, TypeOK
  <2>2. CASE pc'[d] # "ok"
    <3>1. Phase(d) = "working" /\ Phase(d)' \in {"working", "refused"}
        BY <2>1, <2>2 DEF Phase
    <3> QED BY <1>4, <2>1, <3>1
  <2>3. CASE pc'[d] = "ok"
    <3>1. Phase(d) = "working" /\ Phase(d)' = "accepted"
        BY <2>1, <2>3 DEF Phase
    <3>2. Abstract!Accept(d)
        BY <1>1, <1>2, <2>1, <3>1
           DEF Abstract!Accept, AbstractPhase, AbstractContent, AbstractSent, Forwarded
    <3>3. GotFirst(d, Len(payload[d]))
      <4>1. GotFirst(d, Len(payload[d]))'
          BY <2>3, OwnStep DEF DeliveryOK, SentSoFar
      <4>2. attempt'[d] = attempt[d]
          BY <1>9 DEF NextMessage
      <4> QED BY <2>1, <4>1, <4>2 DEF GotFirst, GotRequest
    <3>4. ASSUME NEW x \in Places(payload[d])
          PROVE  x \in {Forwarded(d)[k] : k \in 1 .. Len(Forwarded(d))}
      <4>0. PICK i \in 1 .. Len(payload[d]) :
                \E j \in 1 .. Requests[payload[d][i].kind] : x = <<i, j>>
          BY PlacesOf
      <4>1. PICK j \in 1 .. Requests[payload[d][i].kind] : x = <<i, j>>
          BY <4>0
      <4>2. PICK k \in 1 .. Len(sent[d]) : sent[d][k] = <<attempt[d], i, j>>
          BY <3>3 DEF GotFirst, GotRequest
      <4>3. Forwarded(d)[k] = x
          BY <4>1, <4>2 DEF Forwarded, Place
      <4>4. Len(Forwarded(d)) = Len(sent[d])
          BY <1>0 DEF Forwarded, TypeOK
      <4> QED BY <4>3, <4>4
    <3>5. AbstractContent[d] \subseteq
             {AbstractSent[d][k] : k \in 1 .. Len(AbstractSent[d])}
        BY <1>1, <3>4
    <3> QED BY <3>2, <3>5
            DEF Abstract!NextAtLeastOnce, Abstract!Got, AbstractContent, AbstractSent, Forwarded
  <2> QED BY <2>2, <2>3
<1>10. ASSUME Resolve(d) \/ ResolveNothing(d) \/ CopyMedia(d) \/ CreateContact(d) \/ CreateVia(d)
       PROVE  Aim
  <2>1. /\ pc[d] \in Running /\ pc'[d] \in Running \cup {"error"} /\ payload'[d] = payload[d]
        /\ sent'[d] = sent[d] /\ UNCHANGED interrupted
      BY <1>0, <1>10 DEF Resolve, ResolveNothing, CopyMedia, CreateContact, CreateVia, TypeOK, Running
  <2>2. Phase(d) = "working" /\ Phase(d)' \in {"working", "refused"}
      BY <2>1 DEF Phase, Running
  <2> QED BY <1>4, <2>1, <2>2
<1>11. ASSUME Send(d) PROVE Aim
  <2>0. PICK n \in 1 .. MaxTries : GotCopies(d, n)
      BY <1>0, <1>11 DEF Send, Delivered, GotCopies, TypeOK
  <2>1. /\ pc[d] = "send" /\ pc'[d] \in {"contact", "next"} /\ payload'[d] = payload[d]
        /\ UNCHANGED interrupted
      BY <1>0, <1>11 DEF Send, TypeOK
  <2>2. Phase(d)' = "working"
      BY <2>1 DEF Phase
  <2> QED BY <1>5, <2>0, <2>1, <2>2
<1>12. ASSUME CallFails(d) PROVE Aim
  <2>1. /\ pc[d] \in Running /\ pc'[d] = "error" /\ payload'[d] = payload[d]
        /\ UNCHANGED interrupted
      BY <1>0, <1>12 DEF CallFails, TypeOK
  <2>2. Phase(d) = "working" /\ Phase(d)' = "refused"
      BY <2>1 DEF Phase, Running
  <2>3. CASE sent'[d] = sent[d]
      BY <1>4, <2>1, <2>2, <2>3
  <2>4. CASE sent'[d] # sent[d]
    <3>1. pc[d] = "send" /\ TakesEffect(d)
        BY <1>12, <2>4 DEF CallFails, TakesEffect
    <3>2. PICK n \in 1 .. MaxTries : GotCopies(d, n)
        BY <1>0, <3>1 DEF TakesEffect, Delivered, GotCopies, TypeOK
    <3> QED BY <1>5, <2>1, <2>2, <3>1, <3>2
  <2> QED BY <2>3, <2>4
<1> QED BY <1>6, <1>7, <1>8, <1>9, <1>10, <1>11, <1>12 DEF Delivers, Process

LEMMA StepRefines ==
    InboundInv /\ [Next]_vars => [Abstract!NextAtLeastOnce]_(Abstract!vars)
<1> SUFFICES ASSUME InboundInv, [Next]_vars
             PROVE  Abstract!NextAtLeastOnce \/ UNCHANGED Abstract!vars
    OBVIOUS
<1>1. ASSUME NEW d \in Deliveries, Delivers(d)
      PROVE  Abstract!NextAtLeastOnce \/ UNCHANGED Abstract!vars
    BY <1>1, OwnRefines
<1>2. ASSUME \/ UNCHANGED vars
             \/ \E a \in Accounts, enabled \in BOOLEAN : SaveGate(a, enabled)
      PROVE  UNCHANGED Abstract!vars
    BY <1>2 DEF SaveGate, vars, gateway, cursor, Abstract!vars, Phase, Forwarded
<1> QED BY <1>1, <1>2 DEF Next, Delivers

\* HandleWebhook answers 200 only when the messenger got the whole payload:
\* the pipeline implements WebhookDelivery's AtLeastOnce.
THEOREM PipelineImplementsAtLeastOnce == Spec => AcceptedIsForwarded
<1>1. Spec => Abstract!Init /\ [][Abstract!NextAtLeastOnce]_(Abstract!vars)
    BY InitRefines, InboundInvariant, StepRefines, PTL DEF Spec
<1> QED BY <1>1 DEF AcceptedIsForwarded, Abstract!AtLeastOnce
-----------------------------------------------------------------------------
(* The calls of a posting run out.                                          *)

\* A message makes two requests at most.
LEMMA TwoRequestsAtMost ==
    ASSUME InboundInv, NEW d \in Deliveries, pc[d] \in InMessage
    PROVE  card[d] \in 1 .. 2
<1>1. Current(d).kind \in Kinds /\ card[d] \in 1 .. Requests[Current(d).kind]
    BY CurrentMessage
<1>2. \A k \in Kinds : Requests[k] \in 0 .. 2
    BY DEF Kinds, Requests
<1> QED BY <1>1, <1>2

\* Who is in the loops has a call left, and no loop is longer than counted.
LEMMA SomeCallsLeft ==
    ASSUME InboundInv, NEW d \in Deliveries, pc[d] \in Running
    PROVE  \E left \in Nat :
              /\ left = Len(payload[d]) - index[d]
              /\ CallsInHand(d) \in 0 .. 10
              /\ pc[d] \in {"contact", "via", "send"} => card[d] \in 1 .. 2
              /\ CallsLeft(d) = 11 * left + CallsInHand(d) + 1
<1>1. payload[d] \in Payloads /\ index[d] \in 0 .. Len(payload[d])
    BY DEF InboundInv, DeliveryOK, AtARequest, Running
<1>2. PICK left \in Nat : left = Len(payload[d]) - index[d]
    BY <1>1, PayloadMessages
<1>3. pc[d] \in {"contact", "via", "send"} => card[d] \in 1 .. 2
    BY TwoRequestsAtMost DEF InMessage
<1>4. CallsInHand(d) \in 0 .. 10
    BY <1>3 DEF CallsInHand
<1>5. CallsLeft(d) = 11 * left + CallsInHand(d) + 1
    BY <1>2 DEF CallsLeft
<1> QED BY <1>2, <1>3, <1>4, <1>5

\* Fewer calls in hand, or a message less to come.
LEMMA FewerCalls ==
    ASSUME NEW l \in Nat, NEW a \in Nat, NEW b \in Nat, NEW m \in Nat,
           (l = m /\ b < a) \/ (l = m + 1 /\ b \in 0 .. 10)
    PROVE  /\ 11 * m + b + 1 \in 0 .. 11 * l + a + 1
           /\ 11 * m + b + 1 < 11 * l + a + 1
<1>1. CASE l = m /\ b < a
    BY <1>1
<1>2. CASE l = m + 1 /\ b \in 0 .. 10
    BY <1>2
<1> QED BY <1>1, <1>2

\* Every call of a delivery leaves it fewer.
LEMMA OneCallLess ==
    ASSUME InboundInv, NEW d \in Deliveries, pc[d] \in Running, Delivers(d)
    PROVE  CallsLeft(d)' \in 0 .. CallsLeft(d) /\ CallsLeft(d)' < CallsLeft(d)
<1> USE DEF gateway, cursor, Goto
<1> DEFINE Aim == CallsLeft(d)' \in 0 .. CallsLeft(d) /\ CallsLeft(d)' < CallsLeft(d)
<1>0. TypeOK
    BY DEF InboundInv
<1>1. PICK left \in Nat :
         /\ left = Len(payload[d]) - index[d]
         /\ CallsInHand(d) \in 0 .. 10
         /\ pc[d] \in {"contact", "via", "send"} => card[d] \in 1 .. 2
         /\ CallsLeft(d) = 11 * left + CallsInHand(d) + 1
    BY SomeCallsLeft
\* The posting is answered.
<1>2. ASSUME pc'[d] \in Answered PROVE Aim
  <2>1. CallsLeft(d)' = 0
      BY <1>2 DEF CallsLeft, Answered, Running
  <2> QED BY <1>1, <2>1
\* The delivery goes on in its message.
<1>3. ASSUME pc'[d] \in Running, payload'[d] = payload[d], index'[d] = index[d],
             CallsInHand(d)' \in Nat, CallsInHand(d)' < CallsInHand(d)
      PROVE  Aim
  <2>1. CallsLeft(d)' = 11 * left + CallsInHand(d)' + 1
      BY <1>1, <1>3 DEF CallsLeft
  <2>2. PICK a \in Nat : a = CallsInHand(d)
      BY <1>1
  <2>3. PICK b \in Nat : b = CallsInHand(d)'
      BY <1>3
  <2> QED BY <1>1, <1>3, <2>1, <2>2, <2>3, FewerCalls
<1>4. ASSUME NextMessage(d) PROVE Aim
  <2>1. /\ pc[d] = "next" /\ payload'[d] = payload[d]
        /\ \/ pc'[d] \in Answered
           \/ /\ pc'[d] \in {"next", "resolve"} /\ index'[d] = index[d] + 1
              /\ ~ index[d] + 1 > Len(payload[d])
      BY <1>0, <1>4 DEF NextMessage, Stage, TypeOK, Answered
  <2>2. CASE pc'[d] \in {"next", "resolve"} /\ index'[d] = index[d] + 1
             /\ ~ index[d] + 1 > Len(payload[d])
    <3>1. PICK less \in Nat : less = left - 1 /\ less = Len(payload[d])' - index'[d]
      <4>1. index[d] \in Nat /\ payload[d] \in Seq(Message)
          BY <1>0 DEF TypeOK
      <4>2. Len(payload[d]) \in Nat
          BY <4>1, LenProperties
      <4>3. PICK l \in Nat : l = Len(payload[d])
          BY <4>2
      <4>4. PICK i \in Nat : i = index[d]
          BY <4>1
      <4>5. ~ i + 1 > l /\ left = l - i
          BY <1>1, <2>2, <4>3, <4>4
      <4>6. left - 1 \in Nat /\ left - 1 = l - (i + 1)
          BY <4>5
      <4> QED BY <2>1, <2>2, <4>3, <4>4, <4>6
    <3>2. CallsInHand(d)' \in 0 .. 10
        BY <2>2 DEF CallsInHand
    <3>3. CallsLeft(d)' = 11 * less + CallsInHand(d)' + 1
        BY <2>1, <2>2, <3>1 DEF CallsLeft, Running
    <3>4. PICK a \in Nat : a = CallsInHand(d)
        BY <1>1
    <3>5. PICK b \in Nat : b = CallsInHand(d)' /\ b \in 0 .. 10
        BY <3>2
    <3>6. left = less + 1
        BY <3>1
    <3> QED BY <1>1, <3>3, <3>4, <3>5, <3>6, FewerCalls
  <2> QED BY <1>2, <2>1, <2>2
<1>5. ASSUME Resolve(d) PROVE Aim
  <2>1. /\ pc[d] = "resolve" /\ pc'[d] \in {"url", "contact"} /\ payload'[d] = payload[d]
        /\ index'[d] = index[d] /\ card'[d] = card[d]
      BY <1>0, <1>5 DEF Resolve, TypeOK
  <2>2. card[d] \in 1 .. 2
      BY <2>1, TwoRequestsAtMost DEF InMessage
  <2>3. CallsInHand(d) = 10 /\ CallsInHand(d)' \in 0 .. 9
      BY <2>1, <2>2 DEF CallsInHand
  <2> QED BY <1>3, <2>1, <2>3 DEF Running
<1>6. ASSUME CopyMedia(d) PROVE Aim
  <2>1. /\ payload'[d] = payload[d] /\ index'[d] = index[d] /\ card'[d] = card[d]
        /\ \/ pc[d] = "url" /\ pc'[d] = "download"
           \/ pc[d] = "download" /\ pc'[d] = "upload"
           \/ pc[d] = "upload" /\ pc'[d] = "contact"
      BY <1>0, <1>6 DEF CopyMedia, TypeOK
  <2>2. card[d] \in 1 .. 2
      BY <2>1, TwoRequestsAtMost DEF InMessage
  <2>3. CallsInHand(d)' \in Nat /\ CallsInHand(d)' < CallsInHand(d)
      BY <2>1, <2>2 DEF CallsInHand
  <2> QED BY <1>3, <2>1, <2>3 DEF Running
<1>7. ASSUME CreateContact(d) \/ CreateVia(d) PROVE Aim
  <2>1. /\ payload'[d] = payload[d] /\ index'[d] = index[d] /\ card'[d] = card[d]
        /\ \/ pc[d] = "contact" /\ pc'[d] = "via"
           \/ pc[d] = "via" /\ pc'[d] = "send"
      BY <1>0, <1>7 DEF CreateContact, CreateVia, TypeOK
  <2>2. CallsInHand(d)' \in Nat /\ CallsInHand(d)' < CallsInHand(d)
      BY <1>1, <2>1 DEF CallsInHand
  <2> QED BY <1>3, <2>1, <2>2 DEF Running
<1>8. ASSUME Send(d) PROVE Aim
  <2>1. /\ pc[d] = "send" /\ payload'[d] = payload[d] /\ index'[d] = index[d]
        /\ card'[d] = card[d] + 1
        /\ \/ pc'[d] = "next"
           \/ pc'[d] = "contact" /\ card[d] < Requests[Current(d).kind]
      BY <1>0, <1>8 DEF Send, TypeOK
  <2>2. pc'[d] = "contact" => card[d] = 1
    <3>1. Current(d).kind \in Kinds
        BY <2>1, CurrentMessage DEF InMessage
    <3>2. \A k \in Kinds : Requests[k] \in 0 .. 2
        BY DEF Kinds, Requests
    <3>3. PICK r \in 0 .. 2 : r = Requests[Current(d).kind]
        BY <3>1, <3>2
    <3>4. PICK c \in 1 .. 2 : c = card[d]
        BY <1>1, <2>1
    <3>5. pc'[d] = "contact" => c < r
        BY <2>1, <3>3, <3>4
    <3> QED BY <3>4, <3>5
  <2>3. CallsInHand(d)' \in Nat /\ CallsInHand(d)' < CallsInHand(d)
      BY <1>1, <2>1, <2>2 DEF CallsInHand
  <2> QED BY <1>3, <2>1, <2>3 DEF Running
<1>9. ASSUME ResolveNothing(d) \/ CallFails(d) \/ Interrupt(d) PROVE Aim
  <2>1. pc'[d] = "error"
      BY <1>0, <1>9 DEF ResolveNothing, CallFails, Interrupt, TypeOK
  <2> QED BY <1>2, <2>1 DEF Answered
<1>10. ~ (\E p \in Payloads : Receive(d, p)) /\ ~ Redeliver(d)
    BY DEF Receive, Redeliver, Running
<1> QED BY <1>4, <1>5, <1>6, <1>7, <1>8, <1>9, <1>10 DEF Delivers, Process

\* A step of another delivery, or of the table of gates, leaves as many.
LEMMA CallsOfOthers ==
    ASSUME InboundInv, NEW d \in Deliveries, pc[d] \in Running, Untouched(d)
    PROVE  CallsLeft(d)' \in 0 .. CallsLeft(d)
<1>1. CallsLeft(d)' = CallsLeft(d)
    BY DEF Untouched, CallsLeft, CallsInHand
<1>2. CallsLeft(d) \in Nat
    BY SomeCallsLeft
<1> QED BY <1>1, <1>2

\* The loops over messages and cards end: every call of a posting brings it
\* nearer to its answer, also the one that fails, and nobody else's step takes
\* it back.  With the fairness of FairSpec this is why each posting is answered.
THEOREM CallsEnd == Spec => CallsRunOut
<1> DEFINE Runs(d) == /\ CallsLeft(d)' \in 0 .. CallsLeft(d)
                      /\ Process(d) => CallsLeft(d)' < CallsLeft(d)
<1>1. ASSUME InboundInv, [Next]_vars, NEW d \in Deliveries, pc[d] \in Running
      PROVE  Runs(d)
  <2>1. Process(d) => CallsLeft(d)' < CallsLeft(d)
      BY <1>1, OneCallLess DEF Delivers
  <2>2. Delivers(d) => CallsLeft(d)' \in 0 .. CallsLeft(d)
      BY <1>1, OneCallLess
  <2>3. Untouched(d) => CallsLeft(d)' \in 0 .. CallsLeft(d)
      BY <1>1, CallsOfOthers
  <2>4. ASSUME NEW c \in Deliveries \ {d}, Delivers(c) PROVE Untouched(d)
      BY <1>1, <2>4, OthersUntouched DEF InboundInv
  <2>5. ASSUME UNCHANGED vars \/ \E a \in Accounts, enabled \in BOOLEAN : SaveGate(a, enabled)
        PROVE  Untouched(d)
      BY <2>5 DEF SaveGate, vars, cursor, Untouched
  <2>6. CallsLeft(d)' \in 0 .. CallsLeft(d)
      BY <1>1, <2>2, <2>3, <2>4, <2>5 DEF Next, Delivers
  <2> QED BY <2>1, <2>6
<1>2. InboundInv /\ [Next]_vars => [\A d \in Deliveries : pc[d] \in Running => Runs(d)]_vars
    BY <1>1
<1>3. Spec => [][\A d \in Deliveries : pc[d] \in Running => Runs(d)]_vars
    BY InboundInvariant, <1>2, PTL DEF Spec
<1> QED BY <1>3 DEF CallsRunOut
=============================================================================
