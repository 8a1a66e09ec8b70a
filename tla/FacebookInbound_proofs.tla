------------------------ MODULE FacebookInbound_proofs ------------------------
(***************************************************************************)
(* Invariance proofs for the inbound pipeline of the Facebook provider.    *)
(***************************************************************************)
EXTENDS FacebookInbound, SequenceTheorems, TLAPS

InEvent == {"profile", "known", "contact", "via", "mark", "locale", "send", "media"}

\* A delivery that was received holds a payload Meta can post, and one that
\* handles an event stands at an event of it.
AtAnEvent ==
    \A d \in Deliveries :
        /\ pc[d] # "idle" => payload[d] \in Payloads
        /\ pc[d] \in InEvent => event[d] \in 1 .. Len(payload[d])
        /\ pc[d] \in InEvent \cup {"next"} => gate[d] \in GateIds

Base == TypeOK /\ AtAnEvent

-----------------------------------------------------------------------------
PartKinds == {"text", "media", "share"}

\* What an event asks to forward is a finite sequence of parts.
LEMMA PartsAreParts == \A e \in Event : Parts(e) \in Seq(PartKinds)
<1> SUFFICES ASSUME NEW e \in Event PROVE Parts(e) \in Seq(PartKinds)
    OBVIOUS
<1>1. <<"text">> \in Seq(PartKinds) /\ <<>> \in Seq(PartKinds)
    BY DEF PartKinds
<1>2. CASE e.kind = "message"
    <2>1. e.attachments \in Seq({"media", "share"})
        BY DEF Event, Attachments
    <2>2. e.attachments \in Seq(PartKinds)
        BY <2>1, SeqMonotonic DEF PartKinds
    <2>3. Parts(e) = (IF e.text THEN <<"text">> ELSE <<>>) \o e.attachments
        BY <1>2 DEF Parts
    <2>4. (IF e.text THEN <<"text">> ELSE <<>>) \in Seq(PartKinds)
        BY <1>1
    <2> QED BY <2>2, <2>3, <2>4, ConcatProperties
<1>3. CASE e.kind = "postback"
    BY <1>1, <1>3 DEF Parts
<1>4. CASE e.kind \notin {"message", "postback"}
    BY <1>1, <1>4 DEF Parts
<1> QED BY <1>2, <1>3, <1>4

LEMMA PartsHaveLengths == \A e \in Event : Len(Parts(e)) \in Nat
BY PartsAreParts, LenProperties

LEMMA PartsOfKinds ==
    ASSUME NEW e \in Event, NEW j \in 1 .. Len(Parts(e))
    PROVE  Parts(e)[j] \in {"text", "media", "share"}
BY PartsAreParts, ElementOfSeq DEF PartKinds

\* What the tries of a call add to a sequence.
LEMMA AddCopies ==
    ASSUME NEW S, NEW s \in Seq(S), NEW x \in S, NEW n \in Nat, NEW t,
           t = s \o [k \in 1 .. n |-> x]
    PROVE  /\ t \in Seq(S)
           /\ Len(s) \in Nat /\ Len(t) = Len(s) + n
           /\ \A k \in 1 .. Len(s) : k \in 1 .. Len(t) /\ t[k] = s[k]
           /\ \A k \in 1 .. Len(t) : k \notin 1 .. Len(s) => t[k] = x
<1>1. PICK c : c = [k \in 1 .. n |-> x]
    OBVIOUS
<1>2. c \in Seq(S) /\ Len(c) = n /\ \A k \in 1 .. n : c[k] = x
    BY <1>1
<1>3. /\ t \in Seq(S) /\ Len(t) = Len(s) + Len(c)
      /\ \A k \in 1 .. Len(s) + Len(c) : t[k] = IF k <= Len(s) THEN s[k] ELSE c[k - Len(s)]
    BY <1>1, <1>2, ConcatProperties
<1>4. PICK m \in Nat : m = Len(s)
  <2>1. Len(s) \in Nat
      BY LenProperties
  <2> QED BY <2>1
<1>5. Len(t) = m + n
    BY <1>2, <1>3, <1>4
<1>6. ASSUME NEW k \in 1 .. m PROVE k \in 1 .. m + n /\ t[k] = s[k]
    BY <1>2, <1>3, <1>4, <1>6
<1>7. ASSUME NEW k \in 1 .. m + n, k \notin 1 .. m PROVE t[k] = x
  <2>1. k - m \in 1 .. n /\ ~ (k <= m)
      BY <1>7
  <2>2. t[k] = c[k - m]
      BY <1>2, <1>3, <1>4, <1>7, <2>1
  <2> QED BY <1>2, <2>1, <2>2
<1> QED BY <1>3, <1>4, <1>5, <1>6, <1>7

LEMMA TriesAreNats == 0 .. MaxTries \subseteq Nat /\ 1 .. MaxTries \subseteq 0 .. MaxTries
BY MaxTriesPositive

\* Posted payloads have a first event, and their events are events.
LEMMA PayloadEvents ==
    ASSUME NEW p \in Payloads
    PROVE  /\ p \in Seq(Event)
           /\ Len(p) \in Nat \ {0}
           /\ \A i \in 1 .. Len(p) : p[i] \in Event
<1>1. p \in Seq(Event) /\ p # <<>>
    BY PayloadsAreEvents
<1> QED BY <1>1

\* The event a delivery stands at.
LEMMA CurrentEvent ==
    ASSUME Base, NEW d \in Deliveries, pc[d] \in InEvent
    PROVE  /\ Current(d) \in Event
           /\ Sender(d) \in Users
           /\ Len(Content(d)) \in Nat
           /\ Positions(d) \subseteq Nat \X Nat
           /\ Here(d) \in Nat \X Nat \X Nat
<1>1. payload[d] \in Payloads /\ event[d] \in 1 .. Len(payload[d])
    BY DEF Base, AtAnEvent, InEvent
<1>2. Current(d) \in Event
    BY <1>1, PayloadEvents DEF Current
<1>3. Sender(d) \in Users
    BY <1>2 DEF Sender, Event
<1>4. Len(Content(d)) \in Nat
    BY <1>2, PartsHaveLengths DEF Content
<1>5. Positions(d) \subseteq Nat \X Nat
    BY <1>4 DEF Positions, Base, TypeOK
<1>6. Here(d) \in Nat \X Nat \X Nat
    BY DEF Here, Base, TypeOK
<1> QED BY <1>2, <1>3, <1>4, <1>5, <1>6

-----------------------------------------------------------------------------
\* Types and cursors are inductive.
LEMMA InitBase == Init => Base
<1> SUFFICES ASSUME Init PROVE Base
    OBVIOUS
<1>1. (CHOOSE n \in Names : TRUE) \in Names
    BY SomeName
<1>2. TypeOK
    BY <1>1, MaxAttemptsPositive DEF Init, TypeOK
<1>3. AtAnEvent
    BY DEF Init, AtAnEvent, InEvent
<1> QED BY <1>2, <1>3 DEF Base

LEMMA StepBase == Base /\ [Next]_vars => Base'
<1> SUFFICES ASSUME Base, [Next]_vars PROVE Base'
    OBVIOUS
<1> USE DEF vars, gateTable, gateway, redis, request, cursor, record, Running,
            Answered, InEvent, Goto
<1> DEFINE Aim == TypeOK' /\ AtAnEvent'
<1>1. ASSUME NEW d \in Deliveries, NEW p \in Payloads, Receive(d, p) PROVE Aim
    BY <1>1, PayloadEvents, MaxAttemptsPositive DEF Receive, Base, TypeOK, AtAnEvent
<1>2. ASSUME NEW d \in Deliveries, Redeliver(d) PROVE Aim
    BY <1>2, MaxAttemptsPositive DEF Redeliver, Base, TypeOK, AtAnEvent
<1>3. ASSUME NEW d \in Deliveries, Interrupt(d) PROVE Aim
    BY <1>3 DEF Interrupt, Base, TypeOK, AtAnEvent
<1>4. ASSUME NEW d \in Deliveries, Resolve(d) PROVE Aim
    <2>1. payload[d] \in Payloads
        BY <1>4 DEF Resolve, Base, AtAnEvent
    <2>2. FirstPage(d) \in Pages
        BY <2>1, PayloadEvents DEF Event, FirstPage
    <2> QED BY <1>4, <2>2 DEF Resolve, Base, TypeOK, AtAnEvent
<1>31. ASSUME NEW d \in Deliveries, ResolveDisabled(d) PROVE Aim
    <2>1. payload[d] \in Payloads
        BY <1>31 DEF ResolveDisabled, Base, AtAnEvent
    <2>2. FirstPage(d) \in Pages
        BY <2>1, PayloadEvents DEF Event, FirstPage
    <2> QED BY <1>31, <2>2 DEF ResolveDisabled, Base, TypeOK, AtAnEvent
<1>5. ASSUME NEW d \in Deliveries, ResolveFails(d) PROVE Aim
    BY <1>5 DEF ResolveFails, Base, TypeOK, AtAnEvent
<1>6. ASSUME NEW d \in Deliveries, NextEvent(d) PROVE Aim
    <2>1. payload[d] \in Payloads
        BY <1>6 DEF NextEvent, Base, AtAnEvent
    <2>2. Len(payload[d]) \in Nat \ {0}
        BY <2>1, PayloadEvents
    <2>3. CASE event[d] + 1 > Len(payload[d])
        BY <1>6, <2>3 DEF NextEvent, Base, TypeOK, AtAnEvent
    <2>4. CASE ~ (event[d] + 1 > Len(payload[d]))
        <3>1. /\ event' = [event EXCEPT ![d] = event[d] + 1]
              /\ event' \in [Deliveries -> Nat]
            BY <1>6, <2>4 DEF NextEvent, Base, TypeOK
        <3>2. pc' = [pc EXCEPT ![d] = "next"] \/ pc' = [pc EXCEPT ![d] = "profile"]
            BY <1>6, <2>4 DEF NextEvent
        <3>3. /\ pc' \in [Deliveries -> {"idle"} \cup Running \cup Answered]
              /\ pc'[d] \in {"next", "profile"}
              /\ \A e \in Deliveries : e # d => pc'[e] = pc[e] /\ event'[e] = event[e]
            BY <3>1, <3>2 DEF Base, TypeOK
        <3>4. /\ round' \in [Deliveries -> {1, 2}]
              /\ UNCHANGED <<gateTable, gateway, redis, nameOf, request, profile, part,
                             record, interrupted>>
            BY <1>6 DEF NextEvent, Base, TypeOK
        <3>5. TypeOK'
            BY <3>1, <3>3, <3>4 DEF Base, TypeOK
        <3>6. event'[d] \in 1 .. Len(payload[d])
            BY <2>2, <2>4, <3>1 DEF Base, TypeOK
        <3>7. pc[d] = "next" /\ gate[d] \in GateIds
            BY <1>6 DEF NextEvent, Base, AtAnEvent
        <3>8. AtAnEvent'
            BY <2>1, <3>3, <3>4, <3>6, <3>7 DEF Base, AtAnEvent
        <3> QED BY <3>5, <3>8
    <2> QED BY <2>3, <2>4
<1>7. ASSUME NEW d \in Deliveries, GetUserProfile(d) PROVE Aim
    BY <1>7, CurrentEvent DEF GetUserProfile, Base, TypeOK, AtAnEvent
<1>8. ASSUME NEW d \in Deliveries, DropEvent(d) PROVE Aim
    BY <1>8, CurrentEvent DEF DropEvent, Base, TypeOK, AtAnEvent
<1>9. ASSUME NEW d \in Deliveries, pc[d] \in InEvent, Synced(d) PROVE
         /\ round' \in [Deliveries -> {1, 2}]
         /\ part' \in [Deliveries -> Nat \ {0}]
         /\ pc' = [pc EXCEPT ![d] = "profile"] \/ pc' = [pc EXCEPT ![d] = "send"]
    <2>1. round[d] \in {1, 2} /\ Rounds(d) \in {1, 2}
        BY DEF Rounds, Base, TypeOK
    <2>4. round \in [Deliveries -> {1, 2}] /\ part \in [Deliveries -> Nat \ {0}]
        BY DEF Base, TypeOK
    <2>2. CASE round[d] < Rounds(d)
        <3>1. round[d] + 1 = 2
            BY <2>1, <2>2
        <3>2. round' = [round EXCEPT ![d] = 2]
            BY <1>9, <2>2, <3>1 DEF Synced
        <3> QED BY <1>9, <2>2, <2>4, <3>2 DEF Synced
    <2>3. CASE ~ (round[d] < Rounds(d))
        BY <1>9, <2>3, <2>4 DEF Synced
    <2> QED BY <2>2, <2>3
<1>10. ASSUME NEW d \in Deliveries, IsKnown(d) PROVE Aim
    BY <1>10, <1>9 DEF IsKnown, Base, TypeOK, AtAnEvent
<1>11. ASSUME NEW d \in Deliveries, IsUnknown(d) PROVE Aim
    BY <1>11 DEF IsUnknown, Base, TypeOK, AtAnEvent
<1>12. ASSUME NEW d \in Deliveries, EnsureContact(d) PROVE Aim
    BY <1>12, CurrentEvent DEF EnsureContact, Base, TypeOK, AtAnEvent
<1>13. ASSUME NEW d \in Deliveries, EnsureVia(d) PROVE Aim
    <2>1. pc[d] = "via"
        BY <1>13 DEF EnsureVia
    <2>2. <<Sender(d), gate[d]>> \in Users \X GateIds
        BY <2>1, CurrentEvent DEF Base, AtAnEvent
    <2> QED BY <1>13, <2>2 DEF EnsureVia, Base, TypeOK, AtAnEvent
<1>22. ASSUME NEW d \in Deliveries, EnsureViaFails(d) PROVE Aim
    <2>1. pc[d] = "via"
        BY <1>22 DEF EnsureViaFails
    <2>2. <<Sender(d), gate[d]>> \in Users \X GateIds
        BY <2>1, CurrentEvent DEF Base, AtAnEvent
    <2>3. vias' \in SUBSET (Users \X GateIds) /\ unlinked' \in SUBSET (Users \X GateIds)
        BY <1>22, <2>2 DEF EnsureViaFails, Base, TypeOK
    <2>4. /\ pc' = [pc EXCEPT ![d] = "mark"]
          /\ UNCHANGED <<gateTable, contacts, redis, nameOf, request, cursor, record,
                         interrupted>>
        BY <1>22 DEF EnsureViaFails
    <2> QED BY <2>1, <2>3, <2>4 DEF Base, TypeOK, AtAnEvent
<1>14. ASSUME NEW d \in Deliveries, MarkKnown(d) PROVE Aim
    <2>1. pc[d] = "mark"
        BY <1>14 DEF MarkKnown
    <2>2. User(d) \in Users \X Names
        BY <2>1, CurrentEvent DEF User, Base, TypeOK
    <2>3. known' \in SUBSET (Users \X Names)
        BY <1>14, <2>2 DEF MarkKnown, Base, TypeOK
    <2>4. /\ round' \in [Deliveries -> {1, 2}]
          /\ part' \in [Deliveries -> Nat \ {0}]
          /\ \/ pc' = [pc EXCEPT ![d] = "profile"]
             \/ pc' = [pc EXCEPT ![d] = "send"]
             \/ pc' = [pc EXCEPT ![d] = "locale"]
        <3>1. CASE Sender(d) \in Localized
            BY <1>14, <3>1 DEF MarkKnown, Base, TypeOK
        <3>2. CASE Sender(d) \notin Localized
            BY <1>14, <3>2, <2>1, <1>9 DEF MarkKnown
        <3> QED BY <3>1, <3>2
    <2>5. UNCHANGED <<gateTable, gateway, locales, nameOf, request, event, profile,
                      record, interrupted>>
        BY <1>14 DEF MarkKnown
    <2> QED BY <2>1, <2>3, <2>4, <2>5 DEF Base, TypeOK, AtAnEvent
<1>15. ASSUME NEW d \in Deliveries, SetLocale(d) PROVE Aim
    <2>1. pc[d] = "locale"
        BY <1>15 DEF SetLocale
    <2>2. Sender(d) \in Users /\ gate[d] \in GateIds
        BY <2>1, CurrentEvent DEF Base, AtAnEvent
    <2>3. locales' \in SUBSET (GateIds \X Users)
        BY <1>15, <2>2 DEF SetLocale, Base, TypeOK
    <2>4. /\ round' \in [Deliveries -> {1, 2}]
          /\ part' \in [Deliveries -> Nat \ {0}]
          /\ pc' = [pc EXCEPT ![d] = "profile"] \/ pc' = [pc EXCEPT ![d] = "send"]
        BY <1>15, <2>1, <1>9 DEF SetLocale
    <2>5. UNCHANGED <<gateTable, gateway, known, nameOf, request, event, profile,
                      record, interrupted>>
        BY <1>15 DEF SetLocale
    <2> QED BY <2>1, <2>3, <2>4, <2>5 DEF Base, TypeOK, AtAnEvent
<1>16. ASSUME NEW d \in Deliveries, ReadyToSend(d), NextPart(d),
              NEW n \in Nat, Delivered(d, n),
              lost' = lost \/ lost' = [lost EXCEPT ![d] = lost[d] \cup {<<event[d], part[d]>>}],
              UNCHANGED <<gateTable, gateway, redis, nameOf, request, event, round,
                          profile, interrupted>>
       PROVE  Aim
    <2>1. pc[d] \in {"send", "media"}
        BY <1>16 DEF ReadyToSend
    <2>2. Here(d) \in Nat \X Nat \X Nat
        BY <2>1, CurrentEvent
    <2>3. <<event[d], part[d]>> \in Nat \X Nat
        BY DEF Base, TypeOK
    <2>4. /\ sent \in [Deliveries -> Seq(Nat \X Nat \X Nat)]
          /\ lost \in [Deliveries -> SUBSET (Nat \X Nat)]
        BY DEF Base, TypeOK
    <2>5. PICK t : t = sent[d] \o [k \in 1 .. n |-> Here(d)]
        OBVIOUS
    <2>10. t \in Seq(Nat \X Nat \X Nat)
        BY <2>2, <2>4, <2>5, AddCopies
    <2>6. sent' \in [Deliveries -> Seq(Nat \X Nat \X Nat)]
        BY <1>16, <2>4, <2>5, <2>10 DEF Delivered
    <2>7. lost' \in [Deliveries -> SUBSET (Nat \X Nat)]
        <3>1. lost[d] \cup {<<event[d], part[d]>>} \in SUBSET (Nat \X Nat)
            BY <2>3, <2>4
        <3> QED BY <1>16, <2>4, <3>1
    <2>8. /\ part' \in [Deliveries -> Nat \ {0}]
          /\ pc' = [pc EXCEPT ![d] = "send"]
        BY <1>16 DEF NextPart, Base, TypeOK
    <2>9. TypeOK'
        BY <1>16, <2>6, <2>7, <2>8 DEF Base, TypeOK
    <2> QED BY <1>16, <2>1, <2>8, <2>9 DEF Base, TypeOK, AtAnEvent
<1>17. ASSUME NEW d \in Deliveries, Send(d) PROVE Aim
    BY <1>16, <1>17, TriesAreNats DEF Send
<1>23. ASSUME NEW d \in Deliveries, SendFails(d) PROVE Aim
    BY <1>16, <1>23, TriesAreNats DEF SendFails
<1>24. ASSUME NEW d \in Deliveries, Upload(d) PROVE Aim
    <2>1. pc[d] = "send"
        BY <1>24 DEF Upload, AtAttachment
    <2>2. /\ part' \in [Deliveries -> Nat \ {0}]
          /\ pc' = [pc EXCEPT ![d] = "send"] \/ pc' = [pc EXCEPT ![d] = "media"]
        <3>1. part[d] + 1 \in Nat \ {0} /\ part \in [Deliveries -> Nat \ {0}]
            BY DEF Base, TypeOK
        <3>2. CASE Content(d)[part[d]] = "media"
            BY <1>24, <3>1, <3>2 DEF Upload
        <3>3. CASE Content(d)[part[d]] # "media"
            BY <1>24, <3>1, <3>3 DEF Upload, NextPart
        <3> QED BY <3>2, <3>3
    <2>3. UNCHANGED <<gateTable, gateway, redis, nameOf, request, event, round,
                      profile, record, interrupted>>
        BY <1>24 DEF Upload
    <2> QED BY <2>1, <2>2, <2>3 DEF Base, TypeOK, AtAnEvent
<1>25. ASSUME NEW d \in Deliveries, UploadFails(d) PROVE Aim
    <2>1. pc[d] = "send"
        BY <1>25 DEF UploadFails, AtAttachment
    <2>2. <<event[d], part[d]>> \in Nat \X Nat
        BY DEF Base, TypeOK
    <2>3. lost' \in [Deliveries -> SUBSET (Nat \X Nat)]
        BY <1>25, <2>2 DEF UploadFails, Base, TypeOK
    <2>4. /\ part' \in [Deliveries -> Nat \ {0}]
          /\ pc' = [pc EXCEPT ![d] = "send"]
        BY <1>25 DEF UploadFails, NextPart, Base, TypeOK
    <2>5. UNCHANGED <<gateTable, gateway, redis, nameOf, request, event, round,
                      profile, sent, interrupted>>
        BY <1>25 DEF UploadFails
    <2> QED BY <2>1, <2>3, <2>4, <2>5 DEF Base, TypeOK, AtAnEvent
<1>18. ASSUME NEW d \in Deliveries, EndEvent(d) PROVE Aim
    BY <1>18 DEF EndEvent, Base, TypeOK, AtAnEvent
<1>19. ASSUME NEW p \in Pages, DeleteGate(p) PROVE Aim
    BY <1>19 DEF DeleteGate, Base, TypeOK, AtAnEvent
<1>32. ASSUME NEW p \in Pages, SwitchGate(p) PROVE Aim
    BY <1>32 DEF SwitchGate, Base, TypeOK, AtAnEvent
<1>26. ASSUME NEW p \in Pages, NEW g \in GateIds, CreateGate(p, g) PROVE Aim
    BY <1>26 DEF CreateGate, Base, TypeOK, AtAnEvent
<1>20. ASSUME NEW k \in known, Expire(k) PROVE Aim
    BY <1>20 DEF Expire, Base, TypeOK, AtAnEvent
<1>21. ASSUME NEW u \in Users, NEW n \in Names, Rename(u, n) PROVE Aim
    BY <1>21 DEF Rename, Base, TypeOK, AtAnEvent
<1>27. ASSUME UNCHANGED vars PROVE Aim
    BY <1>27 DEF Base, TypeOK, AtAnEvent
<1>28. ASSUME NEW d \in Deliveries, Process(d) PROVE Aim
    BY <1>28, <1>4, <1>31, <1>5, <1>6, <1>7, <1>8, <1>10, <1>11, <1>12, <1>13, <1>22, <1>14, <1>15,
       <1>17, <1>23, <1>24, <1>25, <1>18, Zenon DEF Process
<1>29. ASSUME Environment PROVE Aim
    BY <1>29, <1>1, <1>2, <1>3, <1>19, <1>32, <1>26, <1>20, <1>21 DEF Environment
<1>30. Aim
    BY <1>27, <1>28, <1>29 DEF Next
<1> QED BY <1>30 DEF Base

\* The variables keep their types.
THEOREM TypeCorrect == Spec => []TypeOK
<1>1. Base => TypeOK
    BY DEF Base
<1> QED BY InitBase, StepBase, <1>1, PTL DEF Spec

-----------------------------------------------------------------------------
(* ContactBeforeMessage.                                                    *)

\* Stages a delivery reaches only with its sender's contact made or found.
SyncedStages == {"via", "mark", "locale", "send", "media"}

\* Whoever is marked known is a contact, whoever's event is past the gateway
\* is one, and so is whoever's message was forwarded.
Contacts ==
    /\ \A k \in known : k[1] \in contacts
    /\ \A d \in Deliveries : pc[d] \in SyncedStages => Sender(d) \in contacts
    /\ \A d \in Deliveries : \A k \in 1 .. Len(sent[d]) :
           payload[d][sent[d][k][2]].user \in contacts
    /\ \A d \in Deliveries : pc[d] = "idle" => sent[d] = <<>>

\* A step of a delivery keeps Contacts when it only adds contacts, marks only
\* contacts, passes the gateway only with a contact, and forwards only then.
LEMMA ContactsOfStep ==
    ASSUME Base, Contacts, NEW d \in Deliveries,
           pc[d] # "idle",
           payload' = payload,
           contacts \subseteq contacts',
           \A k \in known' : k[1] \in contacts',
           \A e \in Deliveries : e # d => pc'[e] = pc[e] /\ event'[e] = event[e],
           pc'[d] # "idle",
           pc'[d] \in SyncedStages => payload[d][event'[d]].user \in contacts',
           \/ sent' = sent
           \/ /\ \E n \in Nat : Delivered(d, n)
              /\ Sender(d) \in contacts
    PROVE  Contacts'
<1>1. \A e \in Deliveries : pc'[e] \in SyncedStages => payload'[e][event'[e]].user \in contacts'
    BY DEF Contacts, Sender, Current
<1>2. sent \in [Deliveries -> Seq(Nat \X Nat \X Nat)] /\ Here(d) \in Nat \X Nat \X Nat
    BY DEF Base, TypeOK, Here
<1>3. Here(d)[2] = event[d]
    BY DEF Here
<1>4. ASSUME NEW e \in Deliveries, NEW k \in 1 .. Len(sent'[e])
      PROVE  payload'[e][sent'[e][k][2]].user \in contacts'
    <2>1. CASE sent'[e] = sent[e]
        BY <1>4, <2>1 DEF Contacts
    <2>2. CASE sent'[e] # sent[e]
        <3>1. PICK n \in Nat : e = d /\ sent'[d] = sent[d] \o [i \in 1 .. n |-> Here(d)]
                               /\ Sender(d) \in contacts
            BY <1>2, <2>2 DEF Delivered
        <3>4. /\ \A i \in 1 .. Len(sent[d]) : sent'[d][i] = sent[d][i]
              /\ \A i \in 1 .. Len(sent'[d]) : i \notin 1 .. Len(sent[d]) => sent'[d][i] = Here(d)
            BY <1>2, <3>1, AddCopies
        <3>2. CASE k \in 1 .. Len(sent[d])
            <4>1. sent'[e][k] = sent[d][k]
                BY <3>1, <3>2, <3>4
            <4> QED BY <3>1, <3>2, <4>1 DEF Contacts
        <3>3. CASE k \notin 1 .. Len(sent[d])
            <4>1. sent'[e][k] = Here(d)
                BY <1>4, <3>1, <3>3, <3>4
            <4>2. payload[d][sent'[e][k][2]].user = Sender(d)
                BY <1>3, <4>1 DEF Sender, Current
            <4> QED BY <3>1, <4>2
        <3> QED BY <3>2, <3>3
    <2> QED BY <2>1, <2>2
<1>5. \A e \in Deliveries : pc'[e] = "idle" => sent'[e] = <<>>
    BY <1>2 DEF Contacts, Delivered
<1> QED BY <1>1, <1>4, <1>5 DEF Contacts, Sender, Current

LEMMA StepContacts == Base /\ Contacts /\ [Next]_vars => Contacts'
<1> SUFFICES ASSUME Base, Contacts, [Next]_vars PROVE Contacts'
    OBVIOUS
<1> USE DEF vars, gateTable, gateway, redis, request, cursor, record, Running, Answered, Goto
<1>0. /\ pc \in [Deliveries -> {"idle"} \cup Running \cup Answered]
      /\ event \in [Deliveries -> Nat] /\ payload \in [Deliveries -> Seq(Event)]
    BY DEF Base, TypeOK
<1>k. \A k \in known : k[1] \in contacts
    BY DEF Contacts
<1>1. ASSUME NEW d \in Deliveries, NEW p \in Payloads, Receive(d, p) PROVE Contacts'
    <2>1. sent[d] = <<>> /\ Len(sent[d]) = 0
        BY <1>1 DEF Receive, Contacts
    <2>2. /\ UNCHANGED <<contacts, known, sent, event>>
          /\ \A e \in Deliveries : e # d => pc'[e] = pc[e] /\ payload'[e] = payload[e]
          /\ pc'[d] = "resolve"
        BY <1>0, <1>1 DEF Receive
    <2> QED BY <2>1, <2>2 DEF Contacts, SyncedStages, Sender, Current
<1>2. ASSUME NEW d \in Deliveries, Redeliver(d) PROVE Contacts'
    BY <1>0, <1>k, <1>2, ContactsOfStep DEF Redeliver, SyncedStages
<1>3. ASSUME NEW d \in Deliveries, Interrupt(d) PROVE Contacts'
    BY <1>0, <1>k, <1>3, ContactsOfStep DEF Interrupt, SyncedStages
<1>4. ASSUME NEW d \in Deliveries, Resolve(d) \/ ResolveDisabled(d) \/ ResolveFails(d)
      PROVE  Contacts'
    BY <1>0, <1>k, <1>4, ContactsOfStep DEF Resolve, ResolveDisabled, ResolveFails, SyncedStages
<1>5. ASSUME NEW d \in Deliveries, NextEvent(d) PROVE Contacts'
    <2>1. pc'[d] \notin SyncedStages \cup {"idle"}
        BY <1>0, <1>5 DEF NextEvent, SyncedStages
    <2>2. \A e \in Deliveries : e # d => pc'[e] = pc[e] /\ event'[e] = event[e]
        BY <1>0, <1>5 DEF NextEvent
    <2>3. pc[d] = "next" /\ UNCHANGED <<payload, contacts, known, sent>>
        BY <1>5 DEF NextEvent
    <2> QED BY <1>k, <2>1, <2>2, <2>3, ContactsOfStep
<1>6. ASSUME NEW d \in Deliveries, GetUserProfile(d) \/ IsUnknown(d) \/ EndEvent(d) PROVE Contacts'
    BY <1>0, <1>k, <1>6, ContactsOfStep DEF GetUserProfile, IsUnknown, EndEvent, SyncedStages
<1>7. ASSUME NEW d \in Deliveries, DropEvent(d) PROVE Contacts'
    <2>1. contacts \subseteq contacts'
        BY <1>7 DEF DropEvent
    <2> QED BY <1>0, <1>k, <1>7, <2>1, ContactsOfStep DEF DropEvent, SyncedStages
<1>8. ASSUME NEW d \in Deliveries, pc[d] # "idle", Synced(d), Sender(d) \in contacts,
             \A k \in known' : k[1] \in contacts,
             UNCHANGED <<payload, event, contacts, sent>>
      PROVE  Contacts'
    <2>1. \A e \in Deliveries : e # d => pc'[e] = pc[e] /\ event'[e] = event[e]
        BY <1>0, <1>8 DEF Synced
    <2>2. pc'[d] # "idle"
        BY <1>0, <1>8 DEF Synced
    <2>3. payload[d][event'[d]].user \in contacts'
        BY <1>8 DEF Sender, Current
    <2> QED BY <1>8, <2>1, <2>2, <2>3, ContactsOfStep
<1>9. ASSUME NEW d \in Deliveries, IsKnown(d) PROVE Contacts'
    <2>1. Sender(d) \in contacts
        BY <1>9 DEF IsKnown, User, Contacts
    <2> QED BY <1>k, <1>8, <1>9, <2>1 DEF IsKnown
<1>10. ASSUME NEW d \in Deliveries, EnsureContact(d) PROVE Contacts'
    <2>1. payload[d][event'[d]].user \in contacts' /\ contacts \subseteq contacts'
        BY <1>10 DEF EnsureContact, Sender, Current
    <2> QED BY <1>0, <1>k, <1>10, <2>1, ContactsOfStep DEF EnsureContact
<1>11. ASSUME NEW d \in Deliveries, EnsureVia(d) \/ EnsureViaFails(d) PROVE Contacts'
    <2>1. pc[d] = "via" /\ event' = event
        BY <1>11 DEF EnsureVia, EnsureViaFails
    <2>2. payload[d][event'[d]].user \in contacts
        BY <2>1 DEF Contacts, SyncedStages, Sender, Current
    <2> QED BY <1>0, <1>k, <1>11, <2>2, ContactsOfStep DEF EnsureVia, EnsureViaFails
<1>12. ASSUME NEW d \in Deliveries, MarkKnown(d) PROVE Contacts'
    <2>1. pc[d] = "mark" /\ UNCHANGED <<payload, event, contacts, sent>>
        BY <1>12 DEF MarkKnown
    <2>2. Sender(d) \in contacts
        BY <2>1 DEF Contacts, SyncedStages
    <2>3. \A k \in known' : k[1] \in contacts
        BY <1>12, <1>k, <2>2 DEF MarkKnown, User
    <2>4. CASE Sender(d) \in Localized
        <3>1. payload[d][event'[d]].user \in contacts
            BY <2>1, <2>2 DEF Sender, Current
        <3>2. pc' = [pc EXCEPT ![d] = "locale"]
            BY <1>12, <2>4 DEF MarkKnown
        <3> QED BY <1>0, <2>1, <2>3, <3>1, <3>2, ContactsOfStep
    <2>5. CASE Sender(d) \notin Localized
        BY <1>8, <1>12, <2>1, <2>2, <2>3, <2>5 DEF MarkKnown
    <2> QED BY <2>4, <2>5
<1>13. ASSUME NEW d \in Deliveries, SetLocale(d) PROVE Contacts'
    <2>1. Sender(d) \in contacts
        BY <1>13 DEF SetLocale, Contacts, SyncedStages
    <2> QED BY <1>k, <1>8, <1>13, <2>1 DEF SetLocale
<1>14. ASSUME NEW d \in Deliveries, pc[d] \in {"send", "media"},
              pc' = [pc EXCEPT ![d] = "send"] \/ pc' = [pc EXCEPT ![d] = "media"],
              sent' = sent \/ \E n \in Nat : Delivered(d, n),
              UNCHANGED <<payload, event, contacts, known>>
       PROVE  Contacts'
    <2>1. Sender(d) \in contacts
        BY <1>14 DEF Contacts, SyncedStages
    <2>2. payload[d][event'[d]].user \in contacts
        BY <1>14, <2>1 DEF Sender, Current
    <2> QED BY <1>0, <1>k, <1>14, <2>1, <2>2, ContactsOfStep
<1>15. ASSUME NEW d \in Deliveries, Send(d) PROVE Contacts'
    BY <1>14, <1>15, TriesAreNats DEF Send, ReadyToSend, NextPart
<1>16. ASSUME NEW d \in Deliveries, SendFails(d) PROVE Contacts'
    BY <1>14, <1>16, TriesAreNats DEF SendFails, ReadyToSend, NextPart
<1>17. ASSUME NEW d \in Deliveries, Upload(d) PROVE Contacts'
    BY <1>14, <1>17 DEF Upload, AtAttachment, NextPart
<1>18. ASSUME NEW d \in Deliveries, UploadFails(d) PROVE Contacts'
    BY <1>14, <1>18 DEF UploadFails, AtAttachment, NextPart
<1>19. ASSUME UNCHANGED <<contacts, pc, payload, event, sent>>, known' \subseteq known PROVE Contacts'
    BY <1>19 DEF Contacts, Sender, Current
<1>20. ASSUME Environment PROVE Contacts'
    BY <1>1, <1>2, <1>3, <1>19, <1>20 DEF Environment, CreateGate, SwitchGate, DeleteGate, Expire, Rename
<1>21. ASSUME NEW d \in Deliveries, Process(d) PROVE Contacts'
    BY <1>21, <1>4, <1>5, <1>6, <1>7, <1>9, <1>10, <1>11, <1>12, <1>13, <1>15, <1>16, <1>17,
       <1>18 DEF Process
<1>22. CASE UNCHANGED vars
    BY <1>19, <1>22
<1> QED BY <1>20, <1>21, <1>22 DEF Next

\* The messenger never gets a message of someone who is not a contact: even
\* when the gateway is skipped because of what another delivery cached.
THEOREM ForwardedSendersAreContacts == Spec => []ContactBeforeMessage
<1>1. Init => Contacts
    BY DEF Init, Contacts, SyncedStages
<1>2. Contacts => ContactBeforeMessage
    BY DEF Contacts, ContactBeforeMessage
<1> QED BY InitBase, StepBase, StepContacts, <1>1, <1>2, PTL DEF Spec

-----------------------------------------------------------------------------
(* InPayloadOrder and ForwardedByOneCall.                                   *)

\* What a delivery has forwarded lies behind the place it stands at.
Behind(d, x) ==
    \/ x[1] < attempt[d]
    \/ x[1] = attempt[d] /\ x[2] < event[d]
    \/ /\ x[1] = attempt[d] /\ x[2] = event[d] /\ x[3] < part[d]
       /\ pc[d] \in {"send", "media", "next", "ok", "error"}

\* A part stands in what the messenger got as often as one call was tried.
TriesOfOneCall ==
    \A d \in Deliveries : \A k, l \in 1 .. Len(sent[d]) :
        (k < l /\ sent[d][k] = sent[d][l]) => l - k < MaxTries

\* Unless it was cut short, it forwarded all of it in its last attempt, and
\* nothing before an answer that makes Meta post the payload again.
Progress ==
    /\ InPayloadOrder
    /\ TriesOfOneCall
    /\ \A d \in Deliveries : \A k \in 1 .. Len(sent[d]) : Behind(d, sent[d][k])
    /\ \A d \in Deliveries \ interrupted :
           /\ \A k \in 1 .. Len(sent[d]) : sent[d][k][1] = attempt[d]
           /\ pc[d] \in {"idle", "resolve", "error"} => sent[d] = <<>>
    /\ \A d \in Deliveries : pc[d] = "idle" => sent[d] = <<>>

\* A step of a delivery that forwards nothing keeps Progress when it does not
\* go back.
LEMMA ProgressOfQuietStep ==
    ASSUME Base, Base', Progress, NEW d \in Deliveries,
           UNCHANGED <<attempt, sent>>,
           interrupted \subseteq interrupted',
           \A e \in Deliveries : e # d =>
               /\ pc'[e] = pc[e] /\ event'[e] = event[e] /\ part'[e] = part[e],
           pc'[d] # "idle",
           pc'[d] \in {"resolve", "error"} => d \in interrupted' \/ pc[d] = "resolve",
           \/ event'[d] > event[d]
           \/ /\ event'[d] = event[d]
              /\ pc[d] \in {"send", "media", "next", "ok", "error"} =>
                     /\ pc'[d] \in {"send", "media", "next", "ok", "error"}
                     /\ part'[d] >= part[d]
    PROVE  Progress'
<1>1. /\ event \in [Deliveries -> Nat] /\ part \in [Deliveries -> Nat \ {0}]
      /\ attempt \in [Deliveries -> 0 .. MaxAttempts]
      /\ sent \in [Deliveries -> Seq(Nat \X Nat \X Nat)]
    BY DEF Base, TypeOK
<1>2. InPayloadOrder' /\ TriesOfOneCall'
    BY DEF Progress, InPayloadOrder, TriesOfOneCall, Before
<1>3. ASSUME NEW e \in Deliveries, NEW k \in 1 .. Len(sent[e])
      PROVE  \/ sent[e][k][1] < attempt'[e]
             \/ sent[e][k][1] = attempt'[e] /\ sent[e][k][2] < event'[e]
             \/ /\ sent[e][k][1] = attempt'[e]
                /\ sent[e][k][2] = event'[e] /\ sent[e][k][3] < part'[e]
                /\ pc'[e] \in {"send", "media", "next", "ok", "error"}
    <2> DEFINE x == sent[e][k]
    <2>1. x[1] \in Nat /\ x[2] \in Nat /\ x[3] \in Nat
        <3>1. sent[e] \in Seq(Nat \X Nat \X Nat)
            BY <1>1
        <3>2. x \in Nat \X Nat \X Nat
            BY <3>1
        <3> QED BY <3>2
    <2>2. \/ x[1] < attempt[e]
          \/ x[1] = attempt[e] /\ x[2] < event[e]
          \/ /\ x[1] = attempt[e] /\ x[2] = event[e] /\ x[3] < part[e]
             /\ pc[e] \in {"send", "media", "next", "ok", "error"}
        BY DEF Progress, Behind
    <2>3. CASE e # d
        BY <2>2, <2>3
    <2>4. CASE e = d
        <3>1. event'[d] \in Nat /\ part'[d] \in Nat
            BY DEF Base, TypeOK
        <3> HIDE DEF x
        <3>2. CASE x[1] < attempt[e]
            BY <3>2 DEF x
        <3>3. CASE x[1] = attempt[e] /\ x[2] < event[e]
            BY <1>1, <2>1, <2>4, <3>1, <3>3 DEF x
        <3>4. CASE /\ x[1] = attempt[e] /\ x[2] = event[e] /\ x[3] < part[e]
                   /\ pc[e] \in {"send", "media", "next", "ok", "error"}
            BY <1>1, <2>1, <2>4, <3>1, <3>4 DEF x
        <3> QED BY <2>2, <3>2, <3>3, <3>4
    <2> QED BY <2>3, <2>4
<1>4. \A e \in Deliveries \ interrupted' : pc'[e] \in {"idle", "resolve", "error"} => sent'[e] = <<>>
    BY DEF Progress
<1>5. \A e \in Deliveries : pc'[e] = "idle" => sent'[e] = <<>>
    BY DEF Progress
<1>6. \A e \in Deliveries \ interrupted' : \A k \in 1 .. Len(sent'[e]) : sent'[e][k][1] = attempt'[e]
    BY DEF Progress
<1>7. \A e \in Deliveries : \A k \in 1 .. Len(sent'[e]) : Behind(e, sent[e][k])'
    BY <1>3 DEF Behind
<1> QED BY <1>2, <1>4, <1>5, <1>6, <1>7 DEF Progress

\* Forwarding the part in hand puts it behind.
LEMMA ProgressOfSend ==
    ASSUME Base, Base', Progress, NEW d \in Deliveries,
           pc[d] \in {"send", "media"},
           NEW n \in 0 .. MaxTries, Delivered(d, n),
           part' = [part EXCEPT ![d] = part[d] + 1],
           pc' = [pc EXCEPT ![d] = "send"],
           UNCHANGED <<attempt, event, interrupted>>
    PROVE  Progress'
<1>1. /\ event[d] \in Nat /\ part \in [Deliveries -> Nat \ {0}] /\ attempt[d] \in Nat
      /\ sent \in [Deliveries -> Seq(Nat \X Nat \X Nat)]
      /\ pc \in [Deliveries -> {"idle"} \cup Running \cup Answered]
    BY DEF Base, TypeOK
<1>2. /\ Here(d) \in Nat \X Nat \X Nat /\ Here(d)[1] = attempt[d]
      /\ Here(d)[2] = event[d] /\ Here(d)[3] = part[d]
    BY <1>1 DEF Here
<1>3. /\ \A e \in Deliveries \ {d} :
             sent'[e] = sent[e] /\ pc'[e] = pc[e] /\ part'[e] = part[e]
      /\ sent'[d] = sent[d] \o [k \in 1 .. n |-> Here(d)]
      /\ pc'[d] = "send" /\ part'[d] = part[d] + 1
    BY <1>1 DEF Delivered
<1>4. /\ Len(sent[d]) \in Nat /\ Len(sent'[d]) = Len(sent[d]) + n
      /\ \A k \in 1 .. Len(sent[d]) : sent'[d][k] = sent[d][k]
      /\ \A k \in 1 .. Len(sent'[d]) : k \notin 1 .. Len(sent[d]) => sent'[d][k] = Here(d)
    BY <1>1, <1>2, <1>3, AddCopies
<1>5. ASSUME NEW k \in 1 .. Len(sent[d])
      PROVE  /\ Before(sent[d][k], Here(d)) /\ sent[d][k] # Here(d)
             /\ Behind(d, sent[d][k])'
    <2>1. sent[d] \in Seq(Nat \X Nat \X Nat)
        BY <1>1
    <2>2. sent[d][k] \in Nat \X Nat \X Nat
        BY <2>1
    <2>3. Behind(d, sent[d][k])
        BY DEF Progress
    <2>4. Before(sent[d][k], Here(d))
        BY <1>2, <2>3 DEF Behind, Before
    <2>5. part[d] \in Nat /\ sent[d][k][3] \in Nat
        BY <1>1, <2>2
    <2>6. /\ sent'[d][k] = sent[d][k] /\ attempt'[d] = attempt[d] /\ event'[d] = event[d]
          /\ pc'[d] = "send" /\ part'[d] = part[d] + 1
        BY <1>3, <1>4
    <2>7. \/ sent[d][k][1] < attempt[d]
          \/ sent[d][k][1] = attempt[d] /\ sent[d][k][2] < event[d]
          \/ /\ sent[d][k][1] = attempt[d] /\ sent[d][k][2] = event[d]
             /\ sent[d][k][3] < part[d] + 1
        BY <2>3, <2>5 DEF Behind
    <2>8. Behind(d, sent[d][k])'
        BY <2>6, <2>7 DEF Behind
    <2>9. sent[d][k] # Here(d)
        BY <1>2, <2>2, <2>4 DEF Before
    <2> QED BY <2>4, <2>8, <2>9
<1>6. ASSUME NEW k \in 1 .. Len(sent'[d]) PROVE Behind(d, sent[d][k])'
    <2>1. CASE k \in 1 .. Len(sent[d])
        BY <1>5, <2>1
    <2>2. CASE k \notin 1 .. Len(sent[d])
        <3>1. sent'[d][k] = Here(d)
            BY <1>4, <2>2
        <3>2. /\ attempt'[d] = attempt[d] /\ event'[d] = event[d] /\ pc'[d] = "send"
              /\ part[d] < part'[d]
            BY <1>1, <1>3
        <3> QED BY <1>2, <3>1, <3>2 DEF Behind
    <2> QED BY <2>1, <2>2
<1>7. ASSUME NEW k \in 1 .. Len(sent'[d]), NEW l \in 1 .. Len(sent'[d]), k < l
      PROVE  /\ sent'[d][k] = sent'[d][l] \/ Before(sent'[d][k], sent'[d][l])
             /\ sent'[d][k] = sent'[d][l] => l - k < MaxTries
    <2>0. PICK m \in Nat : m = Len(sent[d])
        BY <1>4
    <2>1. k \in 1 .. m + n /\ l \in 1 .. m + n
        BY <1>4, <2>0
    <2>2. CASE l \in 1 .. m
        <3>1. k \in 1 .. m
            BY <1>7, <2>1, <2>2
        <3>2. sent'[d][k] = sent[d][k] /\ sent'[d][l] = sent[d][l]
            BY <1>4, <2>0, <2>2, <3>1
        <3> QED BY <1>7, <2>0, <2>2, <3>1, <3>2 DEF Progress, InPayloadOrder, TriesOfOneCall
    <2>3. CASE l \notin 1 .. m
        <3>1. sent'[d][l] = Here(d)
            BY <1>4, <2>0, <2>3
        <3>2. CASE k \in 1 .. m
            BY <1>4, <1>5, <2>0, <3>1, <3>2
        <3>3. CASE k \notin 1 .. m
            <4>1. sent'[d][k] = Here(d)
                BY <1>4, <2>0, <3>3
            <4>2. l - k < MaxTries
                BY <2>1, <3>3, MaxTriesPositive
            <4> QED BY <3>1, <4>1, <4>2
        <3> QED BY <3>2, <3>3
    <2> QED BY <2>2, <2>3
<1>8. InPayloadOrder' /\ TriesOfOneCall'
    <2>1. ASSUME NEW e \in Deliveries, NEW k \in 1 .. Len(sent'[e]),
                 NEW l \in 1 .. Len(sent'[e]), k < l
          PROVE  /\ sent'[e][k] = sent'[e][l] \/ Before(sent'[e][k], sent'[e][l])
                 /\ sent'[e][k] = sent'[e][l] => l - k < MaxTries
        <3>1. CASE e = d
            BY <1>7, <2>1, <3>1
        <3>2. CASE e # d
            BY <1>3, <2>1, <3>2 DEF Progress, InPayloadOrder, TriesOfOneCall
        <3> QED BY <3>1, <3>2
    <2> QED BY <2>1 DEF InPayloadOrder, TriesOfOneCall, Before
<1>9. \A e \in Deliveries : \A k \in 1 .. Len(sent'[e]) : Behind(e, sent[e][k])'
    <2>1. ASSUME NEW e \in Deliveries, e # d, NEW k \in 1 .. Len(sent'[e])
          PROVE  Behind(e, sent[e][k])'
        BY <1>3, <2>1 DEF Progress, Behind
    <2> QED BY <1>6, <2>1
<1>10. ASSUME NEW e \in Deliveries \ interrupted'
       PROVE  /\ \A k \in 1 .. Len(sent'[e]) : sent'[e][k][1] = attempt'[e]
              /\ pc'[e] \in {"idle", "resolve", "error"} => sent'[e] = <<>>
    <2>1. CASE e = d
        <3>1. \A k \in 1 .. Len(sent[d]) : sent[d][k][1] = attempt[d]
            BY <1>10, <2>1 DEF Progress
        <3>2. ASSUME NEW k \in 1 .. Len(sent'[d]) PROVE sent'[d][k][1] = attempt'[d]
            BY <1>2, <1>4, <3>1, <3>2
        <3> QED BY <1>3, <2>1, <3>2
    <2>2. CASE e # d
        BY <1>3, <1>10, <2>2 DEF Progress
    <2> QED BY <2>1, <2>2
<1>11. \A e \in Deliveries : pc'[e] = "idle" => sent'[e] = <<>>
    BY <1>3 DEF Progress
<1> QED BY <1>8, <1>9, <1>10, <1>11 DEF Progress

LEMMA StepProgress == Base /\ Base' /\ Progress /\ [Next]_vars => Progress'
<1> SUFFICES ASSUME Base, Base', Progress, [Next]_vars PROVE Progress'
    OBVIOUS
<1> USE DEF vars, gateTable, gateway, redis, request, cursor, record, Running, Answered, Goto
<1>0. /\ pc \in [Deliveries -> {"idle"} \cup Running \cup Answered]
      /\ event \in [Deliveries -> Nat] /\ part \in [Deliveries -> Nat \ {0}]
      /\ attempt \in [Deliveries -> 0 .. MaxAttempts]
      /\ sent \in [Deliveries -> Seq(Nat \X Nat \X Nat)]
    BY DEF Base, TypeOK
<1>1. ASSUME NEW d \in Deliveries, NEW p \in Payloads, Receive(d, p) PROVE Progress'
    <2>1. sent[d] = <<>> /\ Len(sent[d]) = 0
        BY <1>1 DEF Receive, Progress
    <2>2. /\ UNCHANGED <<sent, event, part, interrupted>>
          /\ \A e \in Deliveries : e # d => pc'[e] = pc[e] /\ attempt'[e] = attempt[e]
          /\ pc'[d] = "resolve"
        BY <1>0, <1>1 DEF Receive
    <2>3. InPayloadOrder' /\ TriesOfOneCall'
        BY <2>2 DEF Progress, InPayloadOrder, TriesOfOneCall, Before
    <2>4. \A e \in Deliveries : \A k \in 1 .. Len(sent'[e]) : Behind(e, sent[e][k])'
        BY <2>1, <2>2 DEF Progress, Behind
    <2> QED BY <2>1, <2>2, <2>3, <2>4 DEF Progress
<1>2. ASSUME NEW d \in Deliveries, Redeliver(d) PROVE Progress'
    <2>1. /\ UNCHANGED <<sent, part, interrupted>> /\ pc[d] = "error"
          /\ \A e \in Deliveries : e # d =>
                pc'[e] = pc[e] /\ attempt'[e] = attempt[e] /\ event'[e] = event[e]
          /\ pc'[d] = "resolve" /\ attempt'[d] = attempt[d] + 1
        BY <1>0, <1>2 DEF Redeliver
    <2>2. InPayloadOrder' /\ TriesOfOneCall'
        BY <2>1 DEF Progress, InPayloadOrder, TriesOfOneCall, Before
    <2>3. ASSUME NEW k \in 1 .. Len(sent[d]) PROVE sent[d][k][1] < attempt'[d]
        <3>1. sent[d][k] \in Nat \X Nat \X Nat
            BY <1>0
        <3>2. sent[d][k][1] \in Nat /\ attempt[d] \in Nat
            BY <1>0, <3>1
        <3>3. Behind(d, sent[d][k])
            BY DEF Progress
        <3>4. sent[d][k][1] < attempt[d] \/ sent[d][k][1] = attempt[d]
            BY <3>3 DEF Behind
        <3> QED BY <2>1, <3>2, <3>4
    <2>4. \A e \in Deliveries : \A k \in 1 .. Len(sent'[e]) : Behind(e, sent[e][k])'
        BY <2>1, <2>3 DEF Progress, Behind
    <2>5. \A e \in Deliveries \ interrupted :
              /\ \A k \in 1 .. Len(sent[e]) : sent[e][k][1] = attempt'[e]
              /\ pc'[e] \in {"idle", "resolve", "error"} => sent[e] = <<>>
        <3>1. ASSUME d \notin interrupted PROVE sent[d] = <<>> /\ Len(sent[d]) = 0
            BY <2>1, <3>1 DEF Progress
        <3> QED BY <2>1, <3>1 DEF Progress
    <2> QED BY <2>1, <2>2, <2>4, <2>5 DEF Progress
<1>3. ASSUME NEW d \in Deliveries, Interrupt(d) PROVE Progress'
    <2>1. /\ UNCHANGED <<attempt, sent, event, part>>
          /\ interrupted' = interrupted \cup {d} /\ pc' = [pc EXCEPT ![d] = "error"]
        BY <1>3 DEF Interrupt
    <2> QED BY <1>0, <2>1, ProgressOfQuietStep
<1>4. ASSUME NEW d \in Deliveries, Resolve(d) \/ ResolveDisabled(d) \/ ResolveFails(d)
      PROVE  Progress'
    <2>1. /\ UNCHANGED <<attempt, sent, event, part, interrupted>> /\ pc[d] = "resolve"
          /\ \/ pc' = [pc EXCEPT ![d] = "next"]
             \/ pc' = [pc EXCEPT ![d] = "ok"]
             \/ pc' = [pc EXCEPT ![d] = "error"]
        BY <1>4 DEF Resolve, ResolveDisabled, ResolveFails
    <2> QED BY <1>0, <2>1, ProgressOfQuietStep
<1>5. ASSUME NEW d \in Deliveries, NextEvent(d) PROVE Progress'
    <2>1. /\ UNCHANGED <<attempt, sent, part, interrupted>> /\ pc[d] = "next"
        BY <1>5 DEF NextEvent
    <2>2. \/ event' = event /\ pc' = [pc EXCEPT ![d] = "ok"]
          \/ /\ event' = [event EXCEPT ![d] = event[d] + 1]
             /\ pc' = [pc EXCEPT ![d] = "next"] \/ pc' = [pc EXCEPT ![d] = "profile"]
        BY <1>5 DEF NextEvent
    <2>3. CASE event' = event /\ pc' = [pc EXCEPT ![d] = "ok"]
        BY <1>0, <2>1, <2>3, ProgressOfQuietStep
    <2>4. CASE /\ event' = [event EXCEPT ![d] = event[d] + 1]
               /\ pc' = [pc EXCEPT ![d] = "next"] \/ pc' = [pc EXCEPT ![d] = "profile"]
        <3>1. /\ event'[d] > event[d] /\ pc'[d] \in {"next", "profile"}
              /\ \A e \in Deliveries : e # d => pc'[e] = pc[e] /\ event'[e] = event[e]
            BY <1>0, <2>4
        <3> QED BY <2>1, <3>1, ProgressOfQuietStep
    <2> QED BY <2>2, <2>3, <2>4
<1>6. ASSUME NEW d \in Deliveries,
             pc[d] \in {"profile", "known", "contact", "via", "mark", "locale"},
             UNCHANGED <<attempt, sent, event, interrupted>>,
             pc'[d] \notin {"idle", "resolve", "error"},
             \A e \in Deliveries : e # d => pc'[e] = pc[e] /\ part'[e] = part[e]
      PROVE  Progress'
    BY <1>6, ProgressOfQuietStep
<1>7. ASSUME NEW d \in Deliveries, DropEvent(d) PROVE Progress'
    BY <1>0, <1>6, <1>7 DEF DropEvent
<1>8. ASSUME NEW d \in Deliveries, GetUserProfile(d) \/ IsUnknown(d) PROVE Progress'
    BY <1>0, <1>6, <1>8 DEF GetUserProfile, IsUnknown
<1>9. ASSUME NEW d \in Deliveries, EnsureContact(d) \/ EnsureVia(d) \/ EnsureViaFails(d)
      PROVE  Progress'
    BY <1>0, <1>6, <1>9 DEF EnsureContact, EnsureVia, EnsureViaFails
<1>10. ASSUME NEW d \in Deliveries, Synced(d)
       PROVE  /\ pc'[d] \in {"profile", "send"}
              /\ \A e \in Deliveries : e # d => pc'[e] = pc[e] /\ part'[e] = part[e]
    BY <1>0, <1>10 DEF Synced
<1>11. ASSUME NEW d \in Deliveries, IsKnown(d) PROVE Progress'
    BY <1>6, <1>10, <1>11 DEF IsKnown
<1>12. ASSUME NEW d \in Deliveries, MarkKnown(d) PROVE Progress'
    <2>1. /\ pc'[d] \in {"profile", "send", "locale"}
          /\ \A e \in Deliveries : e # d => pc'[e] = pc[e] /\ part'[e] = part[e]
        BY <1>0, <1>10, <1>12 DEF MarkKnown
    <2>2. pc[d] = "mark" /\ UNCHANGED <<attempt, sent, event, interrupted>>
        BY <1>12 DEF MarkKnown
    <2> QED BY <1>6, <2>1, <2>2
<1>13. ASSUME NEW d \in Deliveries, SetLocale(d) PROVE Progress'
    BY <1>6, <1>10, <1>13 DEF SetLocale
<1>14. ASSUME NEW d \in Deliveries, pc[d] \in {"send", "media"},
              pc'[d] \in {"send", "media", "next"},
              UNCHANGED <<attempt, sent, event, interrupted>>,
              \A e \in Deliveries : e # d => pc'[e] = pc[e] /\ part'[e] = part[e],
              part'[d] = part[d] \/ part'[d] = part[d] + 1
       PROVE  Progress'
    <2>1. part'[d] >= part[d]
        BY <1>0, <1>14
    <2> QED BY <1>14, <2>1, ProgressOfQuietStep
<1>15. ASSUME NEW d \in Deliveries, NextPart(d)
       PROVE  /\ pc' = [pc EXCEPT ![d] = "send"] /\ part' = [part EXCEPT ![d] = part[d] + 1]
              /\ pc'[d] = "send" /\ part'[d] = part[d] + 1
              /\ \A e \in Deliveries : e # d => pc'[e] = pc[e] /\ part'[e] = part[e]
    BY <1>0, <1>15 DEF NextPart
<1>16. ASSUME NEW d \in Deliveries, Send(d) \/ SendFails(d) PROVE Progress'
    <2>1. /\ pc[d] \in {"send", "media"} /\ NextPart(d)
          /\ UNCHANGED <<attempt, event, interrupted>>
        BY <1>16 DEF Send, SendFails, ReadyToSend
    <2>2. PICK n \in 0 .. MaxTries : Delivered(d, n)
        BY <1>16, TriesAreNats DEF Send, SendFails
    <2> QED BY <1>15, <2>1, <2>2, ProgressOfSend
<1>18. ASSUME NEW d \in Deliveries, Upload(d) PROVE Progress'
    <2>1. pc[d] = "send" /\ UNCHANGED <<attempt, sent, event, interrupted>>
        BY <1>18 DEF Upload, AtAttachment
    <2>2. CASE Content(d)[part[d]] = "media"
        <3>1. pc' = [pc EXCEPT ![d] = "media"] /\ part' = part
            BY <1>18, <2>2 DEF Upload
        <3> QED BY <1>0, <1>14, <2>1, <3>1
    <2>3. CASE Content(d)[part[d]] # "media"
        <3>1. NextPart(d)
            BY <1>18, <2>3 DEF Upload
        <3> QED BY <1>14, <1>15, <2>1, <3>1
    <2> QED BY <2>2, <2>3
<1>19. ASSUME NEW d \in Deliveries, UploadFails(d) PROVE Progress'
    <2>1. /\ pc[d] = "send" /\ NextPart(d)
          /\ UNCHANGED <<attempt, sent, event, interrupted>>
        BY <1>19 DEF UploadFails, AtAttachment
    <2> QED BY <1>14, <1>15, <2>1
<1>20. ASSUME NEW d \in Deliveries, EndEvent(d) PROVE Progress'
    BY <1>0, <1>14, <1>20 DEF EndEvent
<1>21. ASSUME UNCHANGED <<pc, request, cursor, record, interrupted>> PROVE Progress'
    <2>1. \A e \in Deliveries : \A k \in 1 .. Len(sent'[e]) : Behind(e, sent[e][k])'
        BY <1>21 DEF Progress, Behind
    <2>2. InPayloadOrder' /\ TriesOfOneCall'
        BY <1>21 DEF Progress, InPayloadOrder, TriesOfOneCall, Before
    <2> QED BY <1>21, <2>1, <2>2 DEF Progress
<1>22. ASSUME Environment PROVE Progress'
    BY <1>1, <1>2, <1>3, <1>21, <1>22 DEF Environment, CreateGate, SwitchGate, DeleteGate, Expire, Rename
<1>23. ASSUME NEW d \in Deliveries, Process(d) PROVE Progress'
    BY <1>23, <1>4, <1>5, <1>7, <1>8, <1>9, <1>11, <1>12, <1>13, <1>16, <1>18, <1>19,
       <1>20 DEF Process
<1>24. CASE UNCHANGED vars
    BY <1>21, <1>24
<1> QED BY <1>22, <1>23, <1>24 DEF Next

LEMMA InitProgress == Init => Progress
<1> SUFFICES ASSUME Init PROVE Progress
    OBVIOUS
<1>1. \A d \in Deliveries : sent[d] = <<>> /\ Len(sent[d]) = 0
    BY DEF Init
<1> QED BY <1>1 DEF Progress, InPayloadOrder, TriesOfOneCall

\* Parts are forwarded in the payload's own order in every attempt, and the
\* code never goes back to one.
THEOREM ForwardedInOrder == Spec => []InPayloadOrder
<1>1. Progress => InPayloadOrder
    BY DEF Progress
<1> QED BY InitBase, StepBase, InitProgress, StepProgress, <1>1, PTL DEF Spec

\* Unless a delivery is cut short, a part of it reaches the messenger by one
\* call only, more than once only when the client tried that call again: the
\* code answers with an error only before it has forwarded anything.
THEOREM ForwardedByOneCallOnly == Spec => []ForwardedByOneCall
<1>1. ASSUME Base, Progress PROVE ForwardedByOneCall
    <2>1. ASSUME NEW d \in Deliveries \ interrupted, NEW k \in 1 .. Len(sent[d]),
                 NEW l \in 1 .. Len(sent[d]), k < l, Place(sent[d][k]) = Place(sent[d][l])
          PROVE  sent[d][k] = sent[d][l] /\ l - k < MaxTries
        <3>1. sent[d] \in Seq(Nat \X Nat \X Nat)
            BY <1>1 DEF Base, TypeOK
        <3>2. sent[d][k] \in Nat \X Nat \X Nat /\ sent[d][l] \in Nat \X Nat \X Nat
            BY <3>1
        <3>3. sent[d][k][1] = sent[d][l][1]
            BY <1>1 DEF Progress
        <3>4. sent[d][k][2] = sent[d][l][2] /\ sent[d][k][3] = sent[d][l][3]
            BY <2>1 DEF Place
        <3>5. sent[d][k] = sent[d][l]
            BY <3>2, <3>3, <3>4
        <3> QED BY <1>1, <2>1, <3>5 DEF Progress, TriesOfOneCall
    <2> QED BY <2>1 DEF ForwardedByOneCall
<1> QED BY InitBase, StepBase, InitProgress, StepProgress, <1>1, PTL DEF Spec

-----------------------------------------------------------------------------
(* FailureBlocksNoOther.                                                    *)

\* What became of a part, in this attempt.
Covered(d, i, j) ==
    \/ Parts(payload[d][i])[j] = "share"
    \/ <<i, j>> \in lost[d]
    \/ \E k \in 1 .. Len(sent[d]) : sent[d][k] = <<attempt[d], i, j>>

CoveredEvent(d, i) == \A j \in 1 .. Len(Parts(payload[d][i])) : Covered(d, i, j)

\* The events and the parts behind the cursor are accounted for.
AccountedOf(d) ==
    /\ pc[d] \in {"idle", "resolve"} => event[d] = 0 /\ gate[d] = None
    /\ pc[d] = "next" => \A i \in 1 .. event[d] : CoveredEvent(d, i)
    /\ pc[d] \in InEvent => \A i \in 1 .. event[d] - 1 : CoveredEvent(d, i)
    /\ pc[d] \in {"send", "media"} => \A j \in 1 .. part[d] - 1 : Covered(d, event[d], j)
    /\ pc[d] = "media" => part[d] <= Len(Content(d)) /\ Content(d)[part[d]] = "media"
    /\ (pc[d] = "ok" /\ gate[d] # None) => \A i \in 1 .. Len(payload[d]) : CoveredEvent(d, i)

Accounted == \A d \in Deliveries : AccountedOf(d)

\* What happens to a delivery in a step of its own.
SameFor(d) ==
    /\ pc'[d] = pc[d] /\ payload'[d] = payload[d] /\ attempt'[d] = attempt[d]
    /\ gate'[d] = gate[d]
    /\ event'[d] = event[d] /\ part'[d] = part[d] /\ sent'[d] = sent[d] /\ lost'[d] = lost[d]

SameForOthers(d) == \A e \in Deliveries \ {d} : SameFor(e)

\* The messenger gets nothing, or the part in hand.
GotCopies(d, n) == sent'[d] = sent[d] \o [k \in 1 .. n |-> Here(d)]
SentGrows(d) == sent'[d] = sent[d] \/ \E n \in Nat : GotCopies(d, n)

LEMMA AccountedOfSame ==
    ASSUME NEW d \in Deliveries, AccountedOf(d), SameFor(d)
    PROVE  AccountedOf(d)'
<1> USE DEF SameFor
<1>1. \A i, j : Covered(d, i, j) => Covered(d, i, j)'
    BY DEF Covered
<1>2. \A i : CoveredEvent(d, i) => CoveredEvent(d, i)'
    BY <1>1 DEF CoveredEvent
<1>3. \A i, j : i = event'[d] /\ Covered(d, event[d], j) => Covered(d, i, j)'
    BY <1>1
<1>4. (\A j \in 1 .. part[d] - 1 : Covered(d, event[d], j))
         => (\A j \in 1 .. part[d] - 1 : Covered(d, event[d], j))'
    BY <1>3 DEF Covered
<1>5. Content(d)' = Content(d)
    BY DEF Content, Current
<1> QED BY <1>2, <1>4, <1>5 DEF AccountedOf

\* What is accounted for stays so while the payload is the same attempt's.
LEMMA CoveredStays ==
    ASSUME Base, NEW d \in Deliveries, SentGrows(d), lost[d] \subseteq lost'[d],
           payload'[d] = payload[d], attempt'[d] = attempt[d]
    PROVE  /\ \A i, j : Covered(d, i, j) => Covered(d, i, j)'
           /\ \A i : CoveredEvent(d, i) => CoveredEvent(d, i)'
<1>1. sent[d] \in Seq(Nat \X Nat \X Nat) /\ Here(d) \in Nat \X Nat \X Nat
    BY DEF Base, TypeOK, Here
<1>2. \A k \in 1 .. Len(sent[d]) : k \in 1 .. Len(sent'[d]) /\ sent'[d][k] = sent[d][k]
  <2>1. CASE sent'[d] = sent[d]
      BY <2>1
  <2>2. ASSUME NEW n \in Nat, GotCopies(d, n)
        PROVE  \A k \in 1 .. Len(sent[d]) : k \in 1 .. Len(sent'[d]) /\ sent'[d][k] = sent[d][k]
      BY <1>1, <2>2, AddCopies DEF GotCopies
  <2> QED BY <2>1, <2>2 DEF SentGrows
<1>3. \A i, j : Covered(d, i, j) => Covered(d, i, j)'
    BY <1>2 DEF Covered
<1>4. \A i : CoveredEvent(d, i) => CoveredEvent(d, i)'
    BY <1>3 DEF CoveredEvent
<1> QED BY <1>3, <1>4

\* A step in which the delivery stays at the event, in front of its content.
LEMMA AccountedOfCall ==
    ASSUME Base, Accounted, NEW d \in Deliveries, SameForOthers(d),
           pc[d] \in InEvent \ {"send", "media"}, pc'[d] \in InEvent \ {"media"},
           pc'[d] = "send" => part'[d] = 1,
           payload'[d] = payload[d], attempt'[d] = attempt[d], event'[d] = event[d],
           sent'[d] = sent[d], lost'[d] = lost[d]
    PROVE  Accounted'
<1>1. \A i : CoveredEvent(d, i) => CoveredEvent(d, i)'
    BY CoveredStays DEF SentGrows
<1>2. AccountedOf(d)'
    BY <1>1 DEF Accounted, AccountedOf, InEvent
<1> QED BY <1>2, AccountedOfSame DEF Accounted, SameForOthers

\* A step that leaves the part in hand accounted for.
LEMMA AccountedOfPart ==
    ASSUME Base, Accounted, NEW d \in Deliveries, SameForOthers(d),
           pc[d] \in {"send", "media"}, pc'[d] = "send", part'[d] = part[d] + 1,
           SentGrows(d), lost[d] \subseteq lost'[d],
           payload'[d] = payload[d], attempt'[d] = attempt[d], event'[d] = event[d],
           \/ Content(d)[part[d]] = "share"
           \/ \E n \in Nat \ {0} : GotCopies(d, n)
           \/ <<event[d], part[d]>> \in lost'[d]
    PROVE  Accounted'
<1>1. \A i, j : Covered(d, i, j) => Covered(d, i, j)'
    BY CoveredStays
<1>2. \A i : CoveredEvent(d, i) => CoveredEvent(d, i)'
    BY CoveredStays
<1>3. part[d] \in Nat \ {0} /\ event[d] \in Nat
    BY DEF Base, TypeOK
<1>4. \A i, j : i = event[d] /\ j = part[d] => Covered(d, i, j)'
  <2>1. CASE Content(d)[part[d]] = "share"
      BY <2>1 DEF Covered, Content, Current
  <2>2. CASE <<event[d], part[d]>> \in lost'[d]
      BY <2>2 DEF Covered
  <2>3. ASSUME NEW n \in Nat \ {0}, GotCopies(d, n), NEW i, NEW j, i = event[d], j = part[d]
        PROVE  Covered(d, i, j)'
    <3>1. sent[d] \in Seq(Nat \X Nat \X Nat) /\ Here(d) \in Nat \X Nat \X Nat
        BY DEF Base, TypeOK, Here
    <3>2. /\ Len(sent[d]) \in Nat /\ Len(sent'[d]) = Len(sent[d]) + n
          /\ \A k \in 1 .. Len(sent'[d]) : k \notin 1 .. Len(sent[d]) => sent'[d][k] = Here(d)
        BY <2>3, <3>1, AddCopies DEF GotCopies
    <3>3. PICK m \in Nat : m = Len(sent[d]) + 1
        BY <3>2
    <3>4. m \in 1 .. Len(sent'[d]) /\ m \notin 1 .. Len(sent[d])
        BY <3>2, <3>3
    <3>5. sent'[d][m] = <<attempt'[d], event[d], part[d]>>
        BY <3>2, <3>4 DEF Here
    <3> QED BY <2>3, <3>4, <3>5 DEF Covered
  <2> QED BY <2>1, <2>2, <2>3
<1>5. \A j \in 1 .. part'[d] - 1 : j \in 1 .. part[d] - 1 \/ j = part[d]
    BY <1>3
<1>6. \A j \in 1 .. part[d] - 1 : Covered(d, event[d], j)
    BY DEF Accounted, AccountedOf
<1>7. \A i, j : i = event'[d] /\ j \in 1 .. part'[d] - 1 => Covered(d, i, j)'
    BY <1>1, <1>4, <1>5, <1>6
<1>8. (\A j \in 1 .. part[d] - 1 : Covered(d, event[d], j))'
    BY <1>7 DEF Covered
<1>9. \A i \in 1 .. event[d] - 1 : CoveredEvent(d, i)
    BY DEF Accounted, AccountedOf, InEvent
<1>10. AccountedOf(d)'
    BY <1>2, <1>8, <1>9 DEF AccountedOf, InEvent
<1> QED BY <1>10, AccountedOfSame DEF Accounted, SameForOthers

\* A step that ends the event in hand.
LEMMA AccountedOfEnd ==
    ASSUME Base, Accounted, NEW d \in Deliveries, SameForOthers(d),
           pc[d] \in InEvent, pc'[d] = "next",
           sent'[d] = sent[d], lost[d] \subseteq lost'[d],
           payload'[d] = payload[d], attempt'[d] = attempt[d], event'[d] = event[d],
           \A i, j : i = event[d] /\ j \in 1 .. Len(Content(d)) => Covered(d, i, j)'
    PROVE  Accounted'
<1>1. \A i : CoveredEvent(d, i) => CoveredEvent(d, i)'
    BY CoveredStays DEF SentGrows
<1>2. event[d] \in Nat
    BY DEF Base, TypeOK
<1>3. \A i : i = event[d] => CoveredEvent(d, i)'
    BY DEF CoveredEvent, Content, Current
<1>4. \A i \in 1 .. event[d] : i \in 1 .. event[d] - 1 \/ i = event[d]
    BY <1>2
<1>5. AccountedOf(d)'
    BY <1>1, <1>3, <1>4 DEF Accounted, AccountedOf, InEvent
<1> QED BY <1>5, AccountedOfSame DEF Accounted, SameForOthers

LEMMA StepAccounted == Base /\ Accounted /\ [Next]_vars => Accounted'
<1> SUFFICES ASSUME Base, Accounted, [Next]_vars PROVE Accounted'
    OBVIOUS
<1> USE DEF vars, gateTable, gateway, redis, request, cursor, record, Goto
<1>0. /\ pc \in [Deliveries -> {"idle"} \cup Running \cup Answered]
      /\ payload \in [Deliveries -> Seq(Event)] /\ attempt \in [Deliveries -> 0 .. MaxAttempts]
      /\ event \in [Deliveries -> Nat] /\ part \in [Deliveries -> Nat \ {0}]
      /\ round \in [Deliveries -> {1, 2}] /\ gate \in [Deliveries -> GateIds \cup {None}]
      /\ sent \in [Deliveries -> Seq(Nat \X Nat \X Nat)]
      /\ lost \in [Deliveries -> SUBSET (Nat \X Nat)]
    BY DEF Base, TypeOK
<1>1. ASSUME NEW d \in Deliveries, SameForOthers(d), AccountedOf(d)' PROVE Accounted'
    BY <1>1, AccountedOfSame DEF Accounted, SameForOthers
<1>2. ASSUME NEW d \in Deliveries, NEW p \in Payloads, Receive(d, p) PROVE Accounted'
  <2>1. /\ SameForOthers(d) /\ pc'[d] = "resolve" /\ pc[d] = "idle"
        /\ event'[d] = event[d] /\ gate'[d] = gate[d]
      BY <1>0, <1>2 DEF Receive, SameForOthers, SameFor
  <2>2. AccountedOf(d)'
      BY <2>1 DEF Accounted, AccountedOf, InEvent
  <2> QED BY <1>1, <2>1, <2>2
<1>3. ASSUME NEW d \in Deliveries, Redeliver(d) PROVE Accounted'
  <2>1. SameForOthers(d) /\ pc'[d] = "resolve" /\ event'[d] = 0 /\ gate'[d] = None
      BY <1>0, <1>3 DEF Redeliver, SameForOthers, SameFor
  <2>2. AccountedOf(d)'
      BY <2>1 DEF AccountedOf, InEvent
  <2> QED BY <1>1, <2>1, <2>2
<1>4. ASSUME NEW d \in Deliveries, Interrupt(d) \/ ResolveFails(d) PROVE Accounted'
  <2>1. SameForOthers(d) /\ pc'[d] = "error"
      BY <1>0, <1>4 DEF Interrupt, ResolveFails, SameForOthers, SameFor
  <2>2. AccountedOf(d)'
      BY <2>1 DEF AccountedOf, InEvent
  <2> QED BY <1>1, <2>1, <2>2
<1>5. ASSUME NEW d \in Deliveries, Resolve(d) PROVE Accounted'
  <2>1. SameForOthers(d) /\ pc'[d] = "next" /\ event'[d] = event[d] /\ pc[d] = "resolve"
      BY <1>0, <1>5 DEF Resolve, SameForOthers, SameFor
  <2>2. AccountedOf(d)'
      BY <2>1 DEF Accounted, AccountedOf, InEvent
  <2> QED BY <1>1, <2>1, <2>2
<1>20. ASSUME NEW d \in Deliveries, ResolveDisabled(d) PROVE Accounted'
  <2>1. SameForOthers(d) /\ pc'[d] = "ok" /\ gate'[d] = gate[d] /\ pc[d] = "resolve"
      BY <1>0, <1>20 DEF ResolveDisabled, SameForOthers, SameFor
  <2>2. gate'[d] = None
      BY <2>1 DEF Accounted, AccountedOf
  <2>3. AccountedOf(d)'
      BY <2>1, <2>2 DEF AccountedOf, InEvent
  <2> QED BY <1>1, <2>1, <2>3
<1>6. ASSUME NEW d \in Deliveries, NextEvent(d) PROVE Accounted'
  <2>1. /\ SameForOthers(d) /\ pc[d] = "next" /\ sent'[d] = sent[d] /\ lost'[d] = lost[d]
        /\ payload'[d] = payload[d] /\ attempt'[d] = attempt[d] /\ part'[d] = part[d]
      BY <1>0, <1>6 DEF NextEvent, SameForOthers, SameFor
  <2>2. \A i : CoveredEvent(d, i) => CoveredEvent(d, i)'
      BY <2>1, CoveredStays DEF SentGrows
  <2>3. \A i \in 1 .. event[d] : CoveredEvent(d, i)'
      BY <2>1, <2>2 DEF Accounted, AccountedOf
  <2>4. PICK n \in Nat : n = event[d] + 1
      BY <1>0
  <2>5. payload[d] \in Payloads /\ event[d] = n - 1
      BY <1>0, <2>1, <2>4 DEF Base, AtAnEvent
  <2>6. CASE n > Len(payload[d])
    <3>1. pc'[d] = "ok" /\ \A i \in 1 .. Len(payload[d]) : i \in 1 .. event[d]
        BY <1>0, <1>6, <2>4, <2>5, <2>6, PayloadEvents DEF NextEvent
    <3>2. (\A i \in 1 .. Len(payload[d]) : CoveredEvent(d, i))'
        BY <2>1, <2>3, <3>1
    <3> QED BY <1>1, <2>1, <3>1, <3>2 DEF AccountedOf, InEvent
  <2>7. CASE ~(n > Len(payload[d]))
    <3>1. /\ pc'[d] = IF payload[d][n].kind = "other" THEN "next" ELSE "profile"
          /\ event'[d] = n
        BY <1>0, <1>6, <2>4, <2>7 DEF NextEvent
    <3>2. CASE payload[d][n].kind = "other"
      <4>1. \A i : i = n => CoveredEvent(d, i)'
        <5>1. Len(Parts(payload[d][n])) = 0
            BY <3>2 DEF Parts
        <5> QED BY <2>1, <3>2, <5>1 DEF CoveredEvent
      <4>2. \A i \in 1 .. n : i \in 1 .. event[d] \/ i = n
          BY <2>4, <2>5
      <4>3. (\A i \in 1 .. event[d] : CoveredEvent(d, i))'
          BY <2>3, <3>1, <4>1, <4>2
      <4> QED BY <1>1, <2>1, <3>1, <3>2, <4>3 DEF AccountedOf, InEvent
    <3>3. CASE payload[d][n].kind # "other"
      <4>1. (\A i \in 1 .. event[d] - 1 : CoveredEvent(d, i))'
          BY <2>3, <2>5, <3>1
      <4> QED BY <1>1, <2>1, <3>1, <3>3, <4>1 DEF AccountedOf, InEvent
    <3> QED BY <3>2, <3>3
  <2> QED BY <2>6, <2>7
<1>7. ASSUME NEW d \in Deliveries, GetUserProfile(d) \/ IsUnknown(d) \/ EnsureContact(d)
                                   \/ EnsureVia(d) \/ EnsureViaFails(d)
      PROVE  Accounted'
  <2>1. /\ SameForOthers(d) /\ pc[d] \in {"profile", "known", "contact", "via"}
        /\ pc'[d] \in {"known", "contact", "via", "mark"}
        /\ payload'[d] = payload[d] /\ attempt'[d] = attempt[d] /\ event'[d] = event[d]
        /\ sent'[d] = sent[d] /\ lost'[d] = lost[d]
      BY <1>0, <1>7 DEF GetUserProfile, IsUnknown, EnsureContact, EnsureVia, EnsureViaFails,
                        SameForOthers, SameFor
  <2> QED BY <2>1, AccountedOfCall DEF InEvent
<1>8. ASSUME NEW d \in Deliveries, DropEvent(d) PROVE Accounted'
  <2>1. /\ SameForOthers(d) /\ pc[d] \in InEvent /\ pc'[d] = "next"
        /\ payload'[d] = payload[d] /\ attempt'[d] = attempt[d] /\ event'[d] = event[d]
        /\ sent'[d] = sent[d] /\ lost'[d] = lost[d] \cup Positions(d)
      BY <1>0, <1>8 DEF DropEvent, SameForOthers, SameFor, InEvent
  <2>2. \A i, j : i = event[d] /\ j \in 1 .. Len(Content(d)) => Covered(d, i, j)'
      BY <2>1 DEF Positions, Covered
  <2> QED BY <2>1, <2>2, AccountedOfEnd
<1>9. ASSUME NEW d \in Deliveries, pc[d] \in InEvent \ {"send", "media"}, Synced(d),
             UNCHANGED <<payload, attempt, gate, event, sent, lost>>
      PROVE  Accounted'
  <2>1. /\ SameForOthers(d) /\ pc'[d] \in {"profile", "send"}
        /\ pc'[d] = "send" => part'[d] = 1
      BY <1>0, <1>9 DEF Synced, SameForOthers, SameFor
  <2> QED BY <1>9, <2>1, AccountedOfCall DEF InEvent
<1>10. ASSUME NEW d \in Deliveries, IsKnown(d) \/ SetLocale(d) PROVE Accounted'
    BY <1>9, <1>10 DEF IsKnown, SetLocale, InEvent
<1>11. ASSUME NEW d \in Deliveries, MarkKnown(d) PROVE Accounted'
  <2>1. pc[d] = "mark" /\ UNCHANGED <<payload, attempt, gate, event, sent, lost>>
      BY <1>11 DEF MarkKnown
  <2>2. CASE Sender(d) \in Localized
    <3>1. SameForOthers(d) /\ pc'[d] = "locale"
        BY <1>0, <1>11, <2>1, <2>2 DEF MarkKnown, SameForOthers, SameFor
    <3> QED BY <2>1, <3>1, AccountedOfCall DEF InEvent
  <2>3. CASE Sender(d) \notin Localized
    <3>1. Synced(d)
        BY <1>11, <2>3 DEF MarkKnown
    <3> QED BY <1>9, <2>1, <3>1 DEF InEvent
  <2> QED BY <2>2, <2>3
<1>21. ASSUME NEW d \in Deliveries, NEW n \in Nat, Delivered(d, n)
       PROVE  GotCopies(d, n) /\ \A e \in Deliveries \ {d} : sent'[e] = sent[e]
    BY <1>0, <1>21 DEF Delivered, GotCopies
<1>12. ASSUME NEW d \in Deliveries, NextPart(d), pc[d] \in {"send", "media"},
              UNCHANGED <<payload, attempt, gate, event>>,
              sent' = sent \/ \E n \in Nat : Delivered(d, n),
              \/ lost' = lost
              \/ lost' = [lost EXCEPT ![d] = lost[d] \cup {<<event[d], part[d]>>}],
              \/ Content(d)[part[d]] = "share"
              \/ \E n \in Nat \ {0} : Delivered(d, n)
              \/ lost' = [lost EXCEPT ![d] = lost[d] \cup {<<event[d], part[d]>>}]
       PROVE  Accounted'
  <2>1. SameForOthers(d) /\ pc'[d] = "send" /\ part'[d] = part[d] + 1
      BY <1>0, <1>12, <1>21 DEF NextPart, SameForOthers, SameFor
  <2>2. SentGrows(d) /\ lost[d] \subseteq lost'[d]
      BY <1>0, <1>12, <1>21 DEF SentGrows
  <2>3. \/ Content(d)[part[d]] = "share"
        \/ \E n \in Nat \ {0} : GotCopies(d, n)
        \/ <<event[d], part[d]>> \in lost'[d]
      BY <1>0, <1>12, <1>21
  <2> QED BY <1>12, <2>1, <2>2, <2>3, AccountedOfPart
<1>13. ASSUME NEW d \in Deliveries, UploadFails(d) PROVE Accounted'
    BY <1>12, <1>13 DEF UploadFails, AtAttachment
<1>22. ASSUME NEW d \in Deliveries, Send(d) \/ SendFails(d) PROVE Accounted'
  <2>1. /\ pc[d] \in {"send", "media"} /\ NextPart(d)
        /\ UNCHANGED <<payload, attempt, gate, event>>
      BY <1>22 DEF Send, SendFails, ReadyToSend
  <2>2. CASE Send(d)
    <3>1. PICK n \in Nat \ {0} : Delivered(d, n)
        BY <2>2, MaxTriesPositive DEF Send
    <3> QED BY <1>12, <2>1, <2>2, <3>1 DEF Send
  <2>3. CASE SendFails(d)
    <3>1. PICK n \in Nat : Delivered(d, n)
        BY <2>3, TriesAreNats DEF SendFails
    <3> QED BY <1>12, <2>1, <2>3, <3>1 DEF SendFails
  <2> QED BY <1>22, <2>2, <2>3
<1>14. ASSUME NEW d \in Deliveries, Upload(d) PROVE Accounted'
  <2>1. /\ pc[d] = "send" /\ part[d] <= Len(Content(d)) /\ Content(d)[part[d]] # "text"
        /\ UNCHANGED <<payload, attempt, gate, event, sent, lost>>
      BY <1>14 DEF Upload, AtAttachment
  <2>2. CASE Content(d)[part[d]] = "media"
    <3>1. SameForOthers(d) /\ pc'[d] = "media" /\ part'[d] = part[d]
        BY <1>0, <1>14, <2>1, <2>2 DEF Upload, SameForOthers, SameFor
    <3>2. /\ \A i, j : Covered(d, i, j) => Covered(d, i, j)'
          /\ \A i : CoveredEvent(d, i) => CoveredEvent(d, i)'
        BY <2>1, CoveredStays DEF SentGrows
    <3>3. \A i, j : i = event'[d] /\ Covered(d, event[d], j) => Covered(d, i, j)'
        BY <2>1, <3>2
    <3>4. (\A j \in 1 .. part[d] - 1 : Covered(d, event[d], j))'
        BY <2>1, <3>1, <3>3 DEF Accounted, AccountedOf, Covered
    <3>5. Content(d)' = Content(d)
        BY <2>1 DEF Content, Current
    <3>6. AccountedOf(d)'
        BY <2>1, <2>2, <3>1, <3>2, <3>4, <3>5 DEF Accounted, AccountedOf, InEvent
    <3> QED BY <1>1, <3>1, <3>6
  <2>3. CASE Content(d)[part[d]] # "media"
    <3>1. Content(d)[part[d]] = "share"
      <4>1. Current(d) \in Event
          BY <2>1, CurrentEvent DEF InEvent
      <4>2. part[d] \in 1 .. Len(Content(d))
          BY <1>0, <2>1, <4>1, PartsHaveLengths DEF Content
      <4> QED BY <2>1, <2>3, <4>1, <4>2, PartsOfKinds DEF Content
    <3>2. NextPart(d)
        BY <1>14, <2>3 DEF Upload
    <3> QED BY <1>12, <2>1, <3>1, <3>2
  <2> QED BY <2>2, <2>3
<1>15. ASSUME NEW d \in Deliveries, EndEvent(d) PROVE Accounted'
  <2>1. /\ SameForOthers(d) /\ pc[d] = "send" /\ pc'[d] = "next" /\ part[d] > Len(Content(d))
        /\ payload'[d] = payload[d] /\ attempt'[d] = attempt[d] /\ event'[d] = event[d]
        /\ sent'[d] = sent[d] /\ lost'[d] = lost[d]
      BY <1>0, <1>15 DEF EndEvent, SameForOthers, SameFor
  <2>2. \A j \in 1 .. Len(Content(d)) : j \in 1 .. part[d] - 1
      BY <1>0, <2>1, CurrentEvent DEF InEvent
  <2>3. \A i, j : Covered(d, i, j) => Covered(d, i, j)'
      BY <2>1, CoveredStays DEF SentGrows
  <2>4. \A i, j : i = event[d] /\ j \in 1 .. Len(Content(d)) => Covered(d, i, j)'
      BY <2>1, <2>2, <2>3 DEF Accounted, AccountedOf
  <2> QED BY <2>1, <2>4, AccountedOfEnd DEF InEvent
<1>16. ASSUME UNCHANGED <<pc, payload, attempt, gate, event, part, sent, lost>> PROVE Accounted'
    BY <1>16, AccountedOfSame DEF Accounted, SameFor
<1>17. ASSUME Environment PROVE Accounted'
    BY <1>2, <1>3, <1>4, <1>16, <1>17 DEF Environment, CreateGate, SwitchGate, DeleteGate, Expire, Rename
<1>18. ASSUME NEW d \in Deliveries, Process(d) PROVE Accounted'
    BY <1>18, <1>4, <1>5, <1>20, <1>6, <1>7, <1>8, <1>10, <1>11, <1>13, <1>22, <1>14, <1>15 DEF Process
<1>19. CASE UNCHANGED vars
    BY <1>16, <1>19
<1> QED BY <1>17, <1>18, <1>19 DEF Next

LEMMA InitAccounted == Init => Accounted
BY DEF Init, Accounted, AccountedOf, InEvent

\* Of a payload that was accepted without a gate, the gate was found disabled
\* and nothing was forwarded.
Skipped ==
    \A d \in Deliveries : pc[d] = "ok" /\ gate[d] = None =>
        /\ payload[d][1].page \in stale
        /\ \A k \in 1 .. Len(sent[d]) : sent[d][k][1] # attempt[d]

\* It stays so, unless the delivery is answered without a gate by a step.
LEMMA SkippedOfStep ==
    ASSUME Skipped, NEW d \in Deliveries, SameForOthers(d), stale \subseteq stale',
           \/ pc'[d] # "ok"
           \/ gate'[d] # None
           \/ /\ payload'[d][1].page \in stale'
              /\ \A k \in 1 .. Len(sent'[d]) : sent'[d][k][1] # attempt'[d]
    PROVE  Skipped'
BY DEF Skipped, SameForOthers, SameFor

LEMMA StepSkipped == Base /\ Progress /\ Accounted /\ Skipped /\ [Next]_vars => Skipped'
<1> SUFFICES ASSUME Base, Progress, Accounted, Skipped, [Next]_vars PROVE Skipped'
    OBVIOUS
<1> USE DEF vars, gateTable, gateway, redis, request, cursor, record, Goto
<1>0. /\ pc \in [Deliveries -> {"idle"} \cup Running \cup Answered]
      /\ payload \in [Deliveries -> Seq(Event)] /\ attempt \in [Deliveries -> 0 .. MaxAttempts]
      /\ event \in [Deliveries -> Nat] /\ part \in [Deliveries -> Nat \ {0}]
      /\ gate \in [Deliveries -> GateIds \cup {None}]
      /\ sent \in [Deliveries -> Seq(Nat \X Nat \X Nat)]
      /\ lost \in [Deliveries -> SUBSET (Nat \X Nat)]
    BY DEF Base, TypeOK
<1>1. ASSUME NEW d \in Deliveries, (\E p \in Payloads : Receive(d, p)) \/ Redeliver(d) \/ Interrupt(d)
      PROVE  Skipped'
  <2>1. SameForOthers(d) /\ pc'[d] # "ok" /\ stale' = stale
      BY <1>0, <1>1 DEF Receive, Redeliver, Interrupt, SameForOthers, SameFor
  <2> QED BY <2>1, SkippedOfStep
<1>2. ASSUME NEW d \in Deliveries, ResolveDisabled(d) PROVE Skipped'
  <2>1. /\ SameForOthers(d) /\ pc[d] = "resolve" /\ stale \subseteq stale'
        /\ payload' = payload /\ sent' = sent /\ attempt' = attempt
        /\ FirstPage(d) \in stale'
      BY <1>0, <1>2 DEF ResolveDisabled, SameForOthers, SameFor
  <2>2. event[d] = 0
      BY <2>1 DEF Accounted, AccountedOf
  <2>3. ASSUME NEW k \in 1 .. Len(sent[d]) PROVE sent[d][k][1] # attempt[d]
    <3>1. sent[d] \in Seq(Nat \X Nat \X Nat)
        BY <1>0
    <3>2. sent[d][k] \in Nat \X Nat \X Nat
        BY <3>1
    <3>3. Behind(d, sent[d][k])
        BY DEF Progress
    <3>4. attempt[d] \in Nat /\ sent[d][k][1] \in Nat /\ sent[d][k][2] \in Nat
        BY <1>0, <3>2
    <3> QED BY <2>1, <2>2, <3>3, <3>4 DEF Behind
  <2> QED BY <2>1, <2>3, SkippedOfStep DEF FirstPage
<1>3. ASSUME NEW d \in Deliveries, Resolve(d) \/ ResolveFails(d) \/ EndEvent(d) \/ GetUserProfile(d)
                                   \/ DropEvent(d) \/ IsUnknown(d)
      PROVE  Skipped'
  <2>1. SameForOthers(d) /\ pc'[d] # "ok" /\ stale' = stale
      BY <1>0, <1>3 DEF Resolve, ResolveFails, EndEvent, GetUserProfile, DropEvent, IsUnknown,
                        SameForOthers, SameFor
  <2> QED BY <2>1, SkippedOfStep
<1>4. ASSUME NEW d \in Deliveries, NextEvent(d) PROVE Skipped'
  <2>1. SameForOthers(d) /\ pc[d] = "next" /\ gate' = gate /\ stale' = stale
      BY <1>0, <1>4 DEF NextEvent, SameForOthers, SameFor
  <2>2. gate'[d] # None
      BY <2>1, NoneIsNoGate DEF Base, AtAnEvent
  <2> QED BY <2>1, <2>2, SkippedOfStep
<1>5. ASSUME NEW d \in Deliveries, EnsureContact(d) \/ EnsureVia(d) \/ EnsureViaFails(d)
      PROVE  Skipped'
  <2>1. SameForOthers(d) /\ pc'[d] # "ok" /\ stale' = stale
      BY <1>0, <1>5 DEF EnsureContact, EnsureVia, EnsureViaFails, SameForOthers, SameFor
  <2> QED BY <2>1, SkippedOfStep
<1>6. ASSUME NEW d \in Deliveries, IsKnown(d) \/ MarkKnown(d) \/ SetLocale(d) PROVE Skipped'
  <2>1. SameForOthers(d) /\ pc'[d] # "ok" /\ stale' = stale
      BY <1>0, <1>6 DEF IsKnown, MarkKnown, SetLocale, Synced, SameForOthers, SameFor
  <2> QED BY <2>1, SkippedOfStep
<1>7. ASSUME NEW d \in Deliveries, Upload(d) \/ UploadFails(d) PROVE Skipped'
  <2>1. SameForOthers(d) /\ pc'[d] # "ok" /\ stale' = stale
      BY <1>0, <1>7 DEF Upload, UploadFails, NextPart, SameForOthers, SameFor
  <2> QED BY <2>1, SkippedOfStep
<1>8. ASSUME NEW d \in Deliveries, Send(d) \/ SendFails(d) PROVE Skipped'
  <2>1. SameForOthers(d) /\ pc'[d] # "ok" /\ stale' = stale
      BY <1>0, <1>8 DEF Send, SendFails, Delivered, NextPart, SameForOthers, SameFor
  <2> QED BY <2>1, SkippedOfStep
<1>9. ASSUME UNCHANGED <<pc, payload, attempt, gate, sent, stale>> PROVE Skipped'
    BY <1>9 DEF Skipped
<1>10. ASSUME Environment PROVE Skipped'
    BY <1>1, <1>9, <1>10 DEF Environment, CreateGate, SwitchGate, DeleteGate, Expire, Rename
<1>11. ASSUME NEW d \in Deliveries, Process(d) PROVE Skipped'
    BY <1>2, <1>3, <1>4, <1>5, <1>6, <1>7, <1>8, <1>11 DEF Process
<1>12. CASE UNCHANGED vars
    BY <1>9, <1>12
<1> QED BY <1>10, <1>11, <1>12 DEF Next

\* HandleWebhook logs the error of an event and goes on: a payload answered
\* with 200 left out no part but those for which a call of its own failed,
\* or all of them because its gate was found disabled.
THEOREM FailuresBlockNoOther == Spec => []FailureBlocksNoOther
<1>1. ASSUME Accounted, Skipped PROVE FailureBlocksNoOther
  <2>1. ASSUME NEW d \in Deliveries, pc[d] = "ok", gate[d] # None, NEW x \in Places(payload[d])
        PROVE  \/ x \in lost[d]
               \/ \E k \in 1 .. Len(sent[d]) : sent[d][k] = <<attempt[d], x[1], x[2]>>
    <3>1. PICK i \in 1 .. Len(payload[d]) :
             x \in {<<i, j>> : j \in {k \in 1 .. Len(Parts(payload[d][i])) :
                                         Parts(payload[d][i])[k] # "share"}}
        BY <2>1 DEF Places
    <3>2. PICK j \in 1 .. Len(Parts(payload[d][i])) :
             x = <<i, j>> /\ Parts(payload[d][i])[j] # "share"
        BY <3>1
    <3>3. Covered(d, i, j)
        BY <1>1, <2>1 DEF Accounted, AccountedOf, CoveredEvent
    <3> QED BY <3>2, <3>3 DEF Covered
  <2> QED BY <1>1, <2>1 DEF Skipped, FailureBlocksNoOther, FirstPage
<1>2. Init => Skipped
    BY DEF Init, Skipped
<1> QED BY InitBase, StepBase, InitProgress, StepProgress, InitAccounted, StepAccounted,
           StepSkipped, <1>1, <1>2, PTL DEF Spec

-----------------------------------------------------------------------------
(* The pipeline implements WebhookDelivery.                                 *)

\* What the mapping makes of one delivery.
Forwarded(d) == [k \in 1 .. Len(sent[d]) |-> Place(sent[d][k])]

AbstractPhase == [d \in Deliveries |-> Phase(d)]
AbstractContent == [d \in Deliveries |-> Places(payload[d])]
AbstractSent == [d \in Deliveries |-> Forwarded(d)]

PipelineInv == Base /\ Progress /\ Accounted

\* What the tries of a call add to what was sent they add to its places.
LEMMA ForwardedMore ==
    ASSUME Base, NEW d \in Deliveries, NEW n \in Nat, GotCopies(d, n)
    PROVE  Forwarded(d)' = Forwarded(d) \o [k \in 1 .. n |-> <<event[d], part[d]>>]
<1>1. /\ Here(d) \in Nat \X Nat \X Nat /\ <<event[d], part[d]>> \in Nat \X Nat
      /\ Place(Here(d)) = <<event[d], part[d]>>
      /\ sent[d] \in Seq(Nat \X Nat \X Nat)
    BY DEF Base, TypeOK, Here, Place
<1>2. PICK m \in Nat : m = Len(sent[d])
  <2>1. Len(sent[d]) \in Nat
      BY <1>1, LenProperties
  <2> QED BY <2>1
<1>3. /\ sent'[d] \in Seq(Nat \X Nat \X Nat) /\ Len(sent'[d]) = m + n
      /\ \A k \in 1 .. m : sent'[d][k] = sent[d][k]
      /\ \A k \in 1 .. m + n : k \notin 1 .. m => sent'[d][k] = Here(d)
    BY <1>1, <1>2, AddCopies DEF GotCopies
<1>4. Forwarded(d) \in Seq(Nat \X Nat) /\ Len(Forwarded(d)) = m
  <2>1. \A k \in 1 .. m : sent[d][k] \in Nat \X Nat \X Nat
      BY <1>1, <1>2
  <2>2. Forwarded(d) \in [1 .. m -> Nat \X Nat]
      BY <1>2, <2>1 DEF Forwarded, Place
  <2> QED BY <2>2
<1>5. Forwarded(d)' = [k \in 1 .. m + n |-> Place(sent'[d][k])]
    BY <1>3 DEF Forwarded
<1>6. Forwarded(d)' \in Seq(Nat \X Nat) /\ Len(Forwarded(d)') = m + n
  <2>1. \A k \in 1 .. m + n : sent'[d][k] \in Nat \X Nat \X Nat
      BY <1>3
  <2>2. Forwarded(d)' \in [1 .. m + n -> Nat \X Nat]
      BY <1>5, <2>1 DEF Place
  <2> QED BY <2>2
<1>7. PICK t : t = Forwarded(d) \o [k \in 1 .. n |-> <<event[d], part[d]>>]
    OBVIOUS
<1>8. /\ t \in Seq(Nat \X Nat) /\ Len(t) = m + n
      /\ \A k \in 1 .. m : t[k] = Forwarded(d)[k]
      /\ \A k \in 1 .. m + n : k \notin 1 .. m => t[k] = <<event[d], part[d]>>
  <2>1. PICK f \in Seq(Nat \X Nat) : f = Forwarded(d)
      BY <1>4
  <2>2. PICK x \in Nat \X Nat : x = <<event[d], part[d]>>
      BY <1>1
  <2>3. /\ t \in Seq(Nat \X Nat) /\ Len(t) = Len(f) + n
        /\ \A k \in 1 .. Len(f) : t[k] = f[k]
        /\ \A k \in 1 .. Len(t) : k \notin 1 .. Len(f) => t[k] = x
      BY <1>7, <2>1, <2>2, AddCopies
  <2> QED BY <1>4, <2>1, <2>2, <2>3
<1>9. ASSUME NEW k \in 1 .. m + n PROVE Forwarded(d)'[k] = t[k]
  <2>1. Forwarded(d)'[k] = Place(sent'[d][k])
      BY <1>5
  <2>2. CASE k \in 1 .. m
      BY <1>2, <1>3, <1>8, <2>1, <2>2 DEF Forwarded
  <2>3. CASE k \notin 1 .. m
      BY <1>1, <1>3, <1>8, <2>1, <2>3
  <2> QED BY <2>2, <2>3
<1> QED BY <1>6, <1>7, <1>8, <1>9, SeqEqual

\* A call that never reached the messenger adds nothing.
LEMMA NoCopies ==
    ASSUME Base, NEW d \in Deliveries, GotCopies(d, 0)
    PROVE  sent'[d] = sent[d]
<1>1. sent[d] \in Seq(Nat \X Nat \X Nat)
    BY DEF Base, TypeOK
<1>2. [k \in 1 .. 0 |-> Here(d)] = <<>>
    OBVIOUS
<1> QED BY <1>1, <1>2, ConcatEmptySeq DEF GotCopies

LEMMA InitRefines == Init => Abstract!Init
<1> SUFFICES ASSUME Init PROVE Abstract!Init
    OBVIOUS
<1>1. AbstractPhase = [d \in Deliveries |-> "idle"]
    BY DEF Init, AbstractPhase, Phase
<1>2. ASSUME NEW d \in Deliveries PROVE Places(payload[d]) = {} /\ Forwarded(d) = <<>>
  <2>1. payload[d] = <<>> /\ sent[d] = <<>>
      BY DEF Init
  <2> QED BY <2>1 DEF Places, Forwarded
<1>3. /\ AbstractContent = [d \in Deliveries |-> {}]
      /\ AbstractSent = [d \in Deliveries |-> <<>>]
    BY <1>2 DEF AbstractContent, AbstractSent
<1> QED BY <1>1, <1>3 DEF Init, Abstract!Init, AbstractPhase, AbstractContent, AbstractSent, Forwarded

\* The other deliveries stay where they are.
LEMMA OthersRefine ==
    ASSUME NEW d \in Deliveries, SameForOthers(d)
    PROVE  /\ AbstractPhase' = [AbstractPhase EXCEPT ![d] = Phase(d)']
           /\ AbstractContent' = [AbstractContent EXCEPT ![d] = Places(payload'[d])]
           /\ payload'[d] = payload[d] => AbstractContent' = AbstractContent
           /\ AbstractSent' = [AbstractSent EXCEPT ![d] = Forwarded(d)']
           /\ sent'[d] = sent[d] => AbstractSent' = AbstractSent
<1>1. \A c \in Deliveries \ {d} : /\ Phase(c)' = Phase(c) /\ Places(payload'[c]) = Places(payload[c])
                                  /\ Forwarded(c)' = Forwarded(c)
    BY DEF SameForOthers, SameFor, Phase, Forwarded
<1>2. AbstractPhase' = [AbstractPhase EXCEPT ![d] = Phase(d)']
    BY <1>1 DEF AbstractPhase
<1>3. AbstractContent' = [AbstractContent EXCEPT ![d] = Places(payload'[d])]
    BY <1>1 DEF AbstractContent
<1>4. AbstractSent' = [AbstractSent EXCEPT ![d] = Forwarded(d)']
    BY <1>1 DEF AbstractSent
<1>5. payload'[d] = payload[d] => AbstractContent' = AbstractContent
    BY <1>1 DEF AbstractContent
<1>6. sent'[d] = sent[d] => Forwarded(d)' = Forwarded(d)
    BY DEF Forwarded
<1>7. sent'[d] = sent[d] => AbstractSent' = AbstractSent
    BY <1>1, <1>6 DEF AbstractSent
<1> QED BY <1>2, <1>3, <1>4, <1>5, <1>7

\* The part in hand is a place of the payload, which the messenger never got
\* unless the delivery was cut short.
LEMMA HereIsNew ==
    ASSUME PipelineInv, NEW d \in Deliveries, ReadyToSend(d)
    PROVE  /\ <<event[d], part[d]>> \in Places(payload[d])
           /\ payload[d] \in Payloads
           /\ d \notin interrupted =>
                 \A k \in 1 .. Len(sent[d]) : Place(sent[d][k]) # <<event[d], part[d]>>
<1>1. /\ pc[d] \in {"send", "media"} /\ part[d] <= Len(Content(d))
      /\ Content(d)[part[d]] \in {"text", "media"}
    BY DEF ReadyToSend, PipelineInv, Accounted, AccountedOf
<1>2. /\ payload[d] \in Payloads /\ event[d] \in 1 .. Len(payload[d])
      /\ part[d] \in Nat \ {0} /\ Len(Content(d)) \in Nat
    BY <1>1, CurrentEvent DEF PipelineInv, Base, TypeOK, AtAnEvent, InEvent
<1>3. part[d] \in 1 .. Len(Parts(payload[d][event[d]]))
      /\ Parts(payload[d][event[d]])[part[d]] # "share"
    BY <1>1, <1>2 DEF Content, Current
<1>4. <<event[d], part[d]>> \in Places(payload[d])
    BY <1>2, <1>3 DEF Places
<1>5. ASSUME d \notin interrupted, NEW k \in 1 .. Len(sent[d])
      PROVE  Place(sent[d][k]) # <<event[d], part[d]>>
  <2>1. sent[d][k][1] = attempt[d] /\ Behind(d, sent[d][k])
      BY <1>5 DEF PipelineInv, Progress
  <2>2. attempt[d] \in Nat
      BY DEF PipelineInv, Base, TypeOK
  <2> QED BY <1>2, <2>1, <2>2 DEF Behind, Place
<1> QED BY <1>2, <1>4, <1>5

\* Steps of one delivery.
Delivers(d) == Process(d) \/ (\E p \in Payloads : Receive(d, p)) \/ Redeliver(d) \/ Interrupt(d)

LEMMA OwnRefines ==
    ASSUME PipelineInv, NEW d \in Deliveries, Delivers(d)
    PROVE  Abstract!NextAtMostOneCall \/ UNCHANGED Abstract!vars
<1> USE DEF gateTable, gateway, redis, request, cursor, record, Goto
<1> DEFINE Aim == Abstract!NextAtMostOneCall \/ UNCHANGED Abstract!vars
<1>0. /\ pc \in [Deliveries -> {"idle"} \cup Running \cup Answered]
      /\ payload \in [Deliveries -> Seq(Event)] /\ attempt \in [Deliveries -> 0 .. MaxAttempts]
      /\ event \in [Deliveries -> Nat] /\ part \in [Deliveries -> Nat \ {0}]
      /\ sent \in [Deliveries -> Seq(Nat \X Nat \X Nat)]
      /\ lost \in [Deliveries -> SUBSET (Nat \X Nat)]
    BY DEF PipelineInv, Base, TypeOK
<1>1. AbstractPhase[d] = Phase(d) /\ AbstractContent[d] = Places(payload[d])
      /\ AbstractSent[d] = Forwarded(d)
    BY DEF AbstractPhase, AbstractContent, AbstractSent
\* A step that changes nothing the mapping sees, accepts or refuses.
<1>2. ASSUME SameForOthers(d), payload'[d] = payload[d], sent'[d] = sent[d],
             UNCHANGED interrupted, Phase(d) = "working",
             Phase(d)' \in {"working", "accepted", "refused"}
      PROVE  Aim
  <2>1. /\ AbstractContent' = AbstractContent /\ AbstractSent' = AbstractSent
        /\ AbstractPhase' = [AbstractPhase EXCEPT ![d] = Phase(d)']
      BY <1>2, OthersRefine
  <2>2. CASE Phase(d)' = "working"
    <3>1. AbstractPhase' = AbstractPhase
        BY <1>1, <1>2, <2>1, <2>2 DEF AbstractPhase
    <3> QED BY <1>2, <2>1, <3>1
            DEF Abstract!vars, AbstractPhase, AbstractContent, AbstractSent, Forwarded
  <2>3. CASE Phase(d)' = "refused"
    <3>1. Abstract!Refuse(d)
        BY <1>1, <1>2, <2>1, <2>3
           DEF Abstract!Refuse, AbstractPhase, AbstractContent, AbstractSent, Forwarded
    <3> QED BY <3>1 DEF Abstract!NextAtMostOneCall
  <2>4. CASE Phase(d)' = "accepted"
    <3>1. Abstract!Accept(d)
        BY <1>1, <1>2, <2>1, <2>4
           DEF Abstract!Accept, AbstractPhase, AbstractContent, AbstractSent, Forwarded
    <3> QED BY <3>1 DEF Abstract!NextAtMostOneCall
  <2> QED BY <1>2, <2>2, <2>3, <2>4
\* A step that forwards.
<1>3. ASSUME ReadyToSend(d), SameForOthers(d), payload'[d] = payload[d], UNCHANGED interrupted,
             NEW n \in 1 .. MaxTries, GotCopies(d, n), pc'[d] = "send"
      PROVE  Aim
  <2>0. n \in Nat
      BY TriesAreNats
  <2>1. PICK x \in UNION {Places(p) : p \in Payloads} :
             x = <<event[d], part[d]>> /\ x \in Places(payload[d])
      BY <1>3, HereIsNew
  <2>2. Phase(d) = "working" /\ Phase(d)' = "working"
      BY <1>3 DEF Phase, ReadyToSend
  <2>3. Forwarded(d)' = Forwarded(d) \o [k \in 1 .. n |-> x]
      BY <1>3, <2>0, <2>1, ForwardedMore DEF PipelineInv
  <2>4. /\ AbstractContent' = AbstractContent /\ AbstractPhase' = AbstractPhase
        /\ AbstractSent' = [AbstractSent EXCEPT ![d] = AbstractSent[d] \o [k \in 1 .. n |-> x]]
      BY <1>1, <1>3, <2>2, <2>3, OthersRefine DEF AbstractPhase
  <2>5. Abstract!Forward(d, x)
      BY <1>1, <1>3, <2>1, <2>2, <2>4
         DEF Abstract!Forward, AbstractPhase, AbstractContent, AbstractSent, Forwarded
  <2>6. Abstract!MayRefuse(d)
      BY <2>4 DEF Abstract!MayRefuse, AbstractPhase
  <2>7. x \notin Abstract!Got(d) \/ d \in interrupted
    <3>1. Len(Forwarded(d)) = Len(sent[d])
        BY <1>0 DEF Forwarded
    <3>2. d \notin interrupted => \A k \in 1 .. Len(sent[d]) : Forwarded(d)[k] # x
        BY <1>3, <2>1, HereIsNew DEF Forwarded
    <3>3. d \notin interrupted =>
             x \notin {AbstractSent[d][k] : k \in 1 .. Len(AbstractSent[d])}
        BY <1>1, <3>1, <3>2
    <3> QED BY <3>3 DEF Abstract!Got, AbstractSent, Forwarded
  <2> QED BY <2>1, <2>5, <2>6, <2>7 DEF Abstract!NextAtMostOneCall
<1>4. ASSUME NEW p \in Payloads, Receive(d, p) PROVE Aim
  <2>1. /\ SameForOthers(d) /\ pc[d] = "idle" /\ pc'[d] = "resolve" /\ payload'[d] = p
        /\ sent'[d] = sent[d] /\ UNCHANGED interrupted
      BY <1>0, <1>4 DEF Receive, SameForOthers, SameFor
  <2>2. Phase(d) = "idle" /\ Phase(d)' = "working"
      BY <2>1 DEF Phase
  <2>3. /\ AbstractContent' = [AbstractContent EXCEPT ![d] = Places(p)]
        /\ AbstractPhase' = [AbstractPhase EXCEPT ![d] = "working"]
        /\ AbstractSent' = AbstractSent
      BY <2>1, <2>2, OthersRefine
  <2>4. Places(p) \in SUBSET UNION {Places(q) : q \in Payloads}
      OBVIOUS
  <2>5. Abstract!Post(d, Places(p))
      BY <1>1, <2>1, <2>2, <2>3
         DEF Abstract!Post, AbstractPhase, AbstractContent, AbstractSent, Forwarded
  <2> QED BY <2>4, <2>5 DEF Abstract!NextAtMostOneCall, Abstract!Meta
<1>5. ASSUME Redeliver(d) PROVE Aim
  <2>1. /\ SameForOthers(d) /\ pc[d] = "error" /\ pc'[d] = "resolve" /\ payload'[d] = payload[d]
        /\ sent'[d] = sent[d] /\ UNCHANGED interrupted
      BY <1>0, <1>5 DEF Redeliver, SameForOthers, SameFor
  <2>2. Phase(d) = "refused" /\ Phase(d)' = "working"
      BY <2>1 DEF Phase
  <2>3. Abstract!Repeat(d)
      BY <1>1, <2>1, <2>2, OthersRefine
         DEF Abstract!Repeat, AbstractPhase, AbstractContent, AbstractSent, Forwarded
  <2> QED BY <2>3 DEF Abstract!NextAtMostOneCall, Abstract!Meta
<1>6. ASSUME Interrupt(d) PROVE Aim
  <2>1. /\ SameForOthers(d) /\ pc[d] \in Running /\ pc'[d] = "error" /\ payload'[d] = payload[d]
        /\ sent'[d] = sent[d] /\ interrupted' = interrupted \cup {d}
      BY <1>0, <1>6 DEF Interrupt, SameForOthers, SameFor
  <2>2. Phase(d) = "working" /\ Phase(d)' = "refused"
      BY <2>1 DEF Phase, Running
  <2>3. Abstract!Cut(d)
      BY <1>1, <2>1, <2>2, OthersRefine
         DEF Abstract!Cut, AbstractPhase, AbstractContent, AbstractSent, Forwarded
  <2> QED BY <2>3 DEF Abstract!NextAtMostOneCall, Abstract!Meta
\* Stages of a request that is worked on or answered.
<1>7. ASSUME pc[d] \in Running PROVE Phase(d) = "working"
    BY <1>7 DEF Phase, Running
<1>8. ASSUME pc'[d] \in Running \cup Answered PROVE Phase(d)' \in {"working", "accepted", "refused"}
    BY <1>8 DEF Phase, Running, Answered
<1>9. ASSUME SameForOthers(d), payload'[d] = payload[d], sent'[d] = sent[d], UNCHANGED interrupted,
             pc[d] \in Running, pc'[d] \in Running \cup Answered
      PROVE  Aim
    BY <1>2, <1>7, <1>8, <1>9
<1>15. ASSUME NextEvent(d) PROVE Aim
  <2>1. /\ SameForOthers(d) /\ payload'[d] = payload[d] /\ sent'[d] = sent[d] /\ UNCHANGED interrupted
        /\ pc[d] \in Running /\ pc'[d] \in Running \cup Answered
      BY <1>0, <1>15 DEF NextEvent, SameForOthers, SameFor, Running, Answered
  <2> QED BY <1>9, <2>1
<1>10. ASSUME Resolve(d) PROVE Aim
  <2>1. /\ SameForOthers(d) /\ payload'[d] = payload[d] /\ sent'[d] = sent[d] /\ UNCHANGED interrupted
        /\ pc[d] \in Running /\ pc'[d] \in Running \cup Answered
      BY <1>0, <1>10 DEF Resolve, SameForOthers, SameFor, Running, Answered
  <2> QED BY <1>9, <2>1
<1>16. ASSUME ResolveDisabled(d) PROVE Aim
  <2>1. /\ SameForOthers(d) /\ payload'[d] = payload[d] /\ sent'[d] = sent[d] /\ UNCHANGED interrupted
        /\ pc[d] \in Running /\ pc'[d] \in Running \cup Answered
      BY <1>0, <1>16 DEF ResolveDisabled, SameForOthers, SameFor, Running, Answered
  <2> QED BY <1>9, <2>1
<1>17. ASSUME ResolveFails(d) PROVE Aim
  <2>1. /\ SameForOthers(d) /\ payload'[d] = payload[d] /\ sent'[d] = sent[d] /\ UNCHANGED interrupted
        /\ pc[d] \in Running /\ pc'[d] \in Running \cup Answered
      BY <1>0, <1>17 DEF ResolveFails, SameForOthers, SameFor, Running, Answered
  <2> QED BY <1>9, <2>1
<1>18. ASSUME EndEvent(d) PROVE Aim
  <2>1. /\ SameForOthers(d) /\ payload'[d] = payload[d] /\ sent'[d] = sent[d] /\ UNCHANGED interrupted
        /\ pc[d] \in Running /\ pc'[d] \in Running \cup Answered
      BY <1>0, <1>18 DEF EndEvent, SameForOthers, SameFor, Running, Answered
  <2> QED BY <1>9, <2>1
<1>11. ASSUME GetUserProfile(d) \/ DropEvent(d) \/ IsUnknown(d) \/ EnsureContact(d)
              \/ EnsureVia(d) \/ EnsureViaFails(d)
       PROVE  Aim
  <2>1. /\ SameForOthers(d) /\ payload'[d] = payload[d] /\ sent'[d] = sent[d] /\ UNCHANGED interrupted
        /\ pc[d] \in Running /\ pc'[d] \in Running \cup Answered
      BY <1>0, <1>11 DEF GetUserProfile, DropEvent, IsUnknown, EnsureContact, EnsureVia,
                         EnsureViaFails, SameForOthers, SameFor, Running
  <2> QED BY <1>9, <2>1
<1>12. ASSUME IsKnown(d) \/ MarkKnown(d) \/ SetLocale(d) PROVE Aim
  <2>1. /\ SameForOthers(d) /\ payload'[d] = payload[d] /\ sent'[d] = sent[d] /\ UNCHANGED interrupted
        /\ pc[d] \in Running /\ pc'[d] \in Running \cup Answered
      BY <1>0, <1>12 DEF IsKnown, MarkKnown, SetLocale, Synced, SameForOthers, SameFor, Running
  <2> QED BY <1>9, <2>1
<1>13. ASSUME Upload(d) \/ UploadFails(d) PROVE Aim
  <2>1. /\ SameForOthers(d) /\ payload'[d] = payload[d] /\ sent'[d] = sent[d] /\ UNCHANGED interrupted
        /\ pc[d] \in Running /\ pc'[d] \in Running \cup Answered
      BY <1>0, <1>13 DEF Upload, UploadFails, AtAttachment, NextPart, SameForOthers, SameFor, Running
  <2> QED BY <1>9, <2>1
<1>14. ASSUME Send(d) \/ SendFails(d) PROVE Aim
  <2>1. PICK n \in 0 .. MaxTries : Delivered(d, n)
      BY <1>14, TriesAreNats DEF Send, SendFails
  <2>2. GotCopies(d, n) /\ \A c \in Deliveries \ {d} : sent'[c] = sent[c]
      BY <1>0, <2>1 DEF Delivered, GotCopies
  <2>3. /\ ReadyToSend(d) /\ SameForOthers(d) /\ payload'[d] = payload[d] /\ UNCHANGED interrupted
        /\ pc[d] \in Running /\ pc'[d] = "send"
      BY <1>0, <1>14, <2>2 DEF Send, SendFails, NextPart, ReadyToSend, SameForOthers, SameFor, Running
  <2>4. CASE n = 0
    <3>1. sent'[d] = sent[d]
        BY <2>2, <2>4, NoCopies DEF PipelineInv
    <3>2. pc'[d] \in Running \cup Answered
        BY <2>3 DEF Running
    <3> QED BY <1>9, <2>3, <3>1, <3>2
  <2>5. CASE n \in 1 .. MaxTries
      BY <1>3, <2>2, <2>3, <2>5
  <2>6. n = 0 \/ n \in 1 .. MaxTries
      BY MaxTriesPositive
  <2> QED BY <2>4, <2>5, <2>6
<1> QED BY <1>4, <1>5, <1>6, <1>10, <1>11, <1>12, <1>13, <1>14, <1>15, <1>16, <1>17, <1>18
       DEF Delivers, Process

LEMMA StepRefines ==
    PipelineInv /\ [Next]_vars => [Abstract!NextAtMostOneCall]_(Abstract!vars)
<1> SUFFICES ASSUME PipelineInv, [Next]_vars
             PROVE  Abstract!NextAtMostOneCall \/ UNCHANGED Abstract!vars
    OBVIOUS
<1>1. ASSUME NEW d \in Deliveries, Delivers(d)
      PROVE  Abstract!NextAtMostOneCall \/ UNCHANGED Abstract!vars
    BY <1>1, OwnRefines
<1>2. ASSUME UNCHANGED <<pc, payload, sent, interrupted>> PROVE UNCHANGED Abstract!vars
    BY <1>2 DEF Abstract!vars, Phase
<1>3. CASE UNCHANGED vars
    BY <1>2, <1>3 DEF vars, request, record
<1>4. CASE Environment
    BY <1>1, <1>2, <1>4 DEF Environment, Delivers, CreateGate, SwitchGate, DeleteGate, Expire, Rename,
                            request, record
<1> QED BY <1>1, <1>3, <1>4 DEF Next, Delivers

\* Whatever fails, a step of the pipeline forwards a part that the messenger
\* never got, unless the delivery was cut short: it implements
\* AtMostOneCall.
THEOREM PipelineImplementsAtMostOneCall == Spec => NeverForwardedAgain
<1>1. Init => PipelineInv
    BY InitBase, InitProgress, InitAccounted DEF PipelineInv
<1>2. PipelineInv /\ [Next]_vars => PipelineInv'
    BY StepBase, StepProgress, StepAccounted DEF PipelineInv
<1>3. Spec => Abstract!Init /\ [][Abstract!NextAtMostOneCall]_(Abstract!vars)
    BY <1>1, <1>2, InitRefines, StepRefines, PTL DEF Spec
<1> QED BY <1>3 DEF NeverForwardedAgain, Abstract!AtMostOneCall

-----------------------------------------------------------------------------
(* CallsRunOut.                                                             *)

\* The loops stay within the payload and within the event.
WithinBounds(d) ==
    /\ pc[d] = "next" => event[d] \in 0 .. Len(payload[d])
    /\ pc[d] = "send" => part[d] \in 1 .. Len(Content(d)) + 1

CallsInv == PipelineInv /\ \A d \in Deliveries : WithinBounds(d)

\* The steps that a synchronisation can take.
LEMMA StepsOfSync ==
    /\ DOMAIN SyncSteps = {"profile", "known", "contact", "via", "mark", "locale"}
    /\ SyncSteps["profile"] = 6 /\ SyncSteps["known"] = 5 /\ SyncSteps["contact"] = 4
    /\ SyncSteps["via"] = 3 /\ SyncSteps["mark"] = 2 /\ SyncSteps["locale"] = 1
BY DEF SyncSteps

\* The steps in hand at each stage, before a step and after it.
LEMMA StepsOfStages ==
    ASSUME NEW d \in Deliveries, NEW n \in Nat, n = Len(Content(d))
    PROVE  /\ round[d] = 1 =>
                 /\ pc[d] = "profile" => StepsInHand(d) = 2 * n + 13
                 /\ pc[d] = "known" => StepsInHand(d) = 2 * n + 12
                 /\ pc[d] = "contact" => StepsInHand(d) = 2 * n + 11
                 /\ pc[d] = "via" => StepsInHand(d) = 2 * n + 10
                 /\ pc[d] = "mark" => StepsInHand(d) = 2 * n + 9
                 /\ pc[d] = "locale" => StepsInHand(d) = 2 * n + 8
           /\ round[d] = 2 =>
                 /\ pc[d] = "profile" => StepsInHand(d) = 2 * n + 7
                 /\ pc[d] = "known" => StepsInHand(d) = 2 * n + 6
                 /\ pc[d] = "contact" => StepsInHand(d) = 2 * n + 5
                 /\ pc[d] = "via" => StepsInHand(d) = 2 * n + 4
                 /\ pc[d] = "mark" => StepsInHand(d) = 2 * n + 3
                 /\ pc[d] = "locale" => StepsInHand(d) = 2 * n + 2
<1>1. \A s \in DOMAIN SyncSteps :
         pc[d] = s => StepsInHand(d) = 2 * n + 6 * (2 - round[d]) + SyncSteps[s] + 1
    BY StepsOfSync DEF StepsInHand
<1> QED BY <1>1, StepsOfSync

LEMMA StepsOfStagesNext ==
    ASSUME NEW d \in Deliveries, NEW n \in Nat, n = Len(Content(d)')
    PROVE  /\ round'[d] = 1 =>
                 /\ pc'[d] = "profile" => StepsInHand(d)' = 2 * n + 13
                 /\ pc'[d] = "known" => StepsInHand(d)' = 2 * n + 12
                 /\ pc'[d] = "contact" => StepsInHand(d)' = 2 * n + 11
                 /\ pc'[d] = "via" => StepsInHand(d)' = 2 * n + 10
                 /\ pc'[d] = "mark" => StepsInHand(d)' = 2 * n + 9
                 /\ pc'[d] = "locale" => StepsInHand(d)' = 2 * n + 8
           /\ round'[d] = 2 =>
                 /\ pc'[d] = "profile" => StepsInHand(d)' = 2 * n + 7
                 /\ pc'[d] = "known" => StepsInHand(d)' = 2 * n + 6
                 /\ pc'[d] = "contact" => StepsInHand(d)' = 2 * n + 5
                 /\ pc'[d] = "via" => StepsInHand(d)' = 2 * n + 4
                 /\ pc'[d] = "mark" => StepsInHand(d)' = 2 * n + 3
                 /\ pc'[d] = "locale" => StepsInHand(d)' = 2 * n + 2
<1>1. \A s \in DOMAIN SyncSteps :
         pc'[d] = s => StepsInHand(d)' = 2 * n + 6 * (2 - round'[d]) + SyncSteps[s] + 1
    BY StepsOfSync DEF StepsInHand
<1> QED BY <1>1, StepsOfSync

LEMMA StepsOfParts ==
    ASSUME NEW d \in Deliveries
    PROVE  /\ \A n, j \in Nat : n = Len(Content(d)) /\ j = part[d] =>
                 /\ pc[d] = "send" => StepsInHand(d) = 2 * n + 3 - 2 * j
                 /\ pc[d] = "media" => StepsInHand(d) = 2 * n + 2 - 2 * j
           /\ pc[d] = "resolve" => StepsInHand(d) = 1
           /\ pc[d] = "next" => StepsInHand(d) = 0
BY StepsOfSync DEF StepsInHand

LEMMA StepsOfPartsNext ==
    ASSUME NEW d \in Deliveries
    PROVE  /\ \A n, j \in Nat : n = Len(Content(d)') /\ j = part'[d] =>
                 /\ pc'[d] = "send" => StepsInHand(d)' = 2 * n + 3 - 2 * j
                 /\ pc'[d] = "media" => StepsInHand(d)' = 2 * n + 2 - 2 * j
           /\ pc'[d] = "resolve" => StepsInHand(d)' = 1
           /\ pc'[d] = "next" => StepsInHand(d)' = 0
BY StepsOfSync DEF StepsInHand

LEMMA ContentInHand ==
    ASSUME CallsInv, NEW d \in Deliveries, pc[d] \in InEvent
    PROVE  Len(Content(d)) \in Nat
BY CurrentEvent DEF CallsInv, PipelineInv

\* Who is at work is within the payload, and has as many steps in hand as a
\* natural number tells.
LEMMA SomeStepsLeft ==
    ASSUME CallsInv, NEW d \in Deliveries, pc[d] \in Running
    PROVE  \E left \in Nat \ {0}, hand \in Nat :
              /\ left = Len(payload[d]) + 1 - event[d]
              /\ StepsInHand(d) = hand
              /\ LeftToDo(d) = <<left, hand>>
<1>0. Base /\ AccountedOf(d) /\ WithinBounds(d)
    BY DEF CallsInv, PipelineInv, Accounted
<1>1. PICK l \in Nat : l = Len(payload[d])
    BY <1>0, PayloadEvents DEF Base, AtAnEvent, Running
<1>2. PICK e \in Nat : e = event[d]
    BY <1>0 DEF Base, TypeOK
<1>3. e \in 0 .. l
  <2>1. CASE pc[d] \in InEvent
      BY <1>0, <1>1, <1>2, <2>1 DEF Base, AtAnEvent
  <2>2. CASE pc[d] \in {"next", "resolve"}
      BY <1>0, <1>1, <1>2, <2>2 DEF AccountedOf, WithinBounds
  <2> QED BY <2>1, <2>2 DEF Running, InEvent
<1>4. StepsInHand(d) \in Nat
  <2>1. CASE pc[d] \in {"send", "media"}
    <3>1. PICK n \in Nat : n = Len(Content(d))
        BY <2>1, ContentInHand DEF InEvent
    <3>2. PICK p \in Nat \ {0} : p = part[d]
        BY <1>0 DEF Base, TypeOK
    <3>3. p \in 1 .. n + 1 /\ (pc[d] = "media" => p \in 1 .. n)
        BY <1>0, <2>1, <3>1, <3>2 DEF AccountedOf, WithinBounds
    <3>5. /\ pc[d] = "send" => StepsInHand(d) = 2 * n + 3 - 2 * p
          /\ pc[d] = "media" => StepsInHand(d) = 2 * n + 2 - 2 * p
        BY <3>1, <3>2, StepsOfParts
    <3> QED BY <2>1, <3>3, <3>5
  <2>2. CASE pc[d] \in {"next", "resolve"}
      BY <2>2, StepsOfParts
  <2>3. CASE pc[d] \in InEvent \ {"send", "media"}
    <3>1. round[d] \in {1, 2}
        BY <1>0 DEF Base, TypeOK
    <3>2. PICK n \in Nat : n = Len(Content(d))
        BY <2>3, ContentInHand
    <3> QED BY <2>3, <3>1, <3>2, StepsOfStages DEF InEvent
  <2> QED BY <2>1, <2>2, <2>3 DEF Running, InEvent
<1>5. PICK left \in Nat \ {0} : left = l + 1 - e
    BY <1>3
<1>6. PICK hand \in Nat : hand = StepsInHand(d)
    BY <1>4
<1>7. LeftToDo(d) = <<left, hand>>
    BY <1>1, <1>2, <1>5, <1>6 DEF LeftToDo
<1> QED BY <1>1, <1>2, <1>5, <1>6, <1>7

\* A step that brings a delivery nearer to its answer.
Nearer(d) == LeftToDo(d)' \in Nat \X Nat /\ Fewer(LeftToDo(d)', LeftToDo(d))

\* The posting is answered.
LEMMA NoStepsLeft ==
    ASSUME CallsInv, NEW d \in Deliveries, pc[d] \in Running, pc'[d] \in Answered
    PROVE  Nearer(d) /\ WithinBounds(d)'
<1>1. LeftToDo(d)' = <<0, 0>>
    BY DEF LeftToDo, Answered, Running
<1>2. PICK left \in Nat \ {0}, hand \in Nat : LeftToDo(d) = <<left, hand>>
    BY SomeStepsLeft
<1>3. Nearer(d)
    BY <1>1, <1>2 DEF Nearer, Fewer
<1> QED BY <1>3 DEF WithinBounds, Answered

\* The delivery goes on at its event.
LEMMA FewerAtEvent ==
    ASSUME CallsInv, NEW d \in Deliveries, pc[d] \in Running, pc'[d] \in Running,
           payload'[d] = payload[d], event'[d] = event[d],
           StepsInHand(d)' \in Nat, StepsInHand(d)' < StepsInHand(d)
    PROVE  Nearer(d)
<1>1. PICK left \in Nat \ {0}, hand \in Nat :
         /\ left = Len(payload[d]) + 1 - event[d]
         /\ StepsInHand(d) = hand
         /\ LeftToDo(d) = <<left, hand>>
    BY SomeStepsLeft
<1>2. PICK b \in Nat : b = StepsInHand(d)'
    OBVIOUS
<1>3. LeftToDo(d)' = <<left, b>>
    BY <1>1, <1>2 DEF LeftToDo
<1> QED BY <1>1, <1>2, <1>3 DEF Nearer, Fewer

\* The synchronisation of the sender ends, or starts again.
LEMMA FewerWhenSynced ==
    ASSUME CallsInv, NEW d \in Deliveries, pc[d] \in {"known", "mark", "locale"}, Synced(d),
           payload'[d] = payload[d], event'[d] = event[d]
    PROVE  Nearer(d) /\ WithinBounds(d)'
<1>0. Base
    BY DEF CallsInv, PipelineInv
<1>1. round[d] \in {1, 2} /\ Rounds(d) \in {1, 2} /\ pc[d] \in Running
    BY <1>0 DEF Base, TypeOK, Rounds, Running
<1>2. PICK n \in Nat : n = Len(Content(d)) /\ n = Len(Content(d)')
    BY ContentInHand DEF InEvent, Content, Current
<1>3. PICK hand \in Nat : hand = StepsInHand(d) /\ hand > 2 * n + 1
                          /\ (round[d] = 1 => hand > 2 * n + 7)
  <2>1. pc[d] = "known" \/ pc[d] = "mark" \/ pc[d] = "locale"
      OBVIOUS
  <2>2. CASE round[d] = 1
    <3>1. StepsInHand(d) \in {2 * n + 12, 2 * n + 9, 2 * n + 8}
        BY <1>2, <2>1, <2>2, StepsOfStages
    <3> QED BY <2>2, <3>1
  <2>3. CASE round[d] = 2
    <3>1. StepsInHand(d) \in {2 * n + 6, 2 * n + 3, 2 * n + 2}
        BY <1>2, <2>1, <2>3, StepsOfStages
    <3> QED BY <2>3, <3>1
  <2> QED BY <1>1, <2>2, <2>3
<1>4. CASE round[d] < Rounds(d)
  <2>1. pc'[d] = "profile" /\ round[d] = 1 /\ round'[d] = 2
      BY <1>0, <1>1, <1>4 DEF Synced, Goto, Base, TypeOK
  <2>2. StepsInHand(d)' = 2 * n + 7
      BY <1>2, <2>1, StepsOfStagesNext
  <2>3. StepsInHand(d)' \in Nat /\ StepsInHand(d)' < StepsInHand(d)
      BY <1>3, <2>1, <2>2
  <2>4. Nearer(d)
      BY <1>1, <2>1, <2>3, FewerAtEvent DEF Running
  <2> QED BY <2>1, <2>4 DEF WithinBounds
<1>5. CASE ~ (round[d] < Rounds(d))
  <2>1. pc'[d] = "send" /\ part'[d] = 1
      BY <1>0, <1>5 DEF Synced, Goto, Base, TypeOK
  <2>2. StepsInHand(d)' = 2 * n + 1
      BY <1>2, <2>1, StepsOfPartsNext
  <2>3. StepsInHand(d)' \in Nat /\ StepsInHand(d)' < StepsInHand(d)
      BY <1>3, <2>2
  <2>4. Nearer(d)
      BY <1>1, <2>1, <2>3, FewerAtEvent DEF Running
  <2>5. part'[d] \in 1 .. Len(Content(d)') + 1
      BY <1>2, <2>1
  <2> QED BY <2>1, <2>4, <2>5 DEF WithinBounds
<1> QED BY <1>4, <1>5

\* The event in hand ends.
LEMMA FewerWhenDone ==
    ASSUME CallsInv, NEW d \in Deliveries, pc[d] \in InEvent \ {"media"}, pc'[d] = "next",
           payload'[d] = payload[d], event'[d] = event[d]
    PROVE  Nearer(d) /\ WithinBounds(d)'
<1>0. Base /\ WithinBounds(d) /\ payload[d] \in Payloads /\ event[d] \in 1 .. Len(payload[d])
    BY DEF CallsInv, PipelineInv, Base, AtAnEvent, InEvent
<1>1. StepsInHand(d)' = 0
    BY StepsOfPartsNext
<1>2. StepsInHand(d) > 0
  <2>0. PICK n \in Nat : n = Len(Content(d))
      BY ContentInHand
  <2>1. CASE pc[d] = "send"
    <3>2. PICK p \in 1 .. n + 1 : p = part[d]
        BY <1>0, <2>0, <2>1 DEF WithinBounds
    <3>3. StepsInHand(d) = 2 * n + 3 - 2 * p
      <4>1. p \in Nat
          OBVIOUS
      <4> QED BY <2>0, <2>1, <3>2, <4>1, StepsOfParts
    <3> QED BY <3>3
  <2>2. CASE pc[d] # "send"
    <3>1. round[d] \in {1, 2}
        BY <1>0 DEF Base, TypeOK
    <3> QED BY <2>0, <2>2, <3>1, StepsOfStages DEF InEvent
  <2> QED BY <2>1, <2>2
<1>3. Nearer(d)
    BY <1>1, <1>2, FewerAtEvent DEF InEvent, Running
<1>4. event'[d] \in 0 .. Len(payload'[d])
    BY <1>0, PayloadEvents
<1> QED BY <1>3, <1>4 DEF WithinBounds

\* The part in hand is done with, or its file is copied.
LEMMA FewerParts ==
    ASSUME CallsInv, NEW d \in Deliveries, pc[d] \in {"send", "media"},
           pc[d] = "send" => part[d] <= Len(Content(d)),
           payload'[d] = payload[d], event'[d] = event[d],
           \/ pc'[d] = "send" /\ part'[d] = part[d] + 1
           \/ pc[d] = "send" /\ pc'[d] = "media" /\ part'[d] = part[d]
    PROVE  Nearer(d) /\ WithinBounds(d)'
<1>0. Base /\ AccountedOf(d) /\ WithinBounds(d)
    BY DEF CallsInv, PipelineInv, Accounted
<1>1. PICK n \in Nat : n = Len(Content(d)) /\ n = Len(Content(d)')
    BY ContentInHand DEF InEvent, Content, Current
<1>2. PICK p \in 1 .. n : p = part[d]
  <2>1. part[d] \in Nat \ {0} /\ part[d] <= n
      BY <1>0, <1>1 DEF Base, TypeOK, AccountedOf
  <2> QED BY <2>1
<1>3. StepsInHand(d)' \in Nat /\ StepsInHand(d)' < StepsInHand(d)
  <2>1. /\ pc[d] = "send" => StepsInHand(d) = 2 * n + 3 - 2 * p
        /\ pc[d] = "media" => StepsInHand(d) = 2 * n + 2 - 2 * p
    <3>1. p \in Nat
        OBVIOUS
    <3> QED BY <1>1, <1>2, <3>1, StepsOfParts
  <2>2. PICK q \in Nat : q = part'[d] /\ q \in {p, p + 1}
      BY <1>2
  <2>3. /\ pc'[d] = "send" => StepsInHand(d)' = 2 * n + 3 - 2 * q
        /\ pc'[d] = "media" => StepsInHand(d)' = 2 * n + 2 - 2 * q
      BY <1>1, <2>2, StepsOfPartsNext
  <2>4. \/ pc'[d] = "send" /\ q = p + 1
        \/ pc[d] = "send" /\ pc'[d] = "media" /\ q = p
      BY <1>2, <2>2
  <2> QED BY <2>1, <2>3, <2>4
<1>4. Nearer(d)
    BY <1>3, FewerAtEvent DEF Running
<1>5. pc'[d] = "send" => part'[d] \in 1 .. Len(Content(d)') + 1
    BY <1>1, <1>2
<1> QED BY <1>4, <1>5 DEF WithinBounds

\* Every step of a delivery brings it nearer to its answer.
LEMMA OneCallLess ==
    ASSUME CallsInv, NEW d \in Deliveries, Delivers(d)
    PROVE  /\ WithinBounds(d)' /\ \A c \in Deliveries \ {d} : SameFor(c) /\ round'[c] = round[c]
           /\ pc[d] \in Running => Nearer(d)
<1> USE DEF gateTable, gateway, redis, request, cursor, record, Goto
<1> DEFINE Others == \A c \in Deliveries \ {d} : SameFor(c) /\ round'[c] = round[c]
           Aim == WithinBounds(d)' /\ Others /\ (pc[d] \in Running => Nearer(d))
<1>0. /\ Base /\ AccountedOf(d) /\ WithinBounds(d)
      /\ pc \in [Deliveries -> {"idle"} \cup Running \cup Answered]
      /\ payload \in [Deliveries -> Seq(Event)] /\ attempt \in [Deliveries -> 0 .. MaxAttempts]
      /\ gate \in [Deliveries -> GateIds \cup {None}]
      /\ event \in [Deliveries -> Nat] /\ part \in [Deliveries -> Nat \ {0}]
      /\ round \in [Deliveries -> {1, 2}]
      /\ sent \in [Deliveries -> Seq(Nat \X Nat \X Nat)]
      /\ lost \in [Deliveries -> SUBSET (Nat \X Nat)]
    BY DEF CallsInv, PipelineInv, Base, TypeOK, Accounted
<1>1. ASSUME (\E p \in Payloads : Receive(d, p)) \/ Redeliver(d) PROVE Aim
  <2>1. pc[d] \notin Running /\ pc'[d] = "resolve" /\ Others
      BY <1>0, <1>1 DEF Receive, Redeliver, Running, SameFor
  <2> QED BY <2>1 DEF WithinBounds
<1>2. ASSUME Interrupt(d) \/ ResolveFails(d) PROVE Aim
  <2>1. pc[d] \in Running /\ pc'[d] \in Answered /\ Others
      BY <1>0, <1>2 DEF Interrupt, ResolveFails, Running, Answered, SameFor
  <2> QED BY <2>1, NoStepsLeft
<1>11. ASSUME ResolveDisabled(d) PROVE Aim
  <2>1. pc[d] \in Running /\ pc'[d] \in Answered /\ Others
      BY <1>0, <1>11 DEF ResolveDisabled, Running, Answered, SameFor
  <2> QED BY <2>1, NoStepsLeft
<1>3. ASSUME Resolve(d) PROVE Aim
  <2>1. /\ pc[d] = "resolve" /\ pc'[d] = "next" /\ payload'[d] = payload[d]
        /\ event'[d] = event[d] /\ Others
      BY <1>0, <1>3 DEF Resolve, SameFor
  <2>2. StepsInHand(d) = 1 /\ StepsInHand(d)' = 0
      BY <2>1, StepsOfParts, StepsOfPartsNext
  <2>3. Nearer(d)
      BY <2>1, <2>2, FewerAtEvent DEF Running
  <2>4. event[d] = 0 /\ Len(payload[d]) \in Nat
      BY <1>0, <2>1, PayloadEvents DEF AccountedOf, Base, AtAnEvent
  <2>5. event'[d] \in 0 .. Len(payload'[d])
      BY <2>1, <2>4
  <2> QED BY <2>1, <2>3, <2>5 DEF WithinBounds
<1>4. ASSUME NextEvent(d) PROVE Aim
  <2>1. /\ pc[d] = "next" /\ payload'[d] = payload[d] /\ round'[d] = 1 /\ Others
        /\ \/ pc'[d] = "ok"
           \/ /\ pc'[d] \in {"next", "profile"} /\ event'[d] = event[d] + 1
              /\ ~ event[d] + 1 > Len(payload[d])
      BY <1>0, <1>4 DEF NextEvent, SameFor
  <2>2. CASE pc'[d] = "ok"
      BY <2>1, <2>2, NoStepsLeft DEF Running, Answered
  <2>3. CASE pc'[d] \in {"next", "profile"} /\ event'[d] = event[d] + 1
             /\ ~ event[d] + 1 > Len(payload[d])
    <3>1. PICK left \in Nat \ {0}, hand \in Nat :
             /\ left = Len(payload[d]) + 1 - event[d]
             /\ LeftToDo(d) = <<left, hand>>
        BY <2>1, SomeStepsLeft DEF Running
    <3>2. payload[d] \in Payloads
        BY <1>0, <2>1 DEF Base, AtAnEvent
    <3>3. PICK l \in Nat : l = Len(payload[d])
        BY <3>2, PayloadEvents
    <3>4. PICK e \in Nat : e = event[d]
        BY <1>0
    <3>5. PICK less \in Nat : less = l + 1 - (e + 1) /\ left = less + 1
      <4>1. ~ e + 1 > l /\ left = l + 1 - e
          BY <2>3, <3>1, <3>3, <3>4
      <4>2. l + 1 - (e + 1) \in Nat /\ left = l + 1 - (e + 1) + 1
          BY <4>1
      <4> QED BY <4>2
    <3>6. PICK b \in Nat : b = StepsInHand(d)'
      <4>1. CASE pc'[d] = "next"
          BY <4>1, StepsOfPartsNext
      <4>2. CASE pc'[d] = "profile"
        <5>1. payload'[d][event'[d]] \in Event
            BY <2>1, <2>3, <3>2, <3>3, <3>4, PayloadEvents
        <5>2. Parts(payload'[d][event'[d]]) \in Seq(PartKinds)
            BY <5>1, PartsAreParts
        <5>3. PICK n \in Nat : n = Len(Content(d)')
            BY <5>2, LenProperties DEF Content, Current
        <5>4. StepsInHand(d)' = 2 * n + 13
            BY <2>1, <4>2, <5>3, StepsOfStagesNext
        <5> QED BY <5>4
      <4> QED BY <2>3, <4>1, <4>2
    <3>7. LeftToDo(d)' = <<less, b>>
        BY <2>1, <2>3, <3>3, <3>4, <3>5, <3>6 DEF LeftToDo, Running
    <3>8. Nearer(d)
        BY <3>1, <3>5, <3>7 DEF Nearer, Fewer
    <3>9. event'[d] \in 0 .. Len(payload'[d])
        BY <2>1, <2>3, <3>3, <3>4, <3>5
    <3> QED BY <2>1, <2>3, <3>8, <3>9 DEF WithinBounds
  <2> QED BY <2>1, <2>2, <2>3
\* One stage of the synchronisation to the next.
<1>12. ASSUME payload'[d] = payload[d], event'[d] = event[d], round'[d] = round[d], Others,
              \/ pc[d] = "profile" /\ pc'[d] = "known"
              \/ pc[d] = "known" /\ pc'[d] = "contact"
              \/ pc[d] = "contact" /\ pc'[d] = "via"
              \/ pc[d] = "via" /\ pc'[d] = "mark"
              \/ pc[d] = "mark" /\ pc'[d] = "locale"
       PROVE  Aim
  <2>1. PICK n \in Nat : n = Len(Content(d)) /\ n = Len(Content(d)')
      BY <1>12, ContentInHand DEF InEvent, Content, Current
  <2>2. StepsInHand(d)' \in Nat /\ StepsInHand(d)' < StepsInHand(d)
    <3>1. PICK r \in {1, 2} : r = round[d] /\ r = round'[d]
        BY <1>0, <1>12
    <3>2. PICK a \in 2 .. 6 : SyncSteps[pc[d]] = a /\ SyncSteps[pc'[d]] = a - 1
        BY <1>12, StepsOfSync
    <3>3. StepsInHand(d) = 2 * n + 6 * (2 - r) + a + 1
        BY <1>12, <2>1, <3>1, <3>2, StepsOfSync DEF StepsInHand
    <3>4. StepsInHand(d)' = 2 * n + 6 * (2 - r) + (a - 1) + 1
        BY <1>12, <2>1, <3>1, <3>2, StepsOfSync DEF StepsInHand
    <3> QED BY <3>3, <3>4
  <2>3. Nearer(d)
      BY <1>12, <2>2, FewerAtEvent DEF Running
  <2> QED BY <1>12, <2>3 DEF WithinBounds
<1>5. ASSUME GetUserProfile(d) \/ IsUnknown(d) \/ EnsureContact(d) \/ EnsureVia(d)
             \/ EnsureViaFails(d)
      PROVE  Aim
  <2>1. /\ payload'[d] = payload[d] /\ event'[d] = event[d] /\ round'[d] = round[d] /\ Others
        /\ \/ pc[d] = "profile" /\ pc'[d] = "known"
           \/ pc[d] = "known" /\ pc'[d] = "contact"
           \/ pc[d] = "contact" /\ pc'[d] = "via"
           \/ pc[d] = "via" /\ pc'[d] = "mark"
      BY <1>0, <1>5 DEF GetUserProfile, IsUnknown, EnsureContact, EnsureVia, EnsureViaFails, SameFor
  <2> QED BY <1>12, <2>1
<1>6. ASSUME IsKnown(d) \/ SetLocale(d) \/ (MarkKnown(d) /\ Sender(d) \notin Localized) PROVE Aim
  <2>1. /\ payload'[d] = payload[d] /\ event'[d] = event[d] /\ Synced(d)
        /\ pc[d] \in {"known", "mark", "locale"} /\ UNCHANGED <<payload, attempt, gate, event, record>>
      BY <1>6 DEF IsKnown, SetLocale, MarkKnown
  <2>2. Others
      BY <1>0, <2>1 DEF Synced, SameFor
  <2> QED BY <2>1, <2>2, FewerWhenSynced
<1>7. ASSUME MarkKnown(d), Sender(d) \in Localized PROVE Aim
  <2>1. /\ payload'[d] = payload[d] /\ event'[d] = event[d] /\ round'[d] = round[d] /\ Others
        /\ pc[d] = "mark" /\ pc'[d] = "locale"
      BY <1>0, <1>7 DEF MarkKnown, SameFor
  <2> QED BY <1>12, <2>1
<1>8. ASSUME DropEvent(d) \/ EndEvent(d) PROVE Aim
  <2>1. /\ payload'[d] = payload[d] /\ event'[d] = event[d] /\ Others
        /\ pc[d] \in {"profile", "contact", "send"} /\ pc'[d] = "next"
      BY <1>0, <1>8 DEF DropEvent, EndEvent, SameFor
  <2> QED BY <2>1, FewerWhenDone DEF InEvent
<1>9. ASSUME Send(d) \/ SendFails(d) \/ UploadFails(d) PROVE Aim
  <2>1. /\ payload'[d] = payload[d] /\ event'[d] = event[d] /\ Others
        /\ pc[d] \in {"send", "media"} /\ (pc[d] = "send" => part[d] <= Len(Content(d)))
        /\ pc'[d] = "send" /\ part'[d] = part[d] + 1
      BY <1>0, <1>9 DEF Send, SendFails, UploadFails, Delivered, ReadyToSend, AtAttachment, NextPart,
                        SameFor
  <2> QED BY <2>1, FewerParts
<1>10. ASSUME Upload(d) PROVE Aim
  <2>1. /\ payload'[d] = payload[d] /\ event'[d] = event[d] /\ Others
        /\ pc[d] = "send" /\ part[d] <= Len(Content(d))
        /\ \/ pc'[d] = "send" /\ part'[d] = part[d] + 1
           \/ pc'[d] = "media" /\ part'[d] = part[d]
      BY <1>0, <1>10 DEF Upload, AtAttachment, NextPart, SameFor
  <2> QED BY <2>1, FewerParts
<1> QED BY <1>1, <1>2, <1>3, <1>4, <1>5, <1>6, <1>7, <1>8, <1>9, <1>10, <1>11
       DEF Delivers, Process

\* A step that leaves a delivery as it is leaves it as much to do.
LEMMA CallsOfOthers ==
    ASSUME CallsInv, NEW d \in Deliveries, SameFor(d), round'[d] = round[d]
    PROVE  /\ WithinBounds(d)'
           /\ pc[d] \in Running =>
                 LeftToDo(d)' \in Nat \X Nat /\ LeftToDo(d)' = LeftToDo(d)
<1>1. Content(d)' = Content(d)
    BY DEF SameFor, Content, Current
<1>2. LeftToDo(d)' = LeftToDo(d)
    BY <1>1 DEF SameFor, LeftToDo, StepsInHand
<1>3. pc[d] \in Running => LeftToDo(d) \in Nat \X Nat
  <2> SUFFICES ASSUME pc[d] \in Running PROVE LeftToDo(d) \in Nat \X Nat
      OBVIOUS
  <2>1. PICK left \in Nat \ {0}, hand \in Nat : LeftToDo(d) = <<left, hand>>
      BY SomeStepsLeft
  <2> QED BY <2>1
<1>4. WithinBounds(d)'
    BY <1>1 DEF CallsInv, WithinBounds, SameFor
<1> QED BY <1>2, <1>3, <1>4

\* The loops over events, synchronisations and parts end: every step of a
\* posting brings it nearer to its answer, also the call that fails, and nobody
\* else's step takes it back.  With the fairness of FairSpec this is why each
\* posting is answered.
THEOREM CallsEnd == Spec => CallsRunOut
<1> DEFINE Runs(d) == /\ LeftToDo(d)' \in Nat \X Nat
                      /\ LeftToDo(d)' = LeftToDo(d) \/ Fewer(LeftToDo(d)', LeftToDo(d))
                      /\ Process(d) => Fewer(LeftToDo(d)', LeftToDo(d))
           Keeps(d) == /\ LeftToDo(d)' \in Nat \X Nat
                       /\ LeftToDo(d)' = LeftToDo(d) \/ Fewer(LeftToDo(d)', LeftToDo(d))
<1>1. ASSUME CallsInv, [Next]_vars, NEW d \in Deliveries
      PROVE  WithinBounds(d)' /\ (pc[d] \in Running => Runs(d))
  <2>1. Delivers(d) => WithinBounds(d)' /\ (pc[d] \in Running => Nearer(d))
      BY <1>1, OneCallLess
  <2>2. SameFor(d) /\ round'[d] = round[d]
           => WithinBounds(d)' /\ (pc[d] \in Running => Keeps(d))
      BY <1>1, CallsOfOthers
  <2>3. ASSUME NEW c \in Deliveries \ {d}, Delivers(c) PROVE SameFor(d) /\ round'[d] = round[d]
      BY <1>1, <2>3, OneCallLess
  <2>4. ASSUME UNCHANGED <<pc, payload, attempt, gate, event, part, round, sent, lost>>
        PROVE  SameFor(d) /\ round'[d] = round[d]
      BY <2>4 DEF SameFor
  <2>5. \/ \E c \in Deliveries : Delivers(c)
        \/ UNCHANGED <<pc, payload, attempt, gate, event, part, round, sent, lost>>
      BY <1>1 DEF Next, Environment, Delivers, CreateGate, SwitchGate, DeleteGate, Expire, Rename,
                  vars, request, cursor, record
  <2>6. WithinBounds(d)' /\ (pc[d] \in Running => Keeps(d))
      BY <2>1, <2>2, <2>3, <2>4, <2>5 DEF Nearer
  <2>7. Process(d) => Delivers(d)
      BY DEF Delivers
  <2> QED BY <2>1, <2>6, <2>7 DEF Nearer
<1>2. Init => CallsInv
  <2> SUFFICES ASSUME Init PROVE CallsInv
      OBVIOUS
  <2>1. PipelineInv
      BY InitBase, InitProgress, InitAccounted DEF PipelineInv
  <2>2. \A d \in Deliveries : WithinBounds(d)
      BY DEF Init, WithinBounds
  <2> QED BY <2>1, <2>2 DEF CallsInv
<1>3. CallsInv /\ [Next]_vars => CallsInv'
  <2> SUFFICES ASSUME CallsInv, [Next]_vars PROVE CallsInv'
      OBVIOUS
  <2>1. PipelineInv'
      BY StepBase, StepProgress, StepAccounted DEF CallsInv, PipelineInv
  <2>2. \A d \in Deliveries : WithinBounds(d)'
      BY <1>1
  <2> QED BY <2>1, <2>2 DEF CallsInv
<1>4. CallsInv /\ [Next]_vars => [\A d \in Deliveries : pc[d] \in Running => Runs(d)]_vars
    BY <1>1
<1>5. Spec => [][\A d \in Deliveries : pc[d] \in Running => Runs(d)]_vars
    BY <1>2, <1>3, <1>4, PTL DEF Spec
<1> QED BY <1>5 DEF CallsRunOut
=============================================================================
