------------------------- MODULE SystemMessages_proofs -------------------------
(***************************************************************************)
(* Proofs about SystemMessages, for every number of gates, events,         *)
(* contacts and requests, every template and every size of the cache.      *)
(*                                                                         *)
(* Text and names are gathered in several calls while templates and        *)
(* contacts change.  The invariant says what a request has gathered so     *)
(* far: a text its template had while it ran, and for each role that is    *)
(* resolved a name its contact had some time, cached or not.               *)
(***************************************************************************)
EXTENDS SystemMessages, TLAPS

\* The names contacts have are among those they have had.
PersonsAreCalled ==
    \A c \in Persons : person[c] # Nothing => Display(person[c]) \in called[c]

\* The roles that are resolved are shown by the names of their contacts.
NamedTruly(r) ==
    \A p \in Roles \ pending[r] : asks[r].who[p] \in Persons =>
        shown[r][p] \in called[asks[r].who[p]] \cup {asks[r].who[p]}

RequestOK(r) ==
    /\ at[r] # "idle" => asks[r] \in Request
    /\ at[r] \in Busy => template[Key(r)] \in during[r] /\ delivered[r] = Nothing
    /\ at[r] \in {"sender", "template"} => text[r] = Nothing
    /\ at[r] \in {"names", "fetch", "post"} =>
          /\ text[r] \in during[r] \/ (text[r] = Nothing /\ r \in failed)
          /\ NamedTruly(r)
          /\ pending[r] \subseteq Resolvable(r)
    /\ at[r] \in {"fetch", "post"} =>
          text[r] \in during[r] /\ pending[r] = {} /\ text[r] \in Templates

\* What a request that has ended has told and sent.
AnswerOK(r) ==
    /\ at[r] = "idle" => delivered[r] = Nothing
    /\ delivered[r] # Nothing =>
          /\ delivered[r].text \in during[r] \cap Templates
          /\ \A p \in Shows[delivered[r].text] : asks[r].who[p] \in Persons =>
                delivered[r].names[p] \in called[asks[r].who[p]] \cup {asks[r].who[p]}
    /\ at[r] = "skipped" =>
          \/ Nothing \in during[r] \/ r \in failed
          \/ \E t \in during[r] : t \in Broken \cup Bare

World == TemplatesHaveGates /\ CachedNamesWereTrue /\ PersonsAreCalled

\* There is one last message of each request.
OneEach == delivered = [r \in Senders |-> delivered[r]]

MessagesInv ==
    MessagesTypeOK /\ OneEach /\ World /\ \A r \in Senders : RequestOK(r) /\ AnswerOK(r)

-----------------------------------------------------------------------------
LEMMA InitMessages == MessagesInit => MessagesInv
<1> SUFFICES ASSUME MessagesInit PROVE MessagesInv
    OBVIOUS
<1>1. MessagesTypeOK
    BY DEF MessagesInit, MessagesTypeOK, Labels
<1>2. World
    BY DEF MessagesInit, World, TemplatesHaveGates, CachedNamesWereTrue, PersonsAreCalled
<1>3. \A r \in Senders : RequestOK(r) /\ AnswerOK(r)
    BY DEF MessagesInit, RequestOK, AnswerOK, Busy
<1>4. OneEach
    BY DEF MessagesInit, OneEach
<1> QED BY <1>1, <1>2, <1>3, <1>4 DEF MessagesInv

\* The name a contact is shown by.
LEMMA DisplayIsLabel ==
    ASSUME NEW profile \in Profiles
    PROVE  Display(profile) \in Labels
BY DEF Display, Labels

\* What the variables of a request are.
LEMMA RequestParts ==
    ASSUME NEW m \in Request
    PROVE  /\ m.gate \in Gates /\ m.event \in EventTypes /\ m.given \in SUBSET Roles
           /\ <<m.gate, m.event>> \in Gates \X EventTypes
           /\ \A p \in Roles : m.who[p] \in Persons \cup {Nothing}
BY DEF Request

\* A request that runs.
LEMMA BusyRequest ==
    ASSUME MessagesInv, NEW r \in Senders, at[r] \in Busy
    PROVE  /\ asks[r] \in Request /\ Key(r) \in Gates \X EventTypes
           /\ asks[r].gate \in Gates
           /\ template[Key(r)] \in Templates \cup {Nothing}
<1>1. asks[r] \in Request
    BY DEF MessagesInv, RequestOK, Busy
<1> QED BY <1>1, RequestParts DEF Key, MessagesInv, MessagesTypeOK

\* A message is sent, or forgotten for a new request.
LEMMA LastMessage ==
    ASSUME OneEach, NEW r \in Senders, NEW m, delivered' = [delivered EXCEPT ![r] = m]
    PROVE  OneEach' /\ delivered'[r] = m /\ \A q \in Senders \ {r} : delivered'[q] = delivered[q]
BY DEF OneEach

-----------------------------------------------------------------------------
(* The names.                                                              *)

\* A role that is being resolved.
LEMMA RoleOfContact ==
    ASSUME MessagesInv, NEW r \in Senders, NEW p \in Roles, Resolving(r, p)
    PROVE  asks[r].who[p] \in Persons
BY DEF Resolving, MessagesInv, RequestOK, Resolvable

\* The cache after a look-up.
LEMMA LookupCaches ==
    ASSUME MessagesInv, NEW c \in Persons, person[c] # Nothing, NEW kept,
           names' = [d \in Persons |-> IF d = c THEN Display(person[c])
                                       ELSE IF d \in kept THEN names[d] ELSE Nothing],
           UNCHANGED called
    PROVE  names' \in [Persons -> Labels \cup {Nothing}] /\ CachedNamesWereTrue'
<1>1. Display(person[c]) \in Labels /\ Display(person[c]) \in called[c]
    BY DisplayIsLabel DEF MessagesInv, MessagesTypeOK, World, PersonsAreCalled
<1> QED BY <1>1 DEF MessagesInv, MessagesTypeOK, World, CachedNamesWereTrue

\* A role gets a name of its contact.
LEMMA NamedKeeps ==
    ASSUME MessagesInv, NEW r \in Senders, NEW p \in Roles, Resolving(r, p),
           NEW label \in Persons \cup Labels \cup {Given}, Named(r, p, label),
           asks[r].who[p] \in Persons =>
              label \in called[asks[r].who[p]] \cup {asks[r].who[p]}
    PROVE  /\ RequestOK(r)' /\ AnswerOK(r)'
           /\ pending' \in [Senders -> SUBSET Roles]
           /\ shown' \in [Senders -> [Roles -> Persons \cup Labels \cup {Given}]]
<1> USE DEF MessagesInv, MessagesTypeOK
<1>1. RequestOK(r) /\ AnswerOK(r) /\ at[r] = "names"
    BY DEF Resolving
<1>2. /\ pending'[r] = pending[r] \ {p} /\ shown'[r] = [shown[r] EXCEPT ![p] = label]
      /\ UNCHANGED <<rows, at, asks, text, delivered, history>>
    BY DEF Named
<1>3. shown'[r][p] = label /\ \A q \in Roles \ {p} : shown'[r][q] = shown[r][q]
    BY <1>2
<1>4. NamedTruly(r)'
    BY <1>1, <1>2, <1>3 DEF NamedTruly, RequestOK, history
<1>5. RequestOK(r)'
    BY <1>1, <1>2, <1>4 DEF RequestOK, rows, history, Key, Resolvable
<1>6. AnswerOK(r)'
    BY <1>1, <1>2 DEF AnswerOK, history
<1> QED BY <1>5, <1>6 DEF Named

-----------------------------------------------------------------------------
(* A step of a request.                                                    *)

\* What the others of Senders have is theirs.
Untouched(q) ==
    /\ at'[q] = at[q] /\ asks'[q] = asks[q] /\ text'[q] = text[q]
    /\ pending'[q] = pending[q] /\ shown'[q] = shown[q]
    /\ delivered'[q] = delivered[q] /\ during'[q] = during[q]
    /\ q \in failed' <=> q \in failed

LEMMA OthersUntouched ==
    ASSUME MessagesInv, NEW r \in Senders,
           Handle(r) \/ \E m \in Request : Arrive(r, m)
    PROVE  UNCHANGED <<rows, called>> /\ \A q \in Senders \ {r} : Untouched(q)
<1> USE DEF MessagesInv, MessagesTypeOK, Untouched, rows, remembered, work, history, Move,
            Reply
<1>1. ASSUME NEW m \in Request, Arrive(r, m)
      PROVE  UNCHANGED <<rows, called>> /\ \A q \in Senders \ {r} : Untouched(q)
    BY <1>1, LastMessage DEF Arrive
<1>2. ASSUME NEW p \in Roles, NameHit(r, p) \/ SearchContact(r, p) \/ SearchFails(r, p)
      PROVE  UNCHANGED <<rows, called>> /\ \A q \in Senders \ {r} : Untouched(q)
    BY <1>2 DEF NameHit, SearchContact, SearchFails, Named
<1>3. ASSUME ResolveSender(r) \/ NoSender(r) \/ GetTemplate(r) \/ GetTemplateFails(r)
      PROVE  UNCHANGED <<rows, called>> /\ \A q \in Senders \ {r} : Untouched(q)
    BY <1>3 DEF ResolveSender, NoSender, GetTemplate, GetTemplateFails
<1>4. ASSUME Execute(r) \/ Fetch(r) \/ SendFails(r)
      PROVE  UNCHANGED <<rows, called>> /\ \A q \in Senders \ {r} : Untouched(q)
    BY <1>4 DEF Execute, Fetch, SendFails
<1>5. ASSUME Post(r)
      PROVE  UNCHANGED <<rows, called>> /\ \A q \in Senders \ {r} : Untouched(q)
  <2>1. \A q \in Senders \ {r} : delivered'[q] = delivered[q]
      BY <1>5, LastMessage DEF Post
  <2> QED BY <1>5, <2>1 DEF Post
<1> QED BY <1>1, <1>2, <1>3, <1>4, <1>5 DEF Handle

LEMMA UntouchedKeeps ==
    ASSUME MessagesInv, NEW q \in Senders, Untouched(q), UNCHANGED <<rows, called>>
    PROVE  RequestOK(q)' /\ AnswerOK(q)'
<1>1. RequestOK(q) /\ AnswerOK(q)
    BY DEF MessagesInv
<1> QED BY <1>1 DEF Untouched, RequestOK, AnswerOK, NamedTruly, Resolvable, Key, rows

\* The request itself.
LEMMA HandleKeeps ==
    ASSUME MessagesInv, NEW r \in Senders,
           Handle(r) \/ \E m \in Request : Arrive(r, m)
    PROVE  /\ MessagesTypeOK' /\ OneEach'
           /\ RequestOK(r)' /\ AnswerOK(r)' /\ CachedNamesWereTrue'
<1> USE DEF rows, remembered, work, history, Move
<1> DEFINE Aim == MessagesTypeOK' /\ RequestOK(r)' /\ AnswerOK(r)' /\ CachedNamesWereTrue'
<1>0. MessagesTypeOK /\ OneEach /\ RequestOK(r) /\ AnswerOK(r) /\ CachedNamesWereTrue
    BY DEF MessagesInv, World
<1>1. ASSUME NEW m \in Request, Arrive(r, m) PROVE Aim
  <2>1. template[<<m.gate, m.event>>] \in Templates \cup {Nothing}
      BY <1>0, RequestParts DEF MessagesTypeOK
  <2>2. MessagesTypeOK'
    <3>1. /\ at' \in [Senders -> {"idle"} \cup Busy \cup Replies]
          /\ asks' \in [Senders -> Request \cup {Nothing}]
          /\ text' \in [Senders -> Templates \cup {Nothing}]
          /\ pending' \in [Senders -> SUBSET Roles]
        BY <1>0, <1>1 DEF Arrive, MessagesTypeOK, Busy
    <3>2. during' \in [Senders -> SUBSET (Templates \cup {Nothing})] /\ failed' \subseteq Senders
        BY <1>0, <1>1, <2>1 DEF Arrive, MessagesTypeOK
    <3>3. [p \in Roles |-> Blank] \in [Roles -> Persons \cup Labels \cup {Given}]
        BY DEF Labels
    <3>4. shown' \in [Senders -> [Roles -> Persons \cup Labels \cup {Given}]]
        BY <1>0, <1>1, <3>3 DEF Arrive, MessagesTypeOK
    <3> QED BY <1>0, <1>1, <3>1, <3>2, <3>4 DEF Arrive, MessagesTypeOK
  <2>3. /\ at'[r] = "sender" /\ asks'[r] = m /\ text'[r] = Nothing /\ delivered'[r] = Nothing
        /\ during'[r] = {template[<<m.gate, m.event>>]}
      BY <1>0, <1>1, LastMessage DEF Arrive, MessagesTypeOK
  <2>4. RequestOK(r)' /\ AnswerOK(r)'
      BY <1>1, <2>3 DEF Arrive, RequestOK, AnswerOK, Key
  <2> QED BY <1>0, <1>1, <2>2, <2>4 DEF Arrive, CachedNamesWereTrue
<1>2. ASSUME NEW place \in {"names", "template", "fetch", "post", "gateNotFound", "error"},
             at[r] \in Busy, at[r] = "names" => place = "fetch",
             place = "names" => at[r] = "names", place = "template" => at[r] = "sender",
             place = "post" => at[r] = "fetch",
             place = "fetch" => at[r] = "names" /\ pending[r] = {} /\ HasText(r),
             Move(r, place), UNCHANGED <<rows, names, work, delivered, history>>,
             typed' \subseteq Gates
      PROVE  Aim
  <2>1. MessagesTypeOK' /\ CachedNamesWereTrue'
      BY <1>0, <1>2 DEF MessagesTypeOK, Busy, Replies, CachedNamesWereTrue
  <2>2. at'[r] = place
      BY <1>0, <1>2 DEF MessagesTypeOK
  <2>3. place = "fetch" => text[r] \in Templates /\ text[r] \in during[r]
      BY <1>0, <1>2 DEF MessagesTypeOK, HasText, RequestOK
  <2>4. RequestOK(r)'
      BY <1>0, <1>2, <2>2, <2>3 DEF RequestOK, NamedTruly, Resolvable, Key, Busy
  <2>5. AnswerOK(r)'
      BY <1>0, <1>2, <2>2 DEF AnswerOK
  <2> QED BY <2>1, <2>4, <2>5
<1>3. ASSUME ResolveSender(r) PROVE Aim
  <2>1. asks[r].gate \in Gates
      BY <1>3, BusyRequest DEF ResolveSender, Busy
  <2> QED BY <1>0, <1>2, <1>3, <2>1 DEF ResolveSender, Busy, MessagesTypeOK
<1>4. ASSUME NoSender(r) \/ Fetch(r) \/ SendFails(r) PROVE Aim
    BY <1>0, <1>2, <1>4 DEF NoSender, Fetch, SendFails, Reply, Busy, MessagesTypeOK
<1>5. ASSUME NEW words \in Templates \cup {Nothing},
             \/ (words = template[Key(r)] /\ UNCHANGED failed)
             \/ (words = Nothing /\ failed' = failed \cup {r}),
             at[r] = "template", Move(r, "names"), text' = [text EXCEPT ![r] = words],
             pending' = [pending EXCEPT ![r] = Resolvable(r)],
             shown' = [shown EXCEPT ![r] = Passed(r)],
             UNCHANGED <<rows, remembered, asks, delivered, during, called>>
      PROVE  Aim
  <2>1. Resolvable(r) \subseteq Roles /\ Passed(r) \in [Roles -> Labels \cup {Given}]
      BY DEF Resolvable, Passed, Labels
  <2>2. MessagesTypeOK' /\ CachedNamesWereTrue'
      BY <1>0, <1>5, <2>1 DEF MessagesTypeOK, CachedNamesWereTrue, Busy
  <2>3. at'[r] = "names" /\ text'[r] = words /\ pending'[r] = Resolvable(r)
      BY <1>0, <1>5 DEF MessagesTypeOK
  <2>4. NamedTruly(r)' /\ Resolvable(r)' = Resolvable(r)
      BY <1>5, <2>3 DEF NamedTruly, Resolvable
  <2>5. r \in failed' \/ words = template[Key(r)]
      BY <1>5
  <2>6. RequestOK(r)'
      BY <1>0, <1>5, <2>3, <2>4, <2>5 DEF RequestOK, Key, Busy
  <2>7. AnswerOK(r)'
      BY <1>0, <1>5, <2>3 DEF AnswerOK
  <2> QED BY <2>2, <2>6, <2>7
<1>6. ASSUME GetTemplate(r) PROVE Aim
  <2>1. template[Key(r)] \in Templates \cup {Nothing}
      BY <1>6, BusyRequest DEF GetTemplate, Busy
  <2>2. PICK words \in Templates \cup {Nothing} : words = template[Key(r)]
      BY <2>1
  <2>3. at[r] = "template" /\ Move(r, "names") /\ text' = [text EXCEPT ![r] = words]
      BY <1>6, <2>2 DEF GetTemplate
  <2>4. /\ pending' = [pending EXCEPT ![r] = Resolvable(r)]
        /\ shown' = [shown EXCEPT ![r] = Passed(r)]
        /\ UNCHANGED <<rows, remembered, asks, delivered, during, called, failed>>
      BY <1>6 DEF GetTemplate
  <2> QED BY <1>5, <2>2, <2>3, <2>4
<1>7. ASSUME GetTemplateFails(r) PROVE Aim
  <2>1. text[r] = Nothing /\ text' = [text EXCEPT ![r] = Nothing]
      BY <1>0, <1>7 DEF GetTemplateFails, RequestOK, MessagesTypeOK
  <2> QED BY <1>5, <1>7, <2>1 DEF GetTemplateFails
<1>8. ASSUME NEW p \in Roles, NameHit(r, p) PROVE Aim
  <2>1. asks[r].who[p] \in Persons
      BY <1>8, RoleOfContact DEF NameHit
  <2>2. /\ names[asks[r].who[p]] \in Labels
        /\ names[asks[r].who[p]] \in called[asks[r].who[p]]
      BY <1>0, <1>8, <2>1 DEF NameHit, MessagesTypeOK, CachedNamesWereTrue
  <2>3. /\ RequestOK(r)' /\ AnswerOK(r)'
        /\ pending' \in [Senders -> SUBSET Roles]
        /\ shown' \in [Senders -> [Roles -> Persons \cup Labels \cup {Given}]]
      BY <1>8, <2>2, NamedKeeps DEF NameHit
  <2> QED BY <1>0, <1>8, <2>3 DEF NameHit, Named, MessagesTypeOK, CachedNamesWereTrue
<1>9. ASSUME NEW p \in Roles, SearchContact(r, p) PROVE Aim
  <2> DEFINE c == asks[r].who[p]
  <2>1. c \in Persons /\ person[c] \in Profiles
      BY <1>0, <1>9, RoleOfContact DEF SearchContact, MessagesTypeOK
  <2>2. Display(person[c]) \in Labels /\ Display(person[c]) \in called[c]
      BY <1>9, <2>1, DisplayIsLabel DEF SearchContact, MessagesInv, World, PersonsAreCalled
  <2>3. /\ RequestOK(r)' /\ AnswerOK(r)'
        /\ pending' \in [Senders -> SUBSET Roles]
        /\ shown' \in [Senders -> [Roles -> Persons \cup Labels \cup {Given}]]
      BY <1>9, <2>2, NamedKeeps DEF SearchContact
  <2>4. names' \in [Persons -> Labels \cup {Nothing}] /\ CachedNamesWereTrue'
      BY <1>9, <2>1, LookupCaches DEF SearchContact, Named
  <2> QED BY <1>0, <1>9, <2>3, <2>4 DEF SearchContact, Named, MessagesTypeOK
<1>10. ASSUME NEW p \in Roles, SearchFails(r, p) PROVE Aim
  <2>1. asks[r].who[p] \in Persons
      BY <1>10, RoleOfContact DEF SearchFails
  <2>2. /\ RequestOK(r)' /\ AnswerOK(r)'
        /\ pending' \in [Senders -> SUBSET Roles]
        /\ shown' \in [Senders -> [Roles -> Persons \cup Labels \cup {Given}]]
      BY <1>10, <2>1, NamedKeeps DEF SearchFails
  <2> QED BY <1>0, <1>10, <2>2 DEF SearchFails, Named, MessagesTypeOK, CachedNamesWereTrue
<1>11. ASSUME Execute(r) PROVE Aim
  <2>1. CASE HasText(r)
      BY <1>0, <1>2, <1>11, <2>1 DEF Execute, Busy, MessagesTypeOK
  <2>2. CASE ~HasText(r)
    <3>1. at'[r] = "skipped" /\ delivered[r] = Nothing
        BY <1>0, <1>11, <2>2 DEF Execute, RequestOK, Busy, MessagesTypeOK
    <3>2. MessagesTypeOK' /\ CachedNamesWereTrue'
        BY <1>0, <1>11 DEF Execute, MessagesTypeOK, Busy, Replies, CachedNamesWereTrue
    <3>3. RequestOK(r)'
        BY <1>0, <1>11, <3>1 DEF Execute, RequestOK, Busy
    <3>4. text[r] \in Broken \cup Bare \cup {Nothing}
        BY <2>2 DEF HasText
    <3>5. AnswerOK(r)'
        BY <1>0, <1>11, <3>1, <3>4 DEF Execute, RequestOK, AnswerOK
    <3> QED BY <3>2, <3>3, <3>5
  <2> QED BY <2>1, <2>2
<1>12. ASSUME Post(r) PROVE Aim
  <2> DEFINE message == [text |-> text[r], names |-> [p \in Shows[text[r]] |-> shown[r][p]]]
  <2>1. at'[r] \in {"sent", "error"} /\ delivered'[r] = message
      BY <1>0, <1>12, LastMessage DEF Post, MessagesTypeOK
  <2>2. MessagesTypeOK' /\ CachedNamesWereTrue'
      BY <1>0, <1>12 DEF Post, MessagesTypeOK, Busy, Replies, CachedNamesWereTrue
  <2>3. RequestOK(r)'
      BY <1>0, <1>12, <2>1 DEF Post, RequestOK, Busy
  <2>4. text[r] \in during[r] \cap Templates /\ Shows[text[r]] \subseteq Roles
      BY <1>0, <1>12, ShowsRoles DEF Post, RequestOK
  <2>5. \A p \in Shows[text[r]] : asks[r].who[p] \in Persons =>
            message.names[p] \in called[asks[r].who[p]] \cup {asks[r].who[p]}
      BY <1>0, <1>12, <2>4 DEF Post, RequestOK, NamedTruly
  <2>6. AnswerOK(r)'
      BY <1>12, <2>1, <2>4, <2>5 DEF Post, AnswerOK
  <2> QED BY <2>2, <2>3, <2>6
<1>13. Aim
    BY <1>1, <1>3, <1>4, <1>6, <1>7, <1>8, <1>9, <1>10, <1>11, <1>12 DEF Handle
<1>14. UNCHANGED delivered \/ \E m : delivered' = [delivered EXCEPT ![r] = m]
    BY DEF Handle, Arrive, ResolveSender, NoSender, Reply, GetTemplate, GetTemplateFails, NameHit,
           SearchContact, SearchFails, Named, Execute, Fetch, Post, SendFails
<1>15. OneEach'
    BY <1>0, <1>14, LastMessage DEF OneEach
<1> QED BY <1>13, <1>15

-----------------------------------------------------------------------------
(* A step of the world.                                                    *)

\* Rows and contacts change, and requests go on.
LEMMA WorldKeeps ==
    ASSUME MessagesInv, UNCHANGED <<sending, failed>>,
           \A c \in Persons : called[c] \subseteq called'[c],
           \A r \in Senders : during[r] \subseteq during'[r],
           \A r \in Senders : at[r] \in Busy => template'[Key(r)] \in during'[r],
           \A r \in Senders : at[r] \in Busy \/ during'[r] = during[r]
    PROVE  \A r \in Senders : RequestOK(r)' /\ AnswerOK(r)'
<1> SUFFICES ASSUME NEW r \in Senders PROVE RequestOK(r)' /\ AnswerOK(r)'
    OBVIOUS
<1> USE DEF sending, work
<1>1. RequestOK(r) /\ AnswerOK(r)
    BY DEF MessagesInv
<1>2. at[r] # "idle" => \A p \in Roles : asks[r].who[p] \in Persons =>
          called[asks[r].who[p]] \subseteq called'[asks[r].who[p]]
    OBVIOUS
<1>3. NamedTruly(r) => NamedTruly(r)'
    BY DEF NamedTruly
<1>4. Resolvable(r)' = Resolvable(r) /\ Key(r)' = Key(r)
    BY DEF Resolvable, Key
<1>5. RequestOK(r)'
    BY <1>1, <1>3, <1>4 DEF RequestOK
<1>6. AnswerOK(r)'
    BY <1>1 DEF AnswerOK, MessagesInv, MessagesTypeOK
<1> QED BY <1>5, <1>6

\* A change of the templates is seen by those that run.
LEMMA CommitKeeps ==
    ASSUME MessagesInv, NEW table \in [Gates \X EventTypes -> Templates \cup {Nothing}],
           Commit(table), UNCHANGED <<person, sending, failed, called>>, gates' \subseteq gates
    PROVE  MessagesTypeOK' /\ \A r \in Senders : RequestOK(r)' /\ AnswerOK(r)'
<1>1. \A r \in Senders : at[r] \in Busy => Key(r) \in Gates \X EventTypes
    BY BusyRequest
<1>2. during' \in [Senders -> SUBSET (Templates \cup {Nothing})]
    BY <1>1 DEF Commit, MessagesInv, MessagesTypeOK
<1>3. MessagesTypeOK'
    BY <1>2 DEF Commit, MessagesInv, MessagesTypeOK, sending, remembered, work
<1>4. /\ template' = table
      /\ \A r \in Senders : during'[r] = IF at[r] \in Busy THEN during[r] \cup {table[Key(r)]}
                                         ELSE during[r]
    BY DEF Commit
<1> QED BY <1>3, <1>4, WorldKeeps

LEMMA AdministerKeeps ==
    ASSUME MessagesInv, NEW g \in Gates, Administer(g)
    PROVE  MessagesInv'
<1> USE DEF MessagesInv, MessagesTypeOK
<1>1. ASSUME DeleteGate(g) PROVE MessagesInv'
  <2> DEFINE table == [k \in DOMAIN template |-> IF k[1] = g THEN Nothing ELSE template[k]]
  <2>1. table \in [Gates \X EventTypes -> Templates \cup {Nothing}]
      OBVIOUS
  <2>2. TemplatesHaveGates'
      BY <1>1 DEF DeleteGate, Commit, World, TemplatesHaveGates
  <2>3. MessagesTypeOK' /\ \A r \in Senders : RequestOK(r)' /\ AnswerOK(r)'
    <3> HIDE DEF table, MessagesInv, MessagesTypeOK
    <3>1. Commit(table) /\ gates' \subseteq gates /\ UNCHANGED <<person, sending, failed, called>>
        BY <1>1 DEF DeleteGate, table
    <3> QED BY <2>1, <3>1, CommitKeeps
  <2> QED BY <1>1, <2>2, <2>3 DEF DeleteGate, OneEach, World, CachedNamesWereTrue, PersonsAreCalled,
                                  sending, remembered
<1>2. ASSUME NEW e \in EventTypes, NEW t \in Templates \cup {Nothing},
             g \in gates \/ t = Nothing,
             Commit([template EXCEPT ![<<g, e>>] = t]),
             UNCHANGED <<gates, person, sending, failed, called>>
      PROVE  MessagesInv'
  <2> DEFINE table == [template EXCEPT ![<<g, e>>] = t]
  <2>1. table \in [Gates \X EventTypes -> Templates \cup {Nothing}]
      OBVIOUS
  <2>2. TemplatesHaveGates'
    <3>1. \A k \in Gates \X EventTypes : table[k] # Nothing => k[1] \in gates
        BY <1>2 DEF World, TemplatesHaveGates
    <3> QED BY <1>2, <3>1 DEF Commit, TemplatesHaveGates
  <2>3. MessagesTypeOK' /\ \A r \in Senders : RequestOK(r)' /\ AnswerOK(r)'
    <3> HIDE DEF table, MessagesInv, MessagesTypeOK
    <3>1. Commit(table) /\ gates' \subseteq gates
        BY <1>2 DEF table
    <3> QED BY <1>2, <2>1, <3>1, CommitKeeps
  <2> QED BY <1>2, <2>2, <2>3 DEF OneEach, World, CachedNamesWereTrue, PersonsAreCalled,
                                  sending, remembered
<1>3. ASSUME NEW e \in EventTypes, DeleteTemplate(g, e) PROVE MessagesInv'
    BY <1>2, <1>3 DEF DeleteTemplate
<1>4. ASSUME NEW e \in EventTypes, NEW t \in Templates, SetTemplate(g, e, t) PROVE MessagesInv'
    BY <1>2, <1>4 DEF SetTemplate
<1> QED BY <1>1, <1>3, <1>4 DEF Administer

LEMMA ContactKeeps ==
    ASSUME MessagesInv, NEW c \in Persons, NEW profile \in Profiles \cup {Nothing},
           ChangeContact(c, profile)
    PROVE  MessagesInv'
<1> USE DEF ChangeContact
<1>1. profile # Nothing => Display(profile) \in Labels
    BY DisplayIsLabel
<1>2. /\ called' \in [Persons -> SUBSET Labels]
      /\ \A d \in Persons : called[d] \subseteq called'[d]
      /\ profile # Nothing => Display(profile) \in called'[c]
    BY <1>1 DEF MessagesInv, MessagesTypeOK
<1>3. MessagesTypeOK'
    BY <1>2 DEF MessagesInv, MessagesTypeOK, sending, remembered, work
<1>4. World'
    BY <1>2 DEF MessagesInv, MessagesTypeOK, World, TemplatesHaveGates, CachedNamesWereTrue,
                PersonsAreCalled, sending, remembered
<1>5. \A r \in Senders : at[r] \in Busy => template'[Key(r)] \in during'[r]
    BY DEF MessagesInv, RequestOK
<1>6. \A r \in Senders : RequestOK(r)' /\ AnswerOK(r)'
    BY <1>2, <1>5, WorldKeeps
<1> QED BY <1>3, <1>4, <1>6 DEF MessagesInv, OneEach, sending

LEMMA RestartKeeps ==
    ASSUME MessagesInv, Restart
    PROVE  MessagesInv'
<1> USE DEF Restart, rows, work, history
<1>1. MessagesTypeOK'
    BY DEF MessagesInv, MessagesTypeOK, Replies, Busy
<1>2. World'
    BY DEF MessagesInv, World, TemplatesHaveGates, CachedNamesWereTrue, PersonsAreCalled
<1>3. ASSUME NEW r \in Senders PROVE RequestOK(r)' /\ AnswerOK(r)'
  <2>1. at'[r] = IF at[r] \in Busy THEN "lost" ELSE at[r]
      BY DEF MessagesInv, MessagesTypeOK
  <2>2. RequestOK(r) /\ AnswerOK(r)
      BY DEF MessagesInv
  <2>3. RequestOK(r)'
      BY <2>1, <2>2 DEF RequestOK, Busy
  <2>4. AnswerOK(r)'
      BY <2>1, <2>2 DEF AnswerOK, Busy
  <2> QED BY <2>3, <2>4
<1> QED BY <1>1, <1>2, <1>3 DEF MessagesInv, OneEach

\* The inductive invariant.
LEMMA MessagesInvariant == MessagesSpec => []MessagesInv
<1>1. MessagesInv /\ [MessagesNext]_messageVars => MessagesInv'
  <2> SUFFICES ASSUME MessagesInv, [MessagesNext]_messageVars PROVE MessagesInv'
      OBVIOUS
  <2>1. ASSUME NEW r \in Senders, Handle(r) \/ \E m \in Request : Arrive(r, m)
        PROVE  MessagesInv'
    <3>1. UNCHANGED <<rows, called>> /\ \A q \in Senders \ {r} : Untouched(q)
        BY <2>1, OthersUntouched
    <3>2. \A q \in Senders \ {r} : RequestOK(q)' /\ AnswerOK(q)'
        BY <3>1, UntouchedKeeps
    <3>3. MessagesTypeOK' /\ OneEach' /\ RequestOK(r)' /\ AnswerOK(r)' /\ CachedNamesWereTrue'
        BY <2>1, HandleKeeps
    <3>4. TemplatesHaveGates' /\ PersonsAreCalled'
        BY <3>1 DEF MessagesInv, World, TemplatesHaveGates, PersonsAreCalled, rows
    <3> QED BY <3>2, <3>3, <3>4 DEF MessagesInv, World
  <2>2. CASE UNCHANGED messageVars
    <3>1. MessagesTypeOK' /\ OneEach' /\ World'
        BY <2>2 DEF MessagesInv, MessagesTypeOK, OneEach, World, TemplatesHaveGates, PersonsAreCalled,
                    CachedNamesWereTrue, messageVars, rows, remembered, work, history
    <3>2. \A q \in Senders : Untouched(q) /\ UNCHANGED <<rows, called>>
        BY <2>2 DEF Untouched, messageVars, rows, work, history
    <3> QED BY <3>1, <3>2, UntouchedKeeps DEF MessagesInv
  <2> QED BY <2>1, <2>2, AdministerKeeps, ContactKeeps, RestartKeeps DEF MessagesNext
<1> QED BY InitMessages, <1>1, PTL DEF MessagesSpec

-----------------------------------------------------------------------------
\* Tables, caches and requests have the shape the code gives them.
THEOREM MessagesTypeCorrect == MessagesSpec => []MessagesTypeOK
<1>1. MessagesInv => MessagesTypeOK
    BY DEF MessagesInv
<1> QED BY MessagesInvariant, <1>1, PTL

\* No template is left of a gate that was deleted.
THEOREM NoTemplateWithoutGate == MessagesSpec => []TemplatesHaveGates
<1>1. MessagesInv => TemplatesHaveGates
    BY DEF MessagesInv, World
<1> QED BY MessagesInvariant, <1>1, PTL

\* Render: the text is one its gate had for its event while the request ran.
THEOREM TextIsOfGate == MessagesSpec => []TextOfOwnGate
<1>1. MessagesInv => TextOfOwnGate
    BY DEF MessagesInv, AnswerOK, TextOfOwnGate
<1> QED BY MessagesInvariant, <1>1, PTL

\* enrichWithNames and resolveName: a contact is shown by a name of its own,
\* and what the cache keeps was a name of its contact.
THEOREM NamesAreOfContacts == MessagesSpec => []NamesOfOwnContacts
<1>1. MessagesInv => NamesOfOwnContacts
    BY DEF MessagesInv, World, AnswerOK, NamesOfOwnContacts
<1> QED BY MessagesInvariant, <1>1, PTL

\* SendSystemMessage: success without a message has its reason.
THEOREM SkippedJustly == MessagesSpec => []SkippedForAReason
<1>1. MessagesInv => SkippedForAReason
    BY DEF MessagesInv, AnswerOK, SkippedForAReason
<1> QED BY MessagesInvariant, <1>1, PTL
=============================================================================
