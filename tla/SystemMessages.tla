---------------------------- MODULE SystemMessages ----------------------------
(***************************************************************************)
(* System messages: the templates an administrator keeps for the events of *)
(* a gate, and SendSystemMessage, which renders one and sends the text.    *)
(*                                                                         *)
(* A request makes a sequence of calls (database, contact service,         *)
(* provider), each an action; gates, templates and contacts change in      *)
(* between.  Two caches of the process outlive a request: gates whose type *)
(* is known, and names of contacts, which nothing ever invalidates.        *)
(*                                                                         *)
(* A template is abstracted to the roles whose name it shows, to whether   *)
(* it has words of its own, and to whether it can be executed.  Sending is *)
(* the last two calls of OutboundRouting: the gate is read, Meta is asked. *)
(***************************************************************************)
EXTENDS Naturals, FiniteSets

CONSTANTS
    Gates,          \* UUIDs of gates
    EventTypes,     \* system events
    Templates,      \* template texts
    Shows,          \* the roles whose name each template shows
    Bare,           \* templates without words of their own
    Broken,         \* templates that do not parse or execute
    Roles,          \* prefixes of the variables ..._contact_id and ..._name
    Persons,        \* ids of contacts
    Profiles,       \* [name, username] of a contact
    Senders,        \* requests that run at a time
    NameCacheSize,  \* capacity of the cache of names (512 in the code)
    Blank,          \* the empty string
    Given,          \* a name the caller passed itself
    Nothing         \* absent row, entry or value

Labels == {p.name : p \in Profiles} \cup {p.username : p \in Profiles} \cup {Blank}

ASSUME ShowsRoles == Shows \in [Templates -> SUBSET Roles]
ASSUME TemplateKinds == Bare \subseteq Templates /\ Broken \subseteq Templates
ASSUME NameCachePositive == NameCacheSize \in Nat \ {0}
ASSUME LabelsAreNoPersons ==
    Persons \cap (Labels \cup {Given, Nothing}) = {} /\ Given \notin Labels
ASSUME NothingIsNothing ==
    Nothing \notin Templates \cup Profiles \cup Labels \cup {Given}

\* The event's variables: the contact of each role, if that variable is there
\* and not empty, and the roles the caller names itself.
Request == [gate : Gates, event : EventTypes,
            who : [Roles -> Persons \cup {Nothing}], given : SUBSET Roles]

VARIABLES
    gates,      \* table gates: those that are left of Gates
    template,   \* table sys_msg_templates: <<gate, event>> -> text or Nothing
    person,     \* contact service: the profile of each contact, or Nothing
    typed,      \* OutboundMessageHandler.typeCache, without its limit of 1000
    names,      \* TemplateRenderer.contactNames
    at,         \* where each request stands, at last its answer
    asks,       \* the request
    text,       \* the template it has read
    pending,    \* roles whose contact is not resolved yet
    shown,      \* the name each role got
    delivered,  \* what the provider accepted
    during,     \* history: templates its gate and event had while it ran
    failed,     \* history: requests whose template could not be read
    called      \* history: names each contact has had

rows == <<gates, template, person>>
remembered == <<typed, names>>
work == <<asks, text, pending, shown>>
history == <<during, failed, called>>
messageVars == <<rows, remembered, at, work, delivered, history>>

Busy == {"sender", "template", "names", "fetch", "post"}
Replies == {"sent", "skipped", "gateNotFound", "error", "lost"}

\* The name a contact is shown by.
Display(profile) == IF profile.name # Blank THEN profile.name ELSE profile.username

-----------------------------------------------------------------------------
MessagesInit ==
    /\ gates = Gates
    /\ template = [k \in Gates \X EventTypes |-> Nothing]
    /\ person = [c \in Persons |-> Nothing]
    /\ typed = {}
    /\ names = [c \in Persons |-> Nothing]
    /\ at = [r \in Senders |-> "idle"]
    /\ asks = [r \in Senders |-> Nothing]
    /\ text = [r \in Senders |-> Nothing]
    /\ pending = [r \in Senders |-> {}]
    /\ shown = [r \in Senders |-> [p \in Roles |-> Blank]]
    /\ delivered = [r \in Senders |-> Nothing]
    /\ during = [r \in Senders |-> {}]
    /\ failed = {}
    /\ called = [c \in Persons |-> {}]

Move(r, place) == at' = [at EXCEPT ![r] = place]
Key(r) == <<asks[r].gate, asks[r].event>>

-----------------------------------------------------------------------------
(* SendSystemMessage.                                                      *)

Arrive(r, m) ==
    /\ at[r] \notin Busy
    /\ Move(r, "sender")
    /\ asks' = [asks EXCEPT ![r] = m]
    /\ text' = [text EXCEPT ![r] = Nothing]
    /\ pending' = [pending EXCEPT ![r] = {}]
    /\ shown' = [shown EXCEPT ![r] = [p \in Roles |-> Blank]]
    /\ delivered' = [delivered EXCEPT ![r] = Nothing]
    /\ during' = [during EXCEPT ![r] = {template[<<m.gate, m.event>>]}]
    /\ failed' = failed \ {r}
    /\ UNCHANGED <<rows, remembered, called>>

\* resolveSender: a gate that is cached may have been deleted.  An entry that
\* the limit evicts is only looked up again, as after a restart.
ResolveSender(r) ==
    /\ at[r] = "sender"
    /\ asks[r].gate \in typed \cup gates
    /\ typed' = typed \cup {asks[r].gate}
    /\ Move(r, "template")
    /\ UNCHANGED <<rows, names, work, delivered, history>>

Reply(r, answer) ==
    Move(r, answer) /\ UNCHANGED <<rows, remembered, work, delivered, history>>

NoSender(r) ==
    /\ at[r] = "sender"
    /\ asks[r].gate \notin typed
    /\ \/ asks[r].gate \notin gates /\ Reply(r, "gateNotFound")
       \/ Reply(r, "error")

\* enrichWithNames: the variables ..._contact_id that are not empty.
Resolvable(r) == {p \in Roles : asks[r].who[p] \in Persons}

\* The variables as they came: what the caller named, and nothing else.
Passed(r) == [p \in Roles |-> IF p \in asks[r].given THEN Given ELSE Blank]

\* A mutant: the query without the type of the event.
GetTemplateOfGate(r) ==
    /\ at[r] = "template"
    /\ \E e \in EventTypes : text' = [text EXCEPT ![r] = template[<<asks[r].gate, e>>]]
    /\ pending' = [pending EXCEPT ![r] = Resolvable(r)]
    /\ shown' = [shown EXCEPT ![r] = Passed(r)]
    /\ Move(r, "names")
    /\ UNCHANGED <<rows, remembered, asks, delivered, history>>

\* GetTemplate; without a row the text is empty.
GetTemplate(r) ==
    /\ at[r] = "template"
    /\ text' = [text EXCEPT ![r] = template[Key(r)]]
    /\ pending' = [pending EXCEPT ![r] = Resolvable(r)]
    /\ shown' = [shown EXCEPT ![r] = Passed(r)]
    /\ Move(r, "names")
    /\ UNCHANGED <<rows, remembered, asks, delivered, history>>

\* The query fails: a warning, and the text is empty as well.
GetTemplateFails(r) ==
    /\ at[r] = "template"
    /\ pending' = [pending EXCEPT ![r] = Resolvable(r)]
    /\ shown' = [shown EXCEPT ![r] = Passed(r)]
    /\ failed' = failed \cup {r}
    /\ Move(r, "names")
    /\ UNCHANGED <<rows, remembered, asks, text, delivered, during, called>>

Resolving(r, p) == at[r] = "names" /\ p \in pending[r]

\* The name of a role replaces one that the caller passed.
Named(r, p, label) ==
    /\ pending' = [pending EXCEPT ![r] = @ \ {p}]
    /\ shown' = [shown EXCEPT ![r][p] = label]
    /\ UNCHANGED <<rows, typed, at, asks, text, delivered, history>>

NameHit(r, p) ==
    /\ Resolving(r, p)
    /\ names[asks[r].who[p]] # Nothing
    /\ Named(r, p, names[asks[r].who[p]])
    /\ UNCHANGED names

\* lru.Add on a miss: a full cache loses one entry.
Kept(c) ==
    LET used == {d \in Persons : names[d] # Nothing}
    IN IF Cardinality(used) < NameCacheSize THEN {used} ELSE {used \ {o} : o \in used}

\* A mutant: the answer is kept under an entry that was there.
SearchContactMixed(r, p) ==
    LET c == asks[r].who[p]
    IN /\ Resolving(r, p)
       /\ names[c] = Nothing
       /\ person[c] # Nothing
       /\ Named(r, p, Display(person[c]))
       /\ \E d \in Persons : names' = [names EXCEPT ![d] = Display(person[c])]

\* SearchContact finds the contact; its name is remembered.
SearchContact(r, p) ==
    LET c == asks[r].who[p]
    IN /\ Resolving(r, p)
       /\ names[c] = Nothing
       /\ person[c] # Nothing
       /\ Named(r, p, Display(person[c]))
       /\ \E kept \in Kept(c) :
             names' = [d \in Persons |-> IF d = c THEN Display(person[c])
                                         ELSE IF d \in kept THEN names[d] ELSE Nothing]

\* A mutant: what is shown for a failed look-up is remembered.
SearchFailsRemembered(r, p) ==
    LET c == asks[r].who[p]
    IN /\ Resolving(r, p)
       /\ names[c] = Nothing
       /\ Named(r, p, c)
       /\ names' = [names EXCEPT ![c] = c]

\* The call fails or finds nobody: the id stands for the name, once.
SearchFails(r, p) ==
    /\ Resolving(r, p)
    /\ names[asks[r].who[p]] = Nothing
    /\ Named(r, p, asks[r].who[p])
    /\ UNCHANGED names

\* A mutant: a variable without a value fails the template (missingkey=error).
HasTextNamed(r) ==
    /\ text[r] \notin Broken \cup {Nothing}
    /\ \A p \in Shows[text[r]] : shown[r][p] # Blank

\* What executeTemplate returns is not empty.
HasText(r) ==
    /\ text[r] \notin Broken \cup {Nothing}
    /\ text[r] \in Bare => \E p \in Shows[text[r]] : shown[r][p] # Blank

\* executeTemplate: an empty text is not sent, and answered with success.
Execute(r) ==
    /\ at[r] = "names"
    /\ pending[r] = {}
    /\ Move(r, IF HasText(r) THEN "fetch" ELSE "skipped")
    /\ UNCHANGED <<rows, remembered, work, delivered, history>>

\* SendText reads the gate, which may be gone,
Fetch(r) ==
    /\ at[r] = "fetch"
    /\ asks[r].gate \in gates
    /\ Move(r, "post")
    /\ UNCHANGED <<rows, remembered, work, delivered, history>>

\* and posts the text; an answer that is lost is an error.
Post(r) ==
    /\ at[r] = "post"
    /\ delivered' = [delivered EXCEPT ![r] =
          [text |-> text[r], names |-> [p \in Shows[text[r]] |-> shown[r][p]]]]
    /\ \E answer \in {"sent", "error"} : Move(r, answer)
    /\ UNCHANGED <<rows, remembered, work, history>>

SendFails(r) ==
    /\ at[r] \in {"fetch", "post"}
    /\ Reply(r, "error")

-----------------------------------------------------------------------------
(* The administration of templates, gates, and the contacts.               *)

sending == <<remembered, at, work, delivered>>

\* What a request may see of its template from now on.
Commit(table) ==
    /\ template' = table
    /\ during' = [r \in Senders |-> IF at[r] \in Busy THEN during[r] \cup {table[Key(r)]}
                                    ELSE during[r]]

\* A mutant: the templates stay.
DeleteGateOnly(g) ==
    /\ g \in gates
    /\ gates' = gates \ {g}
    /\ UNCHANGED <<template, person, sending, history>>

\* ON DELETE CASCADE.
DeleteGate(g) ==
    /\ g \in gates
    /\ gates' = gates \ {g}
    /\ Commit([k \in DOMAIN template |-> IF k[1] = g THEN Nothing ELSE template[k]])
    /\ UNCHANGED <<person, sending, failed, called>>

\* SetTemplate inserts or replaces; without a gate the insert fails.
SetTemplate(g, e, t) ==
    /\ g \in gates
    /\ Commit([template EXCEPT ![<<g, e>>] = t])
    /\ UNCHANGED <<gates, person, sending, failed, called>>

\* DeleteTemplate; without a row it answers ErrNotFound.
DeleteTemplate(g, e) ==
    /\ template[<<g, e>>] # Nothing
    /\ Commit([template EXCEPT ![<<g, e>>] = Nothing])
    /\ UNCHANGED <<gates, person, sending, failed, called>>

\* Contacts come, change and go.
ChangeContact(c, profile) ==
    /\ person[c] # profile
    /\ person' = [person EXCEPT ![c] = profile]
    /\ called' = IF profile = Nothing THEN called
                 ELSE [called EXCEPT ![c] = @ \cup {Display(profile)}]
    /\ UNCHANGED <<gates, template, sending, during, failed>>

\* The process stops and starts.
Restart ==
    /\ typed' = {}
    /\ names' = [c \in Persons |-> Nothing]
    /\ at' = [r \in Senders |-> IF at[r] \in Busy THEN "lost" ELSE at[r]]
    /\ UNCHANGED <<rows, work, delivered, history>>

-----------------------------------------------------------------------------
Handle(r) ==
    \/ ResolveSender(r) \/ NoSender(r)
    \/ GetTemplate(r) \/ GetTemplateFails(r)
    \/ \E p \in Roles : NameHit(r, p) \/ SearchContact(r, p) \/ SearchFails(r, p)
    \/ Execute(r) \/ Fetch(r) \/ Post(r) \/ SendFails(r)

Administer(g) ==
    \/ DeleteGate(g)
    \/ \E e \in EventTypes : DeleteTemplate(g, e) \/ \E t \in Templates : SetTemplate(g, e, t)

MessagesNext ==
    \/ \E r \in Senders : Handle(r) \/ \E m \in Request : Arrive(r, m)
    \/ \E g \in Gates : Administer(g)
    \/ \E c \in Persons, profile \in Profiles \cup {Nothing} : ChangeContact(c, profile)
    \/ Restart

MessagesSpec == MessagesInit /\ [][MessagesNext]_messageVars

-----------------------------------------------------------------------------
(* Properties.                                                             *)

\* The tables, the caches and the requests have the shape the code gives them.
MessagesTypeOK ==
    /\ gates \subseteq Gates
    /\ template \in [Gates \X EventTypes -> Templates \cup {Nothing}]
    /\ person \in [Persons -> Profiles \cup {Nothing}]
    /\ typed \subseteq Gates
    /\ names \in [Persons -> Labels \cup {Nothing}]
    /\ at \in [Senders -> {"idle"} \cup Busy \cup Replies]
    /\ asks \in [Senders -> Request \cup {Nothing}]
    /\ text \in [Senders -> Templates \cup {Nothing}]
    /\ pending \in [Senders -> SUBSET Roles]
    /\ shown \in [Senders -> [Roles -> Persons \cup Labels \cup {Given}]]
    /\ during \in [Senders -> SUBSET (Templates \cup {Nothing})]
    /\ failed \subseteq Senders
    /\ called \in [Persons -> SUBSET Labels]

\* "gate_id ... REFERENCES gates(id) ON DELETE CASCADE": no template is left of
\* a gate, whatever was set while it was being deleted.
TemplatesHaveGates ==
    \A k \in DOMAIN template : template[k] # Nothing => k[1] \in gates

\* A text that reaches a user was made from a template that its gate had for
\* its event while the request ran: not another gate's, not one replaced before.
TextOfOwnGate ==
    \A r \in Senders : delivered[r] # Nothing => delivered[r].text \in during[r]

CachedNamesWereTrue ==
    \A c \in Persons : names[c] \in called[c] \cup {Nothing}

\* Names are looked up once and kept, by contact: a text shows every role that
\* has a contact by a name this contact has had, or by its id, never by
\* somebody else's name or by what the caller passed in its place.  A failed
\* look-up costs one message its name and no later one: what the cache holds
\* for a contact is a name it has had.
NamesOfOwnContacts ==
    /\ CachedNamesWereTrue
    /\ \A r \in Senders : delivered[r] # Nothing =>
          \A p \in Shows[delivered[r].text] : asks[r].who[p] \in Persons =>
              delivered[r].names[p] \in called[asks[r].who[p]] \cup {asks[r].who[p]}

\* "Returns an empty string when no override is configured - the caller must
\* skip sending": a request that succeeds without a message had no template at
\* some time, or one that failed or came out empty, or could not read it.  That
\* is what template.go:56 says; DefaultTextUsed is what others say.
SkippedForAReason ==
    \A r \in Senders : at[r] = "skipped" =>
        \/ Nothing \in during[r] \/ r \in failed
        \/ \E t \in during[r] : t \in Broken \cup Bare

\* "ErrNotFound signals "no override - use built-in default"", and after a
\* failed look-up the renderer logs "falling back to default": a request is
\* skipped only for the template it has read, never for the lack of one.
DefaultTextUsed ==
    \A r \in Senders : at[r] = "skipped" => text[r] # Nothing
=============================================================================
