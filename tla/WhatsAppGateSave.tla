--------------------------- MODULE WhatsAppGateSave ---------------------------
(***************************************************************************)
(* CreateWhatsAppGate: three validations run at the same time in an        *)
(* errgroup, whose first error cancels the others and is the answer; then  *)
(* one statement inserts the gate, its account and its bot.  Contacts come *)
(* and go and other requests insert rows while a request waits.            *)
(***************************************************************************)
EXTENDS Naturals

CONSTANTS
    Requests,   \* slots for requests
    Bots,       \* identities of bots in the contact service
    Phones,     \* phone number ids
    None        \* absent request

VARIABLES
    contacts,   \* contact service: bots that exist
    accounts,   \* table gate_waba: <<phone, bot>>, phone_number_id is unique
    asked,      \* the request in each slot
    state,      \* where it stands, at last its answer
    check,      \* the validations: running, passed, ended
    group,      \* first error of the errgroup
    lived       \* history: bots that existed all along while a request ran

vars == <<contacts, accounts, asked, state, check, group, lived>>

Checks == {"contact", "account", "token"}
InFlight == {"received", "validating", "saving"}
NoError == "nil"

-----------------------------------------------------------------------------
Init ==
    /\ contacts \in SUBSET Bots
    /\ accounts = {}
    /\ asked = [r \in Requests |-> None]
    /\ state = [r \in Requests |-> "idle"]
    /\ check = [r \in Requests |-> [c \in Checks |-> "ended"]]
    /\ group = [r \in Requests |-> NoError]
    /\ lived = [r \in Requests |-> {}]

Put(r, place) == state' = [state EXCEPT ![r] = place]

Receive(r, bot, phone) ==
    /\ state[r] \notin InFlight
    /\ Put(r, "received")
    /\ asked' = [asked EXCEPT ![r] = [bot |-> bot, phone |-> phone]]
    /\ lived' = [lived EXCEPT ![r] = contacts]
    /\ UNCHANGED <<contacts, accounts, check, group>>

\* No session, a missing field, no client for the token.
Refuse(r) ==
    /\ state[r] = "received"
    /\ \E answer \in {"Unauthenticated", "InvalidArgument", "Internal"} : Put(r, answer)
    /\ UNCHANGED <<contacts, accounts, asked, check, group, lived>>

StartChecks(r) ==
    /\ state[r] = "received"
    /\ Put(r, "validating")
    /\ check' = [check EXCEPT ![r] = [c \in Checks |-> "running"]]
    /\ group' = [group EXCEPT ![r] = NoError]
    /\ UNCHANGED <<contacts, accounts, asked, lived>>

\* The goroutine of a validation returns an error; the first one counts.
Errs(r, c, error) ==
    /\ check' = [check EXCEPT ![r][c] = "ended"]
    /\ group' = [group EXCEPT ![r] = IF @ = NoError THEN error ELSE @]
    /\ UNCHANGED <<contacts, accounts, asked, state, lived>>

\* Search asks the contact service for one bot.  The adapter returns an error
\* if there is none, and (nil, nil) if there is one: no peer and no error,
\* which validateInternalBindingContact takes for a contact that is missing.
SearchContact(r) ==
    /\ state[r] = "validating" /\ check[r]["contact"] = "running"
    /\ Errs(r, "contact", IF asked[r].bot \in contacts THEN "NotFound" ELSE "Internal")

\* The two calls to Meta, and any call that fails or is cancelled.
CheckFails(r, c) ==
    /\ state[r] = "validating" /\ check[r][c] = "running"
    /\ \E error \in {"Unauthenticated", "InvalidArgument", "Internal"} : Errs(r, c, error)

CheckPasses(r, c) ==
    /\ state[r] = "validating" /\ check[r][c] = "running"
    /\ c # "contact"
    /\ check' = [check EXCEPT ![r][c] = "passed"]
    /\ UNCHANGED <<contacts, accounts, asked, state, group, lived>>

\* g.Wait returns when all three have.
Wait(r) ==
    /\ state[r] = "validating"
    /\ \A c \in Checks : check[r][c] # "running"
    /\ Put(r, IF group[r] = NoError THEN "saving" ELSE group[r])
    /\ UNCHANGED <<contacts, accounts, asked, check, group, lived>>

Insert(r) ==
    /\ state[r] = "saving"
    /\ IF \E row \in accounts : row[1] = asked[r].phone
       THEN Put(r, "AlreadyExists") /\ UNCHANGED accounts
       ELSE /\ accounts' = accounts \cup {<<asked[r].phone, asked[r].bot>>}
            /\ Put(r, "saved")
    /\ UNCHANGED <<contacts, asked, check, group, lived>>

ContactComes(b) ==
    /\ b \notin contacts
    /\ contacts' = contacts \cup {b}
    /\ UNCHANGED <<accounts, asked, state, check, group, lived>>

ContactGoes(b) ==
    /\ b \in contacts
    /\ contacts' = contacts \ {b}
    /\ lived' = [r \in Requests |-> lived[r] \ {b}]
    /\ UNCHANGED <<accounts, asked, state, check, group>>

-----------------------------------------------------------------------------
Save(r) ==
    \/ \E bot \in Bots, phone \in Phones : Receive(r, bot, phone)
    \/ Refuse(r) \/ StartChecks(r) \/ SearchContact(r)
    \/ \E c \in Checks : CheckFails(r, c) \/ CheckPasses(r, c)
    \/ Wait(r) \/ Insert(r)

Next ==
    \/ \E r \in Requests : Save(r)
    \/ \E b \in Bots : ContactComes(b) \/ ContactGoes(b)

Spec == Init /\ [][Next]_vars

-----------------------------------------------------------------------------
\* "contact that wanted to be binded to gate not exists": who is answered so
\* asked for a bot that was missing at some time while the request ran.
NotFoundMeansMissing ==
    \A r \in Requests : state[r] = "NotFound" => asked[r].bot \notin lived[r]

\* What follows from the answer of the adapter: whatever is asked for, and
\* whichever contacts there are, no request comes to the insert, and the table
\* of accounts stays empty.
NothingIsSaved ==
    /\ accounts = {}
    /\ \A r \in Requests : state[r] \notin {"saving", "saved", "AlreadyExists"}
=============================================================================
