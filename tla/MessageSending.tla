---------------------------- MODULE MessageSending ----------------------------
(***************************************************************************)
(* What the outbound service promises about a message: it is sent in one   *)
(* step or not at all, and the answer comes with that step.  There are no  *)
(* caches: the row a message leaves through, and the rows that an answer   *)
(* speaks of, are rows its gate had between question and answer.           *)
(***************************************************************************)
CONSTANTS
    Requests,   \* slots for the messages being sent
    GateIds,    \* gates
    Tokens,     \* access tokens
    Row,        \* [type, token, ...]: what is stored of a gate
    Message,    \* [gate, to, ...]
    AddressOf,  \* the address of every receiver, None for one without
    None

VARIABLES
    gate,       \* the row of each gate
    token,      \* whether Meta takes a token
    status,     \* idle, pending or the answer
    msg,        \* the message
    delivered,  \* what Meta has got
    seen        \* what the row of its gate was since the message was asked for

vars == <<gate, token, status, msg, delivered, seen>>

Init ==
    /\ gate = [g \in GateIds |-> None]
    /\ token = [t \in Tokens |-> "valid"]
    /\ status = [r \in Requests |-> "idle"]
    /\ msg = [r \in Requests |-> None]
    /\ delivered = [r \in Requests |-> None]
    /\ seen = [r \in Requests |-> {}]

Pending(r) == status[r] = "pending"
Rows(r) == seen[r] \ {None}

Ask(r) ==
    /\ ~ Pending(r)
    /\ status' = [status EXCEPT ![r] = "pending"]
    /\ delivered' = [delivered EXCEPT ![r] = None]
    /\ UNCHANGED <<gate, token>>
    /\ \E m \in Message :
          /\ msg' = [msg EXCEPT ![r] = m]
          /\ seen' = [seen EXCEPT ![r] = {gate[m.gate]}]

Answer(r, answer) ==
    /\ Pending(r)
    /\ status' = [status EXCEPT ![r] = answer]
    /\ UNCHANGED <<gate, token, msg, seen>>

\* The answer of Meta may be lost.
Deliver(r, row) ==
    /\ token[row.token] = "valid"
    /\ AddressOf[msg[r].to] # None
    /\ delivered' = [delivered EXCEPT ![r] =
            [type |-> row.type, token |-> row.token, to |-> AddressOf[msg[r].to]]]
    /\ Answer(r, "ok") \/ Answer(r, "error")

\* A replica may not have the row of a WhatsApp gate yet.
MayBeMissed(r) == None \in seen[r] \/ \E row \in Rows(r) : row.type = "whatsapp"

Refuse(r) ==
    /\ \/ Answer(r, "error")
       \/ Answer(r, "gateNotFound") /\ MayBeMissed(r)
       \/ Answer(r, "tokenInvalid") /\ \E row \in Rows(r) : token[row.token] # "valid"
       \/ Answer(r, "unimplemented") /\ \E row \in Rows(r) : row.type = "whatsapp"
    /\ UNCHANGED delivered

\* An instance stops with the requests it has.
Lose(S) ==
    /\ \A r \in S : Pending(r)
    /\ status' = [r \in Requests |-> IF r \in S THEN "lost" ELSE status[r]]
    /\ UNCHANGED <<gate, token, msg, delivered, seen>>

Commit(g, row) ==
    /\ gate' = [gate EXCEPT ![g] = row]
    /\ seen' = [r \in Requests |-> IF Pending(r) /\ msg[r].gate = g
                                   THEN seen[r] \cup {row} ELSE seen[r]]
    /\ UNCHANGED <<token, status, msg, delivered>>

Invalidate(t, how) ==
    /\ token' = [token EXCEPT ![t] = how]
    /\ UNCHANGED <<gate, status, msg, delivered, seen>>

Next ==
    \/ \E r \in Requests :
          Ask(r) \/ (\E row \in Rows(r) : Deliver(r, row)) \/ Refuse(r)
    \/ \E S \in SUBSET Requests : Lose(S)
    \/ \E g \in GateIds, row \in Row \cup {None} : Commit(g, row)
    \/ \E t \in Tokens, how \in {"revoked", "expired"} : Invalidate(t, how)

Spec == Init /\ [][Next]_vars
=============================================================================
