-------------------------- MODULE MCWhatsAppInbound --------------------------
(* Model checking instances of WhatsAppInbound.                             *)
EXTENDS WhatsAppInbound

CONSTANTS u1, u2, a1, a2, d1, d2

Msg(u, a, k) == [from |-> u, to |-> a, kind |-> k]

\* Payloads of two accounts, with several requests each, and with a document
\* that no retry gets past.
MCPayloads ==
    {<<Msg(u1, a1, "text"), Msg(u2, a2, "other"), Msg(u2, a2, "contacts")>>,
     <<Msg(u1, a2, "image"), Msg(u1, a1, "location")>>,
     <<Msg(u1, a1, "document"), Msg(u1, a1, "nameless"), Msg(u1, a1, "text")>>}

\* No call has reached the messenger twice.
Once(d) == \A k \in 1 .. Len(sent[d]) - 1 : sent[d][k] # sent[d][k + 1]

\* A delivery whose calls are tried again is alone.
MCNext == Next /\ (pc[d2] = "idle" \/ \A d \in Deliveries : Once(d))'

MCSpec == Init /\ [][MCNext]_vars

MCFairSpec == MCSpec /\ \A d \in Deliveries : WF_vars(Process(d))
=============================================================================
