------------------------- MODULE MCOutboundRouting -------------------------
(* Model checking instances of OutboundRouting.                             *)
EXTENDS OutboundRouting

CONSTANTS c1, c2, a1, a2, g1, t1

\* Two contacts with an address of their own, the others without one.
MCSubject == [c \in Contacts |-> IF c = c1 THEN a1 ELSE IF c = c2 THEN a2 ELSE None]

\* Each gate has a token of its own, of which the first may be refused. OAuth
\* callbacks come before the first message: no message looks at what they return.
MCTokens ==
    /\ \A g \in GateIds : gate[g] # None => (gate[g].token = t1 <=> g = g1)
    /\ \A t \in Tokens \ {t1} : token[t] = "valid"
    /\ \A g \in GateIds : granted[g] # None => \A r \in Requests : pc[r] = "idle"
=============================================================================
