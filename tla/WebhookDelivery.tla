--------------------------- MODULE WebhookDelivery ---------------------------
(***************************************************************************)
(* What a provider promises about one webhook payload, whatever happens    *)
(* inside: Meta posts the payload until it is answered with 200, and each  *)
(* time the service forwards some of its content to the messenger.  The    *)
(* two providers promise different things.  Facebook forwards a part by    *)
(* one call at most; WhatsApp accepts a payload only when the messenger    *)
(* got all of it.  One call may reach the messenger several times, because *)
(* the gRPC client tries it again when an answer is lost.                  *)
(***************************************************************************)
EXTENDS Naturals, Sequences

CONSTANTS
    Deliveries,  \* payloads
    Position,    \* places in a payload
    MaxTries     \* how often the gRPC client tries one call

VARIABLES
    phase,       \* idle, working, accepted or refused
    content,     \* the places of the payload that hold something to forward
    sent,        \* what the messenger got, in the order it got it
    cut          \* deliveries that a crash or a disconnection cut short

vars == <<phase, content, sent, cut>>

Init ==
    /\ phase = [d \in Deliveries |-> "idle"]
    /\ content = [d \in Deliveries |-> {}]
    /\ sent = [d \in Deliveries |-> <<>>]
    /\ cut = {}

Got(d) == {sent[d][k] : k \in 1 .. Len(sent[d])}

Post(d, places) ==
    /\ phase[d] = "idle"
    /\ phase' = [phase EXCEPT ![d] = "working"]
    /\ content' = [content EXCEPT ![d] = places]
    /\ UNCHANGED <<sent, cut>>

Forward(d, x) ==
    /\ phase[d] = "working"
    /\ x \in content[d]
    /\ \E n \in 1 .. MaxTries : sent' = [sent EXCEPT ![d] = @ \o [k \in 1 .. n |-> x]]
    /\ UNCHANGED <<content, cut>>

Accept(d) ==
    /\ phase[d] = "working"
    /\ phase' = [phase EXCEPT ![d] = "accepted"]
    /\ UNCHANGED <<content, sent, cut>>

Refuse(d) ==
    /\ phase[d] = "working"
    /\ phase' = [phase EXCEPT ![d] = "refused"]
    /\ UNCHANGED <<content, sent, cut>>

Cut(d) ==
    /\ phase[d] = "working"
    /\ phase' = [phase EXCEPT ![d] = "refused"]
    /\ cut' = cut \cup {d}
    /\ UNCHANGED <<content, sent>>

Repeat(d) ==
    /\ phase[d] = "refused"
    /\ phase' = [phase EXCEPT ![d] = "working"]
    /\ UNCHANGED <<content, sent, cut>>

\* A part may be forwarded in the very step that answers with an error.
MayRefuse(d) == phase' \in {phase, [phase EXCEPT ![d] = "refused"]}

Meta(d) ==
    \/ \E places \in SUBSET Position : Post(d, places)
    \/ Repeat(d)
    \/ Cut(d)

\* Nothing the messenger got is forwarded again, unless a delivery was cut.
NextAtMostOneCall ==
    \E d \in Deliveries :
        \/ Meta(d) \/ Accept(d) \/ Refuse(d)
        \/ \E x \in Position :
              /\ x \notin Got(d) \/ d \in cut
              /\ Forward(d, x)
              /\ MayRefuse(d)

AtMostOneCall == Init /\ [][NextAtMostOneCall]_vars

\* Nothing is accepted before the messenger got it.
NextAtLeastOnce ==
    \E d \in Deliveries :
        \/ Meta(d) \/ Refuse(d)
        \/ Accept(d) /\ content[d] \subseteq Got(d)
        \/ \E x \in Position : Forward(d, x) /\ MayRefuse(d)

AtLeastOnce == Init /\ [][NextAtLeastOnce]_vars
=============================================================================
