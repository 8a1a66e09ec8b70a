-------------------------- MODULE MCFacebookInbound --------------------------
(* Model checking instances of FacebookInbound.                             *)
EXTENDS FacebookInbound

CONSTANTS u1, u2, pg1, pg2, g1, g2, n1, n2

Message(u, p, text, attachments) ==
    [user |-> u, page |-> p, kind |-> "message", text |-> text, attachments |-> attachments]
Postback(u, p) ==
    [user |-> u, page |-> p, kind |-> "postback", text |-> FALSE, attachments |-> <<>>]
Other(u, p) ==
    [user |-> u, page |-> p, kind |-> "other", text |-> FALSE, attachments |-> <<>>]

\* Meta batches the events of several pages of an app.
MCBatchedPayloads ==
    {<<Message(u1, pg1, TRUE, <<>>), Message(u2, pg2, TRUE, <<>>)>>}

MCPostback == {<<Postback(u1, pg1)>>}
=============================================================================
