------------------------- MODULE MCFacebookDeliveries -------------------------
(***************************************************************************)
(* Two scenarios of FacebookInbound for TLC.  "again": one payload, with   *)
(* events of every kind, that Meta posts again after an error.  "together":*)
(* two deliveries of one user, who changes the name, each posted once.     *)
(***************************************************************************)
EXTENDS MCFacebookInbound

CONSTANTS d1, d2

VARIABLE scenario

\* A text with attachments; events of two users, with an attachment that is
\* skipped and an event to leave out between them; a message without content.
RepeatedPayloads ==
    {<<Message(u1, pg1, TRUE, <<"media", "media">>)>>,
     <<Message(u1, pg1, FALSE, <<"share", "media">>), Other(u1, pg1), Postback(u2, pg1)>>,
     <<Message(u2, pg1, FALSE, <<>>)>>}

\* The sender is synchronised twice or once.
SharedPayloads == {<<Message(u1, pg1, TRUE, <<>>)>>, <<Postback(u1, pg1)>>}

MCPayloads == RepeatedPayloads \cup SharedPayloads

MCInit ==
    /\ Init
    /\ \/ scenario = "again" /\ nameOf[u1] = n1
       \/ scenario = "together"
    /\ nameOf[u2] = n1

\* The gate changes only before the payload is resolved to it, and the messenger
\* gets at most four messages.
Again ==
    /\ pc'[d2] = "idle"
    /\ UNCHANGED nameOf
    /\ payload'[d1] \in RepeatedPayloads \cup {<<>>}
    /\ pc[d1] \in {"idle", "resolve"} \/ UNCHANGED <<gateOf, disabled>>
    /\ Len(sent'[d1]) <= 4

\* Nothing is switched, deleted, cut short or tried again.
Together ==
    /\ UNCHANGED <<disabled, interrupted>>
    /\ \A p \in Pages : gateOf[p] # None => gateOf'[p] = gateOf[p]
    /\ attempt'[d2] <= attempt'[d1]
    /\ \A d \in Deliveries :
          /\ attempt'[d] <= 1
          /\ payload'[d] \in SharedPayloads \cup {<<>>}
          /\ Len(sent'[d]) <= 1

MCNext ==
    /\ UNCHANGED scenario
    /\ Next
    /\ nameOf'[u2] = n1
    /\ IF scenario = "again" THEN Again ELSE Together

MCSpec == MCInit /\ [][MCNext]_<<scenario, vars>>

MCFairSpec == MCSpec /\ \A d \in Deliveries : WF_vars(Process(d))
=============================================================================
