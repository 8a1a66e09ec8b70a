------------------------------ MODULE MCServices ------------------------------
(***************************************************************************)
(* Model checking instance of the services that share no state with each   *)
(* other: system messages, Meta apps, media, interactive messages and the  *)
(* list of gates.  A behaviour is one of one of them, the others stay      *)
(* where they start.                                                       *)
(***************************************************************************)
EXTENDS MCSystemMessages, MetaApps, MediaTransfer, InteractiveMessage, GateList, TLC

CONSTANTS a1, k1, k2, s1, u1, l1, x2, b1

VARIABLE service    \* the one that runs

MCSecretOf == [k \in AppKeys |-> s1]

\* An app is created with one setting; an update names other scopes with another
\* secret and redirect URI, or no scopes with any.
MCRow(a) == [key |-> IF a = a1 THEN k1 ELSE k2, secret |-> s1, redirect |-> u1, scopes |-> l1]
MCUpdates ==
    {m \in Settings : \/ m.scopes = NoScopes
                      \/ m.scopes # l1 /\ m.secret # s1 /\ m.redirect # u1}
MCApps ==
    /\ \A a \in created' \ created : app'[a] = MCRow(a)
    /\ \A c \in Calls : call'[c] # call[c] /\ call'[c].op = "update" =>
          call'[c].with \in MCUpdates

\* Administration by two calls at a time, of one app with gates.
AppsAlone == AdministerApps /\ MCApps /\ created' \subseteq {a1}

\* An OAuth flow between two apps, while one call at a time, without scopes,
\* changes one of them.
AppsAndOAuth ==
    /\ AppsNext /\ MCApps /\ used' = {} /\ step'[x2] = "free"
    /\ \A c \in Calls : call'[c] # call[c] /\ call'[c].op = "update" =>
          call'[c].with.scopes = NoScopes /\ call'[c].app = a1

\* A file of two chunks, and one of one.
MCBlocks == [b \in Bodies |-> IF b = b1 THEN 2 ELSE 1]

SeqsUpTo(S, n) == UNION {[1..k -> S] : k \in 0..n}

\* Up to three rows of up to two buttons.
MCKeyboards == SeqsUpTo(SeqsUpTo(Kinds, 2), 3)

\* Menus of two items at most, of which each may have two again, three deep.
Paths == SeqsUpTo({1, 2}, 3) \ {<<>>}
Trees ==
    {T \in SUBSET Paths : \A p \in T :
        LET k == Len(p)
        IN /\ k > 1 => SubSeq(p, 1, k - 1) \in T
           /\ p[k] > 1 => [p EXCEPT ![k] = @ - 1] \in T}
Leaves(T) == {p \in T : Append(p, 1) \notin T}
MenuOf(T, urls) ==
    [p \in T |-> IF p \in urls THEN "url"
                 ELSE IF p \notin Leaves(T) \/ Len(p) = 2 THEN "nested" ELSE "payload"]
MCMenus == UNION {{MenuOf(T, urls) : urls \in SUBSET Leaves(T)} : T \in Trees}

NoRequest ==
    /\ request = [form |-> "menu", menu |-> <<>>] /\ cursor = <<1>>
    /\ offered = 0 /\ out = <<>> /\ elements = <<>> /\ sent = Unsent

servicesVars ==
    <<service, messageVars, appVars, mediaVars, interactiveVars, listVars>>

ServicesInit ==
    /\ MessagesInit /\ AppsInit /\ MediaInit /\ ListInit
    /\ \/ service \in {"messages", "apps", "oauth", "media", "list"} /\ NoRequest
       \/ service = "interactive" /\ InteractiveInit

ServicesNext ==
    /\ UNCHANGED service
    /\ \/ /\ service = "messages" /\ MessagesNext
          /\ UNCHANGED <<appVars, mediaVars, interactiveVars, listVars>>
       \/ /\ \/ service = "apps" /\ AppsAlone
             \/ service = "oauth" /\ AppsAndOAuth
          /\ UNCHANGED <<messageVars, mediaVars, interactiveVars, listVars>>
       \/ /\ service = "media" /\ MediaNext
          /\ UNCHANGED <<messageVars, appVars, interactiveVars, listVars>>
       \/ /\ service = "interactive" /\ InteractiveNext
          /\ UNCHANGED <<messageVars, appVars, mediaVars, listVars>>
       \/ /\ service = "list" /\ ListNext
          /\ UNCHANGED <<messageVars, appVars, mediaVars, interactiveVars>>

ServicesSpec ==
    ServicesInit /\ [][ServicesNext]_servicesVars

\* Contacts and types of events are interchangeable.
MCSymmetry == Permutations(Persons) \cup Permutations(EventTypes)
=============================================================================
