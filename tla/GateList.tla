------------------------------- MODULE GateList -------------------------------
(***************************************************************************)
(* The list of gates by pages.  A caller asks for page after page as long  *)
(* as there is a next one; every page is a query of its own, with an       *)
(* offset into the newest-first order of the gates that exist at that      *)
(* moment, and gates come and go between two pages.                        *)
(***************************************************************************)
EXTENDS Naturals, Sequences, FiniteSets

CONSTANTS
    ListedGates,   \* UUIDs of gates
    Times,         \* values of created_at: start times of transactions
    Sizes,         \* page sizes a caller may ask for, 0 for none
    DefaultSize    \* 20 in the code

ASSUME TimesAreNumbers == Times \subseteq Nat
ASSUME SizesAreNumbers == Sizes \subseteq Nat /\ DefaultSize \in Nat \ {0}

VARIABLES
    createdAt,     \* view gate_summary: created_at of the gates that exist
    issuedIds,     \* UUIDs that have been given to a gate
    walk,          \* where the caller stands: idle, walking, done or failed
    limit,         \* gates on a page
    page,          \* the page it asks for next
    listed,        \* history: the gates it was shown
    present,       \* history: the gates that existed when it began
    removed        \* history: a gate was deleted since

listVars == <<createdAt, issuedIds, walk, limit, page, listed, present, removed>>
caller == <<walk, limit, page, listed, present>>

ListInit ==
    /\ createdAt = <<>>
    /\ issuedIds = {}
    /\ walk = "idle"
    /\ limit = DefaultSize
    /\ page = 0
    /\ listed = {}
    /\ present = {}
    /\ removed = FALSE

Rows == DOMAIN createdAt

\* NOW() is the start of the transaction, and so a gate may come into the list
\* behind gates that were there before, or share its time with one.
InsertGate(g, t) ==
    /\ g \notin issuedIds
    /\ issuedIds' = issuedIds \cup {g}
    /\ createdAt' = [h \in Rows \cup {g} |-> IF h = g THEN t ELSE createdAt[h]]
    /\ UNCHANGED <<caller, removed>>

RemoveGate(g) ==
    /\ g \in Rows
    /\ createdAt' = [h \in Rows \ {g} |-> createdAt[h]]
    /\ removed' = TRUE
    /\ UNCHANGED <<issuedIds, caller>>

StartList(size) ==
    /\ walk = "idle"
    /\ walk' = "walking"
    /\ limit' = IF size = 0 THEN DefaultSize ELSE size
    /\ present' = Rows
    /\ removed' = FALSE
    /\ UNCHANGED <<createdAt, issuedIds, page, listed>>

\* ORDER BY created_at DESC: gates of one time come in any order, and in
\* another one in the next query.
Orders ==
    {s \in [1..Cardinality(Rows) -> Rows] :
        \A i, j \in DOMAIN s : i < j => s[i] # s[j] /\ createdAt[s[i]] >= createdAt[s[j]]}

Shown(s) == {s[i] : i \in {k \in DOMAIN s : page * limit < k /\ k <= (page + 1) * limit}}

\* A mutant: the query takes no row more than the page holds.
ListWithoutNext ==
    /\ walk = "walking"
    /\ \E s \in Orders : listed' = listed \cup Shown(s)
    /\ walk' = "done"
    /\ UNCHANGED <<createdAt, issuedIds, limit, page, present, removed>>

\* List takes one row more than the page holds, to know whether there is a next.
List ==
    /\ walk = "walking"
    /\ \E s \in Orders :
          /\ listed' = listed \cup Shown(s)
          /\ IF Len(s) > (page + 1) * limit
             THEN page' = page + 1 /\ UNCHANGED walk
             ELSE walk' = "done" /\ UNCHANGED page
    /\ UNCHANGED <<createdAt, issuedIds, limit, present, removed>>

ListFails ==
    /\ walk = "walking"
    /\ walk' = "failed"
    /\ UNCHANGED <<createdAt, issuedIds, limit, page, listed, present, removed>>

ListNext ==
    \/ \E g \in ListedGates : (\E t \in Times : InsertGate(g, t)) \/ RemoveGate(g)
    \/ (\E size \in Sizes : StartList(size)) \/ List \/ ListFails

ListSpec == ListInit /\ [][ListNext]_listVars

-----------------------------------------------------------------------------
(* Properties.                                                             *)

TimesDiffer == \A g, h \in Rows : createdAt[g] = createdAt[h] => g = h

\* "Fetch limit+1 to determine if there's a next page": who asks for pages as
\* long as there is a next one is shown every gate that existed from the
\* beginning, whatever gates are created meanwhile.  It need not be so when a
\* gate is deleted, which moves the others to earlier pages, or when two gates
\* share their time.
EveryGateListed ==
    walk = "done" /\ ~removed /\ TimesDiffer => present \subseteq listed
=============================================================================
