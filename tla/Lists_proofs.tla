------------------------------ MODULE Lists_proofs ------------------------------
(***************************************************************************)
(* Proofs about what is made piece by piece: the pages of the list of      *)
(* gates, interactive messages and menus, and the blocks of a file.        *)
(*                                                                         *)
(* The list of gates.  The standing of a gate is its place in the          *)
(* newest-first order.  A gate that was there when the caller began and    *)
(* was not shown yet stands behind the pages it has seen: a new gate only  *)
(* moves others back, and a page shows all places up to the next page.     *)
(*                                                                         *)
(* Messages.  What lies before the cursor of a loop, in the order of a     *)
(* dictionary, was carried or could not be: MessageInv.  A pass of a loop  *)
(* moves the cursor behind one place, and when the loop ends either no     *)
(* place is left or a limit is reached.                                    *)
(*                                                                         *)
(* Files.  WholeOrNothing is about a stream that has ended.  What leads to *)
(* it is that at each stage the storage has the blocks that were read, in  *)
(* order, and that the block still to be sent is in a buffer nobody else   *)
(* has: StreamOf.                                                          *)
(***************************************************************************)
EXTENDS GateList, InteractiveMessage, MediaTransfer,
        FiniteSetTheorems, SequenceTheorems, TLAPS

-----------------------------------------------------------------------------
(* The list of gates.                                                      *)

NotOlder(g) == {h \in Rows : createdAt[h] >= createdAt[g]}
Standing(g) == Cardinality(NotOlder(g))

ListTyped ==
    /\ IsFiniteSet(Rows)
    /\ Rows \subseteq issuedIds
    /\ \A g \in Rows : createdAt[g] \in Nat
    /\ limit \in Nat \ {0}
    /\ page \in Nat

\* What is left to be shown lies behind the pages seen.
Ahead ==
    /\ walk = "idle" => page = 0
    /\ walk \in {"walking", "done"} /\ ~removed => present \subseteq Rows
    /\ walk = "walking" /\ ~removed /\ TimesDiffer =>
          \A g \in present \ listed : Standing(g) > page * limit
    /\ walk = "done" /\ ~removed /\ TimesDiffer => present \subseteq listed

GateListInv == ListTyped /\ Ahead

-----------------------------------------------------------------------------
LEMMA InitList == ListInit => GateListInv
<1> SUFFICES ASSUME ListInit PROVE GateListInv
    OBVIOUS
<1>1. Rows = {}
    BY DEF ListInit, Rows
<1>2. ListTyped
    BY <1>1, FS_EmptySet, SizesAreNumbers DEF ListInit, ListTyped
<1>3. Ahead
    BY DEF ListInit, Ahead
<1> QED BY <1>2, <1>3 DEF GateListInv

\* Places count from one.
LEMMA StandingType ==
    ASSUME ListTyped, NEW g \in Rows
    PROVE  /\ IsFiniteSet(NotOlder(g)) /\ g \in NotOlder(g)
           /\ Standing(g) \in Nat \ {0}
<1>1. IsFiniteSet(NotOlder(g)) /\ g \in NotOlder(g)
    BY FS_Subset DEF ListTyped, NotOlder
<1> QED BY <1>1, FS_CardinalityType, FS_EmptySet DEF Standing

\* The standing of a gate is its place in any order of the rows, if their times differ.
LEMMA StandingIsPlace ==
    ASSUME ListTyped, TimesDiffer, NEW s \in Orders, NEW g \in Rows
    PROVE  /\ Len(s) = Cardinality(Rows)
           /\ Standing(g) \in 1 .. Len(s)
           /\ s[Standing(g)] = g
<1> DEFINE n == Cardinality(Rows)
<1>1. n \in Nat /\ s \in [1 .. n -> Rows] /\ DOMAIN s = 1 .. n /\ Len(s) = n
    BY FS_CardinalityType DEF ListTyped, Orders
<1>2. \A i, j \in 1 .. n : i < j => s[i] # s[j] /\ createdAt[s[i]] >= createdAt[s[j]]
    BY <1>1 DEF Orders
<1>3. s \in Injection(1 .. n, Rows)
    BY <1>1, <1>2 DEF Injection, IsInjective
<1>4. IsFiniteSet(1 .. n) /\ Cardinality(1 .. n) = n
    BY <1>1, FS_Interval
<1>5. s \in Surjection(1 .. n, Rows)
    BY <1>3, <1>4, FS_Injection DEF ListTyped
<1>6. PICK i \in 1 .. n : s[i] = g
    BY <1>5 DEF Surjection
<1>7. NotOlder(g) = {s[j] : j \in 1 .. i}
  <2>1. ASSUME NEW h \in NotOlder(g) PROVE h \in {s[j] : j \in 1 .. i}
    <3>1. h \in Rows /\ createdAt[h] >= createdAt[g]
        BY <2>1 DEF NotOlder
    <3>2. PICK j \in 1 .. n : s[j] = h
        BY <1>5, <3>1 DEF Surjection
    <3>3. ~(i < j)
      <4> SUFFICES ASSUME i < j PROVE FALSE
          OBVIOUS
      <4>1. g # h /\ createdAt[g] >= createdAt[h]
          BY <1>2, <1>6, <3>2
      <4> QED BY <3>1, <4>1 DEF ListTyped, TimesDiffer
    <3> QED BY <1>1, <3>2, <3>3
  <2>2. ASSUME NEW j \in 1 .. i PROVE s[j] \in NotOlder(g)
    <3>1. j \in 1 .. n /\ s[j] \in Rows
        BY <1>1
    <3>2. createdAt[s[j]] >= createdAt[g]
        BY <1>2, <1>6, <3>1 DEF ListTyped
    <3> QED BY <3>1, <3>2 DEF NotOlder
  <2> QED BY <2>1, <2>2
<1>8. Standing(g) = i
  <2> DEFINE f == [j \in 1 .. i |-> s[j]]
  <2>1. f \in Bijection(1 .. i, NotOlder(g))
      BY <1>1, <1>2, <1>7 DEF Bijection, Injection, Surjection, IsInjective
  <2> QED BY <2>1, FS_CountingElements DEF ExistsBijection, Standing
<1> QED BY <1>1, <1>6, <1>8

-----------------------------------------------------------------------------
LEMMA InsertKeeps ==
    ASSUME GateListInv, NEW g \in ListedGates, NEW t \in Times, InsertGate(g, t)
    PROVE  GateListInv'
<1>1. Rows' = Rows \cup {g} /\ g \notin Rows
    BY DEF GateListInv, ListTyped, InsertGate, Rows
<1>2. /\ createdAt'[g] = t /\ t \in Nat
      /\ \A h \in Rows : createdAt'[h] = createdAt[h]
    BY <1>1, TimesAreNumbers DEF InsertGate
<1>3. ListTyped'
  <2>1. IsFiniteSet(Rows')
      BY <1>1, FS_AddElement DEF GateListInv, ListTyped
  <2> QED BY <1>1, <1>2, <2>1 DEF GateListInv, ListTyped, InsertGate, caller
<1>4. TimesDiffer' => TimesDiffer
    BY <1>1, <1>2 DEF TimesDiffer
<1>5. ASSUME NEW h \in Rows PROVE Standing(h)' >= Standing(h)
  <2>1. NotOlder(h) \subseteq NotOlder(h)'
      BY <1>1, <1>2, <1>5 DEF NotOlder
  <2>2. IsFiniteSet(NotOlder(h)')
      BY <1>1, <1>3, FS_Subset DEF ListTyped, NotOlder
  <2>3. Standing(h) \in Nat /\ Standing(h)' \in Nat
      BY <1>5, <2>2, StandingType, FS_CardinalityType DEF GateListInv, Standing
  <2> QED BY <2>1, <2>2, <2>3, FS_Subset DEF Standing
<1>6. Ahead'
  <2>1. UNCHANGED <<walk, limit, page, listed, present, removed>>
      BY DEF InsertGate, caller
  <2>2. /\ walk = "idle" => page = 0
        /\ walk \in {"walking", "done"} /\ ~removed => present \subseteq Rows'
        /\ walk = "done" /\ ~removed /\ TimesDiffer' => present \subseteq listed
      BY <1>1, <1>4 DEF GateListInv, Ahead
  <2>3. ASSUME walk = "walking", ~removed, TimesDiffer', NEW h \in present \ listed
        PROVE  Standing(h)' > page * limit
    <3>1. h \in Rows /\ Standing(h) > page * limit
        BY <1>4, <2>3 DEF GateListInv, Ahead
    <3>2. Standing(h) \in Nat /\ Standing(h)' \in Nat /\ page * limit \in Nat
        BY <1>1, <1>3, <3>1, StandingType, FS_Subset, FS_CardinalityType
           DEF GateListInv, ListTyped, NotOlder, Standing
    <3> QED BY <1>5, <3>1, <3>2
  <2> QED BY <2>1, <2>2, <2>3 DEF Ahead
<1> QED BY <1>3, <1>6 DEF GateListInv

LEMMA RemoveKeeps ==
    ASSUME GateListInv, NEW g \in ListedGates, RemoveGate(g)
    PROVE  GateListInv'
<1>1. Rows' = Rows \ {g} /\ \A h \in Rows' : createdAt'[h] = createdAt[h]
    BY DEF RemoveGate, Rows
<1>2. IsFiniteSet(Rows')
    BY <1>1, FS_RemoveElement DEF GateListInv, ListTyped
<1> QED BY <1>1, <1>2 DEF GateListInv, ListTyped, Ahead, RemoveGate, caller

\* Places count from one, and no page is seen yet.
LEMMA StartKeeps ==
    ASSUME GateListInv, NEW size \in Sizes, StartList(size)
    PROVE  GateListInv'
<1>1. UNCHANGED Rows /\ UNCHANGED createdAt
    BY DEF StartList, Rows
<1>2. limit' \in Nat \ {0} /\ page' = 0 /\ page' * limit' = 0
    BY SizesAreNumbers DEF StartList, GateListInv, Ahead
<1>3. ListTyped'
    BY <1>1, <1>2 DEF StartList, GateListInv, ListTyped
<1>4. \A h \in Rows : Standing(h)' \in Nat \ {0}
    BY <1>1, StandingType DEF GateListInv, Standing, NotOlder
<1>5. Ahead'
    BY <1>1, <1>2, <1>4 DEF StartList, Ahead
<1> QED BY <1>3, <1>5 DEF GateListInv

\* A page shows the places up to the next page.
LEMMA ListKeeps ==
    ASSUME GateListInv, List
    PROVE  GateListInv'
<1>1. PICK s \in Orders :
          /\ listed' = listed \cup Shown(s)
          /\ IF Len(s) > (page + 1) * limit
             THEN page' = page + 1 /\ UNCHANGED walk
             ELSE walk' = "done" /\ UNCHANGED page
    BY DEF List
<1>2. UNCHANGED <<createdAt, issuedIds, limit, present, removed, Rows>> /\ walk = "walking"
    BY DEF List, Rows
<1>3. ListTyped'
    BY <1>1, <1>2 DEF GateListInv, ListTyped
<1>4. ASSUME ~removed, TimesDiffer, NEW g \in present \ listed'
      PROVE  /\ Standing(g) > (page + 1) * limit
             /\ Len(s) > (page + 1) * limit
  <2>1. g \in Rows /\ Standing(g) > page * limit /\ g \notin Shown(s)
      BY <1>1, <1>2, <1>4 DEF GateListInv, Ahead
  <2>2. Len(s) = Cardinality(Rows) /\ Standing(g) \in 1 .. Len(s) /\ s[Standing(g)] = g
      BY <1>4, <2>1, StandingIsPlace DEF GateListInv
  <2>3. Len(s) \in Nat /\ DOMAIN s = 1 .. Len(s)
      BY <2>2, FS_CardinalityType DEF GateListInv, ListTyped, Orders
  <2>4. (page + 1) * limit \in Nat /\ page * limit \in Nat
      BY DEF GateListInv, ListTyped
  <2>5. ~(Standing(g) <= (page + 1) * limit)
      BY <2>1, <2>2, <2>3 DEF Shown
  <2> QED BY <2>2, <2>3, <2>4, <2>5
<1>5. UNCHANGED TimesDiffer /\ \A g : UNCHANGED Standing(g)
    BY <1>2 DEF TimesDiffer, Standing, NotOlder
<1>6. Ahead'
  <2>1. CASE Len(s) > (page + 1) * limit
      BY <1>1, <1>2, <1>4, <1>5, <2>1 DEF GateListInv, Ahead
  <2>2. CASE ~(Len(s) > (page + 1) * limit)
      BY <1>1, <1>2, <1>4, <1>5, <2>2 DEF GateListInv, Ahead
  <2> QED BY <2>1, <2>2
<1> QED BY <1>3, <1>6 DEF GateListInv

LEMMA GateListInvariant == ListSpec => []GateListInv
<1>1. GateListInv /\ [ListNext]_listVars => GateListInv'
  <2> SUFFICES ASSUME GateListInv, [ListNext]_listVars PROVE GateListInv'
      OBVIOUS
  <2>1. CASE UNCHANGED listVars
      BY <2>1 DEF listVars, GateListInv, ListTyped, Ahead, TimesDiffer, Standing, NotOlder, Rows
  <2>2. CASE ListFails
      BY <2>2 DEF ListFails, GateListInv, ListTyped, Ahead, Rows
  <2> QED BY <2>1, <2>2, InsertKeeps, RemoveKeeps, StartKeeps, ListKeeps DEF ListNext
<1> QED BY <1>1, InitList, PTL DEF ListSpec

-----------------------------------------------------------------------------
\* Who asks for pages to the end is shown every gate that was there from the
\* beginning, for any number of gates and pages of any size, if none is deleted
\* and the times differ.
THEOREM PagesShowEveryGate == ListSpec => []EveryGateListed
<1>1. GateListInv => EveryGateListed
    BY DEF GateListInv, Ahead, EveryGateListed
<1> QED BY <1>1, GateListInvariant, PTL

-----------------------------------------------------------------------------
(* Interactive messages and menus.                                         *)

Pos == Nat \ {0}
Types == Kinds \cup {"web_url", "postback"}
Entries(P) == [type : Types, place : P]
Cells == Nat \X Nat

CarriedKinds ==
    IF request.form = "markup" /\ ~HasURLButton THEN {"callback", "request"} ELSE {"url", "callback"}
Limit ==
    IF request.form = "listReply" THEN MaxButtonsPerElement
    ELSE IF HasURLButton THEN MaxButtons ELSE MaxQuickReplies

\* What the loops have looked at when they come to c, and what of it is for the
\* row of buttons they are making.
Behind(c) == {p \in Offered : Before(p, c)}
OfRow(c) == {p \in Behind(c) : request.form = "listReply" => p[1] = c[1]}

\* What was looked at and can be carried is in the row of buttons.
RowLoop ==
    /\ cursor \in Pos \X Pos
    /\ out \in Seq(Entries(Cells)) /\ InOrder(out) /\ Len(out) <= Limit
    /\ Places(out) = {p \in OfRow(cursor) : KindAt(p) \in CarriedKinds}

QuickRepliesLoop ==
    request.form = "markup" /\ ~HasURLButton =>
        /\ offered = Cardinality(Behind(cursor)) /\ offered <= MaxQuickReplies
        /\ Len(out) <= offered

\* The element of section s.
Complete(items, s) ==
    /\ Fits(items, MaxButtonsPerElement, {"url", "callback"})
    /\ \A i \in DOMAIN items : items[i].place[1] = s
    /\ \A p \in Offered : p[1] = s =>
          p \in Places(items) \/ (Carried(p) => Len(items) = MaxButtonsPerElement)

SectionsLoop ==
    request.form = "listReply" =>
        /\ elements \in Seq(Seq(Entries(Cells)))
        /\ Len(elements) = cursor[1] - 1 /\ Len(elements) <= MaxElements
        /\ \A s \in 1..Len(elements) : Complete(elements[s], s)

KeyboardLoops == request.form # "menu" => RowLoop /\ QuickRepliesLoop /\ SectionsLoop

\* The leaves that the loops have passed are actions.
MenuLoop ==
    request.form = "menu" =>
        /\ cursor \in Seq(Pos) /\ cursor # <<>>
        /\ out \in Seq(Entries(DOMAIN request.menu)) /\ InOrder(out)
        /\ Places(out) = {p \in DOMAIN request.menu :
                              Append(p, 1) \notin DOMAIN request.menu /\ Before(p, cursor)}
        /\ \A i \in DOMAIN out : out[i].type = "web_url" <=> request.menu[out[i].place] = "url"

MessageInv ==
    /\ request \in Requests
    /\ KeyboardLoops
    /\ MenuLoop
    /\ KeyboardFits
    /\ NothingLeftOut
    /\ MenuFlattened

-----------------------------------------------------------------------------
(* Rows of entries.                                                        *)

\* What is put behind all others keeps a row in order.
LEMMA PutEntry ==
    ASSUME NEW P, NEW s \in Seq(Entries(P)), NEW e \in Entries(P),
           InOrder(s), \A p \in Places(s) : Before(p, e.place)
    PROVE  /\ Append(s, e) \in Seq(Entries(P))
           /\ Len(Append(s, e)) = Len(s) + 1
           /\ InOrder(Append(s, e))
           /\ Places(Append(s, e)) = Places(s) \cup {e.place}
<1> DEFINE t == Append(s, e)
<1>1. /\ Len(s) \in Nat /\ DOMAIN s = 1..Len(s)
      /\ t \in Seq(Entries(P)) /\ Len(t) = Len(s) + 1 /\ DOMAIN t = 1..(Len(s) + 1)
      /\ \A i \in 1..Len(s) : t[i] = s[i]
      /\ t[Len(s) + 1] = e
    BY LenProperties
<1>2. InOrder(t)
  <2> SUFFICES ASSUME NEW i \in DOMAIN t, NEW j \in DOMAIN t, i < j
               PROVE  Before(t[i].place, t[j].place)
      BY DEF InOrder
  <2>1. i \in 1..Len(s) /\ t[i] = s[i]
      BY <1>1
  <2>2. CASE j = Len(s) + 1
    <3>1. t[i].place \in Places(s) /\ t[j] = e
        BY <1>1, <2>1, <2>2 DEF Places
    <3> QED BY <3>1
  <2>3. CASE j # Len(s) + 1
    <3>1. j \in 1..Len(s) /\ t[j] = s[j]
        BY <1>1, <2>3
    <3> QED BY <1>1, <2>1, <3>1 DEF InOrder
  <2> QED BY <2>2, <2>3
<1>3. Places(t) = Places(s) \cup {e.place}
  <2>1. ASSUME NEW i \in DOMAIN t PROVE t[i].place \in Places(s) \cup {e.place}
    <3>1. CASE i = Len(s) + 1
        BY <1>1, <3>1
    <3>2. CASE i # Len(s) + 1
        BY <1>1, <3>2 DEF Places
    <3> QED BY <3>1, <3>2
  <2>2. ASSUME NEW i \in DOMAIN s PROVE s[i].place \in Places(t)
    <3>1. i \in DOMAIN t /\ t[i] = s[i]
        BY <1>1
    <3> QED BY <3>1 DEF Places
  <2>3. Len(s) + 1 \in DOMAIN t
      BY <1>1
  <2> QED BY <1>1, <2>1, <2>2, <2>3 DEF Places
<1> QED BY <1>1, <1>2, <1>3

LEMMA EmptyRow ==
    /\ \A P : <<>> \in Seq(Entries(P))
    /\ Len(<<>>) = 0 /\ InOrder(<<>>) /\ Places(<<>>) = {}
BY EmptySeq DEF InOrder, Places

-----------------------------------------------------------------------------
(* Places in a keyboard.                                                   *)

LEMMA BeforeInKeyboard ==
    ASSUME NEW p \in Nat \X Nat, NEW q \in Nat \X Nat
    PROVE  Before(p, q) <=> p[1] < q[1] \/ (p[1] = q[1] /\ p[2] < q[2])
<1>1. /\ Len(p) = 2 /\ DOMAIN q = 1..2
      /\ p[1] \in Nat /\ p[2] \in Nat /\ q[1] \in Nat /\ q[2] \in Nat
    OBVIOUS
<1>2. ASSUME NEW k \in 1..2 PROVE k = 1 \/ k = 2
    OBVIOUS
<1>3. 1 - 1 <= 2 /\ 2 - 1 <= 2 /\ 1..(1 - 1) = {} /\ 1..(2 - 1) = {1} /\ 1 \in 1..2 /\ 2 \in 1..2
    OBVIOUS
<1>4. Before(p, q) => p[1] < q[1] \/ (p[1] = q[1] /\ p[2] < q[2])
  <2> SUFFICES ASSUME NEW k \in 1..2, \A j \in 1..(k - 1) : p[j] = q[j], p[k] < q[k]
               PROVE  p[1] < q[1] \/ (p[1] = q[1] /\ p[2] < q[2])
      BY <1>1 DEF Before
  <2>1. CASE k = 1
      BY <2>1
  <2>2. CASE k = 2
      BY <1>3, <2>2
  <2> QED BY <1>2, <2>1, <2>2
<1>5. ASSUME p[1] < q[1] PROVE Before(p, q)
    BY <1>1, <1>3, <1>5 DEF Before
<1>6. ASSUME p[1] = q[1], p[2] < q[2] PROVE Before(p, q)
    BY <1>1, <1>3, <1>6 DEF Before
<1> QED BY <1>4, <1>5, <1>6

LEMMA KeyboardType ==
    ASSUME request \in Requests, request.form # "menu"
    PROVE  /\ request.form \in {"markup", "listReply"}
           /\ request.rows \in Seq(Seq(Kinds))
           /\ DOMAIN request.rows = 1..Len(request.rows) /\ Len(request.rows) \in Nat
           /\ \A p : p \in Offered <=>
                 /\ p \in Pos \X Pos
                 /\ p[1] \in DOMAIN request.rows
                 /\ p[2] \in DOMAIN request.rows[p[1]]
           /\ \A p \in Offered : KindAt(p) \in Kinds
           /\ IsFiniteSet(Offered)
<1>1. /\ request.form \in {"markup", "listReply"}
      /\ request.rows \in Seq(Seq(Kinds))
    BY KeyboardsAreRows DEF Requests
<1> DEFINE rows == request.rows
<1>2. Len(rows) \in Nat /\ DOMAIN rows = 1..Len(rows) /\ rows \in [DOMAIN rows -> Seq(Kinds)]
    BY <1>1, LenProperties
<1>3. ASSUME NEW r \in DOMAIN rows
      PROVE  /\ rows[r] \in Seq(Kinds) /\ Len(rows[r]) \in Nat
             /\ DOMAIN rows[r] = 1..Len(rows[r])
             /\ \A c \in DOMAIN rows[r] : rows[r][c] \in Kinds
  <2>1. rows[r] \in Seq(Kinds)
      BY <1>2
  <2> QED BY <2>1, LenProperties
<1>4. ASSUME NEW p
      PROVE  p \in Offered <=> p \in Pos \X Pos /\ p[1] \in DOMAIN rows /\ p[2] \in DOMAIN rows[p[1]]
  <2>1. p \in Offered <=> \E r \in DOMAIN rows : p \in {r} \X DOMAIN rows[r]
      BY DEF Offered
  <2>2. ASSUME NEW r \in DOMAIN rows, p \in {r} \X DOMAIN rows[r]
        PROVE  p \in Pos \X Pos /\ p[1] \in DOMAIN rows /\ p[2] \in DOMAIN rows[p[1]]
      BY <1>2, <1>3, <2>2 DEF Pos
  <2>3. ASSUME p \in Pos \X Pos, p[1] \in DOMAIN rows, p[2] \in DOMAIN rows[p[1]]
        PROVE  p \in {p[1]} \X DOMAIN rows[p[1]]
      BY <2>3
  <2> QED BY <2>1, <2>2, <2>3
<1>5. ASSUME NEW p \in Offered PROVE KindAt(p) \in Kinds
    BY <1>3, <1>4 DEF KindAt
<1>6. IsFiniteSet(Offered)
  <2> DEFINE row == [r \in DOMAIN rows |-> {r} \X DOMAIN rows[r]]
             S == {{r} \X DOMAIN rows[r] : r \in DOMAIN rows}
  <2>1. IsFiniteSet(DOMAIN rows)
      BY <1>2, FS_Interval
  <2>2. row \in Surjection(DOMAIN rows, S)
      BY DEF Surjection
  <2>3. IsFiniteSet(S)
      BY <2>1, <2>2, FS_Surjection
  <2>4. ASSUME NEW r \in DOMAIN rows PROVE IsFiniteSet({r} \X DOMAIN rows[r])
    <3>1. IsFiniteSet(DOMAIN rows[r])
        BY <1>3, FS_Interval
    <3> QED BY <3>1, FS_Singleton, FS_Product
  <2>5. \A T \in S : IsFiniteSet(T)
      BY <2>4
  <2> QED BY <2>3, <2>5, FS_UNION DEF Offered
<1> QED BY <1>1, <1>2, <1>4, <1>5, <1>6

\* The loops go from one button to the next.
LEMMA NextButton ==
    ASSUME request \in Requests, request.form # "menu",
           NEW c \in Offered
    PROVE  LET d == <<c[1], c[2] + 1>>
           IN  /\ d \in Pos \X Pos
               /\ Behind(d) = Behind(c) \cup {c} /\ c \notin Behind(c)
               /\ OfRow(d) = OfRow(c) \cup {c}
               /\ \A p \in OfRow(c) : Before(p, c)
<1> DEFINE d == <<c[1], c[2] + 1>>
<1>1. c \in Pos \X Pos /\ d \in Pos \X Pos /\ d[1] = c[1] /\ d[2] = c[2] + 1
      /\ c \in Cells /\ d \in Cells /\ c[1] \in Nat /\ c[2] \in Nat
    BY KeyboardType DEF Pos, Cells
<1>2. ASSUME NEW p \in Offered
      PROVE  /\ Before(p, d) <=> Before(p, c) \/ p = c
             /\ ~Before(c, c)
  <2>1. p \in Cells /\ p[1] \in Nat /\ p[2] \in Nat /\ p = <<p[1], p[2]>> /\ c = <<c[1], c[2]>>
      BY <1>1, KeyboardType DEF Pos, Cells
  <2>2. Before(p, d) <=> p[1] < d[1] \/ (p[1] = d[1] /\ p[2] < d[2])
      BY <1>1, <2>1, BeforeInKeyboard DEF Cells
  <2>3. Before(p, c) <=> p[1] < c[1] \/ (p[1] = c[1] /\ p[2] < c[2])
      BY <1>1, <2>1, BeforeInKeyboard DEF Cells
  <2>4. Before(c, c) <=> c[1] < c[1] \/ (c[1] = c[1] /\ c[2] < c[2])
      BY <1>1, BeforeInKeyboard DEF Cells
  <2>5. p = c <=> p[1] = c[1] /\ p[2] = c[2]
      BY <2>1
  <2> QED BY <1>1, <2>1, <2>2, <2>3, <2>4, <2>5
<1>3. Behind(d) = Behind(c) \cup {c} /\ c \notin Behind(c)
    BY <1>2 DEF Behind
<1>4. OfRow(d) = OfRow(c) \cup {c}
    BY <1>1, <1>3 DEF OfRow
<1> QED BY <1>1, <1>3, <1>4 DEF OfRow, Behind

\* At the end of a row nothing is left of it.
LEMMA RowEnds ==
    ASSUME request \in Requests, request.form # "menu",
           cursor \in Pos \X Pos, EndOfRow
    PROVE  Behind(<<cursor[1] + 1, 1>>) = Behind(cursor)
<1> DEFINE d == <<cursor[1] + 1, 1>>
<1>1. /\ cursor \in Cells /\ d \in Cells /\ d[1] = cursor[1] + 1 /\ d[2] = 1
      /\ cursor[1] \in Pos /\ cursor[2] \in Pos
    BY DEF Pos, Cells
<1>2. /\ cursor[1] \in DOMAIN request.rows /\ cursor[2] \notin DOMAIN request.rows[cursor[1]]
      /\ request.rows[cursor[1]] \in Seq(Kinds)
    BY KeyboardType, LenProperties DEF EndOfRow, NoMoreRows
<1>3. /\ Len(request.rows[cursor[1]]) \in Nat
      /\ DOMAIN request.rows[cursor[1]] = 1..Len(request.rows[cursor[1]])
    BY <1>2, LenProperties
<1>4. ASSUME NEW p \in Offered PROVE Before(p, d) <=> Before(p, cursor)
  <2>1. p \in Cells /\ p[1] \in Pos /\ p[2] \in Pos /\ p[2] \in DOMAIN request.rows[p[1]]
      BY KeyboardType DEF Pos, Cells
  <2>2. Before(p, d) <=> p[1] < d[1] \/ (p[1] = d[1] /\ p[2] < d[2])
      BY <1>1, <2>1, BeforeInKeyboard DEF Cells
  <2>3. Before(p, cursor) <=> p[1] < cursor[1] \/ (p[1] = cursor[1] /\ p[2] < cursor[2])
      BY <1>1, <2>1, BeforeInKeyboard DEF Cells
  <2>4. p[1] = cursor[1] => p[2] < cursor[2]
      BY <1>1, <1>2, <1>3, <2>1 DEF Pos
  <2> QED BY <1>1, <2>1, <2>2, <2>3, <2>4 DEF Pos
<1> QED BY <1>4 DEF Behind

\* In a new row nothing was looked at.
LEMMA NewRow ==
    ASSUME request \in Requests, request.form = "listReply", NEW r \in Pos
    PROVE  OfRow(<<r, 1>>) = {}
<1> SUFFICES ASSUME NEW p \in OfRow(<<r, 1>>) PROVE FALSE
    OBVIOUS
<1>1. p \in Offered /\ Before(p, <<r, 1>>) /\ p[1] = r
    BY DEF OfRow, Behind
<1>2. p \in Cells /\ p[2] \in Pos /\ <<r, 1>> \in Cells
    BY <1>1, KeyboardType DEF Pos, Cells
<1> QED BY <1>1, <1>2, BeforeInKeyboard DEF Pos, Cells

\* What a loop has not come to is behind what it has looked at.
LEMMA NotYet ==
    ASSUME request \in Requests, request.form # "menu",
           cursor \in Pos \X Pos, NEW p \in Offered \ Behind(cursor)
    PROVE  /\ Rank(p) \in Nat
           /\ Cardinality(Behind(cursor)) \in Nat
           /\ Rank(p) > Cardinality(Behind(cursor))
<1>1. p \in Cells /\ cursor \in Cells /\ p[1] \in Nat /\ p[2] \in Nat /\ cursor[1] \in Nat /\ cursor[2] \in Nat
    BY KeyboardType DEF Pos, Cells
<1>2. ~(p[1] < cursor[1] \/ (p[1] = cursor[1] /\ p[2] < cursor[2]))
    BY <1>1, BeforeInKeyboard DEF Behind, Cells
<1>3. ASSUME NEW q \in Behind(cursor) PROVE q \in Offered /\ Before(q, p)
  <2>1. q \in Cells /\ q[1] \in Nat /\ q[2] \in Nat /\ q \in Offered
      BY KeyboardType DEF Pos, Cells, Behind
  <2>2. q[1] < cursor[1] \/ (q[1] = cursor[1] /\ q[2] < cursor[2])
      BY <1>1, <2>1, BeforeInKeyboard DEF Behind, Cells
  <2>3. q[1] < p[1] \/ (q[1] = p[1] /\ q[2] < p[2])
      BY <1>1, <1>2, <2>1, <2>2
  <2> QED BY <1>1, <2>1, <2>3, BeforeInKeyboard DEF Cells
<1>4. IsFiniteSet({q \in Offered : Before(q, p)})
    BY KeyboardType, FS_Subset
<1>5. Behind(cursor) \subseteq {q \in Offered : Before(q, p)}
    BY <1>3
<1>6. /\ IsFiniteSet(Behind(cursor))
      /\ Cardinality(Behind(cursor)) <= Cardinality({q \in Offered : Before(q, p)})
    BY <1>4, <1>5, FS_Subset
<1> QED BY <1>4, <1>6, FS_CardinalityType DEF Rank

\* When there are no more rows every button was looked at.
LEMMA AllSeen ==
    ASSUME request \in Requests, request.form # "menu",
           cursor \in Pos \X Pos, NoMoreRows
    PROVE  Behind(cursor) = Offered
<1>1. cursor \in Cells /\ cursor[1] \in Pos /\ cursor[1] > Len(request.rows)
    BY KeyboardType DEF Pos, Cells, NoMoreRows
<1>2. ASSUME NEW p \in Offered PROVE Before(p, cursor)
  <2>1. p \in Cells /\ p[1] \in Nat /\ p[1] <= Len(request.rows)
      BY KeyboardType DEF Pos, Cells
  <2> QED BY <1>1, <2>1, KeyboardType, BeforeInKeyboard DEF Cells, Pos
<1> QED BY <1>2 DEF Behind

-----------------------------------------------------------------------------
(* Places in a menu.                                                       *)

LEMMA Below ==
    \A n \in Nat \ {0} :
        /\ n \in 1..n /\ n - 1 \in Nat /\ n - 1 <= n /\ (n > 1 => n - 1 # 0)
        /\ \A k \in 1..(n - 1) : k \in 1..n /\ k # n /\ k < n
        /\ \A k \in 1..n : k - 1 \in Nat /\ (k # n => k \in 1..(n - 1))
        /\ \A k \in 1..(n - 1) : k \in 1..(n - 2) \/ k = n - 1
        /\ \A k \in 1..n : \A j \in 1..(k - 1) : j \in 1..n /\ j \in 1..(n - 1)
OBVIOUS

LEMMA ItemType ==
    ASSUME NEW q \in Seq(Pos), q # <<>>
    PROVE  /\ Len(q) \in Nat \ {0} /\ DOMAIN q = 1..Len(q)
           /\ \A k \in 1..Len(q) : q[k] \in Pos
           /\ Append(q, 1) \in Seq(Pos) /\ Len(Append(q, 1)) = Len(q) + 1
           /\ Append(q, 1)[Len(q) + 1] = 1
           /\ \A k \in 1..Len(q) : Append(q, 1)[k] = q[k]
           /\ After(q) \in Seq(Pos) /\ Len(After(q)) = Len(q)
           /\ After(q)[Len(q)] = q[Len(q)] + 1
           /\ \A k \in 1..(Len(q) - 1) : After(q)[k] = q[k]
<1>1. Len(q) \in Nat \ {0} /\ DOMAIN q = 1..Len(q) /\ \A k \in 1..Len(q) : q[k] \in Pos
    BY LenProperties, EmptySeq
<1>2. Len(q) \in 1..Len(q) /\ q[Len(q)] + 1 \in Pos /\ 1 \in Pos
    BY <1>1 DEF Pos
<1>3. /\ After(q) \in Seq(Pos) /\ Len(After(q)) = Len(q)
      /\ \A k \in 1..Len(q) : After(q)[k] = IF k = Len(q) THEN q[Len(q)] + 1 ELSE q[k]
    BY <1>2, ExceptSeq DEF After
<1>4. \A k \in 1..(Len(q) - 1) : k \in 1..Len(q) /\ k # Len(q)
    BY <1>1, Below
<1>5. /\ Append(q, 1) \in Seq(Pos) /\ Len(Append(q, 1)) = Len(q) + 1
      /\ Append(q, 1)[Len(q) + 1] = 1
      /\ \A k \in 1..Len(q) : Append(q, 1)[k] = q[k]
    BY <1>1, <1>2
<1>6. After(q)[Len(q)] = q[Len(q)] + 1
    BY <1>2, <1>3
<1> QED BY <1>1, <1>3, <1>4, <1>5, <1>6

LEMMA Prefixes ==
    ASSUME NEW q \in Seq(Pos), NEW n \in Nat, n <= Len(q)
    PROVE  /\ SubSeq(q, 1, n) \in Seq(Pos) /\ Len(SubSeq(q, 1, n)) = n
           /\ \A k \in 1..n : SubSeq(q, 1, n)[k] = q[k]
<1>1. Len(q) \in Nat /\ \A k \in 1..n : q[k] \in Pos
    BY LenProperties
<1>2. /\ SubSeq(q, 1, n) \in Seq(Pos) /\ Len(SubSeq(q, 1, n)) = IF 1 <= n THEN n - 1 + 1 ELSE 0
      /\ \A k \in 1..(n - 1 + 1) : SubSeq(q, 1, n)[k] = q[1 + k - 1]
    BY <1>1, SubSeqProperties
<1> QED BY <1>2

\* What is on the way to an item, and what is before that, are items.
LEMMA OnTheWay ==
    ASSUME NEW m, IsMenu(m), NEW p \in DOMAIN m, NEW q \in Seq(Pos), q # <<>>,
           Len(q) <= Len(p), \A j \in 1..(Len(q) - 1) : p[j] = q[j], q[Len(q)] <= p[Len(q)]
    PROVE  q \in DOMAIN m
<1> DEFINE k == Len(q)
<1>1. p \in Seq(Pos) /\ p # <<>>
    BY DEF IsMenu, Pos
<1>2. k \in DOMAIN p /\ q[k] \in 1..p[k] /\ k \in Nat \ {0} /\ k - 1 \in Nat /\ Len(p) \in Nat
  <2>1. Len(p) \in Nat \ {0} /\ DOMAIN p = 1..Len(p) /\ \A j \in 1..Len(p) : p[j] \in Pos
      BY <1>1, ItemType
  <2>2. k \in Nat \ {0} /\ q[k] \in Pos
      BY ItemType, Below
  <2> QED BY <2>1, <2>2 DEF Pos
<1>3. Append(SubSeq(p, 1, k - 1), q[k]) \in DOMAIN m
    BY <1>2 DEF IsMenu
<1>4. Append(SubSeq(p, 1, k - 1), q[k]) = q
  <2>1. /\ SubSeq(p, 1, k - 1) \in Seq(Pos) /\ Len(SubSeq(p, 1, k - 1)) = k - 1
        /\ \A j \in 1..(k - 1) : SubSeq(p, 1, k - 1)[j] = p[j]
    <3>1. k - 1 \in Nat /\ k - 1 <= Len(p)
        BY <1>2
    <3> QED BY <1>1, <3>1, Prefixes
  <2>2. q[k] \in Pos
      BY ItemType, Below
  <2>3. /\ Append(SubSeq(p, 1, k - 1), q[k]) \in Seq(Pos)
        /\ Len(Append(SubSeq(p, 1, k - 1), q[k])) = k
        /\ \A j \in 1..(k - 1) : Append(SubSeq(p, 1, k - 1), q[k])[j] = p[j]
        /\ Append(SubSeq(p, 1, k - 1), q[k])[k] = q[k]
      BY <1>2, <2>1, <2>2
  <2>4. \A j \in 1..k : Append(SubSeq(p, 1, k - 1), q[k])[j] = q[j]
      BY <1>2, <2>3
  <2> QED BY <2>3, <2>4, SeqEqual
<1> QED BY <1>3, <1>4

\* FlattenNested: the first item in an item comes next after it.
LEMMA FirstItem ==
    ASSUME NEW m, IsMenu(m), NEW p \in DOMAIN m, NEW q \in DOMAIN m
    PROVE  Before(p, Append(q, 1)) <=> Before(p, q) \/ p = q
<1> DEFINE n == Append(q, 1)
<1>1. p \in Seq(Pos) /\ p # <<>> /\ q \in Seq(Pos) /\ q # <<>>
    BY DEF IsMenu, Pos
<1>2. /\ Len(p) \in Nat /\ Len(q) \in Nat \ {0} /\ DOMAIN q = 1..Len(q) /\ DOMAIN n = 1..(Len(q) + 1)
      /\ n[Len(q) + 1] = 1 /\ \A k \in 1..Len(q) : n[k] = q[k]
      /\ \A k \in 1..Len(p) : p[k] \in Pos
    BY <1>1, ItemType, LenProperties
<1>3. ASSUME NEW k \in 1..(Len(q) + 1), k - 1 <= Len(p), \A j \in 1..(k - 1) : p[j] = n[j],
             k <= Len(p) => p[k] < n[k]
      PROVE  Before(p, q) \/ p = q
  <2>1. \A j \in 1..(k - 1) : j \in 1..Len(q) /\ p[j] = q[j]
      BY <1>2, <1>3
  <2>2. CASE k \in 1..Len(q)
      BY <1>2, <1>3, <2>1, <2>2 DEF Before
  <2>3. CASE k = Len(q) + 1
    <3>1. ~(k <= Len(p))
        BY <1>2, <1>3, <2>3 DEF Pos
    <3>2. Len(p) = Len(q) /\ \A j \in 1..Len(q) : p[j] = q[j]
        BY <1>2, <1>3, <2>1, <2>3, <3>1
    <3> QED BY <1>1, <3>2, SeqEqual
  <2> QED BY <1>2, <2>2, <2>3
<1>4. ASSUME Before(p, q) PROVE Before(p, n)
  <2>1. PICK k \in 1..Len(q) : /\ k - 1 <= Len(p) /\ \A j \in 1..(k - 1) : p[j] = q[j]
                               /\ k <= Len(p) => p[k] < q[k]
      BY <1>2, <1>4 DEF Before
  <2>2. k \in DOMAIN n /\ n[k] = q[k] /\ \A j \in 1..(k - 1) : n[j] = q[j]
      BY <1>2
  <2> QED BY <2>1, <2>2 DEF Before
<1>5. ASSUME p = q PROVE Before(p, n)
  <2> DEFINE k == Len(q) + 1
  <2>1. k \in DOMAIN n /\ k - 1 <= Len(p) /\ ~(k <= Len(p)) /\ \A j \in 1..(k - 1) : p[j] = n[j]
      BY <1>2, <1>5
  <2> QED BY <2>1 DEF Before
<1> QED BY <1>2, <1>3, <1>4, <1>5 DEF Before

\* AppendAction: behind an item without items comes the next one.
LEMMA NextItem ==
    ASSUME NEW m, IsMenu(m), NEW p \in DOMAIN m, NEW q \in DOMAIN m, Append(q, 1) \notin DOMAIN m
    PROVE  Before(p, After(q)) <=> Before(p, q) \/ p = q
<1> DEFINE n == After(q)
<1>1. p \in Seq(Pos) /\ p # <<>> /\ q \in Seq(Pos) /\ q # <<>>
    BY DEF IsMenu, Pos
<1>2. /\ Len(p) \in Nat /\ Len(q) \in Nat \ {0} /\ DOMAIN q = 1..Len(q) /\ DOMAIN n = 1..Len(q)
      /\ n[Len(q)] = q[Len(q)] + 1 /\ \A k \in 1..(Len(q) - 1) : n[k] = q[k]
      /\ (\A k \in 1..Len(p) : p[k] \in Pos) /\ \A k \in 1..Len(q) : q[k] \in Pos
    BY <1>1, ItemType, LenProperties
<1>3. ASSUME NEW k \in 1..Len(q), k - 1 <= Len(p), \A j \in 1..(k - 1) : p[j] = n[j],
             k <= Len(p) => p[k] < n[k], ~Before(p, q)
      PROVE  p = q
  <2>1. \A j \in 1..(k - 1) : p[j] = q[j]
      BY <1>2, <1>3
  <2>2. k <= Len(p) /\ ~(p[k] < q[k])
      BY <1>2, <1>3, <2>1 DEF Before
  <2>3. k = Len(q) /\ p[k] = q[k]
      BY <1>2, <1>3, <2>2 DEF Pos
  <2>4. \A j \in 1..Len(q) : p[j] = q[j]
      BY <1>2, <2>1, <2>3
  <2>5. Len(p) = Len(q)
    <3> SUFFICES ASSUME Len(p) > Len(q) PROVE FALSE
        BY <1>2, <2>2, <2>3
    <3>1. /\ Append(q, 1) \in Seq(Pos) /\ Append(q, 1) # <<>> /\ Len(Append(q, 1)) = Len(q) + 1
          /\ \A j \in 1..Len(q) : Append(q, 1)[j] = q[j]
          /\ Append(q, 1)[Len(q) + 1] = 1
      <4>1. Len(Append(q, 1)) # 0
          BY <1>1, <1>2, ItemType
      <4> QED BY <1>1, <4>1, ItemType, EmptySeq
    <3>2. Len(q) + 1 <= Len(p) /\ 1 <= p[Len(q) + 1]
        BY <1>2 DEF Pos
    <3>3. Append(q, 1) \in DOMAIN m
      <4> DEFINE a == Append(q, 1)
      <4>1. Len(a) - 1 = Len(q) /\ a[Len(a)] = 1
          BY <1>2, <3>1
      <4>2. Len(a) <= Len(p) /\ a[Len(a)] <= p[Len(a)]
          BY <3>1, <3>2
      <4>3. \A j \in 1..(Len(a) - 1) : p[j] = a[j]
          BY <2>4, <3>1, <4>1
      <4> HIDE DEF a
      <4> QED BY <3>1, <4>2, <4>3, OnTheWay DEF a
    <3> QED BY <3>3
  <2> QED BY <1>1, <2>4, <2>5, SeqEqual
<1>4. ASSUME Before(p, q) PROVE Before(p, n)
  <2>1. PICK k \in 1..Len(q) : /\ k - 1 <= Len(p) /\ \A j \in 1..(k - 1) : p[j] = q[j]
                               /\ k <= Len(p) => p[k] < q[k]
      BY <1>2, <1>4 DEF Before
  <2>2. k \in DOMAIN n /\ n[k] >= q[k] /\ \A j \in 1..(k - 1) : n[j] = q[j]
    <3>1. n[k] = q[k] \/ (k = Len(q) /\ n[k] = q[k] + 1)
        BY <1>2, Below
    <3>2. \A j \in 1..(k - 1) : n[j] = q[j]
        BY <1>2, Below
    <3>3. q[k] \in Nat
        BY <1>2 DEF Pos
    <3>4. n[k] >= q[k]
        BY <3>1, <3>3
    <3> QED BY <1>2, <3>2, <3>4
  <2>3. n[k] \in Nat /\ q[k] \in Nat
      BY <1>2 DEF Pos
  <2>4. k <= Len(p) => p[k] < n[k]
      BY <1>2, <2>1, <2>2, <2>3 DEF Pos
  <2> QED BY <2>1, <2>2, <2>4 DEF Before
<1>5. ASSUME p = q PROVE Before(p, n)
  <2> DEFINE k == Len(q)
  <2>1. k \in DOMAIN n /\ k - 1 <= Len(p) /\ p[k] < n[k] /\ \A j \in 1..(k - 1) : p[j] = n[j]
      BY <1>2, <1>5 DEF Pos
  <2> QED BY <2>1 DEF Before
<1> QED BY <1>2, <1>3, <1>4, <1>5 DEF Before

\* ReturnActions: at the end of the items in an item comes what is behind that.
LEMMA EndOfItems ==
    ASSUME NEW m, IsMenu(m), NEW p \in DOMAIN m, NEW q \in Seq(Pos), q \notin DOMAIN m, Len(q) > 1
    PROVE  LET u == SubSeq(q, 1, Len(q) - 1)
           IN  /\ u \in Seq(Pos) /\ u # <<>>
               /\ Before(p, After(u)) <=> Before(p, q)
<1> DEFINE u == SubSeq(q, 1, Len(q) - 1)
           n == After(u)
<1>1. p \in Seq(Pos) /\ p # <<>> /\ q # <<>>
    BY DEF IsMenu, Pos
<1>2. /\ Len(p) \in Nat /\ Len(q) \in Nat \ {0} /\ DOMAIN q = 1..Len(q)
      /\ (\A k \in 1..Len(p) : p[k] \in Pos) /\ \A k \in 1..Len(q) : q[k] \in Pos
    BY <1>1, ItemType, LenProperties
<1>3. /\ u \in Seq(Pos) /\ u # <<>> /\ Len(u) = Len(q) - 1
      /\ \A k \in 1..(Len(q) - 1) : u[k] = q[k]
  <2>1. u \in Seq(Pos) /\ Len(u) = Len(q) - 1 /\ \A k \in 1..(Len(q) - 1) : u[k] = q[k]
      BY <1>2, Prefixes
  <2>2. Len(u) # 0
      BY <1>2, <2>1
  <2> QED BY <2>1, <2>2, EmptySeq
<1>4. /\ DOMAIN n = 1..(Len(q) - 1) /\ n[Len(q) - 1] = q[Len(q) - 1] + 1
      /\ \A k \in 1..(Len(q) - 2) : n[k] = q[k]
  <2>1. /\ Len(n) = Len(u) /\ n \in Seq(Pos)
        /\ n[Len(u)] = u[Len(u)] + 1
        /\ \A k \in 1..(Len(u) - 1) : n[k] = u[k]
      BY <1>3, ItemType
  <2>2. DOMAIN n = 1..Len(n)
      BY <2>1, LenProperties
  <2> QED BY <1>2, <1>3, <2>1, <2>2
<1>5. ASSUME NEW k \in 1..(Len(q) - 1), k - 1 <= Len(p), \A j \in 1..(k - 1) : p[j] = n[j],
             k <= Len(p) => p[k] < n[k]
      PROVE  Before(p, q)
  <2> SUFFICES ASSUME ~Before(p, q) PROVE FALSE
      OBVIOUS
  <2>1. k \in 1..Len(q) /\ \A j \in 1..(k - 1) : p[j] = q[j]
      BY <1>2, <1>4, <1>5
  <2>2. k <= Len(p) /\ ~(p[k] < q[k])
      BY <1>2, <1>5, <2>1 DEF Before
  <2>3. k = Len(q) - 1 /\ p[k] = q[k]
    <3>1. p[k] \in Nat /\ q[k] \in Nat
        BY <1>2, <2>1, <2>2 DEF Pos
    <3>2. CASE k = Len(q) - 1
        BY <1>4, <1>5, <2>2, <3>1, <3>2
    <3>3. CASE k \in 1..(Len(q) - 2)
        BY <1>4, <1>5, <2>2, <3>1, <3>3
    <3> QED BY <1>2, <3>2, <3>3, Below
  <2>4. \A j \in 1..(Len(q) - 1) : p[j] = q[j]
    <3> TAKE j \in 1..(Len(q) - 1)
    <3>1. j \in 1..(Len(q) - 2) \/ j = Len(q) - 1
        BY <1>2, Below
    <3>2. CASE j = Len(q) - 1
        BY <2>3, <3>2
    <3>3. CASE j \in 1..(Len(q) - 2)
      <4>1. j \in 1..(k - 1)
          BY <1>2, <2>3, <3>3
      <4> QED BY <2>1, <4>1
    <3> QED BY <3>1, <3>2, <3>3
  <2>5. Len(q) <= Len(p) /\ ~(p[Len(q)] < q[Len(q)])
      BY <1>2, <2>2, <2>3, <2>4 DEF Before
  <2>6. q[Len(q)] <= p[Len(q)]
      BY <1>2, <2>5 DEF Pos
  <2> QED BY <1>1, <2>4, <2>5, <2>6, OnTheWay
<1>6. ASSUME Before(p, q) PROVE Before(p, n)
  <2>1. PICK k \in 1..Len(q) : /\ k - 1 <= Len(p) /\ \A j \in 1..(k - 1) : p[j] = q[j]
                               /\ k <= Len(p) => p[k] < q[k]
      BY <1>2, <1>6 DEF Before
  <2>2. CASE k < Len(q)
    <3>1. k \in DOMAIN n /\ \A j \in 1..(k - 1) : p[j] = n[j]
        BY <1>2, <1>4, <2>1, <2>2
    <3>2. k \in 1..(Len(q) - 2) \/ k = Len(q) - 1
      <4>1. k \in 1..(Len(q) - 1)
          BY <1>2, <2>2, Below
      <4> QED BY <1>2, <4>1, Below
    <3>3. k <= Len(p) => p[k] < n[k]
      <4> SUFFICES ASSUME k <= Len(p) PROVE p[k] < n[k]
          OBVIOUS
      <4>1. p[k] \in Nat /\ q[k] \in Nat /\ p[k] < q[k]
          BY <1>2, <2>1 DEF Pos
      <4> QED BY <1>4, <3>2, <4>1
    <3> QED BY <2>1, <3>1, <3>3 DEF Before
  <2>3. CASE k = Len(q)
    <3> DEFINE l == Len(q) - 1
    <3>1. l \in DOMAIN n /\ l - 1 <= Len(p) /\ \A j \in 1..(l - 1) : p[j] = n[j]
        BY <1>2, <1>4, <2>1, <2>3
    <3>2. l \in 1..Len(q) /\ p[l] = q[l] /\ n[l] = q[l] + 1 /\ q[l] \in Nat
        BY <1>2, <1>4, <2>1, <2>3 DEF Pos
    <3>3. l <= Len(p) => p[l] < n[l]
        BY <3>2
    <3> HIDE DEF n, l
    <3> QED BY <3>1, <3>3 DEF Before
  <2>4. k < Len(q) \/ k = Len(q)
      BY <1>2, Below
  <2> QED BY <2>2, <2>3, <2>4
<1> QED BY <1>3, <1>4, <1>5, <1>6 DEF Before

\* SetPersistentMenu: behind the last item of the menu nothing is left.
LEMMA EndOfMenu ==
    ASSUME NEW m, IsMenu(m), NEW p \in DOMAIN m, NEW q \in Seq(Pos), q \notin DOMAIN m, Len(q) = 1
    PROVE  Before(p, q)
<1>1. p \in Seq(Pos) /\ p # <<>> /\ q # <<>>
  <2>1. q # <<>>
      BY EmptySeq
  <2> QED BY <2>1 DEF IsMenu, Pos
<1>2. /\ Len(p) \in Nat \ {0} /\ DOMAIN q = 1..1 /\ p[1] \in Pos /\ q[1] \in Pos
    BY <1>1, ItemType
<1>3. p[1] < q[1]
  <2> SUFFICES ASSUME q[1] <= p[1] PROVE FALSE
      BY <1>2 DEF Pos
  <2>1. Len(q) <= Len(p) /\ \A j \in 1..(Len(q) - 1) : p[j] = q[j]
      BY <1>2
  <2> QED BY <1>1, <2>1, OnTheWay
<1>4. 1 \in DOMAIN q /\ 1 - 1 <= Len(p) /\ \A j \in 1..(1 - 1) : p[j] = q[j]
    BY <1>2
<1> QED BY <1>3, <1>4 DEF Before

-----------------------------------------------------------------------------
(* One pass of a loop.                                                     *)

LEMMA SameRequest ==
    ASSUME request' = request
    PROVE  /\ Offered' = Offered /\ CarriedKinds' = CarriedKinds /\ Limit' = Limit
           /\ HasURLButton' <=> HasURLButton
           /\ Behind(cursor)' = Behind(cursor') /\ OfRow(cursor)' = OfRow(cursor')
           /\ \A p : KindAt(p)' = KindAt(p)
<1>1. Offered' = Offered /\ \A p : KindAt(p)' = KindAt(p)
    BY DEF Offered, KindAt
<1>2. HasURLButton' <=> HasURLButton
    BY <1>1 DEF HasURLButton
<1> QED BY <1>1, <1>2 DEF CarriedKinds, Limit, Behind, OfRow

LEMMA LimitType == Limit \in Nat \ {0}
BY LimitsArePositive DEF Limit

\* Before an answer is sent there is nothing to be said of it.
LEMMA StillBuilding ==
    ASSUME sent' = Unsent PROVE KeyboardFits' /\ NothingLeftOut' /\ MenuFlattened'
BY DEF Unsent, KeyboardFits, NothingLeftOut, MenuFlattened

\* A button is looked at, and carried if it can be.
LEMMA RowStep ==
    ASSUME request \in Requests, request.form # "menu", RowLoop, request' = request,
           cursor \in Offered, Len(out) < Limit, cursor' = <<cursor[1], cursor[2] + 1>>,
           NEW type \in Types,
           IF KindAt(cursor) \in CarriedKinds THEN Put(type) ELSE UNCHANGED out
    PROVE  /\ RowLoop'
           /\ Len(out) \in Nat /\ Len(out') \in {Len(out), Len(out) + 1}
<1>1. /\ cursor' \in Pos \X Pos /\ OfRow(cursor') = OfRow(cursor) \cup {cursor}
      /\ \A p \in OfRow(cursor) : Before(p, cursor)
    BY NextButton
<1>2. /\ out \in Seq(Entries(Cells)) /\ InOrder(out) /\ Len(out) \in Nat
      /\ Places(out) = {p \in OfRow(cursor) : KindAt(p) \in CarriedKinds}
    BY LenProperties DEF RowLoop
<1>3. CASE KindAt(cursor) \in CarriedKinds
  <2> DEFINE e == [type |-> type, place |-> cursor]
  <2>1. out' = Append(out, e)
      BY <1>3 DEF Put
  <2>2. e \in Entries(Cells) /\ e.place = cursor
    <3>1. cursor \in Cells
        BY KeyboardType DEF Pos, Cells
    <3> QED BY <3>1 DEF Entries
  <2>3. \A p \in Places(out) : Before(p, e.place)
      BY <1>1, <1>2, <2>2
  <2> HIDE DEF e
  <2>4. /\ out' \in Seq(Entries(Cells)) /\ Len(out') = Len(out) + 1 /\ InOrder(out')
        /\ Places(out') = Places(out) \cup {cursor}
      BY <1>2, <2>1, <2>2, <2>3, PutEntry
  <2>5. Places(out') = {p \in OfRow(cursor') : KindAt(p) \in CarriedKinds}
      BY <1>1, <1>2, <1>3, <2>4
  <2>6. Len(out') <= Limit
      BY <1>2, <2>4, LimitType
  <2>7. InOrder(out)' /\ Places(out)' = Places(out')
      BY <2>4 DEF InOrder, Places
  <2> QED BY <1>1, <1>2, <2>4, <2>5, <2>6, <2>7, SameRequest DEF RowLoop
<1>4. CASE KindAt(cursor) \notin CarriedKinds
  <2>1. out' = out
      BY <1>4
  <2>2. Places(out) = {p \in OfRow(cursor') : KindAt(p) \in CarriedKinds}
      BY <1>1, <1>2, <1>4
  <2>3. InOrder(out)' /\ Places(out)' = Places(out)
      BY <1>2, <2>1 DEF InOrder, Places
  <2> QED BY <1>1, <1>2, <2>1, <2>2, <2>3, SameRequest DEF RowLoop
<1> QED BY <1>3, <1>4

LEMMA StepBuildQuickReplies ==
    ASSUME MessageInv, BuildQuickReplies PROVE MessageInv'
<1>1. /\ request \in Requests /\ request' = request /\ request.form = "markup" /\ ~HasURLButton
      /\ sent' = Unsent /\ cursor \in Offered /\ RowLoop /\ QuickRepliesLoop
      /\ cursor' = <<cursor[1], cursor[2] + 1>> /\ offered' = offered + 1
    BY DEF MessageInv, KeyboardLoops, BuildQuickReplies, Building
<1>2. CarriedKinds = {"callback", "request"} /\ Limit = MaxQuickReplies
    BY <1>1 DEF CarriedKinds, Limit
<1>3. /\ offered = Cardinality(Behind(cursor)) /\ offered < MaxQuickReplies /\ Len(out) <= offered
      /\ IsFiniteSet(Behind(cursor)) /\ offered \in Nat /\ Len(out) \in Nat /\ MaxQuickReplies \in Nat
  <2>1. IsFiniteSet(Behind(cursor))
      BY <1>1, KeyboardType, FS_Subset DEF Behind
  <2>2. /\ offered = Cardinality(Behind(cursor)) /\ Len(out) <= offered /\ ~(offered >= MaxQuickReplies)
      BY <1>1 DEF QuickRepliesLoop, BuildQuickReplies, QuickRepliesFull
  <2>3. offered \in Nat /\ Len(out) \in Nat /\ MaxQuickReplies \in Nat
      BY <1>1, <2>1, <2>2, FS_CardinalityType, LenProperties, LimitsArePositive DEF RowLoop
  <2> QED BY <2>1, <2>2, <2>3
<1>4. RowLoop' /\ Len(out') \in {Len(out), Len(out) + 1}
  <2>1. KindAt(cursor) \in Types
      BY <1>1, KeyboardType DEF Types
  <2>2. IF KindAt(cursor) \in CarriedKinds THEN Put(KindAt(cursor)) ELSE UNCHANGED out
      BY <1>2 DEF BuildQuickReplies
  <2>3. Len(out) < Limit
      BY <1>2, <1>3
  <2> QED BY <1>1, <2>1, <2>2, <2>3, RowStep
<1>5. QuickRepliesLoop'
  <2>1. Behind(cursor') = Behind(cursor) \cup {cursor} /\ cursor \notin Behind(cursor)
      BY <1>1, NextButton
  <2>2. Cardinality(Behind(cursor')) = offered + 1
      BY <1>3, <2>1, FS_AddElement
  <2> QED BY <1>1, <1>3, <1>4, <2>2, SameRequest DEF QuickRepliesLoop
<1> QED BY <1>1, <1>4, <1>5, StillBuilding DEF MessageInv, KeyboardLoops, SectionsLoop, MenuLoop

\* The loop of a template or of a section takes a button.
LEMMA TemplateStep ==
    ASSUME request \in Requests, request.form # "menu", RowLoop,
           CarriedKinds = {"url", "callback"}, TemplateButton(Limit)
    PROVE  RowLoop'
<1>1. Len(out) < Limit
  <2>1. Len(out) \in Nat /\ Limit \in Nat
      BY LimitType, LenProperties DEF RowLoop
  <2> QED BY <2>1 DEF TemplateButton, ButtonsFull
<1>2. ActionType(KindAt(cursor)) \in Types
    BY DEF ActionType, Types
<1>3. IF KindAt(cursor) \in CarriedKinds THEN Put(ActionType(KindAt(cursor))) ELSE UNCHANGED out
    BY DEF TemplateButton
<1>4. cursor \in Offered /\ cursor' = <<cursor[1], cursor[2] + 1>> /\ request' = request
    BY DEF TemplateButton
<1> QED BY <1>1, <1>2, <1>3, <1>4, RowStep

LEMMA StepBuildButtonTemplate ==
    ASSUME MessageInv, BuildButtonTemplate PROVE MessageInv'
<1>1. /\ request \in Requests /\ request' = request /\ request.form = "markup" /\ HasURLButton
      /\ sent' = Unsent /\ RowLoop /\ TemplateButton(MaxButtons)
    BY DEF MessageInv, KeyboardLoops, BuildButtonTemplate, Building, TemplateButton
<1>2. RowLoop'
    BY <1>1, TemplateStep DEF CarriedKinds, Limit
<1> QED BY <1>1, <1>2, StillBuilding, SameRequest
        DEF MessageInv, KeyboardLoops, QuickRepliesLoop, SectionsLoop, MenuLoop

LEMMA StepNextRow ==
    ASSUME MessageInv, NextRow PROVE MessageInv'
<1>1. /\ request \in Requests /\ request' = request /\ request.form = "markup"
      /\ sent' = Unsent /\ out' = out /\ offered' = offered
      /\ cursor' = <<cursor[1] + 1, 1>> /\ EndOfRow /\ RowLoop /\ QuickRepliesLoop
    BY DEF MessageInv, KeyboardLoops, NextRow, Building
<1>2. cursor' \in Pos \X Pos /\ Behind(cursor') = Behind(cursor) /\ OfRow(cursor') = OfRow(cursor)
  <2>1. cursor \in Pos \X Pos
      BY <1>1 DEF RowLoop
  <2>2. cursor' \in Pos \X Pos
      BY <1>1, <2>1 DEF Pos
  <2>3. Behind(cursor') = Behind(cursor)
      BY <1>1, <2>1, RowEnds
  <2> QED BY <1>1, <2>2, <2>3 DEF OfRow
<1>3. InOrder(out)' /\ Places(out)' = Places(out)
    BY <1>1 DEF RowLoop, InOrder, Places, Before
<1>4. RowLoop' /\ QuickRepliesLoop'
    BY <1>1, <1>2, <1>3, SameRequest DEF RowLoop, QuickRepliesLoop
<1> QED BY <1>1, <1>4, StillBuilding DEF MessageInv, KeyboardLoops, SectionsLoop, MenuLoop

LEMMA StepSectionButton ==
    ASSUME MessageInv, SectionButton PROVE MessageInv'
<1>1. /\ request \in Requests /\ request' = request /\ request.form = "listReply"
      /\ sent' = Unsent /\ RowLoop /\ SectionsLoop /\ TemplateButton(MaxButtonsPerElement)
      /\ elements' = elements /\ cursor' = <<cursor[1], cursor[2] + 1>>
    BY DEF MessageInv, KeyboardLoops, SectionButton, Building, TemplateButton
<1>2. RowLoop'
    BY <1>1, TemplateStep DEF CarriedKinds, Limit
<1>3. SectionsLoop'
  <2>1. cursor'[1] = cursor[1]
      BY <1>1
  <2>2. ASSUME NEW s \in 1..Len(elements) PROVE Complete(elements[s], s)'
    <3>1. Complete(elements[s], s)
        BY <1>1 DEF SectionsLoop
    <3> QED BY <1>1, <3>1, SameRequest DEF Complete, Fits, InOrder, Places, Carried, Before
  <2> QED BY <1>1, <2>1, <2>2 DEF SectionsLoop
<1> QED BY <1>1, <1>2, <1>3, StillBuilding DEF MessageInv, KeyboardLoops, QuickRepliesLoop, MenuLoop

\* A row of buttons is fit to be sent, wherever the loop is.
LEMMA RowFits ==
    ASSUME RowLoop PROVE Fits(out, Limit, CarriedKinds)
<1>1. ASSUME NEW i \in DOMAIN out
      PROVE  out[i].place \in Offered /\ KindAt(out[i].place) \in CarriedKinds
  <2>1. out[i].place \in Places(out)
      BY DEF Places
  <2> QED BY <2>1 DEF RowLoop, OfRow, Behind
<1> QED BY <1>1 DEF RowLoop, Fits

\* A section that is left is full, or every button of it was looked at.
LEMMA SectionComplete ==
    ASSUME request \in Requests, request.form = "listReply", RowLoop,
           EndOfRow \/ ButtonsFull(MaxButtonsPerElement)
    PROVE  Complete(out, cursor[1])
<1>1. CarriedKinds = {"url", "callback"} /\ Limit = MaxButtonsPerElement
    BY DEF CarriedKinds, Limit
<1>2. Fits(out, MaxButtonsPerElement, {"url", "callback"})
    BY <1>1, RowFits
<1>3. ASSUME NEW i \in DOMAIN out PROVE out[i].place[1] = cursor[1]
  <2>1. out[i].place \in Places(out)
      BY DEF Places
  <2> QED BY <2>1 DEF RowLoop, OfRow
<1>4. ASSUME NEW p \in Offered, p[1] = cursor[1], p \notin Places(out), Carried(p)
      PROVE  Len(out) = MaxButtonsPerElement
  <2>1. p \notin Behind(cursor)
      BY <1>1, <1>4 DEF RowLoop, OfRow, Carried
  <2>2. ~EndOfRow
    <3> SUFFICES ASSUME EndOfRow PROVE FALSE
        OBVIOUS
    <3>1. Behind(<<cursor[1] + 1, 1>>) = Behind(cursor) /\ cursor \in Pos \X Pos
        BY RowEnds DEF RowLoop
    <3>2. /\ p \in Cells /\ <<cursor[1] + 1, 1>> \in Cells
          /\ cursor[1] \in Nat /\ <<cursor[1] + 1, 1>>[1] = cursor[1] + 1
        BY <3>1, KeyboardType DEF Pos, Cells
    <3>3. Before(p, <<cursor[1] + 1, 1>>)
        BY <1>4, <3>2, BeforeInKeyboard DEF Cells
    <3> QED BY <2>1, <3>1, <3>3 DEF Behind
  <2>3. Len(out) >= MaxButtonsPerElement /\ Len(out) <= MaxButtonsPerElement
      BY <1>1, <2>2 DEF RowLoop, ButtonsFull
  <2>4. Len(out) \in Nat /\ MaxButtonsPerElement \in Nat
      BY LenProperties, LimitsArePositive DEF RowLoop
  <2> QED BY <2>3, <2>4
<1> QED BY <1>2, <1>3, <1>4 DEF Complete

LEMMA StepNextSection ==
    ASSUME MessageInv, NextSection PROVE MessageInv'
<1>1. /\ request \in Requests /\ request' = request /\ request.form = "listReply"
      /\ sent' = Unsent /\ RowLoop /\ SectionsLoop
      /\ EndOfRow \/ ButtonsFull(MaxButtonsPerElement)
      /\ elements' = Append(elements, out) /\ out' = <<>>
      /\ cursor' = <<cursor[1] + 1, 1>> /\ cursor[1] <= MaxElements
    BY DEF MessageInv, KeyboardLoops, NextSection, Building
<1>2. /\ cursor \in Pos \X Pos /\ cursor' \in Pos \X Pos /\ cursor'[1] = cursor[1] + 1
      /\ cursor[1] + 1 \in Pos /\ cursor[1] \in Nat
    BY <1>1 DEF RowLoop, Pos
<1>3. RowLoop'
  <2>1. OfRow(cursor') = {}
      BY <1>1, <1>2, NewRow
  <2>2. out' \in Seq(Entries(Cells)) /\ InOrder(out)' /\ Places(out)' = {} /\ Len(out') = 0
      BY <1>1, EmptyRow DEF InOrder, Places
  <2>3. Len(out') <= Limit
      BY <2>2, LimitType
  <2> QED BY <1>1, <1>2, <2>1, <2>2, <2>3, SameRequest DEF RowLoop
<1>4. SectionsLoop'
  <2>1. /\ elements \in Seq(Seq(Entries(Cells))) /\ Len(elements) = cursor[1] - 1
        /\ out \in Seq(Entries(Cells)) /\ Len(elements) \in Nat
        /\ \A s \in 1..Len(elements) : Complete(elements[s], s)
      BY <1>1, LenProperties DEF SectionsLoop, RowLoop
  <2>2. /\ elements' \in Seq(Seq(Entries(Cells))) /\ Len(elements') = Len(elements) + 1
        /\ \A s \in 1..Len(elements) : elements'[s] = elements[s]
        /\ elements'[Len(elements) + 1] = out
      BY <1>1, <2>1
  <2>3. Len(elements') = cursor'[1] - 1 /\ Len(elements') <= MaxElements /\ Len(elements) + 1 = cursor[1]
      BY <1>1, <1>2, <2>1, <2>2
  <2>4. Complete(out, cursor[1])
      BY <1>1, SectionComplete
  <2>5. ASSUME NEW s \in 1..Len(elements') PROVE Complete(elements'[s], s)
    <3>1. CASE s = Len(elements) + 1
        BY <2>2, <2>3, <2>4, <3>1
    <3>2. CASE s # Len(elements) + 1
      <4>1. s \in 1..Len(elements)
          BY <2>1, <2>2, <3>2
      <4> QED BY <2>1, <2>2, <4>1
    <3> QED BY <3>1, <3>2
  <2>6. ASSUME NEW s \in 1..Len(elements') PROVE Complete(elements[s], s)'
    <3>1. request' = request /\ Complete(elements'[s], s)
        BY <1>1, <2>5
    <3> QED BY <3>1 DEF Complete, Fits, InOrder, Places, Carried, KindAt, Offered
  <2> QED BY <2>2, <2>3, <2>6 DEF SectionsLoop
<1> QED BY <1>1, <1>3, <1>4, StillBuilding DEF MessageInv, KeyboardLoops, QuickRepliesLoop, MenuLoop

-----------------------------------------------------------------------------
(* The answers.                                                            *)

LEMMA LoopsKept ==
    ASSUME MessageInv, UNCHANGED <<request, cursor, offered, out, elements>>
    PROVE  request' \in Requests /\ KeyboardLoops' /\ MenuLoop'
<1>1. /\ request \in Requests /\ KeyboardLoops /\ MenuLoop /\ request' = request /\ cursor' = cursor
      /\ offered' = offered /\ out' = out /\ elements' = elements
    BY DEF MessageInv
<1>2. InOrder(out)' <=> InOrder(out)
    BY <1>1 DEF InOrder
<1>3. Places(out)' = Places(out)
    BY <1>1 DEF Places
<1>4. MenuLoop'
    BY <1>1, <1>2, <1>3 DEF MenuLoop
<1>5. ASSUME request.form # "menu" PROVE RowLoop' /\ QuickRepliesLoop' /\ SectionsLoop'
  <2>1. RowLoop'
      BY <1>1, <1>2, <1>3, <1>5, SameRequest DEF KeyboardLoops, RowLoop
  <2>2. QuickRepliesLoop'
      BY <1>1, <1>5, SameRequest DEF KeyboardLoops, QuickRepliesLoop
  <2>3. ASSUME NEW s \in 1..Len(elements), Complete(elements[s], s)
        PROVE  Complete(elements[s], s)'
      BY <1>1, <2>3 DEF Complete, Fits, InOrder, Places, Carried, KindAt, Offered
  <2>4. SectionsLoop'
      BY <1>1, <1>5, <2>3 DEF KeyboardLoops, SectionsLoop
  <2> QED BY <2>1, <2>2, <2>4
<1> QED BY <1>1, <1>4, <1>5 DEF KeyboardLoops

\* What quick replies leave out when their loop ends.
LEMMA QuickRepliesEnd ==
    ASSUME request \in Requests, request.form = "markup", ~HasURLButton,
           RowLoop, QuickRepliesLoop, NoMoreRows \/ QuickRepliesFull,
           NEW p \in Offered, p \notin Places(out)
    PROVE  KindAt(p) = "none" \/ Rank(p) > MaxQuickReplies
<1>1. CASE p \in Behind(cursor)
  <2>1. p \in OfRow(cursor) /\ CarriedKinds = {"callback", "request"}
      BY <1>1 DEF OfRow, CarriedKinds
  <2>2. KindAt(p) \notin {"callback", "request"}
      BY <2>1 DEF RowLoop
  <2>3. KindAt(p) \in Kinds /\ KindAt(p) # "url"
      BY KeyboardType DEF HasURLButton
  <2> QED BY <2>2, <2>3 DEF Kinds
<1>2. CASE p \notin Behind(cursor)
  <2>1. cursor \in Pos \X Pos /\ p \in Offered \ Behind(cursor)
      BY <1>2 DEF RowLoop
  <2>2. ~NoMoreRows
      BY <2>1, AllSeen
  <2>3. offered = Cardinality(Behind(cursor)) /\ offered >= MaxQuickReplies
      BY <2>2 DEF QuickRepliesLoop, QuickRepliesFull
  <2>4. Rank(p) \in Nat /\ offered \in Nat /\ Rank(p) > offered /\ MaxQuickReplies \in Nat
      BY <2>1, <2>3, NotYet, LimitsArePositive
  <2> QED BY <2>3, <2>4
<1> QED BY <1>1, <1>2

\* What a template leaves out when its loop ends.
LEMMA TemplateEnd ==
    ASSUME request \in Requests, request.form = "markup", HasURLButton,
           RowLoop, NoMoreRows \/ ButtonsFull(MaxButtons),
           NEW p \in Offered, p \notin Places(out), Carried(p)
    PROVE  Len(out) = MaxButtons
<1>1. CarriedKinds = {"url", "callback"} /\ Limit = MaxButtons
    BY DEF CarriedKinds, Limit
<1>2. p \notin Behind(cursor)
    BY <1>1 DEF RowLoop, OfRow, Carried
<1>3. ~NoMoreRows
    BY <1>2, AllSeen DEF RowLoop
<1>4. Len(out) >= MaxButtons /\ Len(out) <= MaxButtons
    BY <1>1, <1>3 DEF RowLoop, ButtonsFull
<1>5. Len(out) \in Nat /\ MaxButtons \in Nat
    BY LenProperties, LimitsArePositive DEF RowLoop
<1> QED BY <1>4, <1>5

LEMMA StepBuildMarkupMessage ==
    ASSUME MessageInv, BuildMarkupMessage PROVE MessageInv'
<1>1. /\ request \in Requests /\ request.form = "markup" /\ RowLoop /\ QuickRepliesLoop
      /\ UNCHANGED <<request, cursor, offered, out, elements>>
    BY DEF MessageInv, KeyboardLoops, BuildMarkupMessage, Building, Send
<1>2. KeyboardLoops' /\ MenuLoop' /\ request' \in Requests
    BY <1>1, LoopsKept
<1>3. Fits(out, Limit, CarriedKinds)
    BY <1>1, RowFits
<1>4. CASE HasURLButton
  <2>1. NoMoreRows \/ ButtonsFull(MaxButtons)
      BY <1>4 DEF BuildMarkupMessage
  <2>2. PICK u \in Offered : KindAt(u) = "url"
      BY <1>4 DEF HasURLButton
  <2>3. out # <<>>
    <3> SUFFICES ASSUME out = <<>> PROVE FALSE
        OBVIOUS
    <3>1. Places(out) = {} /\ Len(out) = 0
        BY EmptyRow
    <3>2. Len(out) = MaxButtons
        BY <1>1, <1>4, <2>1, <2>2, <3>1, TemplateEnd DEF Carried
    <3> QED BY <3>1, <3>2, LimitsArePositive
  <2>4. sent' = [form |-> "buttons", items |-> out]
      BY <1>4, <2>3 DEF BuildMarkupMessage, Send, Answer
  <2>5. KeyboardFits'
    <3>1. Fits(out, MaxButtons, {"url", "callback"})
        BY <1>1, <1>3, <1>4 DEF Limit, CarriedKinds
    <3>2. Fits(out, MaxButtons, {"url", "callback"})'
        BY <1>1, <3>1 DEF Fits, InOrder, KindAt, Offered
    <3> QED BY <1>1, <2>4, <3>2 DEF KeyboardFits
  <2>6. NothingLeftOut'
    <3>1. ASSUME NEW p \in Offered, p \notin Places(out), Carried(p) PROVE Len(out) = MaxButtons
        BY <1>1, <1>4, <2>1, <3>1, TemplateEnd
    <3> QED BY <1>1, <2>4, <3>1 DEF NothingLeftOut, Offered, Places, Carried, KindAt
  <2> QED BY <1>2, <2>4, <2>5, <2>6 DEF MessageInv, MenuFlattened
<1>5. CASE ~HasURLButton
  <2>1. NoMoreRows \/ QuickRepliesFull
      BY <1>5 DEF BuildMarkupMessage
  <2>2. sent' = Answer("quickReplies", out)
      BY <1>5 DEF BuildMarkupMessage, Send
  <2>3. ASSUME NEW p \in Offered, p \notin Places(out)
        PROVE  KindAt(p) = "none" \/ Rank(p) > MaxQuickReplies
      BY <1>1, <1>5, <2>1, <2>3, QuickRepliesEnd
  <2>4. CASE out = <<>>
    <3>1. sent' = Refused /\ Places(out) = {}
        BY <2>2, <2>4, EmptyRow DEF Answer
    <3>2. NothingLeftOut'
      <4>1. \A p \in Offered : KindAt(p) = "none" \/ Rank(p) > MaxQuickReplies
          BY <2>3, <3>1
      <4>2. (\A p \in Offered : KindAt(p) = "none" \/ Rank(p) > MaxQuickReplies)'
          BY <1>1, <4>1 DEF Offered, Rank, KindAt
      <4>3. sent'.form = "refused" /\ request'.form = "markup"
          BY <1>1, <3>1 DEF Refused
      <4> QED BY <4>2, <4>3 DEF NothingLeftOut
    <3> QED BY <1>2, <3>1, <3>2 DEF MessageInv, MenuFlattened, KeyboardFits, Refused
  <2>5. CASE out # <<>>
    <3>1. sent' = [form |-> "quickReplies", items |-> out]
        BY <2>2, <2>5 DEF Answer
    <3>2. KeyboardFits'
      <4>1. Fits(out, MaxQuickReplies, {"callback", "request"})
          BY <1>1, <1>3, <1>5 DEF Limit, CarriedKinds
      <4>2. Fits(out, MaxQuickReplies, {"callback", "request"})'
          BY <1>1, <4>1 DEF Fits, InOrder, KindAt, Offered
      <4> QED BY <1>1, <3>1, <4>2 DEF KeyboardFits
    <3>3. NothingLeftOut'
        BY <1>1, <2>3, <3>1 DEF NothingLeftOut, Offered, Places, Rank, KindAt
    <3> QED BY <1>2, <3>1, <3>2, <3>3 DEF MessageInv, MenuFlattened
  <2> QED BY <2>4, <2>5
<1> QED BY <1>4, <1>5

LEMMA StepBuildListReplyMessage ==
    ASSUME MessageInv, BuildListReplyMessage PROVE MessageInv'
<1>1. /\ request \in Requests /\ request.form = "listReply" /\ RowLoop /\ SectionsLoop
      /\ NoMoreRows \/ cursor[1] > MaxElements
      /\ sent' = Answer("elements", elements)
      /\ UNCHANGED <<request, cursor, offered, out, elements>>
    BY DEF MessageInv, KeyboardLoops, BuildListReplyMessage, Building, Send
<1>2. KeyboardLoops' /\ MenuLoop' /\ request' \in Requests
    BY <1>1, LoopsKept
<1>3. /\ elements \in Seq(Seq(Entries(Cells))) /\ Len(elements) = cursor[1] - 1
      /\ Len(elements) \in Nat /\ Len(elements) <= MaxElements /\ DOMAIN elements = 1..Len(elements)
      /\ \A s \in DOMAIN elements : Complete(elements[s], s)
      /\ cursor[1] \in Nat \ {0} /\ MaxElements \in Nat \ {0}
    BY <1>1, LenProperties, LimitsArePositive DEF SectionsLoop, RowLoop, Pos
<1>4. CASE elements = <<>>
  <2>1. sent' = Refused
      BY <1>1, <1>4 DEF Answer
  <2>2. request.rows = <<>>
    <3>1. cursor[1] = 1
        BY <1>3, <1>4, EmptySeq
    <3>2. NoMoreRows
        BY <1>1, <1>3, <3>1
    <3>3. request.rows \in Seq(Seq(Kinds)) /\ 1 \notin 1..Len(request.rows) /\ Len(request.rows) \in Nat
        BY <1>1, <3>1, <3>2, KeyboardType DEF NoMoreRows
    <3>4. Len(request.rows) = 0
        BY <3>3
    <3> QED BY <3>3, <3>4, EmptySeq
  <2> QED BY <1>1, <1>2, <2>1, <2>2 DEF MessageInv, KeyboardFits, NothingLeftOut, MenuFlattened, Refused
<1>5. CASE elements # <<>>
  <2>1. sent' = [form |-> "elements", items |-> elements]
      BY <1>1, <1>5 DEF Answer
  <2>2. KeyboardFits'
    <3>1. ASSUME NEW s \in DOMAIN elements
          PROVE  /\ Fits(elements[s], MaxButtonsPerElement, {"url", "callback"})
                 /\ \A i \in DOMAIN elements[s] : elements[s][i].place[1] = s
        BY <1>3 DEF Complete
    <3>2. sent'.form = "elements" /\ sent'.items = elements
        BY <2>1
    <3>3. ASSUME NEW s \in DOMAIN elements
          PROVE  Fits(sent.items[s], MaxButtonsPerElement, {"url", "callback"})'
        BY <1>1, <3>1, <3>2 DEF Fits, InOrder, KindAt, Offered
    <3> QED BY <1>3, <3>1, <3>2, <3>3 DEF KeyboardFits
  <2>3. NothingLeftOut'
    <3>1. ASSUME NEW p \in Offered, ~(p[1] > MaxElements)
          PROVE  \/ p \in Places(elements[p[1]])
                 \/ Carried(p) => Len(elements[p[1]]) = MaxButtonsPerElement
      <4>1. p[1] \in Nat \ {0} /\ p[1] \in 1..Len(request.rows) /\ Len(request.rows) \in Nat
          BY <1>1, KeyboardType
      <4>2. NoMoreRows => p[1] < cursor[1]
          BY <1>1, <1>3, <4>1, KeyboardType DEF NoMoreRows
      <4>3. p[1] \in DOMAIN elements
          BY <1>1, <1>3, <3>1, <4>1, <4>2
      <4> QED BY <1>3, <4>3 DEF Complete
    <3> QED BY <1>1, <2>1, <3>1 DEF NothingLeftOut, Offered, Places, Carried, KindAt
  <2> QED BY <1>2, <2>1, <2>2, <2>3 DEF MessageInv, MenuFlattened
<1> QED BY <1>4, <1>5

-----------------------------------------------------------------------------
(* The menu.                                                               *)

LEMMA MenuType ==
    ASSUME request \in Requests, request.form = "menu" PROVE IsMenu(request.menu)
BY MenusAreTrees DEF Requests

LEMMA StepFlattenNested ==
    ASSUME MessageInv, FlattenNested PROVE MessageInv'
<1> DEFINE m == request.menu
<1>1. /\ request \in Requests /\ request' = request /\ request.form = "menu" /\ MenuLoop
      /\ sent' = Unsent /\ out' = out /\ cursor' = Append(cursor, 1)
      /\ cursor \in DOMAIN m /\ Append(cursor, 1) \in DOMAIN m
    BY DEF MessageInv, FlattenNested, ItemAt, HasItems, Building
<1>2. IsMenu(m)
    BY <1>1, MenuType
<1>3. cursor' \in Seq(Pos) /\ cursor' # <<>>
    BY <1>1, <1>2 DEF IsMenu, Pos
<1>4. ASSUME NEW p \in DOMAIN m, Append(p, 1) \notin DOMAIN m
      PROVE  Before(p, cursor') <=> Before(p, cursor)
    BY <1>1, <1>2, <1>4, FirstItem
<1>5. InOrder(out)' /\ Places(out)' = Places(out)
    BY <1>1 DEF MenuLoop, InOrder, Places
<1>6. MenuLoop'
    BY <1>1, <1>3, <1>4, <1>5 DEF MenuLoop
<1> QED BY <1>1, <1>6, StillBuilding DEF MessageInv, KeyboardLoops

LEMMA StepAppendAction ==
    ASSUME MessageInv, AppendAction PROVE MessageInv'
<1> DEFINE m == request.menu
           e == [type |-> ActionType(m[cursor]), place |-> cursor]
<1>1. /\ request \in Requests /\ request' = request /\ request.form = "menu" /\ MenuLoop
      /\ sent' = Unsent /\ out' = Append(out, e) /\ cursor' = After(cursor)
      /\ cursor \in DOMAIN m /\ Append(cursor, 1) \notin DOMAIN m
    BY DEF MessageInv, AppendAction, ItemAt, HasItems, Building, Put
<1>2. IsMenu(m)
    BY <1>1, MenuType
<1>3. /\ cursor \in Seq(Pos) /\ cursor # <<>> /\ out \in Seq(Entries(DOMAIN m)) /\ InOrder(out)
      /\ Places(out) = {p \in DOMAIN m : Append(p, 1) \notin DOMAIN m /\ Before(p, cursor)}
      /\ \A i \in DOMAIN out : out[i].type = "web_url" <=> m[out[i].place] = "url"
      /\ Len(out) \in Nat /\ DOMAIN out = 1..Len(out)
    BY <1>1, LenProperties DEF MenuLoop
<1>4. cursor' \in Seq(Pos) /\ cursor' # <<>>
  <2>1. cursor' \in Seq(Pos) /\ Len(cursor') = Len(cursor) /\ Len(cursor) \in Nat \ {0}
      BY <1>1, <1>3, ItemType
  <2> QED BY <2>1, EmptySeq
<1>5. ASSUME NEW p \in DOMAIN m
      PROVE  Before(p, cursor') <=> Before(p, cursor) \/ p = cursor
    BY <1>1, <1>2, NextItem
<1>6. e \in Entries(DOMAIN m) /\ e.place = cursor /\ (e.type = "web_url" <=> m[cursor] = "url")
    BY <1>1 DEF Entries, Types, ActionType
<1>7. \A p \in Places(out) : Before(p, e.place)
    BY <1>3, <1>6
<1> HIDE DEF e
<1>8. /\ out' \in Seq(Entries(DOMAIN m)) /\ InOrder(out') /\ Places(out') = Places(out) \cup {cursor}
    BY <1>1, <1>3, <1>6, <1>7, PutEntry
<1>9. Places(out') = {p \in DOMAIN m : Append(p, 1) \notin DOMAIN m /\ Before(p, cursor')}
    BY <1>1, <1>3, <1>5, <1>8
<1>10. ASSUME NEW i \in DOMAIN out'
       PROVE  out'[i].type = "web_url" <=> m[out'[i].place] = "url"
  <2>1. /\ DOMAIN out' = 1..(Len(out) + 1) /\ out'[Len(out) + 1] = e
        /\ \A j \in 1..Len(out) : out'[j] = out[j]
      BY <1>1, <1>3, <1>6
  <2>2. CASE i = Len(out) + 1
      BY <1>6, <2>1, <2>2
  <2>3. CASE i # Len(out) + 1
    <3>1. i \in DOMAIN out /\ out'[i] = out[i]
        BY <1>3, <2>1, <2>3
    <3> QED BY <1>3, <3>1
  <2> QED BY <2>2, <2>3
<1>11. InOrder(out)' /\ Places(out)' = Places(out')
    BY <1>8 DEF InOrder, Places
<1>12. MenuLoop'
    BY <1>1, <1>4, <1>8, <1>9, <1>10, <1>11 DEF MenuLoop
<1> QED BY <1>1, <1>12, StillBuilding DEF MessageInv, KeyboardLoops

LEMMA StepReturnActions ==
    ASSUME MessageInv, ReturnActions PROVE MessageInv'
<1> DEFINE m == request.menu
           u == SubSeq(cursor, 1, Len(cursor) - 1)
<1>1. /\ request \in Requests /\ request' = request /\ request.form = "menu" /\ MenuLoop
      /\ sent' = Unsent /\ out' = out /\ cursor' = After(u)
      /\ cursor \notin DOMAIN m /\ Len(cursor) > 1 /\ cursor \in Seq(Pos)
    BY DEF MessageInv, MenuLoop, ReturnActions, Building
<1>2. IsMenu(m)
    BY <1>1, MenuType
<1>3. ASSUME NEW p \in DOMAIN m
      PROVE  /\ u \in Seq(Pos) /\ u # <<>>
             /\ Before(p, cursor') <=> Before(p, cursor)
    BY <1>1, <1>2, EndOfItems
<1>4. cursor' \in Seq(Pos) /\ cursor' # <<>>
  <2>1. u \in Seq(Pos) /\ Len(u) = Len(cursor) - 1 /\ Len(cursor) - 1 \in Nat \ {0}
    <3>1. Len(cursor) - 1 \in Nat \ {0} /\ Len(cursor) - 1 <= Len(cursor)
      <4>1. Len(cursor) \in Nat
          BY <1>1, LenProperties
      <4>2. Len(cursor) > 1 /\ Len(cursor) # 0
          BY <1>1
      <4> QED BY <4>1, <4>2, Below
    <3> QED BY <1>1, <3>1, Prefixes
  <2>2. u # <<>>
      BY <2>1, EmptySeq
  <2>3. cursor' \in Seq(Pos) /\ Len(cursor') = Len(u)
      BY <1>1, <2>1, <2>2, ItemType
  <2> QED BY <2>1, <2>3, EmptySeq
<1>5. InOrder(out)' /\ Places(out)' = Places(out)
    BY <1>1 DEF MenuLoop, InOrder, Places
<1>6. MenuLoop'
    BY <1>1, <1>3, <1>4, <1>5 DEF MenuLoop
<1> QED BY <1>1, <1>6, StillBuilding DEF MessageInv, KeyboardLoops

LEMMA StepSetPersistentMenu ==
    ASSUME MessageInv, SetPersistentMenu PROVE MessageInv'
<1> DEFINE m == request.menu
<1>1. /\ request \in Requests /\ request.form = "menu" /\ MenuLoop
      /\ sent' = [form |-> "menu", items |-> out]
      /\ UNCHANGED <<request, cursor, offered, out, elements>>
      /\ cursor \notin DOMAIN m /\ Len(cursor) = 1 /\ cursor \in Seq(Pos)
    BY DEF MessageInv, MenuLoop, SetPersistentMenu, Building, Send
<1>2. KeyboardLoops' /\ MenuLoop' /\ request' \in Requests
    BY <1>1, LoopsKept
<1>3. ASSUME NEW p \in DOMAIN m PROVE Before(p, cursor)
    BY <1>1, MenuType, EndOfMenu
<1>4. /\ Places(out) = {p \in DOMAIN m : Append(p, 1) \notin DOMAIN m} /\ InOrder(out)
      /\ \A i \in DOMAIN out : out[i].type = "web_url" <=> m[out[i].place] = "url"
    BY <1>1, <1>3 DEF MenuLoop
<1>5. MenuFlattened'
  <2>1. sent'.items = out /\ request' = request
      BY <1>1
  <2>2. Places(sent.items)' = Places(out) /\ InOrder(sent.items)'
      BY <1>4, <2>1 DEF Places, InOrder
  <2> QED BY <1>4, <2>1, <2>2 DEF MenuFlattened
<1> QED BY <1>1, <1>2, <1>5 DEF MessageInv, KeyboardFits, NothingLeftOut

-----------------------------------------------------------------------------
LEMMA InitMessage == InteractiveInit => MessageInv
<1> SUFFICES ASSUME InteractiveInit PROVE MessageInv
    OBVIOUS
<1>1. /\ request \in Requests /\ sent = Unsent /\ offered = 0 /\ out = <<>> /\ elements = <<>>
      /\ cursor = IF request.form = "menu" THEN <<1>> ELSE <<1, 1>>
    BY DEF InteractiveInit
<1>2. /\ InOrder(out) /\ Places(out) = {} /\ Len(out) = 0 /\ DOMAIN out = {}
      /\ \A P : out \in Seq(Entries(P))
    BY <1>1, EmptyRow
<1>3. ASSUME request.form # "menu" PROVE RowLoop /\ QuickRepliesLoop /\ SectionsLoop
  <2>1. cursor = <<1, 1>> /\ cursor \in Pos \X Pos /\ cursor \in Cells
      BY <1>1, <1>3 DEF Pos, Cells
  <2>2. Behind(cursor) = {}
    <3> SUFFICES ASSUME NEW p \in Offered, Before(p, cursor) PROVE FALSE
        BY DEF Behind
    <3>1. p \in Cells /\ p[1] \in Pos /\ p[2] \in Pos
        BY <1>1, <1>3, KeyboardType DEF Pos, Cells
    <3> QED BY <2>1, <3>1, BeforeInKeyboard DEF Pos, Cells
  <2>3. RowLoop
      BY <1>2, <2>1, <2>2, LimitType DEF RowLoop, OfRow
  <2>4. QuickRepliesLoop
    <3>1. Cardinality(Behind(cursor)) = 0 /\ 0 <= MaxQuickReplies
        BY <2>2, FS_EmptySet, LimitsArePositive
    <3> QED BY <1>1, <1>2, <3>1 DEF QuickRepliesLoop
  <2>5. SectionsLoop
      BY <1>1, <2>1, EmptySeq, LimitsArePositive DEF SectionsLoop
  <2> QED BY <2>3, <2>4, <2>5
<1>4. ASSUME request.form = "menu" PROVE MenuLoop
  <2>1. IsMenu(request.menu) /\ cursor = <<1>> /\ 1 \in Pos
      BY <1>1, <1>4, MenuType DEF Pos
  <2>2. cursor \in Seq(Pos) /\ cursor # <<>> /\ DOMAIN cursor = 1..1 /\ cursor[1] = 1
      BY <2>1
  <2>3. ASSUME NEW p \in DOMAIN request.menu PROVE ~Before(p, cursor)
    <3>1. p \in Seq(Pos) /\ p # <<>>
        BY <2>1 DEF IsMenu, Pos
    <3>2. Len(p) \in Nat \ {0} /\ p[1] \in Pos
        BY <3>1, ItemType
    <3> QED BY <2>2, <3>2 DEF Before, Pos
  <2> QED BY <1>2, <2>2, <2>3 DEF MenuLoop
<1>5. KeyboardFits /\ NothingLeftOut /\ MenuFlattened
    BY <1>1 DEF Unsent, KeyboardFits, NothingLeftOut, MenuFlattened
<1> QED BY <1>1, <1>3, <1>4, <1>5 DEF MessageInv, KeyboardLoops, MenuLoop

LEMMA NextMessage == MessageInv /\ [InteractiveNext]_interactiveVars => MessageInv'
<1> SUFFICES ASSUME MessageInv, [InteractiveNext]_interactiveVars PROVE MessageInv'
    OBVIOUS
<1>1. CASE BuildQuickReplies
    BY <1>1, StepBuildQuickReplies
<1>2. CASE BuildButtonTemplate
    BY <1>2, StepBuildButtonTemplate
<1>3. CASE NextRow
    BY <1>3, StepNextRow
<1>4. CASE BuildMarkupMessage
    BY <1>4, StepBuildMarkupMessage
<1>5. CASE SectionButton
    BY <1>5, StepSectionButton
<1>6. CASE NextSection
    BY <1>6, StepNextSection
<1>7. CASE BuildListReplyMessage
    BY <1>7, StepBuildListReplyMessage
<1>8. CASE FlattenNested
    BY <1>8, StepFlattenNested
<1>9. CASE AppendAction
    BY <1>9, StepAppendAction
<1>10. CASE ReturnActions
    BY <1>10, StepReturnActions
<1>11. CASE SetPersistentMenu
    BY <1>11, StepSetPersistentMenu
<1>12. CASE UNCHANGED interactiveVars
  <2>1. UNCHANGED <<request, cursor, offered, out, elements, sent>>
      BY <1>12 DEF interactiveVars
  <2>2. request' \in Requests /\ KeyboardLoops' /\ MenuLoop'
      BY <2>1, LoopsKept
  <2>3. KeyboardFits'
    <3>1. ASSUME NEW lim, NEW kinds, Fits(sent.items, lim, kinds) PROVE Fits(sent.items, lim, kinds)'
        BY <2>1, <3>1 DEF Fits, InOrder, KindAt, Offered
    <3>2. ASSUME NEW lim, NEW kinds, NEW s, Fits(sent.items[s], lim, kinds) PROVE Fits(sent.items[s], lim, kinds)'
        BY <2>1, <3>2 DEF Fits, InOrder, KindAt, Offered
    <3> QED BY <2>1, <3>1, <3>2 DEF MessageInv, KeyboardFits
  <2>4. NothingLeftOut'
      BY <2>1 DEF MessageInv, NothingLeftOut, Places, Rank, Carried, KindAt, Offered
  <2>5. MenuFlattened'
      BY <2>1 DEF MessageInv, MenuFlattened, Places, InOrder
  <2> QED BY <2>2, <2>3, <2>4, <2>5 DEF MessageInv
<1> QED BY <1>1, <1>2, <1>3, <1>4, <1>5, <1>6, <1>7, <1>8, <1>9, <1>10, <1>11, <1>12 DEF InteractiveNext

LEMMA InvariantMessage == InteractiveSpec => []MessageInv
BY InitMessage, NextMessage, PTL DEF InteractiveSpec

\* buildMarkupMessage and buildListReplyMessage: the messages of all keyboards
\* are within the limits of the Graph API, in the order of the keyboard.
THEOREM KeyboardsFit == InteractiveSpec => []KeyboardFits
<1>1. MessageInv => KeyboardFits
    BY DEF MessageInv
<1> QED BY <1>1, InvariantMessage, PTL

\* The same loops: a button that can be sent is left out of a template or an
\* element only if that is full, and of quick replies only if as many buttons as
\* they may hold, passed over or not, stand before it.
THEOREM OnlyLimitsLeaveOut == InteractiveSpec => []NothingLeftOut
<1>1. MessageInv => NothingLeftOut
    BY DEF MessageInv
<1> QED BY <1>1, InvariantMessage, PTL

\* menuItemsToActions: a menu of any depth becomes its leaves, in their order.
THEOREM MenusAreFlattened == InteractiveSpec => []MenuFlattened
<1>1. MessageInv => MenuFlattened
    BY DEF MessageInv
<1> QED BY <1>1, InvariantMessage, PTL

-----------------------------------------------------------------------------
(* The passes of the loops.                                                *)

LEMMA ForwardInKeyboard ==
    ASSUME NEW c \in Pos \X Pos
    PROVE  Before(c, <<c[1], c[2] + 1>>) /\ Before(c, <<c[1] + 1, 1>>)
<1>1. /\ c[1] \in Nat /\ c[2] \in Nat /\ c \in Nat \X Nat
      /\ <<c[1], c[2] + 1>> \in Nat \X Nat /\ <<c[1] + 1, 1>> \in Nat \X Nat
    BY DEF Pos
<1>2. c[2] < c[2] + 1 /\ c[1] < c[1] + 1
    BY <1>1
<1> QED BY <1>1, <1>2, BeforeInKeyboard

\* Into an item, to the next one, and out of the items in an item.
LEMMA ForwardInMenu ==
    ASSUME NEW q \in Seq(Pos), q # <<>>
    PROVE  /\ Before(q, Append(q, 1))
           /\ Before(q, After(q))
           /\ Len(q) > 1 => Before(q, After(SubSeq(q, 1, Len(q) - 1)))
<1> DEFINE n == Len(q)
<1>1. /\ n \in Nat \ {0} /\ n \in 1..n /\ n - 1 \in Nat /\ n - 1 <= n
      /\ \A k \in 1..n : q[k] \in Nat
      /\ \A k \in 1..(n - 1) : k \in 1..n
    BY ItemType, Below DEF Pos
<1>2. Before(q, Append(q, 1))
  <2>1. /\ n + 1 \in DOMAIN Append(q, 1) /\ (n + 1) - 1 = n /\ ~(n + 1 <= n)
        /\ \A k \in 1..n : q[k] = Append(q, 1)[k]
      BY <1>1, ItemType
  <2> QED BY <1>1, <2>1 DEF Before
<1>3. Before(q, After(q))
  <2>1. /\ DOMAIN After(q) = 1..n
        /\ \A k \in 1..(n - 1) : q[k] = After(q)[k]
        /\ After(q)[n] = q[n] + 1
    <3>1. After(q) \in Seq(Pos) /\ Len(After(q)) = n
        BY ItemType
    <3>2. DOMAIN After(q) = 1..n
        BY <3>1, LenProperties
    <3> QED BY <3>2, ItemType
  <2>2. q[n] < After(q)[n]
      BY <1>1, <2>1
  <2> QED BY <1>1, <2>1, <2>2 DEF Before
<1>4. ASSUME n > 1 PROVE Before(q, After(SubSeq(q, 1, n - 1)))
  <2> DEFINE m == n - 1
             u == SubSeq(q, 1, m)
  <2>1. m \in Nat \ {0} /\ m <= n /\ m - 1 \in Nat /\ m - 1 <= n
        /\ m \in 1..m /\ m \in 1..n
      BY <1>1, <1>4
  <2>2. u \in Seq(Pos) /\ Len(u) = m /\ \A k \in 1..m : u[k] = q[k]
      BY <2>1, Prefixes
  <2>3. u # <<>>
      BY <2>1, <2>2, EmptySeq
  <2> HIDE DEF u, m
  <2>4. /\ After(u) \in Seq(Pos) /\ Len(After(u)) = m
        /\ After(u)[m] = u[m] + 1
        /\ \A k \in 1..(m - 1) : After(u)[k] = u[k]
      BY <2>2, <2>3, ItemType
  <2>5. DOMAIN After(u) = 1..m
      BY <2>4, LenProperties
  <2>6. \A k \in 1..(m - 1) : q[k] = After(u)[k]
      BY <2>1, <2>2, <2>4, Below
  <2>7. q[m] < After(u)[m]
      BY <1>1, <2>1, <2>2, <2>4
  <2>8. Before(q, After(u))
      BY <1>1, <2>1, <2>5, <2>6, <2>7 DEF Before
  <2> QED BY <2>8 DEF u, m
<1> QED BY <1>2, <1>3, <1>4

LEMMA EveryPass ==
    ASSUME MessageInv, InteractiveNext, sent = Unsent, sent' = Unsent
    PROVE  Before(cursor, cursor')
<1>1. ASSUME request.form # "menu", cursor' \in {<<cursor[1], cursor[2] + 1>>, <<cursor[1] + 1, 1>>}
      PROVE  Before(cursor, cursor')
  <2>1. cursor \in Pos \X Pos
      BY <1>1 DEF MessageInv, KeyboardLoops, RowLoop
  <2> QED BY <1>1, <2>1, ForwardInKeyboard
<1>2. CASE BuildQuickReplies \/ BuildButtonTemplate \/ NextRow \/ SectionButton \/ NextSection
    BY <1>1, <1>2 DEF BuildQuickReplies, BuildButtonTemplate, NextRow, SectionButton, NextSection,
                      TemplateButton, Building
<1>3. ASSUME request.form = "menu" PROVE cursor \in Seq(Pos) /\ cursor # <<>>
    BY <1>3 DEF MessageInv, MenuLoop
<1>4. CASE FlattenNested \/ AppendAction
    BY <1>3, <1>4, ForwardInMenu DEF FlattenNested, AppendAction, ItemAt, Building
<1>5. CASE ReturnActions
  <2>1. cursor \in Seq(Pos) /\ cursor # <<>> /\ Len(cursor) > 1
      BY <1>3, <1>5 DEF ReturnActions, Building
  <2> QED BY <1>5, <2>1, ForwardInMenu DEF ReturnActions
<1>6. CASE BuildMarkupMessage \/ BuildListReplyMessage \/ SetPersistentMenu
  <2>1. sent'.form # "unsent"
      BY <1>6 DEF BuildMarkupMessage, BuildListReplyMessage, SetPersistentMenu, Send, Answer, Refused
  <2> QED BY <2>1 DEF Unsent
<1> QED BY <1>2, <1>4, <1>5, <1>6 DEF InteractiveNext

\* buildMarkupMessage, buildListReplyMessage, menuItemsToActions: no pass of a
\* loop stays where it is or goes back, so that every finite keyboard and every
\* finite menu is done after finitely many.
THEOREM LoopsEnd == InteractiveSpec => PassesGoForward
<1>1. MessageInv /\ [InteractiveNext]_interactiveVars =>
          [sent = Unsent => sent' # Unsent \/ Before(cursor, cursor')]_interactiveVars
    BY EveryPass
<1> QED BY <1>1, InvariantMessage, PTL DEF InteractiveSpec, PassesGoForward

-----------------------------------------------------------------------------
(* The blocks of a file.                                                   *)

\* What the storage has of the file of a running upload.
StreamOf(u) ==
    /\ phase[u] \in Running => body[u] \in Bodies
    /\ phase[u] = "open" => taken[u] = 0 /\ received[u] = <<>>
    /\ phase[u] = "read" =>
          taken[u] <= Blocks[body[u]] /\ received[u] = FirstBlocks(body[u], taken[u])
    /\ phase[u] = "send" =>
          /\ taken[u] \in 1 .. Blocks[body[u]]
          /\ received[u] = FirstBlocks(body[u], taken[u] - 1)
          /\ content[buffer[u]] = Block(body[u], taken[u])
          /\ ended[u] = "EOF" => taken[u] = Blocks[body[u]]
    /\ phase[u] = "close" => received[u] = Whole(body[u])
    /\ phase[u] \in Running => stored[u] = None

Streams == \A u \in Uploads : StreamOf(u)

MediaInv == MediaTypeOK /\ BuffersAccounted /\ Streams /\ WholeOrNothing /\ AnsweredIsStored

-----------------------------------------------------------------------------
\* A sequence and one element more.
LEMMA AppendOne ==
    ASSUME NEW S, NEW s \in Seq(S), NEW e \in S, NEW n \in Nat, Len(s) = n
    PROVE  Append(s, e) = [i \in 1 .. n + 1 |-> IF i = n + 1 THEN e ELSE s[i]]
<1> DEFINE t == Append(s, e)
<1>1. t \in Seq(S) /\ Len(t) = n + 1
    BY AppendProperties
<1>2. (\A i \in 1 .. n : t[i] = s[i]) /\ t[n + 1] = e
    BY AppendProperties
<1>3. \A i \in 1 .. n + 1 : i = n + 1 \/ i \in 1 .. n
    OBVIOUS
<1> HIDE DEF t
<1>4. t = [i \in 1 .. n + 1 |-> t[i]]
    BY <1>1
<1>5. \A i \in 1 .. n + 1 : t[i] = IF i = n + 1 THEN e ELSE s[i]
    BY <1>2, <1>3
<1> QED BY <1>4, <1>5 DEF t

\* The blocks of a file, one after the other.
LEMMA NextBlock ==
    ASSUME NEW b \in Bodies, NEW n \in Nat
    PROVE  /\ FirstBlocks(b, n) \in Seq(Content)
           /\ Append(FirstBlocks(b, n), Block(b, n + 1)) = FirstBlocks(b, n + 1)
<1> DEFINE s == FirstBlocks(b, n)
           e == Block(b, n + 1)
<1>1. s \in Seq(Bodies \X Nat) /\ Len(s) = n
    BY DEF FirstBlocks, Block
<1>2. \A i \in 1 .. n : s[i] = Block(b, i)
    BY DEF FirstBlocks
<1>3. s \in Seq(Content)
    BY <1>1 DEF Content
<1>4. e \in Bodies \X Nat
    BY DEF Block
<1>5. Append(s, e) = [i \in 1 .. n + 1 |-> IF i = n + 1 THEN e ELSE s[i]]
    BY <1>1, <1>4, AppendOne
<1>6. Append(s, e) = FirstBlocks(b, n + 1)
    BY <1>2, <1>5 DEF FirstBlocks
<1> QED BY <1>3, <1>6

LEMMA NoBlocks == ASSUME NEW b \in Bodies PROVE FirstBlocks(b, 0) = <<>>
BY DEF FirstBlocks

\* None is no buffer, no body and no file.
LEMMA NoneIsNone ==
    /\ None \notin Buffers /\ None \notin Bodies
    /\ \A b \in Bodies, n \in Nat : FirstBlocks(b, n) # None
<1>1. \A b \in Bodies, n \in Nat : FirstBlocks(b, n) \in Seq(Bodies \X Nat)
    BY DEF FirstBlocks, Block
<1> QED BY <1>1, NoneIsNothing

\* Who runs has a buffer of the pool, alone.
LEMMA OwnBuffer ==
    ASSUME MediaTypeOK, BuffersAccounted, NEW u \in Uploads, phase[u] \in Running
    PROVE  /\ buffer[u] \in Buffers \ pool
           /\ \A v \in Uploads \ {u} : buffer[v] # buffer[u]
BY NoneIsNone DEF MediaTypeOK, BuffersAccounted

-----------------------------------------------------------------------------
LEMMA InitMedia == MediaInit => MediaInv
<1> SUFFICES ASSUME MediaInit PROVE MediaInv
    OBVIOUS
<1>1. MediaTypeOK
    BY DEF MediaInit, MediaTypeOK, Content, Running
<1>2. BuffersAccounted
    BY NoneIsNone DEF MediaInit, BuffersAccounted, Running
<1>3. Streams /\ WholeOrNothing /\ AnsweredIsStored
    BY DEF MediaInit, Streams, StreamOf, WholeOrNothing, AnsweredIsStored, Running
<1> QED BY <1>1, <1>2, <1>3 DEF MediaInv

\* The types.
LEMMA StepTypes == MediaInv /\ [MediaNext]_mediaVars => MediaTypeOK'
<1> SUFFICES ASSUME MediaInv, [MediaNext]_mediaVars PROVE MediaTypeOK'
    OBVIOUS
<1> USE DEF MediaInv, MediaTypeOK, Running, Outcomes, Goto
<1>1. ASSUME NEW u \in Uploads, NEW b \in Bodies, GetBuffer(u, b) PROVE MediaTypeOK'
    BY <1>1 DEF GetBuffer
<1>2. ASSUME NEW u \in Uploads, OpenStream(u) PROVE MediaTypeOK'
    BY <1>2 DEF OpenStream
<1>3. ASSUME NEW u \in Uploads, ReadBlock(u) PROVE MediaTypeOK'
  <2>1. body[u] \in Bodies
      BY <1>3 DEF ReadBlock, Streams, StreamOf
  <2>2. Block(body[u], taken[u] + 1) \in Content
      BY <2>1 DEF Block, Content
  <2>3. content' \in [Buffers -> Content]
      BY <1>3, <2>2 DEF ReadBlock
  <2>4. taken' \in [Uploads -> Nat] /\ ended' \in [Uploads -> {"nil", "EOF", "error"}]
      BY <1>3 DEF ReadBlock
  <2> QED BY <1>3, <2>3, <2>4 DEF ReadBlock
<1>4. ASSUME NEW u \in Uploads, ReadEOF(u) PROVE MediaTypeOK'
    BY <1>4 DEF ReadEOF
<1>5. ASSUME NEW u \in Uploads, SendChunk(u) PROVE MediaTypeOK'
  <2>1. buffer[u] \in Buffers
      BY <1>5, OwnBuffer DEF SendChunk
  <2>2. Append(received[u], content[buffer[u]]) \in Seq(Content)
      BY <2>1
  <2>3. received' \in [Uploads -> Seq(Content)]
      BY <1>5, <2>2 DEF SendChunk
  <2>4. /\ phase' \in [Uploads -> {"idle"} \cup Running \cup Outcomes]
        /\ pool' \subseteq Buffers /\ buffer' \in [Uploads -> Buffers \cup {None}]
      BY <1>5, <2>1 DEF SendChunk, PutBuffer
  <2> QED BY <1>5, <2>3, <2>4 DEF SendChunk
<1>6. ASSUME NEW u \in Uploads, CloseAndRecv(u) PROVE MediaTypeOK'
  <2>1. buffer[u] \in Buffers /\ received[u] \in Seq(Content)
      BY <1>6, OwnBuffer DEF CloseAndRecv
  <2>2. stored' \in [Uploads -> Seq(Content) \cup {None}]
      BY <1>6, <2>1 DEF CloseAndRecv
  <2>3. /\ phase' \in [Uploads -> {"idle"} \cup Running \cup Outcomes]
        /\ pool' \subseteq Buffers /\ buffer' \in [Uploads -> Buffers \cup {None}]
      BY <1>6, <2>1 DEF CloseAndRecv, PutBuffer
  <2> QED BY <1>6, <2>2, <2>3 DEF CloseAndRecv
<1>7. ASSUME NEW u \in Uploads, UploadFails(u) PROVE MediaTypeOK'
    BY <1>7, OwnBuffer DEF UploadFails, PutBuffer
<1>8. CASE UNCHANGED mediaVars
    BY <1>8 DEF mediaVars
<1> QED BY <1>1, <1>2, <1>3, <1>4, <1>5, <1>6, <1>7, <1>8 DEF MediaNext, Upload

\* A way out of UploadFile brings the buffer back.
LEMMA PutBack ==
    ASSUME MediaInv, NEW u \in Uploads, phase[u] \in Running, PutBuffer(u),
           NEW place, Goto(u, place), place \notin Running
    PROVE  BuffersAccounted'
<1>1. buffer[u] \in Buffers \ pool /\ \A v \in Uploads \ {u} : buffer[v] # buffer[u]
    BY OwnBuffer DEF MediaInv
<1> QED BY <1>1, NoneIsNone DEF MediaInv, MediaTypeOK, BuffersAccounted, PutBuffer, Goto

\* The buffers.
LEMMA StepBuffers == MediaInv /\ [MediaNext]_mediaVars => BuffersAccounted'
<1> SUFFICES ASSUME MediaInv, [MediaNext]_mediaVars PROVE BuffersAccounted'
    OBVIOUS
<1>1. ASSUME NEW u \in Uploads, NEW b \in Bodies, GetBuffer(u, b) PROVE BuffersAccounted'
  <2>1. PICK p \in pool : pool' = pool \ {p} /\ buffer' = [buffer EXCEPT ![u] = p]
      BY <1>1 DEF GetBuffer
  <2>2. p # None /\ p \in Buffers /\ \A v \in Uploads : buffer[v] # p
      BY NoneIsNone DEF MediaInv, MediaTypeOK, BuffersAccounted
  <2>3. buffer'[u] = p /\ \A v \in Uploads \ {u} : buffer'[v] = buffer[v]
      BY <2>1 DEF MediaInv, MediaTypeOK
  <2>4. phase[u] \notin Running /\ phase'[u] \in Running
        /\ \A v \in Uploads \ {u} : phase'[v] = phase[v]
      BY <1>1 DEF GetBuffer, Goto, Running, MediaInv, MediaTypeOK
  <2>5. buffer[u] = None
      BY <2>4 DEF MediaInv, BuffersAccounted
  <2>6. \A v \in Uploads : phase'[v] \in Running <=> buffer'[v] # None
      BY <2>2, <2>3, <2>4 DEF MediaInv, BuffersAccounted
  <2>7. \A v \in Uploads : buffer'[v] \notin pool'
      BY <2>1, <2>3 DEF MediaInv, BuffersAccounted
  <2>8. \A v, w \in Uploads : buffer'[v] = buffer'[w] /\ buffer'[v] # None => v = w
      BY <2>2, <2>3 DEF MediaInv, BuffersAccounted
  <2>9. \A q \in Buffers \ pool' : \E v \in Uploads : buffer'[v] = q
    <3>1. ASSUME NEW q \in Buffers \ pool', q # p PROVE \E v \in Uploads : buffer'[v] = q
      <4>1. PICK v \in Uploads : buffer[v] = q
          BY <2>1, <3>1 DEF MediaInv, BuffersAccounted
      <4>2. v # u
          BY <2>5, <4>1, NoneIsNone
      <4> QED BY <2>3, <4>1, <4>2
    <3> QED BY <2>3, <3>1
  <2> QED BY <2>6, <2>7, <2>8, <2>9 DEF BuffersAccounted
<1>2. ASSUME NEW u \in Uploads, UNCHANGED <<buffer, pool>>,
             phase[u] \in Running, NEW place \in Running, Goto(u, place)
      PROVE BuffersAccounted'
    BY <1>2 DEF Goto, MediaInv, MediaTypeOK, BuffersAccounted
<1>3. ASSUME NEW u \in Uploads, OpenStream(u) \/ ReadBlock(u) \/ ReadEOF(u)
      PROVE BuffersAccounted'
    BY <1>2, <1>3 DEF OpenStream, ReadBlock, ReadEOF, Running
<1>4. ASSUME NEW u \in Uploads, SendChunk(u) PROVE BuffersAccounted'
    BY <1>2, <1>4, PutBack DEF SendChunk, Running
<1>5. ASSUME NEW u \in Uploads, CloseAndRecv(u) \/ UploadFails(u) PROVE BuffersAccounted'
    BY <1>5, PutBack DEF CloseAndRecv, UploadFails, Running
<1>6. CASE UNCHANGED mediaVars
    BY <1>6 DEF mediaVars, MediaInv, BuffersAccounted
<1> QED BY <1>1, <1>3, <1>4, <1>5, <1>6 DEF MediaNext, Upload

\* A step of one upload leaves the streams of the others: it fills no buffer
\* but its own.
LEMMA OthersStream ==
    ASSUME MediaInv, NEW u \in Uploads, NEW v \in Uploads \ {u}, Upload(u)
    PROVE  StreamOf(v)'
<1>1. /\ phase'[v] = phase[v] /\ body'[v] = body[v] /\ taken'[v] = taken[v]
      /\ ended'[v] = ended[v] /\ received'[v] = received[v] /\ buffer'[v] = buffer[v]
      /\ stored'[v] = stored[v]
    BY DEF Upload, GetBuffer, OpenStream, ReadBlock, ReadEOF, SendChunk, CloseAndRecv,
           UploadFails, PutBuffer, Goto, MediaInv, MediaTypeOK
<1>2. ASSUME phase[v] = "send" PROVE content'[buffer[v]] = content[buffer[v]]
  <2>1. buffer[v] \in Buffers
      BY <1>2, OwnBuffer DEF MediaInv, Running
  <2>2. CASE ReadBlock(u)
    <3>1. buffer[u] # buffer[v]
        BY <1>2, <2>2, OwnBuffer DEF MediaInv, Running, ReadBlock
    <3> QED BY <2>1, <2>2, <3>1 DEF ReadBlock, MediaInv, MediaTypeOK
  <2>3. CASE UNCHANGED content
      BY <2>3
  <2> QED BY <2>2, <2>3 DEF Upload, GetBuffer, OpenStream, ReadEOF, SendChunk, CloseAndRecv,
                            UploadFails
<1>3. StreamOf(v)
    BY DEF MediaInv, Streams
<1> QED BY <1>1, <1>2, <1>3 DEF StreamOf

\* Its own stream grows by the block it has read.
LEMMA OwnStream ==
    ASSUME MediaInv, NEW u \in Uploads, Upload(u)
    PROVE  StreamOf(u)'
<1> USE DEF MediaInv, MediaTypeOK, Running, Outcomes, Goto
<1>0. StreamOf(u)
    BY DEF Streams
<1>1. ASSUME NEW b \in Bodies, GetBuffer(u, b) PROVE StreamOf(u)'
    BY <1>1 DEF GetBuffer, StreamOf
<1>2. ASSUME OpenStream(u) PROVE StreamOf(u)'
    BY <1>0, <1>2, NoBlocks, BlocksAreNat DEF OpenStream, StreamOf
<1>3. ASSUME ReadBlock(u) PROVE StreamOf(u)'
  <2>1. buffer[u] \in Buffers
      BY <1>3, OwnBuffer DEF ReadBlock
  <2>2. /\ taken'[u] = taken[u] + 1 /\ taken[u] < Blocks[body[u]]
        /\ content'[buffer[u]] = Block(body[u], taken[u] + 1)
        /\ ended'[u] = "EOF" => taken[u] + 1 = Blocks[body[u]]
      BY <1>3, <2>1 DEF ReadBlock
  <2>3. body[u] \in Bodies /\ Blocks[body[u]] \in Nat /\ taken[u] \in Nat
      BY <1>0, <1>3, BlocksAreNat DEF ReadBlock, StreamOf
  <2>4. received[u] = FirstBlocks(body[u], taken'[u] - 1)
      BY <1>0, <1>3, <2>2, <2>3 DEF ReadBlock, StreamOf
  <2>5. UNCHANGED <<body, buffer, received, stored>> /\ phase'[u] = "send" /\ stored[u] = None
      BY <1>0, <1>3 DEF ReadBlock, StreamOf
  <2> QED BY <2>2, <2>3, <2>4, <2>5 DEF StreamOf
<1>4. ASSUME ReadEOF(u) PROVE StreamOf(u)'
    BY <1>0, <1>4 DEF ReadEOF, StreamOf, Whole
<1>5. ASSUME SendChunk(u) PROVE StreamOf(u)'
  <2>1. body[u] \in Bodies /\ Blocks[body[u]] \in Nat /\ taken[u] \in 1 .. Blocks[body[u]]
      BY <1>0, <1>5, BlocksAreNat DEF SendChunk, StreamOf
  <2>2. received'[u] = FirstBlocks(body[u], taken[u])
    <3>1. received'[u] = Append(FirstBlocks(body[u], taken[u] - 1), Block(body[u], taken[u]))
        BY <1>0, <1>5 DEF SendChunk, StreamOf
    <3>2. taken[u] - 1 \in Nat /\ (taken[u] - 1) + 1 = taken[u]
        BY <2>1
    <3> QED BY <2>1, <3>1, <3>2, NextBlock
  <2>3. phase'[u] \in {"read", "close", "failed"}
        /\ (phase'[u] = "close" => taken[u] = Blocks[body[u]])
      BY <1>0, <1>5 DEF SendChunk, StreamOf
  <2>4. stored'[u] = None
      BY <1>0, <1>5 DEF SendChunk, StreamOf
  <2>5. UNCHANGED <<body, taken>>
      BY <1>5 DEF SendChunk
  <2> QED BY <2>1, <2>2, <2>3, <2>4, <2>5 DEF StreamOf, Whole
<1>6. ASSUME CloseAndRecv(u) \/ UploadFails(u) PROVE StreamOf(u)'
    BY <1>6 DEF CloseAndRecv, UploadFails, StreamOf
<1> QED BY <1>1, <1>2, <1>3, <1>4, <1>5, <1>6 DEF Upload

LEMMA StepStreams == MediaInv /\ [MediaNext]_mediaVars => Streams'
<1> SUFFICES ASSUME MediaInv, [MediaNext]_mediaVars PROVE Streams'
    OBVIOUS
<1>1. ASSUME NEW u \in Uploads, Upload(u) PROVE Streams'
    BY <1>1, OwnStream, OthersStream DEF Streams
<1>2. CASE UNCHANGED mediaVars
    BY <1>2 DEF mediaVars, MediaInv, Streams, StreamOf
<1> QED BY <1>1, <1>2 DEF MediaNext

\* What is kept was closed in order.
LEMMA StepKept ==
    MediaInv /\ [MediaNext]_mediaVars => WholeOrNothing' /\ AnsweredIsStored'
<1> SUFFICES ASSUME MediaInv, [MediaNext]_mediaVars
             PROVE WholeOrNothing' /\ AnsweredIsStored'
    OBVIOUS
<1> USE DEF MediaInv, MediaTypeOK, WholeOrNothing, AnsweredIsStored, Running, Goto
<1>1. ASSUME NEW u \in Uploads, NEW b \in Bodies, GetBuffer(u, b)
      PROVE WholeOrNothing' /\ AnsweredIsStored'
    BY <1>1 DEF GetBuffer
<1>2. ASSUME NEW u \in Uploads,
             OpenStream(u) \/ ReadBlock(u) \/ ReadEOF(u) \/ SendChunk(u) \/ UploadFails(u)
      PROVE WholeOrNothing' /\ AnsweredIsStored'
    BY <1>2 DEF OpenStream, ReadBlock, ReadEOF, SendChunk, UploadFails
<1>3. ASSUME NEW u \in Uploads, CloseAndRecv(u) PROVE WholeOrNothing' /\ AnsweredIsStored'
  <2>1. received[u] = Whole(body[u]) /\ Whole(body[u]) # None
    <3>1. body[u] \in Bodies /\ received[u] = Whole(body[u])
        BY <1>3 DEF CloseAndRecv, Streams, StreamOf
    <3> QED BY <3>1, NoneIsNone, BlocksAreNat DEF Whole
  <2> QED BY <1>3, <2>1 DEF CloseAndRecv
<1>4. CASE UNCHANGED mediaVars
    BY <1>4 DEF mediaVars, Whole, FirstBlocks, Block
<1> QED BY <1>1, <1>2, <1>3, <1>4 DEF MediaNext, Upload

\* The inductive invariant.
LEMMA MediaInvariant == MediaSpec => []MediaInv
<1>1. MediaInv /\ [MediaNext]_mediaVars => MediaInv'
    BY StepTypes, StepBuffers, StepStreams, StepKept DEF MediaInv
<1> QED BY InitMedia, <1>1, PTL DEF MediaSpec

-----------------------------------------------------------------------------
\* Every upload, buffer and file has the shape the code gives it.
THEOREM MediaTypeCorrect == MediaSpec => []MediaTypeOK
<1>1. MediaInv => MediaTypeOK
    BY DEF MediaInv
<1> QED BY MediaInvariant, <1>1, PTL

\* The buffers of the pool are shared without being shared: a buffer is in the
\* pool or with one upload that runs.
THEOREM BuffersAreAccounted == MediaSpec => []BuffersAccounted
<1>1. MediaInv => BuffersAccounted
    BY DEF MediaInv
<1> QED BY MediaInvariant, <1>1, PTL

\* streamData: a file is kept whole and in order, or not at all.
THEOREM FilesAreWhole == MediaSpec => []WholeOrNothing
<1>1. MediaInv => WholeOrNothing
    BY DEF MediaInv
<1> QED BY MediaInvariant, <1>1, PTL

\* UploadFile: what is answered with the id of a file is kept.
THEOREM AnsweredFilesAreStored == MediaSpec => []AnsweredIsStored
<1>1. MediaInv => AnsweredIsStored
    BY DEF MediaInv
<1> QED BY MediaInvariant, <1>1, PTL

-----------------------------------------------------------------------------
(* The upload of a file in one step.                                       *)

\* What those see who see just the storage and the answers.
Status == [u \in Uploads |-> IF phase[u] \in Running THEN "pending" ELSE phase[u]]

LEMMA StoreInit == MediaInit => Store!Init
BY DEF MediaInit, Store!Init, Running

\* A step of an upload that runs on is not seen.
LEMMA Unseen ==
    ASSUME MediaInv, NEW u \in Uploads, phase[u] \in Running,
           NEW place \in Running, Goto(u, place), UNCHANGED <<body, stored>>
    PROVE  UNCHANGED Store!vars
<1>1. Status' = Status
    BY DEF Goto, Status, MediaInv, MediaTypeOK
<1> QED BY <1>1 DEF Store!vars, Status

\* The end of an upload is the step that is seen.
LEMMA Seen ==
    ASSUME MediaInv, NEW u \in Uploads, phase[u] \in Running,
           NEW answer \in Outcomes, Goto(u, answer), UNCHANGED body
    PROVE  /\ Status[u] = "pending"
           /\ Status' = [Status EXCEPT ![u] = answer]
BY DEF Goto, Status, MediaInv, MediaTypeOK, Running, Outcomes

LEMMA StoreStep == MediaInv /\ [MediaNext]_mediaVars => [Store!Next]_(Store!vars)
<1> SUFFICES ASSUME MediaInv, [MediaNext]_mediaVars PROVE [Store!Next]_(Store!vars)
    OBVIOUS
<1>1. ASSUME NEW u \in Uploads, NEW b \in Bodies, GetBuffer(u, b) PROVE Store!Next
  <2>1. Status[u] # "pending" /\ Status' = [Status EXCEPT ![u] = "pending"]
      BY <1>1 DEF GetBuffer, Goto, Status, MediaInv, MediaTypeOK, Running, Outcomes
  <2>2. body' = [body EXCEPT ![u] = b] /\ stored' = [stored EXCEPT ![u] = None]
      BY <1>1 DEF GetBuffer
  <2> QED BY <2>1, <2>2 DEF Store!Next, Store!Begin, Status
<1>2. ASSUME NEW u \in Uploads, OpenStream(u) \/ ReadBlock(u) \/ ReadEOF(u)
      PROVE  UNCHANGED Store!vars
    BY <1>2, Unseen DEF OpenStream, ReadBlock, ReadEOF, Running
<1>3. ASSUME NEW u \in Uploads, phase[u] \in Running, Goto(u, "failed"), UNCHANGED <<body, stored>>
      PROVE  Store!Next
  <2>1. Status[u] = "pending" /\ Status' = [Status EXCEPT ![u] = "failed"]
      BY <1>3, Seen DEF Outcomes
  <2> QED BY <1>3, <2>1 DEF Store!Next, Store!Discard, Store!Answer, Status
<1>4. ASSUME NEW u \in Uploads, SendChunk(u) PROVE Store!Next \/ UNCHANGED Store!vars
  <2>1. CASE ended[u] = "error"
      BY <1>3, <1>4, <2>1 DEF SendChunk, Running
  <2>2. CASE ended[u] # "error"
      BY <1>4, <2>2, Unseen DEF SendChunk, Running
  <2> QED BY <2>1, <2>2
<1>5. ASSUME NEW u \in Uploads, CloseAndRecv(u) PROVE Store!Next
  <2>1. phase[u] \in Running /\ UNCHANGED body
      BY <1>5 DEF CloseAndRecv, Running
  <2>2. CASE Goto(u, "refused") /\ UNCHANGED stored
    <3>1. Status[u] = "pending" /\ Status' = [Status EXCEPT ![u] = "refused"]
        BY <2>1, <2>2, Seen DEF Outcomes
    <3> QED BY <2>1, <2>2, <3>1 DEF Store!Next, Store!Discard, Store!Answer, Status
  <2>3. ASSUME stored' = [stored EXCEPT ![u] = received[u]],
               NEW answer \in {"stored", "failed"}, Goto(u, answer)
        PROVE  Store!Next
    <3>1. Status[u] = "pending" /\ Status' = [Status EXCEPT ![u] = answer]
        BY <2>1, <2>3, Seen DEF Outcomes
    <3>2. received[u] = Whole(body[u]) /\ body[u] \in Bodies
        BY <1>5 DEF CloseAndRecv, MediaInv, Streams, StreamOf, Running
    <3> QED BY <2>1, <2>3, <3>1, <3>2 DEF Store!Next, Store!Keep, Store!Answer, Status
  <2> QED BY <1>5, <2>2, <2>3 DEF CloseAndRecv
<1>6. ASSUME NEW u \in Uploads, UploadFails(u) PROVE Store!Next
    BY <1>3, <1>6 DEF UploadFails
<1>7. CASE UNCHANGED mediaVars
  <2>1. Status' = Status
      BY <1>7 DEF mediaVars, Status
  <2> QED BY <1>7, <2>1 DEF mediaVars, Store!vars, Status
<1> QED BY <1>1, <1>2, <1>4, <1>5, <1>6, <1>7 DEF MediaNext, Upload

\* UploadFile: to those who see the storage and the answers an upload is one
\* step, however many blocks it has and whoever else uses the buffers.
THEOREM UploadsAreOneStep == MediaSpec => UploadIsOneStep
BY MediaInvariant, StoreInit, StoreStep, PTL DEF MediaSpec, UploadIsOneStep, Store!Spec
=============================================================================
