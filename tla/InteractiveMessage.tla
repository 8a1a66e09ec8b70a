--------------------------- MODULE InteractiveMessage ---------------------------
(***************************************************************************)
(* Interactive messages and the persistent menu of Messenger: the loops    *)
(* that turn keyboards and menus into what the Graph API takes, which has  *)
(* limits where they have none, and no rows, sections without a title or   *)
(* nested menus.  Nothing is remembered between two requests, so that one  *)
(* behaviour is one request: its input is chosen, its message is built,    *)
(* one action per pass of a loop.                                          *)
(*                                                                         *)
(* A button is known by its place in the keyboard, an item by its place in *)
(* the menu; labels, payloads and titles are carried along with it.        *)
(***************************************************************************)
EXTENDS Naturals, Sequences, FiniteSets

CONSTANTS
    Keyboards,             \* rows or sections: sequences of sequences of kinds
    Menus,                 \* functions of paths to kinds, see IsMenu
    MaxQuickReplies,       \* 13 in the code
    MaxButtons,            \* 3
    MaxElements,           \* 10
    MaxButtonsPerElement   \* 3

Kinds == {"url", "callback", "request", "none"}
ItemKinds == {"url", "payload", "nested"}

\* A menu maps the path of every item to its kind: what is on the way to an
\* item is an item and nested, and so are the items before it items.
IsMenu(menu) ==
    \A p \in DOMAIN menu :
        /\ p \in Seq(Nat \ {0}) /\ p # <<>> /\ menu[p] \in ItemKinds
        /\ \A k \in DOMAIN p :
              /\ \A i \in 1..p[k] : Append(SubSeq(p, 1, k - 1), i) \in DOMAIN menu
              /\ k < Len(p) => menu[SubSeq(p, 1, k)] = "nested"

ASSUME KeyboardsAreRows == Keyboards \subseteq Seq(Seq(Kinds))
ASSUME MenusAreTrees == \A menu \in Menus : IsMenu(menu)
ASSUME LimitsArePositive ==
    {MaxQuickReplies, MaxButtons, MaxElements, MaxButtonsPerElement} \subseteq Nat \ {0}

VARIABLES
    request,    \* [form, rows] or [form, menu]
    cursor,     \* the place the loops have come to: <<row, column>> or a path
    offered,    \* how many buttons buildQuickReplies has looked at
    out,        \* the row of buttons, or the actions, made so far
    elements,   \* the elements made so far
    sent        \* [form, items], or Unsent

interactiveVars == <<request, cursor, offered, out, elements, sent>>

Requests ==
    [form : {"markup", "listReply"}, rows : Keyboards] \cup [form : {"menu"}, menu : Menus]
Unsent == [form |-> "unsent", items |-> <<>>]
Refused == [form |-> "refused", items |-> <<>>]

InteractiveInit ==
    /\ request \in Requests
    /\ cursor = IF request.form = "menu" THEN <<1>> ELSE <<1, 1>>
    /\ offered = 0 /\ out = <<>> /\ elements = <<>>
    /\ sent = Unsent

Building(form) == request.form = form /\ sent = Unsent
Put(type) == out' = Append(out, [type |-> type, place |-> cursor])
ActionType(kind) == IF kind = "url" THEN "web_url" ELSE "postback"
Answer(form, items) == IF items = <<>> THEN Refused ELSE [form |-> form, items |-> items]

Send(answer) == sent' = answer /\ UNCHANGED <<request, cursor, offered, out, elements>>

-----------------------------------------------------------------------------
(* Keyboards: row by row, each button with its kind.                       *)

Offered == UNION {{r} \X DOMAIN request.rows[r] : r \in DOMAIN request.rows}
KindAt(place) == request.rows[place[1]][place[2]]

NoMoreRows == cursor[1] \notin DOMAIN request.rows
EndOfRow == ~NoMoreRows /\ cursor[2] \notin DOMAIN request.rows[cursor[1]]

HasURLButton == \E p \in Offered : KindAt(p) = "url"

\* A mutant: one too many.
OneMoreQuickReply == offered > MaxQuickReplies

\* The limit counts the buttons that were offered, those without a kind too.
QuickRepliesFull == offered >= MaxQuickReplies

\* A mutant: the limit counts the buttons that were looked at in the row.
ButtonsOffered(limit) == cursor[2] > limit

\* The limit of buildButtonTemplate and of a section counts the buttons that
\* are sent, and requests are not.
ButtonsFull(limit) == Len(out) >= limit

BuildQuickReplies ==
    /\ Building("markup") /\ ~HasURLButton
    /\ cursor \in Offered /\ ~QuickRepliesFull
    /\ IF KindAt(cursor) \in {"callback", "request"} THEN Put(KindAt(cursor)) ELSE UNCHANGED out
    /\ offered' = offered + 1
    /\ cursor' = <<cursor[1], cursor[2] + 1>>
    /\ UNCHANGED <<request, elements, sent>>

TemplateButton(limit) ==
    /\ cursor \in Offered /\ ~ButtonsFull(limit)
    /\ IF KindAt(cursor) \in {"url", "callback"} THEN Put(ActionType(KindAt(cursor))) ELSE UNCHANGED out
    /\ cursor' = <<cursor[1], cursor[2] + 1>>
    /\ UNCHANGED <<request, offered, elements, sent>>

BuildButtonTemplate == Building("markup") /\ HasURLButton /\ TemplateButton(MaxButtons)

\* The buttons of all rows are put in one row.
NextRow ==
    /\ Building("markup") /\ EndOfRow
    /\ cursor' = <<cursor[1] + 1, 1>>
    /\ UNCHANGED <<request, offered, out, elements, sent>>

BuildMarkupMessage ==
    /\ Building("markup")
    /\ IF HasURLButton
       THEN (NoMoreRows \/ ButtonsFull(MaxButtons)) /\ Send(Answer("buttons", out))
       ELSE (NoMoreRows \/ QuickRepliesFull) /\ Send(Answer("quickReplies", out))

SectionButton ==
    /\ Building("listReply") /\ cursor[1] <= MaxElements
    /\ TemplateButton(MaxButtonsPerElement)

\* An element for each section, with a title and perhaps without buttons.
NextSection ==
    /\ Building("listReply") /\ cursor[1] <= MaxElements
    /\ EndOfRow \/ (~NoMoreRows /\ ButtonsFull(MaxButtonsPerElement))
    /\ elements' = Append(elements, out)
    /\ out' = <<>>
    /\ cursor' = <<cursor[1] + 1, 1>>
    /\ UNCHANGED <<request, offered, sent>>

BuildListReplyMessage ==
    /\ Building("listReply")
    /\ NoMoreRows \/ cursor[1] > MaxElements
    /\ Send(Answer("elements", elements))

-----------------------------------------------------------------------------
(* The persistent menu: the calls of menuItemsToActions are the items that *)
(* are open, and cursor is the path through them.                              *)

ItemAt == Building("menu") /\ cursor \in DOMAIN request.menu
After(p) == [p EXCEPT ![Len(p)] = @ + 1]

\* A mutant: just the items of the menu itself are flattened.
NestedOnce == Len(cursor) = 1 /\ Append(cursor, 1) \in DOMAIN request.menu

HasItems == Append(cursor, 1) \in DOMAIN request.menu

\* What is nested is put where the item was.
FlattenNested ==
    /\ ItemAt /\ HasItems
    /\ cursor' = Append(cursor, 1)
    /\ UNCHANGED <<request, offered, out, elements, sent>>

\* What is nested and empty is a postback, as is an item without action.
AppendAction ==
    /\ ItemAt /\ ~HasItems
    /\ Put(ActionType(request.menu[cursor]))
    /\ cursor' = After(cursor)
    /\ UNCHANGED <<request, offered, elements, sent>>

\* A mutant: the recursion returns to the item whose items it has done.
ReturnToItem ==
    /\ Building("menu") /\ cursor \notin DOMAIN request.menu /\ Len(cursor) > 1
    /\ cursor' = SubSeq(cursor, 1, Len(cursor) - 1)
    /\ UNCHANGED <<request, offered, out, elements, sent>>

ReturnActions ==
    /\ Building("menu") /\ cursor \notin DOMAIN request.menu /\ Len(cursor) > 1
    /\ cursor' = After(SubSeq(cursor, 1, Len(cursor) - 1))
    /\ UNCHANGED <<request, offered, out, elements, sent>>

SetPersistentMenu ==
    /\ Building("menu") /\ cursor \notin DOMAIN request.menu /\ Len(cursor) = 1
    /\ Send([form |-> "menu", items |-> out])

-----------------------------------------------------------------------------
InteractiveNext ==
    \/ BuildQuickReplies \/ BuildButtonTemplate \/ NextRow \/ BuildMarkupMessage
    \/ SectionButton \/ NextSection \/ BuildListReplyMessage
    \/ FlattenNested \/ AppendAction \/ ReturnActions \/ SetPersistentMenu

InteractiveSpec == InteractiveInit /\ [][InteractiveNext]_interactiveVars

-----------------------------------------------------------------------------
(* Properties.                                                             *)

\* Places are compared as the words of a dictionary.
Before(p, q) ==
    \E k \in DOMAIN q :
        /\ k - 1 <= Len(p)
        /\ \A j \in 1..(k - 1) : p[j] = q[j]
        /\ k <= Len(p) => p[k] < q[k]

InOrder(items) == \A i, j \in DOMAIN items : i < j => Before(items[i].place, items[j].place)

\* A row of buttons is within its limit, in the order of the keyboard, each one
\* was offered and is of a kind that the form can carry.
Fits(items, limit, kinds) ==
    /\ Len(items) <= limit
    /\ InOrder(items)
    /\ \A i \in DOMAIN items : items[i].place \in Offered /\ KindAt(items[i].place) \in kinds

\* "maxQuickReplies", "maxButtons", "maxElements", "maxButtonsPerElement":
\* whatever is in a keyboard, its message is within the limits of the Graph API,
\* keeps the order of the keyboard and shows no button twice.
KeyboardFits ==
    /\ sent.form = "quickReplies" => Fits(sent.items, MaxQuickReplies, {"callback", "request"})
    /\ sent.form = "buttons" => Fits(sent.items, MaxButtons, {"url", "callback"})
    /\ sent.form = "elements" =>
          /\ Len(sent.items) <= MaxElements
          /\ \A s \in DOMAIN sent.items :
                /\ Fits(sent.items[s], MaxButtonsPerElement, {"url", "callback"})
                /\ \A i \in DOMAIN sent.items[s] : sent.items[s][i].place[1] = s

Places(items) == {items[i].place : i \in DOMAIN items}
Rank(place) == Cardinality({p \in Offered : Before(p, place)}) + 1
Carried(place) == KindAt(place) \in {"url", "callback"}

\* A button that can be sent is left out of a template or an element only if
\* that is full.  Quick replies count the buttons they are offered: one that
\* can be sent is left out if MaxQuickReplies buttons of any kind stand before
\* it, also if some of those are passed over and there is room in the message.
\* A keyboard is refused only if nothing of it can be sent within these limits.
NothingLeftOut ==
    /\ sent.form = "quickReplies" => \A p \in Offered \ Places(sent.items) :
          KindAt(p) = "none" \/ Rank(p) > MaxQuickReplies
    /\ sent.form = "buttons" => \A p \in Offered \ Places(sent.items) :
          Carried(p) => Len(sent.items) = MaxButtons
    /\ sent.form = "elements" => \A p \in Offered :
          \/ p[1] > MaxElements
          \/ p \in Places(sent.items[p[1]])
          \/ Carried(p) => Len(sent.items[p[1]]) = MaxButtonsPerElement
    /\ sent.form = "refused" =>
          IF request.form = "listReply" THEN request.rows = <<>>
          ELSE \A p \in Offered : KindAt(p) = "none" \/ Rank(p) > MaxQuickReplies

\* "FB persistent menu does not support nested type": the actions of a menu are
\* its items without items in them, each once, in the order one reads them in,
\* however deep they are.
MenuFlattened ==
    sent.form = "menu" =>
        /\ Places(sent.items) = {p \in DOMAIN request.menu : Append(p, 1) \notin DOMAIN request.menu}
        /\ InOrder(sent.items)
        /\ \A i \in DOMAIN sent.items :
              sent.items[i].type = "web_url" <=> request.menu[sent.items[i].place] = "url"

\* The loops and the recursion end: every pass goes forward in the order of the
\* keyboard or the menu and none looks at a place twice, also where nested items
\* end and the recursion returns to what is behind them.
PassesGoForward ==
    [][sent = Unsent => sent' # Unsent \/ Before(cursor, cursor')]_interactiveVars
=============================================================================
