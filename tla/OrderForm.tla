----------------------------- MODULE OrderForm -----------------------------
(***************************************************************************)
(* A new order and the consignee it goes to: the form of                   *)
(* web/src/app/orders/new/page.tsx, the dialog that adds or corrects a     *)
(* consignee (components/CustomerDialog.tsx), the cached list of           *)
(* consignees both read, and the two tables behind them                    *)
(* (api/src/catalog/catalog.service.ts).                                   *)
(*                                                                         *)
(* A consignee is its delivery point on file.  Names, weights, dates and   *)
(* labels are left out; an order keeps its consignee and its point.  The   *)
(* form is on screen throughout; another dispatcher edits consignees too.  *)
(***************************************************************************)
EXTENDS Naturals, FiniteSets

CONSTANTS
    Customers,     \* consignees, by their code
    Points,        \* delivery points
    NoPoint,       \* a consignee or a form without one
    Unknown,       \* a consignee that is not there
    MaxOrders,     \* bound: orders created
    MaxEdits       \* bound: consignees created or corrected

VARIABLES
    customers,     \* kh.customers: code -> its point, or Unknown
    orders,        \* kh.orders
    cache,         \* ['customers']: what the form knows of them
    stale,         \* ['customers'] is invalidated, its refetch not yet landed
    form,          \* customerId, location, inherited
    dialogs,       \* the open dialogs: this tab's, and another dispatcher's
    edits          \* counts towards MaxEdits

vars == <<customers, orders, cache, stale, form, dialogs, edits>>

Point == Points \cup {NoPoint}
File == [Customers -> Point \cup {Unknown}]
Dialog == [open : {"no", "new"} \cup Customers, location : Point]

TypeOK ==
    /\ customers \in File /\ cache \in File
    /\ orders \subseteq [customer : Customers, location : Point, own : BOOLEAN]
    /\ Cardinality(orders) <= MaxOrders
    /\ stale \in BOOLEAN
    /\ form \in [customer : Customers \cup {Unknown}, location : Point, inherited : BOOLEAN]
    /\ form.inherited => form.location # NoPoint
    /\ dialogs \in [{"mine", "other"} -> Dialog]
    /\ edits \in 0 .. MaxEdits

Blank == [customer |-> Unknown, location |-> NoPoint, inherited |-> FALSE]
Shut == [open |-> "no", location |-> NoPoint]

Init ==
    /\ customers \in File
    /\ orders = {} /\ cache = customers /\ stale = FALSE
    /\ form = Blank
    /\ dialogs = [d \in {"mine", "other"} |-> Shut]
    /\ edits = 0

-----------------------------------------------------------------------------
\* The effect that adopts the consignee's point.

Selected(file, c) == IF c = Unknown THEN Unknown ELSE file[c]

\* Mutant: a consignee without a point leaves the form alone.
AdoptOnly(f, point) ==
    IF point \in {Unknown, NoPoint} \/ (f.location # NoPoint /\ ~f.inherited) THEN f
    ELSE [f EXCEPT !.location = point, !.inherited = TRUE]

\* Mutant: adopted whether or not a hand put the point there.
AdoptAlways(f, point) ==
    IF point = Unknown THEN f
    ELSE [f EXCEPT !.location = point, !.inherited = point # NoPoint]

\* Only while the field is untouched or inherited; a consignee without a point
\* takes an inherited one away; an unknown consignee decides nothing.
Adopt(f, point) ==
    IF point = Unknown \/ (f.location # NoPoint /\ ~f.inherited) THEN f
    ELSE IF point # NoPoint THEN [f EXCEPT !.location = point, !.inherited = TRUE]
    ELSE IF f.inherited THEN [f EXCEPT !.location = NoPoint, !.inherited = FALSE]
    ELSE f

\* A render: the effect runs when the consignee or its cached point changed.
Render(c, file) ==
    LET before == <<form.customer, Selected(cache, form.customer)>>
        after  == <<c, Selected(file, c)>>
        f      == [form EXCEPT !.customer = c]
    IN  form' = IF before = after THEN f ELSE Adopt(f, after[2])

-----------------------------------------------------------------------------
\* The form.

\* The select offers what the cache holds, and the empty choice.
Choose(c) ==
    /\ c \in Customers => cache[c] # Unknown
    /\ Render(c, cache)
    /\ UNCHANGED <<customers, orders, cache, stale, dialogs, edits>>

\* LocationPicker.onChange: by hand from now on.
Pick(p) ==
    /\ form' = [form EXCEPT !.location = p, !.inherited = FALSE]
    /\ UNCHANGED <<customers, orders, cache, stale, dialogs, edits>>

\* createOrder: the row as the form has it, and a new form.  `own` is for the
\* properties: a point the form calls inherited is one its consignee has.
Submit ==
    LET c == form.customer IN
    /\ c # Unknown
    /\ orders' = orders \cup {[customer |-> c, location |-> form.location,
                               own |-> form.inherited =>
                                          form.location \in {cache[c], customers[c]}]}
    /\ Cardinality(orders') <= MaxOrders
    /\ form' = Blank
    /\ UNCHANGED <<customers, cache, stale, dialogs, edits>>

-----------------------------------------------------------------------------
\* The dialogs.

\* Seeded when it opens, and not again.
Open(d, target) ==
    /\ dialogs[d] = Shut
    /\ target = "new" \/ (d = "other" /\ target \in Customers /\ customers[target] # Unknown)
    /\ dialogs' = [dialogs EXCEPT ![d] =
                     [open |-> target,
                      location |-> IF target = "new" THEN NoPoint ELSE customers[target]]]
    /\ UNCHANGED <<customers, orders, cache, stale, form, edits>>

PickInDialog(d, p) ==
    /\ dialogs[d] # Shut /\ dialogs[d].location # p
    /\ dialogs' = [dialogs EXCEPT ![d].location = p]
    /\ UNCHANGED <<customers, orders, cache, stale, form, edits>>

Cancel(d) ==
    /\ dialogs[d] # Shut
    /\ dialogs' = [dialogs EXCEPT ![d] = Shut]
    /\ UNCHANGED <<customers, orders, cache, stale, form, edits>>

PutOnFile(c, p) ==
    /\ edits < MaxEdits /\ edits' = edits + 1
    /\ customers' = [customers EXCEPT ![c] = p]

\* createCustomer: a code that is taken keeps its point (ON CONFLICT DO UPDATE
\* SET name).  This tab then selects the consignee, whose row it has not read.
SaveNew(d) ==
    /\ dialogs[d].open = "new"
    /\ \E c \in Customers :
          /\ PutOnFile(c, IF customers[c] = Unknown THEN dialogs[d].location ELSE customers[c])
          /\ IF d = "mine"
             THEN Render(c, cache) /\ stale' = TRUE
             ELSE UNCHANGED <<form, stale>>
    /\ dialogs' = [dialogs EXCEPT ![d] = Shut]
    /\ UNCHANGED <<orders, cache>>

\* updateCustomer: the point of the dialog, or none, replaces what is on file.
SaveEdit(d) ==
    /\ dialogs[d].open \in Customers
    /\ PutOnFile(dialogs[d].open, dialogs[d].location)
    /\ dialogs' = [dialogs EXCEPT ![d] = Shut]
    /\ UNCHANGED <<orders, cache, stale, form>>

\* The refetch lands: asked for by an invalidation, a focus or a mount.
Refetch ==
    /\ stale \/ cache # customers
    /\ cache' = customers /\ stale' = FALSE
    /\ Render(form.customer, customers)
    /\ UNCHANGED <<customers, orders, dialogs, edits>>

-----------------------------------------------------------------------------
InDialog(d) ==
    \/ \E target \in {"new"} \cup Customers : Open(d, target)
    \/ \E p \in Point : PickInDialog(d, p)
    \/ Cancel(d) \/ SaveNew(d) \/ SaveEdit(d)

Next ==
    \/ \E c \in Customers \cup {Unknown} : Choose(c)
    \/ \E p \in Point : Pick(p)
    \/ Submit \/ Refetch
    \/ \E d \in {"mine", "other"} : InDialog(d)

Spec == Init /\ [][Next]_vars

-----------------------------------------------------------------------------
\* A point marked as the consignee's is the one the page has on file for the
\* consignee chosen now, whatever was chosen, corrected or refetched before.
InheritedIsTheirs ==
    form.inherited /\ Selected(cache, form.customer) # Unknown =>
        form.location = cache[form.customer]

\* A point set by hand goes only by hand or with its order: "a deliberate one-off
\* address survives a correction to the consignee dropdown".
PickedStaysStep ==
    form.location # NoPoint /\ ~form.inherited =>
       \/ form'.location = form.location /\ ~form'.inherited
       \/ form' = Blank
       \/ \E p \in Point : Pick(p)
PickedStays == [][PickedStaysStep]_vars

\* "Clear an inherited one rather than leaving the previous customer's warehouse
\* attached to this order" (orders/new/page.tsx).
NoStrangersPoint == \A o \in orders : o.own

=============================================================================
