--------------------------- MODULE SessionWizard ---------------------------
(***************************************************************************)
(* Opening a shipment: the form of web/src/app/sessions/new/page.tsx with  *)
(* its consignee and load (components/ConsignmentEditor.tsx), its list of  *)
(* orders without a live session, and the two calls it makes in turn:      *)
(* updateOrder (catalog.service.ts) and create (sessions.service.ts).      *)
(*                                                                         *)
(* An order is its consignee, who wrote its load last, its status and its  *)
(* live session.  What a session does next is SessionLifecycle's; cadence, *)
(* carrier and driver are validated fields and are left out.  A statement  *)
(* of create that fails leaves what the ones before it wrote: no           *)
(* transaction holds them together.                                        *)
(***************************************************************************)
EXTENDS Naturals, FiniteSets

CONSTANTS
    Orders,        \* orders on file
    Customers,     \* consignees on file
    Nobody,        \* no consignee, no order
    MaxUpsets      \* bound: failed statements, lost answers and what others do

VARIABLES
    order,         \* kh.orders with kh.order_items and its live session
    list,          \* ['orders', 'untracked']: order -> its consignee, Nobody if absent
    wizard,        \* orderId, consignment.customerId, the filled lines
    call,          \* the mutation: idle, or the call under way and what it carries
    chosen,        \* for the properties: the consignee a hand chose for the order
    trouble, others

vars == <<order, list, wizard, call, chosen, trouble, others>>

Consignee == Customers \cup {Nobody}
Load == {"none", "desk", "wizard"}
Status == {"PENDING", "DISPATCHED"}
Session == {"none", "mine", "other"}
Order == [customer : Customers, load : Load, status : Status, session : Session]

Idle == [at |-> "idle"]
CallState == {Idle} \cup
    [at : {"update", "create", "event", "status"}, order : Orders, customer : Consignee,
     load : BOOLEAN]

TypeOK ==
    /\ order \in [Orders -> Order]
    /\ list \in [Orders -> Consignee]
    /\ wizard \in [order : Orders \cup {Nobody}, customer : Consignee, lines : BOOLEAN]
    /\ call \in CallState
    /\ chosen \in Consignee
    /\ trouble \in 0 .. MaxUpsets /\ others \in 0 .. MaxUpsets

\* listOrders with `untracked`.
Untracked(file) ==
    [o \in Orders |-> IF file[o].session = "none" THEN file[o].customer ELSE Nobody]

Blank == [order |-> Nobody, customer |-> Nobody, lines |-> FALSE]

Init ==
    /\ order \in [Orders -> [customer : Customers, load : {"none", "desk"},
                             status : {"PENDING"}, session : {"none"}]]
    /\ list = Untracked(order)
    /\ wizard = Blank /\ call = Idle
    /\ chosen = Nobody
    /\ trouble = 0 /\ others = 0

-----------------------------------------------------------------------------
\* The form.

SelectedCustomer(l, o) == IF o = Nobody THEN Nobody ELSE l[o]

\* The editor's effect runs when the order's consignee changes, and adopts it
\* only while none is chosen.
Adopt(w, l) ==
    LET was == SelectedCustomer(list, wizard.order)
        is  == SelectedCustomer(l, w.order)
    IN  IF is # was /\ is # Nobody /\ w.customer = Nobody
        THEN [w EXCEPT !.customer = is] ELSE w

\* An empty list replaces the form by the way to a new order.
Shown == \E o \in Orders : list[o] # Nobody

ChooseOrder(o) ==
    /\ Shown
    /\ o # Nobody => list[o] # Nobody
    /\ wizard' = Adopt([wizard EXCEPT !.order = o], list)
    /\ UNCHANGED <<order, list, call, chosen, trouble, others>>

\* The select of the editor, or a consignee added in its dialog.
ChooseConsignee(c) ==
    /\ Shown /\ wizard.order # Nobody
    /\ wizard' = [wizard EXCEPT !.customer = c]
    /\ chosen' = c
    /\ UNCHANGED <<order, list, call, trouble, others>>

EditLines ==
    /\ Shown /\ wizard.order # Nobody
    /\ wizard' = [wizard EXCEPT !.lines = ~@]
    /\ UNCHANGED <<order, list, call, chosen, trouble, others>>

Refetch ==
    /\ list' = Untracked(order) /\ list' # list
    /\ wizard' = Adopt(wizard, list')
    /\ UNCHANGED <<order, call, chosen, trouble, others>>

\* consigneeChanged: whoever the form holds and the list does not.
Changed == wizard.customer # Nobody /\ wizard.customer # SelectedCustomer(list, wizard.order)

\* Mutant: the session is created although the order has still to be written.
SubmitBoth ==
    /\ Shown /\ wizard.order # Nobody /\ call = Idle
    /\ call' = [at |-> "create", order |-> wizard.order,
                customer |-> IF Changed THEN wizard.customer ELSE Nobody,
                load |-> wizard.lines]
    /\ UNCHANGED <<order, list, wizard, chosen, trouble, others>>

\* mutationFn: the order is written first, when there is something to write.
Submit ==
    /\ Shown /\ wizard.order # Nobody /\ call = Idle
    /\ call' = [at |-> IF Changed \/ wizard.lines THEN "update" ELSE "create",
                order |-> wizard.order,
                customer |-> IF Changed THEN wizard.customer ELSE Nobody,
                load |-> wizard.lines]
    /\ UNCHANGED <<order, list, wizard, chosen, trouble, others>>

-----------------------------------------------------------------------------
\* updateOrder: one transaction.

\* Mutant: lines that were not sent count as none.
RewriteAll(o, customer, load) ==
    [order EXCEPT ![o].customer = IF customer = Nobody THEN @ ELSE customer,
                  ![o].load = IF load THEN "wizard" ELSE "none"]

\* coalesce keeps the consignee; items not sent are left alone.
Rewrite(o, customer, load) ==
    [order EXCEPT ![o].customer = IF customer = Nobody THEN @ ELSE customer,
                  ![o].load = IF load THEN "wizard" ELSE @]

Update ==
    /\ call.at = "update"
    /\ order' = Rewrite(call.order, call.customer, call.load)
    /\ call' = [call EXCEPT !.at = "create"]
    /\ UNCHANGED <<list, wizard, chosen, trouble, others>>

\* create: no order may have two live sessions (uq_sessions_one_live_per_order).
Insert ==
    /\ call.at = "create" /\ order[call.order].session = "none"
    /\ order' = [order EXCEPT ![call.order].session = "mine"]
    /\ call' = [call EXCEPT !.at = "event"]
    /\ UNCHANGED <<list, wizard, chosen, trouble, others>>

Conflict ==
    /\ call.at = "create" /\ order[call.order].session # "none"
    /\ call' = Idle
    /\ UNCHANGED <<order, list, wizard, chosen, trouble, others>>

LogCreated ==
    /\ call.at = "event"
    /\ call' = [call EXCEPT !.at = "status"]
    /\ UNCHANGED <<order, list, wizard, chosen, trouble, others>>

\* The order leaves PENDING, and the answer brings the hand-off slip: the form is over.  A link for
\* the consignee that cannot be minted is not a failure.
Dispatch ==
    /\ call.at = "status"
    /\ order' = [order EXCEPT ![call.order].status = "DISPATCHED"]
    /\ call' = Idle
    /\ wizard' = Blank /\ chosen' = Nobody
    /\ list' = Untracked(order')
    /\ UNCHANGED <<trouble, others>>

\* A statement fails, or its answer is lost: the form stays as it was.
Fails ==
    /\ call # Idle /\ trouble + others < MaxUpsets
    /\ trouble' = trouble + 1
    /\ call' = Idle
    /\ \/ UNCHANGED order
       \/ call.at = "update" /\ order' = Rewrite(call.order, call.customer, call.load)
    /\ UNCHANGED <<list, wizard, chosen, others>>

-----------------------------------------------------------------------------
\* Another dispatcher writes the order, opens its shipment, or closes it.
Other(o) ==
    /\ trouble + others < MaxUpsets /\ others' = others + 1
    /\ \/ \E c \in Customers, l \in {order[o].load, "desk"} :
             order' = [order EXCEPT ![o].customer = c, ![o].load = l]
       \/ order[o].session = "none"
          /\ order' = [order EXCEPT ![o].session = "other", ![o].status = "DISPATCHED"]
       \/ order[o].session # "none" /\ order' = [order EXCEPT ![o].session = "none"]
    /\ order' # order
    /\ UNCHANGED <<list, wizard, call, chosen, trouble>>

Serving == Update \/ Insert \/ Conflict \/ LogCreated \/ Dispatch \/ Fails

Next ==
    \/ \E o \in Orders \cup {Nobody} : ChooseOrder(o)
    \/ \E c \in Consignee : ChooseConsignee(c)
    \/ EditLines \/ Refetch \/ Submit
    \/ Serving
    \/ \E o \in Orders : Other(o)

Spec == Init /\ [][Next]_vars

-----------------------------------------------------------------------------
\* A shipment this form opens never goes out without the load the form holds:
\* "creating a tracking session that says it carries products the order does not
\* record is worse than not creating it at all".  Another dispatcher may have
\* written the load since.
ManifestFirstStep ==
    \A o \in Orders :
       order[o].session # "mine" /\ order'[o].session = "mine" /\ call.load =>
          order[o].load = "wizard" \/ others > 0
ManifestFirst == [][ManifestFirstStep]_vars

\* A form without lines never erases a load entered elsewhere.
LoadIsNeverErasedStep ==
    \A o \in Orders : order[o].load # "none" => order'[o].load # "none"
LoadIsNeverErased == [][LoadIsNeverErasedStep]_vars

\* "Adopt the order's customer when one is picked, unless the dispatcher has
\* already chosen a different consignee for this shipment" (ConsignmentEditor):
\* the form re-files an order only under a consignee a hand chose.
RefiledByChoiceStep ==
    \A o \in Orders :
       order'[o].customer # order[o].customer =>
          others' # others \/ order'[o].customer = chosen
RefiledByChoice == [][RefiledByChoiceStep]_vars

=============================================================================
