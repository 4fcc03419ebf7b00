------------------------------ MODULE PortalOrder ------------------------------
(***************************************************************************)
(* The customer portal's order card (CustomerPortalOrder): the benefit     *)
(* grants query keyed by the order id, and the "Download Invoice" button,  *)
(* whose handler awaits the invoice mutation and then opens the URL.  The  *)
(* `order` prop may be replaced while requests are outstanding.            *)
(***************************************************************************)
EXTENDS Naturals

CONSTANTS
    Orders,      \* order ids
    MaxClicks    \* number of Download Invoice clicks explored

ASSUME ConstantsAssumption ==
    /\ Orders # {}
    /\ MaxClicks \in Nat \ {0}

VARIABLES
    order,    \* the `order` prop
    grants,   \* grants[o]: the benefit-grants query data for order_id o
    req,      \* req[i]: the order and progress of the i-th Download click
    nreq,     \* number of Download clicks so far
    opened    \* the invoice windows opened: pairs <<click, order>>

vars == <<order, grants, req, nreq, opened>>

Slots == 1..MaxClicks

\* Query data: not fetched yet (undefined), an empty page, or some grants.
GrantData == {"undefined", "empty", "some"}

(* Phases of one openInvoice call: "sent" and "answered" while mutateAsync *)
(* is pending, "opened" after window.open, "failed" when it rejects.      *)
Phases == {"idle", "sent", "answered", "opened", "failed"}

InFlight == {"sent", "answered"}

\* orderInvoiceMutation.isPending: the most recent mutate call is unsettled.
Pending == nreq \in Slots /\ req[nreq].phase \in InFlight

\* The card shows "This product has no benefit grants" when the query has
\* no data or an empty page: (benefitGrants?.items.length ?? 0) > 0 fails.
ShowsNoGrants == grants[order] \in {"undefined", "empty"}

TypeOK ==
    /\ order \in Orders
    /\ grants \in [Orders -> GrantData]
    /\ req \in [Slots -> [order: Orders, phase: Phases]]
    /\ nreq \in 0..MaxClicks
    /\ opened \subseteq Slots \X Orders

Init ==
    /\ order \in Orders
    /\ grants = [o \in Orders |-> "undefined"]
    /\ \E o \in Orders : req = [i \in Slots |-> [order |-> o, phase |-> "idle"]]
    /\ nreq = 0
    /\ opened = {}

-----------------------------------------------------------------------------

\* Faulty variant: the button is not disabled while the mutation is pending.
ClickDownloadWhilePending ==
    /\ nreq < MaxClicks
    /\ nreq' = nreq + 1
    /\ req' = [req EXCEPT ![nreq + 1] = [order |-> order, phase |-> "sent"]]
    /\ UNCHANGED <<order, grants, opened>>

\* Download Invoice, disabled while the mutation is pending: openInvoice
\* calls mutateAsync({id: order.id}) with the order of this render.
ClickDownload ==
    /\ ~Pending
    /\ nreq < MaxClicks
    /\ nreq' = nreq + 1
    /\ req' = [req EXCEPT ![nreq + 1] = [order |-> order, phase |-> "sent"]]
    /\ UNCHANGED <<order, grants, opened>>

\* The server answers the invoice request with the invoice URL.
ServerInvoice(i) ==
    /\ req[i].phase = "sent"
    /\ req' = [req EXCEPT ![i].phase = "answered"]
    /\ UNCHANGED <<order, grants, nreq, opened>>

\* Faulty variant: the continuation reads the order shown now.
InvoiceOpenedForShownOrder(i) ==
    /\ req[i].phase = "answered"
    /\ req' = [req EXCEPT ![i].phase = "opened"]
    /\ opened' = opened \cup {<<i, order>>}
    /\ UNCHANGED <<order, grants, nreq>>

\* mutateAsync resolves and window.open(url, '_blank') opens the invoice of
\* the order the click was made on, whatever order is shown now.
InvoiceOpened(i) ==
    /\ req[i].phase = "answered"
    /\ req' = [req EXCEPT ![i].phase = "opened"]
    /\ opened' = opened \cup {<<i, req[i].order>>}
    /\ UNCHANGED <<order, grants, nreq>>

\* mutateAsync rejects (server error or transport failure): the promise
\* rejection goes unhandled and no window opens.
InvoiceFailed(i) ==
    /\ req[i].phase \in InFlight
    /\ req' = [req EXCEPT ![i].phase = "failed"]
    /\ UNCHANGED <<order, grants, nreq, opened>>

\* The benefit-grants query for the shown order resolves with a page.
GrantsFetched ==
    /\ grants[order] = "undefined"
    /\ \E d \in {"empty", "some"} : grants' = [grants EXCEPT ![order] = d]
    /\ UNCHANGED <<order, req, nreq, opened>>

\* The parent renders the card with another order; the query switches to
\* that order's key.
ShowOrder ==
    /\ \E o \in Orders \ {order} : order' = o
    /\ UNCHANGED <<grants, req, nreq, opened>>

Next ==
    \/ ClickDownload
    \/ \E i \in Slots : ServerInvoice(i) \/ InvoiceOpened(i) \/ InvoiceFailed(i)
    \/ GrantsFetched
    \/ ShowOrder

\* The network answers or fails every request, and a resolved promise runs
\* its continuation.
Fairness ==
    \A i \in Slots :
        /\ WF_vars(ServerInvoice(i))
        /\ WF_vars(InvoiceOpened(i))

Spec == Init /\ [][Next]_vars /\ Fairness

-----------------------------------------------------------------------------
(* Properties.                                                             *)

\* At most one invoice request is outstanding at any time, however clicks
\* and order changes interleave with the answers: the button is disabled
\* while the shared mutation is pending.
SingleInvoiceRequestInFlight ==
    \A i, j \in Slots :
        req[i].phase \in InFlight /\ req[j].phase \in InFlight => i = j

\* Every Download click eventually opens the invoice of the order it was
\* made on, unless its request fails.
EveryDownloadSettles ==
    \A i \in Slots :
        (req[i].phase = "sent")
            ~> (<<i, req[i].order>> \in opened \/ req[i].phase = "failed")

-----------------------------------------------------------------------------
(* Refinement of the single-slot tracker (InvoiceTracker).                 *)

\* The tracker's slot: the order of the latest click while isPending holds.
PendingOrder == IF Pending THEN {req[nreq].order} ELSE {}

\* The tracker's opened invoices: the orders of the windows opened.
OpenedOrders == {p[2] : p \in opened}

Tracker == INSTANCE InvoiceTracker WITH inflight <- PendingOrder,
                                        invoices <- OpenedOrders

\* The order card behaves as the spec's single-slot tracker: a click issues
\* a request only when none is in flight, for the order shown at that
\* moment, and when the mutation settles it opens that very order's
\* invoice or nothing, however the order prop changes meanwhile; an
\* outstanding request always settles.
ImplementsTracker == Tracker!TrackerSpec

=============================================================================
