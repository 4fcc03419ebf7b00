----------------------------- MODULE InvoiceTracker -----------------------------
(***************************************************************************)
(* What the order card promises about invoice downloads, after spec        *)
(* sections 5 and 9: a single-slot pending-request tracker.  A request is  *)
(* issued only when no other is in flight, for the order shown at that     *)
(* moment; it completes by opening that order's invoice or by failing,     *)
(* and the shown order may change at any time.                             *)
(***************************************************************************)
EXTENDS Naturals

CONSTANTS Orders

VARIABLES
    order,     \* the order shown
    inflight,  \* the order of the request in flight: {} or {o}
    invoices   \* the orders whose invoice has been opened

tvars == <<order, inflight, invoices>>

TrackerTypeOK ==
    /\ order \in Orders
    /\ inflight \subseteq Orders /\ \A o, p \in inflight : o = p
    /\ invoices \subseteq Orders

TrackerInit ==
    /\ order \in Orders
    /\ inflight = {}
    /\ invoices = {}

\* A request for the shown order, only while the slot is free.
Request ==
    /\ inflight = {}
    /\ inflight' = {order}
    /\ UNCHANGED <<order, invoices>>

\* The request in flight completes and its order's invoice is opened.
Deliver ==
    /\ inflight # {}
    /\ inflight' = {}
    /\ invoices' = invoices \cup inflight
    /\ UNCHANGED order

\* The request in flight fails; nothing is opened.
Fail ==
    /\ inflight # {}
    /\ inflight' = {}
    /\ UNCHANGED <<order, invoices>>

\* Another order is shown.
SwitchOrder ==
    /\ \E o \in Orders \ {order} : order' = o
    /\ UNCHANGED <<inflight, invoices>>

TrackerNext == Request \/ Deliver \/ Fail \/ SwitchOrder

\* A request in flight does not stay in flight forever.
TrackerSpec ==
    TrackerInit /\ [][TrackerNext]_tvars /\ WF_tvars(Deliver \/ Fail)

=============================================================================
