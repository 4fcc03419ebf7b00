---------------------------- MODULE PortalOrderProofs ----------------------------
(***************************************************************************)
(* Proofs about PortalOrder, for every set of orders and every number of   *)
(* clicks: at most one invoice request is in flight, and every step of the *)
(* order card is a step (or a stutter) of the single-slot tracker.         *)
(*                                                                         *)
(* The Download button is guarded by isPending, which looks at the latest  *)
(* click only, so the invariant needs the fact that no earlier click can   *)
(* still be in flight.                                                     *)
(***************************************************************************)
EXTENDS PortalOrder, TLAPS

\* Only the most recent Download click can have an unsettled mutation.
OnlyLatestInFlight ==
    \A i \in Slots : req[i].phase \in InFlight => i = nreq

IInv == TypeOK /\ OnlyLatestInFlight

\* The safety part of the tracker specification.
TrackerSafety == Tracker!TrackerInit /\ [][Tracker!TrackerNext]_(Tracker!tvars)

-----------------------------------------------------------------------------

LEMMA InitIInv == Init => IInv
<1> SUFFICES ASSUME Init PROVE IInv
  OBVIOUS
<1>1. req \in [Slots -> [order: Orders, phase: Phases]]
  BY DEF Init, Phases
<1>2. \A i \in Slots : req[i].phase = "idle"
  BY DEF Init
<1>3. grants \in [Orders -> GrantData] /\ nreq \in 0..MaxClicks
  BY ConstantsAssumption DEF Init, GrantData
<1>4. TypeOK
  BY <1>1, <1>3 DEF Init, TypeOK
<1>5. OnlyLatestInFlight
  BY <1>2 DEF OnlyLatestInFlight, InFlight
<1>6. QED
  BY <1>4, <1>5 DEF IInv

\* A step that settles the latest click's mutation, or moves it from "sent"
\* to "answered", keeps every other slot as it was.
LEMMA SettleShape ==
    ASSUME TypeOK, NEW i \in Slots, NEW ph \in Phases,
           req' = [req EXCEPT ![i].phase = ph]
    PROVE  /\ req' \in [Slots -> [order: Orders, phase: Phases]]
           /\ req'[i].order = req[i].order
           /\ req'[i].phase = ph
           /\ \A j \in Slots \ {i} : req'[j] = req[j]
BY DEF TypeOK

LEMMA NextIInv == IInv /\ [Next]_vars => IInv'
<1> SUFFICES ASSUME IInv, [Next]_vars PROVE IInv'
  OBVIOUS
<1> USE ConstantsAssumption
<1>a. TypeOK /\ OnlyLatestInFlight
  BY DEF IInv
<1>1. CASE ClickDownload
  <2>1. nreq + 1 \in Slots /\ nreq' = nreq + 1
    BY <1>1, <1>a DEF ClickDownload, TypeOK, Slots
  <2>2. \A i \in Slots : req[i].phase \notin InFlight
    BY <1>1, <1>a DEF ClickDownload, Pending, OnlyLatestInFlight
  <2>3. TypeOK'
    BY <1>1, <2>1, <1>a DEF ClickDownload, TypeOK, Phases
  <2>4. OnlyLatestInFlight'
    BY <1>1, <2>1, <2>2, <1>a DEF ClickDownload, OnlyLatestInFlight, TypeOK
  <2>5. QED
    BY <2>3, <2>4 DEF IInv
<1>2. ASSUME NEW i \in Slots,
             \/ ServerInvoice(i)
             \/ InvoiceOpened(i)
             \/ InvoiceFailed(i)
      PROVE  IInv'
  <2>1. PICK ph \in {"answered", "opened", "failed"} :
               /\ req' = [req EXCEPT ![i].phase = ph]
               /\ opened' \subseteq opened \cup {<<i, req[i].order>>}
               /\ UNCHANGED <<order, grants, nreq>>
    BY <1>2 DEF ServerInvoice, InvoiceOpened, InvoiceFailed
  <2>2. /\ req' \in [Slots -> [order: Orders, phase: Phases]]
        /\ req'[i].order = req[i].order
        /\ \A j \in Slots \ {i} : req'[j] = req[j]
    BY <2>1, <1>a, SettleShape DEF Phases
  <2>3. req[i].phase \in InFlight
    BY <1>2 DEF ServerInvoice, InvoiceOpened, InvoiceFailed, InFlight
  <2>4. i = nreq
    BY <2>3, <1>a DEF OnlyLatestInFlight
  <2>5. TypeOK'
    BY <2>1, <2>2, <1>a DEF TypeOK
  <2>6. OnlyLatestInFlight'
    BY <2>1, <2>2, <2>4, <1>a DEF OnlyLatestInFlight
  <2>7. QED
    BY <2>5, <2>6 DEF IInv
<1>3. CASE GrantsFetched \/ ShowOrder
  <2>1. UNCHANGED <<req, nreq, opened>> /\ order' \in Orders
        /\ grants' \in [Orders -> GrantData]
    BY <1>3, <1>a DEF GrantsFetched, ShowOrder, TypeOK, GrantData
  <2>2. QED
    BY <2>1, <1>a DEF IInv, TypeOK, OnlyLatestInFlight
<1>4. CASE UNCHANGED vars
  BY <1>4, <1>a DEF vars, IInv, TypeOK, OnlyLatestInFlight
<1>5. QED
  BY <1>1, <1>2, <1>3, <1>4 DEF Next

-----------------------------------------------------------------------------
(* The refinement, step by step.                                           *)

LEMMA InitRefines == Init => Tracker!TrackerInit
<1> SUFFICES ASSUME Init PROVE Tracker!TrackerInit
  OBVIOUS
<1>1. ~Pending
  BY DEF Init, Pending, Slots
<1>2. QED
  BY <1>1 DEF Init, Tracker!TrackerInit, PendingOrder, OpenedOrders

LEMMA NextRefines ==
    IInv /\ IInv' /\ [Next]_vars => [Tracker!TrackerNext]_(Tracker!tvars)
<1> SUFFICES ASSUME IInv, IInv', [Next]_vars
             PROVE  [Tracker!TrackerNext]_(Tracker!tvars)
  OBVIOUS
<1> USE ConstantsAssumption
<1>a. TypeOK /\ OnlyLatestInFlight /\ TypeOK' /\ OnlyLatestInFlight'
  BY DEF IInv
<1>1. CASE ClickDownload
  <2>1. nreq + 1 \in Slots /\ nreq' = nreq + 1
    BY <1>1, <1>a DEF ClickDownload, TypeOK, Slots
  <2>2. PendingOrder = {}
    BY <1>1 DEF ClickDownload, PendingOrder
  <2>3. PendingOrder' = {order}
    BY <1>1, <2>1, <1>a DEF ClickDownload, PendingOrder, Pending, InFlight, TypeOK
  <2>4. OpenedOrders' = OpenedOrders
    BY <1>1 DEF ClickDownload, OpenedOrders
  <2>5. Tracker!Request
    BY <1>1, <2>2, <2>3, <2>4 DEF ClickDownload, Tracker!Request
  <2>6. QED
    BY <2>5 DEF Tracker!TrackerNext
<1>2. ASSUME NEW i \in Slots, ServerInvoice(i)
      PROVE  UNCHANGED Tracker!tvars
  <2>1. i = nreq /\ nreq \in Slots
    BY <1>2, <1>a DEF ServerInvoice, OnlyLatestInFlight, InFlight
  <2>2. req'[i].order = req[i].order /\ req[i].phase \in InFlight
        /\ req'[i].phase \in InFlight
    BY <1>2, <1>a, SettleShape DEF ServerInvoice, InFlight, Phases
  <2>3. PendingOrder' = PendingOrder
    BY <1>2, <2>1, <2>2 DEF ServerInvoice, PendingOrder, Pending
  <2>4. QED
    BY <1>2, <2>3 DEF ServerInvoice, Tracker!tvars, OpenedOrders
<1>3. ASSUME NEW i \in Slots, InvoiceOpened(i) \/ InvoiceFailed(i)
      PROVE  Tracker!Deliver \/ Tracker!Fail
  <2>1. i = nreq /\ nreq \in Slots
    BY <1>3, <1>a DEF InvoiceOpened, InvoiceFailed, OnlyLatestInFlight, InFlight
  <2>2. PendingOrder = {req[i].order}
    BY <1>3, <2>1 DEF InvoiceOpened, InvoiceFailed, PendingOrder, Pending, InFlight
  <2>3. PendingOrder' = {}
    <3>1. req'[i].phase \notin InFlight
      BY <1>3, <1>a, SettleShape DEF InvoiceOpened, InvoiceFailed, InFlight, Phases
    <3>2. QED
      BY <1>3, <2>1, <3>1 DEF InvoiceOpened, InvoiceFailed, PendingOrder, Pending
  <2>4. CASE InvoiceOpened(i)
    <3>1. OpenedOrders' = OpenedOrders \cup PendingOrder
      <4>1. opened' = opened \cup {<<i, req[i].order>>}
        BY <2>4 DEF InvoiceOpened
      <4>2. OpenedOrders' = OpenedOrders \cup {req[i].order}
        <5>1. <<i, req[i].order>>[2] = req[i].order
          OBVIOUS
        <5>2. \A y : y \in OpenedOrders' <=> y \in OpenedOrders \cup {req[i].order}
          BY <4>1, <5>1 DEF OpenedOrders
        <5>3. QED
          BY <5>2
      <4>3. QED
        BY <4>2, <2>2
    <3>2. QED
      BY <2>4, <2>2, <2>3, <3>1 DEF InvoiceOpened, Tracker!Deliver
  <2>5. CASE InvoiceFailed(i)
    BY <2>5, <2>2, <2>3 DEF InvoiceFailed, Tracker!Fail, OpenedOrders
  <2>6. QED
    BY <1>3, <2>4, <2>5
<1>4. CASE GrantsFetched
  BY <1>4 DEF GrantsFetched, Tracker!tvars, PendingOrder, Pending, OpenedOrders
<1>5. CASE ShowOrder
  <2>1. PendingOrder' = PendingOrder /\ OpenedOrders' = OpenedOrders
    BY <1>5 DEF ShowOrder, PendingOrder, Pending, OpenedOrders
  <2>2. Tracker!SwitchOrder
    BY <1>5, <2>1 DEF ShowOrder, Tracker!SwitchOrder
  <2>3. QED
    BY <2>2 DEF Tracker!TrackerNext
<1>6. CASE UNCHANGED vars
  BY <1>6 DEF vars, Tracker!tvars, PendingOrder, Pending, OpenedOrders
<1>7. QED
  BY <1>1, <1>2, <1>3, <1>4, <1>5, <1>6 DEF Next, Tracker!TrackerNext

-----------------------------------------------------------------------------
(* Theorems.                                                               *)

\* The inductive invariant holds in every reachable state.
THEOREM PortalIInvHolds == Spec => []IInv
BY InitIInv, NextIInv, PTL DEF Spec

\* However clicks, server answers, transport failures, grant fetches and
\* order changes interleave, the order card never has two invoice requests
\* in flight: the button's isPending guard suffices although it looks at
\* the latest click only.
THEOREM SingleInvoiceRequestInFlightHolds == Spec => []SingleInvoiceRequestInFlight
<1>1. IInv => SingleInvoiceRequestInFlight
  BY DEF IInv, OnlyLatestInFlight, SingleInvoiceRequestInFlight
<1>2. QED
  BY PortalIInvHolds, <1>1, PTL

\* The order card implements the safety part of the spec's single-slot
\* tracker: every click, answer, failure, grant fetch and order change is a
\* tracker step or leaves the tracker's state unchanged.
THEOREM ImplementsTrackerSafety == Spec => TrackerSafety
<1>1. Init => Tracker!TrackerInit
  BY InitRefines
<1>2. IInv /\ IInv' /\ [Next]_vars => [Tracker!TrackerNext]_(Tracker!tvars)
  BY NextRefines
<1>3. QED
  BY <1>1, <1>2, PortalIInvHolds, PTL DEF Spec, TrackerSafety

=============================================================================
