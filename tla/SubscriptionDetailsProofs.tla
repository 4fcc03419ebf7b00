----------------------- MODULE SubscriptionDetailsProofs -----------------------
(***************************************************************************)
(* Proofs about SubscriptionDetails, for every value of the constants.     *)
(*                                                                         *)
(* SingleUncancelInFlight is not inductive: a click is guarded only by the *)
(* memoised `action`, so the proof needs to know that the memo's loading   *)
(* flag is the mutation's isPending whenever the memo offers Uncancel, and *)
(* that only the most recent click can still be in flight.                 *)
(***************************************************************************)
EXTENDS SubscriptionDetails, TLAPS

\* Only the most recent Uncancel click can have an unsettled mutation.
OnlyLatestInFlight ==
    \A i \in Slots : req[i] \in InFlight => i = nreq

\* Slots after the most recent click are unused.
UnusedAfterLatest ==
    \A i \in Slots : i > nreq => req[i] = "idle"

\* The memo's loading flag is isPending whenever the memo offers Uncancel.
LoadingIsPending ==
    action.label = "Uncancel" => action.loading = Pending

IInv ==
    /\ TypeOK
    /\ OnlyLatestInFlight
    /\ UnusedAfterLatest
    /\ LoadingIsPending

\* The safety part of the uncancel tracker specification.
UncancelSafety ==
    Uncancels!UncancelInit /\ [][Uncancels!UncancelNext]_(Uncancels!uvars)

-----------------------------------------------------------------------------
(* Lemmas about the memo.                                                  *)

\* Every memo value is an action record.
LEMMA ResolveType ==
    ASSUME NEW s, NEW t, NEW p \in BOOLEAN
    PROVE  ResolvePrimaryAction(s, t, p) \in [label: Labels, loading: BOOLEAN]
BY DEF ResolvePrimaryAction, Labels

\* A memo that offers Uncancel carries the pending flag it was computed with.
LEMMA ResolveLoading ==
    ASSUME NEW s, NEW t, NEW p \in BOOLEAN,
           ResolvePrimaryAction(s, t, p).label = "Uncancel"
    PROVE  ResolvePrimaryAction(s, t, p).loading = p
BY DEF ResolvePrimaryAction

-----------------------------------------------------------------------------
(* The inductive invariant.                                                *)

LEMMA InitIInv == Init => IInv
<1> SUFFICES ASSUME Init PROVE IInv
  OBVIOUS
<1>1. ResolvePrimaryAction(sub, 0, FALSE) \in [label: Labels, loading: BOOLEAN]
  BY ResolveType
<1>2. TypeOK
  <2>1. sub \in Subscriptions
    BY ConstantsAssumption DEF Init, Subscriptions, Times
  <2>2. req \in [Slots -> Phases]
    BY DEF Init, Phases
  <2>3. nreq \in 0..MaxClicks /\ now \in 0..MaxTime
    BY ConstantsAssumption DEF Init
  <2>4. QED
    BY <2>1, <2>2, <2>3, <1>1 DEF Init, TypeOK
<1>3. ~Pending
  BY DEF Init, Pending, Slots, InFlight
<1>4. LoadingIsPending
  <2>1. SUFFICES ASSUME action.label = "Uncancel" PROVE action.loading = Pending
    BY DEF LoadingIsPending
  <2>2. action.loading = FALSE
    BY <2>1, ResolveLoading DEF Init
  <2>3. QED
    BY <2>2, <1>3 DEF Pending
<1>5. QED
  BY <1>2, <1>4 DEF Init, IInv, OnlyLatestInFlight, UnusedAfterLatest, InFlight

\* A step that re-renders with isPending p leaves a memo whose loading flag
\* is isPending after the step, provided p is that value.
LEMMA RerenderLoading ==
    ASSUME NEW s, NEW p \in BOOLEAN, Rerender(s, p), p = Pending'
    PROVE  LoadingIsPending'
BY ResolveLoading DEF Rerender, LoadingIsPending

\* isPending is unchanged by a step that keeps nreq and the latest slot's
\* membership in InFlight.
LEMMA PendingUnchanged ==
    ASSUME nreq' = nreq,
           nreq \in Slots => (req'[nreq] \in InFlight <=> req[nreq] \in InFlight)
    PROVE  Pending' = Pending
BY DEF Pending

LEMMA NextIInv == IInv /\ [Next]_vars => IInv'
<1> SUFFICES ASSUME IInv, [Next]_vars PROVE IInv'
  OBVIOUS
<1> USE ConstantsAssumption
<1>a. TypeOK
  BY DEF IInv
<1>b. Pending \in BOOLEAN
  BY DEF Pending
<1>c. /\ OnlyLatestInFlight
      /\ UnusedAfterLatest
      /\ LoadingIsPending
  BY DEF IInv
<1>1. CASE ClickUncancel
  <2>1. nreq + 1 \in Slots /\ nreq' = nreq + 1
    BY <1>1, <1>a DEF ClickUncancel, TypeOK, Slots
  <2>2. ~Pending
    BY <1>1, <1>c DEF ClickUncancel, LoadingIsPending
  <2>3. \A i \in Slots : req[i] \notin InFlight
    BY <2>2, <1>c DEF OnlyLatestInFlight, Pending
  <2>4. Pending'
    BY <1>1, <2>1, <1>a DEF ClickUncancel, Pending, InFlight, TypeOK
  <2>5. TypeOK'
    <3>1. action' \in [label: Labels, loading: BOOLEAN]
      BY <1>1, ResolveType DEF ClickUncancel, Rerender
    <3>2. req' \in [Slots -> Phases]
      BY <1>1, <2>1, <1>a DEF ClickUncancel, TypeOK, Phases
    <3>3. QED
      BY <1>1, <2>1, <3>1, <3>2, <1>a DEF ClickUncancel, TypeOK, Slots
  <2>6. OnlyLatestInFlight'
    BY <1>1, <2>1, <2>3, <1>a DEF ClickUncancel, OnlyLatestInFlight, TypeOK
  <2>7. UnusedAfterLatest'
    BY <1>1, <2>1, <1>c, <1>a DEF ClickUncancel, UnusedAfterLatest, TypeOK, Slots
  <2>8. LoadingIsPending'
    BY <1>1, <2>4, RerenderLoading DEF ClickUncancel
  <2>9. QED
    BY <2>5, <2>6, <2>7, <2>8 DEF IInv
<1>2. ASSUME NEW i \in Slots, ServerUncancel(i) PROVE IInv'
  <2>1. i = nreq
    BY <1>2, <1>c DEF ServerUncancel, OnlyLatestInFlight, InFlight
  <2>2. req' \in [Slots -> Phases] /\ req'[i] \in InFlight
    BY <1>2, <1>a DEF ServerUncancel, TypeOK, Phases, InFlight
  <2>3. Pending' = Pending
    BY <1>2, <2>1, <2>2, PendingUnchanged DEF ServerUncancel, InFlight
  <2>4. sub' \in Subscriptions
    BY <1>2, <1>a DEF ServerUncancel, TypeOK, Subscriptions
  <2>5. TypeOK'
    BY <1>2, <2>2, <2>4, <1>a DEF ServerUncancel, TypeOK
  <2>6. OnlyLatestInFlight' /\ UnusedAfterLatest'
    BY <1>2, <2>1, <1>c, <1>a DEF ServerUncancel, OnlyLatestInFlight,
       UnusedAfterLatest, TypeOK
  <2>7. LoadingIsPending'
    BY <1>2, <2>3, <1>c DEF ServerUncancel, LoadingIsPending
  <2>8. QED
    BY <2>5, <2>6, <2>7 DEF IInv
<1>3. ASSUME NEW i \in Slots,
             \/ UncancelSucceeded(i)
             \/ UncancelFailed(i)
      PROVE  IInv'
  <2>1. req[i] \in InFlight
    BY <1>3 DEF UncancelSucceeded, UncancelFailed, InFlight
  <2>2. i = nreq
    BY <2>1, <1>c DEF OnlyLatestInFlight
  <2>3. /\ \E ph \in {"revalidating", "failed"} : req' = [req EXCEPT ![i] = ph]
        /\ action' = ResolvePrimaryAction(snap, now, FALSE)
        /\ UNCHANGED <<sub, snap, now, nreq, showChangePlan, showCancel>>
    BY <1>3, <2>2 DEF UncancelSucceeded, UncancelFailed, Rerender
  <2>4. ~Pending'
    BY <2>2, <2>3, <1>a DEF Pending, InFlight, TypeOK
  <2>5. TypeOK'
    BY <2>3, <1>a, ResolveType DEF TypeOK, Phases
  <2>6. OnlyLatestInFlight' /\ UnusedAfterLatest'
    BY <2>2, <2>3, <1>c, <1>a DEF OnlyLatestInFlight, UnusedAfterLatest,
       TypeOK, InFlight
  <2>7. FALSE = Pending'
    BY <2>4 DEF Pending
  <2>8. LoadingIsPending'
    BY <2>3, <2>7, RerenderLoading DEF Rerender
  <2>9. QED
    BY <2>5, <2>6, <2>8 DEF IInv
<1>4. ASSUME NEW i \in Slots, RevalidateDone(i) PROVE IInv'
  <2>1. req' \in [Slots -> Phases] /\ req[i] \notin InFlight /\ req'[i] \notin InFlight
    BY <1>4, <1>a DEF RevalidateDone, TypeOK, Phases, InFlight
  <2>2. Pending' = Pending
    BY <1>4, <2>1, PendingUnchanged DEF RevalidateDone
  <2>3. TypeOK'
    BY <1>4, <2>1, <1>b, <1>a, ResolveType DEF RevalidateDone, Rerender, TypeOK
  <2>4. OnlyLatestInFlight' /\ UnusedAfterLatest'
    BY <1>4, <1>c, <1>a DEF RevalidateDone, OnlyLatestInFlight,
       UnusedAfterLatest, TypeOK, InFlight
  <2>5. LoadingIsPending'
    BY <1>4, <2>2, <1>b, RerenderLoading DEF RevalidateDone
  <2>6. QED
    BY <2>3, <2>4, <2>5 DEF IInv
<1>5. CASE \/ OpenChangePlan \/ HideChangePlan \/ PlanChanged
           \/ OpenCancel \/ HideCancel \/ CancelConfirmed
  <2>1. /\ UNCHANGED <<req, nreq, now>>
        /\ sub' \in Subscriptions /\ snap' \in Subscriptions
        /\ showChangePlan' \in BOOLEAN /\ showCancel' \in BOOLEAN
        /\ \E s : Rerender(s, Pending)
    <3>1. CASE OpenChangePlan \/ HideChangePlan \/ OpenCancel \/ HideCancel
      <4>1. UNCHANGED <<sub, snap, req, nreq, now>> /\ Rerender(snap, Pending)
        BY <3>1 DEF OpenChangePlan, HideChangePlan, OpenCancel, HideCancel
      <4>2. showChangePlan' \in BOOLEAN /\ showCancel' \in BOOLEAN
        BY <3>1, <1>a DEF OpenChangePlan, HideChangePlan, OpenCancel,
           HideCancel, TypeOK
      <4>3. QED
        BY <4>1, <4>2, <1>a DEF TypeOK
    <3>2. CASE PlanChanged
      BY <3>2, <1>a DEF PlanChanged, TypeOK
    <3>3. CASE CancelConfirmed
      <4>1. sub' = [sub EXCEPT !.cape = TRUE] /\ snap' = sub'
            /\ Rerender(sub', Pending)
        BY <3>3 DEF CancelConfirmed
      <4>2. sub' \in Subscriptions
        BY <4>1, <1>a DEF TypeOK, Subscriptions
      <4>3. QED
        BY <3>3, <4>1, <4>2, <1>a DEF CancelConfirmed, TypeOK
    <3>4. QED
      BY <1>5, <3>1, <3>2, <3>3
  <2>2. Pending' = Pending
    BY <2>1, PendingUnchanged
  <2>3. TypeOK'
    BY <2>1, <1>a, <1>b, ResolveType DEF Rerender, TypeOK
  <2>4. LoadingIsPending'
    BY <2>1, <2>2, <1>b, RerenderLoading
  <2>5. QED
    BY <2>1, <2>3, <2>4, <1>c DEF IInv, OnlyLatestInFlight, UnusedAfterLatest
<1>6. CASE PeriodEnds \/ Tick
  <2>1. UNCHANGED <<snap, action, req, nreq, showChangePlan, showCancel>>
    BY <1>6 DEF PeriodEnds, Tick
  <2>2. sub' \in Subscriptions /\ now' \in 0..MaxTime
    BY <1>6, <1>a DEF PeriodEnds, Tick, TypeOK, Subscriptions, Times
  <2>3. QED
    BY <2>1, <2>2, <1>a, <1>c DEF IInv, TypeOK, OnlyLatestInFlight,
       UnusedAfterLatest, LoadingIsPending, Pending
<1>7. CASE UNCHANGED vars
  BY <1>7, <1>a, <1>c DEF vars, IInv, TypeOK, OnlyLatestInFlight,
     UnusedAfterLatest, LoadingIsPending, Pending
<1>9. QED
  BY <1>1, <1>2, <1>3, <1>4, <1>5, <1>6, <1>7 DEF Next

-----------------------------------------------------------------------------
(* No Uncancel for an ended subscription.                                  *)
(*                                                                         *)
(* NoUncancelForEndedSubscription is not inductive either: it holds        *)
(* because the server ends a subscription only once its period is over,    *)
(* and because the memo on screen was computed, from the snapshot on       *)
(* screen and with the current isPending, at an instant no earlier than    *)
(* that snapshot was fetched.                                              *)

\* The server ends a subscription only once its current period is over.
SubEndsAfterPeriod ==
    sub.status = "canceled" => sub.periodEnd <= now

\* The memo on screen is the memo of the snapshot on screen, with the
\* current isPending, at some instant t that is not in the future and by
\* which the snapshot's subscription, if it has ended, had reached the end
\* of its period.  Only the clock can make the memo stale.
RenderedFromSnapshot ==
    \E t \in 0..now :
        /\ action = ResolvePrimaryAction(snap, t, Pending)
        /\ snap.status = "canceled" => snap.periodEnd <= t

RInv == SubEndsAfterPeriod /\ RenderedFromSnapshot

\* Spec section 8: the memo offers Uncancel exactly when the subscription
\* is in the canceled view, set to cancel at period end, and its period
\* ends after the evaluation time.
LEMMA ResolveUncancelIff ==
    ASSUME NEW s, NEW t, NEW p
    PROVE  ResolvePrimaryAction(s, t, p).label = "Uncancel"
               <=> IsCanceled(s) /\ s.cape /\ s.periodEnd > t
BY DEF ResolvePrimaryAction

\* The memo depends on isPending only through its truth value.
LEMMA ResolveSameFlag ==
    ASSUME NEW s, NEW t, NEW p \in BOOLEAN, NEW q \in BOOLEAN, p <=> q
    PROVE  ResolvePrimaryAction(s, t, p) = ResolvePrimaryAction(s, t, q)
BY DEF ResolvePrimaryAction

\* Spec section 8: Change Plan is offered only outside the canceled view,
\* so Change Plan and Uncancel exclude each other.
LEMMA ResolveChangePlan ==
    ASSUME NEW s, NEW t, NEW p,
           ResolvePrimaryAction(s, t, p).label = "ChangePlan"
    PROVE  AllowCustomerUpdates /\ ~IsCanceled(s)
BY DEF ResolvePrimaryAction

\* A memo computed now, from a snapshot whose subscription, if ended, is
\* past its period, with the isPending after the step, is RenderedFromSnapshot.
LEMMA RenderedNow ==
    ASSUME NEW p \in BOOLEAN, now' \in Nat,
           action' = ResolvePrimaryAction(snap', now', p), p <=> Pending',
           snap'.status = "canceled" => snap'.periodEnd <= now'
    PROVE  RenderedFromSnapshot'
<1>1. Pending' \in BOOLEAN
  BY DEF Pending
<1>2. action' = ResolvePrimaryAction(snap', now', Pending')
  BY <1>1, ResolveSameFlag
<1>3. now' \in 0..now'
  OBVIOUS
<1>4. QED
  BY <1>2, <1>3 DEF RenderedFromSnapshot

\* A snapshot on screen that shows its subscription ended shows it past
\* its period.
LEMMA SnapEnded ==
    ASSUME TypeOK, RenderedFromSnapshot
    PROVE  snap.status = "canceled" => snap.periodEnd <= now
<1>1. PICK t \in 0..now :
          snap.status = "canceled" => snap.periodEnd <= t
  BY DEF RenderedFromSnapshot
<1>2. QED
  BY <1>1 DEF TypeOK, Subscriptions, Times

\* A step that keeps the snapshot, the memo and isPending, and does not
\* turn the clock back, keeps RenderedFromSnapshot.
LEMMA KeepRendered ==
    ASSUME RenderedFromSnapshot, UNCHANGED <<snap, action>>,
           Pending' = Pending, now \in Nat, now' \in Nat, now <= now'
    PROVE  RenderedFromSnapshot'
<1>1. PICK t \in 0..now :
          /\ action = ResolvePrimaryAction(snap, t, Pending)
          /\ snap.status = "canceled" => snap.periodEnd <= t
  BY DEF RenderedFromSnapshot
<1>2. t \in 0..now'
  BY <1>1
<1>3. Pending \in BOOLEAN /\ Pending' \in BOOLEAN
  BY DEF Pending
<1>4. action' = ResolvePrimaryAction(snap', t, Pending')
  BY <1>1, <1>3, ResolveSameFlag
<1>5. QED
  BY <1>1, <1>2, <1>4 DEF RenderedFromSnapshot

LEMMA InitRInv == Init => RInv
<1> SUFFICES ASSUME Init PROVE RInv
  OBVIOUS
<1>1. ~Pending
  BY DEF Init, Pending, Slots
<1>2. 0 \in 0..now /\ action = ResolvePrimaryAction(snap, 0, Pending)
  <2>1. now = 0
    BY <1>1 DEF Init
  <2>2. action = ResolvePrimaryAction(snap, 0, FALSE)
    BY DEF Init
  <2>3. Pending \in BOOLEAN /\ (Pending <=> FALSE)
    BY <1>1 DEF Pending
  <2>4. ResolvePrimaryAction(snap, 0, Pending) = ResolvePrimaryAction(snap, 0, FALSE)
    BY <2>3, ResolveSameFlag
  <2>5. 0 \in 0..now
    BY <2>1
  <2>6. QED
    BY <2>5, <2>2, <2>4
<1>3. RenderedFromSnapshot
  BY <1>2 DEF Init, RenderedFromSnapshot
<1>4. QED
  BY <1>3 DEF Init, RInv, SubEndsAfterPeriod

LEMMA NextRInv == IInv /\ IInv' /\ RInv /\ [Next]_vars => RInv'
<1> SUFFICES ASSUME IInv, IInv', RInv, [Next]_vars PROVE RInv'
  OBVIOUS
<1> USE ConstantsAssumption
<1>a. TypeOK /\ TypeOK'
  BY DEF IInv
<1>b. OnlyLatestInFlight
  BY DEF IInv
<1>c. RenderedFromSnapshot /\ SubEndsAfterPeriod
  BY DEF RInv
<1>d. snap.status = "canceled" => snap.periodEnd <= now
  BY <1>a, <1>c, SnapEnded
<1>e. now \in Nat /\ now' \in Nat
  BY <1>a DEF TypeOK
<1>1. CASE ClickUncancel
  <2>1. nreq + 1 \in Slots /\ nreq' = nreq + 1 /\ req'[nreq + 1] = "sent"
    BY <1>1, <1>a DEF ClickUncancel, TypeOK, Slots
  <2>2. Pending'
    BY <2>1 DEF Pending, InFlight
  <2>3. action' = ResolvePrimaryAction(snap', now', TRUE) /\ UNCHANGED <<sub, snap, now>>
    BY <1>1 DEF ClickUncancel, Rerender
  <2>4. SubEndsAfterPeriod'
    BY <2>3, <1>c DEF SubEndsAfterPeriod
  <2>5. RenderedFromSnapshot'
    BY <2>2, <2>3, <1>d, <1>e, RenderedNow
  <2>6. QED
    BY <2>4, <2>5 DEF RInv
<1>2. ASSUME NEW i \in Slots, ServerUncancel(i) PROVE RInv'
  <2>1. i = nreq /\ req'[i] \in InFlight /\ UNCHANGED <<snap, action, now, nreq>>
    BY <1>2, <1>a, <1>b DEF ServerUncancel, OnlyLatestInFlight, InFlight, TypeOK
  <2>2. Pending' = Pending
    BY <1>2, <2>1, PendingUnchanged DEF ServerUncancel, InFlight
  <2>3. sub'.status = sub.status /\ sub'.periodEnd = sub.periodEnd
    BY <1>2, <1>a DEF ServerUncancel, TypeOK, Subscriptions
  <2>4. SubEndsAfterPeriod'
    BY <2>1, <2>3, <1>c DEF SubEndsAfterPeriod
  <2>5. RenderedFromSnapshot'
    BY <2>1, <2>2, <1>c, <1>e, KeepRendered
  <2>6. QED
    BY <2>4, <2>5 DEF RInv
<1>3. ASSUME NEW i \in Slots,
             \/ UncancelSucceeded(i)
             \/ UncancelFailed(i)
      PROVE  RInv'
  <2>1. i = nreq
    BY <1>3, <1>b DEF UncancelSucceeded, UncancelFailed, OnlyLatestInFlight, InFlight
  <2>2. /\ \E ph \in {"revalidating", "failed"} : req' = [req EXCEPT ![i] = ph]
        /\ action' = ResolvePrimaryAction(snap', now', FALSE)
        /\ UNCHANGED <<sub, snap, now, nreq>>
    BY <1>3, <2>1 DEF UncancelSucceeded, UncancelFailed, Rerender
  <2>3. ~Pending'
    BY <2>1, <2>2, <1>a DEF Pending, InFlight, TypeOK
  <2>4. SubEndsAfterPeriod'
    BY <2>2, <1>c DEF SubEndsAfterPeriod
  <2>5. RenderedFromSnapshot'
    BY <2>2, <2>3, <1>d, <1>e, RenderedNow
  <2>6. QED
    BY <2>4, <2>5 DEF RInv
<1>4. ASSUME NEW i \in Slots, RevalidateDone(i) PROVE RInv'
  <2>1. req[i] \notin InFlight /\ req'[i] \notin InFlight
        /\ req' = [req EXCEPT ![i] = "done"] /\ UNCHANGED <<sub, now, nreq>>
    BY <1>4 DEF RevalidateDone, InFlight
  <2>2. Pending' = Pending
    BY <2>1, <1>a, PendingUnchanged DEF TypeOK
  <2>3. snap' = sub /\ action' = ResolvePrimaryAction(snap', now', Pending)
    BY <1>4 DEF RevalidateDone, Rerender
  <2>4. SubEndsAfterPeriod'
    BY <2>1, <1>c DEF SubEndsAfterPeriod
  <2>5. snap'.status = "canceled" => snap'.periodEnd <= now'
    BY <2>1, <2>3, <1>c DEF SubEndsAfterPeriod
  <2>6. Pending \in BOOLEAN
    BY DEF Pending
  <2>7. RenderedFromSnapshot'
    BY <2>2, <2>3, <2>5, <2>6, <1>e, RenderedNow
  <2>8. QED
    BY <2>4, <2>7 DEF RInv
<1>5. CASE OpenChangePlan \/ HideChangePlan \/ OpenCancel \/ HideCancel
  <2>1. UNCHANGED <<sub, snap, req, nreq, now>> /\ Rerender(snap, Pending)
    BY <1>5 DEF OpenChangePlan, HideChangePlan, OpenCancel, HideCancel
  <2>2. Pending' = Pending /\ Pending \in BOOLEAN
    BY <2>1 DEF Pending
  <2>3. action' = ResolvePrimaryAction(snap', now', Pending)
    BY <2>1 DEF Rerender
  <2>4. RenderedFromSnapshot'
    BY <2>1, <2>2, <2>3, <1>d, <1>e, RenderedNow
  <2>5. QED
    BY <2>1, <2>4, <1>c DEF RInv, SubEndsAfterPeriod
<1>6. CASE PlanChanged \/ CancelConfirmed
  <2>1. /\ UNCHANGED <<req, nreq, now>>
        /\ snap' = sub' /\ sub'.status = "active"
        /\ action' = ResolvePrimaryAction(snap', now', Pending)
    <3>1. CASE PlanChanged
      BY <3>1 DEF PlanChanged, Rerender
    <3>2. CASE CancelConfirmed
      BY <3>2, <1>a DEF CancelConfirmed, Rerender, TypeOK, Subscriptions
    <3>3. QED
      BY <1>6, <3>1, <3>2
  <2>2. Pending' = Pending /\ Pending \in BOOLEAN
    BY <2>1 DEF Pending
  <2>3. RenderedFromSnapshot'
    BY <2>1, <2>2, <1>e, RenderedNow
  <2>4. QED
    BY <2>1, <2>3 DEF RInv, SubEndsAfterPeriod
<1>7. CASE PeriodEnds
  <2>1. UNCHANGED <<snap, action, now, req, nreq>>
    BY <1>7 DEF PeriodEnds
  <2>2. sub'.status = "canceled" => sub'.periodEnd <= now'
    BY <1>7, <1>a, <2>1 DEF PeriodEnds, TypeOK, Subscriptions
  <2>3. Pending' = Pending
    BY <2>1 DEF Pending
  <2>4. RenderedFromSnapshot'
    BY <2>1, <2>3, <1>c, <1>e, KeepRendered
  <2>5. QED
    BY <2>2, <2>4 DEF RInv, SubEndsAfterPeriod
<1>8. CASE Tick
  <2>1. UNCHANGED <<sub, snap, action, req, nreq>> /\ now' = now + 1
    BY <1>8 DEF Tick
  <2>2. Pending' = Pending
    BY <2>1 DEF Pending
  <2>3. SubEndsAfterPeriod'
    BY <2>1, <1>a, <1>c, <1>e DEF SubEndsAfterPeriod, TypeOK, Subscriptions, Times
  <2>4. RenderedFromSnapshot'
    BY <2>1, <2>2, <1>c, <1>e, KeepRendered
  <2>5. QED
    BY <2>3, <2>4 DEF RInv
<1>9. CASE UNCHANGED vars
  <2>1. UNCHANGED <<sub, snap, action, now, req, nreq>>
    BY <1>9 DEF vars
  <2>2. Pending' = Pending
    BY <2>1 DEF Pending
  <2>3. RenderedFromSnapshot'
    BY <2>1, <2>2, <1>c, <1>e, KeepRendered
  <2>4. QED
    BY <2>1, <2>3, <1>c DEF RInv, SubEndsAfterPeriod
<1>10. QED
  BY <1>1, <1>2, <1>3, <1>4, <1>5, <1>6, <1>7, <1>8, <1>9 DEF Next

-----------------------------------------------------------------------------
(* The refinement of the uncancel tracker, step by step.                   *)

LEMMA UncancelInitRefines == Init => Uncancels!UncancelInit
<1> SUFFICES ASSUME Init PROVE Uncancels!UncancelInit
  OBVIOUS
<1>1. ~Pending
  BY DEF Init, Pending, Slots
<1>2. QED
  BY <1>1 DEF Init, Uncancels!UncancelInit, UncancelSlot

\* While the latest mutation i is in flight, the slot is its phase.
LEMMA SlotOfLatest ==
    ASSUME NEW i \in Slots, i = nreq, req[i] \in InFlight
    PROVE  UncancelSlot = IF req[i] = "sent" THEN "sent" ELSE "answered"
BY DEF UncancelSlot, Pending

\* A step that leaves no mutation in flight frees the slot.
LEMMA SlotFreed ==
    ASSUME nreq' \in 0..MaxClicks, \A j \in Slots : req'[j] \notin InFlight
    PROVE  UncancelSlot' = "free"
BY DEF UncancelSlot, Pending

LEMMA UncancelNextRefines ==
    IInv /\ IInv' /\ [Next]_vars => [Uncancels!UncancelNext]_(Uncancels!uvars)
<1> SUFFICES ASSUME IInv, IInv', [Next]_vars
             PROVE  [Uncancels!UncancelNext]_(Uncancels!uvars)
  OBVIOUS
<1> USE ConstantsAssumption
<1>a. TypeOK /\ TypeOK'
  BY DEF IInv
<1>c. /\ OnlyLatestInFlight /\ LoadingIsPending /\ OnlyLatestInFlight'
  BY DEF IInv
<1>1. CASE ClickUncancel
  <2>1. nreq + 1 \in Slots /\ nreq' = nreq + 1 /\ req'[nreq + 1] = "sent"
    BY <1>1, <1>a DEF ClickUncancel, TypeOK, Slots
  <2>2. ~Pending
    BY <1>1, <1>c DEF ClickUncancel, LoadingIsPending
  <2>3. UncancelSlot = "free"
    BY <2>2 DEF UncancelSlot
  <2>4. UncancelSlot' = "sent"
    BY <2>1 DEF UncancelSlot, Pending, InFlight
  <2>5. Uncancels!Request
    BY <1>1, <2>3, <2>4 DEF ClickUncancel, Uncancels!Request
  <2>6. QED
    BY <2>5 DEF Uncancels!UncancelNext
<1>2. ASSUME NEW i \in Slots, ServerUncancel(i)
      PROVE  Uncancels!Serve
  <2>1. req[i] = "sent" /\ i = nreq
    BY <1>2, <1>c DEF ServerUncancel, OnlyLatestInFlight, InFlight
  <2>2. UncancelSlot = "sent"
    BY <2>1, SlotOfLatest DEF InFlight
  <2>3. req'[i] \in {"ok", "err"} /\ nreq' = nreq
    BY <1>2, <1>a DEF ServerUncancel, TypeOK
  <2>4. UncancelSlot' = "answered"
    BY <2>1, <2>3 DEF UncancelSlot, Pending, InFlight
  <2>5. sub' = IF sub.status = "active" THEN [sub EXCEPT !.cape = FALSE] ELSE sub
    BY <1>2 DEF ServerUncancel
  <2>6. QED
    BY <2>2, <2>4, <2>5 DEF Uncancels!Serve
<1>3. ASSUME NEW i \in Slots, UncancelSucceeded(i) \/ UncancelFailed(i)
      PROVE  Uncancels!Settle
  <2>1. req[i] \in InFlight /\ i = nreq
    BY <1>3, <1>c DEF UncancelSucceeded, UncancelFailed, OnlyLatestInFlight, InFlight
  <2>2. UncancelSlot \in {"sent", "answered"}
    BY <2>1, SlotOfLatest
  <2>3. req'[i] \notin InFlight /\ nreq' = nreq
    BY <1>3, <1>a DEF UncancelSucceeded, UncancelFailed, TypeOK, InFlight
  <2>4. \A j \in Slots : req'[j] \notin InFlight
    BY <2>1, <2>3, <1>c DEF OnlyLatestInFlight
  <2>5. UncancelSlot' = "free"
    BY <2>4, <1>a, SlotFreed DEF TypeOK
  <2>6. QED
    BY <1>3, <2>2, <2>5 DEF UncancelSucceeded, UncancelFailed, Uncancels!Settle
<1>4. ASSUME NEW i \in Slots, RevalidateDone(i)
      PROVE  UNCHANGED Uncancels!uvars
  <2>1. req[i] = "revalidating" /\ req' = [req EXCEPT ![i] = "done"]
        /\ UNCHANGED <<sub, nreq>>
    BY <1>4 DEF RevalidateDone
  <2>2. Pending => nreq # i /\ req'[nreq] = req[nreq]
    BY <2>1, <1>a DEF Pending, InFlight, TypeOK
  <2>3. ~Pending => ~Pending'
    BY <2>1, <1>a DEF Pending, InFlight, TypeOK
  <2>4. UncancelSlot' = UncancelSlot
    BY <2>1, <2>2, <2>3 DEF UncancelSlot, Pending
  <2>5. QED
    BY <2>1, <2>4 DEF Uncancels!uvars
<1>5. CASE OpenChangePlan \/ HideChangePlan \/ PlanChanged
           \/ OpenCancel \/ HideCancel \/ Tick
  <2>1. UNCHANGED <<sub, req, nreq>>
    BY <1>5 DEF OpenChangePlan, HideChangePlan, PlanChanged, OpenCancel,
       HideCancel, Tick
  <2>2. QED
    BY <2>1 DEF Uncancels!uvars, UncancelSlot, Pending
<1>6. CASE CancelConfirmed
  <2>1. UNCHANGED <<req, nreq>>
    BY <1>6 DEF CancelConfirmed
  <2>2. Uncancels!Cancel
    BY <1>6, <2>1 DEF CancelConfirmed, Uncancels!Cancel, UncancelSlot, Pending
  <2>3. QED
    BY <2>2 DEF Uncancels!UncancelNext
<1>7. CASE PeriodEnds
  <2>1. Uncancels!PeriodEnds
    BY <1>7 DEF PeriodEnds, Uncancels!PeriodEnds, UncancelSlot, Pending
  <2>2. QED
    BY <2>1 DEF Uncancels!UncancelNext
<1>8. CASE UNCHANGED vars
  BY <1>8 DEF vars, Uncancels!uvars, UncancelSlot, Pending
<1>9. QED
  BY <1>1, <1>2, <1>3, <1>4, <1>5, <1>6, <1>7, <1>8
     DEF Next, Uncancels!UncancelNext

-----------------------------------------------------------------------------
(* Theorems.                                                               *)

\* The inductive invariant holds in every reachable state.
THEOREM IInvHolds == Spec => []IInv
BY InitIInv, NextIInv, PTL DEF Spec

\* Every variable of the card and of the server stays in its type.
THEOREM TypeCorrect == Spec => []TypeOK
<1>1. IInv => TypeOK
  BY DEF IInv
<1>2. QED
  BY IInvHolds, <1>1, PTL

\* However the clicks, the server's answers, the transport failures, the
\* revalidations, the modals, the clock and the billing periods interleave,
\* the card never has two uncancel mutations in flight at once.
THEOREM SingleUncancelInFlightHolds == Spec => []SingleUncancelInFlight
<1>1. IInv => SingleUncancelInFlight
  BY DEF IInv, OnlyLatestInFlight, SingleUncancelInFlight
<1>2. QED
  BY IInvHolds, <1>1, PTL

\* The card and the backend implement the safety part of the spec's
\* single-slot uncancel tracker: a click issues a request only when none is
\* pending, the server handles the pending request once, a settling
\* mutation frees the slot, and every other step is the customer's
\* cancellation, the end of a period, or leaves the tracker unchanged.
THEOREM ImplementsUncancelTrackerSafety == Spec => UncancelSafety
<1>1. Init => Uncancels!UncancelInit
  BY UncancelInitRefines
<1>2. IInv /\ IInv' /\ [Next]_vars => [Uncancels!UncancelNext]_(Uncancels!uvars)
  BY UncancelNextRefines
<1>3. QED
  BY <1>1, <1>2, IInvHolds, PTL DEF Spec, UncancelSafety

\* Whatever the order of clicks, answers, revalidations, modal changes,
\* clock ticks and period ends, the card never offers Uncancel for a
\* snapshot that shows the subscription ended (the primaryAction memo's
\* isCanceled / cancel_at_period_end / current_period_end test).
THEOREM NoUncancelForEndedSubscriptionHolds ==
    Spec => []NoUncancelForEndedSubscription
<1>1. Init => IInv /\ RInv
  BY InitIInv, InitRInv
<1>2. IInv /\ RInv /\ [Next]_vars => IInv' /\ RInv'
  BY NextIInv, NextRInv
<1>3. IInv /\ RInv => NoUncancelForEndedSubscription
  <2> SUFFICES ASSUME IInv, RInv, action.label = "Uncancel"
               PROVE  snap.status = "active"
    BY DEF NoUncancelForEndedSubscription
  <2>1. PICK t \in 0..now :
            /\ action = ResolvePrimaryAction(snap, t, Pending)
            /\ snap.status = "canceled" => snap.periodEnd <= t
    BY DEF RInv, RenderedFromSnapshot
  <2>2. ResolvePrimaryAction(snap, t, Pending).label = "Uncancel"
    BY <2>1
  <2>3. snap.periodEnd > t
    BY <2>2, ResolveUncancelIff
  <2>4. snap \in Subscriptions /\ now \in Nat
    BY DEF IInv, TypeOK
  <2>5. QED
    BY <2>1, <2>3, <2>4 DEF Subscriptions, Times
<1>4. QED
  BY <1>1, <1>2, <1>3, PTL DEF Spec

=============================================================================
