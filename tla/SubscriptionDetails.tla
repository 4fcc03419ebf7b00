------------------------- MODULE SubscriptionDetails -------------------------
(***************************************************************************)
(* The customer portal's subscription card (CustomerSubscriptionDetails)   *)
(* together with the part of the backend it talks to.                      *)
(*                                                                         *)
(* The card receives the subscription snapshot `snap` as a prop and        *)
(* memoises its primary action (Change Plan / Uncancel / none) at render   *)
(* time.  Clicking Uncancel starts an asynchronous handler: the uncancel   *)
(* mutation, then `revalidate('customer_portal')`, after which the page is *)
(* re-rendered with a fresh snapshot.  The backend subscription `sub`      *)
(* moves on its own: at the end of a period it either renews or, when      *)
(* cancel_at_period_end is set, ends.  One clock `now` is shared by the    *)
(* browser and the server.                                                 *)
(***************************************************************************)
EXTENDS Naturals

CONSTANTS
    MaxTime,               \* last instant of the bounded clock
    Period,                \* length of one billing period
    MaxClicks,             \* number of Uncancel clicks (request slots) explored
    AllowCustomerUpdates,  \* organization.subscription_settings.allow_customer_updates
    HasOrganization        \* whether subscription.product.organization is present

ASSUME ConstantsAssumption ==
    /\ MaxTime \in Nat \ {0}
    /\ Period \in Nat \ {0}
    /\ MaxClicks \in Nat \ {0}
    /\ AllowCustomerUpdates \in BOOLEAN
    /\ HasOrganization \in BOOLEAN

VARIABLES
    sub,             \* the backend's subscription
    snap,            \* the `subscription` prop: the last snapshot fetched
    now,             \* wall clock
    action,          \* the memoised primaryAction of the last render
    req,             \* req[i]: progress of the onClick handler of the i-th Uncancel click
    nreq,            \* number of Uncancel clicks so far
    showChangePlan,  \* showChangePlanModal
    showCancel       \* showCancelModal

vars == <<sub, snap, now, action, req, nreq, showChangePlan, showCancel>>

Slots == 1..MaxClicks

Times == 0..(MaxTime + Period)

Subscriptions ==
    [status: {"active", "canceled"}, cape: BOOLEAN, periodEnd: Times, org: BOOLEAN]

Labels == {"ChangePlan", "Uncancel", "None"}

(***************************************************************************)
(* Phases of one Uncancel handler (lines 65-68):                           *)
(*   "sent"         mutateAsync issued, the request travels to the server  *)
(*   "ok" / "err"   the server has answered, the answer travels back       *)
(*   "revalidating" mutateAsync resolved, awaiting revalidate()            *)
(*   "done"         revalidate() resolved, the page holds a fresh snapshot *)
(*   "failed"       mutateAsync rejected; the handler stops there          *)
(***************************************************************************)
Phases == {"idle", "sent", "ok", "err", "revalidating", "done", "failed"}

InFlight == {"sent", "ok", "err"}

\* useMutation's isPending describes the most recent mutate call only.
Pending == nreq \in Slots /\ req[nreq] \in InFlight

\* The parent's isCanceled prop: status canceled or cancel_at_period_end.
IsCanceled(s) == s.status = "canceled" \/ s.cape

\* Faulty variant: the memo tests only that current_period_end is set.
ResolvePrimaryActionIgnoringPeriodEnd(s, t, p) ==
    IF AllowCustomerUpdates /\ ~IsCanceled(s)
    THEN [label |-> "ChangePlan", loading |-> FALSE]
    ELSE IF IsCanceled(s) /\ s.cape
         THEN [label |-> "Uncancel", loading |-> p]
         ELSE [label |-> "None", loading |-> FALSE]

\* The body of the primaryAction useMemo, evaluated against clock t and
\* the mutation's pending flag p.
ResolvePrimaryAction(s, t, p) ==
    IF AllowCustomerUpdates /\ ~IsCanceled(s)
    THEN [label |-> "ChangePlan", loading |-> FALSE]
    ELSE IF IsCanceled(s) /\ s.cape /\ s.periodEnd > t
         THEN [label |-> "Uncancel", loading |-> p]
         ELSE [label |-> "None", loading |-> FALSE]

\* What the card renders.  The primaryAction memo reads
\* organization.subscription_settings before the `if (!organization)
\* return null` guard runs, so a missing organization throws.
CardOutcome(s) == IF s.org THEN "card" ELSE "error"

\* Re-rendering the card recomputes the memo: every dependency is
\* re-created by a render (the useMutation result is a fresh object).
Rerender(s, p) == action' = ResolvePrimaryAction(s, now, p)


TypeOK ==
    /\ sub \in Subscriptions
    /\ snap \in Subscriptions
    /\ now \in 0..MaxTime
    /\ action \in [label: Labels, loading: BOOLEAN]
    /\ req \in [Slots -> Phases]
    /\ nreq \in 0..MaxClicks
    /\ showChangePlan \in BOOLEAN
    /\ showCancel \in BOOLEAN

Init ==
    /\ sub \in [status: {"active"}, cape: BOOLEAN, periodEnd: 1..Period,
               org: {HasOrganization}]
    /\ snap = sub
    /\ now = 0
    /\ action = ResolvePrimaryAction(sub, 0, FALSE)
    /\ req = [i \in Slots |-> "idle"]
    /\ nreq = 0
    /\ showChangePlan = FALSE
    /\ showCancel = FALSE

-----------------------------------------------------------------------------
(* Browser: the card's controls.                                           *)

\* Faulty variant: the button ignores its loading flag.
ClickUncancelIgnoringLoading ==
    /\ CardOutcome(snap) = "card"
    /\ action.label = "Uncancel"
    /\ nreq < MaxClicks
    /\ nreq' = nreq + 1
    /\ req' = [req EXCEPT ![nreq + 1] = "sent"]
    /\ Rerender(snap, TRUE)
    /\ UNCHANGED <<sub, snap, now, showChangePlan, showCancel>>

\* Clicking the enabled Uncancel button: mutateAsync({id}) is called and
\* the mutation turns pending, which re-renders the card.  A loading
\* Button is disabled.
ClickUncancel ==
    /\ CardOutcome(snap) = "card"
    /\ action.label = "Uncancel"
    /\ ~action.loading
    /\ nreq < MaxClicks
    /\ nreq' = nreq + 1
    /\ req' = [req EXCEPT ![nreq + 1] = "sent"]
    /\ Rerender(snap, TRUE)
    /\ UNCHANGED <<sub, snap, now, showChangePlan, showCancel>>

\* The mutation settles with success: mutateAsync resolves and the handler
\* goes on to await revalidate().  Only the latest mutation re-renders.
UncancelSucceeded(i) ==
    /\ req[i] = "ok"
    /\ req' = [req EXCEPT ![i] = "revalidating"]
    /\ IF i = nreq THEN Rerender(snap, FALSE) ELSE UNCHANGED action
    /\ UNCHANGED <<sub, snap, now, nreq, showChangePlan, showCancel>>

\* Faulty variant: a failed mutation is sent again (a mutation retry).
UncancelRetried(i) ==
    /\ req[i] \in InFlight
    /\ req' = [req EXCEPT ![i] = "sent"]
    /\ IF i = nreq THEN Rerender(snap, TRUE) ELSE UNCHANGED action
    /\ UNCHANGED <<sub, snap, now, nreq, showChangePlan, showCancel>>

\* The mutation settles with an error: a server rejection, or a transport
\* failure before or after the server applied the request.  mutateAsync
\* rejects, so revalidate() is never called.
UncancelFailed(i) ==
    /\ req[i] \in InFlight
    /\ req' = [req EXCEPT ![i] = "failed"]
    /\ IF i = nreq THEN Rerender(snap, FALSE) ELSE UNCHANGED action
    /\ UNCHANGED <<sub, snap, now, nreq, showChangePlan, showCancel>>

\* revalidate('customer_portal') resolves: the route is rendered again with
\* the subscription as the server holds it now.
RevalidateDone(i) ==
    /\ req[i] = "revalidating"
    /\ req' = [req EXCEPT ![i] = "done"]
    /\ snap' = sub
    /\ Rerender(sub, Pending)
    /\ UNCHANGED <<sub, now, nreq, showChangePlan, showCancel>>

\* The Change Plan button opens the change-plan modal.
OpenChangePlan ==
    /\ CardOutcome(snap) = "card"
    /\ action.label = "ChangePlan"
    /\ ~showChangePlan
    /\ showChangePlan' = TRUE
    /\ Rerender(snap, Pending)
    /\ UNCHANGED <<sub, snap, now, req, nreq, showCancel>>

\* The change-plan modal is dismissed.
HideChangePlan ==
    /\ CardOutcome(snap) = "card"
    /\ showChangePlan
    /\ showChangePlan' = FALSE
    /\ Rerender(snap, Pending)
    /\ UNCHANGED <<sub, snap, now, req, nreq, showCancel>>

\* The modal's plan change succeeds and onUserSubscriptionUpdate hands the
\* parent the updated subscription; the modal closes.
PlanChanged ==
    /\ showChangePlan
    /\ sub.status = "active"
    /\ snap' = sub
    /\ showChangePlan' = FALSE
    /\ Rerender(sub, Pending)
    /\ UNCHANGED <<sub, now, req, nreq, showCancel>>

\* Unsubscribe is shown whenever the card is not canceled; it opens the
\* cancellation modal.
OpenCancel ==
    /\ CardOutcome(snap) = "card"
    /\ ~IsCanceled(snap)
    /\ ~showCancel
    /\ showCancel' = TRUE
    /\ Rerender(snap, Pending)
    /\ UNCHANGED <<sub, snap, now, req, nreq, showChangePlan>>

\* The cancellation modal is dismissed.
HideCancel ==
    /\ CardOutcome(snap) = "card"
    /\ showCancel
    /\ showCancel' = FALSE
    /\ Rerender(snap, Pending)
    /\ UNCHANGED <<sub, snap, now, req, nreq, showChangePlan>>

\* The cancellation modal's cancelSubscription succeeds: the server sets
\* cancel_at_period_end and the parent receives the updated subscription.
CancelConfirmed ==
    /\ showCancel
    /\ sub.status = "active"
    /\ sub' = [sub EXCEPT !.cape = TRUE]
    /\ snap' = sub'
    /\ showCancel' = FALSE
    /\ Rerender(sub', Pending)
    /\ UNCHANGED <<now, req, nreq, showChangePlan>>

-----------------------------------------------------------------------------
(* Server and environment.                                                 *)

\* The server handles an uncancel request.  Uncancelling a subscription
\* that is still active succeeds (a no-op when nothing is pending); an
\* ended subscription is rejected.
ServerUncancel(i) ==
    /\ req[i] = "sent"
    /\ IF sub.status = "active"
       THEN /\ sub' = [sub EXCEPT !.cape = FALSE]
            /\ req' = [req EXCEPT ![i] = "ok"]
       ELSE /\ req' = [req EXCEPT ![i] = "err"]
            /\ UNCHANGED sub
    /\ UNCHANGED <<snap, now, action, nreq, showChangePlan, showCancel>>

\* The period boundary passes on the server: a subscription set to cancel
\* at period end ends, any other renews for one more period.
PeriodEnds ==
    /\ sub.status = "active"
    /\ now >= sub.periodEnd
    /\ sub' = IF sub.cape
              THEN [sub EXCEPT !.status = "canceled"]
              ELSE [sub EXCEPT !.periodEnd = sub.periodEnd + Period]
    /\ UNCHANGED <<snap, now, action, req, nreq, showChangePlan, showCancel>>

\* Time passes.  Nothing re-renders the card when it does.
Tick ==
    /\ now < MaxTime
    /\ now' = now + 1
    /\ UNCHANGED <<sub, snap, action, req, nreq, showChangePlan, showCancel>>

Next ==
    \/ ClickUncancel
    \/ \E i \in Slots :
          \/ ServerUncancel(i)
          \/ UncancelSucceeded(i)
          \/ UncancelFailed(i)
          \/ RevalidateDone(i)
    \/ OpenChangePlan \/ HideChangePlan \/ PlanChanged
    \/ OpenCancel \/ HideCancel \/ CancelConfirmed
    \/ PeriodEnds
    \/ Tick

(***************************************************************************)
(* Fairness: the network answers and promises resolve, so an issued        *)
(* request is eventually handled, a mutation the server rejected rejects,  *)
(* and a settled mutation's handler runs on.  A transport failure is never *)
(* forced.  Users, the clock and the billing cycle get no fairness.        *)
(***************************************************************************)
Fairness ==
    \A i \in Slots :
        /\ WF_vars(ServerUncancel(i))
        /\ WF_vars(UncancelSucceeded(i))
        /\ WF_vars(req[i] = "err" /\ UncancelFailed(i))
        /\ WF_vars(RevalidateDone(i))

Spec == Init /\ [][Next]_vars /\ Fairness

-----------------------------------------------------------------------------
(* Properties.                                                             *)

\* At most one uncancel mutation of the card is in flight at any time
\* (spec section 5): the Uncancel button, which is shown while the mutation
\* is pending, must be disabled by its loading flag until it settles.
SingleUncancelInFlight ==
    \A i, j \in Slots : req[i] \in InFlight /\ req[j] \in InFlight => i = j

\* Spec section 5: at most one mutating action per subscription is in
\* flight at a time, enforced by disabling the triggering control while it
\* is pending.  So the cancellation modal never confirms a cancellation
\* while an uncancel mutation of the card is still pending; otherwise the
\* late uncancel clears the cancellation the customer has just confirmed.
OneMutationInFlight ==
    [][CancelConfirmed => \A i \in Slots : req[i] \notin InFlight]_vars

\* Spec section 3 and scenario C: no action applies to a subscription that
\* has ended.  The memo's isCanceled also holds for an ended subscription,
\* which keeps cancel_at_period_end set, so the card never offers Uncancel
\* for a snapshot showing it ended only because the subscription ends no
\* earlier than current_period_end and the memo was computed after the
\* snapshot was fetched.
NoUncancelForEndedSubscription ==
    action.label = "Uncancel" => snap.status = "active"

\* Spec section 4.1: while a successful uncancel's refresh is still
\* outstanding, the card must not offer an enabled Uncancel again.
NoReofferBeforeRefresh ==
    (\E i \in Slots : req[i] = "revalidating")
        => ~(action.label = "Uncancel" /\ ~action.loading)

\* Spec section 8: Uncancel is offered only while the snapshot's
\* current_period_end is after the present time, so no uncancel request is
\* ever issued for a period the card's own snapshot shows as over.
UncancelIssuedBeforePeriodEnd ==
    [][ClickUncancel => snap.periodEnd > now]_vars

\* Spec section 7: a subscription without an organization renders nothing
\* rather than crashing.
MissingOrganizationRendersNothing ==
    ~snap.org => CardOutcome(snap) = "null"

-----------------------------------------------------------------------------
(* Refinement of the single-slot uncancel tracker.                         *)

\* The tracker's slot: the latest mutation while isPending, split by
\* whether the server has handled it.
UncancelSlot ==
    IF ~Pending THEN "free"
    ELSE IF req[nreq] = "sent" THEN "sent" ELSE "answered"

Uncancels == INSTANCE UncancelTracker WITH slot <- UncancelSlot

\* Spec sections 4.1, 5 and 9: the card and the backend implement the
\* single-slot tracker.  An uncancel is issued only while none is pending,
\* the server applies each one at most once, every pending mutation
\* settles, and the server's subscription changes otherwise only by the
\* customer's cancellation and the billing cycle.
ImplementsUncancelTracker == Uncancels!UncancelSpec

=============================================================================
