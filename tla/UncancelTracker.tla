----------------------------- MODULE UncancelTracker -----------------------------
(***************************************************************************)
(* What the subscription card and the backend promise about Uncancel,      *)
(* after spec sections 4.1, 5 and 9: a single-slot pending-request tracker *)
(* over the server's subscription.  A request is issued only when the slot *)
(* is free; the server handles it at most once (clearing                   *)
(* cancel_at_period_end of a subscription that is still active); the slot  *)
(* is freed when the mutation settles, whether or not the server handled   *)
(* it.  Independently, the customer may cancel at period end again, and    *)
(* billing periods end.                                                    *)
(***************************************************************************)
EXTENDS Naturals

CONSTANTS Period

VARIABLES
    sub,   \* the server's subscription
    slot   \* "free", "sent" (not yet handled) or "answered" (handled)

uvars == <<sub, slot>>

UncancelInit ==
    /\ sub.status = "active"
    /\ slot = "free"

\* An uncancel mutation is issued, only while none is pending.
Request ==
    /\ slot = "free"
    /\ slot' = "sent"
    /\ UNCHANGED sub

\* The server handles the pending request, once.
Serve ==
    /\ slot = "sent"
    /\ slot' = "answered"
    /\ sub' = IF sub.status = "active" THEN [sub EXCEPT !.cape = FALSE] ELSE sub

\* The pending mutation settles (resolves or rejects) and the slot is freed.
Settle ==
    /\ slot \in {"sent", "answered"}
    /\ slot' = "free"
    /\ UNCHANGED sub

\* The customer schedules a cancellation at period end.
Cancel ==
    /\ sub.status = "active"
    /\ sub' = [sub EXCEPT !.cape = TRUE]
    /\ UNCHANGED slot

\* A billing period ends: the subscription ends or renews.
PeriodEnds ==
    /\ sub.status = "active"
    /\ sub' = IF sub.cape
              THEN [sub EXCEPT !.status = "canceled"]
              ELSE [sub EXCEPT !.periodEnd = sub.periodEnd + Period]
    /\ UNCHANGED slot

UncancelNext == Request \/ Serve \/ Settle \/ Cancel \/ PeriodEnds

\* A pending request is handled, and a pending mutation settles.
UncancelSpec ==
    UncancelInit /\ [][UncancelNext]_uvars /\ WF_uvars(Serve) /\ WF_uvars(Settle)

=============================================================================
