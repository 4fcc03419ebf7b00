------------------------------ MODULE AccountLinks ------------------------------
(***************************************************************************)
(* The payout accounts table (AccountsList / AccountListItem).  Each row   *)
(* offers "Continue setup" while the account is neither active nor under   *)
(* review (disabled when actions are paused) and "Open dashboard" once it  *)
(* is active.  Both handlers POST for a link, await it, and assign it to   *)
(* window.location.href; the page then unloads.  Nothing guards a second   *)
(* click while a request is outstanding, and the parent may re-render the  *)
(* rows with other statuses or pause actions at any time.                  *)
(***************************************************************************)
EXTENDS Naturals

CONSTANTS
    Accounts,        \* account ids of the listed accounts
    AccountStatuses, \* account statuses the backend reports
    MaxClicks        \* number of button clicks explored

ASSUME ConstantsAssumption ==
    /\ Accounts # {}
    /\ {"active", "under_review"} \subseteq AccountStatuses
    /\ MaxClicks \in Nat \ {0}

VARIABLES
    shown,      \* shown[a]: account.status in the row's props
    pauseProp,  \* the pauseActions prop: true, false or not passed
    req,        \* req[i]: the i-th click: account, link kind and phase
    nreq,       \* number of clicks so far
    location,   \* the URL last assigned to window.location.href: {link} or {}
    page        \* "list" while the table is loaded, "left" once unloaded

vars == <<shown, pauseProp, req, nreq, location, page>>

Slots == 1..MaxClicks

LinkKinds == {"onboarding", "dashboard"}

\* An issued link: the account and the endpoint it came from.
Links == [account: Accounts, kind: LinkKinds]

(* Phases of one handler: "sent" while the POST is outstanding, "issued"   *)
(* when it answered with a link, "redirected" after the href assignment,   *)
(* "failed" when unwrap throws.                                            *)
Phases == {"idle", "sent", "issued", "redirected", "failed"}

Clicks == [account: Accounts, kind: LinkKinds, phase: Phases]

\* Values of the optional boolean prop pauseActions.
PauseValues == {"true", "false", "undefined"}

\* pauseActions = pauseActions === true
Paused == pauseProp = "true"

IsActive(a) == shown[a] = "active"

IsUnderReview(a) == shown[a] = "under_review"

Init ==
    /\ shown \in [Accounts -> AccountStatuses]
    /\ pauseProp \in PauseValues
    /\ req = [i \in Slots |-> CHOOSE c \in Clicks : c.phase = "idle"]
    /\ nreq = 0
    /\ location = {}
    /\ page = "list"

-----------------------------------------------------------------------------

\* A click on a rendered button of row a starts its handler.
Click(a, kind) ==
    /\ page = "list"
    /\ nreq < MaxClicks
    /\ nreq' = nreq + 1
    /\ req' = [req EXCEPT ![nreq + 1] =
                 [account |-> a, kind |-> kind, phase |-> "sent"]]
    /\ UNCHANGED <<shown, pauseProp, location, page>>

\* "Continue setup": rendered when the account is neither active nor under
\* review, disabled while actions are paused; goToOnboarding.
ContinueSetup(a) ==
    /\ ~IsActive(a) /\ ~IsUnderReview(a)
    /\ ~Paused
    /\ Click(a, "onboarding")

\* "Open dashboard": rendered when the account is active, never disabled;
\* goToDashboard.
OpenDashboard(a) ==
    /\ IsActive(a)
    /\ Click(a, "dashboard")

\* The backend answers the POST: a link, or an error that unwrap throws
\* (the rejection is unhandled and the handler stops).
LinkAnswered(i) ==
    /\ req[i].phase = "sent"
    /\ \E ph \in {"issued", "failed"} : req' = [req EXCEPT ![i].phase = ph]
    /\ UNCHANGED <<shown, pauseProp, nreq, location, page>>

\* Faulty variant: the continuation never assigns the link.
RedirectDropped(i) ==
    /\ req[i].phase = "issued"
    /\ page = "list"
    /\ req' = [req EXCEPT ![i].phase = "redirected"]
    /\ UNCHANGED <<shown, pauseProp, nreq, location, page>>

\* window.location.href = link.url, run when the awaited POST resolves, as
\* long as the page has not unloaded.  A later assignment replaces the
\* pending navigation.
Redirect(i) ==
    /\ req[i].phase = "issued"
    /\ page = "list"
    /\ req' = [req EXCEPT ![i].phase = "redirected"]
    /\ location' = {[account |-> req[i].account, kind |-> req[i].kind]}
    /\ UNCHANGED <<shown, pauseProp, nreq, page>>

\* The browser carries out the pending navigation and the table unloads.
Unload ==
    /\ page = "list"
    /\ location # {}
    /\ page' = "left"
    /\ UNCHANGED <<shown, pauseProp, req, nreq, location>>

\* The parent re-renders the table: an account's status changed.
StatusChanged(a) ==
    /\ page = "list"
    /\ \E st \in AccountStatuses \ {shown[a]} : shown' = [shown EXCEPT ![a] = st]
    /\ UNCHANGED <<pauseProp, req, nreq, location, page>>

\* The parent re-renders the table with another pauseActions value.
PauseChanged ==
    /\ page = "list"
    /\ \E p \in PauseValues \ {pauseProp} : pauseProp' = p
    /\ UNCHANGED <<shown, req, nreq, location, page>>

Next ==
    \/ \E a \in Accounts : ContinueSetup(a) \/ OpenDashboard(a) \/ StatusChanged(a)
    \/ \E i \in Slots : LinkAnswered(i) \/ Redirect(i)
    \/ Unload
    \/ PauseChanged

(***************************************************************************)
(* Fairness: the backend answers every POST, a resolved promise runs its   *)
(* continuation, and the browser carries out an assigned navigation.      *)
(***************************************************************************)
Fairness ==
    /\ \A i \in Slots : WF_vars(LinkAnswered(i)) /\ WF_vars(Redirect(i))
    /\ WF_vars(Unload)

Spec == Init /\ [][Next]_vars /\ Fairness

-----------------------------------------------------------------------------
(* Properties.                                                             *)

\* Every click on Continue setup or Open dashboard ends with the browser
\* leaving the table, or with its request failing: an issued link is never
\* lost, even when several handlers race for window.location.href.
EveryLinkClickSettles ==
    \A i \in Slots :
        (req[i].phase = "sent") ~> (page = "left" \/ req[i].phase = "failed")

=============================================================================
