--------------------------- MODULE MC_AccountLinks ---------------------------
(* Model-checking instance of AccountLinks: two accounts, so that handlers *)
(* of two rows race for window.location.href, three statuses, so that     *)
(* each button and neither occur, and two clicks.                         *)
EXTENDS AccountLinks

CONSTANTS a1, a2

MC_Accounts == {a1, a2}
MC_AccountStatuses == {"onboarding_started", "under_review", "active"}
MC_MaxClicks == 2
=============================================================================
