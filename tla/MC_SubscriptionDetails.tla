----------------------- MODULE MC_SubscriptionDetails -----------------------
(* Model-checking instance of SubscriptionDetails: a clock of three        *)
(* instants and two-instant periods, so a period can end and renew inside  *)
(* the run, and two Uncancel clicks, so a second click can race the first. *)
EXTENDS SubscriptionDetails

MC_MaxTime == 3
MC_Period == 2
MC_MaxClicks == 2
=============================================================================
