--------------------------- MODULE MC_PortalOrder ---------------------------
(* Model-checking instance of PortalOrder: two orders, so the prop can     *)
(* change under an outstanding request, and two clicks, so a second click  *)
(* can race the first.                                                     *)
EXTENDS PortalOrder

CONSTANTS o1, o2

MC_Orders == {o1, o2}
MC_MaxClicks == 2
=============================================================================
