-------------------------- MODULE MC_TurnCapQuery --------------------------
(* TurnCapQuery with three objects and a page of two: enough for a second   *)
(* page to exist and for the TurnCap to sit on either page.                 *)
EXTENDS TurnCapQuery, TLC

CONSTANTS o1, o2, o3

MC_Objects == {o1, o2, o3}
=============================================================================
