---------------------------- MODULE MCScanTriggers ----------------------------
(***************************************************************************)
(* Two admin requests and two ticks of the task.                           *)
(***************************************************************************)
EXTENDS ScanTriggers

CONSTANTS a1, a2, t1, t2
TwoRequests == {a1, a2}
TwoTicks == {t1, t2}
=============================================================================
