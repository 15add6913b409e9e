-------------------------- MODULE MCCaptureWindow --------------------------
(* CaptureWindow on small instances.  In units of 2.5 s: a Window of 2, a   *)
(* live report at most 1 late, streams dead after 4 and pruned at 8, clocks *)
(* lost after 2; the silence of a querier is shortened to 3.                *)
EXTENDS CaptureWindow
=============================================================================
