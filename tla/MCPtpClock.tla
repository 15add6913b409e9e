----------------------------- MODULE MCPtpClock -----------------------------
(* PtpClock with a PTPv1 and a PTPv2 entry of which one is ever heard: the   *)
(* entries share nothing but the clock on the wall, so a step of one leaves  *)
(* the other as it is.  The timeout, the pruning age and the cap of the ages *)
(* keep the order they have in the code (5 s < 15 s).                        *)
EXTENDS PtpClock

OneHeard == Cardinality({k \in Keys : domains'[k].seen}) <= 1

MCSpec ==
    /\ Init /\ [][Next /\ OneHeard]_vars
    /\ WF_vars(Tick) /\ WF_vars(CloseWindow)
=============================================================================
