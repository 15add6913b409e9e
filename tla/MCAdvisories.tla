---------------------------- MODULE MCAdvisories ----------------------------
(* Advisories with one of its questions at a time: the census reads nothing  *)
(* of the flows, the count of the streams nothing of the devices, and the    *)
(* rest of the clocks only whether there has been PTP.  So a behaviour has   *)
(* PTPv1 clocks, or a crowd of flows, or a device and a flow.  Units of 5 s; *)
(* the pruning ages keep their relation to the Window.                       *)
EXTENDS Advisories, TLC

NoClocks  == \A ip \in Ips : followers'[ip] = FollowerGone
NoDevices == sources' = {}
NoMedia   == mediaAge' = MediaCap /\ named' = {}
NoConmon  == \A ip \in Ips : conmon'[ip] = ConmonGone

OnlyClocks == NoMedia /\ NoConmon /\ ~queried'
OnlyFlows  == NoClocks /\ NoDevices /\ ~ptp' /\ ~queried'
OneOfEach  == NoClocks /\ Cardinality(sources') <= 1 /\ Cardinality(Present(flows')) <= 1

MCSpec == Init /\ [][Next /\ (OnlyClocks \/ OnlyFlows \/ OneOfEach)]_vars

Alike == Permutations(Flows)
=============================================================================
