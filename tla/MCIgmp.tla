------------------------------- MODULE MCIgmp -------------------------------
(* Igmp on small instances.  In units of 5 s the Window is 1, a querier that *)
(* follows the recommended 30 s has period 6, the fallback is 52, the margin *)
(* 2.  IgmpNetwork shortens the period to 2 and the fallback to twice that.  *)
EXTENDS Igmp, TLC

MCMemberships == {<<"host", "group">>}

QuerierSymmetry == Permutations(Queriers)
=============================================================================
