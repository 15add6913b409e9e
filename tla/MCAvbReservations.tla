------------------------- MODULE MCAvbReservations -------------------------
(* AvbReservations on small instances.  In units of 5 s the Window is 1, a   *)
(* stream is pruned at 4 (2 here) and the grace of an AVDECC entity is 2.    *)
EXTENDS AvbReservations, TLC

\* Priorities are only compared.
PrioritySymmetry == Permutations(Priorities)
=============================================================================
