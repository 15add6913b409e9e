------------------------------ MODULE MCNdiTcp ------------------------------
(* NdiTcp with a camera and a viewer, one direction of their connection, on  *)
(* ports outside the NDI range, and the host of the capture.  Window 1       *)
(* stands for 5 s, Prune 2 for 20 s.                                         *)
EXTENDS NdiTcp

MCHosts == {"camera", "viewer", "self"}
MCFlows == {[src |-> "camera", dst |-> "viewer", ndi |-> FALSE]}
=============================================================================
