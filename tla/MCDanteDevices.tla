--------------------------- MODULE MCDanteDevices ---------------------------
(* DanteDevices on small instances.  In units of 5 s the code has a Window   *)
(* of 1, streams pruned at 4 and ConMon devices at 12; both are shortened,   *)
(* down to the 2 that PruneAssumption asks for.  Of the control planes only  *)
(* those of the addresses that talk are heard.                               *)
EXTENDS DanteDevices

TalkersClassed == \A ip \in Ips \ Talkers : class'[ip] \notin Classes

MCSpec == Init /\ [][Next /\ TalkersClassed]_vars /\ WF_vars(Tick) /\ WF_vars(CloseWindow)
=============================================================================
