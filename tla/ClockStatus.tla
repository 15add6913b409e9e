----------------------------- MODULE ClockStatus -----------------------------
(***************************************************************************)
(* What PtpState promises of the clock of each domain: the life of         *)
(* ClockLife, in which every change between present and lost, and every    *)
(* change of a grandmaster that is present, is announced in the same step. *)
(* The alerts of a Window rest on this.  PtpClock implements it.           *)
(***************************************************************************)
EXTENDS ClockLife

VARIABLES
    alerts     \* what the last step announced

vars == <<life, alerts>>

Init == Unheard /\ alerts = {}

Unnamed(d) == Follower(d) /\ alerts' = {}

Named(d) ==
    /\ Master(d)
    /\ \/ status[d] # "present" /\ alerts' = {<<d, "Detected">>}
       \/ status[d] = "present" /\ alerts' \in {{}, {<<d, "Changed">>}}

CloseWindow ==
    /\ Timeouts
    /\ alerts' = {<<d, "Lost">> : d \in {e \in Domains : Overdue(e)}}

Tick == Age /\ alerts' = {}

Next ==
    \/ \E d \in Domains : Unnamed(d) \/ Named(d)
    \/ CloseWindow
    \/ Tick

Spec == Init /\ [][Next]_vars

=============================================================================
