------------------------------ MODULE ClockLife ------------------------------
(***************************************************************************)
(* The life of the clock of a domain, whatever its entry holds and however *)
(* its changes are announced: it is unheard, heard but without a           *)
(* grandmaster, present or lost.  A grandmaster that names itself is       *)
(* present at once; it is lost only when a Window closes after a silence   *)
(* longer than the timeout, and all overdue clocks are lost together.  The *)
(* penalties and the missing clocks of a Window rest on this and on        *)
(* nothing else of PtpState.  The capture loop (CaptureWindow) implements  *)
(* it as it is, PtpState (PtpClock) with the alerts ClockStatus adds.      *)
(***************************************************************************)
EXTENDS Integers

CONSTANTS Domains, ClockTimeout

VARIABLES
    status,    \* "unheard", "unnamed", "present" or "lost", for each domain
    silence    \* time since its last message, as far as it matters

life == <<status, silence>>

Overdue(d) == status[d] = "present" /\ silence[d] > ClockTimeout

Unheard ==
    /\ status  = [d \in Domains |-> "unheard"]
    /\ silence = [d \in Domains |-> 0]

\* A message that names no grandmaster: a clock that was lost stays so.
Follower(d) ==
    /\ status'  = [status EXCEPT ![d] = IF @ = "unheard" THEN "unnamed" ELSE @]
    /\ silence' = [silence EXCEPT ![d] = 0]

\* A message of the grandmaster: of one that is present, the same or another.
Master(d) ==
    /\ status'  = [status EXCEPT ![d] = "present"]
    /\ silence' = [silence EXCEPT ![d] = 0]

\* The end of a Window.
Timeouts ==
    /\ status' = [d \in Domains |-> IF Overdue(d) THEN "lost" ELSE status[d]]
    /\ UNCHANGED silence

Age ==
    /\ silence' = [d \in Domains |-> IF silence[d] > ClockTimeout THEN silence[d]
                                     ELSE silence[d] + 1]
    /\ UNCHANGED status

Lives ==
    \/ \E d \in Domains : Follower(d) \/ Master(d)
    \/ Timeouts
    \/ Age

Life == Unheard /\ [][Lives]_life

=============================================================================
