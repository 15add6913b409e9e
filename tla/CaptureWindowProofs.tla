------------------------- MODULE CaptureWindowProofs -------------------------
(***************************************************************************)
(* For any sets of streams, flows, domains and queriers and any thresholds *)
(* with StreamTimeout + Window + Slack < PruneAge: the summary names only  *)
(* what was deducted, faults are scored in their Window and no other, lost *)
(* clocks are announced and named by every report, and a live capture      *)
(* shows a stream dead before it forgets it.                               *)
(***************************************************************************)
EXTENDS CaptureWindow, TLAPS

StreamRec == [known : BOOLEAN, age : 0..PruneAge, faults : SUBSET WindowFaults,
              jitter : BOOLEAN]
ClockRec  == [known : BOOLEAN, valid : BOOLEAN, lost : BOOLEAN, changed : BOOLEAN,
              age : 0..(ClockTimeout + 1)]
FlowRec   == [known : BOOLEAN, age : 0..PruneAge,
              quality : {"Healthy", "Degraded", "Terminated"}]
NetRec    == [ecn : BOOLEAN, retrans : BOOLEAN, multiple : BOOLEAN,
              queryAge : 0..(QuerierSilent + 1), queriers : SUBSET Queriers,
              eee : SUBSET Ports]
ReportRec == [printed : BOOLEAN, penalties : Penalties, bullets : Penalties,
              alerts : SUBSET ({"ClockSyncFailure", "ClockLost"} \X (Domains \cup {"network"})),
              missing : SUBSET {"PTPv2", "PTP"}, suppress : BOOLEAN]

CaptureOK ==
    /\ streams \in [Streams -> StreamRec]
    /\ clocks \in [Domains -> ClockRec]
    /\ flows \in [Flows -> FlowRec]
    /\ net \in NetRec

ControlOK ==
    /\ elapsed \in 0..(Window + Slack)
    /\ due \in BOOLEAN
    /\ exit \in {"running", "0", "1"}
    /\ owed \in [Streams -> SUBSET WindowFaults]
    /\ deadTold \in [Streams -> BOOLEAN]
    /\ issues \in BOOLEAN

ReportOK == report \in ReportRec

\* The faults owed are the counters of the Window, and an entry that is not in
\* the map carries none.
OwedMatches ==
    \A s \in Streams : /\ owed[s] = streams[s].faults
                       /\ ~streams[s].known => streams[s].faults = {}

\* The strengthening behind DeadShownBeforePruned: a stream not yet shown dead
\* was young enough when the last Window closed.
DeadBound ==
    Live => \A s \in Streams :
        streams[s].known /\ ~deadTold[s] => streams[s].age <= StreamTimeout + elapsed

\* No clock is valid and lost at once: a recovery clears the sticky flag.
LostNotValid == \A d \in Domains : ~(clocks[d].valid /\ clocks[d].lost)

IInv ==
    /\ CaptureOK /\ ControlOK /\ ReportOK
    /\ OwedMatches /\ DeadBound /\ LostNotValid
    /\ NoBulletWithoutPenalty /\ LostClockIsReported /\ MissingClockExplained

-----------------------------------------------------------------------------
(* The pure part of the end of a Window. *)

\* The categories of a stream's diagnostics.
LEMMA DiagnosticsOf ==
    ASSUME NEW r \in StreamRec
    PROVE  Diagnostics(r) \subseteq WindowFaults \cup {"HighJitter", "Dead"}
BY DEF Diagnostics, StreamRec

\* collect_penalties yields pairs of a known category and what it is about.
LEMMA PenaltiesType ==
    ASSUME NEW st \in [Streams -> StreamRec], NEW fl, NEW cl, NEW nt
    PROVE  CollectPenalties(st, fl, cl, nt) \in Penalties
<1>1. StreamPenalties(st) \in Penalties
  <2> SUFFICES ASSUME NEW p \in StreamPenalties(st)
               PROVE  p \in Categories \X (Streams \cup Flows \cup Domains \cup {"network"})
    BY DEF Penalties
  <2>1. PICK s \in Streams : \E f \in Diagnostics(st[s]) : p = <<f, s>>
    BY DEF StreamPenalties
  <2>2. st[s] \in StreamRec OBVIOUS
  <2>3. Diagnostics(st[s]) \subseteq Categories BY <2>2, DiagnosticsOf DEF Categories
  <2> QED BY <2>1, <2>3
<1>2. FlowPenalties(fl) \in Penalties BY DEF FlowPenalties, Penalties, Categories
<1>3. ClockPenalties(cl) \in Penalties BY DEF ClockPenalties, Penalties, Categories
<1>4. NetPenalties(nt, ActiveMulticast(st)) \in Penalties
  BY DEF NetPenalties, Penalties, Categories
<1>5. EeePenalties(nt) \in Penalties BY DEF EeePenalties, Penalties, Categories
<1> QED BY <1>1, <1>2, <1>3, <1>4, <1>5 DEF CollectPenalties, Penalties

\* Which pairs of collect_penalties concern the clocks.
LEMMA ClockPairs ==
    ASSUME NEW st \in [Streams -> StreamRec], NEW fl, NEW cl, NEW nt, NEW d \in Domains
    PROVE  /\ <<"ClockLost", d>> \in CollectPenalties(st, fl, cl, nt)
                <=> (~cl[d].valid /\ cl[d].lost)
           /\ <<"NoGrandmaster", d>> \in CollectPenalties(st, fl, cl, nt)
                <=> (cl[d].known /\ ~cl[d].valid /\ ~cl[d].lost)
<1>1. ASSUME NEW p \in StreamPenalties(st)
      PROVE  p[1] \in WindowFaults \cup {"HighJitter", "Dead"}
  <2>1. PICK s \in Streams : \E f \in Diagnostics(st[s]) : p = <<f, s>>
    BY <1>1 DEF StreamPenalties
  <2> QED BY <2>1, DiagnosticsOf
<1>2. <<"ClockLost", d>> \notin StreamPenalties(st) /\ <<"NoGrandmaster", d>> \notin StreamPenalties(st)
  BY <1>1, SetAssumption
<1>3. <<"ClockLost", d>> \notin FlowPenalties(fl) /\ <<"NoGrandmaster", d>> \notin FlowPenalties(fl)
  BY DEF FlowPenalties
<1>4. /\ <<"ClockLost", d>> \notin NetPenalties(nt, ActiveMulticast(st))
      /\ <<"NoGrandmaster", d>> \notin NetPenalties(nt, ActiveMulticast(st))
  BY DEF NetPenalties
<1>5. <<"ClockLost", d>> \notin EeePenalties(nt) /\ <<"NoGrandmaster", d>> \notin EeePenalties(nt)
  BY DEF EeePenalties
<1>6. /\ <<"ClockLost", d>> \in ClockPenalties(cl) <=> (~cl[d].valid /\ cl[d].lost)
      /\ <<"NoGrandmaster", d>> \in ClockPenalties(cl)
           <=> (cl[d].known /\ ~cl[d].valid /\ ~cl[d].lost)
  BY DEF ClockPenalties
<1> QED BY <1>2, <1>3, <1>4, <1>5, <1>6 DEF CollectPenalties

\* Which pairs of collect_penalties concern a stream.
LEMMA StreamPairs ==
    ASSUME NEW st \in [Streams -> StreamRec], NEW fl, NEW cl, NEW nt, NEW s \in Streams,
           NEW f \in WindowFaults \cup {"Dead"}
    PROVE  <<f, s>> \in CollectPenalties(st, fl, cl, nt)
             <=> (st[s].known /\ f \in Diagnostics(st[s]))
<1>1. <<f, s>> \in StreamPenalties(st) <=> (st[s].known /\ f \in Diagnostics(st[s]))
  BY DEF StreamPenalties
<1>2. <<f, s>> \notin FlowPenalties(fl) BY SetAssumption DEF FlowPenalties
<1>3. <<f, s>> \notin ClockPenalties(cl) BY SetAssumption DEF ClockPenalties
<1>4. <<f, s>> \notin NetPenalties(nt, ActiveMulticast(st)) BY SetAssumption DEF NetPenalties
<1>5. <<f, s>> \notin EeePenalties(nt) BY SetAssumption DEF EeePenalties
<1> QED BY <1>1, <1>2, <1>3, <1>4, <1>5 DEF CollectPenalties

\* reset_window keeps the types, drops entries and faults, and adds nothing.
LEMMA ResetShrinks ==
    ASSUME NEW st \in [Streams -> StreamRec], NEW s \in Streams
    PROVE  /\ ResetStreams(st)[s] \in StreamRec
           /\ ResetStreams(st)[s].faults = {}
           /\ ResetStreams(st)[s].known <=> (st[s].known /\ st[s].age < PruneAge)
           /\ ResetStreams(st)[s].known =>
                /\ ResetStreams(st)[s].age = st[s].age
                /\ Diagnostics(ResetStreams(st)[s]) \subseteq Diagnostics(st[s])
<1> DEFINE r == st[s]
<1>0. r \in StreamRec OBVIOUS
<1>1. ResetStreams(st)[s] = IF r.age >= PruneAge THEN NoStream ELSE [r EXCEPT !.faults = {}]
  BY DEF ResetStreams
<1> HIDE DEF r
<1>2. CASE r.age >= PruneAge
  <2>1. ResetStreams(st)[s] = NoStream BY <1>1, <1>2
  <2>2. NoStream \in StreamRec BY TimeAssumption DEF NoStream, StreamRec
  <2> QED BY <2>1, <2>2, <1>0, <1>2, TimeAssumption DEF NoStream, StreamRec, r
<1>3. CASE ~(r.age >= PruneAge)
  <2> DEFINE q == [r EXCEPT !.faults = {}]
  <2>1. /\ q \in StreamRec /\ q.faults = {} /\ q.known = r.known /\ q.age = r.age
        /\ q.jitter = r.jitter
    BY <1>0 DEF StreamRec
  <2>2. ResetStreams(st)[s] = q BY <1>1, <1>3
  <2>3. r.age \in Nat BY <1>0, TimeAssumption DEF StreamRec
  <2> HIDE DEF q
  <2>4. Diagnostics(q) \subseteq Diagnostics(r) BY <2>1 DEF Diagnostics
  <2>5. q.known <=> (r.known /\ r.age < PruneAge)
    BY <2>1, <2>3, <1>3, TimeAssumption
  <2> QED BY <2>1, <2>2, <2>4, <2>5 DEF r
<1> QED BY <1>2, <1>3

\* What the report names after the reset had been deducted before it.
LEMMA ResetDeductsNothing ==
    ASSUME NEW st \in [Streams -> StreamRec], NEW fl, NEW cl, NEW nt \in NetRec
    PROVE  CollectPenalties(ResetStreams(st), ResetFlows(fl), cl, ResetNet(nt))
             \subseteq CollectPenalties(st, fl, cl, CheckQueriers(nt, ActiveMulticast(st)))
<1>1. StreamPenalties(ResetStreams(st)) \subseteq StreamPenalties(st)
  <2> SUFFICES ASSUME NEW p \in StreamPenalties(ResetStreams(st))
               PROVE  p \in StreamPenalties(st)
    OBVIOUS
  <2>1. PICK s \in Streams : /\ ResetStreams(st)[s].known
                             /\ \E f \in Diagnostics(ResetStreams(st)[s]) : p = <<f, s>>
    BY DEF StreamPenalties
  <2>2. st[s].known /\ Diagnostics(ResetStreams(st)[s]) \subseteq Diagnostics(st[s])
    BY <2>1, ResetShrinks
  <2> QED BY <2>1, <2>2 DEF StreamPenalties
<1>2. FlowPenalties(ResetFlows(fl)) \subseteq FlowPenalties(fl)
  <2> SUFFICES ASSUME NEW t \in Flows, ResetFlows(fl)[t].known,
                      ResetFlows(fl)[t].quality # "Healthy"
               PROVE  fl[t].known /\ fl[t].quality # "Healthy"
    BY DEF FlowPenalties
  <2>1. ResetFlows(fl)[t] = NoFlow \/ ResetFlows(fl)[t] = fl[t] BY DEF ResetFlows
  <2> QED BY <2>1 DEF NoFlow
<1>3. ActiveMulticast(ResetStreams(st)) => ActiveMulticast(st)
  BY ResetShrinks DEF ActiveMulticast
<1>4. /\ ResetNet(nt).ecn = FALSE /\ ResetNet(nt).retrans = FALSE
      /\ ResetNet(nt).multiple = FALSE /\ ResetNet(nt).queryAge = nt.queryAge
      /\ ResetNet(nt).eee = nt.eee /\ CheckQueriers(nt, ActiveMulticast(st)).eee = nt.eee
      /\ CheckQueriers(nt, ActiveMulticast(st)).queryAge = nt.queryAge
  BY DEF ResetNet, CheckQueriers, NetRec
<1>5. NetPenalties(ResetNet(nt), ActiveMulticast(ResetStreams(st)))
        \subseteq NetPenalties(CheckQueriers(nt, ActiveMulticast(st)), ActiveMulticast(st))
  BY <1>3, <1>4 DEF NetPenalties
<1>6. EeePenalties(ResetNet(nt)) = EeePenalties(CheckQueriers(nt, ActiveMulticast(st)))
  BY <1>4 DEF EeePenalties
<1> QED BY <1>1, <1>2, <1>5, <1>6 DEF CollectPenalties

\* check_ptp_timeouts: valid clocks that are too old become lost, nothing else.
LEMMA TimeoutsOf ==
    ASSUME NEW cl \in [Domains -> ClockRec]
    PROVE  /\ CheckTimeouts(cl) \in [Domains -> ClockRec]
           /\ \A d \in Domains :
                /\ CheckTimeouts(cl)[d].lost <=> (cl[d].lost \/ TimedOut(cl[d]))
                /\ CheckTimeouts(cl)[d].known = cl[d].known
                /\ ~(cl[d].valid /\ cl[d].lost)
                     => ~(CheckTimeouts(cl)[d].valid /\ CheckTimeouts(cl)[d].lost)
<1> SUFFICES ASSUME NEW d \in Domains
             PROVE  /\ CheckTimeouts(cl)[d] \in ClockRec
                    /\ CheckTimeouts(cl)[d].lost <=> (cl[d].lost \/ TimedOut(cl[d]))
                    /\ CheckTimeouts(cl)[d].known = cl[d].known
                    /\ ~(cl[d].valid /\ cl[d].lost)
                         => ~(CheckTimeouts(cl)[d].valid /\ CheckTimeouts(cl)[d].lost)
  BY DEF CheckTimeouts
<1> DEFINE c == cl[d]
<1>1. c \in ClockRec OBVIOUS
<1>2. CheckTimeouts(cl)[d] = IF TimedOut(c) THEN [c EXCEPT !.valid = FALSE, !.lost = TRUE] ELSE c
  BY DEF CheckTimeouts
<1> HIDE DEF c
<1>3. [c EXCEPT !.valid = FALSE, !.lost = TRUE] \in ClockRec BY <1>1 DEF ClockRec
<1> QED BY <1>1, <1>2, <1>3 DEF ClockRec, c

\* A missing clock means that no domain of its kind is valid.
LEMMA MissingMeans ==
    ASSUME NEW st, NEW cl, NEW d \in IpDomains,
           \/ "PTP" \in MissingClocks(st, cl)
           \/ "PTPv2" \in MissingClocks(st, cl) /\ d \in V2Domains
    PROVE  ~cl[d].valid
BY DEF MissingClocks

-----------------------------------------------------------------------------
(* The inductive invariant. *)

\* The initial state satisfies the invariant.
LEMMA Initially == Init => IInv
<1> SUFFICES ASSUME Init PROVE IInv OBVIOUS
<1>1. NoStream \in StreamRec /\ NoClock \in ClockRec /\ NoFlow \in FlowRec
  BY TimeAssumption DEF NoStream, NoClock, NoFlow, StreamRec, ClockRec, FlowRec
<1>2. net \in NetRec BY TimeAssumption DEF Init, NetRec
<1>3. CaptureOK BY <1>1, <1>2 DEF Init, CaptureOK
<1>4. ControlOK
  <2>1. elapsed \in 0..(Window + Slack) BY TimeAssumption DEF Init
  <2>2. due \in BOOLEAN /\ issues \in BOOLEAN /\ exit \in {"running", "0", "1"} BY DEF Init
  <2>3. owed \in [Streams -> SUBSET WindowFaults] BY DEF Init
  <2>4. deadTold \in [Streams -> BOOLEAN] BY DEF Init
  <2> QED BY <2>1, <2>2, <2>3, <2>4 DEF ControlOK
<1>5. NoReport \in ReportRec BY DEF NoReport, ReportRec, Penalties
<1>6. ReportOK BY <1>5 DEF Init, ReportOK
<1>7. OwedMatches /\ DeadBound BY DEF Init, OwedMatches, DeadBound, NoStream
<1>9. LostNotValid BY DEF Init, LostNotValid, NoClock
<1>8. NoBulletWithoutPenalty /\ LostClockIsReported /\ MissingClockExplained
  BY DEF Init, NoReport, NoBulletWithoutPenalty, LostClockIsReported, MissingClockExplained
<1> QED BY <1>3, <1>4, <1>6, <1>7, <1>8, <1>9 DEF IInv

\* Steps that print nothing keep the properties of the report.
LEMMA SilentReport ==
    ASSUME report' = NoReport
    PROVE  ReportOK' /\ NoBulletWithoutPenalty' /\ LostClockIsReported' /\ MissingClockExplained'
<1>1. NoReport \in ReportRec BY DEF NoReport, ReportRec, Penalties
<1> QED BY <1>1 DEF ReportOK, NoReport, NoBulletWithoutPenalty, LostClockIsReported,
                    MissingClockExplained

\* A media packet, MediaPacket, keeps it.
LEMMA MediaKeeps ==
    ASSUME IInv, NEW s \in Streams, NEW raised \in SUBSET WindowFaults,
           NEW jitter \in BOOLEAN, NEW ecn \in BOOLEAN, MediaPacket(s, raised, jitter, ecn)
    PROVE  IInv'
<1>0. streams \in [Streams -> StreamRec] /\ net \in NetRec BY DEF IInv, CaptureOK
<1>1. \A x \in Streams : streams'[x] =
         IF x = s THEN [known |-> TRUE, age |-> 0, faults |-> streams[s].faults \cup raised,
                        jitter |-> jitter]
         ELSE streams[x]
  BY <1>0 DEF MediaPacket
<1>2. streams' \in [Streams -> StreamRec]
  <2>1. [known |-> TRUE, age |-> 0, faults |-> streams[s].faults \cup raised,
         jitter |-> jitter] \in StreamRec
    BY <1>0, TimeAssumption DEF StreamRec
  <2> QED BY <1>0, <2>1 DEF MediaPacket
<1>3. net' \in NetRec BY <1>0 DEF MediaPacket, NetRec
<1>4. CaptureOK' BY <1>2, <1>3 DEF MediaPacket, IInv, CaptureOK
<1>5. /\ owed \in [Streams -> SUBSET WindowFaults] /\ deadTold \in [Streams -> BOOLEAN]
      /\ owed' = [owed EXCEPT ![s] = @ \cup raised]
      /\ deadTold' = [deadTold EXCEPT ![s] = FALSE]
  BY DEF MediaPacket, IInv, ControlOK
<1>6. ControlOK' BY <1>5 DEF MediaPacket, Processed, IInv, ControlOK
<1>7. OwedMatches'
  <2>1. \A x \in Streams : owed'[x] = IF x = s THEN owed[s] \cup raised ELSE owed[x]
    BY <1>5
  <2> SUFFICES ASSUME NEW x \in Streams
               PROVE  /\ owed'[x] = streams'[x].faults
                      /\ ~streams'[x].known => streams'[x].faults = {}
    BY DEF OwedMatches
  <2>2. /\ owed[x] = streams[x].faults
        /\ ~streams[x].known => streams[x].faults = {}
    BY DEF IInv, OwedMatches
  <2>3. CASE x = s
    <3>1. streams'[x].faults = streams[s].faults \cup raised /\ streams'[x].known = TRUE
      BY <1>1, <2>3
    <3> QED BY <2>1, <2>2, <2>3, <3>1
  <2>4. CASE x # s
    <3>1. streams'[x] = streams[x] /\ owed'[x] = owed[x] BY <1>1, <2>1, <2>4
    <3> QED BY <2>2, <3>1
  <2> QED BY <2>3, <2>4
<1>8. DeadBound'
  BY <1>1, <1>5, TimeAssumption DEF IInv, DeadBound, MediaPacket, Processed, ControlOK
<1>9. LostNotValid' BY DEF IInv, LostNotValid, MediaPacket
<1> QED BY <1>4, <1>6, <1>7, <1>8, <1>9, SilentReport DEF IInv, MediaPacket, Processed

\* A PTP message keeps it.
LEMMA PtpKeeps ==
    ASSUME IInv, NEW d \in Domains, NEW names \in BOOLEAN, NEW other \in BOOLEAN,
           PtpMessage(d, names, other)
    PROVE  IInv'
<1>0. clocks \in [Domains -> ClockRec] BY DEF IInv, CaptureOK
<1>1. clocks' \in [Domains -> ClockRec]
  <2>1. [known |-> TRUE, valid |-> clocks[d].valid \/ names,
         lost |-> clocks[d].lost /\ ~names,
         changed |-> clocks[d].changed \/ (names /\ clocks[d].valid /\ other),
         age |-> 0] \in ClockRec
    BY TimeAssumption DEF ClockRec
  <2> QED BY <1>0, <2>1 DEF PtpMessage
<1>2. UNCHANGED <<streams, flows, net, owed, deadTold, elapsed, exit, issues>>
      /\ due' \in BOOLEAN /\ report' = NoReport
  BY DEF PtpMessage, Processed
<1>3. LostNotValid'
  <2> SUFFICES ASSUME NEW x \in Domains, clocks'[x].valid, clocks'[x].lost PROVE FALSE
    BY DEF LostNotValid
  <2>1. \/ clocks'[x] = clocks[x]
        \/ /\ clocks'[x].valid = (clocks[x].valid \/ names)
           /\ clocks'[x].lost = (clocks[x].lost /\ ~names)
    BY <1>0 DEF PtpMessage
  <2>2. ~(clocks[x].valid /\ clocks[x].lost) BY DEF IInv, LostNotValid
  <2> QED BY <2>1, <2>2
<1> QED BY <1>1, <1>2, <1>3, SilentReport
       DEF IInv, CaptureOK, ControlOK, OwedMatches, DeadBound, LostNotValid

\* A TCP segment keeps it.
LEMMA TcpKeeps ==
    ASSUME IInv, NEW t \in Flows, NEW quality \in {"Healthy", "Degraded", "Terminated"},
           NEW retransmitted \in BOOLEAN, TcpSegment(t, quality, retransmitted)
    PROVE  IInv'
<1>0. flows \in [Flows -> FlowRec] /\ net \in NetRec BY DEF IInv, CaptureOK
<1>1. flows' \in [Flows -> FlowRec]
  <2>1. [known |-> TRUE, quality |-> quality, age |-> 0] \in FlowRec
    BY TimeAssumption DEF FlowRec
  <2> QED BY <1>0, <2>1 DEF TcpSegment
<1>2. net' \in NetRec
  <2>1. (net.retrans \/ retransmitted) \in BOOLEAN BY <1>0 DEF NetRec
  <2>2. net' = [net EXCEPT !.retrans = net.retrans \/ retransmitted] BY DEF TcpSegment
  <2> QED BY <1>0, <2>1, <2>2 DEF NetRec
<1>3. UNCHANGED <<streams, clocks, owed, deadTold, elapsed, exit, issues>>
      /\ due' \in BOOLEAN /\ report' = NoReport
  BY DEF TcpSegment, Processed
<1> QED BY <1>1, <1>2, <1>3, SilentReport
       DEF IInv, CaptureOK, ControlOK, OwedMatches, DeadBound, LostNotValid

\* An IGMP query keeps it.
LEMMA IgmpKeeps ==
    ASSUME IInv, NEW q \in Queriers, IgmpQuery(q)
    PROVE  IInv'
<1>0. net \in NetRec BY DEF IInv, CaptureOK
<1>1. net' \in NetRec
  <2> DEFINE sources == net.queriers \cup {q}
             asked == [net EXCEPT !.queryAge = 0]
  <2>1. net' = [asked EXCEPT !.queriers = sources] BY <1>0 DEF IgmpQuery, NetRec
  <2>2. sources \in SUBSET Queriers BY <1>0 DEF NetRec
  <2>3. asked \in NetRec BY <1>0, TimeAssumption DEF NetRec
  <2> HIDE DEF sources, asked
  <2> QED BY <2>1, <2>2, <2>3 DEF NetRec
<1>2. UNCHANGED <<streams, clocks, flows, owed, deadTold, elapsed, exit, issues>>
      /\ due' \in BOOLEAN /\ report' = NoReport
  BY DEF IgmpQuery, Processed
<1> QED BY <1>1, <1>2, SilentReport
       DEF IInv, CaptureOK, ControlOK, OwedMatches, DeadBound, LostNotValid

\* An announcement of EEE keeps it.
LEMMA LldpKeeps ==
    ASSUME IInv, NEW p \in Ports, LldpEee(p)
    PROVE  IInv'
<1>0. net \in NetRec BY DEF IInv, CaptureOK
<1>1. net' \in NetRec
  <2> DEFINE ports == net.eee \cup {p}
  <2>1. net' = [net EXCEPT !.eee = ports] BY <1>0 DEF LldpEee, NetRec
  <2>2. ports \in SUBSET Ports BY <1>0 DEF NetRec
  <2> HIDE DEF ports
  <2> QED BY <1>0, <2>1, <2>2 DEF NetRec
<1>2. UNCHANGED <<streams, clocks, flows, owed, deadTold, elapsed, exit, issues>>
      /\ due' \in BOOLEAN /\ report' = NoReport
  BY DEF LldpEee, Processed
<1> QED BY <1>1, <1>2, SilentReport
       DEF IInv, CaptureOK, ControlOK, OwedMatches, DeadBound, LostNotValid

\* Packets without effect and an error of the capture.
LEMMA OtherKeeps == IInv /\ (OtherPacket \/ CaptureError) => IInv'
<1> SUFFICES ASSUME IInv, OtherPacket \/ CaptureError PROVE IInv' OBVIOUS
<1>1. UNCHANGED <<streams, clocks, flows, net, owed, deadTold, elapsed, issues>>
      /\ due' \in BOOLEAN /\ exit' \in {"running", "0", "1"} /\ report' = NoReport
  BY DEF OtherPacket, CaptureError, Processed, capture, IInv, ControlOK
<1> QED BY <1>1, SilentReport
       DEF IInv, CaptureOK, ControlOK, OwedMatches, DeadBound, LostNotValid

\* The passing of time keeps it.
LEMMA TickKeeps == IInv /\ Tick => IInv'
<1> SUFFICES ASSUME IInv, Tick PROVE IInv' OBVIOUS
<1>0. /\ streams \in [Streams -> StreamRec] /\ clocks \in [Domains -> ClockRec]
      /\ flows \in [Flows -> FlowRec] /\ net \in NetRec /\ elapsed \in 0..(Window + Slack)
  BY DEF IInv, CaptureOK, ControlOK
<1>1. \A s \in Streams :
         /\ streams'[s] \in StreamRec
         /\ streams'[s].known = streams[s].known /\ streams'[s].faults = streams[s].faults
         /\ streams'[s].age <= streams[s].age + 1
  <2> TAKE s \in Streams
  <2>1. streams'[s] = [streams[s] EXCEPT !.age = Older(@, PruneAge)] BY DEF Tick
  <2>2. streams[s] \in StreamRec BY <1>0
  <2>3. /\ Older(streams[s].age, PruneAge) \in 0..PruneAge
        /\ Older(streams[s].age, PruneAge) <= streams[s].age + 1
    BY <2>2, TimeAssumption DEF StreamRec, Older
  <2> QED BY <2>1, <2>2, <2>3 DEF StreamRec
<1>2. clocks' \in [Domains -> ClockRec]
  <2> SUFFICES ASSUME NEW d \in Domains
               PROVE [clocks[d] EXCEPT !.age = Older(@, ClockTimeout + 1)] \in ClockRec
    BY DEF Tick
  <2>1. clocks[d] \in ClockRec BY <1>0
  <2>2. Older(clocks[d].age, ClockTimeout + 1) \in 0..(ClockTimeout + 1)
    BY <2>1, TimeAssumption DEF ClockRec, Older
  <2> QED BY <2>1, <2>2 DEF ClockRec
<1>3. flows' \in [Flows -> FlowRec]
  <2> SUFFICES ASSUME NEW t \in Flows
               PROVE [flows[t] EXCEPT !.age = Older(@, PruneAge)] \in FlowRec
    BY DEF Tick
  <2>1. flows[t] \in FlowRec BY <1>0
  <2>2. Older(flows[t].age, PruneAge) \in 0..PruneAge
    BY <2>1, TimeAssumption DEF FlowRec, Older
  <2> QED BY <2>1, <2>2 DEF FlowRec
<1>4. net' \in NetRec
  <2>1. Older(net.queryAge, QuerierSilent + 1) \in 0..(QuerierSilent + 1)
    BY <1>0, TimeAssumption DEF NetRec, Older
  <2>2. net' = [net EXCEPT !.queryAge = Older(@, QuerierSilent + 1)] BY DEF Tick
  <2> QED BY <1>0, <2>1, <2>2 DEF NetRec
<1>5. CaptureOK' BY <1>1, <1>2, <1>3, <1>4 DEF CaptureOK, Tick
<1>6. elapsed' \in 0..(Window + Slack) /\ (Live => elapsed' = elapsed + 1)
  BY <1>0, TimeAssumption DEF Tick, Older
<1>7. UNCHANGED <<due, exit, owed, deadTold, issues>> /\ report' = NoReport BY DEF Tick
<1>8. ControlOK' BY <1>6, <1>7 DEF IInv, ControlOK
<1>9. OwedMatches' BY <1>1, <1>7 DEF IInv, OwedMatches
<1>10. DeadBound'
  <2> SUFFICES ASSUME Live, NEW s \in Streams, streams'[s].known, ~deadTold'[s]
               PROVE  streams'[s].age <= StreamTimeout + elapsed'
    BY DEF DeadBound
  <2>1. streams[s].age <= StreamTimeout + elapsed BY <1>1, <1>7 DEF IInv, DeadBound
  <2>2. streams[s].age \in Nat /\ streams'[s].age \in Nat
    BY <1>0, <1>1, TimeAssumption DEF StreamRec
  <2> QED BY <1>0, <1>1, <1>6, <2>1, <2>2, TimeAssumption
<1>11. LostNotValid'
  <2> SUFFICES ASSUME NEW d \in Domains PROVE ~(clocks'[d].valid /\ clocks'[d].lost)
    BY DEF LostNotValid
  <2>1. clocks'[d] = [clocks[d] EXCEPT !.age = Older(@, ClockTimeout + 1)] BY DEF Tick
  <2>2. ~(clocks[d].valid /\ clocks[d].lost) BY DEF IInv, LostNotValid
  <2> QED BY <1>0, <2>1, <2>2 DEF ClockRec
<1> QED BY <1>5, <1>8, <1>9, <1>10, <1>11, <1>7, SilentReport DEF IInv

\* What the end of a Window does to the entries.
LEMMA CloseEntries ==
    ASSUME IInv, Close
    PROVE  /\ streams' \in [Streams -> StreamRec] /\ clocks' \in [Domains -> ClockRec]
           /\ flows' \in [Flows -> FlowRec] /\ net' \in NetRec
           /\ streams' = ResetStreams(streams) /\ clocks' = CheckTimeouts(clocks)
<1>0. /\ streams \in [Streams -> StreamRec] /\ clocks \in [Domains -> ClockRec]
      /\ flows \in [Flows -> FlowRec] /\ net \in NetRec
  BY DEF IInv, CaptureOK
<1>1. streams' \in [Streams -> StreamRec]
  BY <1>0, ResetShrinks DEF Close, ResetStreams
<1>2. clocks' \in [Domains -> ClockRec] BY <1>0, TimeoutsOf DEF Close
<1>3. flows' \in [Flows -> FlowRec]
  <2>1. NoFlow \in FlowRec BY TimeAssumption DEF NoFlow, FlowRec
  <2> QED BY <1>0, <2>1 DEF Close, ResetFlows
<1>4. net' \in NetRec BY <1>0 DEF Close, ResetNet, NetRec
<1> QED BY <1>1, <1>2, <1>3, <1>4 DEF Close

\* The report of a Window, which Close prints, satisfies the properties of reports.
LEMMA CloseReports ==
    ASSUME IInv, Close
    PROVE  ReportOK' /\ NoBulletWithoutPenalty' /\ LostClockIsReported' /\ MissingClockExplained'
<1>0. /\ streams \in [Streams -> StreamRec] /\ clocks \in [Domains -> ClockRec]
      /\ net \in NetRec
  BY DEF IInv, CaptureOK
<1> DEFINE cl == CheckTimeouts(clocks)
           penalties == CollectPenalties(streams, flows, cl,
                                         CheckQueriers(net, ActiveMulticast(streams)))
           bullets == CollectPenalties(streams', flows', clocks', net')
<1>1. /\ report'.printed = TRUE /\ report'.penalties = penalties
      /\ report'.bullets = bullets /\ report'.alerts = ClockAlerts
      /\ report'.missing = MissingClocks(streams, cl) /\ report'.suppress = FALSE
      /\ report' = [printed |-> TRUE, penalties |-> penalties, bullets |-> bullets,
                    alerts |-> ClockAlerts, missing |-> MissingClocks(streams, cl),
                    suppress |-> FALSE]
  BY DEF Close, Scored, ScoredClocks, FlagAfterReset
<1>2. penalties \in Penalties /\ bullets \in Penalties
  BY <1>0, CloseEntries, PenaltiesType
<1>3. ClockAlerts \in SUBSET ({"ClockSyncFailure", "ClockLost"} \X (Domains \cup {"network"}))
  BY DEF ClockAlerts, JustLost
<1>4. MissingClocks(streams, cl) \in SUBSET {"PTPv2", "PTP"} BY DEF MissingClocks
<1>5. clocks' = cl BY CloseEntries
<1>12. \A d \in Domains : ~(clocks'[d].valid /\ clocks'[d].lost)
  BY <1>0, <1>5, TimeoutsOf DEF IInv, LostNotValid
<1>6. \A d \in Domains :
         /\ clocks'[d].lost <=> <<"ClockLost", d>> \in penalties
         /\ clocks'[d].lost <=> <<"ClockLost", d>> \in bullets
         /\ (clocks'[d].known /\ ~clocks'[d].valid /\ ~clocks'[d].lost)
               => <<"NoGrandmaster", d>> \in bullets
  BY <1>0, <1>5, <1>12, CloseEntries, ClockPairs
<1>7. bullets \subseteq penalties
  BY <1>0, <1>5, ResetDeductsNothing DEF Close
<1> HIDE DEF penalties, bullets, cl
<1>8. ReportOK' BY <1>1, <1>2, <1>3, <1>4 DEF ReportOK, ReportRec
<1>9. NoBulletWithoutPenalty' BY <1>1, <1>7 DEF NoBulletWithoutPenalty
<1>10. LostClockIsReported' BY <1>1, <1>6 DEF LostClockIsReported
<1>11. MissingClockExplained'
  <2> SUFFICES ASSUME NEW d \in IpDomains, clocks'[d].known,
                      \/ "PTP" \in report'.missing
                      \/ "PTPv2" \in report'.missing /\ d \in V2Domains
               PROVE  {<<"ClockLost", d>>, <<"NoGrandmaster", d>>} \cap report'.bullets # {}
    BY DEF MissingClockExplained
  <2>1. ~clocks'[d].valid BY <1>1, <1>5, MissingMeans
  <2>2. d \in Domains BY DEF IpDomains
  <2> QED BY <1>1, <1>6, <2>1, <2>2
<1> QED BY <1>8, <1>9, <1>10, <1>11

\* The end of a Window keeps the invariant.
LEMMA CloseKeeps ==
    ASSUME IInv, Close, exit' \in {"running", "0", "1"}
    PROVE  IInv'
<1>0. streams \in [Streams -> StreamRec] BY DEF IInv, CaptureOK
<1>1. CaptureOK' BY CloseEntries DEF CaptureOK
<1>2. ControlOK'
  <2>1. /\ elapsed' = 0 /\ due' = FALSE /\ owed' = [s \in Streams |-> {}]
        /\ deadTold' = [s \in Streams |-> deadTold[s] \/ <<"Dead", s>> \in report'.bullets]
        /\ issues' = (issues \/ Scored # {})
    BY DEF Close
  <2>2. deadTold' \in [Streams -> BOOLEAN] BY <2>1 DEF IInv, ControlOK
  <2>3. issues' \in BOOLEAN BY <2>1
  <2>4. elapsed' \in 0..(Window + Slack) BY <2>1, TimeAssumption
  <2>5. owed' \in [Streams -> SUBSET WindowFaults] BY <2>1
  <2> QED BY <2>1, <2>2, <2>3, <2>4, <2>5 DEF ControlOK
<1>3. OwedMatches'
  <2>1. \A s \in Streams : streams'[s].faults = {} BY <1>0, CloseEntries, ResetShrinks
  <2> QED BY <2>1 DEF OwedMatches, Close
<1>4. DeadBound'
  <2> SUFFICES ASSUME NEW s \in Streams, streams'[s].known, ~deadTold'[s]
               PROVE  streams'[s].age <= StreamTimeout + elapsed'
    BY DEF DeadBound
  <2>1. <<"Dead", s>> \notin CollectPenalties(streams', flows', clocks', net')
    BY DEF Close
  <2>2. streams' \in [Streams -> StreamRec] BY CloseEntries
  <2>3. "Dead" \notin Diagnostics(streams'[s]) BY <2>1, <2>2, StreamPairs
  <2>4. ~(streams'[s].age > StreamTimeout) BY <2>3 DEF Diagnostics
  <2>5. streams'[s].age \in Nat BY <2>2, TimeAssumption DEF StreamRec
  <2>6. elapsed' = 0 BY DEF Close
  <2> QED BY <2>4, <2>5, <2>6, TimeAssumption
<1>5. LostNotValid'
  <2>1. clocks \in [Domains -> ClockRec] BY DEF IInv, CaptureOK
  <2> QED BY <2>1, CloseEntries, TimeoutsOf DEF IInv, LostNotValid
<1> QED BY <1>1, <1>2, <1>3, <1>4, <1>5, CloseReports DEF IInv

\* The actions that close a Window.
LEMMA Closing ==
    ASSUME NEW last \in BOOLEAN, IInv, LiveReport(last) \/ ReplayReport \/ EndOfFile
    PROVE  Close /\ exit' \in {"running", "0", "1"}
BY DEF LiveReport, ReplayReport, EndOfFile, Status, IInv, ControlOK

\* Every step keeps the invariant.
LEMMA StepKeeps == IInv /\ [Next]_vars => IInv'
<1> SUFFICES ASSUME IInv, [Next]_vars PROVE IInv' OBVIOUS
<1>1. CASE Packet
  <2>1. ASSUME NEW s \in Streams, NEW raised \in {{}} \cup {{f} : f \in WindowFaults},
               NEW jitter \in BOOLEAN, NEW ecn \in BOOLEAN,
               MediaPacket(s, raised, jitter, ecn)
        PROVE  IInv'
    <3>1. raised \in SUBSET WindowFaults OBVIOUS
    <3> QED BY <2>1, <3>1, MediaKeeps
  <2>2. ASSUME NEW d \in Domains, NEW names \in BOOLEAN, NEW other \in BOOLEAN,
               PtpMessage(d, names, other)
        PROVE  IInv'
    BY <2>2, PtpKeeps
  <2>3. ASSUME NEW t \in Flows, NEW retransmitted \in BOOLEAN,
               NEW quality \in {"Healthy", "Degraded", "Terminated"},
               TcpSegment(t, quality, retransmitted)
        PROVE  IInv'
    BY <2>3, TcpKeeps
  <2>4. ASSUME NEW q \in Queriers, IgmpQuery(q) PROVE IInv'
    BY <2>4, IgmpKeeps
  <2>5. ASSUME NEW p \in Ports, LldpEee(p) PROVE IInv'
    BY <2>5, LldpKeeps
  <2>6. CASE OtherPacket BY <2>6, OtherKeeps
  <2> QED BY <1>1, <2>1, <2>2, <2>3, <2>4, <2>5, <2>6 DEF Packet
<1>2. CASE Tick BY <1>2, TickKeeps
<1>3. ASSUME NEW last \in BOOLEAN, LiveReport(last) PROVE IInv'
  BY <1>3, Closing, CloseKeeps
<1>4. CASE ReplayReport BY <1>4, Closing, CloseKeeps
<1>5. CASE EndOfFile BY <1>5, Closing, CloseKeeps
<1>6. CASE CaptureError BY <1>6, OtherKeeps
<1>7. CASE UNCHANGED vars
  BY <1>7 DEF vars, capture, IInv, CaptureOK, ControlOK, ReportOK, OwedMatches, DeadBound,
              LostNotValid, NoBulletWithoutPenalty, LostClockIsReported, MissingClockExplained
<1> QED BY <1>1, <1>2, <1>3, <1>4, <1>5, <1>6, <1>7 DEF Next

\* A step closes a Window or prints nothing; only time, media packets and PTP
\* messages touch a stream or a clock outside the end of a Window.
LEMMA Kinds ==
    ASSUME Next, ~Close
    PROVE  /\ report' = NoReport
           /\ \/ Tick
              \/ streams' = streams
              \/ \E s \in Streams, raised \in SUBSET WindowFaults, jitter, ecn \in BOOLEAN :
                    MediaPacket(s, raised, jitter, ecn)
           /\ \/ Tick
              \/ clocks' = clocks
              \/ \E d \in Domains, names, other \in BOOLEAN : PtpMessage(d, names, other)
<1>1. ASSUME NEW s \in Streams, NEW raised \in {{}} \cup {{f} : f \in WindowFaults},
             NEW jitter \in BOOLEAN, NEW ecn \in BOOLEAN,
             MediaPacket(s, raised, jitter, ecn)
      PROVE  /\ report' = NoReport /\ clocks' = clocks /\ raised \in SUBSET WindowFaults
  BY <1>1 DEF MediaPacket, Processed
<1>2. ASSUME NEW d \in Domains, NEW names \in BOOLEAN, NEW other \in BOOLEAN,
             PtpMessage(d, names, other)
      PROVE  report' = NoReport /\ streams' = streams
  BY <1>2 DEF PtpMessage, Processed
<1>3. ASSUME NEW t \in Flows, NEW retransmitted \in BOOLEAN,
             NEW quality \in {"Healthy", "Degraded", "Terminated"},
             TcpSegment(t, quality, retransmitted)
      PROVE  report' = NoReport /\ streams' = streams /\ clocks' = clocks
  BY <1>3 DEF TcpSegment, Processed
<1>4. ASSUME NEW q \in Queriers, IgmpQuery(q)
      PROVE  report' = NoReport /\ streams' = streams /\ clocks' = clocks
  BY <1>4 DEF IgmpQuery, Processed
<1>5. ASSUME NEW p \in Ports, LldpEee(p)
      PROVE  report' = NoReport /\ streams' = streams /\ clocks' = clocks
  BY <1>5 DEF LldpEee, Processed
<1>6. CASE OtherPacket BY <1>6 DEF OtherPacket, Processed, capture
<1>7. CASE CaptureError BY <1>7 DEF CaptureError, capture
<1>8. CASE Tick BY <1>8 DEF Tick
<1>9. CASE Packet BY <1>9, <1>1, <1>2, <1>3, <1>4, <1>5, <1>6 DEF Packet
<1>10. ~ReplayReport /\ ~EndOfFile /\ ~(\E last \in BOOLEAN : LiveReport(last))
  BY DEF ReplayReport, EndOfFile, LiveReport
<1> QED BY <1>7, <1>8, <1>9, <1>10 DEF Next

-----------------------------------------------------------------------------
\* The inductive invariant holds in every reachable state.
THEOREM Invariance == Spec => []IInv
BY Initially, StepKeeps, PTL DEF Spec

\* The state of the capture loop keeps its types.
THEOREM TypeCorrect == Spec => []TypeOK
<1>1. IInv => TypeOK
  BY DEF IInv, CaptureOK, ControlOK, ReportOK, TypeOK, StreamRec, ClockRec, FlowRec,
         NetRec, ReportRec
<1> QED BY <1>1, Invariance, PTL

\* The summary, although it is built after reset_window, names only what the
\* score deducted.
THEOREM BulletsDeducted == Spec => []NoBulletWithoutPenalty
<1>1. IInv => NoBulletWithoutPenalty BY DEF IInv
<1> QED BY <1>1, Invariance, PTL

\* Every report names exactly the domains whose clock is lost.
THEOREM LostClocksNamed == Spec => []LostClockIsReported
<1>1. IInv => LostClockIsReported BY DEF IInv
<1> QED BY <1>1, Invariance, PTL

\* A missing clock whose domain is known is accounted for in the summary.
THEOREM MissingExplained == Spec => []MissingClockExplained
<1>1. IInv => MissingClockExplained BY DEF IInv
<1> QED BY <1>1, Invariance, PTL

\* The body of FaultsScoredOnce.
Scores ==
    report'.printed =>
        \A s \in Streams : {f \in WindowFaults : <<f, s>> \in report'.penalties} = owed[s]

\* The faults of a Window and no others are deducted when it closes.
THEOREM FaultsInTheirWindow == Spec => FaultsScoredOnce
<1>1. IInv /\ [Next]_vars => [Scores]_vars
  <2> SUFFICES ASSUME IInv, Next, report'.printed, NEW s \in Streams
               PROVE  {f \in WindowFaults : <<f, s>> \in report'.penalties} = owed[s]
    BY DEF Scores
  <2>1. Close BY Kinds DEF NoReport
  <2>2. streams \in [Streams -> StreamRec] BY DEF IInv, CaptureOK
  <2>3. report'.penalties = CollectPenalties(streams, flows, CheckTimeouts(clocks),
                                CheckQueriers(net, ActiveMulticast(streams)))
    BY <2>1 DEF Close, Scored, ScoredClocks
  <2>4. \A f \in WindowFaults :
           <<f, s>> \in report'.penalties <=> (streams[s].known /\ f \in Diagnostics(streams[s]))
    BY <2>2, <2>3, StreamPairs
  <2>5. \A f \in WindowFaults : f \in Diagnostics(streams[s]) <=> f \in streams[s].faults
    BY SetAssumption DEF Diagnostics
  <2>6. /\ owed[s] = streams[s].faults /\ owed[s] \subseteq WindowFaults
        /\ ~streams[s].known => streams[s].faults = {}
    BY DEF IInv, OwedMatches, ControlOK
  <2> QED BY <2>4, <2>5, <2>6
<1>2. Spec => [][Scores]_vars BY Invariance, <1>1, PTL DEF Spec
<1>3. FaultsScoredOnce <=> [][Scores]_vars BY DEF FaultsScoredOnce, Scores
<1> QED BY <1>2, <1>3

\* Without a report no clock is lost.
LEMMA LostOnClose ==
    ASSUME IInv, Next, ~Close PROVE NewlyLost = {}
<1>0. clocks \in [Domains -> ClockRec] BY DEF IInv, CaptureOK
<1>1. ASSUME NEW d \in Domains, ~clocks[d].lost, clocks'[d].lost PROVE FALSE
  <2>1. ~Tick
    <3> SUFFICES ASSUME Tick PROVE FALSE OBVIOUS
    <3>1. clocks'[d] = [clocks[d] EXCEPT !.age = Older(@, ClockTimeout + 1)] BY DEF Tick
    <3> QED BY <1>0, <1>1, <3>1 DEF ClockRec
  <2>2. clocks' # clocks BY <1>1
  <2>3. PICK e \in Domains, names \in BOOLEAN, other \in BOOLEAN : PtpMessage(e, names, other)
    BY <2>1, <2>2, Kinds
  <2>4. clocks'[d] = clocks[d] \/ clocks'[d].lost = (clocks[d].lost /\ ~names)
    BY <1>0, <2>3 DEF PtpMessage
  <2> QED BY <1>1, <2>4
<1> QED BY <1>1 DEF NewlyLost

\* At the end of a Window the clocks overdue are lost, and no others.
LEMMA LostAreOverdue ==
    ASSUME IInv, Close PROVE NewlyLost = JustLost
<1>0. clocks \in [Domains -> ClockRec] BY DEF IInv, CaptureOK
<1>1. clocks' = CheckTimeouts(clocks) BY DEF Close
<1>2. ASSUME NEW d \in Domains
      PROVE  (~clocks[d].lost /\ clocks'[d].lost) <=> TimedOut(clocks[d])
  <2>1. clocks'[d].lost <=> (clocks[d].lost \/ TimedOut(clocks[d]))
    BY <1>0, <1>1, TimeoutsOf
  <2>2. TimedOut(clocks[d]) => ~clocks[d].lost
    BY DEF IInv, LostNotValid, TimedOut
  <2>3. clocks[d].lost \in BOOLEAN BY <1>0 DEF ClockRec
  <2> QED BY <2>1, <2>2, <2>3
<1> QED BY <1>2 DEF NewlyLost, JustLost

\* Every report announces the dropout of its Window, with the losses of that Window and the
\* clocks as they are at its end, or else the clocks lost since the last report.
THEOREM LossAnnounced == Spec => ClockLossIsAnnounced
<1>1. IInv /\ [Next]_vars => [Announced]_vars
  <2> SUFFICES ASSUME IInv, Next PROVE Announced
    OBVIOUS
  <2>1. CASE ~Close
    <3>1. ~report'.printed BY <2>1, Kinds DEF NoReport
    <3> QED BY <2>1, <3>1, LostOnClose DEF Announced
  <2>2. CASE Close
    <3>1. report'.alerts = ClockAlerts /\ report'.printed /\ clocks' = CheckTimeouts(clocks)
      BY <2>2 DEF Close
    <3>2. \A s \in Streams : owed[s] = streams[s].faults BY DEF IInv, OwedMatches
    <3>3. DropoutSeen <=> Dropout(streams, CheckTimeouts(clocks))
      BY <3>1, <3>2 DEF DropoutSeen, Dropout, Serves, IpDomains
    <3> QED BY <2>2, <3>1, <3>3, LostAreOverdue DEF Announced, ClockAlerts
  <2> QED BY <2>1, <2>2
<1>2. Spec => [][Announced]_vars BY Invariance, <1>1, PTL DEF Spec
<1> QED BY <1>2 DEF ClockLossIsAnnounced

\* The body of DeadShownBeforePruned.
ShownFirst == \A s \in Streams : streams[s].known /\ ~streams'[s].known => deadTold[s]

\* A live capture forgets a stream only after a report that shows it dead.
THEOREM LiveDeadShown == ASSUME Live PROVE Spec => DeadShownBeforePruned
<1>1. IInv /\ [Next]_vars => [ShownFirst]_vars
  <2> SUFFICES ASSUME IInv, Next, NEW s \in Streams, streams[s].known, ~streams'[s].known
               PROVE  deadTold[s]
    BY DEF ShownFirst
  <2>0. streams \in [Streams -> StreamRec] /\ elapsed \in 0..(Window + Slack)
    BY DEF IInv, CaptureOK, ControlOK
  <2>1. Close
    <3> SUFFICES ASSUME ~Close PROVE FALSE OBVIOUS
    <3>1. ~Tick
      <4> SUFFICES ASSUME Tick PROVE FALSE OBVIOUS
      <4>1. streams'[s] = [streams[s] EXCEPT !.age = Older(@, PruneAge)] BY DEF Tick
      <4> QED BY <4>1, <2>0 DEF StreamRec
    <3>2. PICK x \in Streams, raised \in SUBSET WindowFaults, jitter \in BOOLEAN,
               ecn \in BOOLEAN : MediaPacket(x, raised, jitter, ecn)
      BY <3>1, Kinds
    <3>3. streams'[s] = streams[s] \/ streams'[s].known = TRUE
      BY <3>2, <2>0 DEF MediaPacket
    <3> QED BY <3>3
  <2>2. ~(streams[s].age < PruneAge) BY <2>0, <2>1, ResetShrinks DEF Close
  <2>3. streams[s].age \in Nat BY <2>0, TimeAssumption DEF StreamRec
  <2>4. ~deadTold[s] => streams[s].age <= StreamTimeout + elapsed BY DEF IInv, DeadBound
  <2> QED BY <2>0, <2>2, <2>3, <2>4, TimeAssumption, PruneAssumption
<1>2. Spec => [][ShownFirst]_vars BY Invariance, <1>1, PTL DEF Spec
<1> QED BY <1>2 DEF DeadShownBeforePruned, ShownFirst

-----------------------------------------------------------------------------
(* The clocks of the loop live as ClockLife says. *)

LifeStatus  == [d \in Domains |-> StatusOf(clocks[d])]
LifeSilence == [d \in Domains |-> clocks[d].age]

\* At first no domain has been heard.
LEMMA InitLives == Init => Clock!Unheard
<1> SUFFICES ASSUME Init PROVE Clock!Unheard OBVIOUS
<1>1. \A d \in Domains : StatusOf(clocks[d]) = "unheard" /\ clocks[d].age = 0
  BY DEF Init, NoClock, StatusOf
<1> QED BY <1>1 DEF Clock!Unheard

\* A message is one of the grandmaster, or one that names none.
LEMMA MessageLives ==
    ASSUME clocks \in [Domains -> ClockRec], NEW d \in Domains, NEW names \in BOOLEAN,
           NEW other \in BOOLEAN, PtpMessage(d, names, other)
    PROVE  Clock!Lives
<1> DEFINE old == clocks[d]
           new == [known |-> TRUE, valid |-> old.valid \/ names, lost |-> old.lost /\ ~names,
                   changed |-> old.changed \/ (names /\ old.valid /\ other), age |-> 0]
<1>1. \A e \in Domains : clocks'[e] = IF e = d THEN new ELSE clocks[e] BY DEF PtpMessage
<1>2. old.valid \in BOOLEAN /\ old.lost \in BOOLEAN /\ old.known \in BOOLEAN BY DEF ClockRec
<1>3. new.age = 0 /\ new.known = TRUE /\ new.valid = (old.valid \/ names)
      /\ new.lost = (old.lost /\ ~names)
  OBVIOUS
<1> HIDE DEF new
<1>4. LifeSilence' = [LifeSilence EXCEPT ![d] = 0] BY <1>1, <1>3 DEF LifeSilence
<1>5. CASE names
  <2>1. StatusOf(new) = "present" BY <1>3, <1>5 DEF StatusOf
  <2>2. LifeStatus' = [LifeStatus EXCEPT ![d] = "present"] BY <1>1, <2>1 DEF LifeStatus
  <2>3. Clock!Master(d) BY <1>4, <2>2 DEF Clock!Master, LifeStatus, LifeSilence
  <2> QED BY <2>3 DEF Clock!Lives
<1>6. CASE ~names
  <2>1. StatusOf(new) = IF StatusOf(old) = "unheard" THEN "unnamed" ELSE StatusOf(old)
    BY <1>2, <1>3, <1>6 DEF StatusOf
  <2>2. LifeStatus' = [LifeStatus EXCEPT ![d] = IF @ = "unheard" THEN "unnamed" ELSE @]
    BY <1>1, <2>1 DEF LifeStatus
  <2>3. Clock!Follower(d) BY <1>4, <2>2 DEF Clock!Follower, LifeStatus, LifeSilence
  <2> QED BY <2>3 DEF Clock!Lives
<1> QED BY <1>5, <1>6

\* The end of a Window loses the overdue clocks and no other.
LEMMA CloseLives ==
    ASSUME clocks \in [Domains -> ClockRec], Close
    PROVE  Clock!Lives
<1>1. \A d \in Domains : clocks'[d] = IF TimedOut(clocks[d])
                                      THEN [clocks[d] EXCEPT !.valid = FALSE, !.lost = TRUE]
                                      ELSE clocks[d]
  BY DEF Close, CheckTimeouts
<1>2. \A d \in Domains : /\ clocks[d].valid \in BOOLEAN
                         /\ DOMAIN clocks[d] = {"known", "valid", "lost", "changed", "age"}
  BY DEF ClockRec
<1>3. \A d \in Domains : Clock!Overdue(d) <=> TimedOut(clocks[d])
  BY <1>2 DEF Clock!Overdue, TimedOut, StatusOf
<1>4. \A d \in Domains : StatusOf(clocks'[d]) = IF TimedOut(clocks[d]) THEN "lost"
                                                ELSE StatusOf(clocks[d])
  <2> TAKE d \in Domains
  <2>1. CASE TimedOut(clocks[d]) BY <1>1, <1>2, <2>1 DEF StatusOf
  <2> QED BY <1>1, <2>1
<1>5. \A d \in Domains : clocks'[d].age = clocks[d].age BY <1>1, <1>2
<1>6. LifeSilence' = LifeSilence BY <1>5 DEF LifeSilence
<1>7. LifeStatus' = [d \in Domains |-> IF Clock!Overdue(d) THEN "lost" ELSE LifeStatus[d]]
  BY <1>3, <1>4 DEF LifeStatus
<1>8. Clock!Timeouts BY <1>6, <1>7 DEF Clock!Timeouts, LifeStatus, LifeSilence
<1> QED BY <1>8 DEF Clock!Lives

\* Ages grow alike, up to where they matter.
LEMMA TickLives ==
    ASSUME clocks \in [Domains -> ClockRec], Tick
    PROVE  Clock!Lives
<1>1. \A d \in Domains : clocks'[d] = [clocks[d] EXCEPT !.age = Older(@, ClockTimeout + 1)]
  BY DEF Tick
<1>2. \A d \in Domains : /\ clocks[d].age \in 0..(ClockTimeout + 1)
                         /\ DOMAIN clocks[d] = {"known", "valid", "lost", "changed", "age"}
  BY DEF ClockRec
<1>3. \A d \in Domains : /\ clocks'[d].age = Older(clocks[d].age, ClockTimeout + 1)
                         /\ clocks'[d].valid = clocks[d].valid /\ clocks'[d].lost = clocks[d].lost
                         /\ clocks'[d].known = clocks[d].known
  BY <1>1, <1>2
<1>4. \A d \in Domains : clocks'[d].age = IF clocks[d].age > ClockTimeout THEN clocks[d].age
                                          ELSE clocks[d].age + 1
  BY <1>2, <1>3, TimeAssumption DEF Older
<1>5. LifeSilence' = [d \in Domains |-> IF LifeSilence[d] > ClockTimeout THEN LifeSilence[d]
                                        ELSE LifeSilence[d] + 1]
  BY <1>4 DEF LifeSilence
<1>6. LifeStatus' = LifeStatus BY <1>3 DEF LifeStatus, StatusOf
<1>7. Clock!Age BY <1>5, <1>6 DEF Clock!Age, LifeStatus, LifeSilence
<1> QED BY <1>7 DEF Clock!Lives

\* The clocks the score and the missing clocks are read from live as ClockLife says, in a
\* live capture and in a replay: PtpState, which keeps the same promise and announces it
\* (ClockStatus), can stand in their place.
THEOREM ClocksLive == Spec => ImplementsLife
<1>1. IInv /\ [Next]_vars => [Clock!Lives]_(Clock!life)
  <2> SUFFICES ASSUME IInv, [Next]_vars PROVE [Clock!Lives]_(Clock!life) OBVIOUS
  <2>1. clocks \in [Domains -> ClockRec] BY DEF IInv, CaptureOK
  <2>2. CASE Close BY <2>1, <2>2, CloseLives
  <2>3. CASE Tick BY <2>1, <2>3, TickLives
  <2>4. CASE clocks' = clocks BY <2>4 DEF Clock!life
  <2>5. ASSUME NEW d \in Domains, NEW names \in BOOLEAN, NEW other \in BOOLEAN,
               PtpMessage(d, names, other)
        PROVE  Clock!Lives
    BY <2>1, <2>5, MessageLives
  <2>6. CASE UNCHANGED vars BY <2>4, <2>6 DEF vars, capture
  <2> QED BY <2>2, <2>3, <2>4, <2>5, <2>6, Kinds
<1>2. Spec => Clock!Life BY <1>1, InitLives, Invariance, PTL DEF Spec, Clock!Life
<1> QED BY <1>2 DEF ImplementsLife
=============================================================================
