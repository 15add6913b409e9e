---------------------------- MODULE CaptureWindow ----------------------------
(***************************************************************************)
(* The capture loop and the end of a Window: packets feed the streams, the *)
(* clocks, the TCP flows and the IGMP state; every Window closes with the  *)
(* checks in the order end_of_window fixes, the Health Score, reset_window *)
(* and only then the report, which is rendered from the state that is      *)
(* left (CaptureState::close_window).                                      *)
(*                                                                         *)
(* A counter that reset_window clears is the diagnostic it raises; a       *)
(* penalty is a category together with what it was raised for, because the *)
(* bullets count streams.  Times are ages, saturating above their          *)
(* threshold.  A live capture closes a Window on its own clock; a replay   *)
(* closes one when a packet is Window later than the last report.          *)
(***************************************************************************)
EXTENDS Integers, FiniteSets

CONSTANTS
    Live,            \* live capture, or the replay of a file
    Streams, Flows,  \* keys of CaptureState.streams and .tcp_streams
    Domains,         \* keys of PtpState.domains
    Queriers,        \* sources of IGMP General Queries
    Ports,           \* switch ports that announce EEE in LLDP
    DanteStreams,    \* streams that accept either PTP version as their clock
    V1Domains, GptpDomains,  \* PTPv1 domains; domains of L2 gPTP
    WindowFaults,    \* diagnostics of the per-Window counters of a stream
    Window, Slack,   \* report period; how late a live Window may close
    StreamTimeout, PruneAge, ClockTimeout, QuerierSilent

ASSUME SetAssumption ==
    /\ Live \in BOOLEAN
    /\ DanteStreams \subseteq Streams
    /\ V1Domains \subseteq Domains /\ GptpDomains \subseteq Domains \ V1Domains
    /\ WindowFaults \subseteq {"PacketLoss", "TsDiscontinuity", "SsrcChange",
                               "SignalGap", "DscpViolation"}
ASSUME TimeAssumption ==
    /\ Window \in Nat \ {0} /\ Slack \in Nat
    /\ StreamTimeout \in Nat /\ PruneAge \in Nat
    /\ ClockTimeout \in Nat /\ QuerierSilent \in Nat

\* The dead range is longer than the distance of two reports (10 s against 6 s).
ASSUME PruneAssumption == StreamTimeout + Window + Slack < PruneAge

VARIABLES
    streams,   \* per stream: known, age of its last packet, faults, high jitter
    clocks,    \* per domain: known, valid, protocol_clock_lost, changes, age
    flows,     \* per TCP flow: known, stream_quality, age
    net,       \* NetworkHealth, IgmpState, eee_ports: ecn, retransmissions, queries
    elapsed,   \* time since the last Window closed
    due,       \* replay: the packet just processed closes the Window
    exit,      \* "running", or the status of the process
    report,    \* what the last step printed
    owed,      \* history: faults raised since the last Window closed
    deadTold,  \* history: reported dead since its last packet
    issues     \* history: some report deducted from the score

capture == <<streams, clocks, flows, net>>
vars == <<capture, elapsed, due, exit, report, owed, deadTold, issues>>

IpDomains == Domains \ GptpDomains
V2Domains == Domains \ V1Domains

NoReport == [printed |-> FALSE, penalties |-> {}, bullets |-> {}, alerts |-> {},
             missing |-> {}, suppress |-> FALSE]

NoStream == [known |-> FALSE, age |-> 0, faults |-> {}, jitter |-> FALSE]
NoClock  == [known |-> FALSE, valid |-> FALSE, lost |-> FALSE, changed |-> FALSE,
             age |-> 0]
NoFlow   == [known |-> FALSE, quality |-> "Healthy", age |-> 0]

Older(age, cap) == IF age < cap THEN age + 1 ELSE cap

Init ==
    /\ streams = [s \in Streams |-> NoStream]
    /\ clocks  = [d \in Domains |-> NoClock]
    /\ flows   = [t \in Flows |-> NoFlow]
    /\ net     = [ecn |-> FALSE, retrans |-> FALSE, multiple |-> FALSE,
                  queryAge |-> QuerierSilent + 1, queriers |-> {}, eee |-> {}]
    /\ elapsed = 0 /\ due = FALSE /\ exit = "running"
    /\ report  = NoReport
    /\ owed = [s \in Streams |-> {}]
    /\ deadTold = [s \in Streams |-> FALSE]
    /\ issues = FALSE

-----------------------------------------------------------------------------
(* Packets. *)

\* OfflineReportClock::should_report, asked after each packet of a replay.
Processed ==
    /\ exit = "running" /\ ~due
    /\ due' = (~Live /\ elapsed >= Window)
    /\ report' = NoReport
    /\ UNCHANGED <<elapsed, exit, issues>>

\* Faults are raised one at a time: two packets with no time between them raise
\* two.  The first packet of a stream has nothing to be compared with, its DSCP
\* apart.  The jitter estimate may cross its threshold either way.
MediaPacket(s, raised, jitter, ecn) ==
    /\ Processed
    /\ (~streams[s].known => raised \subseteq {"DscpViolation"} /\ ~jitter)
    /\ streams' = [streams EXCEPT ![s] =
            [known |-> TRUE, age |-> 0, faults |-> @.faults \cup raised, jitter |-> jitter]]
    /\ net' = [net EXCEPT !.ecn = @ \/ ecn]
    /\ owed' = [owed EXCEPT ![s] = @ \cup raised]
    /\ deadTold' = [deadTold EXCEPT ![s] = FALSE]
    /\ UNCHANGED <<clocks, flows>>

\* PtpStats::update: a message that names a grandmaster, the same or another.
PtpMessage(d, names, other) ==
    /\ Processed
    /\ clocks' = [clocks EXCEPT ![d] =
            [known   |-> TRUE,
             valid   |-> @.valid \/ names,
             lost    |-> @.lost /\ ~names,
             changed |-> @.changed \/ (names /\ @.valid /\ other),
             age     |-> 0]]
    /\ UNCHANGED <<streams, flows, net, owed, deadTold>>

\* "Degraded" stands for Degrading and Critical.  The counts behind the quality
\* only grow; the first segment of a flow can only be a reset.
TcpSegment(t, quality, retransmitted) ==
    /\ Processed
    /\ flows[t].quality # "Healthy" => quality \in {flows[t].quality, "Terminated"}
    /\ ~flows[t].known => quality = IF retransmitted THEN "Terminated" ELSE "Healthy"
    /\ flows' = [flows EXCEPT ![t] = [known |-> TRUE, quality |-> quality, age |-> 0]]
    /\ net' = [net EXCEPT !.retrans = @ \/ retransmitted]
    /\ UNCHANGED <<streams, clocks, owed, deadTold>>

IgmpQuery(q) ==
    /\ Processed
    /\ net' = [net EXCEPT !.queryAge = 0, !.queriers = @ \cup {q}]
    /\ UNCHANGED <<streams, clocks, flows, owed, deadTold>>

\* handle_lldp_eee: a port stays in eee_ports for good.
LldpEee(p) ==
    /\ Processed
    /\ net' = [net EXCEPT !.eee = @ \cup {p}]
    /\ UNCHANGED <<streams, clocks, flows, owed, deadTold>>

\* A packet no handler learns from.
OtherPacket ==
    /\ Processed
    /\ UNCHANGED <<capture, owed, deadTold>>

\* One unit of time.  A live loop polls for packets with a timeout, so that a
\* Window closes even when nothing is received.  Time that passes before the first
\* packet of a replay stands for the time after a packet no handler learns from.
Tick ==
    /\ exit = "running" /\ ~due
    /\ Live => elapsed < Window + Slack
    /\ streams' = [s \in Streams |-> [streams[s] EXCEPT !.age = Older(@, PruneAge)]]
    /\ clocks' = [d \in Domains |-> [clocks[d] EXCEPT !.age = Older(@, ClockTimeout + 1)]]
    /\ flows' = [t \in Flows |-> [flows[t] EXCEPT !.age = Older(@, PruneAge)]]
    /\ net' = [net EXCEPT !.queryAge = Older(@, QuerierSilent + 1)]
    /\ elapsed' = Older(elapsed, Window + Slack)
    /\ report' = NoReport
    /\ UNCHANGED <<due, exit, owed, deadTold, issues>>

-----------------------------------------------------------------------------
(* The end of a Window, pure part. *)

\* StreamStats::diagnostics, the ones that deduct from the score.
Diagnostics(r) ==
    r.faults \cup (IF r.jitter THEN {"HighJitter"} ELSE {})
             \cup (IF r.age > StreamTimeout THEN {"Dead"} ELSE {})

\* has_active_multicast (all streams here are multicast).
ActiveMulticast(st) == \E s \in Streams : st[s].known

\* NetworkHealth::collect_penalties: one table for the score and the summary.
StreamPenalties(st) ==
    UNION {{<<f, s>> : f \in Diagnostics(st[s])} : s \in {x \in Streams : st[x].known}}

FlowPenalties(fl) ==
    {<<"TcpQuality", t>> : t \in {x \in Flows : fl[x].known /\ fl[x].quality # "Healthy"}}

ClockPenalties(cl) ==
    {<<"ClockLost", d>> : d \in {x \in Domains : ~cl[x].valid /\ cl[x].lost}}
    \cup {<<"NoGrandmaster", d>> : d \in {x \in Domains :
              cl[x].known /\ ~cl[x].valid /\ ~cl[x].lost}}
    \cup {<<"GrandmasterChanged", d>> : d \in {x \in Domains : cl[x].changed}}

NetPenalties(nt, multicast) ==
    (IF nt.ecn THEN {<<"Ecn", "network">>} ELSE {})
    \cup (IF nt.retrans THEN {<<"Retransmissions", "network">>} ELSE {})
    \cup (IF nt.multiple THEN {<<"MultipleQueriers", "network">>} ELSE {})
    \cup (IF multicast /\ nt.queryAge > QuerierSilent
          THEN {<<"QuerierAbsent", "network">>} ELSE {})

EeePenalties(nt) == IF nt.eee # {} THEN {<<"Eee", "network">>} ELSE {}

CollectPenalties(st, fl, cl, nt) ==
    StreamPenalties(st) \cup FlowPenalties(fl) \cup ClockPenalties(cl)
        \cup NetPenalties(nt, ActiveMulticast(st)) \cup EeePenalties(nt)

\* Mutation of TimedOut: lost with the timeout, not after it.
TimedOutEarly(c) == c.valid /\ c.age >= ClockTimeout

\* PtpState::check_ptp_timeouts.
TimedOut(c) == c.valid /\ c.age > ClockTimeout

CheckTimeouts(cl) ==
    [d \in Domains |-> IF TimedOut(cl[d])
                       THEN [cl[d] EXCEPT !.valid = FALSE, !.lost = TRUE] ELSE cl[d]]

\* check_clock_dropout_correlation: a lost IP clock, and loss on a stream of
\* the family that clock serves.
Dropout(st, cl) ==
    \E d \in IpDomains : cl[d].lost /\
        \E s \in Streams : /\ "PacketLoss" \in st[s].faults
                           /\ s \in DanteStreams <=> d \in V1Domains

\* Mutation of MissingClocks: only a PTPv1 clock counts for Dante.
MissingClocksV1Only(st, cl) ==
    LET Valid(ds) == \E d \in ds : cl[d].valid
    IN  (IF (\E s \in Streams \ DanteStreams : st[s].known)
               /\ ~Valid(IpDomains \cap V2Domains) THEN {"PTPv2"} ELSE {})
        \cup (IF (\E s \in DanteStreams : st[s].known) /\ ~Valid(V1Domains)
              THEN {"PTP"} ELSE {})

\* missing_ptp_clocks: AES67 and ST2110 need PTPv2, Dante any PTP over IP.
MissingClocks(st, cl) ==
    LET Valid(ds) == \E d \in ds : cl[d].valid
    IN  (IF (\E s \in Streams \ DanteStreams : st[s].known)
               /\ ~Valid(IpDomains \cap V2Domains) THEN {"PTPv2"} ELSE {})
        \cup (IF (\E s \in DanteStreams : st[s].known) /\ ~Valid(IpDomains)
              THEN {"PTP"} ELSE {})

\* check_multiple_queriers sets the flag collect_penalties reads.
CheckQueriers(nt, multicast) ==
    [nt EXCEPT !.multiple = @ \/ (multicast /\ Cardinality(nt.queriers) >= 2)]

\* Mutation of ResetStreams: the counters of a Window are not cleared.
ResetStreamsKeepFaults(st) ==
    [s \in Streams |-> IF st[s].age >= PruneAge THEN NoStream ELSE st[s]]

\* Mutation of ResetStreams: pruned at the age of the dead alert already.
ResetStreamsEarly(st) ==
    [s \in Streams |-> IF st[s].age > StreamTimeout THEN NoStream
                       ELSE [st[s] EXCEPT !.faults = {}]]

\* CaptureState::reset_window.
ResetStreams(st) ==
    [s \in Streams |-> IF st[s].age >= PruneAge THEN NoStream
                       ELSE [st[s] EXCEPT !.faults = {}]]

ResetFlows(fl) ==
    [t \in Flows |-> IF fl[t].age >= PruneAge \/ fl[t].quality = "Terminated"
                     THEN NoFlow ELSE fl[t]]

\* Mutation of ResetNet: the time of the last query is forgotten.
ResetNetQuery(nt) ==
    [ecn |-> FALSE, retrans |-> FALSE, multiple |-> FALSE,
     queryAge |-> QuerierSilent + 1, queriers |-> {}, eee |-> nt.eee]

ResetNet(nt) ==
    [nt EXCEPT !.ecn = FALSE, !.retrans = FALSE, !.multiple = FALSE, !.queriers = {}]

-----------------------------------------------------------------------------
(* The end of a Window, in the order of end_of_window. *)

\* Mutation of ScoredClocks: the score is taken before the clocks are checked.
ScoredClocksUnchecked == clocks

\* The clocks when the score is taken: check_ptp_timeouts comes first.
ScoredClocks == CheckTimeouts(clocks)

\* The penalties of the Health Score: check_multiple_queriers comes before it.
Scored ==
    CollectPenalties(streams, flows, ScoredClocks,
                     CheckQueriers(net, ActiveMulticast(streams)))

JustLost == {d \in Domains : TimedOut(clocks[d])}

\* Mutation of ClockAlerts: the dropout is looked for before the clocks are checked.
ClockAlertsBefore ==
    IF Dropout(streams, clocks) THEN {<<"ClockSyncFailure", "network">>}
    ELSE {<<"ClockLost", d>> : d \in JustLost}

\* A correlated dropout replaces the alerts of all clocks just lost by one.
ClockAlerts ==
    IF Dropout(streams, CheckTimeouts(clocks)) THEN {<<"ClockSyncFailure", "network">>}
    ELSE {<<"ClockLost", d>> : d \in JustLost}

\* clock_dropout_correlated as the report reads it: reset_window has cleared it.
FlagAfterReset == FALSE

\* close_window: timeouts, score and missing clocks from the state of the Window,
\* reset_window, and the bullets of the report from the state it leaves.
Close ==
    /\ streams' = ResetStreams(streams)
    /\ flows' = ResetFlows(flows)
    /\ clocks' = CheckTimeouts(clocks)
    /\ net' = ResetNet(net)
    /\ report' = [printed   |-> TRUE,
                  penalties |-> Scored,
                  bullets   |-> CollectPenalties(streams', flows', clocks', net'),
                  alerts    |-> ClockAlerts,
                  missing   |-> MissingClocks(streams, CheckTimeouts(clocks)),
                  suppress  |-> FlagAfterReset]
    /\ elapsed' = 0 /\ due' = FALSE
    /\ owed' = [s \in Streams |-> {}]
    /\ deadTold' = [s \in Streams |-> deadTold[s] \/ <<"Dead", s>> \in report'.bullets]
    /\ issues' = (issues \/ Scored # {})

\* The exit status tells whether the score of the last Window was 100.
Status == IF Scored = {} THEN "0" ELSE "1"

\* Mutation of LiveReport: only a packet brings the loop back to its top.
LiveReportOnPacket(last) ==
    /\ Live /\ exit = "running" /\ elapsed >= Window
    /\ \E s \in Streams : streams[s].known /\ streams[s].age = 0
    /\ Close
    /\ exit' = IF last THEN Status ELSE "running"

\* The live loop reports when more than Window has passed, whether a packet came
\* or not, and stops after the report when --duration is over.
LiveReport(last) ==
    /\ Live /\ exit = "running" /\ elapsed >= Window
    /\ Close
    /\ exit' = IF last THEN Status ELSE "running"

\* A replay reports after the packet that is due.
ReplayReport ==
    /\ exit = "running" /\ due
    /\ Close
    /\ UNCHANGED exit

\* NoMorePackets: the partial Window is closed and the tool exits.  The Window
\* may be over already: a frame without an Ethernet header moves the clock but
\* leaves the loop body before the report is asked for.
EndOfFile ==
    /\ ~Live /\ exit = "running" /\ ~due
    /\ Close
    /\ exit' = Status

\* Any other error of the capture: exit without a report.
CaptureError ==
    /\ exit = "running" /\ ~due
    /\ exit' = "1"
    /\ report' = NoReport
    /\ UNCHANGED <<capture, elapsed, due, owed, deadTold, issues>>

Packet ==
    \/ \E s \in Streams, raised \in {{}} \cup {{f} : f \in WindowFaults},
          jitter, ecn \in BOOLEAN : MediaPacket(s, raised, jitter, ecn)
    \/ \E d \in Domains, names, other \in BOOLEAN : PtpMessage(d, names, other)
    \/ \E t \in Flows, retransmitted \in BOOLEAN,
          quality \in {"Healthy", "Degraded", "Terminated"} :
              TcpSegment(t, quality, retransmitted)
    \/ \E q \in Queriers : IgmpQuery(q)
    \/ \E p \in Ports : LldpEee(p)
    \/ OtherPacket

Next ==
    \/ Packet
    \/ Tick
    \/ \E last \in BOOLEAN : LiveReport(last)
    \/ ReplayReport
    \/ EndOfFile
    \/ CaptureError

Spec == Init /\ [][Next]_vars

\* The clock advances and the live loop comes back to its top.
FairSpec == Spec /\ WF_vars(Tick) /\ WF_vars(LiveReport(FALSE))

-----------------------------------------------------------------------------
(* What the end of a Window may rely on. *)

StatusOf(c) ==
    IF c.valid THEN "present"
    ELSE IF c.lost THEN "lost"
    ELSE IF c.known THEN "unnamed" ELSE "unheard"

Clock == INSTANCE ClockLife WITH
    status  <- [d \in Domains |-> StatusOf(clocks[d])],
    silence <- [d \in Domains |-> clocks[d].age]

-----------------------------------------------------------------------------
(* Properties. *)

Categories ==
    WindowFaults \cup {"HighJitter", "Dead", "TcpQuality", "ClockLost", "NoGrandmaster",
        "GrandmasterChanged", "Ecn", "Retransmissions", "MultipleQueriers", "QuerierAbsent", "Eee"}

Penalties == SUBSET (Categories \X (Streams \cup Flows \cup Domains \cup {"network"}))

TypeOK ==
    /\ streams \in [Streams -> [known : BOOLEAN, age : 0..PruneAge,
                               faults : SUBSET WindowFaults, jitter : BOOLEAN]]
    /\ clocks \in [Domains -> [known : BOOLEAN, valid : BOOLEAN, lost : BOOLEAN,
                              changed : BOOLEAN, age : 0..(ClockTimeout + 1)]]
    /\ flows \in [Flows -> [known : BOOLEAN, age : 0..PruneAge,
                           quality : {"Healthy", "Degraded", "Terminated"}]]
    /\ net \in [ecn : BOOLEAN, retrans : BOOLEAN, multiple : BOOLEAN,
                queryAge : 0..(QuerierSilent + 1), queriers : SUBSET Queriers, eee : SUBSET Ports]
    /\ elapsed \in 0..(Window + Slack)
    /\ due \in BOOLEAN
    /\ exit \in {"running", "0", "1"}
    /\ report \in [printed : BOOLEAN, penalties : Penalties, bullets : Penalties,
                   alerts : SUBSET ({"ClockSyncFailure", "ClockLost"}
                                     \X (Domains \cup {"network"})),
                   missing : SUBSET {"PTPv2", "PTP"}, suppress : BOOLEAN]
    /\ owed \in [Streams -> SUBSET WindowFaults]
    /\ deadTold \in [Streams -> BOOLEAN]
    /\ issues \in BOOLEAN

\* "Every bullet corresponds to a score penalty": although the summary is built
\* after reset_window, it never names what the score did not deduct.
NoBulletWithoutPenalty == report.bullets \subseteq report.penalties

\* A fault of a stream is scored in the Window it happened in, and only there:
\* the score is taken before reset_window clears the counters, which clears all.
FaultsScoredOnce ==
    [][report'.printed =>
         \A s \in Streams : {f \in WindowFaults : <<f, s>> \in report'.penalties} = owed[s]]_vars

\* From the loss of a clock to its recovery every report names it in the summary
\* and in the score, also when a dropout has replaced the alert of the loss.
LostClockIsReported ==
    report.printed => \A d \in Domains :
        /\ clocks[d].lost <=> <<"ClockLost", d>> \in report.penalties
        /\ clocks[d].lost <=> <<"ClockLost", d>> \in report.bullets

\* A clock lost by the end of the Window serves a stream that lost a packet in it.
Serves(d, s) == d \in IpDomains /\ (s \in DanteStreams <=> d \in V1Domains)

DropoutSeen ==
    \E d \in Domains, s \in Streams :
        clocks'[d].lost /\ "PacketLoss" \in owed[s] /\ Serves(d, s)

NewlyLost == {d \in Domains : ~clocks[d].lost /\ clocks'[d].lost}

Announced ==
    IF ~report'.printed THEN NewlyLost = {}
    ELSE report'.alerts = IF DropoutSeen THEN {<<"ClockSyncFailure", "network">>}
                          ELSE {<<"ClockLost", d>> : d \in NewlyLost}

\* "When a PTP clock is confirmed lost and at least one stream in the affected protocol family
\* has packet loss in the same window, return a single combined alert": each report announces
\* that for the losses of this very Window, counting a clock lost at its end, or else exactly
\* the clocks lost since the last report; no clock is lost between reports.  The combined
\* alert takes the place of all others: also of a clock that serves none of these streams
\* (OwnLossIsAnnounced).
ClockLossIsAnnounced == [][Announced]_vars

\* The clocks a Window is scored with live as those of PtpState do: lost only after a
\* silence, only when a Window closes, all at once, and found again by any message that
\* names a grandmaster, whatever else the loop does between (check_ptp_timeouts).
ImplementsLife == Clock!Life

\* A clock reported as missing although its domain is on the network is accounted
\* for in the summary: the domain lost its grandmaster or never named one.
MissingClockExplained ==
    report.printed => \A d \in IpDomains :
        clocks[d].known /\ ("PTP" \in report.missing
                            \/ ("PTPv2" \in report.missing /\ d \in V2Domains))
            => {<<"ClockLost", d>>, <<"NoGrandmaster", d>>} \cap report.bullets # {}

\* "Pruning waits longer so an alert is shown at least once before the entry
\* disappears" (STREAM_PRUNE_SECS): a stream is forgotten only after a report
\* has shown it dead.
DeadShownBeforePruned ==
    [][\A s \in Streams : streams[s].known /\ ~streams'[s].known => deadTold[s]]_vars

\* A live capture goes on reporting on a network that has gone silent.
ReportsKeepComing == []<>(report.printed \/ exit # "running")

\* "Every score penalty has a bullet" (Health Summary).
NoPenaltyWithoutBullet == report.penalties \subseteq report.bullets

\* "Print the full report only when issues are detected", "silent on healthy
\* cycles": a quiet report is suppressed only when nothing was deducted.
QuietHidesHealthyOnly ==
    report.printed /\ report.bullets = {} /\ report.missing = {} => report.penalties = {}

\* The Health Score "penalises [...] missing Clock Source": a clock reported as
\* missing deducts from the score.
MissingClockIsScored ==
    report.missing # {} => \E p \in report.penalties : p[1] \in {"ClockLost", "NoGrandmaster"}

\* clock_dropout_correlated "suppresses the individual no-clock and per-stream
\* loss alerts so the combined dropout alert dominates".
DropoutDominates ==
    <<"ClockSyncFailure", "network">> \in report.alerts => report.suppress

\* A clock is never lost without an alert of it or of a dropout that it is part of.
OwnLossIsAnnounced ==
    [][\A d \in NewlyLost :
         \/ <<"ClockLost", d>> \in report'.alerts
         \/ \E s \in Streams : "PacketLoss" \in owed[s] /\ Serves(d, s)]_vars

\* The score represents "the quality [...] within the current Window": a change of
\* grandmaster is deducted from the Windows in which its domain was heard only.
ChangeIsOfThisWindow ==
    [][report'.printed => \A d \in Domains :
         <<"GrandmasterChanged", d>> \in report'.penalties => clocks[d].age <= elapsed]_vars

\* "Exit 0 if healthy (100%), exit 1 if any issues detected" (--duration).
ExitTellsAnyIssue == exit = "0" => ~issues

=============================================================================
