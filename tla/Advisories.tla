----------------------------- MODULE Advisories -----------------------------
(***************************************************************************)
(* The checks of a Window that read several stores at once and draw a      *)
(* conclusion about the network: Dante devices that do not follow the      *)
(* clock, a switch that filters or snoops, unmanaged multicast, addresses  *)
(* without DHCP, a sudden crowd of streams.  They run in end_of_window     *)
(* before any store is reset (ADR 0002); what they read has very different *)
(* lifetimes, from one Window to the whole session.                        *)
(*                                                                         *)
(* A live capture; the bound of the device maps is not reached (see        *)
(* DanteDevices); a flow is an entry of any of the three stream maps.      *)
(***************************************************************************)
EXTENDS Integers, FiniteSets, Sequences

CONSTANTS
    Ips,            \* addresses of Dante devices
    LinkLocal,      \* those in 169.254/16 or 172.31/16
    Subnets,        \* the other addresses, by their /24
    Flows,
    V1Domains,      \* PTPv1 domains
    NoIp,
    Window, Slack,  \* report period; how late a Window may close
    StreamPrune, ConmonPrune, FollowerPrune

ASSUME SetAssumption ==
    /\ LinkLocal \subseteq Ips /\ UNION Subnets = Ips \ LinkLocal /\ NoIp \notin Ips
    /\ IsFiniteSet(Flows)
ASSUME TimeAssumption ==
    /\ Window \in Nat \ {0} /\ Slack \in Nat
    /\ StreamPrune \in Nat /\ ConmonPrune \in Nat /\ FollowerPrune \in Nat

VARIABLES
    sources, named,  \* DanteState.sources, the keys of DanteState.names
    conmon,          \* DanteState.conmon: age, ConmonGone when absent
    followers,       \* PtpState.v1_followers: age, FollowerGone when absent
    masterOf,        \* grandmaster_src_ip of every PTPv1 domain
    ptp,             \* some domain has counted a packet
    flows,           \* the stream maps: age, FlowGone when absent
    flooded,         \* multicast_bytes_this_window stands for more than 80 Mbps
    queried,         \* last_igmp_query is known
    suspect,         \* filter_unregistered_suspect_cycles
    counts,          \* stream_count_history
    elapsed,         \* time since the last Window closed
    report,          \* what the last Window advised
    reqAge,          \* history: age of the last Delay_Req of a device
    mediaAge         \* history: age of the last media packet

devices == <<sources, named, conmon>>
clocks  == <<followers, masterOf, ptp>>
traffic == <<flows, flooded, queried>>
kept    == <<suspect, counts, elapsed>>
vars    == <<devices, clocks, traffic, kept, report, reqAge, mediaAge>>

\* An entry reaches its pruning age in a Window and is there until the Window closes.
FollowerGone == FollowerPrune + Window + Slack + 1
ConmonGone   == ConmonPrune + Window + Slack + 1
FlowGone     == StreamPrune + Window + Slack + 1
MediaCap     == StreamPrune + 3 * Window

NoReport == [printed |-> FALSE, notSyncing |-> {}, filtered |-> FALSE, snooped |-> FALSE,
             unmanaged |-> FALSE, spike |-> FALSE, noDhcp |-> {}, subnets |-> FALSE]

Older(age, gone) == IF age = gone THEN gone ELSE age + 1

Init ==
    /\ sources = {} /\ named = {}
    /\ conmon = [ip \in Ips |-> ConmonGone]
    /\ followers = [ip \in Ips |-> FollowerGone]
    /\ masterOf = [d \in V1Domains |-> NoIp]
    /\ ptp = FALSE
    /\ flows = [f \in Flows |-> FlowGone]
    /\ flooded = FALSE /\ queried = FALSE
    /\ suspect = 0 /\ counts = <<>>
    /\ elapsed = 0
    /\ report = NoReport
    /\ reqAge = [ip \in Ips |-> FollowerGone]
    /\ mediaAge = MediaCap

-----------------------------------------------------------------------------
(* What the handlers leave for the checks.  No report is printed by a packet. *)

Discovery(ip, name) ==
    /\ sources' = sources \cup {ip}
    /\ named' = named \cup (IF name THEN {ip} ELSE {})
    /\ report' = NoReport
    /\ UNCHANGED <<conmon, clocks, traffic, kept, reqAge, mediaAge>>

ConMon(ip) ==
    /\ conmon' = [conmon EXCEPT ![ip] = 0]
    /\ sources' = sources \cup {ip}
    /\ report' = NoReport
    /\ UNCHANGED <<named, clocks, traffic, kept, reqAge, mediaAge>>

DelayReq(ip) ==
    /\ V1Domains # {}
    /\ followers' = [followers EXCEPT ![ip] = 0]
    /\ reqAge' = [reqAge EXCEPT ![ip] = 0]
    /\ ptp' = TRUE
    /\ report' = NoReport
    /\ UNCHANGED <<devices, masterOf, traffic, kept, mediaAge>>

\* A Sync that names a grandmaster makes its sender the domain's.
Sync(d, ip) ==
    /\ masterOf' = [masterOf EXCEPT ![d] = ip]
    /\ ptp' = TRUE
    /\ report' = NoReport
    /\ UNCHANGED <<devices, followers, traffic, kept, reqAge, mediaAge>>

\* A packet of a flow; heavy when the bytes of the Window pass the threshold with it.
Media(f, heavy) ==
    /\ flows' = [flows EXCEPT ![f] = 0]
    /\ flooded' = (flooded \/ heavy)
    /\ mediaAge' = 0
    /\ report' = NoReport
    /\ UNCHANGED <<devices, clocks, queried, kept, reqAge>>

Query ==
    /\ queried' = TRUE
    /\ report' = NoReport
    /\ UNCHANGED <<devices, clocks, flows, flooded, kept, reqAge, mediaAge>>

Tick ==
    /\ elapsed < Window + Slack
    /\ elapsed' = elapsed + 1
    /\ conmon' = [ip \in Ips |-> Older(conmon[ip], ConmonGone)]
    /\ followers' = [ip \in Ips |-> Older(followers[ip], FollowerGone)]
    /\ reqAge' = [ip \in Ips |-> Older(reqAge[ip], FollowerGone)]
    /\ flows' = [f \in Flows |-> Older(flows[f], FlowGone)]
    /\ mediaAge' = Older(mediaAge, MediaCap)
    /\ report' = NoReport
    /\ UNCHANGED <<sources, named, masterOf, ptp, flooded, queried, suspect, counts>>

-----------------------------------------------------------------------------
(* The checks. *)

Following(fs) == {ip \in Ips : fs[ip] < FollowerGone}

\* check_follower_census against some grandmaster address the domains name; with
\* none, one device too many may be the grandmaster.
NotSyncing(fs, gm) ==
    LET candidates == sources \ Following(fs)
    IN  IF Cardinality(sources) < 2 \/ Following(fs) = {} THEN {}
        ELSE IF gm # NoIp THEN candidates \ {gm}
        ELSE IF Cardinality(candidates) <= 1 THEN {} ELSE candidates

\* The first address in the order of the hash map of the domains: any of them.
MasterIps ==
    LET known == {masterOf[d] : d \in V1Domains} \ {NoIp}
    IN  IF known = {} THEN {NoIp} ELSE known

Pruned(age, limit, gone) == IF age >= limit THEN gone ELSE age

PrunedFollowers ==
    [ip \in Ips |-> Pruned(followers[ip], FollowerPrune, FollowerGone)]

\* Mutation of CensusFollowers: PtpState is reset before the census reads it.
CensusAfterReset == PrunedFollowers

\* The followers the census reads: those of the Window, not yet pruned.
CensusFollowers == followers

PrunedFlows == [f \in Flows |-> Pruned(flows[f], StreamPrune, FlowGone)]

Present(fs) == {f \in Flows : fs[f] < FlowGone}

\* Mutation of SeenFlows: the streams are pruned before the checks count them.
SeenFlowsPruned == Present(PrunedFlows)

\* The streams the checks see: those of the Window, before reset_window prunes any.
SeenFlows == Present(flows)

\* check_filter_unregistered_multicast: Windows in a row with nothing but ConMon.
OnlyConmon ==
    /\ \E ip \in Ips : conmon[ip] < ConmonGone
    /\ named = {} /\ ~ptp /\ SeenFlows = {}

SuspectCycles == IF ~OnlyConmon THEN 0 ELSE IF suspect < 2 THEN suspect + 1 ELSE 2

\* check_igmp_snooping_blocking_ptp.
Snooped == sources # {} /\ ~ptp /\ ~queried

\* check_stream_count_anomaly: an integer average of the last three Windows.
Average == (counts[1] + counts[2] + counts[3]) \div 3

Spike == Len(counts) = 3 /\ Average > 0 /\ Cardinality(SeenFlows) > 2 * Average

CountsAfter == Append(IF Len(counts) = 3 THEN Tail(counts) ELSE counts, Cardinality(SeenFlows))

\* check_ip_config.
NoDhcp ==
    IF Cardinality(sources) >= 2 /\ ~(sources \subseteq LinkLocal) THEN sources \cap LinkLocal ELSE {}

ManySubnets == Cardinality({s \in Subnets : s \cap sources # {}}) > 1

CloseWindow ==
    /\ elapsed >= Window
    /\ \E gm \in MasterIps :
         report' = [printed    |-> TRUE,
                    notSyncing |-> NotSyncing(CensusFollowers, gm),
                    filtered   |-> SuspectCycles >= 2,
                    snooped    |-> Snooped,
                    unmanaged  |-> flooded /\ ~queried,
                    spike      |-> Spike,
                    noDhcp     |-> NoDhcp,
                    subnets    |-> ManySubnets]
    /\ suspect' = SuspectCycles
    /\ counts'  = CountsAfter
    /\ flows'   = PrunedFlows
    /\ followers' = PrunedFollowers
    /\ conmon'  = [ip \in Ips |-> Pruned(conmon[ip], ConmonPrune, ConmonGone)]
    /\ flooded' = FALSE
    /\ elapsed' = 0
    /\ UNCHANGED <<sources, named, masterOf, ptp, queried, reqAge, mediaAge>>

Next ==
    \/ \E ip \in Ips, name \in BOOLEAN : Discovery(ip, name)
    \/ \E ip \in Ips : ConMon(ip)
    \/ \E ip \in Ips : DelayReq(ip)
    \/ \E d \in V1Domains, ip \in Ips : Sync(d, ip)
    \/ \E f \in Flows, heavy \in BOOLEAN : Media(f, heavy)
    \/ Query
    \/ Tick
    \/ CloseWindow

Spec == Init /\ [][Next]_vars

-----------------------------------------------------------------------------
(* Properties. *)

TypeOK ==
    /\ sources \subseteq Ips /\ named \subseteq sources
    /\ conmon \in [Ips -> 0..ConmonGone]
    /\ followers \in [Ips -> 0..FollowerGone] /\ reqAge \in [Ips -> 0..FollowerGone]
    /\ masterOf \in [V1Domains -> Ips \cup {NoIp}]
    /\ ptp \in BOOLEAN /\ flooded \in BOOLEAN /\ queried \in BOOLEAN
    /\ flows \in [Flows -> 0..FlowGone] /\ mediaAge \in 0..MediaCap
    /\ suspect \in 0..2
    /\ counts \in Seq(Nat) /\ Len(counts) <= 3
    /\ elapsed \in 0..(Window + Slack)
    /\ report.notSyncing \subseteq Ips

\* The census names a device only when it has sent no Delay_Req for the pruning
\* time and for another Window: it reads the followers before PtpState's reset
\* prunes them (ADR 0002), so that a device gets a Window to come back.
SyncingDevicesNotNamed ==
    [][CloseWindow =>
        \A ip \in report'.notSyncing : reqAge[ip] >= FollowerPrune + Window]_vars

\* The Windows of the history with fewer streams than now.
FewerBefore == {i \in DOMAIN counts : counts[i] < Cardinality(SeenFlows)}

\* A conclusion about the switch is drawn from a silence, not from a gap: the unregistered-
\* multicast filter is suspected only when no media packet has been heard for the time that
\* prunes a stream and two Windows more, and a spike only when there are more streams now than
\* in two of the three Windows before (the checks of end_of_window run before reset_window).
AdvisoriesAreEarned ==
    [][CloseWindow =>
        /\ report'.filtered => mediaAge >= StreamPrune + 2 * Window
        /\ report'.spike => Cardinality(FewerBefore) >= 2]_vars

\* "Fires when the current total stream count is more than 2x the rolling average of the
\* last 3 windows" (check_stream_count_anomaly).
SpikeMeansDouble ==
    [][CloseWindow => (report'.spike =>
           3 * Cardinality(SeenFlows) > 2 * (counts[1] + counts[2] + counts[3]))]_vars

\* "the fingerprint of a runaway device flooding new multicast groups": there are more streams
\* than there were (check_stream_count_anomaly).
SpikeIsGrowth ==
    [][CloseWindow => (report'.spike =>
           \A i \in DOMAIN counts : counts[i] < Cardinality(SeenFlows))]_vars

\* The devices the census names are followers that fail, not grandmasters, who never send a
\* Delay_Req (check_follower_census leaves out the grandmaster).
MastersNotNamed ==
    [][CloseWindow => \A d \in V1Domains : masterOf[d] \notin report'.notSyncing]_vars

=============================================================================
