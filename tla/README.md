# A verification project for AVStreamLens

AVStreamLens captures the traffic of a network port (or replays a capture file) and prints, every five
seconds, a report on the AV streams, clocks and infrastructure it has heard, with a Health Score. It is
one thread: a loop takes a packet, hands it to the handler of its protocol, which updates a store, and
when a *Window* of five seconds is over checks the stores, computes the score, resets what belongs to
the Window, and prints. What can go wrong is therefore not a data race but an *order*: which packets
come before which, what falls on which side of the end of a Window, what a reset clears before
somebody reads it, and how what is silent is told from what is gone.

The modules here model that loop and the stores, TLC checks them on small instances, and TLAPS proves
the main invariants for every value of the constants.

## 1. The system

Paths are relative to the repository; the Rust crate is in `src/`.

| Component | Code | State | Operations | Module | Status |
|---|---|---|---|---|---|
| RTP stream statistics | `stats.rs` `StreamStats`, `capture.rs` `handle_aes67`, `handle_st2110` | one entry per stream: sequence, loss, clock inference, counters of the Window | `update`, `apply_sdp`, `reset_window`, `diagnostics` | `RtpStream` | modelled, proved; no jitter, no bitrate |
| PTP clock tracking | `parser/ptp.rs`, `stats.rs` `PtpStats`, `capture.rs` `PtpState`, `handle_ptp` | one clock per (domain, version), PTPv1 followers, Sync senders | `update`, `check_timeout`, `check_ptp_sync_conflict`, `reset_window`, the clock lines of the report | `PtpClock`, abstractly `ClockStatus` and `ClockLife` | modelled, proved |
| Capture loop and Window | `main.rs` `run_loop`, `OfflineReportClock`, `capture.rs` `close_window`, `end_of_window`, `stats.rs` `collect_penalties` | the stores, the time of the last report | packet, tick, end of Window, end of file, exit | `CaptureWindow` | modelled, proved |
| Dante devices | `capture.rs` `DanteState`, `report.rs` `render_discovery` | bounded maps of sources, names, classes, ConMon entries, silence counters | discovery, ConMon, control plane, verification, bridge check, the device list of the report; census and address check | `DanteDevices`, `Advisories` | modelled, proved |
| IGMP and joins | `capture.rs` `handle_igmp`, `IgmpState`, `queue_multicast_join`; `main.rs` `drain_pending_joins` | query time and interval, queriers, Joins, joined groups, sockets | queries, reports, joins, querier penalties, advisories | `Igmp`, `Advisories` | modelled, proved |
| AVB | `capture.rs` `AvbState`, `handle_avb/msrp/mvrp/avdecc_adp`, `parser/avb.rs` | AVTP streams, declarations, VLANs, entities | frame, declarations, AVDECC, reset | `AvbReservations` | modelled, proved |
| SAP/SDP | `capture.rs` `handle_sap`, `cache_sdp`, `find_sdp_media`, `ts_refclk_alerts`, `parser/sdp.rs` | announcements by session, what they say of the streams | parse, cache with eviction, lookup, enrichment, clock cross-check | `SapSdp` (`RtpStream`, `Igmp` for its effects) | modelled, proved |
| NDI and TCP | `capture.rs` `handle_tcp`, `handle_ndi_discovery`, `NdiState`, `stats.rs` `TcpStreamStats` | sources, names, flows with counters and quality | discovery, segment, aggregation into streams, pruning, the lines of the report | `NdiTcp` (`CaptureWindow` for the penalty) | modelled, proved |
| Transmitter class, QoS, score | `protocols.rs` `classify_transmitter`, `capture.rs` `handle_dante`, `update_rtp_media_packet`, `stats.rs` `deduction`, `calculate_score` | profile and verdict of a stream, class of a source, violations of the Window | packet, control plane, eviction, score | `MediaHealth` | modelled, proved |
| Protocol detection | `parser.rs`, `protocols.rs` `is_selected` | none | VLAN tags, the rules in their order, port families | `Detection`, `PacketPath` | modelled, proved |
| Byte parsers | `parser/*.rs` | none | walks over labels, TLVs, records and vectors of a payload that may be cut | `WireFormats` (`PtpClock`, `SapSdp`, `AvbReservations` for theirs) | modelled |
| LLDP, flow control | `parser/lldp.rs`, `parser/flow_control.rs`, `capture.rs` `handle_lldp_eee`, `handle_flow_control` | ports with EEE, counters of PAUSE and PFC | announcement of EEE, its penalty | `WireFormats`, `CaptureWindow` | partly: PAUSE and PFC counters are shown and read by nothing else |
| Command line | `cli.rs`, `main.rs` | the selection | arguments, prompt, filter, startup joins and probe | `Selection`, `PacketPath` | partly: no menu, no texts; the agreement of the filter proved |
| Report layout, log | `report.rs` | none | | | formatting; *when* a report is printed and what it can still see is in the modules above |

**How they interact.** `handle_packet` calls one handler per frame; handlers write their substate and
sometimes another (ConMon and mDNS name streams; SAP enriches streams and queues joins, IGMP reports
queue joins; PTPv1 Delay_Reqs are followers that the Dante census reads). `end_of_window` is where all
meet: it runs the checks in a fixed order, computes the score with `collect_penalties`, and calls
`reset_window` of every substate. ADR 0002 fixes that every check reads every substate before any is
reset. `close_window` then builds the report **from the state the reset leaves**.

**What is hard, and what makes each part correct.**

- *Loss accounting*: a 16-bit (AVTP: 8-bit) number wraps; displaced packets look like loss. Loss must
  never be under-reported, be exact when the network keeps order, and appear in exactly one Window.
- *Clocks*: silence is noticed only at the end of a Window, recovery at any message. The alerts must
  tell the truth, in order; what belongs to one grandmaster must not outlive it.
- *End of a Window*: check, score, reset and render are four readings of one state that changes in
  between. Score, summary, alerts and exit status must agree about the Window.
- *Lifetimes*: dead after 10 s, pruned after 20 s, ConMon after 60 s, AVDECC by its own valid time,
  all observed only once per Window: nothing present may be forgotten, nothing gone may stay.
- *Bounded maps*: an eviction must take everything that belongs to the entry with it.
- *Derived rules*: what the user selected is stated as a kernel filter, as joins and as a predicate on
  protocols; a frame's class follows from a list of rules whose order matters (ADR 0001). They must agree, and
  none may take a random source port for evidence.
- *Enrichment*: announcements and packets come in any order, sessions are replaced, evicted and never
  withdrawn; a stream must be described as it was last announced.
- *Classification*: a verdict from signals that come and go decides which faults count.
- *IGMP*: queriers speak every 30 to 125 s, Windows last 5 s: what is remembered per Window and what
  across them decides whether a silence or a conflict is seen.
- *Liveness*: reports must come on a silent network; silent streams and devices must be noticed.

The hazards, each at its line and with the properties that guard it, are in `PROJECT.json`.

## 2. How the modules are written

One module per component; an `MC` module extends it for TLC and a `.cfg` gives one instance. Proofs are
in a module of their own. A handler of the code is one action and does all that the handler does;
`CloseWindow` (`Close` in `CaptureWindow`) is the component's whole share of `end_of_window` and
`reset_window`, in their order, as one step, since nothing can come between them in one thread.

*Time.* The code compares `now - last_seen` with thresholds. Models keep the age instead, which
`Tick` increments and which saturates above the largest threshold, so nothing needs a clock and the
state is finite. A live capture cannot be later than `Slack` with its report (the loop times out after
a second and checks the clock at its top): `Tick` is not enabled beyond `Window + Slack`. A replay has no
such guard.

*History variables*, marked `history:` where they are declared, belong to the properties; no action
reads them except to bound the model. Variables marked `environment:` are the network.

*Mutations.* A definition preceded by "Mutation of X" is a plausible bug in X. It is not used by the
specification; each checked property has one it is violated by.

How the modules depend on each other:

    WireFormats <- Detection <- PacketPath -> Selection
    ClockLife <- ClockStatus <- (refined by) PtpClock
    ClockLife <- (refined by) CaptureWindow
    RtpStream, CaptureWindow, DanteDevices, Advisories, Igmp, AvbReservations,
    SapSdp, NdiTcp, MediaHealth: a store each, or the reading of several stores
    <Module>Proofs: the proofs about <Module>, which it extends

Three proof modules hold the proofs of two components each: `RtpStreamProofs` those of `RtpStream` and `SapSdp` (what
is known of a stream), `AdvisoriesProofs` those of `Advisories` and `MediaHealth` (what a Window concludes),
`DanteDevicesProofs` those of `DanteDevices` and `PacketPath` (what a Dante source is known by). Since a module has one
`Next`, the second components carry a prefix: `SdpInit`, `SdpNext`, `SdpSpec`, `HealthSpec`, `PathSpec` and so on. The
specifications share no variable; nothing is composed by it.

### RtpStream

A sender has a clock rate, a packet interval, a number of packets that share a timestamp (a video frame), and
announcements of its session, each of which gives or leaves out the rate and the interval. It emits packet *i* with the
number `Wire(i)` and the timestamp `Stamp(i)`, the network loses, delays and repeats packets
within `Reach` of the expected position. `Arrive` is `StreamStats::update`, with what a new stream takes from the
session cache (`NewClock`), `ApplySdp` is `apply_sdp`, `CloseWindow` is `reset_window` after `diagnostics`. `SeqDelta` is
the code's `wrapping_sub(wrapping_add(1)) as i16`. Clock inference is the mode of `SampleSize` timestamp deltas
looked up in the table of known packet intervals. The 32-bit timestamp does not wrap within the distances considered.

The timestamp check compares each step with one packet at the rate that is known, and takes an interval that is not known for
1 ms (`stats.rs:312`). A clean stream is therefore reported clean only if its sender is `WellAnnounced`: one packet for each
timestamp, no video, and either 48 kHz and 1 ms, the defaults, or a rate and an interval that are announced together or
not at all. `CleanStreamIsClean` and its theorem have this condition; without it every packet of a clean stream may count as a
jump (`EveryCleanStreamIsClean` of section 4).

### ClockLife, ClockStatus and PtpClock

`ClockLife` is the promise the rest of the program rests on: per domain a status (unheard, unnamed,
present, lost) and a silence. `ClockStatus` adds the alerts of each step. `PtpClock` is the code. `HandlePtp` is
`parse_ptp` (as the set of messages it yields), `handle_ptp` and `PtpStats::update`; `CloseWindow` is the
timeouts, the conflict check and `PtpState::reset_window`. The entry of a key is kept with its grandmaster,
delays, change counter and Sync senders. The refinement mapping derives the status from `clock_valid`,
`protocol_clock_lost` and `packets`. `Heading` is the line a domain has in the report. Of its branches
two cannot be reached, the one that says "clock lost" (a timeout clears the grandmaster it is
chosen by) and the one that says "no clock detected" (every message brings a clock identity).

### CaptureWindow

The loop with its reporting clock, live (`LiveReport`) or in a replay (`ReplayReport`, `EndOfFile`).
A handler is reduced to what the end of a Window reads: an age, the diagnostics raised, the state of a
clock, the quality of a flow, the ports with EEE. A penalty is a pair of category and subject;
`CollectPenalties` is `collect_penalties`, `Close` is `close_window`: penalties from the state of the Window,
bullets from the state after the reset. In the live model packets may still arrive between the moment the
Window is over and the report, while the loop looks at the clock at its top; this is more than the code can do
(one packet), so what holds in the model holds in the code.

### DanteDevices

Discovery, ConMon, control plane and audio in any order, with `RecordSource` evicting any entry of a
full set (the hash order is arbitrary). The environment rewires devices to other addresses. A source
has at most one stream. The report is the device list (`Discovered`): who is verified, pending, unverified, and
whether the list says that all are live.

### Advisories

The checks of `end_of_window` that read several stores before any is reset: the follower census, addresses
without DHCP, unregistered multicast, snooping, bandwidth, the spike of streams. `CloseWindow` evaluates
them and resets the stores they read, in the order of the code (ADR 0002). The census may take the grandmaster
of any PTPv1 domain (hash order).

### Igmp

Queriers with a fixed period, whose queries may be lost (`Lose`) and who may stop for good (`Stop`);
snooping switches whose Group-Specific Queries must count for nothing; hosts that join groups and leave them (`Memberships`);
reports and announcements that name groups, each of which is `queue_multicast_join` followed by
`drain_pending_joins` before the next packet. The queue is the places of the groups named (`Pending`), since a
group may be named twice and each attempt may fail on its own. The groups joined at startup (`Startup`) are in neither store of
joined groups. One of them that reports and announcements may name as well, as 239.255.255.255 is when Dante is selected, can get a
second socket: `JoinsAgree` counts it, and only `OneSocketPerGroup` (section 4) denies it.

### AvbReservations

`Frame` is `handle_avb` with `update_seq`; `Msrp` takes a list of declarations in one frame, the last of
a stream wins, be it the talker's or a listener's; `Available` and `Departing` are AVDECC. What a listener's declaration hides is
kept apart (`masked`, the mismatches, and `answered`, the failures it has replaced), so that the properties say exactly what is
counted and deducted, and what is not. `CloseWindow` has the failure penalty, the reset in
its order and the reservation lines of the report. Frames lost in a row are fewer than half the range
of the number: beyond that 8 bits cannot tell loss from reordering. (The comment of the AVDECC expiry in
`stats.rs` speaks of `valid_time + 10`; the code keeps an entity for `max(valid_time, 10) + 10`, which
is what `Lifetime` does, with `Grace` for 10.)

### SapSdp

A document is a sequence of the lines `parse_sdp` looks at and, for the properties, what its author means by
it. A connection may be that of a media section, that of the session, which `parse_sdp` does not read, or missing. A document is
not clear (`Clear`) about a stream when the sections that have its port, and its group or none, say something else than is
meant, or anything where nothing is. `Sap` is `handle_sap`: the packet is parsed, the session cached (a full cache evicts any session nobody
streams, else any), every stream it describes is enriched. A first packet looks its description up in the
cache: a section describes a stream by its port and, if it names one, its group; any cached session with such a
section may be found (`Matches`, the hash order), and its first one counts (`FirstSection`). `CloseWindow` prunes
the silent streams and compares the announced clocks with those on the wire.

### NdiTcp

A connection's sender numbers its segments from an arbitrary start modulo `SeqMod`; the capture may miss
segments and see some again or late, but never so many in a row, or so late, that the sender is more than `Reach`
ahead of the newest number the capture has seen: beyond half the range 32 bits cannot tell ahead from behind. `HandleTcp` is `handle_tcp`: which segments are looked at, the step
back of the number (`Behind`), quality and aggregation into the stream of each source at either end. Discovery
is `handle_ndi_discovery` with eviction. `CloseWindow` scores, prunes and then shows.

### MediaHealth

`DantePacket` is the Dante branch that profiles a sender, classifies it and checks its mark; `MediaPacket` the
checks of AES67 and ST 2110; `ControlPlane` and `Evict` change what is known of a source. `Classify` is
`classify_transmitter`, the timing being metronomic, ambiguous or irregular by the share of uneven
distances among the last samples. `Deduction` and `Score` are exact, in hundredths of a point, with
the caps and roundings of the code; `Shown` is the form `{:.0}` gives it.

### WireFormats, Detection, Selection, PacketPath

Operators and their composition. `WireFormats` has the walks over payloads, as recursive functions over
offsets; `Detection` is `unwrap_vlan` and the rules of `detect_protocol_unwrapped` in their order;
`Selection` is the command line, the prompt, what a choice includes, the filter (`Passes`) and the joins.
A choice includes a set of protocols, and the command line, the prompt and the filter are read as sets of them; an option
that takes a value takes the word after it (`Usable`). `PacketPath` starts the program with a selection, puts a
frame on the wire and follows it through filter, detector and `is_selected`. Frames are those beside the edges of the port
families, tagged, cut at whichever octet and in the encodings senders use, and IP of a protocol that the detector, which
looks for IGMP and TCP only, reads as if it were UDP. `FilterPassesSelected` says of those that no handler gets them; of a TCP
segment cut within its header, which the detector takes for UDP too, that one gets it only where NDI is asked for, whose filter
passes TCP; and of all others with at most one tag that a handler gets exactly what was asked for. One name is read from an mDNS
message. `NamesAreWritten` therefore leaves out messages that answer for several instances and those that list services, which
are in the run and are followed like any other frame.

## 3. What is checked

| Run | Instance | Distinct states | Shows |
|---|---|---|---|
| RtpStreamOrder | 5 senders, 6 packets, 5 arrivals, numbers modulo 8 from 5, reach 3 | 1 203 000 | loss is never under-reported, exact in order, billed to one Window; a clean stream of a sender whose clock is announced in full, not at all, or is the default has no diagnostics |
| PtpClocks | a PTPv1 or a PTPv2 domain, 2 devices, 2 grandmasters | 115 000 | implements `ClockStatus`; the last alert is true; path-delay bounds are of the grandmaster that took over; conflicts are those of the Window; silence ends validity |
| WindowLive | a Dante stream, a PTPv1 and a PTPv2 domain, units of 2.5 s | 228 000 | faults, lost and missing clocks and deaths are reported in their Window, each loss of a clock by exactly the alerts it calls for; reports keep coming; the clocks implement `ClockLife` |
| WindowReplay | a stream, a TCP flow, 2 queriers, a port with EEE, gaps of any length | 501 000 | no bullet without a penalty |
| DanteMaps | 2 addresses for one place, a device on one or both networks, threshold 2 | 311 000 | the device maps agree with each other and with the streams; unverified means silent for the threshold, silence is flagged in the end; a bridge is reported |
| Advisories | 2 devices and 2 PTPv1 domains, or 3 flows, or a device, a flow and a querier | 826 000 | no device that syncs is named; a filter or a spike is concluded from a silence, never from a gap |
| IgmpNetwork | 2 queriers that are switches too, with losses, a membership, 2 groups, one of them joined at startup | 392 000 | one missed query is not silence; silence is noticed; a conflict is one of this Window; queue, sockets and joined groups agree, one socket for each join; one alert per membership |
| AvbNetwork | one stream, numbers modulo 4, talker and listener declarations two to a frame, a VLAN, an entity | 258 000 | loss exact over wraps and pruning; PCP mismatches counted and failures deducted, but for those a listener's declaration hides; no second discovery |
| PacketPath | every selection, frames of every kind | 105 000 | filter and predicate agree, other IP protocols reach no handler; source ports decide nothing; names, groups and VLANs are those written |
| SdpCache | 5 sessions for a cache of 2, two streams on one port | 87 000 | streams are described as last announced, where the last document is clear about them |
| NdiTcp | one connection, numbers modulo 6, segments missed, repeated or late, 2 sources for one place | 522 000 | retransmissions exact across the wrap and pruning; a reset costs its Window and no other |
| MediaHealth | a Dante stream of a device or a soundcard, a video stream | 167 000 | the mark is excused exactly on the verdict; a wrong mark of hardware always costs |

**Bounds, and why they are enough.** Every comparison in the code is between an age and a threshold, or
between numbers at a small distance. Ages run past the largest threshold in every instance, so every
order of expiries occurs; where thresholds are shortened (the comment at the head of each `MC` module says
how) their order and their relation to `Window + Slack` are kept. `Modulus = 8` with six packets
from 5 wraps once, with gaps and displacements on both sides of the wrap; the proof covers 2^16. Two
grandmasters, devices or queriers are what a change, a conflict or an eviction needs; an evicted
device can come back in every instance. Counters are capped where only the first
steps of the penalty table tell them apart (`ChangesCap`) or by what the environment may do (`MaxSent`,
`MaxArrivals`, `MaxCount`, `MaxMissed`, `MaxSegments`, `MaxAgain`, `MaxProbes`, `MaxPackets`). Two `MC` modules
restrict the environment where parts do not interact, and say so: `MCPtpClock` (one of the two entries is heard)
and `MCAdvisories` (one of the questions at a time); `MCDanteDevices` leaves out control traffic of addresses that
send nothing else. IgmpNetwork takes queriers, and AvbNetwork priorities, as symmetric: they are model values that are only
compared, and the properties of these runs are invariants and properties of steps.

**Deadlock** is checked except where the system stops or has nothing more to do: in the RtpStream runs (the sender
has a last packet), the Window runs (the process exits) and PacketPath (a command line that is refused).

**Fairness.** Liveness is checked under fair specifications only, and on the smallest assumptions: time passes
(`WF(Tick)`) and the loop comes back to its top and closes a Window that is over
(`WF(LiveReport(FALSE))`, `WF(CloseWindow)`). The code earns the second: `next_packet` returns after
a second without packets, and the clock is looked at before every packet. No packet is ever assumed to
arrive. The safety runs use `Spec`.

## 4. Where code and documentation disagree

Found while modelling: statements of the documentation, of comments or of a reasonable reader that the code
does not keep. Each is a property outside the table above, in the configuration named here, which lists its
component's and has one of them active: comment in the one of interest (and set the constant its comment
names, if it names one), and `tlc -config <name>.cfg MC<module>` prints the counterexample. Several are
deliberate simplifications; they are listed so that nobody relies on the stronger statement. The ones that
touch a hazard are quoted in `PROJECT.json`.

| Configuration | Property | What the code does | What the repository says |
|---|---|---|---|
| RtpStreamClaims | ReorderIsNotLoss | a displaced packet counts as lost, and again through its successor | `stats.rs:147`, `stats.rs:1548` |
| RtpStreamClaims | EveryCleanStreamIsClean | an interval that is not announced counts as 1 ms: every packet of clean video, or of 4 ms with the rate alone announced, is a jump | `stats.rs:304`, `capture.rs:1020` |
| RtpStreamClaims | TimestampCheckNeedsSdp | the timestamp check runs on an inferred clock too | `stats.rs:306` |
| WindowClaims | NoPenaltyWithoutBullet | the Health Summary is built after `reset_window`: loss, gaps, SSRC and DSCP are deducted without a bullet | `CONTEXT.md:44`, `report.rs:1047` |
| WindowClaims | QuietHidesHealthyOnly | a quiet run hides the Windows whose bullets are lost | `README.md:137` |
| WindowClaims | DropoutDominates | the flag of a correlated dropout is cleared before the report reads it | `capture.rs:664` |
| WindowClaims | ExitTellsAnyIssue | the exit status is that of the last Window | `README.md:136`, `README.md:145` |
| WindowClaims | OwnLossIsAnnounced | the alert of a dropout takes the place of all others: a PTPv1 clock lost in a Window with a dropout of PTPv2 is not announced | `capture.rs:1691` |
| WindowClaims | MissingClockIsScored | a stream whose clock was never heard scores 100 | `CONTEXT.md:40` |
| WindowClaims | ChangeIsOfThisWindow | one change of the grandmaster is deducted in every later Window; so is a port with EEE, whose entry is never pruned | `CONTEXT.md:40` ("within the current Window") |
| AvbClaims | EveryFailureScored | talker and listener share the entry of a stream: a listener hides a failure from the score | `README.md:418` |
| AvbClaims | EveryMismatchCounted | once a listener has declared, wrong tags of the stream are not counted | `capture.rs:1236` |
| AvbClaims | ListenerShown | the listener's state of a reserved stream is never shown | `README.md:336` |
| AvbClaims | ShownTagsDiffer | a mismatch may be reported with two equal priorities | `capture.rs:1236` |
| WindowClaims | DeadShownBeforePruned | a gap in a replay prunes a stream that was never shown dead | `capture.rs:37`, `README.md:173` |
| PtpClaims | AbsentMasterEndsValidity | any PTP message keeps a vanished grandmaster valid | `stats.rs:1215` |
| PtpClaims | OneKindPerEntry | gPTP and UDP PTPv2 of one domain number share an entry | `stats.rs:1204` |
| PtpClaims | DelaysOfOneMaster | path-delay bounds survive to a grandmaster that follows a loss | `stats.rs:1301` |
| PtpClaims | HeadingIsTrue | a domain whose grandmaster was lost is headed "no grandmaster elected" | `report.rs:597` |
| DanteClaims | BridgeMeansTwoNics | a device that moves to another address is reported as bridging | `capture.rs:246` |
| DanteClaims | UnverifiedIsSilent | a device just heard is shown unverified for one more Window | `capture.rs:203` |
| DanteClaims | AllLiveTrue | the device list says "all live" although a device in it was never heard on ConMon | `report.rs:446`, `README.md:352` |
| IgmpClaims | OneSocketPerGroup | a group joined at startup is joined again | `capture.rs:764` |
| IgmpClaims | QueriedIsNotSilent | the interval between two queriers' queries is taken for the query interval | `stats.rs:976` |
| IgmpClaims | CompetingQueriersScored | queriers that query in different Windows are never a conflict | `README.md:418` |
| AdvClaims | SpikeMeansDouble | the average is rounded down: fewer than twice the streams are a spike | `capture.rs:1448` |
| AdvClaims | SpikeIsGrowth | a spike is announced while the number of streams falls | `capture.rs:1449` |
| AdvClaims | MastersNotNamed | with two PTPv1 domains the grandmaster of one is named as not syncing | `capture.rs:322` |
| PathClaims | AvbHearsPtp | with AVB alone the PTP groups are joined and the filter drops PTP over UDP | `README.md:20` |
| PathClaims | SourcePortIsNoEvidence | a source port of Linux' ephemeral range (from 32768) makes a flow Dante | `protocols.rs:565` |
| PathClaims | EveryNameIsWritten | of an mDNS message that answers for several instances one is read, and a list of services names a device after a service | `parser/mdns.rs:12` |
| PathClaims | ProductIsOfAnswers | an NDI source that answers the probe, which asks for Dante too, is taken for a Dante device | `README.md:16` |
| PathClaims | TrackedIsJoined | Dante audio outside 239.255.0.0/16 is never joined | `README.md:212`, `README.md:222` |
| SdpClaims | AnyAnnouncementDescribes | a `c=` line of the session, before the first `m=`, is ignored: another stream on the port is described by it | `parser/sdp.rs:85` |
| SdpClaims | ReturnedAsAnnounced | a stream that returns may be described by a session that has been replaced | `capture.rs:930` |
| SdpClaims | RefclkAlertTrue | a PTPv1 reference clock is compared with the PTPv2 clock of the domain | `capture.rs:1651` |
| NdiClaims | RetransmissionsExact | a new connection on old ports is compared with the old one's numbers | `stats.rs:832` |
| NdiClaims | RetransmissionsReal | a keepalive counts as a retransmission | `stats.rs:832` |
| NdiClaims | StreamNamed | a stream made before its source was named stays unnamed | `README.md:16` |
| NdiClaims | ResetShown | a flow whose reset is deducted is pruned before the report is rendered | `README.md:16` |
| HealthClaims | SoftwareExcused | a software sender not yet classified is charged for its mark | `capture.rs:1129` |
| HealthClaims | VerdictOnlyUpgrades | a confirmed verdict may become an inferred one again | `capture.rs:1122` |
| HealthClaims | DeductionShown | a deduction below half a point is shown as 100 % | `CONTEXT.md:44`, `report.rs:1069` |

## 5. What is proved

All theorems hold for every value of the constants that meets the named assumptions. Each proof has the
same shape: an inductive invariant, one lemma per kind of step, and the theorems as its consequences.

**RtpStreamProofs.** Assumption of weight: `ReachAssumption`, `2 * (Reach + 1) <= Modulus`; the network
displaces packets by less than half the range of the number, without which no 16-bit tracker can
work. The loss properties alone are not inductive, since nothing in them ties the last number seen to
the packet it came from. The invariant adds *Tracking* (that number is `Wire` of the most
recently received packet, and what has been delivered lies between the first and the furthest) and
*Accounting* (lifetime loss is billed loss plus the open Window's). Modular arithmetic is in lemmas about
`Wire`, `WrapSub` and `SeqDelta`: within the reach the delta is the distance of the packets. Proved:
types, loss never under-reported, exact in order, shown once. For `CleanStreamIsClean` the invariant is joined by
*CleanSoFar*: as long as nothing of a `WellAnnounced` sender is missing or displaced, no jump and no reordering is in the
Window's counters, all sampled timestamp deltas are the sender's step, so that their mode, whichever rule it is found by, is
that too, and a confirmed clock, announced or inferred, expects that step (*TrueClock*). An inferred pair need not be the
sender's own, only one that makes the same step; later announcements replace both parts of it or none, which is where the
condition on announcements is needed.

**PtpClockProofs.** `LastAlertIsTrue` needs `ClockStates`: valid exactly with a grandmaster, never
valid and lost together. With the types these are inductive. Proved: types, entry consistency, truth of
the last alert, order of the alerts (an action property, from the same invariant), that the bounds of the path delay are
those of the delays reported since the grandmaster took over (`DelaysKept`, with the reported delays remembered apart from the
entry, *AllRemembered*), and that `PtpClock` implements `ClockStatus` (`ImplementsStatus`). The
refinement has one lemma per action: a message maps to an election, a change, a recovery or a message that
alters nothing, according to the branch of `PtpStats::update` it takes; the end of a Window maps to a
step in which the silent clocks, and only those, are lost; `Tick` maps to the silence of every domain.
`ConflictMatchesWindow` rests on *Census*: the entry of a domain names each device that has sent Sync in the open
Window once, so that two entries are two devices.

**CaptureWindowProofs.** The invariant adds *OwedMatches* (what is owed since the last Window is what
the counters hold), *DeadBound* (a stream not yet shown dead is at most `StreamTimeout + elapsed` old: the
Window before was no older) and *LostNotValid*. Assumption of weight: `PruneAssumption`,
`StreamTimeout + Window + Slack < PruneAge`, which the code's 10, 5, 1 and 20 seconds meet. Proved: types,
no bullet without a penalty (live and replay, ports with EEE included), lost clocks named, missing clocks
explained, faults in their Window, and
that each report has exactly the alerts its losses call for (`LossAnnounced`: a clock is lost when a Window closes and not
otherwise, *LostOnClose*, and then it is one of the overdue, *LostAreOverdue*), and for a live capture that a stream is shown dead before it
is forgotten. `ImplementsLife`: the clocks of the loop implement `ClockLife`, one lemma for each kind of step, so that
what the end of a Window concludes from them rests on no more than `PtpClock` provides, which implements the same
`ClockLife` with the alerts of `ClockStatus` on top. (The alerts differ by design: a correlated dropout replaces those of the
single clocks, so the loop does not implement `ClockStatus`; that no loss goes unannounced is `ClockLossIsAnnounced`.)

**DanteDevicesProofs.** `DeviceMapsAgree` is inductive, but only since an eviction takes the name and the class of the
victim along (its ConMon entry and its counter of silent Windows stay, and no bound holds of those): the proof has a lemma for the insertion into a full set (`EvictionMakesRoom`), and the bound holds because
exactly one entry goes for each that comes. `UnverifiedWasSilent` needs *CountersEarned* (a counter of silent Windows
is at most the Windows the device has been silent, although an eviction may have restarted it) and *HeardIsFresh* (what
was heard in the open Window is still in the maps when it closes). The latter is where `PruneAssumption` enters,
`Window + Slack` below both pruning ages (20 s and 60 s in the code). `BridgeReported` needs *MacIsLast*.

**IgmpProofs.** The joins: *SocketsCounted* (a group has one socket from startup and one from the store, each or
neither) and *StoresAgree* (the two stores of joined groups are equal) are inductive without assumption, for any
queue, duplicates and failures included. So `JoinsAgree` is a theorem (`JoinsHold`) without hypothesis: it says how
many sockets each group has, also one that is joined at startup and named by a report, as 239.255.255.255 can be
with Dante selected, which has two (`IgmpClaims`). Silence: the properties say nothing of what is remembered, so the invariant ties it to the
network: the last query is as old as the losses since then explain (*QueryInTime*), the interval is one the losses can
have produced (*IntervalInTime*), and with a single querier at least its period (*OwnInterval*). The products of losses
and period are the one place with nonlinear arithmetic; they are bounded in lemmas. Assumption of weight:
`FallbackAssumption`, `2 * Period <= Fallback`, the 260 s of the code against the default period of 125 s.

**AdvisoriesProofs.** `SyncingDevicesNotNamed` needs *FollowersRemembered*: a device is in the census with the age of its
last Delay_Req, or that age exceeds the pruning age by the time since the last reset, because a reset happens only
at the end of a Window, after the check. `AdvisoriesAreEarned` needs *SilenceCounted*: while no flow is known, the media
silence is at least the pruning age, and a Window more for each Window counted as suspect; it rests on
*FlowsInTime* and *MediaRemembered*, which tie the ages of flows to the last media packet.

**AvbReservationsProofs.** For `AvtpLossExact` and `RediscoveredOnlyWhenGone` the invariant needs
that a forgotten stream is forgotten in all its parts (*StreamForgotten*) and that an entity in the map has the age
and valid time of its last announcement, one outside it has gone (*EntitiesRemembered*). A step of the 8-bit number by at
most `MaxSkip` lost frames is `2 * MaxSkip < SeqMod`, half its range. Talkers and listeners share the entry of a stream, so a listener's declaration hides
the talker's (`AvbClaims` shows it). *EntryIsOfLast* says whose the entry is: the talker's last declaration, unless a
listener has declared since; *ViolationsAre* that what is counted, and what is sent while the entry is a listener's, is what
was tagged wrongly. From them `CountsExact` and `FailureScored` hold whoever declares and in whatever order. The last declaration of a frame wins; that there is a last one is `LargestExists`, a finite set of
naturals has a maximum. It is an induction over finite sets, whose library theorem takes an operator; the lemma instead
takes a least counterexample under the well-founded order of strict subsets.

**NdiTcpProofs.** `ResetScoredOnce` needs only that a flow that was reset in the open Window is known, and terminated.
`RetransmissionsExact` needs *Tracks*: the number kept is that of the newest segment seen, of which the sender is ahead by
at most `Reach`, less than half the range. Then the comparison of numbers modulo `SeqMod` (`Behind`) is that of
segments, which is a lemma for every even width. Its assumption `~Reuse`: no new connection on the ports of a flow that is still
remembered, without which its numbers are compared with those of the old connection (`NdiClaims` shows it).

**RtpStreamProofs, on SapSdp.** `LatestAnnouncementDescribes` is a theorem (`DescribedAsAnnounced`) for any set of
documents. What the property excepts is in the state: a stream is `unclear` as long as the last document to speak of it does not
say what is meant of it, and `certain` only while no other session can be taken for its own. The property is not inductive
alone: a stream that comes later takes its description from the cache, so *CacheCurrent* says that the session that means a
certain flow is in the cache as it was last announced. `CacheIsBounded` is the bound the eviction is there for. Which session a
full cache evicts is modelled (`Victims`) and no property of its own.

**AdvisoriesProofs, on MediaHealth.** The class of a sender is judged again at every packet, from signals that come in any
order. `GateAgreesWithVerdict` is a statement about two calls of `classify_transmitter`, one of them without the mark: `SoftwareGround`
shows that they differ only where the verdict is a hint. `MismarkedScored` needs to know that hardware is never excused:
*ClassIsNature* (what has been learned of a source is true), *Steady* (the packets of hardware come evenly and from
no Windows host, so that no signal says software) and *WrongIsMarked* (a wrong mark is in the counters of its Window). That 500
hundredths of a point are then missing from the score needs that no other deduction is negative, hence that a sum of natural
numbers is one (`SumIsNat`). The sum of the library is a fold over a set, and its induction theorem takes an operator; the
proofs instead write the function the fold chooses, show that there is one by counting points (`SumExists`), and take a least
subset where it would leave the naturals. Assumptions of weight: `NatureAssumption`, hardware does not start from the
TTL of Windows, and `StreamAssumption`, there are finitely many streams, each of a source.

**DanteDevicesProofs, on PacketPath.** Each packet is on its own, so the invariant *PathInv* says no more than that
the selection consists of concrete protocols (through the command line, the prompt and the expansion: `ExpandedAreConcrete`) and
that what is known of a packet is what was made of it. `FilterPassesSelected` is then a statement about three
operators: what the detector makes of a UDP frame is of one of the kinds a UDP filter passes (`UdpIsOfUdp`, rule by
rule), so a frame that the filter drops is of no kind that was asked for (`DroppedIsNotSelected`), for every
frame whatever its ports, groups and payload. `SourcePortIsNoEvidence` holds where hosts draw ephemeral ports from the
dynamic range of IANA (`Dynamic`, 49152 to 65535), which the theorem has as its hypothesis: Windows and macOS do. It is false for the
range Linux has by default, from 32768, which meets the ports of DVS and Via (`PathClaims` with `MCLinux`).
The rules are taken one after another in the order of `detect_protocol_unwrapped`; a dynamic port is in no family that a source
port decides of (`DynamicIsInNoFamily`), so that each rule decides alike for both ports (`SameRules`).

**Only model-checked.** Of the 39 properties of the runs, 35 are stated by a theorem. The other four:

- `ReportsKeepComing`, `SilenceEndsValidity` and `SilentSourceFlagged` are liveness under fairness, which needs ENABLED and is out of
  the prover's reach.
- `NamesAreWritten` compares what the walks of `WireFormats` find with what a sender wrote. The walks are recursive functions over
  a payload of any length, and what they compute is an induction over data.

## 6. Not modelled, and why

- The jitter estimate and the bitrates: real-valued averages of arrival times. Where a threshold on them decides
  something (`MediaHealth`'s timing, the quality of a flow in `CaptureWindow`) the crossing is an input.
- A sender that restarts with a random sequence number, and two senders to one multicast group (streams of AES67
  and ST 2110 are keyed by destination): both break the assumption on the network that `RtpStream` is checked
  and proved under. They need a sender of their own.
- Steps of the clock back in a capture file: time in the models does not go back.
- Queriers that restart, and the advisory on a query interval above 60 s (one comparison).
- PAUSE and PFC: counters that are shown and reset, and that nothing else reads. (The comment at `capture.rs:1356`
  speaks of a score penalty; `collect_penalties` has none.)
- The interface menu, layout, colours, wording, the log file.

## 7. State and plan

All components of the table in section 1 are modelled and checked, and every safety property and action property that a
run checks is a theorem, except `NamesAreWritten`; so are the refinements of `ClockStatus` by `PtpClock` and of `ClockLife` by
`CaptureWindow`. What would come next:

1. `RtpStream` with senders that restart and second senders to a group; `CaptureWindow` with steps of the clock back.
2. `CaptureWindow` composed with the stores in full, instead of the ages and counters it reads of them.
