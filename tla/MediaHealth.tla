------------------------------ MODULE MediaHealth ------------------------------
(***************************************************************************)
(* What a Window deducts for its media streams: the Transmitter Class of a *)
(* Dante flow (TransmitterProfile, classify_transmitter) and the check of  *)
(* its DSCP that depends on it, the checks of AES67 and ST 2110 packets    *)
(* (update_rtp_media_packet), the deductions of the diagnostics with their *)
(* caps, the Health Score and the form it is shown in.                     *)
(*                                                                         *)
(* A packet is [dscp, ttl, ecn, pcp, even]: even when its distance from    *)
(* the one before is that of a steady sender.  The coefficient of          *)
(* variation of the distances is the share of those that are not even.     *)
(* Scores and deductions are in hundredths.  The counters of RtpStream are *)
(* raised by a step of their own.                                          *)
(***************************************************************************)
EXTENDS Integers, FiniteSetsExt, SequencesExt

CONSTANTS
    Streams,
    SourceOf,               \* the source of each stream
    ProtocolOf,             \* "Dante", "AES67", "Video" (ST 2110-20) or "ST2110"
    Natures,                \* what the sources may be: the class and host's TTL of each
    Marks,                  \* DSCP values that a badly configured sender may use
    MinSamples, MaxSamples, \* MIN_SAMPLES, MAX_IAT_SAMPLES
    Counters,               \* the counters of RtpStream that may be raised
    MaxPackets, MaxCount    \* bounds: packets of a stream and counts in a Window

ASSUME SampleAssumption == MinSamples \in Nat \ {0} /\ MaxSamples \in Nat /\ MinSamples <= MaxSamples
ASSUME StreamAssumption ==
    /\ IsFiniteSet(Streams)
    /\ \A n \in Natures, s \in Streams : SourceOf[s] \in DOMAIN n
    /\ Counters \subseteq {"lost", "jitter", "timestamps", "ssrc", "gaps"}
\* No device starts from the TTL of Windows, which is taken for a sign of software.
ASSUME NatureAssumption ==
    \A n \in Natures : \A i \in DOMAIN n :
        n[i].ttl \in Nat /\ (n[i].class = "Hardware" => n[i].ttl \notin {128, 129})

VARIABLES
    nature,    \* what the sources are
    class,     \* DanteState.transmitter_class
    streams,   \* the streams: transmitter profile, violations and counters of the Window
    ecn,       \* NetworkHealth.ecn_congestion_marks
    score,     \* network_score, when the last step closed a Window
    last,      \* history: the last packet of a Dante flow and whether it was counted
    wrong      \* history: streams of which a packet of this Window had a wrong mark

healthVars == <<nature, class, streams, ecn, score, last, wrong>>

EF == 46
Unset == -1
NoClass == "none"
NoVerdict == [class |-> NoClass, confidence |-> "none"]
NoStream == [packets |-> -1, even |-> <<>>, ttl |-> Unset, dscp |-> Unset, verdict |-> NoVerdict,
             mismarked |-> FALSE, pcp |-> FALSE, counts |-> [c \in Counters |-> 0]]
NoPacket == [of |-> {}, dscp |-> EF, counted |-> FALSE]

Known(s) == streams[s].packets >= 0

HealthInit ==
    /\ nature \in Natures
    /\ class = [i \in DOMAIN nature |-> NoClass]
    /\ streams = [s \in Streams |-> NoStream]
    /\ ecn = 0 /\ score = 10000
    /\ last = NoPacket /\ wrong = {}

-----------------------------------------------------------------------------
(* The Transmitter Class. *)

\* Mutation of Metronomic: a few samples are as good as many.
MetronomicEarly(samples) ==
    LET odd == Cardinality({i \in DOMAIN samples : ~samples[i]})
    IN  IF 10 * odd < Len(samples) THEN "even" ELSE "noisy"

\* timing_metronomic: variation below 0.10, above 0.30, or neither; nothing before there
\* are enough samples.
Metronomic(samples) ==
    LET odd == Cardinality({i \in DOMAIN samples : ~samples[i]})
    IN  CASE Len(samples) < MinSamples -> "unknown"
          [] Len(samples) >= MinSamples /\ 10 * odd < Len(samples)     -> "even"
          [] Len(samples) >= MinSamples /\ 10 * odd > 3 * Len(samples) -> "noisy"
          [] OTHER                                                    -> "unknown"

Verdict(c, confidence) == [class |-> c, confidence |-> confidence]

\* classify_transmitter: the control plane, then the timing, then the TTL of Windows, and
\* a missing mark only when there is nothing else.  (The signs are not counted here.)
Classify(sig) ==
    LET guess == IF sig.timing # "unknown" THEN sig.timing
                 ELSE IF sig.ttl = 128 THEN "windows"
                 ELSE IF sig.unmarked THEN "unmarked" ELSE "nothing"
    IN  CASE sig.control # NoClass -> Verdict(sig.control, "Confirmed")
          [] sig.control = NoClass /\ guess = "even" -> Verdict("Hardware", "Inferred")
          [] sig.control = NoClass /\ guess \in {"noisy", "windows"} -> Verdict("Dvs", "Inferred")
          [] sig.control = NoClass /\ guess = "unmarked" -> Verdict("Dvs", "Hint")
          [] OTHER -> NoVerdict

\* Mutation of IsSoftware: the missing mark is a sign as well.
IsSoftwareUnmarked(sig) == Classify(sig).class \in {"Dvs", "Via"}

\* is_software_ignoring_dscp: a missing mark does not excuse itself.
IsSoftware(sig) == Classify([sig EXCEPT !.unmarked = FALSE]).class \in {"Dvs", "Via"}

\* record_tx_class, of ConMon and of the control planes of the products.
ControlPlane(i, c) ==
    /\ class' = [class EXCEPT ![i] = IF c = "Hardware" /\ @ # NoClass THEN @ ELSE c]
    /\ last' = NoPacket /\ score' = 10000
    /\ UNCHANGED <<nature, streams, ecn, wrong>>

\* A source that record_source evicts loses its class.
Evict(i) ==
    /\ class[i] # NoClass
    /\ class' = [class EXCEPT ![i] = NoClass]
    /\ last' = NoPacket /\ score' = 10000
    /\ UNCHANGED <<nature, streams, ecn, wrong>>

-----------------------------------------------------------------------------
(* Packets. *)

Heard(s) == IF Known(s) THEN streams[s] ELSE [NoStream EXCEPT !.packets = 0]

\* record_iat: the first packet has no distance.
Sampled(st, even) ==
    IF st.dscp = Unset THEN st.even
    ELSE LET longer == Append(st.even, even)
         IN  IF Len(longer) > MaxSamples THEN Tail(longer) ELSE longer

\* handle_dante: mark and TTL are recorded, the class is judged anew, and a packet without
\* the mark counts unless the mark is 0 and the source is software.
DantePacket(s, p) ==
    LET st   == Heard(s)
        seen == [st EXCEPT !.packets = @ + 1, !.even = Sampled(st, p.even),
                           !.ttl  = IF @ = Unset \/ p.ttl < @ THEN p.ttl ELSE @,
                           !.dscp = IF @ = Unset THEN p.dscp ELSE @]
        sig  == [control |-> class[SourceOf[s]], timing |-> Metronomic(seen.even),
                 ttl |-> seen.ttl, unmarked |-> seen.dscp = 0]
        count == p.dscp # EF /\ ~(p.dscp = 0 /\ IsSoftware(sig))
    IN  /\ streams' = [streams EXCEPT ![s] =
              [seen EXCEPT !.verdict = Classify(sig), !.mismarked = @ \/ count]]
        /\ last' = [of |-> {s}, dscp |-> p.dscp, counted |-> count]

\* update_rtp_media_packet: video may use CS5 and AF41 as well.
DscpOk(s, dscp) == dscp = EF \/ (ProtocolOf[s] = "Video" /\ dscp \in {34, 40})

MediaPacket(s, p) ==
    /\ streams' = [streams EXCEPT ![s] =
          [Heard(s) EXCEPT !.packets = @ + 1,
                           !.mismarked = @ \/ ~DscpOk(s, p.dscp),
                           !.pcp = @ \/ p.pcp \notin {Unset, 6}]]
    /\ last' = NoPacket

Packet(s, p) ==
    /\ streams[s].packets < MaxPackets
    /\ IF ProtocolOf[s] = "Dante" THEN DantePacket(s, p) ELSE MediaPacket(s, p)
    /\ ecn' = IF p.ecn = 3 /\ ecn < MaxCount THEN ecn + 1 ELSE ecn
    /\ score' = 10000
    /\ wrong' = IF DscpOk(s, p.dscp) THEN wrong ELSE wrong \cup {s}
    /\ UNCHANGED <<nature, class>>

\* A counter of RtpStream; "jitter" is an estimate, in steps of 10 ms.
Raise(s, c) ==
    /\ streams[s].packets > 0 /\ streams[s].counts[c] < MaxCount
    /\ streams' = [streams EXCEPT ![s].counts[c] = @ + 1]
    /\ last' = NoPacket /\ score' = 10000
    /\ UNCHANGED <<nature, class, ecn, wrong>>

-----------------------------------------------------------------------------
(* The end of a Window. *)

AtMost(n, limit) == Min({n, limit})

\* StreamDiagnostic::deduction of a counter; at most one of each for a stream.
Deduction(c, n, packets) ==
    CASE n = 0 -> 0
      [] n > 0 /\ c = "lost"   -> AtMost((10000 * n) \div (packets + n), 1000)
      [] n > 0 /\ c = "jitter" -> IF n > 2 THEN 500 ELSE IF n > 1 THEN 200 ELSE 0
      [] n > 0 /\ c = "timestamps" -> 300 * AtMost(n, 5)
      [] n > 0 /\ c = "ssrc"   -> 1000 * AtMost(n, 3)
      [] n > 0 /\ c = "gaps"   -> IF n >= 2 THEN 1000 ELSE 0

\* The part of collect_penalties that the media streams account for: 5 for each stream
\* with a wrong mark up to 20, 30 for each silent one, 2 for each ECN mark up to 20.
Penalties(silent) ==
    [counters |-> SumFunction([x \in {s \in Streams : Known(s)} \X Counters |->
                      Deduction(x[2], streams[x[1]].counts[x[2]], streams[x[1]].packets)]),
     dead |-> 3000 * Cardinality(silent),
     dscp |-> AtMost(500 * Cardinality({s \in Streams : streams[s].mismarked}), 2000),
     ecn  |-> AtMost(200 * ecn, 2000)]

\* calculate_score.
Score(p) == Max({0, 10000 - (p.counters + p.dead + p.dscp + p.ecn)})

\* Some streams without a packet are silent for long enough to be dead, some to be forgotten.
HealthWindow ==
    \E silent \in SUBSET {s \in Streams : streams[s].packets = 0} : \E pruned \in SUBSET silent :
        /\ score' = Score(Penalties(silent))
        /\ streams' = [s \in Streams |->
               IF s \in pruned \/ ~Known(s) THEN NoStream
               ELSE [streams[s] EXCEPT !.packets = 0, !.mismarked = FALSE, !.pcp = FALSE,
                        !.counts = [c \in Counters |-> IF c = "jitter" THEN @[c] ELSE 0]]]
        /\ ecn' = 0 /\ last' = NoPacket /\ wrong' = {}
        /\ UNCHANGED <<nature, class>>

\* The score as the report shows it: no decimals, a half to the even side.
Shown ==
    LET whole == score \div 100
        part  == score % 100
    IN  IF part > 50 \/ (part = 50 /\ whole % 2 = 1) THEN whole + 1 ELSE whole

-----------------------------------------------------------------------------
(* What sources do: hardware is steady and reveals nothing but hardware, software sends  *)
(* EF or no mark at all.                                                                 *)

MaySend(s, p) ==
    /\ p.ttl \in {nature[SourceOf[s]].ttl, nature[SourceOf[s]].ttl - 1}
    /\ ProtocolOf[s] = "Dante" =>
          /\ p.pcp = Unset
          /\ IF nature[SourceOf[s]].class = "Hardware" THEN p.even ELSE p.dscp \in {0, EF}

Packets == [dscp : Marks \cup {EF}, ttl : {63, 64, 127, 128}, ecn : {0, 3}, pcp : {Unset, 3},
            even : BOOLEAN]

HealthNext ==
    \/ \E s \in Streams, p \in Packets : MaySend(s, p) /\ Packet(s, p)
    \/ \E s \in Streams, c \in Counters : Raise(s, c)
    \/ \E i \in DOMAIN nature : ControlPlane(i, nature[i].class) \/ Evict(i)
    \/ HealthWindow

HealthSpec == HealthInit /\ [][HealthNext]_healthVars

-----------------------------------------------------------------------------
(* Properties. *)

\* "the displayed verdict and the DSCP gate can never drift": a packet without the mark is
\* excused exactly if it has the mark of software and the verdict is software on a better
\* ground than the missing mark.
GateAgreesWithVerdict ==
    \A s \in last.of :
        last.counted <=> /\ last.dscp # EF
                         /\ ~(/\ last.dscp = 0
                              /\ streams[s].verdict.class \in {"Dvs", "Via"}
                              /\ streams[s].verdict.confidence # "Hint")

\* A wrong mark of a stream that is no software's costs the Window 5 points, whenever it
\* was sent, whatever had been learned of the source until then.
MismarkedScored ==
    [][wrong' = {} /\ (\E s \in wrong : nature[SourceOf[s]].class = "Hardware")
          => score' <= 9500]_healthVars

\* "DVS/Via intentionally send Best Effort (DSCP 0), so DSCP 0 is NOT a violation for a
\* software source".
SoftwareExcused ==
    \A s \in last.of : last.counted => nature[SourceOf[s]].class = "Hardware"

Strength == [none |-> 0, Hint |-> 1, Inferred |-> 2, Confirmed |-> 3]

\* "an early inference upgrades to a confirmed verdict as signals accumulate": no stream
\* that has a class is without one, or has a weaker one, later.
VerdictOnlyUpgrades ==
    [][\A s \in Streams : Known(s) /\ Known(s)' =>
          Strength[streams'[s].verdict.confidence] >= Strength[streams[s].verdict.confidence]]_healthVars

\* The Health Summary is "present only when the Health Score is below 100%": a score that
\* something was deducted from is shown below 100%.
DeductionShown == score < 10000 => Shown < 100

=============================================================================
