----------------------------- MODULE RtpStream -----------------------------
(***************************************************************************)
(* One RTP Stream as seen by StreamStats::update: a sender numbers its     *)
(* packets, the network loses, delays and duplicates them, and the tool    *)
(* reconstructs loss, reordering and timestamp faults from the 16-bit      *)
(* sequence number and the RTP timestamp of what arrives.                  *)
(*                                                                         *)
(* A sender is [kind, rate, interval, burst, announces]: its timestamps    *)
(* advance by rate ticks per unit of time, one packet is sent every        *)
(* interval units, burst packets share a timestamp (the packets of a video *)
(* frame), and an announcement of its session, which says [rate, interval] *)
(* or leaves them out, is one of announces.  Its i-th packet carries the   *)
(* sequence number Wire(i) and the timestamp Stamp(i) (32 bits do not wrap *)
(* within the distances considered).  The tool sees these two only; the    *)
(* index itself is used by the properties.                                 *)
(*                                                                         *)
(* Abstracted: jitter, bitrate and transmitter timing (real-valued), and   *)
(* the rounding of a packet interval to whole ticks.                       *)
(***************************************************************************)
EXTENDS Integers, Sequences, FiniteSets

CONSTANTS
    Modulus,         \* 2^16 in the code: the range of the sequence number
    FirstSeq,        \* sequence number of the sender's packet 0
    Reach,           \* how far from the expected position a packet may arrive
    Senders,         \* the senders the stream may have
    DefaultRate,     \* DEFAULT_CLOCK_HZ, in ticks per unit of time
    VideoRate,       \* the 90 kHz of ST 2110-20
    DefaultInterval, \* the 1 ms the code assumes, in units of time
    Known,           \* the (clock_hz, ptime_ms) pairs the inference recognises
    SampleSize,      \* timestamp deltas collected before inferring (8 in the code)
    SsrcSwitch,      \* the sender changes its SSRC at this packet
    NoticeAfter,     \* packets before an unannounced stream is reported (10)
    MaxSent,         \* bound: packets the sender emits
    MaxArrivals      \* bound: packets that reach the tool, duplicates included

Positive == Nat \ {0}

Announcement == [rate : BOOLEAN, interval : BOOLEAN]

ASSUME ModulusAssumption == Modulus \in Nat \ {0}
ASSUME FirstSeqAssumption == FirstSeq \in 0..(Modulus - 1)
ASSUME ReachAssumption   == Reach \in Nat /\ 2 * (Reach + 1) <= Modulus
ASSUME SenderAssumption  ==
    \A s \in Senders : /\ s.rate \in Positive /\ s.interval \in Positive
                       /\ s.burst \in Positive /\ s.announces \subseteq Announcement
\* The first pair of the table is 48 kHz and 1 ms, what the code assumes by default.
ASSUME TableAssumption   ==
    /\ SampleSize \in Positive
    /\ DefaultRate \in Positive /\ DefaultInterval \in Positive /\ VideoRate \in Positive
    /\ Len(Known) \in Positive /\ DOMAIN Known = 1..Len(Known)
    /\ \A k \in DOMAIN Known : Known[k].rate \in Positive /\ Known[k].interval \in Positive
    /\ Known[1].rate = DefaultRate /\ Known[1].interval = DefaultInterval
ASSUME BoundAssumption   == /\ SsrcSwitch \in Nat
                            /\ NoticeAfter \in Nat
                            /\ MaxSent \in Nat
                            /\ MaxArrivals \in Nat

VARIABLES
    sender,          \* who sends the stream
    cached,          \* what the session cache says of it; NoSdp: nothing
    packets,         \* StreamStats.packets
    lastSeq,         \* StreamStats.last_seq, NoSeq before the first packet
    lastTs,          \* StreamStats.last_rtp_ts, as the index of its packet
    lost,            \* StreamStats.lost_packets
    clock,           \* StreamStats.clock_hz, ptime_ms (0: unknown), clock_hz_confirmed
    samples,         \* StreamStats.ts_delta_samples
    win,             \* the counters reset_window clears
    delivered,       \* history: indices that have arrived
    first, furthest, \* history: index of the first and of the most advanced arrival
    disordered,      \* history: some packet arrived behind its predecessor
    billed           \* history: loss shown by the Windows already closed

tracker == <<packets, lastSeq, lastTs, lost, clock, samples, win>>
history == <<delivered, first, furthest, disordered, billed>>
vars    == <<sender, cached, tracker, history>>

(***************************************************************************)
(* Sequence arithmetic.  Both operands of WrapSub are in 0..Modulus-1, so  *)
(* u16::wrapping_sub is one conditional addition; reading the result as an *)
(* i16 makes its upper half negative.                                      *)
(***************************************************************************)
NoSeq == -1

Wire(i) == (FirstSeq + i) % Modulus

Ssrc(i) == IF i < SsrcSwitch THEN 0 ELSE 1

Stride(s) == s.rate * s.interval

Stamp(i) == (i \div sender.burst) * Stride(sender)

WrapNext(s) == IF s + 1 = Modulus THEN 0 ELSE s + 1

\* Mutation of WrapSub: saturating_sub instead of wrapping_sub.
SaturatingSub(a, b) == IF a >= b THEN a - b ELSE 0

WrapSub(a, b) == IF a >= b THEN a - b ELSE a - b + Modulus

Signed(d) == IF 2 * d < Modulus THEN d ELSE d - Modulus

\* Mutation of SeqDelta: compares with the last number, not with its successor.
DeltaFromLast(seq, last) == Signed(WrapSub(seq, last))

SeqDelta(seq, last) == Signed(WrapSub(seq, WrapNext(last)))

(***************************************************************************)
(* Clock inference: the most frequent timestamp delta, the smallest one on *)
(* a tie, looked up in the table of known packet intervals.                *)
(***************************************************************************)
Mode(s) ==
    LET Values == {s[k] : k \in DOMAIN s}
        Count(v) == Cardinality({k \in DOMAIN s : s[k] = v})
    IN  CHOOSE v \in Values : \A w \in Values :
            Count(v) > Count(w) \/ (Count(v) = Count(w) /\ v <= w)

CleanWindow == [packets |-> 0, lost |-> 0, reorders |-> 0, tsd |-> 0,
                gaps |-> 0, ssrc |-> 0]

NoSdp == [rate |-> FALSE, interval |-> FALSE]

\* Mutation of TsJump: no default for an unknown packet interval.
TsJumpNoDefault(delta, rate, ptime) ==
    2 * delta < rate * ptime \/ 2 * delta > 3 * rate * ptime

\* The timestamp step differs by more than half from that of one packet interval; an
\* unknown interval counts as 1 ms, whatever the sender's is.
TsJump(delta, rate, ptime) ==
    LET expected == rate * (IF ptime > 0 THEN ptime ELSE DefaultInterval)
    IN  2 * delta < expected \/ 2 * delta > 3 * expected

Init ==
    /\ sender \in Senders /\ cached = NoSdp
    /\ packets = 0 /\ lastSeq = NoSeq /\ lastTs = 0 /\ lost = 0
    /\ clock = [rate |-> DefaultRate, ptime |-> 0, confirmed |-> FALSE]
    /\ samples = <<>> /\ win = CleanWindow
    /\ delivered = {} /\ first = 0 /\ furthest = -1 /\ disordered = FALSE
    /\ billed = 0

-----------------------------------------------------------------------------
(* The network: any packet of the sender within Reach of the expected one may *)
(* arrive next, again if it has arrived before; one that is lost never does.  *)

WithinReach(i) ==
    packets > 0 => i - (lastTs + 1) \in (-Reach)..Reach

-----------------------------------------------------------------------------
(* Session announcements.  An announcement may lack the rate or the packet   *)
(* interval; what it states is true of the sender.                           *)

\* StreamStats::apply_sdp.
Applied(c, a) ==
    [rate      |-> IF a.rate THEN sender.rate ELSE c.rate,
     ptime     |-> IF a.interval THEN sender.interval ELSE c.ptime,
     confirmed |-> c.confirmed \/ a.rate]

\* The clock of a new stream, after the announcement in the cache.  Video counts as
\* confirmed at once; of ST 2110 audio whose rate is not announced 1 ms is assumed,
\* whatever interval is.
NewClock ==
    LET video  == sender.kind = "video"
        before == [rate |-> IF video THEN VideoRate ELSE DefaultRate,
                   ptime |-> 0, confirmed |-> FALSE]
        after  == Applied(before, cached)
    IN  [rate      |-> after.rate,
         ptime     |-> IF sender.kind = "audio" /\ ~after.confirmed THEN DefaultInterval
                       ELSE after.ptime,
         confirmed |-> after.confirmed \/ video]

-----------------------------------------------------------------------------
(* StreamStats::update, one operator per block of the method; a packet with *)
(* index i has just arrived.                                                *)

seen == lastSeq # NoSeq

\* Positive: packets skipped; negative: the packet is behind; 0: as expected.
Step(i) == IF seen THEN SeqDelta(Wire(i), lastSeq) ELSE 0

Delta(i) == Stamp(i) - Stamp(lastTs)

TsdNow(i) == seen /\ clock.confirmed /\ TsJump(Delta(i), clock.rate, clock.ptime)

Sampled(i) ==
    IF seen /\ ~clock.confirmed /\ Delta(i) > 0 THEN Append(samples, Delta(i))
                                                ELSE samples

\* The first pair of the table that makes the mode of a full buffer, if there is one.
Inferred(i) ==
    {Known[k] : k \in {n \in DOMAIN Known :
        /\ ~clock.confirmed /\ Len(Sampled(i)) >= SampleSize
        /\ Stride(Known[n]) = Mode(Sampled(i))
        /\ \A m \in 1..(n - 1) : Stride(Known[m]) # Mode(Sampled(i))}}

\* try_infer_clock_hz takes it; a stream has got its clock before.
InferClock(i) ==
    /\ samples' = IF Len(Sampled(i)) >= SampleSize THEN <<>> ELSE Sampled(i)
    /\ clock'  \in IF ~seen THEN {NewClock}
                   ELSE IF Inferred(i) = {} THEN {clock}
                   ELSE {[rate |-> pair.rate, ptime |-> pair.interval, confirmed |-> TRUE] :
                            pair \in Inferred(i)}

One(b) == IF b THEN 1 ELSE 0

\* late: more than 50 ms have passed since the previous packet.  The gap test
\* comes after the inference and uses the interval it may just have set.
CountPacket(i, late) ==
    win' = [packets  |-> win.packets + 1,
            lost     |-> win.lost + IF Step(i) > 0 THEN Step(i) ELSE 0,
            reorders |-> win.reorders + One(Step(i) < 0),
            tsd      |-> win.tsd + One(TsdNow(i)),
            gaps     |-> win.gaps + One(seen /\ clock'.ptime > 0 /\ late),
            ssrc     |-> win.ssrc + One(seen /\ Ssrc(i) # Ssrc(lastTs))]

Update(i, late) ==
    /\ packets' = packets + 1
    /\ lost'    = lost + IF Step(i) > 0 THEN Step(i) ELSE 0
    /\ lastSeq' = Wire(i)
    /\ InferClock(i)
    /\ CountPacket(i, late)
    /\ lastTs'  = i

Arrive(i, late) ==
    /\ packets < MaxArrivals
    /\ WithinReach(i)
    /\ Update(i, late)
    /\ delivered'  = delivered \cup {i}
    /\ first'      = IF seen THEN first ELSE i
    /\ furthest'   = IF seen /\ i < furthest THEN furthest ELSE i
    /\ disordered' = (disordered \/ (seen /\ i <= lastTs))
    /\ UNCHANGED <<sender, cached, billed>>

\* An announcement is cached, and applied to the stream if it is there.
ApplySdp(a) ==
    /\ cached' = a
    /\ clock'  = IF seen THEN Applied(clock, a) ELSE clock
    /\ UNCHANGED <<sender, packets, lastSeq, lastTs, lost, samples, win, history>>

-----------------------------------------------------------------------------
(* StreamStats::diagnostics over the counters of the Window, and their      *)
(* reset when the Window closes.                                            *)

Diagnostics ==
    (IF win.tsd  > 0 THEN {"TsDiscontinuity"} ELSE {}) \cup
    (IF win.lost > 0 THEN {"PacketLoss"} ELSE {}) \cup
    (IF 100 * win.reorders > win.packets + win.lost THEN {"Reorder"} ELSE {}) \cup
    (IF win.ssrc > 0 THEN {"SsrcChange"} ELSE {}) \cup
    (IF seen /\ ~clock.confirmed /\ packets > NoticeAfter THEN {"NotAnnounced"} ELSE {}) \cup
    (IF win.gaps >= 2 THEN {"SignalGap"} ELSE {})

\* Mutation of CloseWindow: the loss counter of the Window is not reset.
CloseWindowKeepLost ==
    /\ win # CleanWindow
    /\ win'    = [CleanWindow EXCEPT !.lost = win.lost]
    /\ billed' = billed + IF "PacketLoss" \in Diagnostics THEN win.lost ELSE 0
    /\ UNCHANGED <<sender, cached, packets, lastSeq, lastTs, lost, clock, samples,
                   delivered, first, furthest, disordered>>

CloseWindow ==
    /\ win # CleanWindow
    /\ win'    = CleanWindow
    /\ billed' = billed + IF "PacketLoss" \in Diagnostics THEN win.lost ELSE 0
    /\ UNCHANGED <<sender, cached, packets, lastSeq, lastTs, lost, clock, samples,
                   delivered, first, furthest, disordered>>

Next ==
    \/ \E i \in 0..(MaxSent - 1), late \in BOOLEAN : Arrive(i, late)
    \/ \E a \in sender.announces : ApplySdp(a)
    \/ CloseWindow

Spec == Init /\ [][Next]_vars

-----------------------------------------------------------------------------
(* Properties. *)

TypeOK ==
    /\ sender \in Senders /\ cached \in Announcement
    /\ packets \in Nat /\ lost \in Nat /\ lastTs \in Nat
    /\ first \in Nat /\ furthest \in Nat \cup {-1}
    /\ lastSeq \in {NoSeq} \cup 0..(Modulus - 1)
    /\ clock \in [rate : Positive, ptime : Nat, confirmed : BOOLEAN]
    /\ samples \in Seq(Nat)
    /\ win \in [packets : Nat, lost : Nat, reorders : Nat, tsd : Nat,
                gaps : Nat, ssrc : Nat]
    /\ delivered \subseteq 0..(MaxSent - 1)
    /\ disordered \in BOOLEAN
    /\ billed \in Nat

\* The packets between the first and the most advanced arrival that have not
\* arrived.
Missing == (first..furthest) \ delivered

\* The loss counter never falls below the packets that are really missing,
\* whatever the network reorders or duplicates and however often the 16-bit
\* sequence number wraps (StreamStats::update, "Losses (16-bit wrapping)").
LossNeverUnderReported == Cardinality(Missing) <= lost

\* As long as nothing arrives out of order or twice, the counter is exact.
LossExactInOrder == ~disordered => lost = Cardinality(Missing)

\* Every lost packet is shown by the PacketLoss diagnostic of exactly one
\* Window: what the closed Windows showed plus what the open one has counted
\* is the lifetime counter (lost_this_window against lost_packets).
WindowsAccountForLoss == lost = billed + win.lost

Clean == Missing = {} /\ ~disordered

FaultFree == Diagnostics \subseteq {"NotAnnounced", "SignalGap", "SsrcChange"}

\* Not video; one packet per timestamp; and either the rate and the packet interval are
\* the 48 kHz and 1 ms the code assumes, or they are announced together or not at all.
WellAnnounced(s) ==
    /\ s.kind # "video" /\ s.burst = 1
    /\ \/ s.rate = DefaultRate /\ s.interval = DefaultInterval
       \/ \A a \in s.announces : a.rate = a.interval

\* A stream of such a sender that lost nothing, arrived in order and never paused is
\* reported clean: across the wrap of the sequence number, whatever is announced when,
\* and whichever clock was inferred.  Of other senders the code does not keep it: see
\* EveryCleanStreamIsClean.
CleanStreamIsClean == WellAnnounced(sender) /\ Clean => FaultFree

\* The same of every sender.  A step of a video frame (zero) or of 4 ms at an announced
\* 48 kHz is compared with that of 1 ms, and each packet counts as a jump.
EveryCleanStreamIsClean == Clean => FaultFree

\* A packet that arrives out of order "is not lost": when every packet between
\* the first and the furthest has arrived, no loss has been counted
\* (comments of StreamStats and of its test backward_seq_counted_as_reorder).
ReorderIsNotLoss == Missing = {} => lost = 0

\* The timestamp check "only runs when clock rate is confirmed from SDP"
\* (comment of StreamStats::update): not for a sender that never announces its rate.
TimestampCheckNeedsSdp == win.tsd > 0 => \E a \in sender.announces : a.rate

=============================================================================
