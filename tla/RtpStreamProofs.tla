-------------------------- MODULE RtpStreamProofs --------------------------
(***************************************************************************)
(* RtpStream, for every sequence-number width and every reach of the       *)
(* network below half of it.                                               *)
(*                                                                         *)
(* SapSdp, for any documents, streams and size of the cache: a stream is   *)
(* described as last announced by a document that is clear about it.       *)
(***************************************************************************)
EXTENDS RtpStream, SapSdp, FiniteSetTheorems, SequenceTheorems, TLAPS

-----------------------------------------------------------------------------
(* Sequence arithmetic. *)

\* Division with remainder by Modulus, in the form the next lemmas use.
LEMMA DivMod ==
    ASSUME NEW a \in Int
    PROVE  /\ a % Modulus \in 0..(Modulus - 1)
           /\ \E q \in Int : a = Modulus * q + (a % Modulus)
  <1>1. a = Modulus * (a \div Modulus) + (a % Modulus) /\ (a \div Modulus) \in Int
    BY ModulusAssumption
  <1>2. a % Modulus \in 0..(Modulus - 1)
    BY ModulusAssumption
  <1> QED BY <1>1, <1>2

\* A remainder and a multiple of Modulus determine each other.
LEMMA MultipleBounds ==
    ASSUME NEW q \in Int
    PROVE  /\ q >= 1 => Modulus * q >= Modulus
           /\ q <= -1 => Modulus * q <= -Modulus
           /\ q >= 2 => Modulus * q >= 2 * Modulus
           /\ q <= -2 => Modulus * q <= -2 * Modulus
  BY ModulusAssumption

\* wrapping_sub of two sequence numbers is the distance of the packets they
\* number, modulo Modulus.
LEMMA WrapSubIsDistance ==
    ASSUME NEW i \in Nat, NEW j \in Nat, NEW d \in Int,
           d = i - j, -Modulus < d, d < Modulus
    PROVE  WrapSub(Wire(i), Wire(j)) = IF d >= 0 THEN d ELSE d + Modulus
  <1> DEFINE a == FirstSeq + i
             b == FirstSeq + j
  <1>1. a \in Int /\ b \in Int /\ a - b = d /\ Modulus \in Nat \ {0}
    BY FirstSeqAssumption, ModulusAssumption
  <1>2. PICK qa \in Int : a = Modulus * qa + (a % Modulus)
    BY <1>1, DivMod
  <1>3. PICK qb \in Int : b = Modulus * qb + (b % Modulus)
    BY <1>1, DivMod
  <1>4. a % Modulus \in 0..(Modulus - 1) /\ b % Modulus \in 0..(Modulus - 1)
    BY <1>1, DivMod
  <1> DEFINE ra == a % Modulus
             rb == b % Modulus
             k  == qa - qb
  <1>5. Modulus * k = Modulus * qa - Modulus * qb
    BY <1>1
  <1>6. Modulus * k = d - (ra - rb)
    BY <1>1, <1>2, <1>3, <1>4, <1>5
  <1>7. k \in {-1, 0, 1}
    <2>1. Modulus * k < 2 * Modulus /\ Modulus * k > -2 * Modulus
      BY <1>1, <1>4, <1>6
    <2> QED BY <2>1, <1>1, MultipleBounds
  <1>8. d = ra - rb \/ d = ra - rb + Modulus \/ d = ra - rb - Modulus
    <2> HIDE DEF k, ra, rb
    <2>1. Modulus * k \in {-Modulus, 0, Modulus}
      BY <1>1, <1>7
    <2>2. ra \in Int /\ rb \in Int
      BY <1>4 DEF ra, rb
    <2> QED BY <1>1, <1>6, <2>1, <2>2
  <1> HIDE DEF ra, rb
  <1>9. Wire(i) = ra /\ Wire(j) = rb
    BY DEF Wire, ra, rb
  <1>10. ra \in 0..(Modulus - 1) /\ rb \in 0..(Modulus - 1)
    BY <1>4 DEF ra, rb
  <1> QED BY <1>1, <1>8, <1>9, <1>10 DEF WrapSub

\* The successor of a sequence number is the next packet's.
LEMMA WrapNextIsNext ==
    ASSUME NEW i \in Nat
    PROVE  WrapNext(Wire(i)) = Wire(i + 1)
  <1> DEFINE a == FirstSeq + i
  <1>1. a \in Int /\ a + 1 \in Int /\ Modulus \in Nat \ {0} /\ FirstSeq + (i + 1) = a + 1
    BY FirstSeqAssumption, ModulusAssumption
  <1>2. PICK q \in Int : a = Modulus * q + (a % Modulus)
    BY <1>1, DivMod
  <1>3. PICK p \in Int : a + 1 = Modulus * p + ((a + 1) % Modulus)
    BY <1>1, DivMod
  <1> DEFINE r == a % Modulus
             s == (a + 1) % Modulus
             k == p - q
  <1>4. r \in 0..(Modulus - 1) /\ s \in 0..(Modulus - 1)
    BY <1>1, DivMod
  <1>5. Modulus * k = Modulus * p - Modulus * q
    BY <1>1
  <1>6. Modulus * k = r + 1 - s
    BY <1>1, <1>2, <1>3, <1>4, <1>5, SMTT(20)
  <1>7. k \in {0, 1}
    <2>1. Modulus * k < 2 * Modulus /\ Modulus * k > -Modulus
      BY <1>1, <1>4, <1>6
    <2> QED BY <2>1, <1>1, MultipleBounds
  <1>8. r + 1 - s = 0 \/ r + 1 - s = Modulus
    BY <1>1, <1>6, <1>7
  <1> HIDE DEF r, s
  <1>9. Wire(i) = r /\ Wire(i + 1) = s
    BY <1>1 DEF Wire, r, s
  <1>10. r \in 0..(Modulus - 1) /\ s \in 0..(Modulus - 1)
    BY <1>4 DEF r, s
  <1> QED BY <1>1, <1>8, <1>9, <1>10 DEF WrapNext

\* The signed delta the tool computes is the true displacement of a packet
\* within reach: the i16 cast cannot be fooled below half the range.
LEMMA SeqDeltaIsDisplacement ==
    ASSUME NEW i \in Nat, NEW j \in Nat, i - (j + 1) \in (-Reach)..Reach
    PROVE  SeqDelta(Wire(i), Wire(j)) = i - (j + 1)
  <1> DEFINE d == i - (j + 1)
  <1>1. /\ Modulus \in Nat \ {0} /\ Reach \in Nat /\ 2 * (Reach + 1) <= Modulus
        /\ j + 1 \in Nat /\ d \in Int /\ d = i - (j + 1)
        /\ -Reach <= d /\ d <= Reach
    BY ModulusAssumption, ReachAssumption
  <1> HIDE DEF d
  <1>2. WrapSub(Wire(i), Wire(j + 1)) = IF d >= 0 THEN d ELSE d + Modulus
    BY <1>1, WrapSubIsDistance
  <1>3. WrapNext(Wire(j)) = Wire(j + 1)
    BY WrapNextIsNext
  <1>4. Signed(IF d >= 0 THEN d ELSE d + Modulus) = d
    BY <1>1 DEF Signed
  <1> QED BY <1>1, <1>2, <1>3, <1>4 DEF SeqDelta

-----------------------------------------------------------------------------
(* Cardinalities of the packets that are missing. *)

\* Advancing past the gap f+1..i-1 adds exactly its length to the missing set.
LEMMA GapCardinality ==
    \A lo, f, i \in Nat : \A D \in SUBSET Nat :
        f < i /\ lo <= f + 1 /\ (\A j \in D : j <= f)
          => Cardinality((lo..i) \ (D \cup {i})) = Cardinality((lo..f) \ D) + (i - f - 1)
  <1> SUFFICES ASSUME NEW lo \in Nat, NEW f \in Nat, NEW i \in Nat,
                      NEW D \in SUBSET Nat, f < i, lo <= f + 1, \A j \in D : j <= f
               PROVE  Cardinality((lo..i) \ (D \cup {i}))
                          = Cardinality((lo..f) \ D) + (i - f - 1)
    OBVIOUS
  <1> DEFINE M == (lo..f) \ D
             G == (f + 1)..(i - 1)
  <1>1. (lo..i) \ (D \cup {i}) = M \cup G
    OBVIOUS
  <1>2. M \cap G = {}
    OBVIOUS
  <1>3. IsFiniteSet(M)
    <2>1. IsFiniteSet(lo..f)
      BY FS_Interval
    <2> QED BY <2>1, FS_Difference, Zenon
  <1>4. IsFiniteSet(G) /\ Cardinality(G) = i - f - 1
    BY FS_Interval
  <1>5. Cardinality(M) \in Nat
    BY <1>3, FS_CardinalityType
  <1>6. Cardinality(M \cup G) = Cardinality(M) + Cardinality(G) - Cardinality(M \cap G)
    BY <1>3, <1>4, FS_Union
  <1>7. Cardinality(M \cap G) = 0
    BY <1>2, FS_EmptySet
  <1> HIDE DEF M, G
  <1>8. Cardinality(M \cup G) = Cardinality(M) + (i - f - 1)
    BY <1>4, <1>5, <1>6, <1>7
  <1> QED BY <1>1, <1>8 DEF M

\* A late arrival can only shrink the missing set.
LEMMA LateCardinality ==
    ASSUME NEW lo \in Nat, NEW f \in Int, NEW i, NEW D
    PROVE  Cardinality((lo..f) \ (D \cup {i})) <= Cardinality((lo..f) \ D)
  <1>1. IsFiniteSet((lo..f) \ D)
    <2>1. IsFiniteSet(lo..f)
      BY FS_Interval
    <2> QED BY <2>1, FS_Difference, Zenon
  <1>2. (lo..f) \ (D \cup {i}) \in SUBSET ((lo..f) \ D)
    OBVIOUS
  <1> QED BY <1>1, <1>2, FS_Subset

-----------------------------------------------------------------------------
(* The inductive invariant.  Tracking ties what StreamStats remembers to the *)
(* packets themselves; without it the counters say nothing about Missing.    *)

Tracking ==
    /\ ~seen => /\ packets = 0 /\ lost = 0 /\ delivered = {}
                /\ furthest = -1 /\ ~disordered
    /\ seen  => /\ packets > 0
                /\ lastSeq = Wire(lastTs)
                /\ lastTs \in delivered /\ first \in delivered
                /\ furthest \in delivered
                /\ \A j \in delivered : j <= furthest
                /\ ~disordered => lastTs = furthest

Accounting ==
    /\ LossNeverUnderReported
    /\ LossExactInOrder
    /\ WindowsAccountForLoss

IInv == TypeOK /\ Tracking /\ Accounting

\* Sequence numbers stay in the range of their type.
LEMMA WireType == \A i \in Nat : Wire(i) \in 0..(Modulus - 1)
  BY DivMod, FirstSeqAssumption DEF Wire

\* The missing packets can be counted.
LEMMA MissingType == first \in Nat /\ furthest \in Int
                         => IsFiniteSet(Missing) /\ Cardinality(Missing) \in Nat
  <1> SUFFICES ASSUME first \in Nat, furthest \in Int
               PROVE  IsFiniteSet(Missing) /\ Cardinality(Missing) \in Nat
    OBVIOUS
  <1>1. IsFiniteSet(first..furthest)
    BY FS_Interval
  <1>2. IsFiniteSet(Missing)
    BY <1>1, FS_Difference, Zenon DEF Missing
  <1> QED BY <1>2, FS_CardinalityType

\* A new StreamStats satisfies the invariant.
LEMMA InitIInv == Init => IInv
  <1> SUFFICES ASSUME Init PROVE IInv
    OBVIOUS
  <1>1. TypeOK
    <2>1. win \in [packets : Nat, lost : Nat, reorders : Nat, tsd : Nat,
                   gaps : Nat, ssrc : Nat]
      BY DEF Init, CleanWindow
    <2>2. samples \in Seq(Nat)
      BY DEF Init
    <2>3. cached \in Announcement
      BY DEF Init, NoSdp, Announcement
    <2>4. clock \in [rate : Positive, ptime : Nat, confirmed : BOOLEAN]
      BY TableAssumption DEF Init
    <2> QED BY <2>1, <2>2, <2>3, <2>4 DEF Init, TypeOK, NoSeq
  <1>2. Missing = {}
    BY DEF Init, Missing
  <1>3. Tracking
    BY DEF Init, Tracking, seen, NoSeq
  <1>4. Accounting
    BY <1>2, FS_EmptySet DEF Init, Accounting, LossNeverUnderReported, LossExactInOrder,
                             WindowsAccountForLoss, CleanWindow
  <1> QED BY <1>1, <1>3, <1>4 DEF IInv

\* Everything IInv says of the tracker and of the history is untouched by a
\* step that leaves these variables alone.
LEMMA FrameIInv ==
    ASSUME IInv, TypeOK',
           UNCHANGED <<packets, lastSeq, lastTs, lost, delivered, first, furthest, disordered>>,
           billed' + win'.lost = billed + win.lost
    PROVE  IInv'
  <1>1. Tracking'
    BY DEF IInv, Tracking, seen, Wire, NoSeq
  <1>2. Missing' = Missing
    BY DEF Missing
  <1>3. Accounting'
    BY <1>2 DEF IInv, Accounting, LossNeverUnderReported, LossExactInOrder,
                WindowsAccountForLoss
  <1> QED BY <1>1, <1>3 DEF IInv

\* What an announcement says is a clock, and so is what a new stream starts with.
LEMMA ClockTypes ==
    ASSUME sender \in Senders
    PROVE  /\ NoSdp \in Announcement
           /\ \A c \in [rate : Positive, ptime : Nat, confirmed : BOOLEAN], a \in Announcement :
                 Applied(c, a) \in [rate : Positive, ptime : Nat, confirmed : BOOLEAN]
           /\ cached \in Announcement
                 => NewClock \in [rate : Positive, ptime : Nat, confirmed : BOOLEAN]
  <1>1. /\ sender.rate \in Positive /\ sender.interval \in Nat
        /\ DefaultRate \in Positive /\ VideoRate \in Positive /\ DefaultInterval \in Nat
    BY SenderAssumption, TableAssumption DEF Positive
  <1>2. NoSdp \in Announcement
    BY DEF NoSdp, Announcement
  <1>3. ASSUME NEW c \in [rate : Positive, ptime : Nat, confirmed : BOOLEAN],
               NEW a \in Announcement
        PROVE  Applied(c, a) \in [rate : Positive, ptime : Nat, confirmed : BOOLEAN]
    BY <1>1, <1>3 DEF Applied, Announcement
  <1>4. ASSUME cached \in Announcement
        PROVE  NewClock \in [rate : Positive, ptime : Nat, confirmed : BOOLEAN]
    <2> DEFINE video  == sender.kind = "video"
               before == [rate |-> IF video THEN VideoRate ELSE DefaultRate,
                          ptime |-> 0, confirmed |-> FALSE]
               after  == Applied(before, cached)
    <2>1. before \in [rate : Positive, ptime : Nat, confirmed : BOOLEAN]
      BY <1>1
    <2>2. after \in [rate : Positive, ptime : Nat, confirmed : BOOLEAN]
      BY <1>3, <1>4, <2>1
    <2>3. NewClock = [rate      |-> after.rate,
                      ptime     |-> IF sender.kind = "audio" /\ ~after.confirmed
                                    THEN DefaultInterval ELSE after.ptime,
                      confirmed |-> after.confirmed \/ video]
      BY DEF NewClock
    <2> HIDE DEF after
    <2> QED BY <1>1, <2>2, <2>3
  <1> QED BY <1>2, <1>3, <1>4

\* An announcement, handle_sap and StreamStats::apply_sdp.
LEMMA ApplySdpIInv ==
    ASSUME NEW a \in sender.announces, IInv, ApplySdp(a) PROVE IInv'
  <1>1. a \in Announcement
    BY SenderAssumption DEF IInv, TypeOK
  <1>2. clock' \in [rate : Positive, ptime : Nat, confirmed : BOOLEAN]
    BY <1>1, ClockTypes DEF IInv, TypeOK, ApplySdp
  <1>3. TypeOK'
    BY <1>1, <1>2 DEF IInv, TypeOK, ApplySdp, history, NoSeq
  <1> QED BY <1>3, FrameIInv DEF ApplySdp, history

\* The end of a Window.
LEMMA CloseWindowIInv == IInv /\ CloseWindow => IInv'
  <1> SUFFICES ASSUME IInv, CloseWindow PROVE IInv'
    OBVIOUS
  <1>1. win.lost \in Nat /\ billed \in Nat
    BY DEF IInv, TypeOK
  <1>2. "PacketLoss" \in Diagnostics <=> win.lost > 0
    BY DEF Diagnostics
  <1>3. billed' = billed + win.lost
    BY <1>1, <1>2 DEF CloseWindow
  <1>4. win' = CleanWindow
    BY DEF CloseWindow
  <1>5. TypeOK'
    <2>1. win' \in [packets : Nat, lost : Nat, reorders : Nat, tsd : Nat,
                    gaps : Nat, ssrc : Nat]
      BY <1>4 DEF CleanWindow
    <2>2. billed' \in Nat
      BY <1>1, <1>3
    <2> QED BY <2>1, <2>2 DEF IInv, TypeOK, CloseWindow, NoSeq
  <1>6. billed' + win'.lost = billed + win.lost
    BY <1>1, <1>3, <1>4 DEF CleanWindow
  <1> QED BY <1>5, <1>6, FrameIInv DEF CloseWindow

-----------------------------------------------------------------------------
(* The arrival of a packet. *)

\* The step the tool sees is the displacement of the packet.
LEMMA StepIsDisplacement ==
    ASSUME NEW i \in 0..(MaxSent - 1), IInv, WithinReach(i)
    PROVE  /\ i \in Nat
           /\ Step(i) = IF seen THEN i - (lastTs + 1) ELSE 0
  <1>1. i \in Nat /\ lastTs \in Nat
    BY DEF IInv, TypeOK
  <1>2. CASE seen
    <2>1. lastSeq = Wire(lastTs) /\ packets > 0
      BY <1>2 DEF IInv, Tracking
    <2>2. i - (lastTs + 1) \in (-Reach)..Reach
      BY <2>1 DEF WithinReach
    <2>3. SeqDelta(Wire(i), Wire(lastTs)) = i - (lastTs + 1)
      BY <1>1, <2>2, SeqDeltaIsDisplacement
    <2> QED BY <1>1, <1>2, <2>1, <2>3 DEF Step
  <1>3. CASE ~seen
    BY <1>1, <1>3 DEF Step
  <1> QED BY <1>2, <1>3

\* The timestamps of the sender are natural numbers.
LEMMA StampType == ASSUME sender \in Senders, NEW i \in Nat PROVE Stamp(i) \in Nat
  <1>1. /\ sender.rate \in Nat /\ sender.interval \in Nat /\ sender.burst \in Nat
        /\ sender.burst > 0
    BY SenderAssumption DEF Positive
  <1>2. i \div sender.burst \in Nat /\ Stride(sender) \in Nat
    BY <1>1 DEF Stride
  <1>3. \A m \in Nat, n \in Nat : m * n \in Nat
    OBVIOUS
  <1> QED BY <1>2, <1>3 DEF Stamp

\* What is inferred is a pair of the table that makes the mode of the samples.
LEMMA InferredPairs ==
    ASSUME NEW i, NEW pair \in Inferred(i)
    PROVE  /\ pair.rate \in Positive /\ pair.interval \in Positive
           /\ Stride(pair) = Mode(Sampled(i)) /\ Len(Sampled(i)) >= SampleSize
           /\ Mode(Sampled(i)) = Stride(Known[1]) => pair = Known[1]
  <1>1. PICK n \in DOMAIN Known :
            /\ pair = Known[n] /\ Len(Sampled(i)) >= SampleSize
            /\ Stride(Known[n]) = Mode(Sampled(i))
            /\ \A m \in 1..(n - 1) : Stride(Known[m]) # Mode(Sampled(i))
    BY DEF Inferred
  <1>2. n \in Nat /\ n >= 1
    BY TableAssumption DEF Positive
  <1>3. Mode(Sampled(i)) = Stride(Known[1]) => n = 1
    BY <1>1, <1>2
  <1> QED BY <1>1, <1>3, TableAssumption

\* StreamStats::update keeps the types.
LEMMA ArriveTypeOK ==
    ASSUME NEW i \in 0..(MaxSent - 1), NEW late \in BOOLEAN,
           IInv, Arrive(i, late)
    PROVE  TypeOK'
  <1>1. /\ i \in Nat /\ lastTs \in Nat
        /\ Step(i) \in Int
    BY StepIsDisplacement DEF IInv, TypeOK, Arrive
  <1>2. packets' \in Nat /\ lost' \in Nat /\ lastTs' \in Nat
    BY <1>1 DEF IInv, TypeOK, Arrive, Update
  <1>3. lastSeq' \in {NoSeq} \cup 0..(Modulus - 1)
    BY <1>1, WireType DEF Arrive, Update
  <1>5. clock' \in [rate : Positive, ptime : Nat, confirmed : BOOLEAN]
    <2>1. NewClock \in [rate : Positive, ptime : Nat, confirmed : BOOLEAN]
      BY ClockTypes DEF IInv, TypeOK
    <2>2. \A pair \in Inferred(i) : pair.rate \in Positive /\ pair.interval \in Nat
      BY InferredPairs DEF Positive
    <2>3. clock' \in IF ~seen THEN {NewClock}
                     ELSE IF Inferred(i) = {} THEN {clock}
                     ELSE {[rate |-> pair.rate, ptime |-> pair.interval, confirmed |-> TRUE] :
                              pair \in Inferred(i)}
      BY DEF Arrive, Update, InferClock
    <2>4. \A pair \in Inferred(i) :
             [rate |-> pair.rate, ptime |-> pair.interval, confirmed |-> TRUE]
                \in [rate : Positive, ptime : Nat, confirmed : BOOLEAN]
      BY <2>2
    <2>5. clock \in [rate : Positive, ptime : Nat, confirmed : BOOLEAN]
      BY DEF IInv, TypeOK
    <2> QED BY <2>1, <2>3, <2>4, <2>5
  <1>6. Sampled(i) \in Seq(Nat)
    <2>1. Delta(i) > 0 => Delta(i) \in Nat
      <3>1. Stamp(i) \in Nat /\ Stamp(lastTs) \in Nat
        BY <1>1, StampType DEF IInv, TypeOK
      <3> QED BY <3>1 DEF Delta
    <2> QED BY <2>1 DEF IInv, TypeOK, Sampled
  <1>7. samples' \in Seq(Nat)
    BY <1>6 DEF Arrive, Update, InferClock
  <1>9. win' \in [packets : Nat, lost : Nat, reorders : Nat, tsd : Nat,
                  gaps : Nat, ssrc : Nat]
    <2>1. /\ win.packets \in Nat /\ win.lost \in Nat /\ win.reorders \in Nat
          /\ win.tsd \in Nat /\ win.gaps \in Nat /\ win.ssrc \in Nat
      BY DEF IInv, TypeOK
    <2>2. /\ One(Step(i) < 0) \in Nat /\ One(TsdNow(i)) \in Nat
          /\ One(seen /\ clock'.ptime > 0 /\ late) \in Nat
          /\ One(seen /\ Ssrc(i) # Ssrc(lastTs)) \in Nat
      BY DEF One
    <2>3. win.lost + (IF Step(i) > 0 THEN Step(i) ELSE 0) \in Nat
      BY <1>1, <2>1
    <2> QED BY <2>1, <2>2, <2>3 DEF Arrive, Update, CountPacket
  <1>8. /\ sender' \in Senders /\ cached' \in Announcement
        /\ delivered' \subseteq 0..(MaxSent - 1)
        /\ first' \in Nat /\ furthest' \in Nat \cup {-1}
        /\ disordered' \in BOOLEAN /\ billed' \in Nat
    BY <1>1 DEF IInv, TypeOK, Arrive
  <1> QED BY <1>2, <1>3, <1>5, <1>7, <1>8, <1>9 DEF TypeOK

\* The history of arrivals and the tracker move together.
LEMMA ArriveTracking ==
    ASSUME NEW i \in 0..(MaxSent - 1), NEW late \in BOOLEAN,
           IInv, Arrive(i, late)
    PROVE  Tracking'
  <1>1. i \in Nat /\ lastTs \in Nat /\ packets \in Nat /\ furthest \in Int
    BY DEF IInv, TypeOK
  <1>2. /\ packets' = packets + 1 /\ lastSeq' = Wire(i) /\ lastTs' = i
        /\ delivered' = delivered \cup {i}
        /\ first' = (IF seen THEN first ELSE i)
        /\ furthest' = (IF seen /\ i < furthest THEN furthest ELSE i)
        /\ disordered' = (disordered \/ (seen /\ i <= lastTs))
    BY DEF Arrive, Update
  <1>3. seen' /\ Wire(i)' = Wire(i)
    <2>1. Wire(i) # NoSeq
      BY <1>1, WireType, ModulusAssumption DEF NoSeq
    <2> QED BY <1>2, <2>1 DEF seen, Wire
  <1>4. \A j \in delivered : j \in Nat
    BY DEF IInv, TypeOK
  <1>5. CASE ~seen
    <2>1. delivered = {} /\ ~disordered
      BY <1>5 DEF IInv, Tracking
    <2> QED BY <1>1, <1>2, <1>3, <1>5, <2>1 DEF Tracking, Wire
  <1>6. CASE seen
    <2>1. /\ lastTs \in delivered /\ first \in delivered /\ furthest \in delivered
          /\ \A j \in delivered : j <= furthest
          /\ ~disordered => lastTs = furthest
      BY <1>6 DEF IInv, Tracking
    <2>2. first' \in delivered' /\ furthest' \in delivered' /\ lastTs' \in delivered'
      BY <1>2, <1>6, <2>1
    <2>3. \A j \in delivered' : j <= furthest'
      BY <1>1, <1>2, <1>4, <1>6, <2>1
    <2>4. ~disordered' => lastTs' = furthest'
      <3> SUFFICES ASSUME ~disordered' PROVE lastTs' = furthest'
        OBVIOUS
      <3>1. ~disordered /\ ~(i <= lastTs)
        BY <1>2, <1>6
      <3>2. ~(i < furthest)
        BY <1>1, <2>1, <3>1
      <3> QED BY <1>2, <3>2
    <2>5. packets' > 0 /\ lastSeq' = Wire(lastTs)'
      BY <1>1, <1>2 DEF Wire
    <2> QED BY <1>3, <2>2, <2>3, <2>4, <2>5 DEF Tracking
  <1> QED BY <1>5, <1>6

\* The loss counter keeps up with the missing packets.
LEMMA ArriveAccounting ==
    ASSUME NEW i \in 0..(MaxSent - 1), NEW late \in BOOLEAN,
           IInv, Arrive(i, late)
    PROVE  Accounting'
  <1> DEFINE jump == IF Step(i) > 0 THEN Step(i) ELSE 0
  <1>1. /\ i \in Nat /\ lastTs \in Nat /\ furthest \in Int /\ first \in Nat
        /\ lost \in Nat /\ billed \in Nat /\ win.lost \in Nat
        /\ delivered \subseteq Nat
    BY DEF IInv, TypeOK
  <1>2. /\ lost' = lost + jump
        /\ win'.lost = win.lost + jump
        /\ billed' = billed
        /\ delivered' = delivered \cup {i}
        /\ first' = (IF seen THEN first ELSE i)
        /\ furthest' = (IF seen /\ i < furthest THEN furthest ELSE i)
        /\ disordered' = (disordered \/ (seen /\ i <= lastTs))
    BY DEF Arrive, Update, CountPacket
  <1>3. Step(i) = IF seen THEN i - (lastTs + 1) ELSE 0
    BY StepIsDisplacement DEF Arrive
  <1>4. jump \in Nat /\ (seen => jump >= i - (lastTs + 1)) /\ (~seen => jump = 0)
    BY <1>1, <1>3
  <1>5. WindowsAccountForLoss'
    BY <1>1, <1>2, <1>4 DEF IInv, Accounting, WindowsAccountForLoss
  <1>6. Cardinality(Missing) \in Nat
    BY <1>1, MissingType
  <1>7. Missing' = (first'..furthest') \ (delivered \cup {i})
    BY <1>2 DEF Missing
  <1>8. Cardinality(Missing) <= lost /\ (~disordered => lost = Cardinality(Missing))
    BY DEF IInv, Accounting, LossNeverUnderReported, LossExactInOrder
  <1>9. Cardinality(Missing') <= lost' /\ (~disordered' => lost' = Cardinality(Missing'))
    <2>1. CASE ~seen
      <3>1. delivered = {} /\ lost = 0
        BY <2>1 DEF IInv, Tracking
      <3>2. Missing' = {}
        BY <1>1, <1>2, <1>7, <2>1, <3>1
      <3> QED BY <1>2, <1>4, <2>1, <3>1, <3>2, FS_EmptySet
    <2>2. CASE seen /\ i > furthest
      <3>1. /\ first \in delivered /\ lastTs \in delivered /\ furthest \in delivered
            /\ \A j \in delivered : j <= furthest
            /\ ~disordered => lastTs = furthest
        BY <2>2 DEF IInv, Tracking
      <3>2. first <= furthest + 1 /\ lastTs <= furthest /\ furthest \in Nat
        BY <1>1, <3>1
      <3>3. Missing' = (first..i) \ (delivered \cup {i})
        BY <1>1, <1>2, <1>7, <2>2
      <3>4. Cardinality(Missing') = Cardinality(Missing) + (i - furthest - 1)
        <4>1. Missing = (first..furthest) \ delivered
          BY DEF Missing
        <4>2. furthest < i
          BY <1>1, <2>2
        <4>3. \A j \in delivered : j <= furthest
          BY <3>1
        <4>4. Cardinality((first..i) \ (delivered \cup {i}))
                  = Cardinality((first..furthest) \ delivered) + (i - furthest - 1)
          <5>1. first \in Nat /\ furthest \in Nat /\ i \in Nat /\ first <= furthest + 1
            BY <1>1, <3>2
          <5>2. \A D \in SUBSET Nat :
                    furthest < i /\ first <= furthest + 1 /\ (\A j \in D : j <= furthest)
                      => Cardinality((first..i) \ (D \cup {i}))
                             = Cardinality((first..furthest) \ D) + (i - furthest - 1)
            BY <5>1, GapCardinality
          <5>3. delivered \in SUBSET Nat
            BY <1>1
          <5> QED BY <4>2, <4>3, <5>1, <5>2, <5>3
        <4> QED BY <3>3, <4>1, <4>4
      <3>5. jump = i - (lastTs + 1)
        BY <1>1, <1>3, <2>2, <3>2
      <3>6. Cardinality(Missing') <= lost'
        BY <1>1, <1>2, <1>4, <1>6, <1>8, <2>2, <3>2, <3>4, <3>5
      <3>7. ~disordered' => lost' = Cardinality(Missing')
        <4> SUFFICES ASSUME ~disordered' PROVE lost' = Cardinality(Missing')
          OBVIOUS
        <4>1. ~disordered
          BY <1>2
        <4>2. lost = Cardinality(Missing) /\ lastTs = furthest
          BY <1>8, <3>1, <4>1
        <4>3. jump = i - furthest - 1 /\ jump \in Nat
          BY <1>1, <1>4, <3>5, <4>2
        <4> QED BY <1>1, <1>2, <1>6, <3>2, <3>4, <4>2, <4>3
      <3> QED BY <3>6, <3>7
    <2>3. CASE seen /\ i <= furthest
      <3>1. ~disordered => lastTs = furthest
        BY <2>3 DEF IInv, Tracking
      <3>2. disordered'
        BY <1>1, <1>2, <2>3, <3>1
      <3>3. Missing' = (first..furthest) \ (delivered \cup {i})
        BY <1>1, <1>2, <1>7, <2>3
      <3>4. Cardinality(Missing') <= Cardinality(Missing)
        BY <1>1, <3>3, LateCardinality DEF Missing
      <3>5. Cardinality(Missing') \in Nat
        <4>1. IsFiniteSet(first..furthest)
          BY <1>1, FS_Interval
        <4>2. IsFiniteSet(Missing')
          BY <3>3, <4>1, FS_Difference, Zenon
        <4> QED BY <4>2, FS_CardinalityType
      <3> QED BY <1>1, <1>2, <1>4, <1>6, <1>8, <3>2, <3>4, <3>5
    <2> QED BY <1>1, <2>1, <2>2, <2>3
  <1> QED BY <1>5, <1>9 DEF Accounting, LossNeverUnderReported, LossExactInOrder

-----------------------------------------------------------------------------
(* The theorems. *)

\* Every step keeps the invariant.
LEMMA NextIInv == IInv /\ [Next]_vars => IInv'
  <1> SUFFICES ASSUME IInv, [Next]_vars PROVE IInv'
    OBVIOUS
  <1>1. CASE \E i \in 0..(MaxSent - 1), late \in BOOLEAN : Arrive(i, late)
    <2> PICK i \in 0..(MaxSent - 1), late \in BOOLEAN : Arrive(i, late)
      BY <1>1
    <2> QED BY ArriveTypeOK, ArriveTracking, ArriveAccounting DEF IInv
  <1>2. CASE \E a \in sender.announces : ApplySdp(a)
    BY <1>2, ApplySdpIInv
  <1>3. CASE CloseWindow
    BY <1>3, CloseWindowIInv
  <1>4. CASE UNCHANGED vars
    <2>1. TypeOK'
      BY <1>4 DEF IInv, TypeOK, vars, tracker, history, NoSeq
    <2> QED BY <1>4, <2>1, FrameIInv DEF vars, tracker, history
  <1> QED BY <1>1, <1>2, <1>3, <1>4 DEF Next

\* The invariant holds in every reachable state, for every width of the
\* sequence number and every network whose reach stays below half of it.
THEOREM Invariance == Spec => []IInv
  BY InitIInv, NextIInv, PTL DEF Spec

\* The types of StreamStats's fields are kept by every step.
THEOREM TypeCorrect == Spec => []TypeOK
  <1>1. IInv => TypeOK
    BY DEF IInv
  <1> QED BY <1>1, Invariance, PTL

\* Loss is never under-reported, whatever arrives late or twice.
THEOREM NeverUnderReported == Spec => []LossNeverUnderReported
  <1>1. IInv => LossNeverUnderReported
    BY DEF IInv, Accounting
  <1> QED BY <1>1, Invariance, PTL

\* In-order delivery makes the loss counter exact.
THEOREM ExactInOrder == Spec => []LossExactInOrder
  <1>1. IInv => LossExactInOrder
    BY DEF IInv, Accounting
  <1> QED BY <1>1, Invariance, PTL

\* No loss is shown by two Windows or by none.
THEOREM LossShownOnce == Spec => []WindowsAccountForLoss
  <1>1. IInv => WindowsAccountForLoss
    BY DEF IInv, Accounting
  <1> QED BY <1>1, Invariance, PTL

-----------------------------------------------------------------------------
(* A clean stream of a sender that announces its clock in full or assumes the *)
(* default.  While nothing is missing and nothing was displaced, every        *)
(* timestamp step is that of one packet interval: this is what the samples    *)
(* hold, and what the clock amounts to once it is confirmed, be it announced  *)
(* or inferred from them.                                                     *)

ByDefault(s) == s.rate = DefaultRate /\ s.interval = DefaultInterval

\* What TsJump compares a step with.
Expected(c) == c.rate * (IF c.ptime > 0 THEN c.ptime ELSE DefaultInterval)

\* A confirmed clock expects the sender's step; of a sender the code assumes by default
\* every clock does.
TrueClock(c) ==
    /\ c.confirmed => Expected(c) = Stride(sender)
    /\ ByDefault(sender) => c.rate = DefaultRate /\ c.ptime \in {0, DefaultInterval}

CleanSoFar ==
    WellAnnounced(sender) /\ Clean =>
        /\ win.tsd = 0 /\ win.reorders = 0
        /\ cached.rate = cached.interval \/ ByDefault(sender)
        /\ seen => TrueClock(clock)
        /\ \A k \in DOMAIN samples : samples[k] = Stride(sender)

\* A packet that leaves the stream clean is the next one of a clean stream.
LEMMA CleanArrival ==
    ASSUME NEW i \in 0..(MaxSent - 1), NEW late \in BOOLEAN,
           IInv, Arrive(i, late), Clean'
    PROVE  /\ Clean /\ Step(i) = 0
           /\ seen => i - lastTs = 1
  <1>1. /\ i \in Nat /\ lastTs \in Nat /\ furthest \in Int /\ first \in Nat /\ delivered \subseteq Nat
    BY DEF IInv, TypeOK
  <1>2. /\ delivered' = delivered \cup {i}
        /\ first' = (IF seen THEN first ELSE i)
        /\ furthest' = (IF seen /\ i < furthest THEN furthest ELSE i)
        /\ disordered' = (disordered \/ (seen /\ i <= lastTs))
    BY DEF Arrive
  <1>3. Step(i) = IF seen THEN i - (lastTs + 1) ELSE 0
    BY StepIsDisplacement DEF Arrive
  <1>4. Missing' = (first'..furthest') \ (delivered \cup {i})
    BY <1>2 DEF Missing
  <1>5. ~disordered /\ (seen => ~(i <= lastTs)) /\ Missing' = {}
    BY <1>2 DEF Clean
  <1>6. CASE ~seen
    <2>1. furthest = -1
      BY <1>6 DEF IInv, Tracking
    <2>2. Missing = {}
      BY <1>1, <2>1 DEF Missing
    <2> QED BY <1>3, <1>5, <1>6, <2>2 DEF Clean
  <1>7. CASE seen
    <2>1. /\ first \in delivered /\ furthest \in delivered
          /\ \A j \in delivered : j <= furthest
          /\ lastTs = furthest
      BY <1>5, <1>7 DEF IInv, Tracking
    <2>2. i > furthest /\ first <= furthest /\ furthest \in Nat
      BY <1>1, <1>5, <1>7, <2>1
    <2>3. (first..i) \ (delivered \cup {i}) = {}
      BY <1>1, <1>2, <1>4, <1>5, <1>7, <2>2
    <2>4. Missing = {}
      BY <1>1, <2>2, <2>3 DEF Missing
    <2>5. i = furthest + 1
      <3>1. CASE i > furthest + 1
        <4>1. furthest + 1 \in first..i /\ furthest + 1 # i
          BY <1>1, <2>2, <3>1
        <4>2. furthest + 1 \notin delivered
          BY <2>1, <2>2
        <4> QED BY <2>3, <4>1, <4>2
      <3> QED BY <1>1, <2>2, <3>1
    <2> QED BY <1>1, <1>3, <1>5, <1>7, <2>1, <2>2, <2>4, <2>5 DEF Clean
  <1> QED BY <1>6, <1>7

\* Of samples that are all alike the mode is their value.
LEMMA ModeOfEqual ==
    ASSUME NEW v, NEW s \in Seq(Nat), s # <<>>, \A k \in DOMAIN s : s[k] = v
    PROVE  Mode(s) = v
  <1>1. 1 \in DOMAIN s
    BY EmptySeq, LenProperties
  <1>2. {s[k] : k \in DOMAIN s} = {v}
    BY <1>1
  <1> QED BY <1>2 DEF Mode

\* With one packet per timestamp the next packet's is one step further.
LEMMA StampOfNext ==
    ASSUME sender \in Senders, sender.burst = 1, NEW i \in Nat
    PROVE  Stamp(i + 1) - Stamp(i) = Stride(sender) /\ Stride(sender) \in Positive
  <1>1. Stride(sender) \in Positive
    <2>1. \A m \in Positive, n \in Positive : m * n \in Positive
      BY DEF Positive
    <2> QED BY <2>1, SenderAssumption DEF Stride
  <1>2. i \div 1 = i /\ (i + 1) \div 1 = i + 1
    OBVIOUS
  <1>3. Stamp(i) = i * Stride(sender) /\ Stamp(i + 1) = (i + 1) * Stride(sender)
    BY <1>2 DEF Stamp
  <1>4. \A n \in Nat : (i + 1) * n - i * n = n
    OBVIOUS
  <1> QED BY <1>1, <1>3, <1>4 DEF Positive

\* A step that is what the clock expects is no jump.
LEMMA NoJump ==
    ASSUME NEW c \in [rate : Positive, ptime : Nat, confirmed : BOOLEAN]
    PROVE  ~TsJump(Expected(c), c.rate, c.ptime) /\ Expected(c) \in Nat
  <1>1. \A m \in Nat, n \in Nat : m * n \in Nat
    OBVIOUS
  <1>2. Expected(c) \in Nat
    BY <1>1, TableAssumption DEF Expected, Positive
  <1> DEFINE e == Expected(c)
  <1>3. TsJump(e, c.rate, c.ptime) <=> 2 * e < e \/ 2 * e > 3 * e
    BY DEF TsJump, Expected
  <1> QED BY <1>2, <1>3

\* Announcements keep a clock true: those that say all of it, and any of a sender whose
\* rate and interval are the defaults.
LEMMA AppliedTrue ==
    ASSUME sender \in Senders, WellAnnounced(sender),
           NEW c \in [rate : Positive, ptime : Nat, confirmed : BOOLEAN], TrueClock(c),
           NEW a \in Announcement, a.rate = a.interval \/ ByDefault(sender)
    PROVE  TrueClock(Applied(c, a))
  <1> DEFINE d == Applied(c, a)
  <1>1. /\ d.rate = (IF a.rate THEN sender.rate ELSE c.rate)
        /\ d.ptime = (IF a.interval THEN sender.interval ELSE c.ptime)
        /\ d.confirmed = (c.confirmed \/ a.rate)
    BY DEF Applied
  <1>2. sender.interval > 0 /\ DefaultInterval > 0 /\ sender.interval \in Nat
    BY SenderAssumption, TableAssumption DEF Positive
  <1>3. CASE ByDefault(sender)
    <2>1. d.rate = DefaultRate /\ d.ptime \in {0, DefaultInterval}
      BY <1>1, <1>3 DEF ByDefault, TrueClock
    <2>2. Expected(d) = Stride(sender)
      BY <1>2, <1>3, <2>1 DEF ByDefault, Expected, Stride
    <2> QED BY <2>1, <2>2 DEF TrueClock
  <1>4. CASE ~ByDefault(sender) /\ a.rate
    <2>1. d.rate = sender.rate /\ d.ptime = sender.interval
      BY <1>1, <1>4
    <2>2. Expected(d) = Stride(sender)
      BY <1>2, <2>1 DEF Expected, Stride
    <2> QED BY <1>4, <2>2 DEF TrueClock
  <1>5. CASE ~ByDefault(sender) /\ ~a.rate
    <2>1. ~a.interval
      BY <1>5 DEF Announcement
    <2>2. d.rate = c.rate /\ d.ptime = c.ptime /\ (d.confirmed <=> c.confirmed)
      BY <1>1, <1>5, <2>1
    <2>3. Expected(d) = Expected(c)
      BY <2>2 DEF Expected
    <2> QED BY <1>5, <2>2, <2>3 DEF TrueClock
  <1> QED BY <1>3, <1>4, <1>5

\* The clock of a new stream is true.
LEMMA NewClockTrue ==
    ASSUME sender \in Senders, WellAnnounced(sender), cached \in Announcement,
           cached.rate = cached.interval \/ ByDefault(sender)
    PROVE  TrueClock(NewClock)
  <1> DEFINE before == [rate |-> DefaultRate, ptime |-> 0, confirmed |-> FALSE]
             after  == Applied(before, cached)
  <1>1. before \in [rate : Positive, ptime : Nat, confirmed : BOOLEAN] /\ TrueClock(before)
    BY TableAssumption DEF TrueClock
  <1>2. TrueClock(after)
    BY <1>1, AppliedTrue
  <1>3. sender.kind # "video"
    BY DEF WellAnnounced
  <1>4. NewClock = [rate      |-> after.rate,
                    ptime     |-> IF sender.kind = "audio" /\ ~after.confirmed
                                  THEN DefaultInterval ELSE after.ptime,
                    confirmed |-> after.confirmed]
    <2>1. after.confirmed \in BOOLEAN
      BY DEF Applied, Announcement
    <2> QED BY <1>3, <2>1 DEF NewClock
  <1> HIDE DEF after
  <1>5. CASE sender.kind = "audio" /\ ~after.confirmed
    BY <1>2, <1>4, <1>5 DEF TrueClock
  <1>6. CASE ~(sender.kind = "audio" /\ ~after.confirmed)
    <2>1. /\ NewClock.rate = after.rate /\ NewClock.ptime = after.ptime
          /\ NewClock.confirmed = after.confirmed
      BY <1>4, <1>6
    <2> QED BY <1>2, <2>1 DEF TrueClock, Expected
  <1> QED BY <1>5, <1>6

\* StreamStats::update leaves a clean stream without faults.
LEMMA ArriveClean ==
    ASSUME NEW i \in 0..(MaxSent - 1), NEW late \in BOOLEAN,
           IInv, CleanSoFar, Arrive(i, late)
    PROVE  CleanSoFar'
  <1> SUFFICES ASSUME WellAnnounced(sender)', Clean'
               PROVE  /\ win'.tsd = 0 /\ win'.reorders = 0
                      /\ (cached.rate = cached.interval \/ ByDefault(sender))'
                      /\ TrueClock(clock)'
                      /\ \A k \in DOMAIN samples' : samples'[k] = Stride(sender)'
    BY DEF CleanSoFar
  <1> DEFINE stride == Stride(sender)
  <1>0. UNCHANGED <<sender, cached>> /\ WellAnnounced(sender) /\ i \in Nat /\ lastTs \in Nat
    BY DEF Arrive, WellAnnounced, IInv, TypeOK
  <1>a. /\ sender \in Senders /\ cached \in Announcement /\ sender.burst = 1
        /\ clock \in [rate : Positive, ptime : Nat, confirmed : BOOLEAN]
    BY <1>0 DEF IInv, TypeOK, WellAnnounced
  <1>1. Step(i) = 0 /\ (seen => i = lastTs + 1)
    BY <1>0, CleanArrival
  <1>2. /\ win.tsd = 0 /\ win.reorders = 0 /\ (seen => TrueClock(clock))
        /\ cached.rate = cached.interval \/ ByDefault(sender)
        /\ \A k \in DOMAIN samples : samples[k] = stride
    BY <1>0, CleanArrival DEF CleanSoFar
  <1>3. stride \in Positive /\ (seen => Delta(i) = stride)
    BY <1>0, <1>1, <1>a, StampOfNext DEF Delta
  <1>4. ~TsdNow(i)
    <2> SUFFICES ASSUME seen, clock.confirmed
                 PROVE  ~TsJump(Delta(i), clock.rate, clock.ptime)
      BY DEF TsdNow
    <2>1. Expected(clock) = Delta(i)
      BY <1>2, <1>3 DEF TrueClock
    <2> QED BY <1>a, <2>1, NoJump
  <1>5. win'.tsd = 0 /\ win'.reorders = 0
    BY <1>1, <1>2, <1>4 DEF Arrive, Update, CountPacket, One
  <1> DEFINE new == Sampled(i)
  <1>6. new \in Seq(Nat) /\ \A k \in DOMAIN new : new[k] = stride
    <2>1. samples \in Seq(Nat)
      BY DEF IInv, TypeOK
    <2>2. CASE seen /\ ~clock.confirmed /\ Delta(i) > 0
      <3>1. new = Append(samples, stride) /\ stride \in Nat
        BY <1>3, <2>2 DEF Sampled, Positive
      <3> HIDE DEF stride
      <3>2. /\ Append(samples, stride) \in Seq(Nat)
            /\ \A k \in DOMAIN Append(samples, stride) : Append(samples, stride)[k] = stride
        BY <1>2, <2>1, <3>1, AppendProperties
      <3> QED BY <3>1, <3>2
    <2>3. CASE ~(seen /\ ~clock.confirmed /\ Delta(i) > 0)
      BY <1>2, <2>1, <2>3 DEF Sampled
    <2> QED BY <2>2, <2>3
  <1>7. \A k \in DOMAIN samples' : samples'[k] = stride
    <2>1. samples' = IF Len(new) >= SampleSize THEN <<>> ELSE new
      BY DEF Arrive, Update, InferClock
    <2> HIDE DEF new, stride
    <2> QED BY <1>6, <2>1
  <1>8. TrueClock(clock')
    <2>1. clock' \in IF ~seen THEN {NewClock}
                     ELSE IF Inferred(i) = {} THEN {clock}
                     ELSE {[rate |-> pair.rate, ptime |-> pair.interval, confirmed |-> TRUE] :
                              pair \in Inferred(i)}
      BY DEF Arrive, Update, InferClock
    <2>2. CASE ~seen
      BY <1>0, <1>2, <1>a, <2>1, <2>2, NewClockTrue
    <2>3. CASE seen /\ Inferred(i) = {}
      BY <1>2, <2>1, <2>3
    <2>4. CASE seen /\ Inferred(i) # {}
      <3>1. PICK pair \in Inferred(i) :
                clock' = [rate |-> pair.rate, ptime |-> pair.interval, confirmed |-> TRUE]
        BY <2>1, <2>4
      <3>2. /\ pair.interval \in Nat /\ pair.interval > 0
            /\ Stride(pair) = Mode(new) /\ Len(new) >= SampleSize
            /\ Mode(new) = Stride(Known[1]) => pair = Known[1]
        BY InferredPairs DEF Positive
      <3>3. Mode(new) = stride
        <4>1. new # <<>>
          BY <3>2, TableAssumption DEF Positive
        <4> HIDE DEF new, stride
        <4> QED BY <1>6, <4>1, ModeOfEqual
      <3>4. Expected(clock') = Stride(sender)
        BY <3>1, <3>2, <3>3 DEF Expected, Stride
      <3>5. ByDefault(sender) => pair.rate = DefaultRate /\ pair.interval = DefaultInterval
        BY <3>2, <3>3, TableAssumption DEF ByDefault, Stride
      <3> QED BY <3>1, <3>4, <3>5 DEF TrueClock
    <2> QED BY <2>2, <2>3, <2>4
  <1>9. TrueClock(clock)'
    BY <1>0, <1>8 DEF TrueClock, ByDefault, Expected, Stride
  <1>10. (\A k \in DOMAIN samples' : samples'[k] = Stride(sender)')
         /\ (cached.rate = cached.interval \/ ByDefault(sender))'
    BY <1>0, <1>2, <1>7 DEF Stride, ByDefault
  <1> QED BY <1>5, <1>9, <1>10

\* An announcement leaves it so.
LEMMA ApplySdpClean ==
    ASSUME NEW a \in sender.announces, IInv, CleanSoFar, ApplySdp(a) PROVE CleanSoFar'
  <1>1. /\ UNCHANGED <<sender, win, samples, delivered, first, furthest, disordered, lastSeq>>
        /\ cached' = a
        /\ clock' = IF seen THEN Applied(clock, a) ELSE clock
    BY DEF ApplySdp, history
  <1>2. /\ sender \in Senders /\ a \in Announcement
        /\ clock \in [rate : Positive, ptime : Nat, confirmed : BOOLEAN]
    BY SenderAssumption DEF IInv, TypeOK
  <1> SUFFICES ASSUME WellAnnounced(sender), Clean
               PROVE  CleanSoFar'
    BY <1>1 DEF CleanSoFar, WellAnnounced, Clean, Missing
  <1>3. a.rate = a.interval \/ ByDefault(sender)
    BY DEF WellAnnounced, ByDefault
  <1>4. seen => TrueClock(clock')
    BY <1>1, <1>2, <1>3, AppliedTrue DEF CleanSoFar
  <1>5. seen' => TrueClock(clock)'
    BY <1>1, <1>4 DEF seen, TrueClock, ByDefault, Expected, Stride
  <1> QED BY <1>1, <1>3, <1>5 DEF CleanSoFar, ByDefault, Stride

\* Every step keeps a clean stream without faults.
LEMMA NextClean == IInv /\ CleanSoFar /\ [Next]_vars => CleanSoFar'
  <1> SUFFICES ASSUME IInv, CleanSoFar, [Next]_vars PROVE CleanSoFar'
    OBVIOUS
  <1>1. CASE \E i \in 0..(MaxSent - 1), late \in BOOLEAN : Arrive(i, late)
    BY <1>1, ArriveClean
  <1>2. CASE \E a \in sender.announces : ApplySdp(a)
    BY <1>2, ApplySdpClean
  <1>3. CASE CloseWindow \/ UNCHANGED vars
    <2>1. /\ UNCHANGED <<sender, cached, clock, samples, delivered, first, furthest,
                         disordered, lastSeq>>
          /\ UNCHANGED win \/ win' = CleanWindow
      BY <1>3 DEF CloseWindow, vars, tracker, history
    <2>2. /\ WellAnnounced(sender)' = WellAnnounced(sender) /\ Clean' = Clean
          /\ seen' = seen /\ TrueClock(clock)' = TrueClock(clock)
          /\ ByDefault(sender)' = ByDefault(sender) /\ Stride(sender)' = Stride(sender)
      BY <2>1 DEF WellAnnounced, Clean, Missing, seen, TrueClock, ByDefault, Expected, Stride
    <2> QED BY <2>1, <2>2 DEF CleanSoFar, CleanWindow
  <1> QED BY <1>1, <1>2, <1>3 DEF Next

\* A stream of a sender whose clock is the default or announced in full, if at all, that
\* lost nothing and kept its order has no fault of loss, order or timestamp in its
\* diagnostics, however often its number wraps and whichever clock was inferred (update,
\* apply_sdp, diagnostics).
THEOREM CleanIsClean == Spec => []CleanStreamIsClean
  <1>1. Init => CleanSoFar
    BY DEF Init, CleanSoFar, CleanWindow, NoSdp, seen, NoSeq
  <1>2. IInv /\ CleanSoFar => CleanStreamIsClean
    <2> SUFFICES ASSUME IInv, CleanSoFar, WellAnnounced(sender), Clean
                 PROVE  FaultFree
      BY DEF CleanStreamIsClean
    <2>1. win.tsd = 0 /\ win.reorders = 0
      BY DEF CleanSoFar
    <2>2. lost = 0
      BY FS_EmptySet DEF IInv, Accounting, LossExactInOrder, Clean
    <2>3. win.lost \in Nat /\ win.packets \in Nat /\ billed \in Nat /\ lost = billed + win.lost
      BY DEF IInv, TypeOK, Accounting, WindowsAccountForLoss
    <2>4. win.lost = 0
      BY <2>2, <2>3
    <2>5. ~(100 * win.reorders > win.packets + win.lost)
      BY <2>1, <2>3, <2>4
    <2> QED BY <2>1, <2>4, <2>5 DEF Diagnostics, FaultFree
  <1> QED BY <1>1, <1>2, NextClean, Invariance, PTL DEF Spec

-----------------------------------------------------------------------------
(* Session announcements (SapSdp). *)

Fields == DOMAIN NoStream

Sure == certain \ unclear

\* What a clear document says is looked up and applied by the sections that speak of the flow.
LEMMA ClearSections ==
    ASSUME NEW d, NEW f, Clear(d, f)
    PROVE  LET s == ParseSdp(d.lines)
           IN  /\ f \notin DOMAIN d.means => Sections(s, f) = {}
               /\ f \in DOMAIN d.means =>
                     /\ d.means[f].id = s.id
                     /\ Sections(s, f) # {}
                     /\ Says(s, Sections(s, f), d.means[f])
                     /\ Says(s, FirstSection(s, f), d.means[f])
  <1> DEFINE s  == ParseSdp(d.lines)
             of == {i \in DOMAIN s.media : SpeaksOf(s.media[i], f)}
  <1> HIDE DEF s
  <1>1. Sections(s, f) = of
    BY DEF Sections, Describes, SpeaksOf
  <1>2. FirstSection(s, f) = {Min(of)}
    BY <1>1 DEF FirstSection
  <1>3. IF f \notin DOMAIN d.means THEN of = {}
        ELSE /\ d.means[f].id = s.id
             /\ of # {}
             /\ \A said \in {of, {Min(of)}} : Says(s, said, d.means[f])
    BY DEF Clear, s
  <1>4. f \notin DOMAIN d.means => Sections(s, f) = {}
    BY <1>1, <1>3
  <1>5. f \in DOMAIN d.means =>
           /\ d.means[f].id = s.id
           /\ Sections(s, f) # {}
           /\ Says(s, Sections(s, f), d.means[f])
           /\ Says(s, FirstSection(s, f), d.means[f])
    <2> HIDE DEF of
    <2> QED BY <1>1, <1>2, <1>3
  <1> QED BY <1>4, <1>5 DEF s

\* A stream to which sections are applied that say in full what is meant, is described as
\* is meant, whatever was known before; without sections nothing changes.
LEMMA ApplySays ==
    ASSUME NEW st, DOMAIN st = Fields, NEW s, NEW sections
    PROVE  LET applied == Apply(st, s, sections)
           IN  /\ DOMAIN applied = Fields /\ applied.age = st.age
               /\ sections = {} => applied.hz = st.hz /\ applied.pt = st.pt
               /\ \A meant : Says(s, sections, meant)
                     => applied.hz = meant.hz /\ applied.pt = meant.pt
  <1>1. /\ DOMAIN Apply(st, s, sections) = Fields
        /\ Apply(st, s, sections).age = st.age
        /\ Apply(st, s, sections).hz = Rate(s, sections, st.hz)
        /\ Apply(st, s, sections).pt = Type(s, sections, st.pt)
    BY DEF Apply, Fields, NoStream
  <1>2. sections = {} => Rate(s, sections, st.hz) = st.hz /\ Type(s, sections, st.pt) = st.pt
    BY DEF Rate, Type
  <1>3. ASSUME NEW meant, Says(s, sections, meant)
        PROVE  Rate(s, sections, st.hz) = meant.hz /\ Type(s, sections, st.pt) = meant.pt
    BY <1>3 DEF Says, Rate, Type
  <1> QED BY <1>1, <1>2, <1>3

StreamsTyped ==
    /\ DOMAIN streams = Flows /\ DOMAIN means = Flows /\ Sure \subseteq Flows
    /\ \A f \in Flows : DOMAIN streams[f] = Fields

\* A cached session that describes a flow, and is the one that was last announced for it by
\* a document clear about it, says in the section that is found what was announced.
CacheCurrent ==
    \A id \in DOMAIN cache, f \in Sure :
        means[f].id = id /\ Sections(cache[id], f) # {}
            => Says(cache[id], FirstSection(cache[id], f), means[f])

SdpInv == StreamsTyped /\ CacheCurrent /\ LatestAnnouncementDescribes

LEMMA SdpInitially == SdpInit => SdpInv
  BY DEF SdpInit, SdpInv, StreamsTyped, CacheCurrent, LatestAnnouncementDescribes, Described, Sure,
     Exists, Fields

\* An announcement: the flows its author means are described anew, in the streams and in
\* the cache; of the others it says nothing.  What it is not clear about is no longer sure.
LEMMA SapKeeps ==
    ASSUME SdpInv, NEW d \in Documents, NEW deletion \in BOOLEAN,
           Sap([document |-> d, version |-> 1, deletion |-> deletion, whole |-> TRUE])
    PROVE  SdpInv'
  <1> DEFINE s   == ParseSdp(d.lines)
             sap == [document |-> d, version |-> 1, deletion |-> deletion, whole |-> TRUE]
  <1>1. CASE deletion
    <2>1. ParseSap(sap) = {}
      BY <1>1 DEF ParseSap
    <2>2. UNCHANGED <<cache, streams, means, certain, unclear>>
      BY <2>1 DEF Sap
    <2> QED BY <2>2 DEF SdpInv, StreamsTyped, CacheCurrent, LatestAnnouncementDescribes, Described,
                        Sure, Exists
  <1>2. CASE ~deletion
    <2>1. ParseSap(sap) = {s}
      BY <1>2 DEF ParseSap
    <2>2. /\ streams' = [f \in Flows |-> IF Exists(f) THEN Apply(streams[f], s, Sections(s, f))
                                         ELSE streams[f]]
          /\ CacheSdp(s)
          /\ means' = [f \in Flows |-> IF f \in DOMAIN d.means THEN d.means[f] ELSE means[f]]
          /\ certain' = certain \cup DOMAIN d.means
          /\ unclear' = (unclear \ DOMAIN d.means) \cup {f \in Flows : ~Clear(d, f)}
      <3>1. {s} # {} /\ sap.document = d
        OBVIOUS
      <3>2. /\ \A t \in {s} : HandleSap(t)
            /\ means' = [f \in Flows |-> IF f \in DOMAIN d.means THEN d.means[f] ELSE means[f]]
            /\ certain' = certain \cup DOMAIN d.means
            /\ unclear' = (unclear \ DOMAIN d.means) \cup {f \in Flows : ~Clear(d, f)}
        BY <2>1, <3>1 DEF Sap
      <3>3. HandleSap(s)
        BY <3>2
      <3> QED BY <3>2, <3>3 DEF HandleSap
    <2> HIDE DEF s, sap
    <2>3. ASSUME NEW f \in Flows, Clear(d, f)
          PROVE  /\ f \notin DOMAIN d.means => Sections(s, f) = {}
                 /\ f \in DOMAIN d.means =>
                       /\ d.means[f].id = s.id
                       /\ Sections(s, f) # {}
                       /\ Says(s, Sections(s, f), d.means[f])
                       /\ Says(s, FirstSection(s, f), d.means[f])
      BY <2>3, ClearSections DEF s
    <2>4. \A f \in Flows \cap Sure' : Clear(d, f) /\ (f \in DOMAIN d.means \/ f \in Sure)
      BY <2>2 DEF Sure
    <2>5. ASSUME NEW f \in Flows
          PROVE  /\ DOMAIN streams'[f] = Fields
                 /\ Exists(f)' => Exists(f)
                 /\ Exists(f) /\ f \in DOMAIN d.means /\ Clear(d, f) =>
                       streams'[f].hz = d.means[f].hz /\ streams'[f].pt = d.means[f].pt
                 /\ f \notin DOMAIN d.means /\ Clear(d, f) =>
                       streams'[f].hz = streams[f].hz /\ streams'[f].pt = streams[f].pt
      <3>1. DOMAIN streams[f] = Fields
        BY DEF SdpInv, StreamsTyped
      <3>2. CASE ~Exists(f)
        <4>1. streams'[f] = streams[f]
          BY <2>2, <3>2
        <4> QED BY <3>1, <3>2, <4>1 DEF Exists
      <3>3. CASE Exists(f)
        <4>1. streams'[f] = Apply(streams[f], s, Sections(s, f))
          BY <2>2, <3>3
        <4> QED BY <2>3, <3>1, <3>3, <4>1, ApplySays
      <3> QED BY <3>2, <3>3
    <2>6. StreamsTyped'
      <3>1. DOMAIN streams' = Flows /\ DOMAIN means' = Flows
        BY <2>2
      <3>2. Sure' \subseteq Flows
        BY <2>2, DocumentAssumption DEF SdpInv, StreamsTyped, Sure
      <3> QED BY <2>5, <3>1, <3>2 DEF StreamsTyped
    <2>7. ASSUME NEW f \in Flows
          PROVE  means'[f] = IF f \in DOMAIN d.means THEN d.means[f] ELSE means[f]
      BY <2>2
    <2>8. LatestAnnouncementDescribes'
      <3> SUFFICES ASSUME NEW f \in Sure', Exists(f)'
                   PROVE  streams'[f].hz = means'[f].hz /\ streams'[f].pt = means'[f].pt
        BY DEF LatestAnnouncementDescribes, Described, Sure
      <3>1. f \in Flows /\ Clear(d, f)
        BY <2>4, <2>6 DEF StreamsTyped
      <3>2. CASE f \in DOMAIN d.means
        BY <2>5, <2>7, <3>1, <3>2
      <3>3. CASE f \notin DOMAIN d.means
        <4>1. f \in Sure /\ Exists(f)
          BY <2>4, <2>5, <3>1, <3>3
        <4>2. streams[f].hz = means[f].hz /\ streams[f].pt = means[f].pt
          BY <4>1 DEF SdpInv, LatestAnnouncementDescribes, Described, Sure
        <4> QED BY <2>5, <2>7, <3>1, <3>3, <4>2
      <3> QED BY <3>2, <3>3
    <2>9. CacheCurrent'
      <3> SUFFICES ASSUME NEW id \in DOMAIN cache', NEW f \in Sure',
                          means'[f].id = id, Sections(cache'[id], f) # {}
                   PROVE  Says(cache'[id], FirstSection(cache'[id], f), means'[f])
        BY DEF CacheCurrent, Sections, FirstSection
      <3>0. f \in Flows /\ Clear(d, f)
        BY <2>4, <2>6 DEF StreamsTyped
      <3>1. PICK gone : cache' = [k \in (DOMAIN cache \ gone) \cup {s.id} |->
                                     IF k = s.id THEN s ELSE cache[k]]
        BY <2>2 DEF CacheSdp
      <3>2. CASE id = s.id
        <4>1. cache'[id] = s
          BY <3>1, <3>2
        <4>2. f \in DOMAIN d.means
          BY <2>3, <3>0, <4>1
        <4> QED BY <2>3, <2>7, <3>0, <4>1, <4>2
      <3>3. CASE id # s.id
        <4>1. id \in DOMAIN cache /\ cache'[id] = cache[id]
          BY <3>1, <3>3
        <4>2. f \notin DOMAIN d.means
          BY <2>3, <2>7, <3>0, <3>3
        <4>3. means'[f] = means[f] /\ f \in Sure
          BY <2>4, <2>7, <3>0, <4>2
        <4> QED BY <4>1, <4>3 DEF SdpInv, CacheCurrent
      <3> QED BY <3>2, <3>3
    <2> QED BY <2>6, <2>8, <2>9 DEF SdpInv
  <1> QED BY <1>1, <1>2

\* A packet of a stream that is known changes its age; the first one takes what the cache
\* says, and if that is one session, the one that was announced last, it is what is meant.
LEMMA MediaPacketKeeps ==
    ASSUME SdpInv, NEW f \in Flows, MediaPacket(f) PROVE SdpInv'
  <1>1. /\ DOMAIN streams = Flows /\ \A g \in Flows : DOMAIN streams[g] = Fields
        /\ UNCHANGED <<cache, means, unclear>>
    BY DEF SdpInv, StreamsTyped, MediaPacket
  <1>2. CacheCurrent' /\ Sure' \subseteq Sure
    <2>1. certain' \subseteq certain
      BY DEF MediaPacket
    <2>2. Sure' \subseteq Sure
      BY <1>1, <2>1 DEF Sure
    <2> QED BY <1>1, <2>2 DEF SdpInv, CacheCurrent, Sections, FirstSection
  <1>3. CASE Exists(f)
    <2>1. streams' = [streams EXCEPT ![f].age = 0]
      BY <1>3 DEF MediaPacket
    <2>2. DOMAIN streams'[f] = Fields /\ streams'[f].hz = streams[f].hz
             /\ streams'[f].pt = streams[f].pt
      BY <1>1, <2>1 DEF Fields, NoStream
    <2>3. \A g \in Flows \ {f} : streams'[g] = streams[g]
      BY <1>1, <2>1
    <2>4. StreamsTyped'
      BY <1>1, <1>2, <2>1, <2>2, <2>3 DEF SdpInv, StreamsTyped
    <2>5. LatestAnnouncementDescribes'
      <3> SUFFICES ASSUME NEW g \in Sure', Exists(g)'
                   PROVE  streams'[g].hz = means'[g].hz /\ streams'[g].pt = means'[g].pt
        BY DEF LatestAnnouncementDescribes, Described, Sure
      <3>1. g \in Sure /\ g \in Flows
        BY <1>2 DEF SdpInv, StreamsTyped
      <3>2. Exists(g) /\ streams'[g].hz = streams[g].hz /\ streams'[g].pt = streams[g].pt
        BY <1>3, <2>2, <2>3, <3>1 DEF Exists
      <3> QED BY <1>1, <3>1, <3>2 DEF SdpInv, LatestAnnouncementDescribes, Described, Sure
    <2> QED BY <1>2, <2>4, <2>5 DEF SdpInv
  <1>4. CASE ~Exists(f)
    <2>1. PICK st \in IF Matches(f) = {} THEN {Started}
                      ELSE {Apply(Started, cache[id], FirstSection(cache[id], f)) : id \in Matches(f)} :
              streams' = [streams EXCEPT ![f] = st]
      BY <1>4 DEF MediaPacket
    <2>2. certain' = IF Matches(f) = {means[f].id} THEN certain ELSE certain \ {f}
      BY <1>4 DEF MediaPacket
    <2>3. DOMAIN Started = Fields
      BY DEF Started, Fields, NoStream
    <2>4. DOMAIN st = Fields
      BY <2>1, <2>3, ApplySays
    <2>5. /\ DOMAIN streams' = Flows /\ streams'[f] = st
          /\ \A g \in Flows \ {f} : streams'[g] = streams[g]
      BY <1>1, <2>1
    <2>6. StreamsTyped'
      BY <1>1, <1>2, <2>4, <2>5 DEF SdpInv, StreamsTyped
    <2>7. ASSUME f \in Sure' PROVE st.hz = means[f].hz /\ st.pt = means[f].pt
      <3> DEFINE id == means[f].id
      <3>1. Matches(f) = {id} /\ f \in Sure
        BY <1>2, <2>2, <2>7 DEF Sure
      <3>2. st = Apply(Started, cache[id], FirstSection(cache[id], f))
        BY <2>1, <3>1
      <3>3. id \in DOMAIN cache /\ Sections(cache[id], f) # {}
        BY <3>1 DEF Matches
      <3>4. Says(cache[id], FirstSection(cache[id], f), means[f])
        BY <3>1, <3>3 DEF SdpInv, CacheCurrent
      <3> QED BY <2>3, <3>2, <3>4, ApplySays
    <2>8. LatestAnnouncementDescribes'
      <3> SUFFICES ASSUME NEW g \in Sure', Exists(g)'
                   PROVE  streams'[g].hz = means'[g].hz /\ streams'[g].pt = means'[g].pt
        BY DEF LatestAnnouncementDescribes, Described, Sure
      <3>1. CASE g = f
        BY <1>1, <2>5, <2>7, <3>1
      <3>2. CASE g # f
        <4>1. g \in Sure /\ g \in Flows
          BY <1>2 DEF SdpInv, StreamsTyped
        <4>2. streams'[g] = streams[g] /\ means'[g] = means[g]
          BY <1>1, <2>5, <3>2, <4>1
        <4>3. Exists(g)
          BY <4>2 DEF Exists
        <4> QED BY <4>1, <4>2, <4>3 DEF SdpInv, LatestAnnouncementDescribes, Described, Sure
      <3> QED BY <3>1, <3>2
    <2> QED BY <1>2, <2>6, <2>8 DEF SdpInv
  <1> QED BY <1>3, <1>4

\* Time and the end of a Window age streams and forget them; what they say stays.
LEMMA StreamsAge ==
    ASSUME SdpInv, UNCHANGED <<cache, means, certain, unclear>>, DOMAIN streams' = Flows,
           \A f \in Flows :
              \/ streams'[f] = NoStream
              \/ /\ Exists(f) /\ DOMAIN streams'[f] = Fields
                 /\ streams'[f].hz = streams[f].hz /\ streams'[f].pt = streams[f].pt
    PROVE  SdpInv'
  <1>1. StreamsTyped'
    BY DEF SdpInv, StreamsTyped, Fields, Sure
  <1>2. CacheCurrent'
    BY DEF SdpInv, CacheCurrent, Sure
  <1>3. LatestAnnouncementDescribes'
    BY DEF SdpInv, StreamsTyped, LatestAnnouncementDescribes, Described, Sure, Exists
  <1> QED BY <1>1, <1>2, <1>3 DEF SdpInv

LEMMA SdpTimeKeeps == ASSUME SdpInv, Tick \/ SdpWindow PROVE SdpInv'
  <1>1. DOMAIN streams = Flows /\ \A f \in Flows : DOMAIN streams[f] = Fields
    BY DEF SdpInv, StreamsTyped
  <1>2. CASE Tick
    <2>1. /\ UNCHANGED <<cache, means, certain, unclear>>
          /\ streams' = [f \in Flows |-> IF Exists(f) THEN [streams[f] EXCEPT !.age = @ + 1]
                                         ELSE NoStream]
      BY <1>2 DEF Tick
    <2>2. ASSUME NEW f \in Flows, Exists(f)
          PROVE  /\ DOMAIN streams'[f] = Fields
                 /\ streams'[f].hz = streams[f].hz /\ streams'[f].pt = streams[f].pt
      BY <1>1, <2>1, <2>2 DEF Fields, NoStream
    <2> QED BY <2>1, <2>2, StreamsAge
  <1>3. CASE SdpWindow
    <2>1. /\ UNCHANGED <<cache, means, certain, unclear>>
          /\ streams' = [f \in Flows |-> IF streams[f].age >= Prune THEN NoStream ELSE streams[f]]
      BY <1>3 DEF SdpWindow
    <2>2. \A f \in Flows : ~Exists(f) => streams[f] = NoStream
      BY DEF Exists
    <2> QED BY <1>1, <2>1, <2>2, StreamsAge
  <1> QED BY <1>2, <1>3

LEMMA SdpNextKeeps == SdpInv /\ [SdpNext]_sdpVars => SdpInv'
  <1> SUFFICES ASSUME SdpInv, [SdpNext]_sdpVars PROVE SdpInv'
    OBVIOUS
  <1>1. CASE \E d \in Documents, deletion \in BOOLEAN :
                Sap([document |-> d, version |-> 1, deletion |-> deletion, whole |-> TRUE])
    BY <1>1, SapKeeps
  <1>2. CASE \E f \in Flows : MediaPacket(f)
    BY <1>2, MediaPacketKeeps
  <1>3. CASE (\E d \in Domains : Clock(d)) \/ UNCHANGED sdpVars
    <2>1. UNCHANGED <<cache, streams, means, certain, unclear>>
      BY <1>3 DEF Clock, sdpVars
    <2> QED BY <2>1 DEF SdpInv, StreamsTyped, CacheCurrent, LatestAnnouncementDescribes,
                        Described, Sure, Exists
  <1>4. CASE Tick \/ SdpWindow
    BY <1>4, SdpTimeKeeps
  <1> QED BY <1>1, <1>2, <1>3, <1>4 DEF SdpNext

\* For any documents, flows and size of the cache, with any eviction: a stream that heard its
\* last announcement, or found no other session when it came, is described as its author
\* last announced it, as long as the last document to speak of it is clear about it
\* (handle_sap, find_sdp_media, apply_sdp, cache_sdp).
THEOREM DescribedAsAnnounced == SdpSpec => []LatestAnnouncementDescribes
  <1>1. SdpInv => LatestAnnouncementDescribes
    BY DEF SdpInv
  <1> QED BY <1>1, SdpInitially, SdpNextKeeps, PTL DEF SdpSpec

CacheBounded == IsFiniteSet(DOMAIN cache) /\ Cardinality(DOMAIN cache) <= MaxSessions

\* A flood of announcements does not fill the memory: the cache has at most MaxSessions
\* sessions, since a session that is new to a full cache always finds a victim (cache_sdp).
THEOREM CacheIsBounded == SdpSpec => []CacheBounded
  <1>1. SdpInit => CacheBounded
    BY FS_EmptySet, CacheAssumption DEF SdpInit, CacheBounded
  <1>2. ASSUME CacheBounded, NEW s, CacheSdp(s) PROVE CacheBounded'
    <2> DEFINE old == DOMAIN cache
    <2>1. IsFiniteSet(old) /\ Cardinality(old) \in Nat /\ Cardinality(old) <= MaxSessions
      BY <1>2, FS_CardinalityType DEF CacheBounded
    <2>2. PICK gone \in IF s.id \in old \/ Cardinality(old) < MaxSessions
                        THEN {{}} ELSE {{v} : v \in Victims} :
              cache' = [id \in (old \ gone) \cup {s.id} |-> IF id = s.id THEN s ELSE cache[id]]
      BY <1>2 DEF CacheSdp
    <2>3. DOMAIN cache' = (old \ gone) \cup {s.id}
      BY <2>2
    <2>4. CASE s.id \in old
      <3>1. DOMAIN cache' = old
        BY <2>2, <2>3, <2>4
      <3> QED BY <2>1, <3>1 DEF CacheBounded
    <2>5. CASE s.id \notin old /\ Cardinality(old) < MaxSessions
      <3>1. DOMAIN cache' = old \cup {s.id}
        BY <2>2, <2>3, <2>5
      <3>2. IsFiniteSet(old \cup {s.id}) /\ Cardinality(old \cup {s.id}) = Cardinality(old) + 1
        BY <2>1, <2>5, FS_AddElement
      <3> QED BY <2>1, <2>5, <3>1, <3>2, CacheAssumption DEF CacheBounded
    <2>6. CASE s.id \notin old /\ ~(Cardinality(old) < MaxSessions)
      <3>1. PICK v \in Victims : gone = {v}
        BY <2>2, <2>6
      <3>2. v \in old
        BY <3>1 DEF Victims
      <3>3. IsFiniteSet(old \ {v}) /\ Cardinality(old \ {v}) = Cardinality(old) - 1
        BY <2>1, <3>2, FS_RemoveElement
      <3>4. IsFiniteSet((old \ {v}) \cup {s.id})
               /\ Cardinality((old \ {v}) \cup {s.id}) = Cardinality(old \ {v}) + 1
        BY <2>6, <3>3, FS_AddElement
      <3>5. Cardinality(DOMAIN cache') <= MaxSessions /\ IsFiniteSet(DOMAIN cache')
        BY <2>1, <2>3, <3>1, <3>3, <3>4, CacheAssumption
      <3> QED BY <3>5 DEF CacheBounded
    <2> QED BY <2>4, <2>5, <2>6
  <1>3. CacheBounded /\ [SdpNext]_sdpVars => CacheBounded'
    <2> SUFFICES ASSUME CacheBounded, [SdpNext]_sdpVars PROVE CacheBounded'
      OBVIOUS
    <2>1. ASSUME UNCHANGED cache PROVE CacheBounded'
      BY <2>1 DEF CacheBounded
    <2>2. ASSUME NEW sap, Sap(sap) PROVE CacheBounded'
      BY <1>2, <2>1, <2>2 DEF Sap, HandleSap
    <2>3. CASE \E d \in Documents, deletion \in BOOLEAN :
                  Sap([document |-> d, version |-> 1, deletion |-> deletion, whole |-> TRUE])
      BY <2>2, <2>3
    <2>4. CASE ~\E d \in Documents, deletion \in BOOLEAN :
                   Sap([document |-> d, version |-> 1, deletion |-> deletion, whole |-> TRUE])
      BY <2>1, <2>4 DEF SdpNext, MediaPacket, Clock, Tick, SdpWindow, sdpVars
    <2> QED BY <2>3, <2>4
  <1> QED BY <1>1, <1>3, PTL DEF SdpSpec

=============================================================================
