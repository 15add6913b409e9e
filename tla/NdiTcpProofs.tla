---------------------------- MODULE NdiTcpProofs ----------------------------
(***************************************************************************)
(* For any hosts, flows and bounds, any numbers a connection may begin     *)
(* with and any width of them: a reset is deducted once, and without reuse *)
(* of the ports the retransmissions of a flow are counted exactly.         *)
(***************************************************************************)
EXTENDS NdiTcp, TLAPS

USE DEF tracked

-----------------------------------------------------------------------------
(* Numbers modulo M. *)

\* Division with remainder.
LEMMA Divided ==
    ASSUME NEW M \in Nat \ {0}, NEW a \in Int
    PROVE  a % M \in 0..(M - 1) /\ \E q \in Int : a = M * q + (a % M)
<1>1. a = M * (a \div M) + (a % M) /\ a \div M \in Int OBVIOUS
<1>2. a % M \in 0..(M - 1) OBVIOUS
<1> QED BY <1>1, <1>2

\* The remainder is the only one.
LEMMA Remainder ==
    ASSUME NEW M \in Nat \ {0}, NEW a \in Int, NEW q \in Int, NEW r \in 0..(M - 1),
           a = M * q + r
    PROVE  a % M = r
<1>1. PICK p \in Int : a = M * p + (a % M) BY Divided
<1>2. a % M \in 0..(M - 1) BY Divided
<1> DEFINE s == a % M
           k == p - q
<1>3. k \in Int /\ M * k = M * p - M * q BY SMT
<1>4. M * k = r - s BY <1>1, <1>2, <1>3
<1>5. k = 0
  <2>1. (k >= 1 => M * k >= M) /\ (k <= -1 => M * k <= -M) BY <1>3, SMT
  <2> HIDE DEF k, s
  <2> QED BY <1>2, <1>3, <1>4, <2>1 DEF s
<1>6. M * k = 0 BY <1>5
<1> HIDE DEF k
<1> QED BY <1>2, <1>4, <1>6

\* The difference of two remainders is the difference of the numbers, modulo M.
LEMMA DifferenceKept ==
    ASSUME NEW M \in Nat \ {0}, NEW a \in Int, NEW b \in Int, -M < a - b, a - b < M
    PROVE  ((a % M) - (b % M)) % M = IF a >= b THEN a - b ELSE a - b + M
<1>1. PICK p \in Int : a = M * p + (a % M) BY Divided
<1>2. PICK q \in Int : b = M * q + (b % M) BY Divided
<1>3. a % M \in 0..(M - 1) /\ b % M \in 0..(M - 1) BY Divided
<1> DEFINE x == (a % M) - (b % M)
<1>4. x \in Int BY <1>3
<1>5. CASE a >= b
  <2>1. M * (q - p) = M * q - M * p BY SMT
  <2>2. x = M * (q - p) + (a - b) BY <1>1, <1>2, <1>3, <2>1
  <2>3. a - b \in 0..(M - 1) BY <1>5
  <2>4. x % M = a - b BY <1>4, <2>2, <2>3, Remainder
  <2> QED BY <1>5, <2>4
<1>6. CASE ~(a >= b)
  <2>1. M * (q - p - 1) = M * q - M * p - M BY SMT
  <2>2. x = M * (q - p - 1) + (a - b + M) BY <1>1, <1>2, <1>3, <2>1
  <2>3. a - b + M \in 0..(M - 1) BY <1>6
  <2>4. x % M = a - b + M BY <1>4, <2>2, <2>3, Remainder
  <2> QED BY <1>6, <2>4
<1> QED BY <1>5, <1>6

\* Within reach, a number on the wire is behind another exactly when its segment is
\* earlier, and ahead of it exactly when it is later: the i32 cast of handle_tcp.
LEMMA WireOrder ==
    ASSUME NEW first \in 0..(SeqMod - 1), NEW i \in Int, NEW j \in Int,
           -Reach <= i - j, i - j <= Reach
    PROVE  /\ Behind((first + i) % SeqMod, (first + j) % SeqMod) <=> i < j
           /\ Ahead((first + i) % SeqMod, (first + j) % SeqMod) <=> i > j
<1>1. /\ SeqMod \in Nat \ {0} /\ Reach \in Nat /\ 2 * Reach < SeqMod
      /\ SeqMod = 2 * (SeqMod \div 2) /\ SeqMod \div 2 \in Nat
  BY BoundAssumption, SMT
<1> DEFINE a == first + i
           b == first + j
           d == ((a % SeqMod) - (b % SeqMod)) % SeqMod
<1>2. a \in Int /\ b \in Int /\ a - b = i - j BY <1>1
<1>3. d = IF a >= b THEN a - b ELSE a - b + SeqMod
  <2>1. -SeqMod < a - b /\ a - b < SeqMod BY <1>1, <1>2
  <2> HIDE DEF a, b
  <2> QED BY <1>1, <1>2, <2>1, DifferenceKept
<1>4. d = IF i >= j THEN i - j ELSE i - j + SeqMod
  BY <1>2, <1>3
<1> HIDE DEF d
<1>5. (d >= SeqMod \div 2 <=> i < j) /\ (d \in 1..(SeqMod \div 2 - 1) <=> i > j)
  BY <1>1, <1>4
<1> QED BY <1>5 DEF d, Behind, Ahead

-----------------------------------------------------------------------------
(* The inductive invariants. *)

Grades == {"Healthy", "Degrading", "Critical", "Terminated"}

Flags == {"ACK", "SYN", "FIN", "RST"}

FlowType ==
    [packets : 0..3, seq : {NoSeq} \cup 0..(SeqMod - 1), fins : 0..2, rst : BOOLEAN,
     again : Nat, quality : Grades, age : {-1} \cup 0..Prune]

SenderType ==
    [first : {NoSeq} \cup 0..(SeqMod - 1), sent : Nat, again : Nat, probes : Nat]

TypeOK ==
    /\ flows \in [Flows -> FlowType] /\ sender \in [Flows -> SenderType]
    /\ newest \in [Flows -> Int] /\ older \in [Flows -> Nat]
    /\ reset \subseteq Flows

\* A flow that was reset in this Window is still known, and known to be reset.
ResetKnown ==
    \A f \in Flows : /\ flows[f].rst => flows[f].quality = "Terminated"
                     /\ f \in reset => Known(f) /\ flows[f].rst

ResetInv == TypeOK /\ ResetKnown

\* The entry of a known flow bears the number of the latest segment it has seen, which its
\* sender is not ahead of by more than Reach.
Tracks(f) ==
    IF Known(f)
    THEN /\ Open(f)
         /\ 0 <= newest[f] /\ newest[f] <= sender[f].sent
         /\ sender[f].sent - newest[f] <= Reach
         /\ flows[f].seq = Number(f, newest[f])
    ELSE flows[f] = NoFlow /\ newest[f] = -1 /\ older[f] = 0

Exact(f) == Tracks(f) /\ flows[f].again = older[f] /\ (Open(f) => sender[f].sent >= 1)

TrackInv == ResetInv /\ \A f \in Flows : Exact(f)

-----------------------------------------------------------------------------
(* One segment. *)

\* A flow that was reset is terminated, however many segments it has sent again.
LEMMA QualityOfReset ==
    \A rst \in BOOLEAN, fins \in 0..2, again \in Nat :
        rst => Quality(rst, fins, again) = "Terminated"
BY DEF Quality

\* Every flow has one of the four grades.
LEMMA QualityType ==
    \A rst \in BOOLEAN, fins \in 0..2, again \in Nat : Quality(rst, fins, again) \in Grades
BY DEF Quality, Grades

\* What a segment makes of an entry.
LEMMA EntryIs ==
    ASSUME NEW e \in FlowType, NEW seq \in 0..(SeqMod - 1), NEW flag \in Flags
    PROVE  /\ Entry(e, seq, flag) \in FlowType
           /\ Entry(e, seq, flag).age = 0
           /\ Entry(e, seq, flag).rst <=> (e.rst \/ flag = "RST")
           /\ Entry(e, seq, flag).rst => Entry(e, seq, flag).quality = "Terminated"
<1> DEFINE fins  == IF flag = "FIN" /\ e.fins < 2 THEN e.fins + 1 ELSE e.fins
           again == IF Again(e, seq, flag) THEN e.again + 1 ELSE e.again
           rst   == e.rst \/ flag = "RST"
           quality == Quality(rst, fins, again)
           packets == IF e.packets < 3 THEN e.packets + 1 ELSE 3
           number  == IF e.seq = NoSeq \/ Ahead(seq, e.seq) THEN seq ELSE e.seq
<1>1. fins \in 0..2 /\ again \in Nat /\ rst \in BOOLEAN /\ packets \in 0..3
  BY DEF FlowType
<1>2. number \in {NoSeq} \cup 0..(SeqMod - 1) BY DEF FlowType
<1>3. quality \in Grades /\ (rst => quality = "Terminated")
  <2>1. quality \in Grades BY <1>1, QualityType
  <2>2. ASSUME rst PROVE quality = "Terminated"
    <3> HIDE DEF rst, fins, again
    <3> QED BY <1>1, <2>2, QualityOfReset
  <2> QED BY <2>1, <2>2
<1>4. 0 \in 0..Prune BY BoundAssumption
<1>5. Entry(e, seq, flag) =
          [packets |-> packets, seq |-> number, fins |-> fins, rst |-> rst, again |-> again,
           quality |-> quality, age |-> 0]
  BY DEF Entry
<1> HIDE DEF fins, again, rst, quality, packets, number
<1>6. Entry(e, seq, flag) \in FlowType BY <1>1, <1>2, <1>3, <1>4, <1>5 DEF FlowType
<1>7. /\ Entry(e, seq, flag).age = 0 /\ Entry(e, seq, flag).rst = rst
      /\ Entry(e, seq, flag).quality = quality
  BY <1>5
<1> QED BY <1>1, <1>3, <1>6, <1>7 DEF rst

\* What a sender puts on the wire is a number, and its record stays one.
LEMMA NumberType ==
    ASSUME TypeOK, NEW f \in Flows, Open(f), NEW i \in Int
    PROVE  Number(f, i) \in 0..(SeqMod - 1)
<1>1. sender[f].first \in 0..(SeqMod - 1) /\ SeqMod \in Nat \ {0}
  BY BoundAssumption DEF TypeOK, SenderType, Open
<1>2. sender[f].first + i \in Int BY <1>1
<1> QED BY <1>1, <1>2, Divided DEF Number

\* The numbers a sender uses are in the order of its segments, within reach.
LEMMA NumberOrder ==
    ASSUME TypeOK, NEW f \in Flows, Open(f), NEW i \in Int, NEW m \in Int,
           -Reach <= i - m, i - m <= Reach
    PROVE  /\ Behind(Number(f, i), Number(f, m)) <=> i < m
           /\ Ahead(Number(f, i), Number(f, m)) <=> i > m
<1> DEFINE a == sender[f].first
<1>1. a \in 0..(SeqMod - 1) BY DEF TypeOK, SenderType, Open
<1> HIDE DEF a
<1>2. /\ Behind((a + i) % SeqMod, (a + m) % SeqMod) <=> i < m
      /\ Ahead((a + i) % SeqMod, (a + m) % SeqMod) <=> i > m
  BY <1>1, WireOrder
<1> QED BY <1>2 DEF Number, a

\* The number and the count of an entry after a segment.
LEMMA EntryCounts ==
    \A e, seq, flag :
        /\ Entry(e, seq, flag).age = 0
        /\ Entry(e, seq, flag).seq =
               IF e.seq = NoSeq \/ Ahead(seq, e.seq) THEN seq ELSE e.seq
        /\ Entry(e, seq, flag).again =
               IF Again(e, seq, flag) THEN e.again + 1 ELSE e.again
BY DEF Entry

\* What a segment that is handled does to the flows and their history.
LEMMA Handled ==
    ASSUME ResetInv, NEW f \in Flows, NEW seq \in 0..(SeqMod - 1), NEW i \in Int,
           NEW flag \in Flags, HandleTcp(f, seq, i, flag), IsNdi(f),
           sender' \in [Flows -> SenderType]
    PROVE  /\ ResetInv'
           /\ flows'[f] = Entry(flows[f], seq, flag)
           /\ \A g \in Flows \ {f} :
                  flows'[g] = flows[g] /\ newest'[g] = newest[g] /\ older'[g] = older[g]
           /\ newest'[f] = IF flag = "SYN" \/ i > newest[f] THEN i ELSE newest[f]
           /\ older'[f] = IF flag # "SYN" /\ i < newest[f] /\ flows[f].packets >= 2
                          THEN older[f] + 1 ELSE older[f]
<1> DEFINE e == Entry(flows[f], seq, flag)
<1>0. /\ flows' = [flows EXCEPT ![f] = e]
      /\ newest' = [newest EXCEPT ![f] = IF flag = "SYN" \/ i > @ THEN i ELSE @]
      /\ older' = IF flag # "SYN" /\ i < newest[f] /\ flows[f].packets >= 2
                  THEN [older EXCEPT ![f] = @ + 1] ELSE older
      /\ reset' = IF flag = "RST" THEN reset \cup {f} ELSE reset
  BY DEF HandleTcp
<1> USE DEF ResetInv, TypeOK
<1>1. flows[f] \in FlowType OBVIOUS
<1>2. /\ e \in FlowType /\ e.age = 0 /\ (e.rst => e.quality = "Terminated")
      /\ (e.rst <=> flows[f].rst \/ flag = "RST")
  BY <1>1, EntryIs
<1> HIDE DEF e
<1>3. /\ newest'[f] = IF flag = "SYN" \/ i > newest[f] THEN i ELSE newest[f]
      /\ older'[f] = IF flag # "SYN" /\ i < newest[f] /\ flows[f].packets >= 2
                     THEN older[f] + 1 ELSE older[f]
  BY <1>0
<1>4. /\ newest' \in [Flows -> Int] /\ older' \in [Flows -> Nat] BY <1>0
<1>5. flows' \in [Flows -> FlowType] /\ reset' \subseteq Flows BY <1>0, <1>2
<1>6. flows'[f] = e BY <1>0
<1>7. \A g \in Flows \ {f} :
          flows'[g] = flows[g] /\ newest'[g] = newest[g] /\ older'[g] = older[g]
  BY <1>0
<1>8. ResetKnown'
  <2> SUFFICES ASSUME NEW g \in Flows
               PROVE  /\ flows'[g].rst => flows'[g].quality = "Terminated"
                      /\ g \in reset' => flows'[g].age >= 0 /\ flows'[g].rst
    BY DEF ResetKnown, Known
  <2>1. CASE g = f BY <1>0, <1>2, <1>6, <2>1 DEF ResetKnown, Known
  <2>2. CASE g # f BY <1>0, <1>7, <2>2 DEF ResetKnown, Known
  <2> QED BY <2>1, <2>2
<1> QED BY <1>3, <1>4, <1>5, <1>6, <1>7, <1>8 DEF e

\* A segment that follows the numbers of its connection, within reach of what the entry
\* has seen, is counted exactly.
LEMMA CountedExactly ==
    ASSUME TrackInv, NEW f \in Flows, NEW i \in Nat, NEW flag \in Flags, flag # "SYN",
           Open(f), i <= sender[f].sent, sender[f].sent - i <= Reach,
           sender' \in [Flows -> SenderType],
           \A g \in Flows \ {f} : sender'[g] = sender[g],
           sender'[f].first = sender[f].first,
           \/ sender'[f].sent = sender[f].sent
           \/ sender'[f].sent = sender[f].sent + 1 /\ i = sender[f].sent /\ IsNdi(f),
           HandleTcp(f, Number(f, i), i, flag)
    PROVE  TrackInv'
<1> DEFINE first == sender[f].first
           sent  == sender[f].sent
<1>1. /\ first \in 0..(SeqMod - 1) /\ sent \in Nat /\ SeqMod \in Nat \ {0}
      /\ Reach \in Nat \ {0} /\ sent >= 1
  BY BoundAssumption DEF TrackInv, ResetInv, TypeOK, SenderType, Open, Exact
<1>2. Number(f, i) \in 0..(SeqMod - 1)
  BY <1>1, Divided DEF Number
<1>3. \A g \in Flows \ {f} : Open(g)' <=> Open(g) BY DEF Open
<1>4. CASE ~IsNdi(f)
  <2>1. UNCHANGED tracked BY <1>4 DEF HandleTcp
  <2>2. sender'[f].sent = sender[f].sent BY <1>4
  <2>3. ResetInv' BY <2>1 DEF TrackInv, ResetInv, TypeOK, ResetKnown, Known
  <2>4. ASSUME NEW g \in Flows PROVE Exact(g)'
    <3>1. sender'[g].sent = sender[g].sent /\ sender'[g].first = sender[g].first
      BY <2>2
    <3> QED BY <2>1, <3>1 DEF TrackInv, Exact, Tracks, Known, Open, Number
  <2> QED BY <2>3, <2>4 DEF TrackInv
<1>5. CASE IsNdi(f)
  <2> DEFINE e == flows[f]
             m == newest[f]
  <2>1. /\ ResetInv'
        /\ flows'[f] = Entry(e, Number(f, i), flag)
        /\ \A g \in Flows \ {f} :
               flows'[g] = flows[g] /\ newest'[g] = newest[g] /\ older'[g] = older[g]
        /\ newest'[f] = IF i > m THEN i ELSE m
        /\ older'[f] = IF i < m /\ e.packets >= 2 THEN older[f] + 1 ELSE older[f]
    BY <1>2, <1>5, Handled DEF TrackInv
  <2>2. ASSUME NEW g \in Flows \ {f} PROVE Exact(g)'
    BY <2>1 DEF TrackInv, Exact, Tracks, Known, Open, Number
  <2>3. e \in FlowType /\ older[f] \in Nat BY DEF TrackInv, ResetInv, TypeOK
  <2>4. /\ flows'[f].age = 0
        /\ flows'[f].seq = IF e.seq = NoSeq \/ Ahead(Number(f, i), e.seq) THEN Number(f, i)
                           ELSE e.seq
        /\ flows'[f].again = IF Again(e, Number(f, i), flag) THEN e.again + 1 ELSE e.again
    <3> DEFINE n == Number(f, i)
    <3> HIDE DEF e, n
    <3>1. /\ Entry(e, n, flag).age = 0
          /\ Entry(e, n, flag).seq = IF e.seq = NoSeq \/ Ahead(n, e.seq) THEN n ELSE e.seq
          /\ Entry(e, n, flag).again = IF Again(e, n, flag) THEN e.again + 1 ELSE e.again
      BY EntryCounts
    <3> QED BY <2>1, <3>1 DEF n
  <2>5. e.again = older[f] /\ Tracks(f) BY DEF TrackInv, Exact
  <2>6. CASE Known(f)
    <3>1. m \in Nat /\ m <= sent /\ sent - m <= Reach /\ e.seq = Number(f, m)
      BY <2>5, <2>6 DEF Tracks, TrackInv, ResetInv, TypeOK
    <3>2. e.seq # NoSeq
      <4>1. first + m \in Int BY <1>1, <3>1
      <4>2. (first + m) % SeqMod \in 0..(SeqMod - 1) BY <1>1, <4>1, Divided
      <4> QED BY <1>1, <3>1, <4>2 DEF Number, NoSeq
    <3>3. -Reach <= i - m /\ i - m <= Reach BY <1>1, <3>1
    <3>4. /\ Behind(Number(f, i), Number(f, m)) <=> i < m
          /\ Ahead(Number(f, i), Number(f, m)) <=> i > m
      <4>1. i \in Int /\ m \in Int /\ TypeOK BY <3>1 DEF TrackInv, ResetInv
      <4> HIDE DEF m
      <4> QED BY <3>3, <4>1, NumberOrder
    <3>5. flows'[f].seq = Number(f, newest'[f])
      BY <2>1, <2>4, <3>1, <3>2, <3>4
    <3>6. flows'[f].again = older'[f]
      BY <2>1, <2>4, <2>5, <3>1, <3>2, <3>4 DEF Again
    <3>7. newest'[f] \in Nat /\ newest'[f] <= sender'[f].sent
          /\ sender'[f].sent - newest'[f] <= Reach
      BY <1>1, <2>1, <3>1
    <3>8. Number(f, newest'[f]) = (sender'[f].first + newest'[f]) % SeqMod
      BY DEF Number
    <3>9. Exact(f)' BY <1>1, <2>4, <3>5, <3>6, <3>7, <3>8 DEF Exact, Tracks, Known, Open, Number
    <3> QED BY <2>1, <2>2, <3>9 DEF TrackInv
  <2>7. CASE ~Known(f)
    <3>1. e = NoFlow /\ m = -1 /\ older[f] = 0 BY <2>5, <2>7 DEF Tracks
    <3>2. newest'[f] = i /\ older'[f] = 0 BY <2>1, <3>1
    <3>3. flows'[f].seq = Number(f, i) /\ flows'[f].again = 0
      BY <2>4, <3>1 DEF NoFlow, Again
    <3>4. i <= sender'[f].sent /\ sender'[f].sent - i <= Reach BY <1>1
    <3>5. Exact(f)' BY <1>1, <2>4, <3>2, <3>3, <3>4 DEF Exact, Tracks, Known, Open, Number
    <3> QED BY <2>1, <2>2, <3>5 DEF TrackInv
  <2> QED BY <2>6, <2>7
<1> QED BY <1>4, <1>5

-----------------------------------------------------------------------------
(* The steps. *)

LEMMA InitEstablishes == Init => TrackInv
<1> SUFFICES ASSUME Init PROVE TrackInv OBVIOUS
<1>1. /\ \A f \in Flows : flows[f] = NoFlow /\ newest[f] = -1 /\ older[f] = 0
      /\ \A f \in Flows : sender[f].first = NoSeq
      /\ reset = {}
  BY DEF Init
<1>2. TypeOK
  <2>1. NoFlow \in FlowType BY DEF NoFlow, FlowType, Grades
  <2>2. [first |-> NoSeq, sent |-> 0, again |-> 0, probes |-> 0] \in SenderType
    BY DEF SenderType
  <2> QED BY <2>1, <2>2 DEF Init, TypeOK
<1>3. ResetKnown BY <1>1 DEF ResetKnown, NoFlow
<1>4. \A f \in Flows : Exact(f) BY <1>1 DEF Exact, Tracks, Known, Open, NoFlow, NoSeq
<1> QED BY <1>2, <1>3, <1>4 DEF TrackInv, ResetInv

LEMMA SenderStays ==
    ASSUME TypeOK, NEW f \in Flows,
           \/ sender' = sender
           \/ sender' = [sender EXCEPT ![f].sent = @ + 1]
           \/ sender' = [sender EXCEPT ![f].again = @ + 1]
           \/ sender' = [sender EXCEPT ![f].probes = @ + 1]
    PROVE  /\ sender' \in [Flows -> SenderType]
           /\ \A g \in Flows \ {f} : sender'[g] = sender[g]
           /\ sender'[f].first = sender[f].first
           /\ sender'[f].sent = IF sender' = [sender EXCEPT ![f].sent = @ + 1]
                                THEN sender[f].sent + 1 ELSE sender[f].sent
<1>1. sender \in [Flows -> SenderType] /\ sender[f] \in SenderType BY DEF TypeOK
<1>2. CASE sender' = [sender EXCEPT ![f].sent = @ + 1]
  BY <1>1, <1>2 DEF SenderType
<1>3. CASE /\ sender' # [sender EXCEPT ![f].sent = @ + 1]
           /\ sender' = [sender EXCEPT ![f].again = @ + 1]
  BY <1>1, <1>3 DEF SenderType
<1>4. CASE /\ sender' # [sender EXCEPT ![f].sent = @ + 1]
           /\ sender' = [sender EXCEPT ![f].probes = @ + 1]
  BY <1>1, <1>4 DEF SenderType
<1>5. CASE sender' # [sender EXCEPT ![f].sent = @ + 1] /\ sender' = sender
  BY <1>1, <1>5
<1> QED BY <1>2, <1>3, <1>4, <1>5

\* The first segment sent again is one of the last Reach.
LEMMA SentAgain ==
    ASSUME NEW sent \in Nat, NEW i \in Max({0, sent - Reach}) .. (sent - 1)
    PROVE  i \in Nat /\ i <= sent /\ sent - i <= Reach
<1>1. Reach \in Nat BY BoundAssumption
<1> DEFINE m == Max({0, sent - Reach})
<1>2. \E x \in {0, sent - Reach} : \A y \in {0, sent - Reach} : x >= y BY <1>1
<1>3. m \in {0, sent - Reach} /\ \A y \in {0, sent - Reach} : m >= y
  BY <1>2 DEF Max
<1> HIDE DEF m
<1>4. m \in Int /\ m >= 0 /\ m >= sent - Reach BY <1>1, <1>3
<1>5. i \in m .. (sent - 1) BY DEF m
<1> QED BY <1>1, <1>4, <1>5

\* A segment that is handled keeps the resets known, whatever its number.
LEMMA HandledKeepsResets ==
    ASSUME ResetInv, NEW f \in Flows, NEW seq \in 0..(SeqMod - 1), NEW i \in Int,
           NEW flag \in Flags, HandleTcp(f, seq, i, flag),
           sender' \in [Flows -> SenderType]
    PROVE  ResetInv'
<1>1. CASE IsNdi(f) BY <1>1, Handled
<1>2. CASE ~IsNdi(f) BY <1>2 DEF HandleTcp, ResetInv, TypeOK, ResetKnown, Known
<1> QED BY <1>1, <1>2

LEMMA DiscoveryKeeps ==
    ASSUME NEW h, NEW named, Discovery(h, named)
    PROVE  (ResetInv => ResetInv') /\ (TrackInv => TrackInv')
BY DEF Discovery, TrackInv, ResetInv, TypeOK, ResetKnown, Exact, Tracks, Known, Open, Number

LEMMA ConnectKeeps ==
    ASSUME ResetInv, NEW f \in Flows, Connect(f)
    PROVE  ResetInv' /\ (~Reuse /\ TrackInv => TrackInv')
<1>1. PICK first \in Firsts :
          /\ sender' = [sender EXCEPT ![f] = [first |-> first, sent |-> 1, again |-> 0,
                                              probes |-> 0]]
          /\ HandleTcp(f, first, 0, "SYN")
  BY DEF Connect
<1>2. first \in 0..(SeqMod - 1) /\ SeqMod \in Nat \ {0} /\ Reach \in Nat \ {0}
  BY BoundAssumption
<1>3. [first |-> first, sent |-> 1, again |-> 0, probes |-> 0] \in SenderType
  BY <1>2 DEF SenderType
<1>4. sender' \in [Flows -> SenderType] BY <1>1, <1>3 DEF ResetInv, TypeOK
<1>5. ResetInv'
  <2>1. "SYN" \in Flags BY DEF Flags
  <2> QED BY <1>1, <1>2, <1>4, <2>1, HandledKeepsResets
<1>6. ASSUME ~Reuse, TrackInv PROVE TrackInv'
  <2>1. ~Known(f) /\ flows[f] = NoFlow /\ newest[f] = -1 /\ older[f] = 0
    BY <1>6 DEF Connect, TrackInv, Exact, Tracks
  <2>2. /\ sender'[f].first = first /\ sender'[f].sent = 1
        /\ \A g \in Flows \ {f} : sender'[g] = sender[g]
    BY <1>1 DEF ResetInv, TypeOK
  <2>3. CASE ~IsNdi(f)
    <3>1. UNCHANGED tracked BY <1>1, <2>3 DEF HandleTcp
    <3>2. ASSUME NEW g \in Flows \ {f} PROVE Exact(g)'
      BY <1>6, <2>2, <3>1 DEF TrackInv, Exact, Tracks, Known, Open, Number
    <3>3. Exact(f)'
      BY <1>6, <2>1, <2>2, <3>1 DEF TrackInv, Exact, Tracks, Known
    <3> QED BY <1>5, <3>2, <3>3 DEF TrackInv
  <2>4. CASE IsNdi(f)
    <3>1. /\ flows'[f] = Entry(flows[f], first, "SYN")
          /\ \A g \in Flows \ {f} :
                 flows'[g] = flows[g] /\ newest'[g] = newest[g] /\ older'[g] = older[g]
          /\ newest'[f] = 0 /\ older'[f] = 0
      <4>1. "SYN" \in Flags BY DEF Flags
      <4> QED BY <1>1, <1>2, <1>4, <2>1, <2>4, <4>1, Handled
    <3>2. ASSUME NEW g \in Flows \ {f} PROVE Exact(g)'
      BY <1>6, <2>2, <3>1 DEF TrackInv, Exact, Tracks, Known, Open, Number
    <3>3. flows'[f].age = 0 /\ flows'[f].seq = first /\ flows'[f].again = 0
      BY <2>1, <3>1, EntryCounts DEF NoFlow, Again
    <3>4. first % SeqMod = first BY <1>2
    <3>5. Number(f, newest[f])' = first BY <1>2, <2>2, <3>1, <3>4 DEF Number
    <3>6. Open(f)' BY <1>2, <2>2 DEF Open, NoSeq
    <3>7. Exact(f)' BY <1>2, <2>2, <3>1, <3>3, <3>5, <3>6 DEF Exact, Tracks, Known
    <3> QED BY <1>5, <3>2, <3>7 DEF TrackInv
  <2> QED BY <2>3, <2>4
<1> QED BY <1>5, <1>6

LEMMA SegmentKeeps ==
    ASSUME ResetInv, NEW f \in Flows, Segment(f)
    PROVE  ResetInv' /\ (TrackInv => TrackInv')
<1>1. Open(f) /\ sender' = [sender EXCEPT ![f].sent = @ + 1] BY DEF Segment
<1>2. /\ sender' \in [Flows -> SenderType]
      /\ \A g \in Flows \ {f} : sender'[g] = sender[g]
      /\ sender'[f].first = sender[f].first /\ sender'[f].sent = sender[f].sent + 1
      /\ sender[f].sent \in Nat /\ Reach \in Nat
  BY <1>1, SenderStays, BoundAssumption DEF ResetInv, TypeOK, SenderType
<1>3. CASE /\ IsNdi(f)
           /\ \E flag \in {"ACK", "FIN"} :
                 HandleTcp(f, Number(f, sender[f].sent), sender[f].sent, flag)
  <2>1. PICK flag \in {"ACK", "FIN"} :
            HandleTcp(f, Number(f, sender[f].sent), sender[f].sent, flag)
    BY <1>3
  <2> DEFINE i == sender[f].sent
  <2>2. /\ i \in Nat /\ i <= sender[f].sent /\ sender[f].sent - i <= Reach
        /\ sender'[f].sent = sender[f].sent + 1 /\ i = sender[f].sent
    BY <1>2
  <2>3. flag \in Flags /\ flag # "SYN" BY DEF Flags
  <2>4. HandleTcp(f, Number(f, i), i, flag) BY <2>1
  <2> HIDE DEF i
  <2>5. TypeOK BY DEF ResetInv
  <2>6. Number(f, i) \in 0..(SeqMod - 1) BY <1>1, <2>2, <2>5, NumberType
  <2>7. ResetInv' BY <1>2, <2>2, <2>3, <2>4, <2>6, HandledKeepsResets
  <2>8. TrackInv => TrackInv' BY <1>1, <1>2, <1>3, <2>2, <2>3, <2>4, CountedExactly
  <2> QED BY <2>7, <2>8
<1>4. CASE (Known(f) => sender[f].sent - newest[f] < Reach) /\ UNCHANGED tracked
  <2>1. ResetInv' BY <1>2, <1>4 DEF ResetInv, TypeOK, ResetKnown, Known
  <2>2. ASSUME TrackInv PROVE TrackInv'
    <3>1. ASSUME NEW g \in Flows \ {f} PROVE Exact(g)'
      BY <1>2, <1>4, <2>2 DEF TrackInv, Exact, Tracks, Known, Open, Number
    <3>2. newest[f] \in Int BY DEF ResetInv, TypeOK
    <3>3. Exact(f)'
      BY <1>2, <1>4, <2>2, <3>2 DEF TrackInv, Exact, Tracks, Known, Open, Number
    <3> QED BY <2>1, <3>1, <3>3 DEF TrackInv
  <2> QED BY <2>1, <2>2
<1> QED BY <1>3, <1>4 DEF Segment

\* The other segments leave the numbers their sender has used as they are.
LEMMA RepeatKeeps ==
    ASSUME ResetInv, NEW f \in Flows,
           (\E flag \in {"ACK", "RST"} : NoData(f, flag)) \/ Retransmit(f) \/ Keepalive(f)
    PROVE  ResetInv' /\ (TrackInv => TrackInv')
<1>1. /\ Open(f)
      /\ \/ sender' = sender
         \/ sender' = [sender EXCEPT ![f].again = @ + 1]
         \/ sender' = [sender EXCEPT ![f].probes = @ + 1]
  BY DEF NoData, Retransmit, Keepalive
<1>2. sender[f] \in SenderType /\ sender[f].sent \in Nat /\ Reach \in Nat \ {0}
  BY BoundAssumption DEF ResetInv, TypeOK, SenderType
<1>3. /\ sender' \in [Flows -> SenderType]
      /\ \A g \in Flows \ {f} : sender'[g] = sender[g]
      /\ sender'[f].first = sender[f].first
  BY <1>1, SenderStays DEF ResetInv
<1>4. sender'[f].sent = sender[f].sent
  BY <1>1, <1>2 DEF ResetInv, TypeOK, SenderType
<1>5. ASSUME NEW i \in Int, NEW flag \in Flags, flag # "SYN",
             HandleTcp(f, Number(f, i), i, flag),
             TrackInv => i \in Nat /\ i <= sender[f].sent /\ sender[f].sent - i <= Reach
      PROVE  ResetInv' /\ (TrackInv => TrackInv')
  <2>1. Number(f, i) \in 0..(SeqMod - 1) BY <1>1, NumberType DEF ResetInv
  <2>2. ResetInv' BY <1>3, <1>5, <2>1, HandledKeepsResets
  <2>3. TrackInv => TrackInv' BY <1>1, <1>3, <1>4, <1>5, CountedExactly
  <2> QED BY <2>2, <2>3
<1>6. CASE \E flag \in {"ACK", "RST"} : NoData(f, flag)
  <2>1. PICK flag \in {"ACK", "RST"} :
            HandleTcp(f, Number(f, sender[f].sent), sender[f].sent, flag)
    BY <1>6 DEF NoData
  <2>2. flag \in Flags /\ flag # "SYN" BY DEF Flags
  <2> DEFINE i == sender[f].sent
  <2>3. i \in Nat /\ i <= sender[f].sent /\ sender[f].sent - i <= Reach BY <1>2
  <2> HIDE DEF i
  <2>4. HandleTcp(f, Number(f, i), i, flag) BY <2>1 DEF i
  <2> QED BY <1>5, <2>2, <2>3, <2>4
<1>7. CASE Retransmit(f)
  <2>1. PICK i \in Max({0, sender[f].sent - Reach}) .. (sender[f].sent - 1) :
            HandleTcp(f, Number(f, i), i, "ACK")
    BY <1>7 DEF Retransmit
  <2>2. i \in Nat /\ i <= sender[f].sent /\ sender[f].sent - i <= Reach
    BY <1>2, SentAgain
  <2>3. "ACK" \in Flags /\ "ACK" # "SYN" BY DEF Flags
  <2> QED BY <1>5, <2>1, <2>2, <2>3
<1>8. CASE Keepalive(f)
  <2>1. HandleTcp(f, Number(f, sender[f].sent - 1), sender[f].sent - 1, "ACK")
    BY <1>8 DEF Keepalive
  <2> DEFINE i == sender[f].sent - 1
  <2>2. i \in Int BY <1>2
  <2>3. TrackInv => i \in Nat /\ i <= sender[f].sent /\ sender[f].sent - i <= Reach
    BY <1>1, <1>2 DEF TrackInv, Exact
  <2>4. "ACK" \in Flags /\ "ACK" # "SYN" BY DEF Flags
  <2>5. HandleTcp(f, Number(f, i), i, "ACK") BY <2>1
  <2> HIDE DEF i
  <2> QED BY <1>5, <2>2, <2>3, <2>4, <2>5
<1> QED BY <1>6, <1>7, <1>8

\* Time moves ages only, and no entry becomes known or unknown.
LEMMA TickKeeps ==
    ASSUME ResetInv, Tick
    PROVE  ResetInv' /\ (TrackInv => TrackInv')
<1>1. /\ flows' = [f \in Flows |-> [flows[f] EXCEPT !.age = Older(@, Prune)]]
      /\ UNCHANGED <<sender, newest, older, reset>>
  BY DEF Tick
<1>2. ASSUME NEW f \in Flows
      PROVE  /\ flows'[f] \in FlowType
             /\ flows'[f].age >= 0 <=> flows[f].age >= 0
             /\ flows'[f].rst = flows[f].rst /\ flows'[f].quality = flows[f].quality
             /\ flows'[f].seq = flows[f].seq /\ flows'[f].again = flows[f].again
             /\ flows[f].age < 0 => flows'[f] = flows[f]
  <2>1. flows[f] \in FlowType /\ Prune \in Nat BY BoundAssumption DEF ResetInv, TypeOK
  <2>2. flows'[f] = [flows[f] EXCEPT !.age = Older(flows[f].age, Prune)] BY <1>1
  <2>3. /\ Older(flows[f].age, Prune) \in {-1} \cup 0..Prune
        /\ Older(flows[f].age, Prune) >= 0 <=> flows[f].age >= 0
        /\ flows[f].age < 0 => Older(flows[f].age, Prune) = flows[f].age
    BY <2>1 DEF Older, FlowType
  <2> QED BY <2>1, <2>2, <2>3 DEF FlowType
<1>3. TypeOK' BY <1>1, <1>2 DEF ResetInv, TypeOK
<1>4. ResetKnown' BY <1>1, <1>2 DEF ResetInv, ResetKnown, Known
<1>5. ASSUME TrackInv, NEW f \in Flows PROVE Exact(f)'
  <2>1. Exact(f) BY <1>5 DEF TrackInv
  <2>2. flows[f] = NoFlow => flows[f].age < 0 BY DEF NoFlow
  <2>3. Number(f, newest[f])' = Number(f, newest[f]) BY <1>1 DEF Number
  <2>4. Known(f)' <=> Known(f) BY <1>2 DEF Known
  <2>5. CASE Known(f) BY <1>1, <1>2, <2>1, <2>3, <2>4, <2>5 DEF Exact, Tracks, Open
  <2>6. CASE ~Known(f) BY <1>1, <1>2, <2>1, <2>2, <2>4, <2>6 DEF Exact, Tracks, Open
  <2> QED BY <2>5, <2>6
<1> QED BY <1>3, <1>4, <1>5 DEF ResetInv, TrackInv

\* The end of a Window forgets a flow and its history together.
LEMMA CloseWindowKeeps ==
    ASSUME ResetInv, CloseWindow
    PROVE  ResetInv' /\ (TrackInv => TrackInv')
<1>1. ASSUME NEW f \in Flows
      PROVE  /\ flows'[f] = IF Known(f) /\ Kept(f) THEN flows[f] ELSE NoFlow
             /\ newest'[f] = IF Known(f) /\ Kept(f) THEN newest[f] ELSE -1
             /\ older'[f] = IF Known(f) /\ Kept(f) THEN older[f] ELSE 0
  BY DEF CloseWindow
<1>2. reset' = {} /\ sender' = sender BY DEF CloseWindow
<1>3. NoFlow \in FlowType BY DEF NoFlow, FlowType, Grades
<1>4. TypeOK'
  <2>1. flows' \in [Flows -> FlowType] BY <1>3 DEF CloseWindow, ResetInv, TypeOK
  <2>2. newest' \in [Flows -> Int] /\ older' \in [Flows -> Nat]
    BY DEF CloseWindow, ResetInv, TypeOK
  <2> QED BY <1>2, <2>1, <2>2 DEF ResetInv, TypeOK
<1>5. ResetKnown' BY <1>1, <1>2 DEF ResetInv, ResetKnown, NoFlow
<1>6. ASSUME TrackInv, NEW f \in Flows PROVE Exact(f)'
  <2>1. Exact(f) BY <1>6 DEF TrackInv
  <2>2. CASE Known(f) /\ Kept(f)
    BY <1>1, <1>2, <2>1, <2>2 DEF Exact, Tracks, Open, Known, Number
  <2>3. CASE ~(Known(f) /\ Kept(f))
    <3>1. flows'[f] = NoFlow /\ newest'[f] = -1 /\ older'[f] = 0 BY <1>1, <2>3
    <3>2. ~Known(f)' /\ flows'[f].again = 0 BY <3>1 DEF Known, NoFlow
    <3> QED BY <1>2, <2>1, <3>1, <3>2 DEF Exact, Tracks, Open
  <2> QED BY <2>2, <2>3
<1> QED BY <1>4, <1>5, <1>6 DEF ResetInv, TrackInv

LEMMA NextKeeps ==
    ASSUME ResetInv, [Next]_vars
    PROVE  ResetInv' /\ (~Reuse /\ TrackInv => TrackInv')
<1>1. ASSUME NEW h \in Hosts, NEW named \in BOOLEAN, Discovery(h, named)
      PROVE  ResetInv' /\ (TrackInv => TrackInv')
  BY <1>1, DiscoveryKeeps
<1>2. ASSUME NEW f \in Flows, Connect(f)
      PROVE  ResetInv' /\ (~Reuse /\ TrackInv => TrackInv')
  BY <1>2, ConnectKeeps
<1>3. ASSUME NEW f \in Flows, Segment(f)
      PROVE  ResetInv' /\ (TrackInv => TrackInv')
  BY <1>3, SegmentKeeps
<1>4. ASSUME NEW f \in Flows,
             (\E flag \in {"ACK", "RST"} : NoData(f, flag)) \/ Retransmit(f) \/ Keepalive(f)
      PROVE  ResetInv' /\ (TrackInv => TrackInv')
  BY <1>4, RepeatKeeps
<1>5. CASE Tick BY <1>5, TickKeeps
<1>6. CASE CloseWindow BY <1>6, CloseWindowKeeps
<1>7. CASE UNCHANGED vars
  BY <1>7 DEF vars, TrackInv, ResetInv, TypeOK, ResetKnown, Exact, Tracks, Known, Open, Number
<1> QED BY <1>1, <1>2, <1>3, <1>4, <1>5, <1>6, <1>7 DEF Next

-----------------------------------------------------------------------------
(* The theorems. *)

\* The types, and what is known of the resets, hold of every behaviour.
THEOREM ResetInvariance == Spec => []ResetInv
<1>1. Init => ResetInv BY InitEstablishes DEF TrackInv
<1>2. ResetInv /\ [Next]_vars => ResetInv' BY NextKeeps
<1> QED BY <1>1, <1>2, PTL DEF Spec

\* When no connection follows another on the same ports within the memory of a flow, its
\* counter is the number of segments that came under an earlier number than one before
\* them: for any width of the numbers that is more than twice what a sender may run ahead,
\* across their wrap, whatever is missed, repeated or forgotten (handle_tcp).
THEOREM RetransmissionsCounted ==
    ASSUME ~Reuse
    PROVE  Spec => []RetransmissionsExact
<1>1. Init => TrackInv BY InitEstablishes
<1>2. TrackInv /\ [Next]_vars => TrackInv' BY NextKeeps DEF TrackInv
<1>3. TrackInv => RetransmissionsExact BY DEF TrackInv, Exact, RetransmissionsExact
<1> QED BY <1>1, <1>2, <1>3, PTL DEF Spec

\* The body of ResetScoredOnce.
ScoredThenGone ==
    report'.printed => /\ reset \subseteq report'.scored
                       /\ \A f \in reset : flows'[f].age < 0

\* A flow that was reset is deducted at the end of its Window, whatever came after the
\* reset, and is forgotten there: no later Window can deduct the same reset
\* (TcpStreamStats::reset_window, collect_penalties).
THEOREM ResetsScored == Spec => ResetScoredOnce
<1>1. ResetInv /\ [Next]_vars => [ScoredThenGone]_vars
  <2> SUFFICES ASSUME ResetInv, Next, report'.printed
               PROVE  /\ reset \subseteq report'.scored
                      /\ \A f \in reset : flows'[f].age < 0
    BY DEF ScoredThenGone
  <2>1. NoReport.printed = FALSE BY DEF NoReport
  <2>2. CloseWindow
    BY <2>1 DEF Next, Discovery, Connect, Segment, NoData, Retransmit, Keepalive, Tick, Unmoved
  <2>3. ASSUME NEW f \in reset PROVE f \in report'.scored /\ flows'[f].age < 0
    <3>1. f \in Flows /\ Known(f) /\ flows[f].quality = "Terminated"
      BY DEF ResetInv, ResetKnown, TypeOK
    <3>2. f \in Scored BY <3>1 DEF Scored
    <3>3. ~Kept(f) BY <3>1 DEF Kept
    <3>4. flows'[f] = NoFlow BY <2>2, <3>1, <3>3 DEF CloseWindow
    <3>5. report'.scored = Scored BY <2>2 DEF CloseWindow
    <3> QED BY <3>2, <3>4, <3>5 DEF NoFlow
  <2> QED BY <2>3
<1>2. Spec => [][ScoredThenGone]_vars BY <1>1, ResetInvariance, PTL DEF Spec
<1> QED BY <1>2 DEF ResetScoredOnce, ScoredThenGone

=============================================================================
