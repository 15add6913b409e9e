----------------------- MODULE AvbReservationsProofs -----------------------
(***************************************************************************)
(* For any streams, declarations, entities and times, and any width of the *)
(* sequence number: the loss of a stream is counted exactly, and so are    *)
(* its priority violations and failures but for those a listener's         *)
(* declaration hides; an entity is discovered again only when it had gone. *)
(***************************************************************************)
EXTENDS AvbReservations, FiniteSetTheorems, WellFoundedInduction, TLAPS

USE DEF streamHistory, entityHistory

StreamType ==
    [known : BOOLEAN, age : 0..AgeCap, last : 0..(SeqMod - 1),
     lost : 0..MaxCount, violations : 0..MaxCount,
     observed : Priorities \cup {NoPriority}, declared : Priorities \cup {NoPriority}]

EntityType ==
    [known : BOOLEAN, age : 0..AgeCap, valid : ValidTimes \cup {0}, index : {0, 1}]

\* The entry of the map is the listener's when a listener has declared since the talker
\* did, and the talker's otherwise.
EntryIsOfLast ==
    \A s \in Streams :
        IF s \in answered THEN msrp[s].priority = NoPriority
        ELSE /\ msrp[s].priority = talker[s]
             /\ s \in failing => msrp[s].type = "Failed"

\* A frame tagged otherwise than the talker declared is a violation, or was hidden.
ViolationsAre == \A s \in Streams : avtp[s].violations + masked[s] = wrong[s]

\* What is not known is forgotten in every part.
StreamForgotten == \A s \in Streams : ~avtp[s].known => avtp[s] = NoStream

\* An entity the map holds has the age and the valid time of its last announcement; one
\* that it does not hold has departed, or was silent for its valid time and the grace.
EntitiesRemembered ==
    \A e \in Entities :
        IF entities[e].known
        THEN entities[e].age = silence[e] /\ entities[e].valid = promised[e]
        ELSE e \in departed \/ silence[e] >= promised[e] + Grace

\* The inductive invariant, whoever declares.
IInv ==
    /\ TypeOK
    /\ AvtpLossExact
    /\ EntryIsOfLast
    /\ ViolationsAre
    /\ StreamForgotten
    /\ EntitiesRemembered

-----------------------------------------------------------------------------
(* Numbers. *)

\* The only remainder of a division.
LEMMA Remainder ==
    ASSUME NEW M \in Nat \ {0}, NEW a \in Int, NEW q \in Int, NEW r \in 0..(M - 1),
           a = M * q + r
    PROVE  a % M = r
<1>1. a = M * (a \div M) + (a % M) /\ a \div M \in Int /\ a % M \in 0..(M - 1) OBVIOUS
<1> DEFINE s == a % M
           k == (a \div M) - q
<1>2. k \in Int /\ M * k = M * (a \div M) - M * q BY <1>1, SMT
<1>3. M * k = r - s BY <1>1, <1>2
<1>4. (k >= 1 => M * k >= M) /\ (k <= -1 => M * k <= -M) BY <1>2, SMT
<1>5. s \in 0..(M - 1) BY <1>1
<1> HIDE DEF k, s
<1>6. k = 0 BY <1>2, <1>3, <1>4, <1>5
<1>7. M * k = 0 BY <1>6
<1>8. r = s BY <1>3, <1>5, <1>7
<1> QED BY <1>8 DEF s

\* What a division leaves.
LEMMA Divided ==
    ASSUME NEW M \in Nat \ {0}, NEW a \in Int
    PROVE  \E q \in Int : a = M * q + (a % M) /\ a % M \in 0..(M - 1)
<1>1. a = M * (a \div M) + (a % M) /\ a \div M \in Int /\ a % M \in 0..(M - 1) OBVIOUS
<1> QED BY <1>1

\* A number that is a remainder is what is left of it.
LEMMA Shifted ==
    ASSUME NEW M \in Nat \ {0}, NEW b \in Int, NEW n \in 0..(M - 1)
    PROVE  (((b + n) % M) - b) % M = n
<1>1. PICK q \in Int : b + n = M * q + ((b + n) % M) /\ (b + n) % M \in 0..(M - 1)
  <2> DEFINE a == b + n
  <2>1. a \in Int OBVIOUS
  <2> HIDE DEF a
  <2>2. \E q \in Int : a = M * q + (a % M) /\ a % M \in 0..(M - 1) BY <2>1, Divided
  <2> QED BY <2>2 DEF a
<1> DEFINE r == (b + n) % M
           k == -q
           x == r - b
<1>2. r \in Int /\ k \in Int /\ x \in Int BY <1>1
<1>3. M * k = -(M * q) BY <1>1, SMT
<1>4. x = M * k + n BY <1>1, <1>2, <1>3
<1> HIDE DEF x, k
<1>5. x % M = n BY <1>2, <1>4, Remainder
<1> QED BY <1>5 DEF x

\* The frames missing before a frame are those lost, up to half the range.
LEMMA MissingIsSkip ==
    ASSUME NEW st \in StreamType, st.known, NEW skip \in 0..MaxSkip
    PROVE  Missing(st, (st.last + 1 + skip) % SeqMod) = skip
<1> DEFINE b == st.last + 1
           x == ((b + skip) % SeqMod) - b
<1>1. /\ SeqMod \in Nat \ {0} /\ MaxSkip \in Nat /\ 2 * MaxSkip < SeqMod
      /\ b \in Int
  BY SeqAssumption DEF StreamType
<1>2. skip \in 0..(SeqMod - 1) /\ 2 * skip < SeqMod BY <1>1
<1> HIDE DEF b
<1>3. x % SeqMod = skip BY <1>1, <1>2, Shifted
<1>4. Signed(x) = skip BY <1>2, <1>3 DEF Signed
<1>5. Missing(st, (b + skip) % SeqMod) = IF Signed(x) > 0 THEN Signed(x) ELSE 0
  BY DEF Missing, b
<1>6. Missing(st, (b + skip) % SeqMod) = skip BY <1>2, <1>4, <1>5
<1> QED BY <1>6 DEF b

\* A finite set of numbers has a largest: of the subsets without one, a smallest would
\* have one as soon as an element is put back.
LEMMA LargestExists ==
    ASSUME NEW S \in SUBSET Nat, IsFiniteSet(S)
    PROVE  \E x \in S \cup {0} : \A y \in S : y <= x
<1> DEFINE Bad == {X \in SUBSET S : ~ \E x \in X \cup {0} : \A y \in X : y <= x}
           R == StrictSubsetOrdering(S)
<1>1. SUFFICES ASSUME Bad # {} PROVE FALSE OBVIOUS
<1>2. PICK X \in Bad : \A Y \in Bad : <<Y, X>> \notin R
  <2>1. IsWellFoundedOn(R, SUBSET S)
    BY FS_StrictSubsetOrderingWellFounded, FS_FiniteSubsetsOfFinite
  <2>2. Bad \subseteq SUBSET S OBVIOUS
  <2> HIDE DEF Bad, R
  <2> QED BY <1>1, <2>1, <2>2, WFMin
<1>3. PICK y \in X : TRUE OBVIOUS
<1> DEFINE Y == X \ {y}
<1>4. Y \in SUBSET S /\ Y \subseteq X /\ Y # X OBVIOUS
<1>5. <<Y, X>> \in R BY <1>4 DEF StrictSubsetOrdering
<1>6. PICK x \in Y \cup {0} : \A z \in Y : z <= x BY <1>2, <1>4, <1>5
<1>7. x \in Nat /\ y \in Nat /\ X \in SUBSET Nat OBVIOUS
<1>8. CASE y <= x
  <2>1. x \in X \cup {0} /\ \A z \in X : z <= x BY <1>6, <1>8
  <2> QED BY <2>1
<1>9. CASE x <= y
  <2>1. \A z \in X : z <= y BY <1>6, <1>7, <1>9
  <2> QED BY <2>1
<1> QED BY <1>7, <1>8, <1>9

\* What Longest chooses.
LEMMA LongestIs ==
    ASSUME NEW S \in SUBSET Nat, IsFiniteSet(S)
    PROVE  /\ Longest(S) \in Nat
           /\ Longest(S) \in S \cup {0}
           /\ \A y \in S : y <= Longest(S)
           /\ \A n \in S : (\A y \in S : y <= n) => n = Longest(S)
<1>1. \E x \in S \cup {0} : \A y \in S : y <= x BY LargestExists
<1> DEFINE m == Longest(S)
<1>2. m \in S \cup {0} /\ \A y \in S : y <= m
  BY <1>1 DEF Longest
<1> HIDE DEF m
<1>3. m \in Nat BY <1>2
<1>4. ASSUME NEW n \in S, \A y \in S : y <= n PROVE n = m
  <2>1. n \in Nat /\ n <= m BY <1>2
  <2>2. CASE m \in S BY <1>3, <1>4, <2>1, <2>2
  <2>3. CASE m = 0 BY <2>1, <2>3
  <2> QED BY <1>2, <2>2, <2>3
<1> QED BY <1>2, <1>3, <1>4 DEF m

\* A pair is finite.
LEMMA PairFinite == \A x, y : IsFiniteSet({x, y})
<1>1. TAKE x, y
<1>2. IsFiniteSet({} \cup {x}) BY FS_EmptySet, FS_AddElement
<1>3. IsFiniteSet(({} \cup {x}) \cup {y}) BY <1>2, FS_AddElement
<1>4. {x, y} = ({} \cup {x}) \cup {y} OBVIOUS
<1> QED BY <1>3, <1>4

\* The longest lifetime is one, and no entity is kept for less than its valid time and the
\* grace.
LEMMA Caps ==
    /\ AgeCap \in Nat /\ Grace \in Nat /\ AgeCap >= Grace
    /\ \A valid \in ValidTimes \cup {0} :
           Lifetime(valid) \in Nat /\ valid \in Nat /\ Lifetime(valid) >= valid + Grace
<1>1. Grace \in Nat /\ StreamPrune \in Nat /\ ValidTimes \subseteq Nat BY TimeAssumption, SetAssumption
<1>2. Longest(ValidTimes \cup {StreamPrune, Grace}) \in Nat
  <2>1. IsFiniteSet({StreamPrune, Grace}) BY PairFinite
  <2>2. IsFiniteSet(ValidTimes \cup {StreamPrune, Grace}) BY <2>1, SetAssumption, FS_Union
  <2>3. ValidTimes \cup {StreamPrune, Grace} \in SUBSET Nat BY <1>1
  <2> QED BY <2>2, <2>3, LongestIs
<1>3. ASSUME NEW valid \in ValidTimes \cup {0}
      PROVE  Lifetime(valid) \in Nat /\ valid \in Nat /\ Lifetime(valid) >= valid + Grace
  <2>1. IsFiniteSet({valid, Grace}) BY PairFinite
  <2>2. valid \in Nat /\ {valid, Grace} \in SUBSET Nat BY <1>1
  <2>3. Longest({valid, Grace}) \in Nat /\ valid <= Longest({valid, Grace}) BY <2>1, <2>2, LongestIs
  <2> QED BY <1>1, <2>2, <2>3 DEF Lifetime
<1> QED BY <1>1, <1>2, <1>3 DEF AgeCap

\* Ages grow up to the cap.
LEMMA OlderIs ==
    ASSUME NEW age \in 0..AgeCap
    PROVE  Older(age) \in 0..AgeCap /\ Older(age) >= age
BY Caps DEF Older

\* The last declaration of a frame for a stream is one of the frame.
LEMMA LastIs ==
    ASSUME NEW n \in Nat, NEW decls \in [1..n -> Declarations], NEW s \in Streams,
           NEW types, Positions(decls, s, types) # {}
    PROVE  \E i \in Positions(decls, s, types) :
               /\ LastOf(decls, s, types) = decls[i]
               /\ i = Longest(Positions(decls, s, types))
               /\ \A j \in Positions(decls, s, types) : j <= i
<1> DEFINE P == Positions(decls, s, types)
<1>1. P \subseteq 1..n BY DEF Positions
<1>2. IsFiniteSet(P) BY <1>1, FS_Interval, FS_Subset
<1>3. P \in SUBSET Nat /\ 0 \notin P BY <1>1
<1>4. Longest(P) \in P \cup {0} /\ (\A y \in P : y <= Longest(P)) /\ Longest(P) \in Nat
  BY <1>2, <1>3, LongestIs
<1>5. Longest(P) \in P
  <2>1. PICK y \in P : TRUE OBVIOUS
  <2>2. y \in 1..n /\ y <= Longest(P) BY <1>1, <1>4, <2>1
  <2> QED BY <1>4, <2>2
<1> QED BY <1>4, <1>5 DEF LastOf

\* What a declaration is.
LEMMA DeclarationIs ==
    ASSUME NEW d \in Declarations
    PROVE  /\ d.stream \in Streams /\ d.type \in DeclTypes
           /\ d.priority \in Priorities \cup {NoPriority}
           /\ d.type \in Talking => d.priority \in Priorities
           /\ d.type \notin Talking => d.priority = NoPriority
BY DEF Declarations, Talking

\* What the frame makes of the entry of a stream, and of what its talker said.
LEMMA DeclaredIs ==
    ASSUME TypeOK, EntryIsOfLast, NEW n \in Nat, NEW decls \in [1..n -> Declarations],
           Msrp(decls), NEW s \in Streams
    PROVE  /\ msrp'[s] \in [type : DeclTypes \cup {"none"}, priority : Priorities \cup {NoPriority}]
           /\ talker'[s] \in Priorities \cup {NoPriority}
           /\ IF s \in answered' THEN msrp'[s].priority = NoPriority
              ELSE /\ msrp'[s].priority = talker'[s]
                   /\ s \in failing' => msrp'[s].type = "Failed"
<1> DEFINE All == Positions(decls, s, DeclTypes)
           Talk == Positions(decls, s, Talking)
<1>1. Talk \subseteq All BY DEF Positions, Talking
<1>2. /\ msrp[s] \in [type : DeclTypes \cup {"none"}, priority : Priorities \cup {NoPriority}]
      /\ talker[s] \in Priorities \cup {NoPriority}
      /\ IF s \in answered THEN msrp[s].priority = NoPriority
         ELSE /\ msrp[s].priority = talker[s]
              /\ s \in failing => msrp[s].type = "Failed"
  BY DEF TypeOK, EntryIsOfLast
<1>3. /\ msrp'[s] = Declared(decls, s)
      /\ talker'[s] = IF Talk = {} THEN talker[s] ELSE LastOf(decls, s, Talking).priority
      /\ s \in answered' <=> IF All = {} THEN s \in answered
                             ELSE LastOf(decls, s, DeclTypes).type = "Listener"
      /\ s \in failing' <=> IF Talk = {} THEN s \in failing
                            ELSE LastOf(decls, s, Talking).type = "Failed"
  BY DEF Msrp
<1>4. CASE All = {}
  <2>1. Talk = {} /\ msrp'[s] = msrp[s] BY <1>1, <1>3, <1>4 DEF Declared
  <2> HIDE DEF All, Talk
  <2> QED BY <1>2, <1>3, <1>4, <2>1
<1>5. CASE All # {}
  <2>1. PICK i \in All : LastOf(decls, s, DeclTypes) = decls[i] /\ \A j \in All : j <= i
    BY <1>5, LastIs
  <2>2. i \in 1..n /\ decls[i] \in Declarations /\ decls[i].stream = s BY DEF Positions
  <2>3. msrp'[s] = [type |-> decls[i].type, priority |-> decls[i].priority]
    BY <1>3, <1>5, <2>1 DEF Declared
  <2>4. msrp'[s].priority = decls[i].priority /\ msrp'[s].type = decls[i].type BY <2>3
  <2>5. s \in answered' <=> decls[i].type = "Listener" BY <1>3, <1>5, <2>1
  <2>6. /\ decls[i].type \in DeclTypes /\ decls[i].priority \in Priorities \cup {NoPriority}
        /\ decls[i].type = "Listener" => decls[i].priority = NoPriority
    BY <2>2, DeclarationIs DEF Talking
  <2>7. msrp'[s] \in [type : DeclTypes \cup {"none"}, priority : Priorities \cup {NoPriority}]
    BY <2>3, <2>6
  <2>8. talker'[s] \in Priorities \cup {NoPriority}
    <3>1. CASE Talk = {} BY <1>2, <1>3, <3>1
    <3>2. CASE Talk # {}
      <4>1. PICK j \in Talk : LastOf(decls, s, Talking) = decls[j] BY <3>2, LastIs
      <4>2. decls[j] \in Declarations BY DEF Positions
      <4>3. talker'[s] = decls[j].priority BY <1>3, <3>2, <4>1
      <4> QED BY <4>2, <4>3, DeclarationIs
    <3> QED BY <3>1, <3>2
  <2>9. CASE decls[i].type = "Listener" BY <2>4, <2>5, <2>6, <2>7, <2>8, <2>9
  <2>10. CASE decls[i].type # "Listener"
    <3>1. decls[i].type \in Talking BY <2>6, <2>10 DEF Talking
    <3>2. i \in Talk BY <2>2, <3>1 DEF Positions
    <3>3. PICK j \in Talk : LastOf(decls, s, Talking) = decls[j] /\ \A k \in Talk : k <= j
      BY <3>2, LastIs
    <3>4. i = j
      <4>1. j \in 1..n BY DEF Positions
      <4>2. i <= j /\ j <= i BY <1>1, <2>1, <3>2, <3>3
      <4> QED BY <2>2, <4>1, <4>2
    <3>5. talker'[s] = decls[i].priority /\ (s \in failing' <=> decls[i].type = "Failed")
      BY <1>3, <3>2, <3>3, <3>4
    <3> QED BY <2>4, <2>5, <2>7, <2>8, <2>10, <3>5
  <2> QED BY <2>9, <2>10
<1> QED BY <1>4, <1>5

-----------------------------------------------------------------------------
(* The invariant. *)

\* At the start nothing is known, and no entity has been heard for longer than any lifetime.
LEMMA InitInv == Init => IInv
<1> SUFFICES ASSUME Init PROVE IInv OBVIOUS
<1> USE DEF Init, NoStream, NoDecl, NoEntity, NoReport
<1>1. /\ 0 \in 0..AgeCap /\ AgeCap \in 0..AgeCap /\ 0 \in 0..MaxCount /\ 0 \in 0..(SeqMod - 1)
      /\ 0 \in 0..(Window + Slack)
  BY Caps, SeqAssumption, TimeAssumption
<1>2. NoStream \in StreamType BY <1>1 DEF StreamType
<1>3. NoEntity \in EntityType BY <1>1 DEF EntityType
<1>4. TypeOK BY <1>1, <1>2, <1>3 DEF TypeOK, StreamType, EntityType
<1>5. AvtpLossExact BY DEF AvtpLossExact
<1>6. EntryIsOfLast BY DEF EntryIsOfLast
<1>7. ViolationsAre BY DEF ViolationsAre
<1>8. StreamForgotten BY DEF StreamForgotten
<1>9. EntitiesRemembered BY Caps DEF EntitiesRemembered
<1> QED BY <1>4, <1>5, <1>6, <1>7, <1>8, <1>9 DEF IInv

\* A frame adds to the loss what was lost before it, and to the violations at most one.
LEMMA FrameInv ==
    ASSUME IInv, NEW s \in Streams, NEW skip \in 0..MaxSkip,
           NEW pcp \in Priorities \cup {NoPriority}, Frame(s, skip, pcp)
    PROVE  IInv'
<1> DEFINE st == avtp[s]
           new == avtp'[s]
<1> USE DEF IInv
<1>0. avtp \in [Streams -> StreamType] /\ skipped \in [Streams -> 0..MaxCount]
      /\ wrong \in [Streams -> 0..MaxCount] /\ masked \in [Streams -> 0..MaxCount]
      /\ MaxCount \in Nat /\ MaxSkip \in Nat
  BY SeqAssumption DEF TypeOK, StreamType
<1>1. st \in StreamType BY <1>0
<1>2. /\ \A r \in Streams \ {s} : avtp'[r] = avtp[r] /\ skipped'[r] = skipped[r]
                                  /\ wrong'[r] = wrong[r] /\ masked'[r] = masked[r]
      /\ avtp' \in [Streams -> {avtp'[r] : r \in Streams}]
      /\ UNCHANGED <<msrp, vlans, entities, elapsed, talker, answered, failing, ready, entityHistory>>
      /\ skipped'[s] = IF st.known THEN skipped[s] + skip ELSE 0
  BY <1>0 DEF Frame
<1>3. new = [known |-> TRUE, age |-> 0,
             last |-> IF st.known THEN (st.last + 1 + skip) % SeqMod ELSE 0,
             lost |-> st.lost + Missing(st, IF st.known THEN (st.last + 1 + skip) % SeqMod ELSE 0),
             violations |-> st.violations + (IF Mismatch(s, pcp) THEN 1 ELSE 0),
             observed   |-> IF Mismatch(s, pcp) /\ st.observed = NoPriority
                            THEN pcp ELSE st.observed,
             declared   |-> IF Mismatch(s, pcp) THEN msrp[s].priority ELSE st.declared]
  BY <1>0 DEF Frame
<1>4. new.lost = skipped'[s]
  <2>1. st.lost = skipped[s] /\ st.lost \in Nat BY <1>0, <1>1 DEF AvtpLossExact, StreamType
  <2>2. CASE st.known
    <3>1. Missing(st, (st.last + 1 + skip) % SeqMod) = skip BY <1>1, <2>2, MissingIsSkip
    <3> QED BY <1>2, <1>3, <2>1, <2>2, <3>1
  <2>3. CASE ~st.known
    <3>1. st.lost = 0 BY <2>3 DEF StreamForgotten, NoStream
    <3>2. Missing(st, 0) = 0 BY <2>3 DEF Missing
    <3>3. new.lost = st.lost + Missing(st, 0) BY <1>3, <2>3
    <3> QED BY <1>2, <2>3, <3>1, <3>2, <3>3
  <2> QED BY <2>2, <2>3
<1>5. skipped'[s] \in 0..MaxCount
  <2>1. skipped[s] + skip <= MaxCount BY DEF Frame
  <2> QED BY <1>0, <1>2, <2>1
<1>6. /\ wrong'[s] = wrong[s] + (IF Wrong(s, pcp) THEN 1 ELSE 0)
      /\ masked'[s] = masked[s] + (IF Wrong(s, pcp) /\ s \in answered THEN 1 ELSE 0)
      /\ wrong'[s] <= MaxCount
  BY <1>0 DEF Frame
<1>7. Mismatch(s, pcp) <=> Wrong(s, pcp) /\ s \notin answered
  BY DEF Mismatch, Wrong, EntryIsOfLast
<1>8. new.violations = st.violations + (IF Mismatch(s, pcp) THEN 1 ELSE 0) BY <1>3
<1>9. /\ st.violations \in Nat /\ wrong[s] \in Nat /\ masked[s] \in Nat
      /\ st.violations + masked[s] = wrong[s]
  BY <1>0, <1>1 DEF ViolationsAre, StreamType
<1>10. /\ new.violations + masked'[s] = wrong'[s]
       /\ new.violations \in 0..MaxCount /\ wrong'[s] \in 0..MaxCount /\ masked'[s] \in 0..MaxCount
  <2> DEFINE W == Wrong(s, pcp)
             H == s \in answered
  <2> HIDE DEF new, st, W, H
  <2>1. CASE W /\ H BY <1>0, <1>6, <1>7, <1>8, <1>9, <2>1 DEF W, H
  <2>2. CASE W /\ ~H BY <1>0, <1>6, <1>7, <1>8, <1>9, <2>2 DEF W, H
  <2>3. CASE ~W BY <1>0, <1>6, <1>7, <1>8, <1>9, <2>3 DEF W, H
  <2> QED BY <2>1, <2>2, <2>3
<1>11. new \in StreamType
  <2>1. new.last \in 0..(SeqMod - 1)
    <3>1. SeqMod \in Nat \ {0} /\ st.last + 1 + skip \in Int BY <1>1, SeqAssumption DEF StreamType
    <3>2. (st.last + 1 + skip) % SeqMod \in 0..(SeqMod - 1) BY <3>1
    <3> QED BY <1>3, <3>1, <3>2
  <2>2. new.lost \in 0..MaxCount BY <1>4, <1>5
  <2>3. msrp[s].priority \in Priorities \cup {NoPriority} BY DEF TypeOK
  <2>4. new.observed \in Priorities \cup {NoPriority} BY <1>1, <1>3 DEF StreamType
  <2>5. new.declared \in Priorities \cup {NoPriority} BY <1>1, <1>3, <2>3 DEF StreamType
  <2>6. 0 \in 0..AgeCap BY Caps
  <2>7. new.violations \in 0..MaxCount BY <1>10
  <2> DEFINE last == new.last
             lost == new.lost
             viol == new.violations
             obs  == new.observed
             decl == new.declared
  <2>8. new = [known |-> TRUE, age |-> 0, last |-> last, lost |-> lost,
               violations |-> viol, observed |-> obs, declared |-> decl]
    BY <1>3
  <2> HIDE DEF last, lost, viol, obs, decl
  <2>9. last \in 0..(SeqMod - 1) /\ lost \in 0..MaxCount /\ viol \in 0..MaxCount
    BY <2>1, <2>2, <2>7 DEF last, lost, viol
  <2>10. obs \in Priorities \cup {NoPriority} /\ decl \in Priorities \cup {NoPriority}
    BY <2>4, <2>5 DEF obs, decl
  <2> HIDE DEF new
  <2> QED BY <2>6, <2>8, <2>9, <2>10 DEF StreamType
<1>12. avtp' \in [Streams -> StreamType] BY <1>0, <1>2, <1>11
<1>13. skipped' \in [Streams -> 0..MaxCount] /\ wrong' \in [Streams -> 0..MaxCount]
       /\ masked' \in [Streams -> 0..MaxCount]
  <2>1. skipped' \in [Streams -> {skipped'[r] : r \in Streams}]
        /\ wrong' \in [Streams -> {wrong'[r] : r \in Streams}]
        /\ masked' \in [Streams -> {masked'[r] : r \in Streams}]
    BY <1>0 DEF Frame
  <2> QED BY <1>0, <1>2, <1>5, <1>10, <2>1
<1>14. TypeOK'
  <2>1. report' \in [printed : BOOLEAN, failed : SUBSET Streams, reserved : SUBSET Streams,
                   listened : SUBSET Streams]
    BY DEF Frame, NoReport
  <2> QED BY <1>2, <1>12, <1>13, <2>1 DEF TypeOK, StreamType
<1>15. AvtpLossExact' BY <1>2, <1>4 DEF AvtpLossExact
<1>16. EntryIsOfLast' BY <1>2 DEF EntryIsOfLast
<1>17. ViolationsAre' BY <1>2, <1>10 DEF ViolationsAre
<1>18. StreamForgotten'
  <2>1. new.known BY <1>3
  <2> QED BY <1>2, <2>1 DEF StreamForgotten
<1>19. EntitiesRemembered' BY <1>2 DEF EntitiesRemembered
<1> QED BY <1>14, <1>15, <1>16, <1>17, <1>18, <1>19

\* The last declaration has the entry.
LEMMA MsrpInv ==
    ASSUME IInv, NEW n \in 1..MaxDecls, NEW decls \in [1..n -> Declarations], Msrp(decls)
    PROVE  IInv'
<1>0. n \in Nat /\ TypeOK /\ EntryIsOfLast BY SeqAssumption DEF IInv
<1>1. UNCHANGED <<avtp, vlans, entities, elapsed, skipped, wrong, masked, entityHistory>>
      /\ report' = NoReport
  BY DEF Msrp
<1>2. \A s \in Streams :
        /\ msrp'[s] \in [type : DeclTypes \cup {"none"}, priority : Priorities \cup {NoPriority}]
        /\ talker'[s] \in Priorities \cup {NoPriority}
        /\ IF s \in answered' THEN msrp'[s].priority = NoPriority
           ELSE /\ msrp'[s].priority = talker'[s]
                /\ s \in failing' => msrp'[s].type = "Failed"
  BY <1>0, DeclaredIs
<1>3. msrp' \in [Streams -> [type : DeclTypes \cup {"none"}, priority : Priorities \cup {NoPriority}]]
  <2>1. msrp' = [s \in Streams |-> Declared(decls, s)] BY DEF Msrp
  <2>2. msrp' = [s \in Streams |-> msrp'[s]] BY <2>1
  <2> QED BY <1>2, <2>2
<1>4. talker' \in [Streams -> Priorities \cup {NoPriority}]
  <2>1. talker' = [s \in Streams |->
           IF Positions(decls, s, Talking) = {} THEN talker[s]
           ELSE LastOf(decls, s, Talking).priority]
    BY DEF Msrp
  <2>2. talker' = [s \in Streams |-> talker'[s]] BY <2>1
  <2> QED BY <1>2, <2>2
<1>5. answered' \subseteq Streams /\ failing' \subseteq Streams /\ ready' \subseteq Streams
  BY <1>0 DEF Msrp, TypeOK
<1>6. report' \in [printed : BOOLEAN, failed : SUBSET Streams, reserved : SUBSET Streams,
                   listened : SUBSET Streams]
  BY <1>1 DEF NoReport
<1>7. TypeOK' BY <1>0, <1>1, <1>3, <1>4, <1>5, <1>6 DEF TypeOK
<1>8. EntryIsOfLast' BY <1>2 DEF EntryIsOfLast
<1>9. AvtpLossExact' /\ ViolationsAre' /\ StreamForgotten' /\ EntitiesRemembered'
  BY <1>1 DEF IInv, AvtpLossExact, ViolationsAre, StreamForgotten, EntitiesRemembered
<1> QED BY <1>7, <1>8, <1>9 DEF IInv

\* The steps that change no stream.
LEMMA EntityStepInv ==
    ASSUME IInv, UNCHANGED <<avtp, msrp, elapsed, streamHistory>>, report' = NoReport,
           vlans' \subseteq Vlans,
           entities' \in [Entities -> EntityType], silence' \in [Entities -> 0..AgeCap],
           promised' \in [Entities -> ValidTimes \cup {0}], departed' \subseteq Entities,
           EntitiesRemembered'
    PROVE  IInv'
<1>1. report' \in [printed : BOOLEAN, failed : SUBSET Streams, reserved : SUBSET Streams,
                   listened : SUBSET Streams]
  BY DEF NoReport
<1>2. TypeOK' BY <1>1 DEF IInv, TypeOK, EntityType
<1>3. AvtpLossExact' /\ ViolationsAre' /\ StreamForgotten' /\ EntryIsOfLast'
  BY DEF IInv, AvtpLossExact, ViolationsAre, StreamForgotten, EntryIsOfLast
<1> QED BY <1>2, <1>3 DEF IInv

\* A VLAN concerns nothing else.
LEMMA MvrpInv ==
    ASSUME IInv, NEW vids \in SUBSET Vlans, Mvrp(vids)
    PROVE  IInv'
<1>1. UNCHANGED <<avtp, msrp, elapsed, streamHistory>> /\ UNCHANGED <<entities, entityHistory>>
      /\ report' = NoReport
  BY DEF Mvrp
<1>2. vlans' \subseteq Vlans BY DEF Mvrp, IInv, TypeOK
<1>3. entities \in [Entities -> EntityType] /\ silence \in [Entities -> 0..AgeCap]
      /\ promised \in [Entities -> ValidTimes \cup {0}] /\ departed \subseteq Entities
  BY DEF IInv, TypeOK, EntityType
<1>4. EntitiesRemembered' BY <1>1 DEF IInv, EntitiesRemembered
<1> QED BY <1>1, <1>2, <1>3, <1>4, EntityStepInv

\* An announcement starts the age and the valid time again, in both.
LEMMA AvailableInv ==
    ASSUME IInv, NEW e \in Entities, NEW valid \in ValidTimes, NEW index \in {0, 1},
           Available(e, valid, index)
    PROVE  IInv'
<1>1. UNCHANGED <<avtp, msrp, elapsed, streamHistory>> /\ UNCHANGED vlans /\ report' = NoReport
  BY DEF Available
<1>2. entities \in [Entities -> EntityType] /\ silence \in [Entities -> 0..AgeCap]
      /\ promised \in [Entities -> ValidTimes \cup {0}] /\ departed \subseteq Entities
      /\ vlans \subseteq Vlans /\ EntitiesRemembered
  BY DEF IInv, TypeOK, EntityType
<1> DEFINE new == [known |-> TRUE, age |-> 0, valid |-> valid, index |-> index]
<1>3. 0 \in 0..AgeCap BY Caps
<1>4. new \in EntityType /\ new.known /\ new.age = 0 /\ new.valid = valid BY <1>3 DEF EntityType
<1> HIDE DEF new
<1>5. /\ entities' = [entities EXCEPT ![e] = new]
      /\ silence' = [silence EXCEPT ![e] = 0]
      /\ promised' = [promised EXCEPT ![e] = valid]
      /\ departed' = departed \ {e}
  BY DEF Available, new
<1>6. entities' \in [Entities -> EntityType] BY <1>2, <1>4, <1>5
<1>7. silence' \in [Entities -> 0..AgeCap] BY <1>2, <1>3, <1>5
<1>8. promised' \in [Entities -> ValidTimes \cup {0}] BY <1>2, <1>5
<1>9. departed' \subseteq Entities BY <1>2, <1>5
<1>10. EntitiesRemembered'
  <2> SUFFICES ASSUME NEW f \in Entities
               PROVE  IF entities'[f].known
                      THEN entities'[f].age = silence'[f] /\ entities'[f].valid = promised'[f]
                      ELSE f \in departed' \/ silence'[f] >= promised'[f] + Grace
    BY DEF EntitiesRemembered
  <2>1. CASE f = e
    <3>1. entities'[f] = new /\ silence'[f] = 0 /\ promised'[f] = valid BY <1>2, <1>5, <2>1
    <3> QED BY <1>4, <3>1
  <2>2. CASE f # e
    <3>1. entities'[f] = entities[f] /\ silence'[f] = silence[f] /\ promised'[f] = promised[f]
          /\ (f \in departed' <=> f \in departed)
      BY <1>2, <1>5, <2>2
    <3> QED BY <1>2, <3>1 DEF EntitiesRemembered
  <2> QED BY <2>1, <2>2
<1> QED BY <1>1, <1>2, <1>6, <1>7, <1>8, <1>9, <1>10, EntityStepInv

\* Who has departed need not have been silent.
LEMMA DepartingInv ==
    ASSUME IInv, NEW e \in Entities, Departing(e)
    PROVE  IInv'
<1>1. UNCHANGED <<avtp, msrp, elapsed, streamHistory>> /\ UNCHANGED <<vlans, silence, promised>>
      /\ report' = NoReport
  BY DEF Departing
<1>2. entities \in [Entities -> EntityType] /\ silence \in [Entities -> 0..AgeCap]
      /\ promised \in [Entities -> ValidTimes \cup {0}] /\ departed \subseteq Entities
      /\ vlans \subseteq Vlans /\ EntitiesRemembered
  BY DEF IInv, TypeOK, EntityType
<1>3. 0 \in 0..AgeCap BY Caps
<1>4. NoEntity \in EntityType /\ ~NoEntity.known BY <1>3 DEF EntityType, NoEntity
<1>5. entities' = [entities EXCEPT ![e] = NoEntity] /\ departed' = departed \cup {e}
  BY DEF Departing
<1>6. entities' \in [Entities -> EntityType] /\ departed' \subseteq Entities
  BY <1>2, <1>4, <1>5
<1>7. EntitiesRemembered'
  <2> SUFFICES ASSUME NEW f \in Entities
               PROVE  IF entities'[f].known
                      THEN entities'[f].age = silence'[f] /\ entities'[f].valid = promised'[f]
                      ELSE f \in departed' \/ silence'[f] >= promised'[f] + Grace
    BY DEF EntitiesRemembered
  <2>1. CASE f = e
    <3>1. entities'[f] = NoEntity /\ f \in departed' BY <1>2, <1>5, <2>1
    <3> QED BY <1>4, <3>1
  <2>2. CASE f # e
    <3>1. entities'[f] = entities[f] /\ silence'[f] = silence[f] /\ promised'[f] = promised[f]
          /\ (f \in departed' <=> f \in departed)
      BY <1>1, <1>2, <1>5, <2>2
    <3> QED BY <1>2, <3>1 DEF EntitiesRemembered
  <2> QED BY <2>1, <2>2
<1> QED BY <1>1, <1>2, <1>6, <1>7, EntityStepInv

\* An entity and its silence age together; a silence past is never shorter.
LEMMA TickInv ==
    ASSUME IInv, Tick
    PROVE  IInv'
<1>1. /\ avtp \in [Streams -> StreamType] /\ entities \in [Entities -> EntityType]
      /\ silence \in [Entities -> 0..AgeCap] /\ promised \in [Entities -> ValidTimes \cup {0}]
      /\ EntitiesRemembered /\ StreamForgotten /\ elapsed \in 0..(Window + Slack)
  BY DEF IInv, TypeOK, StreamType, EntityType
<1>2. UNCHANGED <<msrp, vlans, streamHistory, promised, departed>> /\ report' = NoReport
      /\ elapsed < Window + Slack /\ elapsed' = elapsed + 1
  BY DEF Tick
<1>3. ASSUME NEW s \in Streams
      PROVE  /\ avtp'[s] \in StreamType
             /\ avtp'[s].lost = avtp[s].lost /\ avtp'[s].violations = avtp[s].violations
             /\ avtp'[s].known <=> avtp[s].known
             /\ ~avtp[s].known => avtp'[s] = avtp[s]
  <2>1. avtp'[s] = IF avtp[s].known THEN [avtp[s] EXCEPT !.age = Older(@)] ELSE avtp[s]
    BY <1>1 DEF Tick
  <2> DEFINE st == avtp[s]
             a == Older(st.age)
  <2>2. st \in StreamType BY <1>1
  <2>3. a \in 0..AgeCap BY <2>2, OlderIs DEF StreamType
  <2>4. avtp'[s] = IF st.known THEN [st EXCEPT !.age = a] ELSE st BY <2>1
  <2> HIDE DEF st, a
  <2>5. [st EXCEPT !.age = a] \in StreamType BY <2>2, <2>3 DEF StreamType
  <2>6. /\ [st EXCEPT !.age = a].lost = st.lost /\ [st EXCEPT !.age = a].violations = st.violations
        /\ [st EXCEPT !.age = a].known = st.known
    BY <2>2 DEF StreamType
  <2>7. /\ avtp'[s] \in StreamType
        /\ avtp'[s].lost = st.lost /\ avtp'[s].violations = st.violations
        /\ avtp'[s].known <=> st.known
        /\ ~st.known => avtp'[s] = st
    <3>1. CASE st.known BY <2>4, <2>5, <2>6, <3>1
    <3>2. CASE ~st.known BY <2>2, <2>4, <3>2
    <3> QED BY <3>1, <3>2
  <2> QED BY <2>7 DEF st
<1>4. avtp' \in [Streams -> StreamType]
  <2>1. avtp' = [s \in Streams |-> avtp'[s]] BY DEF Tick
  <2> QED BY <1>3, <2>1
<1>5. ASSUME NEW e \in Entities
      PROVE  /\ entities'[e] \in EntityType
             /\ silence'[e] \in 0..AgeCap /\ silence'[e] >= silence[e]
             /\ IF entities'[e].known
                THEN entities'[e].age = silence'[e] /\ entities'[e].valid = promised'[e]
                ELSE e \in departed' \/ silence'[e] >= promised'[e] + Grace
  <2> DEFINE en == entities[e]
             a == Older(en.age)
  <2>1. en \in EntityType BY <1>1
  <2>2. a \in 0..AgeCap BY <2>1, OlderIs DEF EntityType
  <2>3. entities'[e] = IF en.known THEN [en EXCEPT !.age = a] ELSE en BY <1>1 DEF Tick
  <2>4. silence'[e] = Older(silence[e]) BY <1>1 DEF Tick
  <2>5. silence'[e] \in 0..AgeCap /\ silence'[e] >= silence[e] BY <1>1, <2>4, OlderIs
  <2>6. CASE en.known
    <3>1. en.age = silence[e] /\ en.valid = promised[e] BY <1>1, <2>6 DEF EntitiesRemembered
    <3>2. a = silence'[e] BY <2>4, <3>1
    <3> HIDE DEF en, a
    <3>3. [en EXCEPT !.age = a] \in EntityType BY <2>1, <2>2 DEF EntityType
    <3>4. /\ [en EXCEPT !.age = a].age = a /\ [en EXCEPT !.age = a].valid = en.valid
          /\ [en EXCEPT !.age = a].known = en.known
      BY <2>1 DEF EntityType
    <3> QED BY <1>2, <2>3, <2>5, <2>6, <3>1, <3>2, <3>3, <3>4
  <2>7. CASE ~en.known
    <3>1. e \in departed \/ silence[e] >= promised[e] + Grace BY <1>1, <2>7 DEF EntitiesRemembered
    <3>2. promised[e] \in Nat /\ silence[e] \in Nat /\ silence'[e] \in Nat /\ Grace \in Nat
      BY <1>1, <2>5, Caps
    <3>3. entities'[e] = en BY <2>3, <2>7
    <3>4. e \in departed' \/ silence'[e] >= promised'[e] + Grace BY <1>2, <2>5, <3>1, <3>2
    <3> QED BY <2>1, <2>5, <2>7, <3>3, <3>4
  <2> QED BY <2>6, <2>7
<1>6. entities' \in [Entities -> EntityType] /\ silence' \in [Entities -> 0..AgeCap]
  <2>1. entities' = [e \in Entities |-> entities'[e]] /\ silence' = [e \in Entities |-> silence'[e]]
    BY DEF Tick
  <2>2. \A e \in Entities : entities'[e] \in EntityType /\ silence'[e] \in 0..AgeCap BY <1>5
  <2> QED BY <2>1, <2>2
<1>7. elapsed' \in 0..(Window + Slack) BY <1>1, <1>2, TimeAssumption
<1>8. report' \in [printed : BOOLEAN, failed : SUBSET Streams, reserved : SUBSET Streams,
                   listened : SUBSET Streams]
  BY <1>2 DEF NoReport
<1>9. TypeOK' BY <1>2, <1>4, <1>6, <1>7, <1>8 DEF IInv, TypeOK, StreamType, EntityType
<1>10. EntitiesRemembered' BY <1>5 DEF EntitiesRemembered
<1>11. AvtpLossExact' BY <1>2, <1>3 DEF IInv, AvtpLossExact
<1>12. EntryIsOfLast' BY <1>2 DEF IInv, EntryIsOfLast
<1>13. ViolationsAre' BY <1>2, <1>3 DEF IInv, ViolationsAre
<1>14. StreamForgotten' BY <1>1, <1>3 DEF StreamForgotten
<1> QED BY <1>9, <1>10, <1>11, <1>12, <1>13, <1>14 DEF IInv

\* A stream is forgotten in every part at once, an entity after its lifetime.
LEMMA CloseWindowInv ==
    ASSUME IInv, CloseWindow
    PROVE  IInv'
<1>1. /\ avtp \in [Streams -> StreamType] /\ entities \in [Entities -> EntityType]
      /\ silence \in [Entities -> 0..AgeCap] /\ promised \in [Entities -> ValidTimes \cup {0}]
      /\ msrp \in [Streams -> [type : DeclTypes \cup {"none"}, priority : Priorities \cup {NoPriority}]]
      /\ talker \in [Streams -> Priorities \cup {NoPriority}]
      /\ skipped \in [Streams -> 0..MaxCount] /\ wrong \in [Streams -> 0..MaxCount]
      /\ masked \in [Streams -> 0..MaxCount]
      /\ vlans \subseteq Vlans /\ ready \subseteq Streams /\ answered \subseteq Streams
      /\ EntitiesRemembered /\ StreamForgotten /\ AvtpLossExact /\ EntryIsOfLast /\ ViolationsAre
  BY DEF IInv, TypeOK, StreamType, EntityType
<1>2. 0 \in 0..AgeCap /\ 0 \in 0..MaxCount /\ 0 \in 0..(SeqMod - 1) /\ 0 \in 0..(Window + Slack)
  BY Caps, SeqAssumption, TimeAssumption
<1>3. NoStream \in StreamType /\ ~NoStream.known /\ NoStream.lost = 0 /\ NoStream.violations = 0
  BY <1>2 DEF StreamType, NoStream
<1>4. /\ avtp' = PrunedAvtp /\ msrp' = PrunedMsrp /\ vlans' = PrunedVlans /\ entities' = PrunedEntities
      /\ elapsed' = 0 /\ failing' = {}
      /\ skipped' = [s \in Streams |-> IF PrunedAvtp[s].known THEN skipped[s] ELSE 0]
      /\ talker' = [s \in Streams |-> IF PrunedAvtp[s].known THEN talker[s] ELSE NoPriority]
      /\ wrong' = [s \in Streams |-> IF PrunedAvtp[s].known THEN wrong[s] ELSE 0]
      /\ masked' = [s \in Streams |-> IF PrunedAvtp[s].known THEN masked[s] ELSE 0]
      /\ answered' = {s \in answered : PrunedAvtp[s].known}
      /\ ready' = {s \in ready : PrunedAvtp[s].known}
      /\ UNCHANGED entityHistory
  BY DEF CloseWindow
<1>5. ASSUME NEW s \in Streams
      PROVE  /\ avtp'[s] \in StreamType
             /\ ~avtp'[s].known => avtp'[s] = NoStream
             /\ avtp'[s].known => avtp'[s] = avtp[s]
  <2>1. avtp'[s] = IF avtp[s].age >= StreamPrune THEN NoStream ELSE avtp[s]
    BY <1>4 DEF PrunedAvtp
  <2> QED BY <1>1, <1>3, <2>1 DEF StreamForgotten
<1>6. avtp' \in [Streams -> StreamType]
  <2>1. avtp' = [s \in Streams |-> avtp'[s]] BY <1>4 DEF PrunedAvtp
  <2> QED BY <1>5, <2>1
<1>7. ASSUME NEW s \in Streams
      PROVE  IF avtp'[s].known
             THEN msrp'[s] = msrp[s] /\ talker'[s] = talker[s] /\ skipped'[s] = skipped[s]
                  /\ wrong'[s] = wrong[s] /\ masked'[s] = masked[s]
                  /\ (s \in answered' <=> s \in answered)
             ELSE msrp'[s] = NoDecl /\ talker'[s] = NoPriority /\ skipped'[s] = 0 /\ wrong'[s] = 0
                  /\ masked'[s] = 0 /\ s \notin answered'
  BY <1>4 DEF PrunedMsrp
<1>8. NoDecl \in [type : DeclTypes \cup {"none"}, priority : Priorities \cup {NoPriority}]
      /\ NoDecl.priority = NoPriority
  BY DEF NoDecl
<1>9. msrp' \in [Streams -> [type : DeclTypes \cup {"none"}, priority : Priorities \cup {NoPriority}]]
  BY <1>1, <1>4, <1>8 DEF PrunedMsrp
<1>10. talker' \in [Streams -> Priorities \cup {NoPriority}] /\ skipped' \in [Streams -> 0..MaxCount]
       /\ wrong' \in [Streams -> 0..MaxCount] /\ masked' \in [Streams -> 0..MaxCount]
  BY <1>1, <1>2, <1>4
<1>11. vlans' \subseteq Vlans /\ ready' \subseteq Streams /\ failing' \subseteq Streams
       /\ answered' \subseteq Streams
  BY <1>1, <1>4 DEF PrunedVlans
<1>12. NoEntity \in EntityType /\ ~NoEntity.known BY <1>2 DEF EntityType, NoEntity
<1>13. entities' \in [Entities -> EntityType] BY <1>1, <1>4, <1>12 DEF PrunedEntities
<1>14. EntitiesRemembered'
  <2> SUFFICES ASSUME NEW e \in Entities
               PROVE  IF entities'[e].known
                      THEN entities'[e].age = silence'[e] /\ entities'[e].valid = promised'[e]
                      ELSE e \in departed' \/ silence'[e] >= promised'[e] + Grace
    BY DEF EntitiesRemembered
  <2>1. UNCHANGED <<silence, promised, departed>> BY <1>4
  <2>2. entities'[e] = IF entities[e].known /\ entities[e].age >= Lifetime(entities[e].valid)
                       THEN NoEntity ELSE entities[e]
    BY <1>4 DEF PrunedEntities
  <2>3. CASE entities[e].known /\ entities[e].age >= Lifetime(entities[e].valid)
    <3>1. entities[e].age = silence[e] /\ entities[e].valid = promised[e]
      BY <1>1, <2>3 DEF EntitiesRemembered
    <3>2. promised[e] \in ValidTimes \cup {0} /\ silence[e] \in Nat BY <1>1
    <3>3. Lifetime(promised[e]) \in Nat /\ promised[e] \in Nat
          /\ Lifetime(promised[e]) >= promised[e] + Grace /\ Grace \in Nat
      BY <3>2, Caps
    <3>4. silence[e] >= promised[e] + Grace
      <4>1. silence[e] >= Lifetime(promised[e]) BY <2>3, <3>1
      <4> QED BY <3>2, <3>3, <4>1
    <3> QED BY <1>12, <2>1, <2>2, <2>3, <3>4
  <2>4. CASE ~(entities[e].known /\ entities[e].age >= Lifetime(entities[e].valid))
    <3>1. entities'[e] = entities[e] BY <2>2, <2>4
    <3> QED BY <1>1, <2>1, <3>1 DEF EntitiesRemembered
  <2> QED BY <2>3, <2>4
<1>15. report' \in [printed : BOOLEAN, failed : SUBSET Streams, reserved : SUBSET Streams,
                    listened : SUBSET Streams]
  BY DEF CloseWindow, Failed, Reserved, Listened
<1>16. TypeOK'
  <2>1. silence' \in [Entities -> 0..AgeCap] /\ promised' \in [Entities -> ValidTimes \cup {0}]
        /\ departed' \subseteq Entities /\ elapsed' \in 0..(Window + Slack)
    BY <1>1, <1>2, <1>4 DEF IInv, TypeOK
  <2> QED BY <1>6, <1>9, <1>10, <1>11, <1>13, <1>15, <2>1 DEF TypeOK, StreamType, EntityType
<1>17. StreamForgotten' BY <1>5 DEF StreamForgotten
<1>18. AvtpLossExact' BY <1>1, <1>3, <1>5, <1>7 DEF AvtpLossExact
<1>19. EntryIsOfLast' BY <1>1, <1>4, <1>7, <1>8 DEF EntryIsOfLast
<1>20. ViolationsAre' BY <1>1, <1>3, <1>5, <1>7 DEF ViolationsAre
<1> QED BY <1>14, <1>16, <1>17, <1>18, <1>19, <1>20 DEF IInv

\* Every state has the types, the exact loss, and what the other parts rest on.
THEOREM Invariance == Spec => []IInv
<1>1. IInv /\ [Next]_vars => IInv'
  <2> SUFFICES ASSUME IInv, [Next]_vars PROVE IInv' OBVIOUS
  <2>1. ASSUME NEW s \in Streams, NEW skip \in 0..MaxSkip, NEW pcp \in Priorities \cup {NoPriority},
               Frame(s, skip, pcp)
        PROVE  IInv'
    BY <2>1, FrameInv
  <2>2. ASSUME NEW n \in 1..MaxDecls, NEW decls \in [1..n -> Declarations], Msrp(decls)
        PROVE  IInv'
    BY <2>2, MsrpInv
  <2>3. ASSUME NEW vids \in SUBSET Vlans, Mvrp(vids) PROVE IInv' BY <2>3, MvrpInv
  <2>4. ASSUME NEW e \in Entities, NEW valid \in ValidTimes, NEW index \in {0, 1},
               Available(e, valid, index)
        PROVE  IInv'
    BY <2>4, AvailableInv
  <2>5. ASSUME NEW e \in Entities, Departing(e) PROVE IInv' BY <2>5, DepartingInv
  <2>6. CASE Tick BY <2>6, TickInv
  <2>7. CASE CloseWindow BY <2>7, CloseWindowInv
  <2>8. CASE UNCHANGED vars
    BY <2>8 DEF vars, IInv, TypeOK, AvtpLossExact, EntryIsOfLast, ViolationsAre, StreamForgotten,
               EntitiesRemembered
  <2> QED BY <2>1, <2>2, <2>3, <2>4, <2>5, <2>6, <2>7, <2>8 DEF Next
<1> QED BY <1>1, InitInv, PTL DEF Spec

\* The loss an AVTP stream shows is exactly what the network lost, whoever declares what
\* for it: over the wraps of the sequence number (update_seq), over its pruning and its
\* return (handle_avb, reset_window).
THEOREM LossIsExact == Spec => []AvtpLossExact
<1>1. IInv => AvtpLossExact BY DEF IInv
<1> QED BY <1>1, Invariance, PTL

\* The loss and the PCP violations of a stream are exactly what happened to its frames,
\* but for the violations after a listener's declaration (handle_avb, handle_msrp,
\* reset_window).
THEOREM CountsAreExact == Spec => []CountsExact
<1>1. IInv => CountsExact
  <2> SUFFICES ASSUME IInv, NEW s \in Streams PROVE avtp[s].violations = wrong[s] - masked[s]
    BY DEF IInv, CountsExact, MismatchesCounted
  <2>1. avtp[s].violations \in Nat /\ wrong[s] \in Nat /\ masked[s] \in Nat BY DEF IInv, TypeOK
  <2>2. avtp[s].violations + masked[s] = wrong[s] BY DEF IInv, ViolationsAre
  <2> QED BY <2>1, <2>2
<1> QED BY <1>1, Invariance, PTL

\* The body of FailureScored.
Scored == CloseWindow => failing \ answered \subseteq report'.failed

\* A failure a talker has declared in the Window, and that neither its next declaration
\* nor a listener's has replaced, is deducted when the Window closes (collect_penalties
\* before reset_window).
THEOREM FailuresScored == Spec => FailureScored
<1>1. IInv /\ [Next]_vars => [Scored]_vars
  <2> SUFFICES ASSUME IInv, CloseWindow PROVE failing \ answered \subseteq report'.failed
    BY DEF Scored
  <2>1. report'.failed = Failed BY DEF CloseWindow
  <2>2. failing \subseteq Streams BY DEF IInv, TypeOK
  <2> QED BY <2>1, <2>2 DEF IInv, Failed, EntryIsOfLast
<1>2. Spec => [][Scored]_vars BY <1>1, Invariance, PTL DEF Spec
<1> QED BY <1>2 DEF FailureScored, Scored

\* The body of RediscoveredOnlyWhenGone.
Gone ==
    \A e \in Entities :
        <<"discovered", e>> \in alerts' =>
            \/ e \in departed
            \/ silence[e] >= promised[e] + Grace

\* An AVDECC entity is announced as discovered only when it has departed or was silent for
\* its valid time and the grace (handle_avdecc_adp, AvbState::reset_window).
THEOREM RediscoveryEarned == Spec => RediscoveredOnlyWhenGone
<1>1. IInv /\ [Next]_vars => [Gone]_vars
  <2> SUFFICES ASSUME IInv, Next, NEW e \in Entities, <<"discovered", e>> \in alerts'
               PROVE  e \in departed \/ silence[e] >= promised[e] + Grace
    BY DEF Gone
  <2>1. ASSUME ~entities[e].known
        PROVE  e \in departed \/ silence[e] >= promised[e] + Grace
    BY <2>1 DEF IInv, EntitiesRemembered
  <2>2. ASSUME NEW f \in Entities, NEW valid \in ValidTimes, NEW index \in {0, 1},
               Available(f, valid, index)
        PROVE  ~entities[e].known
    <3>1. CASE ~entities[f].known BY <2>2, <3>1 DEF Available
    <3>2. CASE entities[f].known BY <2>2, <3>2 DEF Available
    <3> QED BY <3>1, <3>2
  <2>3. ASSUME NEW n \in 1..MaxDecls, NEW decls \in [1..n -> Declarations], Msrp(decls)
        PROVE  FALSE
    BY <2>3 DEF Msrp
  <2>4. ASSUME NEW vids \in SUBSET Vlans, Mvrp(vids) PROVE FALSE BY <2>4 DEF Mvrp
  <2>5. ASSUME NEW f \in Entities, Departing(f) PROVE FALSE BY <2>5 DEF Departing
  <2>6. ASSUME NEW s \in Streams, NEW skip \in 0..MaxSkip, NEW pcp \in Priorities \cup {NoPriority},
               Frame(s, skip, pcp)
        PROVE  FALSE
    BY <2>6 DEF Frame
  <2>7. ~Tick /\ ~CloseWindow BY DEF Tick, CloseWindow
  <2> QED BY <2>1, <2>2, <2>3, <2>4, <2>5, <2>6, <2>7 DEF Next
<1>2. Spec => [][Gone]_vars BY <1>1, Invariance, PTL DEF Spec
<1> QED BY <1>2 DEF RediscoveredOnlyWhenGone, Gone

=============================================================================
