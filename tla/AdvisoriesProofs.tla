-------------------------- MODULE AdvisoriesProofs --------------------------
(***************************************************************************)
(* Advisories, for any devices, flows, domains and times: the census names *)
(* no device that has sent a Delay_Req within the pruning time and a       *)
(* Window, the filter is suspected only after a silence, and a spike only  *)
(* over most of the Windows before.                                        *)
(*                                                                         *)
(* MediaHealth, for any streams, sources and numbers of samples: the       *)
(* verdict of a flow and the check of its DSCP agree, and a wrong mark of  *)
(* hardware costs its Window 5 points.                                     *)
(***************************************************************************)
EXTENDS Advisories, MediaHealth, FiniteSetTheorems, SequenceTheorems, TLAPS

USE DEF devices, clocks, traffic, kept

\* A follower is in the map with the age of its last Delay_Req, or has been pruned at the
\* end of a Window, which was not this one.
FollowersRemembered ==
    \A ip \in Ips :
        IF followers[ip] = FollowerGone
        THEN reqAge[ip] >= FollowerPrune + elapsed
        ELSE reqAge[ip] = followers[ip] /\ followers[ip] <= FollowerPrune + elapsed

\* No stream outlives its pruning age by more than the Window.
FlowsInTime == \A f \in Flows : flows[f] # FlowGone => flows[f] <= StreamPrune + elapsed

\* The last media packet was of a flow whose entry is there, until the age of pruning.
MediaRemembered == mediaAge < StreamPrune => \E f \in Flows : flows[f] = mediaAge

\* The silence that is counted: of the open Window, and of those with nothing but ConMon.
SilenceCounted ==
    SeenFlows = {} =>
        /\ mediaAge >= StreamPrune + elapsed \/ mediaAge = MediaCap
        /\ suspect >= 1 => mediaAge >= StreamPrune + Window + elapsed \/ mediaAge = MediaCap

\* The inductive invariant.
IInv ==
    /\ TypeOK
    /\ FollowersRemembered
    /\ FlowsInTime
    /\ MediaRemembered
    /\ SilenceCounted

-----------------------------------------------------------------------------
(* Ages and counts. *)

LEMMA TimesAreNumbers ==
    /\ FollowerGone \in Nat /\ ConmonGone \in Nat /\ FlowGone \in Nat /\ MediaCap \in Nat
    /\ FollowerGone = FollowerPrune + Window + Slack + 1
    /\ FlowGone = StreamPrune + Window + Slack + 1
    /\ ConmonGone = ConmonPrune + Window + Slack + 1
    /\ MediaCap = StreamPrune + 3 * Window
    /\ Window \in Nat \ {0} /\ Slack \in Nat
    /\ StreamPrune \in Nat /\ ConmonPrune \in Nat /\ FollowerPrune \in Nat
BY TimeAssumption DEF FollowerGone, ConmonGone, FlowGone, MediaCap

\* No stream is seen exactly when none is in the maps.
LEMMA NoneSeen == SeenFlows = {} <=> \A f \in Flows : ~(flows[f] < FlowGone)
BY DEF SeenFlows, Present

LEMMA SeenIsCount == Cardinality(SeenFlows) \in Nat
BY SetAssumption, FS_Subset, FS_CardinalityType DEF SeenFlows, Present

\* The history of counts stays one of at most three numbers.
LEMMA HistoryKeeps ==
    ASSUME counts \in Seq(Nat), Len(counts) <= 3
    PROVE  CountsAfter \in Seq(Nat) /\ Len(CountsAfter) <= 3
<1>1. CASE Len(counts) = 3
  <2>1. counts # <<>>
    <3> SUFFICES ASSUME counts = <<>> PROVE FALSE OBVIOUS
    <3>1. Len(<<>>) = 0 BY EmptySeq
    <3>2. Len(counts) = 0 BY <3>1, Zenon
    <3>3. 3 # 0 OBVIOUS
    <3> QED BY <1>1, <3>2, <3>3, Zenon
  <2>2. Tail(counts) \in Seq(Nat) /\ Len(Tail(counts)) = 2
    BY <1>1, <2>1, HeadTailProperties
  <2>3. CountsAfter = Append(Tail(counts), Cardinality(SeenFlows)) BY <1>1 DEF CountsAfter
  <2> QED BY <2>2, <2>3, SeenIsCount, AppendProperties
<1>2. CASE Len(counts) # 3
  <2>1. CountsAfter = Append(counts, Cardinality(SeenFlows)) BY <1>2 DEF CountsAfter
  <2>2. Len(counts) \in Nat BY LenProperties
  <2>3. /\ Append(counts, Cardinality(SeenFlows)) \in Seq(Nat)
        /\ Len(Append(counts, Cardinality(SeenFlows))) = Len(counts) + 1
    BY SeenIsCount, AppendProperties
  <2>4. Len(counts) + 1 <= 3
    <3> DEFINE n == Len(counts)
    <3>1. n \in Nat /\ n <= 3 /\ n # 3 BY <1>2, <2>2
    <3> HIDE DEF n
    <3>2. n + 1 <= 3 BY <3>1
    <3> QED BY <3>2 DEF n
  <2> QED BY <2>1, <2>3, <2>4, Zenon
<1> QED BY <1>1, <1>2

-----------------------------------------------------------------------------
(* The inductive invariant. *)

LEMMA Initially == Init => IInv
<1> SUFFICES ASSUME Init PROVE IInv OBVIOUS
<1> USE TimesAreNumbers
<1>1. TypeOK
  <2>1. counts \in Seq(Nat) /\ Len(counts) = 0 BY EmptySeq DEF Init
  <2>2. masterOf \in [V1Domains -> Ips \cup {NoIp}] BY DEF Init
  <2>3. report.notSyncing \subseteq Ips BY DEF Init, NoReport
  <2>4. conmon \in [Ips -> 0..ConmonGone] /\ flows \in [Flows -> 0..FlowGone] BY DEF Init
  <2>5. followers \in [Ips -> 0..FollowerGone] /\ reqAge \in [Ips -> 0..FollowerGone]
    BY DEF Init
  <2>6. mediaAge \in 0..MediaCap /\ suspect \in 0..2 /\ elapsed \in 0..(Window + Slack)
    BY DEF Init
  <2>7. sources \subseteq Ips /\ named \subseteq sources BY DEF Init
  <2>8. ptp \in BOOLEAN /\ flooded \in BOOLEAN /\ queried \in BOOLEAN BY DEF Init
  <2>9. Len(counts) <= 3 BY <2>1
  <2> QED BY <2>1, <2>2, <2>3, <2>4, <2>5, <2>6, <2>7, <2>8, <2>9 DEF TypeOK
<1>2. FollowersRemembered BY DEF Init, FollowersRemembered
<1>3. FlowsInTime /\ MediaRemembered BY DEF Init, FlowsInTime, MediaRemembered
<1>4. SilenceCounted BY DEF Init, SilenceCounted
<1> QED BY <1>1, <1>2, <1>3, <1>4 DEF IInv

\* What a packet that is not media leaves as it is.
LEMMA MediaUntouched ==
    ASSUME FlowsInTime, MediaRemembered, SilenceCounted,
           UNCHANGED <<flows, mediaAge, elapsed, suspect>>
    PROVE  FlowsInTime' /\ MediaRemembered' /\ SilenceCounted'
BY DEF FlowsInTime, MediaRemembered, SilenceCounted, SeenFlows, Present

LEMMA PacketKeeps ==
    ASSUME IInv,
           \/ \E ip \in Ips, name \in BOOLEAN : Discovery(ip, name)
           \/ \E ip \in Ips : ConMon(ip)
           \/ \E d \in V1Domains, ip \in Ips : Sync(d, ip)
           \/ Query
    PROVE  IInv'
<1> USE TimesAreNumbers DEF IInv
<1>0. report' = NoReport /\ NoReport.notSyncing \subseteq Ips
  BY DEF Discovery, ConMon, Sync, Query, NoReport
<1>1. UNCHANGED <<followers, reqAge, flows, mediaAge, elapsed, suspect, counts, flooded>>
  BY DEF Discovery, ConMon, Sync, Query
<1>2. sources' \subseteq Ips /\ named' \subseteq sources'
  BY DEF TypeOK, Discovery, ConMon, Sync, Query
<1>3. conmon' \in [Ips -> 0..ConmonGone]
  <2>1. ASSUME NEW ip \in Ips, ConMon(ip) PROVE conmon' \in [Ips -> 0..ConmonGone]
    BY <2>1 DEF TypeOK, ConMon
  <2>2. CASE conmon' = conmon BY <2>2 DEF TypeOK
  <2> QED BY <2>1, <2>2 DEF Discovery, Sync, Query
<1>4. masterOf' \in [V1Domains -> Ips \cup {NoIp}]
  BY DEF TypeOK, Discovery, ConMon, Sync, Query
<1>5. ptp' \in BOOLEAN /\ queried' \in BOOLEAN
  BY DEF TypeOK, Discovery, ConMon, Sync, Query
<1>6. TypeOK' BY <1>0, <1>1, <1>2, <1>3, <1>4, <1>5 DEF TypeOK
<1>7. FollowersRemembered' BY <1>1 DEF FollowersRemembered
<1>8. FlowsInTime' /\ MediaRemembered' /\ SilenceCounted' BY <1>1, MediaUntouched
<1> QED BY <1>6, <1>7, <1>8

LEMMA DelayReqKeeps ==
    ASSUME IInv, NEW ip \in Ips, DelayReq(ip)
    PROVE  IInv'
<1> USE TimesAreNumbers DEF IInv
<1>1. TypeOK'
  <2>1. /\ followers' \in [Ips -> 0..FollowerGone] /\ reqAge' \in [Ips -> 0..FollowerGone]
    BY DEF TypeOK, DelayReq
  <2> QED BY <2>1 DEF TypeOK, DelayReq, NoReport
<1>2. FollowersRemembered'
  <2>1. UNCHANGED elapsed /\ elapsed \in Nat BY DEF DelayReq, TypeOK
  <2>2. followers'[ip] = 0 /\ reqAge'[ip] = 0 BY DEF DelayReq, TypeOK
  <2>3. \A x \in Ips \ {ip} : followers'[x] = followers[x] /\ reqAge'[x] = reqAge[x]
    BY DEF DelayReq, TypeOK
  <2>4. FollowerGone # 0 BY DEF FollowerGone
  <2> QED BY <2>1, <2>2, <2>3, <2>4 DEF FollowersRemembered
<1>3. FlowsInTime' /\ MediaRemembered' /\ SilenceCounted' BY MediaUntouched DEF DelayReq
<1> QED BY <1>1, <1>2, <1>3

LEMMA MediaKeeps ==
    ASSUME IInv, NEW f \in Flows, NEW heavy \in BOOLEAN, Media(f, heavy)
    PROVE  IInv'
<1> USE TimesAreNumbers DEF IInv
<1>1. flows' = [flows EXCEPT ![f] = 0] /\ mediaAge' = 0 /\ elapsed' = elapsed
  BY DEF Media
<1>2. TypeOK'
  <2>1. flows' \in [Flows -> 0..FlowGone] BY <1>1 DEF TypeOK
  <2>2. flooded' \in BOOLEAN BY DEF TypeOK, Media
  <2> QED BY <1>1, <2>1, <2>2 DEF TypeOK, Media, NoReport
<1>3. FollowersRemembered' BY DEF FollowersRemembered, Media
<1>4. FlowsInTime' BY <1>1 DEF FlowsInTime, TypeOK
<1>5. flows'[f] = 0 BY <1>1 DEF TypeOK
<1>6. MediaRemembered' BY <1>1, <1>5 DEF MediaRemembered
<1>7. f \in SeenFlows' BY <1>5 DEF SeenFlows, Present
<1>8. SilenceCounted' BY <1>7 DEF SilenceCounted
<1> QED BY <1>2, <1>3, <1>4, <1>6, <1>8

\* An age stays below the one at which it is forgotten.
LEMMA OlderStays == \A gone \in Nat : \A age \in 0..gone : Older(age, gone) \in 0..gone
BY DEF Older

LEMMA TickKeeps ==
    ASSUME IInv, Tick
    PROVE  IInv'
<1> USE TimesAreNumbers DEF IInv
<1>1. elapsed' = elapsed + 1 /\ elapsed \in Nat /\ elapsed < Window + Slack
  BY DEF Tick, TypeOK
<1>2. TypeOK'
  <2>1. conmon' \in [Ips -> 0..ConmonGone]
    <3>1. conmon' = [ip \in Ips |-> Older(conmon[ip], ConmonGone)] BY DEF Tick
    <3>2. \A ip \in Ips : conmon[ip] \in 0..ConmonGone BY DEF TypeOK
    <3> QED BY <3>1, <3>2, OlderStays
  <2>2. followers' \in [Ips -> 0..FollowerGone]
    <3>1. followers' = [ip \in Ips |-> Older(followers[ip], FollowerGone)] BY DEF Tick
    <3>2. \A ip \in Ips : followers[ip] \in 0..FollowerGone BY DEF TypeOK
    <3> QED BY <3>1, <3>2, OlderStays
  <2>3. reqAge' \in [Ips -> 0..FollowerGone]
    <3>1. reqAge' = [ip \in Ips |-> Older(reqAge[ip], FollowerGone)] BY DEF Tick
    <3>2. \A ip \in Ips : reqAge[ip] \in 0..FollowerGone BY DEF TypeOK
    <3> QED BY <3>1, <3>2, OlderStays
  <2>4. flows' \in [Flows -> 0..FlowGone]
    <3>1. flows' = [f \in Flows |-> Older(flows[f], FlowGone)] BY DEF Tick
    <3>2. \A f \in Flows : flows[f] \in 0..FlowGone BY DEF TypeOK
    <3> QED BY <3>1, <3>2, OlderStays
  <2>5. mediaAge' \in 0..MediaCap BY DEF TypeOK, Tick, Older
  <2> QED BY <1>1, <2>1, <2>2, <2>3, <2>4, <2>5 DEF TypeOK, Tick, NoReport
<1>3. FollowersRemembered'
  <2> SUFFICES ASSUME NEW ip \in Ips
               PROVE  IF followers'[ip] = FollowerGone
                      THEN reqAge'[ip] >= FollowerPrune + elapsed'
                      ELSE /\ reqAge'[ip] = followers'[ip]
                           /\ followers'[ip] <= FollowerPrune + elapsed'
    BY DEF FollowersRemembered
  <2>1. /\ followers'[ip] = Older(followers[ip], FollowerGone)
        /\ reqAge'[ip] = Older(reqAge[ip], FollowerGone)
        /\ followers[ip] \in 0..FollowerGone /\ reqAge[ip] \in 0..FollowerGone
    BY DEF Tick, TypeOK
  <2> QED BY <1>1, <2>1 DEF FollowersRemembered, Older
<1>4. \A f \in Flows : /\ flows[f] = FlowGone => flows'[f] = FlowGone
                       /\ flows[f] # FlowGone => /\ flows'[f] = flows[f] + 1
                                                 /\ flows'[f] <= StreamPrune + elapsed'
                                                 /\ flows'[f] < FlowGone
  BY <1>1 DEF Tick, TypeOK, Older, FlowsInTime
<1>5. FlowsInTime' BY <1>4 DEF FlowsInTime
<1>6. mediaAge \in 0..MediaCap
      /\ mediaAge' = IF mediaAge = MediaCap THEN MediaCap ELSE mediaAge + 1
  BY DEF Tick, TypeOK, Older
<1>7. MediaRemembered'
  <2> SUFFICES ASSUME mediaAge' < StreamPrune PROVE \E f \in Flows : flows'[f] = mediaAge'
    BY DEF MediaRemembered
  <2>1. mediaAge' = mediaAge + 1 /\ mediaAge < StreamPrune BY <1>6
  <2>2. PICK f \in Flows : flows[f] = mediaAge BY <2>1 DEF MediaRemembered
  <2>3. flows[f] # FlowGone BY <2>1, <2>2, <1>6
  <2> QED BY <1>4, <2>1, <2>2, <2>3
<1>8. SilenceCounted'
  <2> SUFFICES ASSUME SeenFlows' = {}
               PROVE  /\ mediaAge' >= StreamPrune + elapsed' \/ mediaAge' = MediaCap
                      /\ suspect' >= 1 =>
                            mediaAge' >= StreamPrune + Window + elapsed' \/ mediaAge' = MediaCap
    BY DEF SilenceCounted
  <2>1. \A f \in Flows : flows[f] = FlowGone BY <1>4 DEF SeenFlows, Present
  <2>2. SeenFlows = {} BY <2>1, NoneSeen
  <2>3. suspect' = suspect BY DEF Tick
  <2> QED BY <1>1, <1>6, <2>2, <2>3 DEF SilenceCounted
<1> QED BY <1>2, <1>3, <1>5, <1>7, <1>8

LEMMA CloseWindowKeeps ==
    ASSUME IInv, CloseWindow
    PROVE  IInv'
<1> USE TimesAreNumbers DEF IInv
<1>1. /\ elapsed' = 0 /\ elapsed \in Nat /\ elapsed >= Window
      /\ followers' = PrunedFollowers /\ flows' = PrunedFlows /\ suspect' = SuspectCycles
      /\ mediaAge' = mediaAge /\ reqAge' = reqAge
  BY DEF CloseWindow, TypeOK
<1>2. TypeOK'
  <2>1. conmon' \in [Ips -> 0..ConmonGone]
    <3>1. conmon' = [ip \in Ips |-> Pruned(conmon[ip], ConmonPrune, ConmonGone)]
      BY DEF CloseWindow
    <3>2. ASSUME NEW ip \in Ips PROVE Pruned(conmon[ip], ConmonPrune, ConmonGone) \in 0..ConmonGone
      <4>1. conmon[ip] \in 0..ConmonGone BY DEF TypeOK
      <4> QED BY <4>1 DEF Pruned
    <3> QED BY <3>1, <3>2
  <2>2. followers' \in [Ips -> 0..FollowerGone] BY <1>1 DEF TypeOK, PrunedFollowers, Pruned
  <2>3. flows' \in [Flows -> 0..FlowGone] BY <1>1 DEF TypeOK, PrunedFlows, Pruned
  <2>4. suspect' \in 0..2 BY <1>1 DEF TypeOK, SuspectCycles
  <2>5. counts' \in Seq(Nat) /\ Len(counts') <= 3
    BY HistoryKeeps DEF TypeOK, CloseWindow
  <2>6. report'.notSyncing \subseteq Ips
    <3>1. PICK gm \in MasterIps : report'.notSyncing = NotSyncing(CensusFollowers, gm)
      BY DEF CloseWindow
    <3>2. NotSyncing(CensusFollowers, gm) \subseteq sources BY DEF NotSyncing
    <3> QED BY <3>1, <3>2 DEF TypeOK
  <2>7. /\ sources' \subseteq Ips /\ named' \subseteq sources'
        /\ masterOf' \in [V1Domains -> Ips \cup {NoIp}]
    BY DEF TypeOK, CloseWindow
  <2>8. ptp' \in BOOLEAN /\ flooded' \in BOOLEAN /\ queried' \in BOOLEAN
    BY DEF TypeOK, CloseWindow
  <2>9. /\ reqAge' \in [Ips -> 0..FollowerGone] /\ mediaAge' \in 0..MediaCap
        /\ elapsed' \in 0..(Window + Slack)
    BY <1>1 DEF TypeOK
  <2> QED BY <2>1, <2>2, <2>3, <2>4, <2>5, <2>6, <2>7, <2>8, <2>9 DEF TypeOK
<1>3. FollowersRemembered'
  <2> SUFFICES ASSUME NEW ip \in Ips
               PROVE  IF followers'[ip] = FollowerGone THEN reqAge[ip] >= FollowerPrune
                      ELSE /\ reqAge[ip] = followers'[ip]
                           /\ followers'[ip] <= FollowerPrune
    BY <1>1 DEF FollowersRemembered
  <2>1. followers'[ip] = IF followers[ip] >= FollowerPrune THEN FollowerGone ELSE followers[ip]
    BY <1>1 DEF PrunedFollowers, Pruned
  <2>2. followers[ip] \in 0..FollowerGone /\ reqAge[ip] \in 0..FollowerGone BY DEF TypeOK
  <2> QED BY <1>1, <2>1, <2>2 DEF FollowersRemembered
<1>4. \A f \in Flows :
          /\ flows[f] \in 0..FlowGone
          /\ flows'[f] = IF flows[f] >= StreamPrune THEN FlowGone ELSE flows[f]
  BY <1>1 DEF PrunedFlows, Pruned, TypeOK
<1>5. FlowsInTime' BY <1>1, <1>4 DEF FlowsInTime
<1>6. MediaRemembered'
  <2> SUFFICES ASSUME mediaAge < StreamPrune PROVE \E f \in Flows : flows'[f] = mediaAge
    BY <1>1 DEF MediaRemembered
  <2>1. PICK f \in Flows : flows[f] = mediaAge BY DEF MediaRemembered
  <2> QED BY <1>4, <2>1
<1>7. SilenceCounted'
  <2> SUFFICES ASSUME SeenFlows' = {}
               PROVE  /\ mediaAge >= StreamPrune \/ mediaAge = MediaCap
                      /\ suspect' >= 1 => mediaAge >= StreamPrune + Window \/ mediaAge = MediaCap
    BY <1>1 DEF SilenceCounted
  <2>1. \A f \in Flows : ~(flows'[f] < FlowGone) BY DEF SeenFlows, Present
  <2>2. mediaAge \in Nat BY DEF TypeOK
  <2>3. mediaAge >= StreamPrune
    <3> SUFFICES ASSUME mediaAge < StreamPrune PROVE FALSE BY <2>2
    <3>1. PICK f \in Flows : flows'[f] = mediaAge BY <1>1, <1>6 DEF MediaRemembered
    <3> QED BY <2>1, <2>2, <3>1
  <2>4. ASSUME suspect' >= 1 PROVE mediaAge >= StreamPrune + Window \/ mediaAge = MediaCap
    <3>1. OnlyConmon BY <1>1, <2>4 DEF SuspectCycles
    <3>2. SeenFlows = {} BY <3>1 DEF OnlyConmon
    <3> QED BY <1>1, <2>2, <3>2 DEF SilenceCounted
  <2> QED BY <2>3, <2>4
<1> QED BY <1>2, <1>3, <1>5, <1>6, <1>7

LEMMA NextKeeps == IInv /\ [Next]_vars => IInv'
<1> SUFFICES ASSUME IInv, [Next]_vars PROVE IInv' OBVIOUS
<1>1. ASSUME NEW ip \in Ips, DelayReq(ip) PROVE IInv' BY <1>1, DelayReqKeeps
<1>2. ASSUME NEW f \in Flows, NEW heavy \in BOOLEAN, Media(f, heavy) PROVE IInv'
  BY <1>2, MediaKeeps
<1>3. CASE Tick BY <1>3, TickKeeps
<1>4. CASE CloseWindow BY <1>4, CloseWindowKeeps
<1>5. CASE UNCHANGED vars
  <2>1. TypeOK' BY <1>5 DEF vars, IInv, TypeOK
  <2>2. FollowersRemembered' BY <1>5 DEF vars, IInv, FollowersRemembered
  <2>3. FlowsInTime' /\ MediaRemembered' /\ SilenceCounted'
    BY <1>5, MediaUntouched DEF vars, IInv
  <2> QED BY <2>1, <2>2, <2>3 DEF IInv
<1> QED BY <1>1, <1>2, <1>3, <1>4, <1>5, PacketKeeps DEF Next

\* The inductive invariant holds of every behaviour.
THEOREM Invariance == Spec => []IInv
BY Initially, NextKeeps, PTL DEF Spec

-----------------------------------------------------------------------------
(* The theorems. *)

\* The body of SyncingDevicesNotNamed.
NamedLate ==
    CloseWindow => \A ip \in report'.notSyncing : reqAge[ip] >= FollowerPrune + Window

\* A device the census names has sent no Delay_Req for the pruning time and a Window
\* more, however late the Windows close: the census reads the followers before the
\* reset prunes them (ADR 0002).
THEOREM SyncingDevicesSpared == Spec => SyncingDevicesNotNamed
<1>1. IInv /\ [Next]_vars => [NamedLate]_vars
  <2> SUFFICES ASSUME IInv, CloseWindow, NEW ip \in report'.notSyncing
               PROVE  reqAge[ip] >= FollowerPrune + Window
    BY DEF NamedLate
  <2>1. PICK gm \in MasterIps : report'.notSyncing = NotSyncing(CensusFollowers, gm)
    BY DEF CloseWindow
  <2>2. ip \in sources \ Following(followers) BY <2>1 DEF NotSyncing, CensusFollowers
  <2>3. ip \in Ips /\ followers[ip] \in 0..FollowerGone /\ ~(followers[ip] < FollowerGone)
    BY <2>2 DEF IInv, TypeOK, Following
  <2>4. followers[ip] = FollowerGone BY <2>3, TimesAreNumbers
  <2>5. reqAge[ip] >= FollowerPrune + elapsed BY <2>3, <2>4 DEF IInv, FollowersRemembered
  <2>6. elapsed >= Window /\ elapsed \in Nat /\ reqAge[ip] \in Nat
    BY <2>3, TimesAreNumbers DEF CloseWindow, IInv, TypeOK
  <2> QED BY <2>5, <2>6, TimesAreNumbers
<1>2. Spec => [][NamedLate]_vars BY <1>1, Invariance, PTL DEF Spec
<1> QED BY <1>2 DEF SyncingDevicesNotNamed, NamedLate

\* More than twice the average of three numbers is more than two of them.
LEMMA MoreThanTwo ==
    ASSUME NEW a \in Nat, NEW b \in Nat, NEW c \in Nat, NEW n \in Nat,
           (a + b + c) \div 3 > 0, n > 2 * ((a + b + c) \div 3)
    PROVE  (a < n /\ b < n) \/ (a < n /\ c < n) \/ (b < n /\ c < n)
<1> DEFINE m == (a + b + c) \div 3
<1>1. m \in Nat /\ 3 * m <= a + b + c /\ a + b + c < 3 * m + 3 BY SMT
<1>2. m >= 1 /\ n >= 2 * m + 1 BY <1>1
<1> HIDE DEF m
<1>3. a + b + c <= 3 * m + 2 /\ 2 * n >= 4 * m + 2 BY <1>1, <1>2
<1>4. 2 * n > a + b + c \/ a + b + c >= 2 * n BY <1>1
<1> QED BY <1>1, <1>2, <1>3, <1>4

\* The counts below n, when there are two of them.
LEMMA TwoBelow ==
    ASSUME counts \in Seq(Nat), Len(counts) = 3, NEW n \in Nat, NEW i \in 1..3, NEW j \in 1..3,
           i # j, counts[i] < n, counts[j] < n
    PROVE  Cardinality({k \in DOMAIN counts : counts[k] < n}) >= 2
<1> DEFINE below == {k \in DOMAIN counts : counts[k] < n}
<1>1. DOMAIN counts = 1..3 BY LenProperties
<1>2. IsFiniteSet(1..3) BY FS_Interval
<1>3. IsFiniteSet(below) BY <1>1, <1>2, FS_Subset
<1>4. {i} \cup {j} \subseteq below BY <1>1
<1>5. IsFiniteSet({i}) /\ Cardinality({i}) = 1 BY FS_Singleton
<1>6. Cardinality({i} \cup {j}) = 2
  <2>1. j \notin {i} OBVIOUS
  <2>2. Cardinality({i} \cup {j}) = Cardinality({i}) + 1 BY <1>5, <2>1, FS_AddElement
  <2>3. Cardinality({i} \cup {j}) = 1 + 1 BY <1>5, <2>2, Zenon
  <2>4. 1 + 1 = 2 OBVIOUS
  <2> QED BY <2>3, <2>4, Zenon
<1>7. Cardinality({i} \cup {j}) <= Cardinality(below) BY <1>3, <1>4, FS_Subset
<1>8. Cardinality(below) \in Nat BY <1>3, FS_CardinalityType
<1> QED BY <1>6, <1>7, <1>8

\* The body of AdvisoriesAreEarned.
Earned ==
    CloseWindow =>
        /\ report'.filtered => mediaAge >= StreamPrune + 2 * Window
        /\ report'.spike => Cardinality(FewerBefore) >= 2

\* A filter is suspected only when no media packet came for the time that prunes a stream
\* and two Windows more, and a spike is called only when there are more streams than in two
\* of the three Windows before, although the average is rounded down
\* (check_filter_unregistered_multicast, check_stream_count_anomaly).
THEOREM AdvisoriesEarned == Spec => AdvisoriesAreEarned
<1>1. IInv /\ [Next]_vars => [Earned]_vars
  <2> SUFFICES ASSUME IInv, CloseWindow
               PROVE  /\ report'.filtered => mediaAge >= StreamPrune + 2 * Window
                      /\ report'.spike => Cardinality(FewerBefore) >= 2
    BY DEF Earned
  <2>1. (report'.filtered <=> SuspectCycles >= 2) /\ (report'.spike <=> Spike)
    <3>1. report'.filtered = (SuspectCycles >= 2) /\ report'.spike = Spike
      BY DEF CloseWindow
    <3>2. Spike \in BOOLEAN BY DEF Spike
    <3> QED BY <3>1, <3>2
  <2>2. ASSUME SuspectCycles >= 2 PROVE mediaAge >= StreamPrune + 2 * Window
    <3>1. suspect \in 0..2 /\ mediaAge \in Nat /\ elapsed \in Nat /\ elapsed >= Window
      BY DEF IInv, TypeOK, CloseWindow
    <3>2. OnlyConmon /\ suspect >= 1 BY <2>2, <3>1 DEF SuspectCycles
    <3>3. SeenFlows = {} BY <3>2 DEF OnlyConmon
    <3>4. mediaAge >= StreamPrune + Window + elapsed \/ mediaAge = MediaCap
      BY <3>2, <3>3 DEF IInv, SilenceCounted
    <3> QED BY <3>1, <3>4, TimesAreNumbers
  <2>3. ASSUME Spike
        PROVE  Cardinality(FewerBefore) >= 2
    <3> DEFINE n == Cardinality(SeenFlows)
    <3>1. counts \in Seq(Nat) /\ Len(counts) = 3 BY <2>3 DEF IInv, TypeOK, Spike
    <3>2. counts[1] \in Nat /\ counts[2] \in Nat /\ counts[3] \in Nat
      <4>1. \A i \in 1..Len(counts) : counts[i] \in Nat BY <3>1, ElementOfSeq
      <4> QED BY <3>1, <4>1
    <3>3. n \in Nat BY SeenIsCount
    <3>4. /\ (counts[1] + counts[2] + counts[3]) \div 3 > 0
          /\ n > 2 * ((counts[1] + counts[2] + counts[3]) \div 3)
      BY <2>3 DEF Spike, Average
    <3> HIDE DEF n
    <3>5. \/ counts[1] < n /\ counts[2] < n
          \/ counts[1] < n /\ counts[3] < n
          \/ counts[2] < n /\ counts[3] < n
      BY <3>2, <3>3, <3>4, MoreThanTwo
    <3>6. Cardinality({i \in DOMAIN counts : counts[i] < n}) >= 2
      BY <3>1, <3>3, <3>5, TwoBelow
    <3> QED BY <3>6 DEF n, FewerBefore
  <2> QED BY <2>1, <2>2, <2>3
<1>2. Spec => [][Earned]_vars BY <1>1, Invariance, PTL DEF Spec
<1> QED BY <1>2 DEF AdvisoriesAreEarned, Earned

-----------------------------------------------------------------------------
(* The Health Score (MediaHealth).  Sums over the streams and their counters. *)

\* The equation by which SumFunction adds up f, on the subsets of S.
Adds(g, f, S) ==
    g = [T \in SUBSET S |->
            IF T = {} THEN 0 ELSE LET x == CHOOSE x \in T : TRUE IN f[x] + g[T \ {x}]]

LEMMA SumIsChosen ==
    ASSUME NEW f PROVE SumFunction(f) = (CHOOSE g : Adds(g, f, DOMAIN f))[DOMAIN f]
  BY DEF SumFunction, SumFunctionOnSet, FoldFunctionOnSet, MapThenFoldSet, Adds

\* There is such a sum: the number of the pairs of an element and a number up to its value.
LEMMA SumExists ==
    ASSUME NEW S, IsFiniteSet(S), NEW f \in [S -> Nat] PROVE \E g : Adds(g, f, S)
  <1> DEFINE of(x)  == {x} \X (1..f[x])
             pts(T) == UNION {of(x) : x \in T}
             g      == [T \in SUBSET S |-> Cardinality(pts(T))]
  <1>1. ASSUME NEW x \in S PROVE IsFiniteSet(of(x)) /\ Cardinality(of(x)) = f[x]
    <2>1. f[x] \in Nat /\ IsFiniteSet(1..f[x]) /\ Cardinality(1..f[x]) = f[x]
      BY FS_Interval
    <2>2. IsFiniteSet({x}) /\ Cardinality({x}) = 1
      BY FS_Singleton
    <2>3. IsFiniteSet(of(x)) /\ Cardinality(of(x)) = 1 * f[x]
      BY <2>1, <2>2, FS_Product
    <2> QED BY <2>1, <2>3
  <1>2. ASSUME NEW T \in SUBSET S PROVE IsFiniteSet(pts(T))
    <2> DEFINE all == {of(x) : x \in T}
               h   == [x \in T |-> of(x)]
    <2>1. IsFiniteSet(T)
      BY FS_Subset
    <2>2. h \in Surjection(T, all)
      BY DEF Surjection
    <2>3. IsFiniteSet(all)
      BY <2>1, <2>2, FS_Surjection
    <2>4. \A P \in all : IsFiniteSet(P)
      BY <1>1
    <2> HIDE DEF all
    <2>5. IsFiniteSet(UNION all)
      BY <2>3, <2>4, FS_UNION
    <2> QED BY <2>5 DEF all
  <1>3. g[{}] = 0
    <2>1. pts({}) = {}
      OBVIOUS
    <2> QED BY <2>1, FS_EmptySet
  <1>4. ASSUME NEW T \in SUBSET S, NEW x \in T PROVE g[T] = f[x] + g[T \ {x}]
    <2>1. T \ {x} \in SUBSET S /\ x \in S
      OBVIOUS
    <2>2. pts(T) = pts(T \ {x}) \cup of(x)
      OBVIOUS
    <2>3. pts(T \ {x}) \cap of(x) = {}
      OBVIOUS
    <2>4. IsFiniteSet(pts(T \ {x})) /\ IsFiniteSet(of(x)) /\ Cardinality(of(x)) = f[x]
      BY <1>1, <1>2, <2>1
    <2>5. Cardinality(pts(T \ {x})) \in Nat /\ f[x] \in Nat
      BY <2>1, <2>4, FS_CardinalityType
    <2>6. g[T] = Cardinality(pts(T)) /\ g[T \ {x}] = Cardinality(pts(T \ {x}))
      BY <2>1
    <2> HIDE DEF pts, of, g
    <2>7. Cardinality(pts(T \ {x}) \cup of(x))
             = Cardinality(pts(T \ {x})) + Cardinality(of(x)) - Cardinality(pts(T \ {x}) \cap of(x))
      BY <2>4, FS_Union
    <2>8. Cardinality(pts(T \ {x}) \cap of(x)) = 0
      BY <2>3, FS_EmptySet
    <2> QED BY <2>2, <2>4, <2>5, <2>6, <2>7, <2>8
  <1> HIDE DEF g
  <1>5. g = [T \in SUBSET S |-> g[T]]
    BY DEF g
  <1>6. ASSUME NEW T \in SUBSET S
        PROVE  g[T] = IF T = {} THEN 0 ELSE LET x == CHOOSE x \in T : TRUE IN f[x] + g[T \ {x}]
    BY <1>3, <1>4
  <1>7. Adds(g, f, S)
    BY <1>5, <1>6 DEF Adds
  <1> QED BY <1>7

\* The sum of natural numbers is one.
LEMMA SumIsNat ==
    ASSUME NEW S, IsFiniteSet(S), NEW f \in [S -> Nat] PROVE SumFunction(f) \in Nat
  <1> DEFINE g   == CHOOSE h : Adds(h, f, S)
             Bad == {T \in SUBSET S : g[T] \notin Nat}
             R   == StrictSubsetOrdering(S)
  <1>1. Adds(g, f, S)
    BY SumExists
  <1>2. SumFunction(f) = g[S]
    BY SumIsChosen
  <1> HIDE DEF g
  <1>3. ASSUME NEW T \in SUBSET S, T # {}
        PROVE  \E x \in T : g[T] = f[x] + g[T \ {x}]
    BY <1>1, <1>3 DEF Adds
  <1>4. g[{}] = 0
    BY <1>1 DEF Adds
  <1>5. Bad = {}
    <2>1. SUFFICES ASSUME Bad # {} PROVE FALSE
      OBVIOUS
    <2>2. PICK T \in Bad : \A U \in Bad : <<U, T>> \notin R
      <3>1. IsWellFoundedOn(R, SUBSET S)
        BY FS_StrictSubsetOrderingWellFounded, FS_FiniteSubsetsOfFinite
      <3>2. Bad \subseteq SUBSET S
        OBVIOUS
      <3> HIDE DEF Bad, R
      <3> QED BY <2>1, <3>1, <3>2, WFMin
    <2>3. T # {}
      BY <1>4
    <2>4. PICK x \in T : g[T] = f[x] + g[T \ {x}]
      BY <1>3, <2>3
    <2>5. T \ {x} \in SUBSET S /\ T \ {x} \subseteq T /\ T \ {x} # T
      OBVIOUS
    <2>6. <<T \ {x}, T>> \in R
      BY <2>5 DEF StrictSubsetOrdering
    <2>7. g[T \ {x}] \in Nat
      BY <2>2, <2>5, <2>6
    <2>8. f[x] \in Nat
      OBVIOUS
    <2> QED BY <2>4, <2>7, <2>8
  <1> QED BY <1>2, <1>5

-----------------------------------------------------------------------------
(* The Transmitter Class and the check of the mark. *)

\* The gate and the verdict judge by the same signs but for the missing mark, which the
\* verdict takes for a hint and the gate does not.
LEMMA SoftwareGround ==
    ASSUME NEW control, NEW timing \in {"unknown", "even", "noisy"}, NEW ttl,
           NEW unmarked \in BOOLEAN, NEW sig,
           sig = [control |-> control, timing |-> timing, ttl |-> ttl, unmarked |-> unmarked]
    PROVE  IsSoftware(sig) <=> /\ Classify(sig).class \in {"Dvs", "Via"}
                               /\ Classify(sig).confidence # "Hint"
  <1> DEFINE bare == [sig EXCEPT !.unmarked = FALSE]
  <1>1. /\ bare.control = control /\ bare.timing = timing /\ bare.ttl = ttl
        /\ bare.unmarked = FALSE
    OBVIOUS
  <1> HIDE DEF bare
  <1>2. IsSoftware(sig) <=> Classify(bare).class \in {"Dvs", "Via"}
    BY DEF IsSoftware, bare
  <1>3. CASE control # NoClass
    <2>1. Classify(sig) = Verdict(control, "Confirmed") /\ Classify(bare) = Verdict(control, "Confirmed")
      BY <1>1, <1>3 DEF Classify
    <2> QED BY <1>2, <2>1 DEF Verdict
  <1>4. CASE control = NoClass
    <2>1. CASE timing # "unknown" \/ ttl = 128
      <3>1. Classify(sig) = Classify(bare)
        BY <1>1, <1>4, <2>1 DEF Classify
      <3>2. Classify(sig) \in {NoVerdict, Verdict("Hardware", "Inferred"), Verdict("Dvs", "Inferred")}
        BY <1>4, <2>1 DEF Classify
      <3>3. Classify(sig).confidence # "Hint"
        BY <3>2 DEF Verdict, NoVerdict, NoClass
      <3> QED BY <1>2, <3>1, <3>3
    <2>2. CASE timing = "unknown" /\ ttl # 128
      <3>1. Classify(bare) = NoVerdict
        BY <1>1, <1>4, <2>2 DEF Classify
      <3>2. Classify(sig) \in {NoVerdict, Verdict("Dvs", "Hint")}
        BY <1>4, <2>2 DEF Classify
      <3> QED BY <1>2, <3>1, <3>2 DEF NoVerdict, NoClass, Verdict
    <2> QED BY <2>1, <2>2
  <1> QED BY <1>3, <1>4

\* Hardware that sends evenly and not from Windows is taken for software on no ground.
LEMMA HardwareIsNoSoftware ==
    ASSUME NEW control \in {NoClass, "Hardware"}, NEW timing \in {"unknown", "even"},
           NEW ttl, ttl # 128, NEW unmarked \in BOOLEAN, NEW sig,
           sig = [control |-> control, timing |-> timing, ttl |-> ttl, unmarked |-> unmarked]
    PROVE  ~IsSoftware(sig)
  <1> DEFINE bare == [sig EXCEPT !.unmarked = FALSE]
  <1>1. /\ bare.control = control /\ bare.timing = timing /\ bare.ttl = ttl
        /\ bare.unmarked = FALSE
    OBVIOUS
  <1> HIDE DEF bare
  <1>2. Classify(bare) \in {NoVerdict, Verdict("Hardware", "Inferred"),
                            Verdict("Hardware", "Confirmed")}
    BY <1>1 DEF Classify, NoClass
  <1>3. Classify(bare).class \in {NoClass, "Hardware"}
    BY <1>2 DEF NoVerdict, Verdict
  <1>4. IsSoftware(sig) <=> Classify(bare).class \in {"Dvs", "Via"}
    BY DEF IsSoftware, bare
  <1> QED BY <1>3, <1>4 DEF NoClass

Even(samples) == \A i \in DOMAIN samples : samples[i] = TRUE

\* No odd sample, no noise.
LEMMA EvenIsNotNoisy ==
    ASSUME NEW samples \in Seq(BOOLEAN), Even(samples)
    PROVE  Metronomic(samples) \in {"unknown", "even"}
  <1>1. {i \in DOMAIN samples : ~samples[i]} = {}
    BY DEF Even
  <1>2. Cardinality({i \in DOMAIN samples : ~samples[i]}) = 0
    BY <1>1, FS_EmptySet
  <1>3. Len(samples) \in Nat /\ ~(10 * 0 > 3 * Len(samples))
    OBVIOUS
  <1> QED BY <1>2, <1>3 DEF Metronomic

\* A sample is added and the first one dropped.
LEMMA SampledEven ==
    ASSUME NEW st, st.even \in Seq(BOOLEAN), NEW even \in BOOLEAN
    PROVE  /\ Sampled(st, even) \in Seq(BOOLEAN)
           /\ Even(st.even) /\ even => Even(Sampled(st, even))
  <1> DEFINE longer == Append(st.even, even)
  <1>1. longer \in Seq(BOOLEAN) /\ Len(longer) = Len(st.even) + 1
           /\ \A i \in 1..Len(longer) : longer[i] = IF i <= Len(st.even) THEN st.even[i] ELSE even
    OBVIOUS
  <1>2. Even(st.even) /\ even => Even(longer)
    BY <1>1 DEF Even
  <1>3. Sampled(st, even) \in {st.even, longer, Tail(longer)}
    BY DEF Sampled
  <1> HIDE DEF longer
  <1>4. longer # <<>>
    BY <1>1
  <1>5. Tail(longer) \in Seq(BOOLEAN) /\ Len(Tail(longer)) = Len(longer) - 1
           /\ \A i \in 1..Len(Tail(longer)) : Tail(longer)[i] = longer[i + 1]
    BY <1>1, <1>4, HeadTailProperties
  <1>6. Even(longer) => Even(Tail(longer))
    BY <1>1, <1>5 DEF Even
  <1> QED BY <1>1, <1>2, <1>3, <1>5, <1>6

LEMMA MetronomicRange ==
    ASSUME NEW samples PROVE Metronomic(samples) \in {"unknown", "even", "noisy"}
  BY DEF Metronomic

-----------------------------------------------------------------------------
(* The invariant of MediaHealth. *)

Hardware(s) == nature[SourceOf[s]].class = "Hardware"

StreamTyped(st) ==
    /\ DOMAIN st = DOMAIN NoStream
    /\ st.packets \in Nat \cup {-1}
    /\ st.even \in Seq(BOOLEAN)
    /\ st.ttl \in Int
    /\ st.mismarked \in BOOLEAN
    /\ st.counts \in [Counters -> Nat]

HealthTyped ==
    /\ nature \in Natures
    /\ DOMAIN class = DOMAIN nature
    /\ DOMAIN streams = Streams
    /\ \A s \in Streams : StreamTyped(streams[s])
    /\ ecn \in Nat
    /\ wrong \subseteq Streams

\* Nothing but its class is revealed of a source.
ClassIsNature == \A i \in DOMAIN nature : class[i] \in {NoClass, nature[i].class}

\* The packets of Dante hardware come evenly, from a host that is not Windows.
Steady ==
    \A s \in Streams : ProtocolOf[s] = "Dante" /\ Hardware(s) =>
        Even(streams[s].even) /\ streams[s].ttl # 128

\* A wrong mark of hardware has been counted in the Window it was sent in.
WrongIsMarked == \A s \in wrong : Known(s) /\ (Hardware(s) => streams[s].mismarked)

HealthInv ==
    /\ HealthTyped
    /\ ClassIsNature
    /\ Steady
    /\ WrongIsMarked
    /\ GateAgreesWithVerdict

\* A stream that nothing was heard of is typed and steady.
LEMMA NothingHeard ==
    /\ StreamTyped(NoStream) /\ NoStream.packets = -1
    /\ Even(NoStream.even) /\ NoStream.ttl # 128 /\ NoStream.mismarked = FALSE
  <1>1. DOMAIN <<>> = {} /\ <<>> \in Seq(BOOLEAN)
    OBVIOUS
  <1>2. Even(<<>>)
    BY <1>1 DEF Even
  <1> QED BY <1>1, <1>2 DEF StreamTyped, NoStream, Unset

\* So is one whose next packet is the first.
LEMMA HeardIsTyped ==
    ASSUME NEW s \in Streams, StreamTyped(streams[s])
    PROVE  /\ StreamTyped(Heard(s)) /\ Heard(s).packets \in Nat
           /\ Even(streams[s].even) => Even(Heard(s).even)
           /\ streams[s].ttl # 128 => Heard(s).ttl # 128
           /\ Known(s) => Heard(s) = streams[s]
  <1>1. CASE Known(s)
    BY <1>1 DEF Heard, Known, StreamTyped
  <1>2. CASE ~Known(s)
    <2> DEFINE zero == [NoStream EXCEPT !.packets = 0]
    <2>1. Heard(s) = zero
      BY <1>2 DEF Heard
    <2>2. /\ DOMAIN zero = DOMAIN NoStream /\ zero.packets = 0 /\ zero.even = NoStream.even
          /\ zero.ttl = NoStream.ttl /\ zero.mismarked = NoStream.mismarked
          /\ zero.counts = NoStream.counts
      BY DEF NoStream
    <2> HIDE DEF zero
    <2> QED BY <1>2, <2>1, <2>2, NothingHeard DEF StreamTyped
  <1> QED BY <1>1, <1>2

LEMMA HealthInitInv == HealthInit => HealthInv
  <1> SUFFICES ASSUME HealthInit PROVE HealthInv
    OBVIOUS
  <1>1. HealthTyped
    BY NothingHeard DEF HealthInit, HealthTyped
  <1>2. ClassIsNature
    BY DEF HealthInit, ClassIsNature
  <1>3. Steady
    BY NothingHeard DEF HealthInit, Steady
  <1>4. WrongIsMarked
    BY DEF HealthInit, WrongIsMarked
  <1>5. GateAgreesWithVerdict
    BY DEF HealthInit, GateAgreesWithVerdict, NoPacket
  <1> QED BY <1>1, <1>2, <1>3, <1>4, <1>5 DEF HealthInv

\* A packet of a Dante flow.
LEMMA DantePacketKeeps ==
    ASSUME HealthInv, NEW s \in Streams, NEW p \in Packets, MaySend(s, p), Packet(s, p),
           ProtocolOf[s] = "Dante"
    PROVE  HealthInv'
  <1> DEFINE st    == Heard(s)
             seen  == [st EXCEPT !.packets = @ + 1, !.even = Sampled(st, p.even),
                              !.ttl  = IF @ = Unset \/ p.ttl < @ THEN p.ttl ELSE @,
                              !.dscp = IF @ = Unset THEN p.dscp ELSE @]
             sig   == [control |-> class[SourceOf[s]], timing |-> Metronomic(seen.even),
                       ttl |-> seen.ttl, unmarked |-> seen.dscp = 0]
             count == p.dscp # EF /\ ~(p.dscp = 0 /\ IsSoftware(sig))
             new   == [seen EXCEPT !.verdict = Classify(sig), !.mismarked = @ \/ count]
  <1>1. /\ streams' = [streams EXCEPT ![s] = new]
        /\ last' = [of |-> {s}, dscp |-> p.dscp, counted |-> count]
    BY DEF Packet, DantePacket
  <1>2. /\ nature' = nature /\ class' = class
        /\ ecn' = IF p.ecn = 3 /\ ecn < MaxCount THEN ecn + 1 ELSE ecn
        /\ wrong' = IF DscpOk(s, p.dscp) THEN wrong ELSE wrong \cup {s}
    BY DEF Packet
  <1>3. /\ p.even \in BOOLEAN /\ p.ttl \in {63, 64, 127, 128}
        /\ p.ttl \in {nature[SourceOf[s]].ttl, nature[SourceOf[s]].ttl - 1}
        /\ Hardware(s) => p.even
    BY DEF Packets, MaySend, Hardware
  <1>4. /\ StreamTyped(streams[s]) /\ StreamTyped(st) /\ st.packets \in Nat
        /\ Even(streams[s].even) => Even(st.even)
        /\ streams[s].ttl # 128 => st.ttl # 128
    BY HeardIsTyped DEF HealthInv, HealthTyped
  <1>5. DOMAIN st = {"packets", "even", "ttl", "dscp", "verdict", "mismarked", "pcp", "counts"}
    BY <1>4 DEF StreamTyped, NoStream
  <1> HIDE DEF st
  <1>6. /\ DOMAIN seen = DOMAIN st
        /\ seen.packets = st.packets + 1 /\ seen.even = Sampled(st, p.even)
        /\ seen.ttl = IF st.ttl = Unset \/ p.ttl < st.ttl THEN p.ttl ELSE st.ttl
        /\ seen.mismarked = st.mismarked /\ seen.counts = st.counts
    BY <1>5
  <1>7. /\ Sampled(st, p.even) \in Seq(BOOLEAN)
        /\ Even(st.even) /\ p.even => Even(Sampled(st, p.even))
    BY <1>3, <1>4, SampledEven DEF StreamTyped
  <1>8. sig.timing = Metronomic(seen.even) /\ count \in BOOLEAN
    BY DEF IsSoftware
  <1> HIDE DEF seen
  <1>9. /\ DOMAIN new = DOMAIN st
        /\ new.packets = seen.packets /\ new.even = seen.even /\ new.ttl = seen.ttl
        /\ new.verdict = Classify(sig) /\ new.mismarked = (seen.mismarked \/ count)
        /\ new.counts = seen.counts
    BY <1>5, <1>6
  <1>10. count = (p.dscp # EF /\ ~(p.dscp = 0 /\ IsSoftware(sig)))
    OBVIOUS
  <1> DEFINE timing   == Metronomic(seen.even)
             unmarked == seen.dscp = 0
             control  == class[SourceOf[s]]
  <1>11. sig = [control |-> control, timing |-> timing, ttl |-> seen.ttl, unmarked |-> unmarked]
    OBVIOUS
  <1>12. timing \in {"unknown", "even", "noisy"} /\ unmarked \in BOOLEAN
    BY MetronomicRange
  <1>13. IsSoftware(sig) <=> /\ Classify(sig).class \in {"Dvs", "Via"}
                            /\ Classify(sig).confidence # "Hint"
    <2> HIDE DEF sig, timing, unmarked, control
    <2> QED BY <1>11, <1>12, SoftwareGround
  <1>14. ASSUME Hardware(s)
         PROVE  Even(seen.even) /\ seen.ttl # 128 /\ ~IsSoftware(sig)
    <2>1. Even(streams[s].even) /\ streams[s].ttl # 128
      BY <1>14 DEF HealthInv, Steady
    <2>2. Even(seen.even)
      BY <1>3, <1>4, <1>6, <1>7, <1>14, <2>1
    <2>3. nature \in Natures /\ SourceOf[s] \in DOMAIN nature
      BY StreamAssumption DEF HealthInv, HealthTyped
    <2>4. nature[SourceOf[s]].ttl \in Nat /\ nature[SourceOf[s]].ttl \notin {128, 129}
      BY <1>14, <2>3, NatureAssumption DEF Hardware
    <2>5. p.ttl # 128
      BY <1>3, <2>4
    <2>6. seen.ttl # 128
      BY <1>4, <1>6, <2>1, <2>5
    <2>7. class[SourceOf[s]] \in {NoClass, "Hardware"}
      BY <1>14, <2>3 DEF HealthInv, ClassIsNature, Hardware
    <2>8. Metronomic(seen.even) \in {"unknown", "even"}
      BY <1>6, <1>7, <2>2, EvenIsNotNoisy
    <2>9. ~IsSoftware(sig)
      <3> HIDE DEF sig, timing, unmarked, control
      <3>1. control \in {NoClass, "Hardware"} /\ timing \in {"unknown", "even"}
        BY <2>7, <2>8 DEF control, timing
      <3> QED BY <1>11, <1>12, <2>6, <3>1, HardwareIsNoSoftware
    <2> QED BY <2>2, <2>6, <2>9
  <1> HIDE DEF new, sig, count, timing, unmarked, control
  <1>15. streams'[s] = new /\ DOMAIN streams' = Streams
         /\ \A t \in Streams \ {s} : streams'[t] = streams[t]
    BY <1>1 DEF HealthInv, HealthTyped
  <1>16. HealthTyped'
    <2>1. StreamTyped(new)
      <3>1. DOMAIN new = DOMAIN NoStream /\ st.counts \in [Counters -> Nat]
            /\ st.ttl \in Int /\ st.mismarked \in BOOLEAN
        BY <1>4, <1>9 DEF StreamTyped
      <3>2. new.packets \in Nat /\ new.even \in Seq(BOOLEAN)
        BY <1>4, <1>6, <1>7, <1>9
      <3>3. new.ttl \in Int
        BY <1>3, <1>6, <1>9, <3>1
      <3>4. new.mismarked \in BOOLEAN /\ new.counts \in [Counters -> Nat]
        BY <1>6, <1>8, <1>9, <3>1
      <3> QED BY <3>1, <3>2, <3>3, <3>4 DEF StreamTyped
    <2>2. \A t \in Streams : StreamTyped(streams'[t])
      BY <1>15, <2>1 DEF HealthInv, HealthTyped
    <2> QED BY <1>2, <1>15, <2>2 DEF HealthInv, HealthTyped, StreamTyped
  <1>17. ClassIsNature'
    BY <1>2 DEF HealthInv, ClassIsNature
  <1>18. Steady'
    BY <1>2, <1>9, <1>14, <1>15 DEF HealthInv, Steady, Hardware
  <1>19. WrongIsMarked'
    <2>1. DscpOk(s, p.dscp) <=> p.dscp = EF
      BY DEF DscpOk
    <2>2. Hardware(s) /\ ~DscpOk(s, p.dscp) => new.mismarked
      BY <1>8, <1>9, <1>10, <1>14, <2>1
    <2>3. Hardware(s) /\ s \in wrong => new.mismarked
      <3>1. Hardware(s) /\ s \in wrong => streams[s].mismarked /\ Known(s)
        BY DEF HealthInv, WrongIsMarked
      <3>2. Known(s) => st = streams[s]
        BY HeardIsTyped DEF HealthInv, HealthTyped, st
      <3> QED BY <1>6, <1>9, <3>1, <3>2
    <2>4. new.packets >= 0
      BY <1>4, <1>6, <1>9
    <2>5. ASSUME NEW t \in wrong' PROVE Known(t)' /\ (Hardware(t)' => streams'[t].mismarked)
      <3>1. t \in Streams
        BY <1>2, <2>5 DEF HealthInv, HealthTyped
      <3>2. CASE t = s
        BY <1>2, <1>15, <2>2, <2>3, <2>4, <2>5, <3>2 DEF Known, Hardware
      <3>3. CASE t # s
        <4>1. t \in wrong /\ streams'[t] = streams[t]
          BY <1>2, <1>15, <2>5, <3>1, <3>3
        <4> QED BY <1>2, <4>1 DEF HealthInv, WrongIsMarked, Known, Hardware
      <3> QED BY <3>2, <3>3
    <2> QED BY <2>5 DEF WrongIsMarked
  <1>20. GateAgreesWithVerdict'
    BY <1>1, <1>8, <1>9, <1>10, <1>13, <1>15 DEF GateAgreesWithVerdict
  <1> QED BY <1>16, <1>17, <1>18, <1>19, <1>20 DEF HealthInv

\* A packet of another stream.
LEMMA MediaPacketKeeps ==
    ASSUME HealthInv, NEW s \in Streams, NEW p \in Packets, Packet(s, p), ProtocolOf[s] # "Dante"
    PROVE  HealthInv'
  <1> DEFINE st  == Heard(s)
             new == [st EXCEPT !.packets = @ + 1, !.mismarked = @ \/ ~DscpOk(s, p.dscp),
                               !.pcp = @ \/ p.pcp \notin {Unset, 6}]
  <1>1. streams' = [streams EXCEPT ![s] = new] /\ last' = NoPacket
    BY DEF Packet, MediaPacket
  <1>2. /\ nature' = nature /\ class' = class
        /\ ecn' = IF p.ecn = 3 /\ ecn < MaxCount THEN ecn + 1 ELSE ecn
        /\ wrong' = IF DscpOk(s, p.dscp) THEN wrong ELSE wrong \cup {s}
    BY DEF Packet
  <1>3. /\ StreamTyped(st) /\ st.packets \in Nat /\ (Known(s) => st = streams[s])
    BY HeardIsTyped DEF HealthInv, HealthTyped
  <1>4. DOMAIN st = {"packets", "even", "ttl", "dscp", "verdict", "mismarked", "pcp", "counts"}
    BY <1>3 DEF StreamTyped, NoStream
  <1> HIDE DEF st
  <1>5. /\ DOMAIN new = DOMAIN st
        /\ new.packets = st.packets + 1 /\ new.even = st.even /\ new.ttl = st.ttl
        /\ new.mismarked = (st.mismarked \/ ~DscpOk(s, p.dscp)) /\ new.counts = st.counts
    BY <1>4
  <1>6. DscpOk(s, p.dscp) \in BOOLEAN
    BY DEF DscpOk
  <1> HIDE DEF new
  <1>7. streams'[s] = new /\ DOMAIN streams' = Streams
         /\ \A t \in Streams \ {s} : streams'[t] = streams[t]
    BY <1>1 DEF HealthInv, HealthTyped
  <1>8. HealthTyped'
    <2>1. StreamTyped(new)
      BY <1>3, <1>5, <1>6 DEF StreamTyped
    <2>2. \A t \in Streams : StreamTyped(streams'[t])
      BY <1>7, <2>1 DEF HealthInv, HealthTyped
    <2> QED BY <1>2, <1>7, <2>2 DEF HealthInv, HealthTyped, StreamTyped
  <1>9. ClassIsNature'
    BY <1>2 DEF HealthInv, ClassIsNature
  <1>10. Steady'
    BY <1>2, <1>7 DEF HealthInv, Steady, Hardware
  <1>11. WrongIsMarked'
    <2>1. ASSUME NEW t \in wrong' PROVE Known(t)' /\ (Hardware(t)' => streams'[t].mismarked)
      <3>1. t \in Streams
        BY <1>2, <2>1 DEF HealthInv, HealthTyped
      <3>2. CASE t = s
        <4>1. Known(t)'
          BY <1>3, <1>5, <1>7, <3>2 DEF Known
        <4>2. CASE ~DscpOk(s, p.dscp)
          BY <1>5, <1>7, <3>2, <4>1, <4>2
        <4>3. CASE DscpOk(s, p.dscp)
          <5>1. s \in wrong
            BY <1>2, <2>1, <3>2, <4>3
          <5> QED BY <1>2, <1>3, <1>5, <1>7, <3>2, <4>1, <5>1
                  DEF HealthInv, WrongIsMarked, Hardware
        <4> QED BY <4>2, <4>3
      <3>3. CASE t # s
        <4>1. t \in wrong /\ streams'[t] = streams[t]
          BY <1>2, <1>7, <2>1, <3>1, <3>3
        <4> QED BY <1>2, <4>1 DEF HealthInv, WrongIsMarked, Known, Hardware
      <3> QED BY <3>2, <3>3
    <2> QED BY <2>1 DEF WrongIsMarked
  <1>12. GateAgreesWithVerdict'
    BY <1>1 DEF GateAgreesWithVerdict, NoPacket
  <1> QED BY <1>8, <1>9, <1>10, <1>11, <1>12 DEF HealthInv

\* A counter of a stream goes up.
LEMMA RaiseKeeps ==
    ASSUME HealthInv, NEW s \in Streams, NEW c \in Counters, Raise(s, c) PROVE HealthInv'
  <1> DEFINE st  == streams[s]
             new == [st EXCEPT !.counts[c] = @ + 1]
  <1>1. /\ streams' = [streams EXCEPT ![s] = new] /\ last' = NoPacket
        /\ nature' = nature /\ class' = class /\ ecn' = ecn /\ wrong' = wrong
    BY DEF Raise
  <1>2. StreamTyped(st)
    BY DEF HealthInv, HealthTyped
  <1>3. DOMAIN st = {"packets", "even", "ttl", "dscp", "verdict", "mismarked", "pcp", "counts"}
    BY <1>2 DEF StreamTyped, NoStream
  <1> HIDE DEF st
  <1>4. /\ DOMAIN new = DOMAIN st
        /\ new.packets = st.packets /\ new.even = st.even /\ new.ttl = st.ttl
        /\ new.mismarked = st.mismarked /\ new.counts = [st.counts EXCEPT ![c] = @ + 1]
    BY <1>3
  <1>5. new.counts \in [Counters -> Nat]
    BY <1>2, <1>4 DEF StreamTyped
  <1>6. StreamTyped(new)
    BY <1>2, <1>4, <1>5 DEF StreamTyped
  <1> HIDE DEF new
  <1>7. streams'[s] = new /\ DOMAIN streams' = Streams
         /\ \A t \in Streams \ {s} : streams'[t] = streams[t]
    BY <1>1 DEF HealthInv, HealthTyped
  <1>8. HealthTyped'
    <2>1. \A t \in Streams : StreamTyped(streams'[t])
      BY <1>6, <1>7 DEF HealthInv, HealthTyped
    <2> QED BY <1>1, <1>7, <2>1 DEF HealthInv, HealthTyped, StreamTyped
  <1>9. ClassIsNature'
    BY <1>1 DEF HealthInv, ClassIsNature
  <1>10. Steady'
    BY <1>1, <1>4, <1>7 DEF HealthInv, Steady, Hardware, st
  <1>11. WrongIsMarked'
    BY <1>1, <1>4, <1>7 DEF HealthInv, HealthTyped, WrongIsMarked, Known, Hardware, st
  <1>12. GateAgreesWithVerdict'
    BY <1>1 DEF GateAgreesWithVerdict, NoPacket
  <1> QED BY <1>8, <1>9, <1>10, <1>11, <1>12 DEF HealthInv

\* The class of a source is learned or forgotten.
LEMMA ClassKeeps ==
    ASSUME HealthInv, NEW i \in DOMAIN nature, ControlPlane(i, nature[i].class) \/ Evict(i)
    PROVE  HealthInv'
  <1>1. /\ nature' = nature /\ streams' = streams /\ ecn' = ecn /\ wrong' = wrong
        /\ last' = NoPacket
    BY DEF ControlPlane, Evict
  <1>2. PICK c : c \in {class[i], nature[i].class, NoClass} /\ class' = [class EXCEPT ![i] = c]
    BY DEF ControlPlane, Evict
  <1>3. HealthTyped'
    BY <1>1, <1>2 DEF HealthInv, HealthTyped, StreamTyped
  <1>4. ClassIsNature'
    BY <1>1, <1>2 DEF HealthInv, HealthTyped, ClassIsNature
  <1>5. Steady'
    BY <1>1 DEF HealthInv, Steady, Hardware
  <1>6. WrongIsMarked'
    BY <1>1 DEF HealthInv, WrongIsMarked, Known, Hardware
  <1>7. GateAgreesWithVerdict'
    BY <1>1 DEF GateAgreesWithVerdict, NoPacket
  <1> QED BY <1>3, <1>4, <1>5, <1>6, <1>7 DEF HealthInv

\* The counters are reset, the profile of the transmitter is not.
LEMMA HealthWindowKeeps == ASSUME HealthInv, HealthWindow PROVE HealthInv'
  <1> DEFINE Reset(st) == [st EXCEPT !.packets = 0, !.mismarked = FALSE, !.pcp = FALSE,
                               !.counts = [c \in Counters |-> IF c = "jitter" THEN @[c] ELSE 0]]
  <1>1. PICK pruned : streams' = [s \in Streams |-> IF s \in pruned \/ ~Known(s) THEN NoStream
                                                  ELSE Reset(streams[s])]
    BY DEF HealthWindow
  <1>2. nature' = nature /\ class' = class /\ ecn' = 0 /\ last' = NoPacket /\ wrong' = {}
    BY DEF HealthWindow
  <1>3. ASSUME NEW st, StreamTyped(st)
        PROVE  StreamTyped(Reset(st)) /\ Reset(st).even = st.even /\ Reset(st).ttl = st.ttl
    <2> DEFINE new    == Reset(st)
               resets == [c \in Counters |-> IF c = "jitter" THEN st.counts[c] ELSE 0]
    <2>1. DOMAIN st = {"packets", "even", "ttl", "dscp", "verdict", "mismarked", "pcp", "counts"}
      BY <1>3 DEF StreamTyped, NoStream
    <2>2. resets \in [Counters -> Nat]
      BY <1>3 DEF StreamTyped
    <2>3. /\ DOMAIN new = DOMAIN st
          /\ new.packets = 0 /\ new.even = st.even /\ new.ttl = st.ttl
          /\ new.mismarked \in BOOLEAN /\ new.counts = resets
      BY <2>1
    <2> HIDE DEF new, resets
    <2>4. StreamTyped(new)
      BY <1>3, <2>2, <2>3 DEF StreamTyped
    <2> QED BY <2>3, <2>4 DEF new
  <1> HIDE DEF Reset
  <1>4. ASSUME NEW s \in Streams
        PROVE  /\ StreamTyped(streams'[s])
               /\ Even(streams[s].even) => Even(streams'[s].even)
               /\ streams[s].ttl # 128 => streams'[s].ttl # 128
    <2>1. StreamTyped(streams[s])
      BY DEF HealthInv, HealthTyped
    <2>2. streams'[s] \in {NoStream, Reset(streams[s])}
      BY <1>1
    <2> QED BY <1>3, <2>1, <2>2, NothingHeard
  <1>5. HealthTyped'
    <2>1. DOMAIN streams' = Streams
      BY <1>1
    <2> QED BY <1>2, <1>4, <2>1 DEF HealthInv, HealthTyped, StreamTyped
  <1>6. ClassIsNature'
    BY <1>2 DEF HealthInv, ClassIsNature
  <1>7. Steady'
    BY <1>2, <1>4 DEF HealthInv, Steady, Hardware
  <1>8. WrongIsMarked'
    BY <1>2 DEF WrongIsMarked
  <1>9. GateAgreesWithVerdict'
    BY <1>2 DEF GateAgreesWithVerdict, NoPacket
  <1> QED BY <1>5, <1>6, <1>7, <1>8, <1>9 DEF HealthInv

LEMMA HealthNextKeeps == ASSUME HealthInv, [HealthNext]_healthVars PROVE HealthInv'
  <1>1. CASE UNCHANGED healthVars
    BY <1>1 DEF healthVars, HealthInv, HealthTyped, StreamTyped, ClassIsNature, Steady,
                WrongIsMarked, GateAgreesWithVerdict, Known, Hardware
  <1>2. CASE \E s \in Streams, p \in Packets : MaySend(s, p) /\ Packet(s, p)
    BY <1>2, DantePacketKeeps, MediaPacketKeeps
  <1>3. CASE \E s \in Streams, c \in Counters : Raise(s, c)
    BY <1>3, RaiseKeeps
  <1>4. CASE \E i \in DOMAIN nature : ControlPlane(i, nature[i].class) \/ Evict(i)
    BY <1>4, ClassKeeps
  <1>5. CASE HealthWindow
    BY <1>5, HealthWindowKeeps
  <1> QED BY <1>1, <1>2, <1>3, <1>4, <1>5 DEF HealthNext

LEMMA HealthInvariance == HealthSpec => []HealthInv
  <1> QED BY HealthInitInv, HealthNextKeeps, PTL DEF HealthSpec

\* The verdict that is shown and the check of the DSCP never disagree: a packet without the
\* mark is excused exactly if it has the mark of software and the flow is judged to be
\* software's on a better ground than the missing mark.
THEOREM GateAgrees == HealthSpec => []GateAgreesWithVerdict
  <1>1. HealthInv => GateAgreesWithVerdict
    BY DEF HealthInv
  <1> QED BY <1>1, HealthInvariance, PTL

-----------------------------------------------------------------------------
(* What a Window deducts. *)

LEMMA LesserOfTwo ==
    ASSUME NEW a \in Int, NEW b \in Int
    PROVE  AtMost(a, b) \in {a, b} /\ AtMost(a, b) <= a /\ AtMost(a, b) <= b
                                 /\ (AtMost(a, b) = a \/ AtMost(a, b) = b)
  <1>1. \E x \in {a, b} : \A y \in {a, b} : x <= y
    OBVIOUS
  <1> QED BY <1>1 DEF AtMost, Min

LEMMA GreaterOfTwo ==
    ASSUME NEW a \in Int, NEW b \in Int
    PROVE  Max({a, b}) \in {a, b} /\ Max({a, b}) >= a /\ Max({a, b}) >= b
  <1>1. \E x \in {a, b} : \A y \in {a, b} : x >= y
    OBVIOUS
  <1> QED BY <1>1 DEF Max

LEMMA Quotient == ASSUME NEW a \in Nat, NEW b \in Nat \ {0} PROVE a \div b \in Nat
  OBVIOUS

\* What a counter deducts is a natural number, whatever has been counted.
LEMMA DeductionIsNat ==
    ASSUME NEW c \in {"lost", "jitter", "timestamps", "ssrc", "gaps"}, NEW n \in Nat,
           NEW packets \in Nat
    PROVE  Deduction(c, n, packets) \in Nat
  <1>1. CASE n = 0
    BY <1>1 DEF Deduction
  <1>2. CASE n > 0 /\ c = "lost"
    <2> DEFINE share == (10000 * n) \div (packets + n)
    <2>1. share \in Nat
      <3>1. 10000 * n \in Nat /\ packets + n \in Nat \ {0}
        BY <1>2
      <3> QED BY <3>1, Quotient
    <2> HIDE DEF share
    <2>2. AtMost(share, 1000) \in Nat
      BY <2>1, LesserOfTwo
    <2>3. Deduction(c, n, packets) = AtMost(share, 1000)
      BY <1>2 DEF Deduction, share
    <2> QED BY <2>2, <2>3
  <1>3. CASE n > 0 /\ c = "jitter"
    <2>1. Deduction(c, n, packets) = IF n > 2 THEN 500 ELSE IF n > 1 THEN 200 ELSE 0
      BY <1>3 DEF Deduction
    <2> QED BY <2>1
  <1>4. CASE n > 0 /\ c = "timestamps"
    <2>1. Deduction(c, n, packets) = 300 * AtMost(n, 5)
      BY <1>4 DEF Deduction
    <2>2. AtMost(n, 5) \in Nat
      BY LesserOfTwo
    <2> QED BY <2>1, <2>2
  <1>5. CASE n > 0 /\ c = "ssrc"
    <2>1. Deduction(c, n, packets) = 1000 * AtMost(n, 3)
      BY <1>5 DEF Deduction
    <2>2. AtMost(n, 3) \in Nat
      BY LesserOfTwo
    <2> QED BY <2>1, <2>2
  <1>6. CASE n > 0 /\ c = "gaps"
    <2>1. Deduction(c, n, packets) = IF n >= 2 THEN 1000 ELSE 0
      BY <1>6 DEF Deduction
    <2> QED BY <2>1
  <1> QED BY <1>1, <1>2, <1>3, <1>4, <1>5, <1>6

\* The counters of the streams that were heard deduct a number.
LEMMA CountersDeduct ==
    ASSUME HealthInv, NEW silent PROVE Penalties(silent).counters \in Nat
  <1> DEFINE S == {s \in Streams : Known(s)} \X Counters
             f == [x \in S |-> Deduction(x[2], streams[x[1]].counts[x[2]], streams[x[1]].packets)]
  <1>1. IsFiniteSet(S)
    <2>1. IsFiniteSet({s \in Streams : Known(s)})
      BY StreamAssumption, FS_Subset
    <2>2. IsFiniteSet({"lost", "jitter", "timestamps", "ssrc", "gaps"})
      <3>1. {"lost", "jitter", "timestamps", "ssrc", "gaps"}
               = {"lost"} \cup ({"jitter"} \cup ({"timestamps"} \cup ({"ssrc"} \cup {"gaps"})))
        OBVIOUS
      <3>2. IsFiniteSet({"lost"} \cup ({"jitter"} \cup ({"timestamps"} \cup ({"ssrc"} \cup {"gaps"}))))
        BY FS_Singleton, FS_Union
      <3> QED BY <3>1, <3>2
    <2>3. IsFiniteSet(Counters)
      BY <2>2, StreamAssumption, FS_Subset
    <2> QED BY <2>1, <2>3, FS_Product
  <1>2. ASSUME NEW x \in S PROVE f[x] \in Nat
    <2>1. PICK s \in Streams, c \in Counters : Known(s) /\ x = <<s, c>>
      OBVIOUS
    <2>2. streams[s].counts[c] \in Nat /\ streams[s].packets \in Nat
      BY <2>1 DEF HealthInv, HealthTyped, StreamTyped, Known
    <2>3. c \in {"lost", "jitter", "timestamps", "ssrc", "gaps"}
      BY StreamAssumption
    <2>4. f[x] = Deduction(c, streams[s].counts[c], streams[s].packets)
      BY <2>1
    <2> QED BY <2>2, <2>3, <2>4, DeductionIsNat
  <1>3. f \in [S -> Nat]
    BY <1>2
  <1>4. Penalties(silent).counters = SumFunction(f)
    BY DEF Penalties
  <1> HIDE DEF f, S
  <1> QED BY <1>1, <1>3, <1>4, SumIsNat

\* One mismarked stream costs 5 points, whatever else is deducted.
LEMMA MismarkCosts ==
    ASSUME HealthInv, NEW silent \in SUBSET Streams, NEW s \in Streams, streams[s].mismarked
    PROVE  Score(Penalties(silent)) <= 9500
  <1> DEFINE p      == Penalties(silent)
             marked == {t \in Streams : streams[t].mismarked}
             n      == Cardinality(marked)
             total  == p.counters + p.dead + p.dscp + p.ecn
  <1>1. p.counters \in Nat
    BY CountersDeduct
  <1>2. p.dead \in Nat
    <2>1. Cardinality(silent) \in Nat
      BY StreamAssumption, FS_Subset, FS_CardinalityType
    <2> QED BY <2>1 DEF Penalties
  <1>3. n \in Nat \ {0}
    <2>1. IsFiniteSet(marked)
      BY StreamAssumption, FS_Subset
    <2>2. marked # {}
      OBVIOUS
    <2> HIDE DEF marked
    <2> QED BY <2>1, <2>2, FS_EmptySet, FS_CardinalityType
  <1>4. p.dscp = AtMost(500 * n, 2000) /\ p.ecn = AtMost(200 * ecn, 2000)
    BY DEF Penalties
  <1>5. Score(p) = Max({0, 10000 - total})
    BY DEF Score
  <1> HIDE DEF n, p
  <1>6. p.dscp \in Nat /\ p.dscp >= 500
    <2>1. 500 * n \in Int /\ 500 * n >= 500
      BY <1>3
    <2> QED BY <1>4, <2>1, LesserOfTwo
  <1>7. p.ecn \in Nat
    <2>1. 200 * ecn \in Nat
      BY DEF HealthInv, HealthTyped
    <2> QED BY <1>4, <2>1, LesserOfTwo
  <1>8. total \in Nat /\ total >= 500
    BY <1>1, <1>2, <1>6, <1>7
  <1> HIDE DEF total
  <1>9. Max({0, 10000 - total}) \in {0, 10000 - total}
    <2> DEFINE rest == 10000 - total
    <2>1. rest \in Int
      BY <1>8
    <2> HIDE DEF rest
    <2>2. Max({0, rest}) \in {0, rest}
      BY <2>1, GreaterOfTwo
    <2> QED BY <2>2 DEF rest
  <1>10. Score(p) <= 9500
    BY <1>5, <1>8, <1>9
  <1> QED BY <1>10 DEF p

\* A Window that closes after hardware sent a wrong mark is 5 points short of the whole score.
WrongCosts == wrong' = {} /\ (\E s \in wrong : Hardware(s)) => score' <= 9500

\* A wrong mark of a device is never excused: whatever the receiver had learned of the source
\* when the packet came, the Window loses 5 points for it.
THEOREM WrongMarksCost == HealthSpec => MismarkedScored
  <1>1. HealthInv /\ [HealthNext]_healthVars => [WrongCosts]_healthVars
    <2> SUFFICES ASSUME HealthInv, HealthNext, wrong' = {}, NEW s \in wrong, Hardware(s)
                 PROVE  score' <= 9500
      BY DEF WrongCosts
    <2>1. HealthWindow
      <3>1. ASSUME NEW t \in Streams, NEW p \in Packets, Packet(t, p) PROVE FALSE
        BY <3>1 DEF Packet
      <3>2. ASSUME NEW t \in Streams, NEW c \in Counters, Raise(t, c) PROVE FALSE
        BY <3>2 DEF Raise
      <3>3. ASSUME NEW i, ControlPlane(i, nature[i].class) \/ Evict(i) PROVE FALSE
        BY <3>3 DEF ControlPlane, Evict
      <3> QED BY <3>1, <3>2, <3>3 DEF HealthNext
    <2>2. PICK silent \in SUBSET Streams : score' = Score(Penalties(silent))
      BY <2>1 DEF HealthWindow
    <2>3. s \in Streams /\ streams[s].mismarked
      BY DEF HealthInv, HealthTyped, WrongIsMarked
    <2> QED BY <2>2, <2>3, MismarkCosts
  <1>2. HealthSpec => [][WrongCosts]_healthVars
    BY <1>1, HealthInvariance, PTL DEF HealthSpec
  <1> QED BY <1>2 DEF MismarkedScored, WrongCosts, Hardware

=============================================================================
