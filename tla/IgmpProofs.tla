----------------------------- MODULE IgmpProofs -----------------------------
(***************************************************************************)
(* For any queriers, hosts, groups and times: the stores of joined groups  *)
(* agree with the sockets, the silence of a querier is noticed and is not  *)
(* a single missed query, a conflict is between two queriers of the Window *)
(* that closes, and a membership is announced once.                        *)
(***************************************************************************)
EXTENDS Igmp, FiniteSetTheorems, TLAPS

USE DEF querier, groups, network

\* While a querier is present, the last query is no older than its losses explain.
QueryInTime ==
    \A q \in present : lastQuery # NoQuery => lastQuery <= missed[q] * Period + phase[q]

\* A known interval is one the losses can produce.
IntervalInTime == interval # NoInterval => interval <= (MaxMissed + 1) * Period

\* Without a query heard nothing is known.
NothingHeard ==
    (\A q \in Queriers : heardAge[q] = NoQuery) => lastQuery = NoQuery /\ interval = NoInterval

\* The last query is that of some querier.
LastQueryHeard == lastQuery # NoQuery => \E q \in Queriers : heardAge[q] = lastQuery

OnlyHeard(q) == \A r \in Queriers : heardAge[r] # NoQuery <=> r = q

\* An interval measured between the queries of a single querier is at least its period.
OwnInterval ==
    \A q \in Queriers : OnlyHeard(q) =>
        lastQuery = heardAge[q] /\ (interval # NoInterval => interval >= Period)

\* What has been heard of a present querier is no newer than its last query.
HeardSincePhase == \A q \in present : heardAge[q] # NoQuery => heardAge[q] >= phase[q]

\* The queriers of a Window have been heard in it.
HeardThisWindow == \A q \in heardQueriers : q \in Queriers /\ heardAge[q] <= elapsed

\* The map of joins is the memory of the hosts' Joins, except for those gone stale.
JoinsRemembered ==
    \A j \in Memberships :
        IF joins[j] = JoinCap THEN joinAge[j] >= JoinTtl ELSE joinAge[j] = joins[j]

\* The inductive invariant.
IInv ==
    /\ TypeOK
    /\ SocketsCounted /\ StoresAgree
    /\ QueryInTime /\ IntervalInTime /\ NothingHeard /\ LastQueryHeard
    /\ OwnInterval /\ HeardSincePhase
    /\ HeardThisWindow
    /\ JoinsRemembered

-----------------------------------------------------------------------------
(* Ages, and the products of losses and periods. *)

\* The longest interval the losses can produce is a number, below the cap of ages.
LEMMA CapsAreNumbers ==
    /\ (MaxMissed + 1) * Period \in Nat
    /\ MaxMissed * Period \in Nat
    /\ (MaxMissed + 1) * Period = MaxMissed * Period + Period
    /\ AgeCap \in Nat /\ NoQuery = AgeCap + 1 /\ JoinCap \in Nat
    /\ AgeCap = Fallback + 2 * ((MaxMissed + 1) * Period) + Margin + 1
    /\ Period <= AgeCap /\ JoinTtl < JoinCap
<1>1. (MaxMissed + 1) * Period \in Nat /\ MaxMissed * Period \in Nat
  BY TimeAssumption, SMT
<1>2. (MaxMissed + 1) * Period = MaxMissed * Period + Period
  BY TimeAssumption, SMT
<1>3. 2 * (MaxMissed + 1) * Period = 2 * ((MaxMissed + 1) * Period)
  BY TimeAssumption, SMT
<1>4. AgeCap = Fallback + 2 * ((MaxMissed + 1) * Period) + Margin + 1
  BY <1>3 DEF AgeCap
<1>5. JoinCap \in Nat /\ JoinTtl < JoinCap
  BY TimeAssumption DEF JoinCap
<1> QED
  BY <1>1, <1>2, <1>4, <1>5, TimeAssumption, FallbackAssumption DEF NoQuery

\* What n losses add to the silence of a querier.
LEMMA LossesAdd ==
    ASSUME NEW n \in 0..MaxMissed
    PROVE  /\ n * Period \in Nat
           /\ n * Period <= MaxMissed * Period
           /\ (n + 1) * Period = n * Period + Period
           /\ n <= 1 => n * Period <= Period
<1>1. n \in Nat /\ MaxMissed - n \in Nat BY TimeAssumption
<1>2. n * Period \in Nat /\ (MaxMissed - n) * Period \in Nat BY <1>1, TimeAssumption, SMT
<1>3. (MaxMissed - n) * Period = MaxMissed * Period - n * Period BY <1>1, TimeAssumption, SMT
<1>4. (n + 1) * Period = n * Period + Period BY <1>1, TimeAssumption, SMT
<1>5. n <= 1 => n * Period <= Period
  <2>1. CASE n = 0 BY <2>1, TimeAssumption
  <2>2. CASE n = 1 BY <2>2, TimeAssumption
  <2> QED BY <1>1, <2>1, <2>2
<1> QED BY <1>1, <1>2, <1>3, <1>4, <1>5, CapsAreNumbers

\* Growing older neither makes a query heard nor forgets one.
LEMMA OlderQuery ==
    ASSUME NEW age \in 0..NoQuery
    PROVE  /\ QueryOlder(age) \in 0..NoQuery
           /\ QueryOlder(age) = NoQuery <=> age = NoQuery
           /\ age # NoQuery => QueryOlder(age) = IF age < AgeCap THEN age + 1 ELSE AgeCap
           /\ QueryOlder(age) <= age + 1
BY CapsAreNumbers DEF QueryOlder, Older

-----------------------------------------------------------------------------
(* The groups joined by one drain. *)

\* A drain opens one socket for each group it joins, and joins none again.
LEMMA OneSocketEach ==
    ASSUME NEW n \in Nat, NEW named \in [1..n -> Groups], NEW ok \in [1..n -> BOOLEAN],
           NEW g \in Groups
    PROVE  LET opened == Opened(named, ok)
               new    == {named[i] : i \in opened}
           IN  /\ new \subseteq Wanted \ mcJoined
               /\ Cardinality({i \in opened : named[i] = g}) = IF g \in new THEN 1 ELSE 0
<1> DEFINE opened == Opened(named, ok)
           new == {named[i] : i \in opened}
           mine == {i \in opened : named[i] = g}
<1>1. opened \subseteq Pending(named) /\ Pending(named) \subseteq 1..n
  BY DEF Opened, Pending
<1>2. new \subseteq Wanted \ mcJoined BY DEF Opened
<1>3. ASSUME NEW i \in mine, NEW j \in mine, i < j PROVE FALSE
  BY <1>1, <1>3 DEF Opened
<1>4. \A i, j \in mine : i = j
  <2> TAKE i \in mine, j \in mine
  <2>1. i \in Int /\ j \in Int BY <1>1
  <2>2. ~(i < j) /\ ~(j < i) BY <1>3
  <2> QED BY <2>1, <2>2
<1>5. CASE g \in new
  <2>1. PICK i \in opened : named[i] = g BY <1>5
  <2>2. mine = {i} BY <2>1, <1>4
  <2> QED BY <1>2, <1>5, <2>2, FS_Singleton
<1>6. CASE g \notin new
  <2>1. mine = {} BY <1>6
  <2> QED BY <1>2, <1>6, <2>1, FS_EmptySet
<1> QED BY <1>5, <1>6

-----------------------------------------------------------------------------
(* The inductive invariant. *)

LEMMA InitEstablishes == Init => IInv
<1> SUFFICES ASSUME Init PROVE IInv OBVIOUS
<1> USE CapsAreNumbers
<1>1. TypeOK
  <2>1. 0 \in 0..(Window + Slack) /\ 0 \in 0..MaxMissed BY TimeAssumption
  <2>2. sockets \in [Groups -> Nat] BY DEF Init
  <2>3. /\ joins \in [Memberships -> 0..JoinCap]
        /\ joinAge \in [Memberships -> 0..JoinCap]
    BY DEF Init
  <2>4. lastQuery \in 0..NoQuery /\ heardAge \in [Queriers -> 0..NoQuery] BY DEF Init
  <2>5. missed \in [Queriers -> 0..MaxMissed] BY <2>1 DEF Init
  <2> QED BY <2>1, <2>2, <2>3, <2>4, <2>5 DEF Init, TypeOK, NoReport
<1>2. SocketsCounted /\ StoresAgree BY DEF Init, SocketsCounted, StoresAgree
<1>3. QueryInTime /\ IntervalInTime /\ NothingHeard /\ LastQueryHeard
  BY DEF Init, QueryInTime, IntervalInTime, NothingHeard, LastQueryHeard
<1>4. OwnInterval /\ HeardSincePhase BY DEF Init, OwnInterval, OnlyHeard, HeardSincePhase
<1>5. HeardThisWindow BY DEF Init, HeardThisWindow
<1>6. JoinsRemembered BY TimeAssumption DEF Init, JoinsRemembered
<1> QED BY <1>1, <1>2, <1>3, <1>4, <1>5, <1>6 DEF IInv

\* What is known of the queriers, together.
QuerierInv ==
    /\ QueryInTime /\ IntervalInTime /\ NothingHeard /\ LastQueryHeard
    /\ OwnInterval /\ HeardSincePhase

\* A step that leaves the queriers and the network alone keeps what is known of them.
LEMMA QueriersUntouched ==
    ASSUME QuerierInv, UNCHANGED <<lastQuery, interval, network>>
    PROVE  QuerierInv'
BY DEF QuerierInv, QueryInTime, IntervalInTime, NothingHeard, LastQueryHeard, OwnInterval,
       OnlyHeard, HeardSincePhase

LEMMA GeneralQueryKeeps ==
    ASSUME IInv, NEW q \in Queriers, NEW v \in {2, 3}, GeneralQuery(q, v)
    PROVE  IInv'
<1> USE CapsAreNumbers, TimeAssumption DEF IInv, GeneralQuery
<1>1. Interval \in 0..AgeCap \cup {NoInterval}
  BY SetAssumption DEF TypeOK, Interval
<1>2. TypeOK'
  <2>1. lastQuery' \in 0..NoQuery BY SMT
  <2>2. phase' \in [Queriers -> 0..Period] BY DEF TypeOK
  <2>3. missed' \in [Queriers -> 0..MaxMissed] BY DEF TypeOK
  <2>4. heardAge' \in [Queriers -> 0..NoQuery] BY DEF TypeOK
  <2> QED BY <1>1, <2>1, <2>2, <2>3, <2>4 DEF TypeOK, NoReport
<1>3. SocketsCounted' /\ StoresAgree' BY DEF SocketsCounted, StoresAgree
<1>4. QueryInTime'
  <2> SUFFICES ASSUME NEW p \in present PROVE 0 <= missed'[p] * Period + phase'[p]
    BY DEF QueryInTime
  <2>1. p \in Queriers /\ missed'[p] \in 0..MaxMissed /\ phase'[p] \in 0..Period
    BY <1>2 DEF TypeOK
  <2> QED BY <2>1, LossesAdd
<1>5. IntervalInTime'
  <2>1. CASE lastQuery = NoQuery BY <2>1 DEF Interval, IntervalInTime
  <2>2. CASE lastQuery # NoQuery
    <3>1. missed[q] \in 0..MaxMissed BY DEF TypeOK
    <3>2. lastQuery <= missed[q] * Period + Period BY <2>2 DEF QueryInTime
    <3>3. missed[q] * Period \in Nat /\ missed[q] * Period <= MaxMissed * Period
      BY <3>1, LossesAdd
    <3>4. lastQuery \in Nat BY DEF TypeOK
    <3>5. lastQuery <= (MaxMissed + 1) * Period
      BY <3>2, <3>3, <3>4
    <3> QED BY <2>2, <3>5 DEF Interval, IntervalInTime
  <2> QED BY <2>1, <2>2
<1>6. heardAge'[q] = 0 /\ \A r \in Queriers \ {q} : heardAge'[r] = heardAge[r]
  BY DEF TypeOK
<1>7. NothingHeard' /\ LastQueryHeard' BY <1>6 DEF NothingHeard, LastQueryHeard
<1>8. OwnInterval'
  <2> SUFFICES ASSUME NEW p \in Queriers, OnlyHeard(p)'
               PROVE  0 = heardAge'[p] /\ (interval' # NoInterval => interval' >= Period)
    BY DEF OwnInterval
  <2>1. p = q BY <1>6 DEF OnlyHeard
  <2>2. \A r \in Queriers \ {q} : heardAge[r] = NoQuery BY <1>6, <2>1 DEF OnlyHeard
  <2>3. CASE heardAge[q] = NoQuery
    <3>1. lastQuery = NoQuery /\ interval = NoInterval BY <2>2, <2>3 DEF NothingHeard
    <3> QED BY <1>6, <2>1, <3>1 DEF Interval
  <2>4. CASE heardAge[q] # NoQuery
    <3>1. OnlyHeard(q) BY <2>2, <2>4 DEF OnlyHeard
    <3>2. lastQuery = heardAge[q] BY <3>1 DEF OwnInterval
    <3>3. heardAge[q] >= Period BY <2>4 DEF HeardSincePhase
    <3> QED BY <1>6, <2>1, <2>4, <3>2, <3>3 DEF Interval
  <2> QED BY <2>3, <2>4
<1>9. HeardSincePhase' BY <1>6 DEF HeardSincePhase, TypeOK
<1>10. HeardThisWindow' BY <1>6 DEF HeardThisWindow, TypeOK
<1>11. JoinsRemembered' BY DEF JoinsRemembered
<1> QED BY <1>2, <1>3, <1>4, <1>5, <1>7, <1>8, <1>9, <1>10, <1>11

LEMMA GroupQueryKeeps ==
    ASSUME IInv, NEW w \in Switches, GroupQuery(w)
    PROVE  IInv'
<1> USE DEF IInv, GroupQuery
<1>1. TypeOK' BY DEF TypeOK, NoReport
<1>2. SocketsCounted' /\ StoresAgree' BY DEF SocketsCounted, StoresAgree
<1>3. QuerierInv' BY QueriersUntouched DEF QuerierInv
<1>4. HeardThisWindow' BY DEF HeardThisWindow
<1>5. JoinsRemembered' BY DEF JoinsRemembered
<1> QED BY <1>1, <1>2, <1>3, <1>4, <1>5 DEF QuerierInv

LEMMA JoinKeeps ==
    ASSUME IInv, NEW j \in Memberships, Join(j)
    PROVE  IInv'
<1> USE CapsAreNumbers, TimeAssumption DEF IInv, Join
<1>1. TypeOK'
  <2>1. /\ joins' \in [Memberships -> 0..JoinCap]
        /\ joinAge' \in [Memberships -> 0..JoinCap]
    BY DEF TypeOK, SeenJoin
  <2>2. alerts' \subseteq Memberships OBVIOUS
  <2> QED BY <2>1, <2>2 DEF TypeOK, NoReport
<1>2. SocketsCounted' /\ StoresAgree' BY DEF SocketsCounted, StoresAgree
<1>3. QuerierInv' BY QueriersUntouched DEF QuerierInv
<1>4. HeardThisWindow' BY DEF HeardThisWindow
<1>5. JoinsRemembered' BY DEF JoinsRemembered, TypeOK, SeenJoin
<1> QED BY <1>1, <1>2, <1>3, <1>4, <1>5 DEF QuerierInv

LEMMA LeaveKeeps ==
    ASSUME IInv, NEW j \in Memberships, Leave(j)
    PROVE  IInv'
<1> USE CapsAreNumbers, TimeAssumption DEF IInv, Leave
<1>1. TypeOK'
  <2>1. /\ joins' \in [Memberships -> 0..JoinCap]
        /\ joinAge' \in [Memberships -> 0..JoinCap]
    BY DEF TypeOK
  <2> QED BY <2>1 DEF TypeOK, NoReport
<1>2. SocketsCounted' /\ StoresAgree' BY DEF SocketsCounted, StoresAgree
<1>3. QuerierInv' BY QueriersUntouched DEF QuerierInv
<1>4. HeardThisWindow' BY DEF HeardThisWindow
<1>5. JoinsRemembered' BY DEF JoinsRemembered, TypeOK
<1> QED BY <1>1, <1>2, <1>3, <1>4, <1>5 DEF QuerierInv

LEMMA NamedKeeps ==
    ASSUME IInv, NEW n \in Nat, NEW named \in [1..n -> Groups], NEW v3 \in BOOLEAN,
           NEW ok \in [1..n -> BOOLEAN], Named(named, v3, ok)
    PROVE  IInv'
<1> DEFINE opened == Opened(named, ok)
           new == {named[i] : i \in opened}
           extra(g) == Cardinality({i \in opened : named[i] = g})
<1> USE DEF IInv
<1>0. /\ joined' = joined \cup new /\ mcJoined' = mcJoined \cup new
      /\ sockets' = [g \in Groups |-> sockets[g] + extra(g)]
      /\ v3Seen' = (v3Seen \/ v3) /\ alerts' = {} /\ report' = NoReport
      /\ UNCHANGED <<querier, joins, elapsed, network, joinAge>>
  BY DEF Named, Drain
<1>1. \A g \in Groups : extra(g) = IF g \in new THEN 1 ELSE 0
  BY OneSocketEach
<1>2. new \subseteq Groups
  <2>1. opened \subseteq 1..n BY DEF Opened, Pending
  <2> QED BY <2>1
<1>3. new \subseteq Wanted \ mcJoined
  BY DEF Opened
<1> HIDE DEF new, extra
<1>4. SocketsCounted'
  <2> SUFFICES ASSUME NEW g \in Groups
               PROVE  sockets'[g] = (IF g \in Startup THEN 1 ELSE 0)
                                       + (IF g \in mcJoined' THEN 1 ELSE 0)
    BY DEF SocketsCounted
  <2>1. sockets'[g] = sockets[g] + (IF g \in new THEN 1 ELSE 0) BY <1>0, <1>1
  <2>2. g \in mcJoined' <=> g \in mcJoined \/ g \in new BY <1>0
  <2>3. ~(g \in mcJoined /\ g \in new) BY <1>3
  <2> QED BY <2>1, <2>2, <2>3 DEF SocketsCounted
<1>5. TypeOK'
  <2>1. sockets' \in [Groups -> Nat]
    <3>1. \A g \in Groups : extra(g) \in Nat BY <1>1
    <3>2. \A g \in Groups : sockets[g] + extra(g) \in Nat BY <3>1 DEF TypeOK
    <3> QED BY <1>0, <3>2
  <2>2. v3Seen' \in BOOLEAN BY <1>0
  <2> QED BY <1>0, <1>2, <2>1, <2>2 DEF TypeOK, NoReport
<1>6. StoresAgree' BY <1>0, <1>3 DEF StoresAgree
<1>7. QuerierInv' BY <1>0, QueriersUntouched DEF QuerierInv
<1>8. HeardThisWindow' BY <1>0 DEF HeardThisWindow
<1>9. JoinsRemembered' BY <1>0 DEF JoinsRemembered
<1> QED BY <1>4, <1>5, <1>6, <1>7, <1>8, <1>9 DEF QuerierInv

LEMMA LoseKeeps ==
    ASSUME IInv, NEW q \in Queriers, Lose(q)
    PROVE  IInv'
<1> USE CapsAreNumbers, TimeAssumption DEF IInv, Lose
<1>1. TypeOK'
  <2>1. phase' \in [Queriers -> 0..Period] BY DEF TypeOK
  <2>2. missed' \in [Queriers -> 0..MaxMissed] BY DEF TypeOK
  <2> QED BY <2>1, <2>2 DEF TypeOK, NoReport
<1>2. SocketsCounted' /\ StoresAgree' BY DEF SocketsCounted, StoresAgree
<1>3. QueryInTime'
  <2> SUFFICES ASSUME NEW p \in present, lastQuery # NoQuery
               PROVE  lastQuery <= missed'[p] * Period + phase'[p]
    BY DEF QueryInTime
  <2>1. lastQuery <= missed[p] * Period + phase[p] BY DEF QueryInTime
  <2>2. CASE p = q
    <3>1. missed'[p] = missed[p] + 1 /\ phase'[p] = 0 /\ phase[p] = Period
      BY <2>2 DEF TypeOK
    <3>2. missed[p] \in 0..MaxMissed BY <2>2 DEF TypeOK
    <3>3. (missed[p] + 1) * Period = missed[p] * Period + Period
          /\ missed[p] * Period \in Nat
      BY <3>2, LossesAdd
    <3> QED BY <2>1, <3>1, <3>3
  <2>3. CASE p # q
    <3>1. missed'[p] = missed[p] /\ phase'[p] = phase[p] BY <2>3 DEF TypeOK
    <3> QED BY <2>1, <3>1
  <2> QED BY <2>2, <2>3
<1>4. IntervalInTime' /\ NothingHeard' /\ LastQueryHeard' /\ OwnInterval'
  BY DEF IntervalInTime, NothingHeard, LastQueryHeard, OwnInterval, OnlyHeard
<1>5. HeardSincePhase' BY DEF HeardSincePhase, TypeOK
<1>6. HeardThisWindow' BY DEF HeardThisWindow
<1>7. JoinsRemembered' BY DEF JoinsRemembered
<1> QED BY <1>1, <1>2, <1>3, <1>4, <1>5, <1>6, <1>7

LEMMA StopKeeps ==
    ASSUME IInv, NEW q \in Queriers, Stop(q)
    PROVE  IInv'
<1> USE DEF IInv, Stop
<1>1. TypeOK' BY DEF TypeOK, NoReport
<1>2. SocketsCounted' /\ StoresAgree' BY DEF SocketsCounted, StoresAgree
<1>3. QueryInTime' /\ HeardSincePhase' BY DEF QueryInTime, HeardSincePhase
<1>4. IntervalInTime' /\ NothingHeard' /\ LastQueryHeard' /\ OwnInterval'
  BY DEF IntervalInTime, NothingHeard, LastQueryHeard, OwnInterval, OnlyHeard
<1>5. HeardThisWindow' BY DEF HeardThisWindow
<1>6. JoinsRemembered' BY DEF JoinsRemembered
<1> QED BY <1>1, <1>2, <1>3, <1>4, <1>5, <1>6

\* What the network and the ages are after a tick.
LEMMA TickAges ==
    ASSUME TypeOK, Tick
    PROVE  /\ lastQuery' = QueryOlder(lastQuery) /\ lastQuery \in 0..NoQuery
           /\ \A q \in Queriers : heardAge'[q] = QueryOlder(heardAge[q])
           /\ \A q \in present : phase'[q] = phase[q] + 1 /\ missed'[q] = missed[q]
BY CapsAreNumbers, TimeAssumption DEF TypeOK, Tick, Older

LEMMA TickKeeps ==
    ASSUME IInv, Tick
    PROVE  IInv'
<1> USE CapsAreNumbers, TimeAssumption DEF IInv
<1>1. TypeOK'
  <2>1. lastQuery' \in 0..NoQuery BY OlderQuery DEF TypeOK, Tick
  <2>2. heardAge' \in [Queriers -> 0..NoQuery] BY OlderQuery DEF TypeOK, Tick
  <2>3. phase' \in [Queriers -> 0..Period] BY DEF TypeOK, Tick, Older
  <2>4. joins' \in [Memberships -> 0..JoinCap] BY DEF TypeOK, Tick, Older
  <2>5. joinAge' \in [Memberships -> 0..JoinCap] BY DEF TypeOK, Tick, Older
  <2>6. elapsed' \in 0..(Window + Slack) BY DEF TypeOK, Tick
  <2> QED BY <2>1, <2>2, <2>3, <2>4, <2>5, <2>6 DEF TypeOK, Tick, NoReport
<1>2. SocketsCounted' /\ StoresAgree' BY DEF SocketsCounted, StoresAgree, Tick
<1>3. /\ lastQuery' = NoQuery <=> lastQuery = NoQuery
      /\ \A q \in Queriers : heardAge'[q] = NoQuery <=> heardAge[q] = NoQuery
  <2>1. TypeOK OBVIOUS
  <2>2. \A q \in Queriers : heardAge[q] \in 0..NoQuery BY <2>1 DEF TypeOK
  <2> HIDE DEF IInv
  <2> QED BY <2>1, <2>2, TickAges, OlderQuery
<1>4. interval' = interval /\ present' = present BY DEF Tick
<1>5. QueryInTime'
  <2> SUFFICES ASSUME NEW q \in present, lastQuery # NoQuery
               PROVE  lastQuery' <= missed'[q] * Period + phase'[q]
    BY <1>3, <1>4 DEF QueryInTime
  <2>1. lastQuery <= missed[q] * Period + phase[q] BY DEF QueryInTime
  <2>2. lastQuery' <= lastQuery + 1 /\ lastQuery \in Nat /\ lastQuery' \in Nat
    BY <1>1, TickAges, OlderQuery DEF TypeOK
  <2>3. missed[q] \in 0..MaxMissed /\ phase[q] \in Nat BY DEF TypeOK
  <2>4. missed[q] * Period \in Nat BY <2>3, LossesAdd
  <2>5. missed'[q] = missed[q] /\ phase'[q] = phase[q] + 1 BY TickAges
  <2> QED BY <2>1, <2>2, <2>3, <2>4, <2>5
<1>6. IntervalInTime' BY <1>4 DEF IntervalInTime
<1>7. NothingHeard' BY <1>3, <1>4 DEF NothingHeard
<1>8. LastQueryHeard' BY <1>3, TickAges DEF LastQueryHeard
<1>9. OwnInterval'
  <2> SUFFICES ASSUME NEW q \in Queriers, OnlyHeard(q)'
               PROVE  lastQuery' = heardAge'[q] /\ (interval' # NoInterval => interval' >= Period)
    BY DEF OwnInterval
  <2>1. OnlyHeard(q) BY <1>3 DEF OnlyHeard
  <2> QED BY <1>4, <2>1, TickAges DEF OwnInterval
<1>10. HeardSincePhase'
  <2> SUFFICES ASSUME NEW q \in present, heardAge'[q] # NoQuery
               PROVE  heardAge'[q] >= phase'[q]
    BY <1>4 DEF HeardSincePhase
  <2>1. q \in Queriers /\ heardAge[q] \in 0..NoQuery /\ phase[q] \in 0..Period
        /\ phase'[q] \in 0..Period
    BY <1>1 DEF TypeOK, Tick
  <2>2. heardAge[q] # NoQuery /\ heardAge[q] >= phase[q]
    BY <1>3, <2>1 DEF HeardSincePhase
  <2>3. heardAge'[q] = IF heardAge[q] < AgeCap THEN heardAge[q] + 1 ELSE AgeCap
    BY <2>1, <2>2, TickAges, OlderQuery
  <2> QED BY <2>1, <2>2, <2>3, TickAges
<1>11. HeardThisWindow'
  <2> SUFFICES ASSUME NEW q \in heardQueriers
               PROVE  q \in Queriers /\ heardAge'[q] <= elapsed'
    BY DEF HeardThisWindow, Tick
  <2>1. q \in Queriers /\ heardAge[q] <= elapsed BY DEF HeardThisWindow
  <2>2. heardAge'[q] <= heardAge[q] + 1 /\ heardAge[q] \in Nat /\ heardAge'[q] \in Nat
    BY <1>1, <2>1, TickAges, OlderQuery DEF TypeOK
  <2> QED BY <2>1, <2>2 DEF TypeOK, Tick
<1>12. JoinsRemembered' BY DEF JoinsRemembered, TypeOK, Tick, Older
<1> QED BY <1>1, <1>2, <1>5, <1>6, <1>7, <1>8, <1>9, <1>10, <1>11, <1>12

LEMMA CloseWindowKeeps ==
    ASSUME IInv, CloseWindow
    PROVE  IInv'
<1> USE CapsAreNumbers, TimeAssumption DEF IInv
<1>1. TypeOK'
  <2>1. joins' \in [Memberships -> 0..JoinCap] BY DEF TypeOK, CloseWindow
  <2>2. report' \in [multicast : BOOLEAN, silent : BOOLEAN, conflict : BOOLEAN,
                     mismatch : BOOLEAN]
    BY DEF CloseWindow, TypeOK, Silent, Conflict
  <2>3. elapsed' \in 0..(Window + Slack) /\ heardQueriers' = {} BY DEF CloseWindow, ResetQueriers
  <2> QED BY <2>1, <2>2, <2>3 DEF TypeOK, CloseWindow
<1>2. SocketsCounted' /\ StoresAgree' BY DEF SocketsCounted, StoresAgree, CloseWindow
<1>3. QuerierInv' BY QueriersUntouched DEF QuerierInv, CloseWindow
<1>4. HeardThisWindow' BY DEF HeardThisWindow, CloseWindow, ResetQueriers
<1>5. JoinsRemembered' BY DEF JoinsRemembered, TypeOK, CloseWindow
<1> QED BY <1>1, <1>2, <1>3, <1>4, <1>5 DEF QuerierInv

LEMMA NextKeeps == IInv /\ [Next]_vars => IInv'
<1> SUFFICES ASSUME IInv, [Next]_vars PROVE IInv' OBVIOUS
<1>1. ASSUME NEW q \in Queriers, NEW v \in {2, 3}, GeneralQuery(q, v) PROVE IInv'
  BY <1>1, GeneralQueryKeeps
<1>2. ASSUME NEW w \in Switches, GroupQuery(w) PROVE IInv' BY <1>2, GroupQueryKeeps
<1>3. ASSUME NEW q \in Queriers, Lose(q) PROVE IInv' BY <1>3, LoseKeeps
<1>4. ASSUME NEW q \in Queriers, Stop(q) PROVE IInv' BY <1>4, StopKeeps
<1>5. ASSUME NEW j \in Memberships, Join(j) PROVE IInv' BY <1>5, JoinKeeps
<1>6. ASSUME NEW j \in Memberships, Leave(j) PROVE IInv' BY <1>6, LeaveKeeps
<1>7. ASSUME NEW n \in 1..MaxReported, NEW named \in [1..n -> Groups], NEW v3 \in BOOLEAN,
             NEW ok \in [1..n -> BOOLEAN], Named(named, v3, ok)
      PROVE  IInv'
  <2>1. n \in Nat BY TimeAssumption
  <2> QED BY <1>7, <2>1, NamedKeeps
<1>8. ASSUME Tick PROVE IInv' BY <1>8, TickKeeps
<1>9. ASSUME CloseWindow PROVE IInv' BY <1>9, CloseWindowKeeps
<1>10. CASE UNCHANGED vars
  <2>1. TypeOK' BY <1>10 DEF IInv, TypeOK, vars
  <2>2. SocketsCounted' /\ StoresAgree' BY <1>10 DEF IInv, SocketsCounted, StoresAgree, vars
  <2>3. QuerierInv' BY <1>10, QueriersUntouched DEF IInv, QuerierInv, vars
  <2>4. HeardThisWindow' /\ JoinsRemembered'
    BY <1>10 DEF IInv, HeardThisWindow, JoinsRemembered, vars
  <2> QED BY <2>1, <2>2, <2>3, <2>4 DEF IInv, QuerierInv
<1> QED BY <1>1, <1>2, <1>3, <1>4, <1>5, <1>6, <1>7, <1>8, <1>9, <1>10 DEF Next

\* The inductive invariant holds of every behaviour.
THEOREM Invariance == Spec => []IInv
<1>1. Init => IInv BY InitEstablishes
<1>2. IInv /\ [Next]_vars => IInv' BY NextKeeps
<1> QED BY <1>1, <1>2, PTL DEF Spec

-----------------------------------------------------------------------------
(* The groups joined. *)

\* Whatever the monitor joins at startup, the reports and announcements open one socket
\* for each group they name, and only for groups the selection wants: the sockets are
\* those of startup and those of the stores, which agree (drain_pending_joins).
THEOREM JoinsHold == Spec => []JoinsAgree
<1>1. IInv => JoinsAgree BY DEF IInv, JoinsAgree
<1> QED BY <1>1, Invariance, PTL

-----------------------------------------------------------------------------
(* The queriers. *)

\* What a Window reports of the queriers.
LEMMA ReportIs ==
    ASSUME CloseWindow
    PROVE  \E multicast \in BOOLEAN :
               /\ report'.multicast <=> multicast
               /\ report'.silent <=> Silent(multicast)
               /\ report'.conflict <=> Conflict(multicast)
<1>1. PICK multicast \in BOOLEAN :
          report' = [multicast |-> multicast,
                     silent    |-> Silent(multicast),
                     conflict  |-> Conflict(multicast),
                     mismatch  |-> version = 2 /\ v3Seen]
  BY DEF CloseWindow
<1>2. /\ report'.multicast = multicast
      /\ report'.silent = Silent(multicast)
      /\ report'.conflict = Conflict(multicast)
  BY <1>1
<1>3. Silent(multicast) \in BOOLEAN /\ Conflict(multicast) \in BOOLEAN
  BY DEF Silent, Conflict
<1> QED BY <1>2, <1>3

\* The body of OneMissedQueryIsNotSilence.
MissedTwice ==
    CloseWindow =>
        (report'.silent => \A q \in present :
            {r \in Queriers : heardAge[r] # NoQuery} = {q} => missed[q] >= 2)

\* A single querier on the network that is called silent has stopped, or two of its
\* queries in a row were lost: a silence of at most two periods is below the threshold,
\* because an interval measured between its own queries is at least a period
\* (querier_silent_after_secs).
THEOREM SilenceIsNotOneMiss == Spec => OneMissedQueryIsNotSilence
<1>1. IInv /\ [Next]_vars => [MissedTwice]_vars
  <2> USE CapsAreNumbers, TimeAssumption DEF IInv
  <2> SUFFICES ASSUME IInv, CloseWindow, report'.silent, NEW q \in present,
                      {r \in Queriers : heardAge[r] # NoQuery} = {q}
               PROVE  missed[q] >= 2
    BY DEF MissedTwice
  <2>1. q \in Queriers /\ missed[q] \in 0..MaxMissed /\ phase[q] \in 0..Period BY DEF TypeOK
  <2>2. OnlyHeard(q) BY <2>1 DEF OnlyHeard
  <2>3. lastQuery = heardAge[q] /\ lastQuery # NoQuery /\ lastQuery \in 0..NoQuery
    BY <2>1, <2>2 DEF OwnInterval, OnlyHeard, TypeOK
  <2>4. interval # NoInterval => interval \in Nat /\ interval >= Period
    BY <2>1, <2>2 DEF OwnInterval, TypeOK
  <2>5. lastQuery > SilentAfter BY ReportIs DEF Silent
  <2>6. 2 * Period <= SilentAfter /\ SilentAfter \in Nat
    BY <2>4, FallbackAssumption DEF SilentAfter
  <2>7. lastQuery <= missed[q] * Period + phase[q] BY <2>3 DEF QueryInTime
  <2>8. SUFFICES ASSUME missed[q] <= 1 PROVE FALSE BY <2>1
  <2>9. missed[q] * Period <= Period /\ missed[q] * Period \in Nat BY <2>1, <2>8, LossesAdd
  <2> QED BY <2>1, <2>3, <2>5, <2>6, <2>7, <2>9
<1>2. Spec => [][MissedTwice]_vars BY <1>1, Invariance, PTL DEF Spec
<1> QED BY <1>2 DEF OneMissedQueryIsNotSilence, MissedTwice

\* The body of SilenceIsNoticed.
Noticed ==
    CloseWindow =>
        (/\ report'.multicast
         /\ \A q \in Queriers : heardAge[q] >= AgeCap
         => report'.silent)

\* A silence of every querier longer than twice the longest interval the losses can
\* have produced is reported whenever multicast flows: no interval the monitor has
\* measured exceeds that, and Group-Specific Queries do not count.
THEOREM SilenceReported == Spec => SilenceIsNoticed
<1>1. IInv /\ [Next]_vars => [Noticed]_vars
  <2> USE CapsAreNumbers, TimeAssumption DEF IInv
  <2> SUFFICES ASSUME IInv, CloseWindow, report'.multicast,
                      \A q \in Queriers : heardAge[q] >= AgeCap
               PROVE  report'.silent
    BY DEF Noticed
  <2>1. lastQuery >= AgeCap /\ lastQuery \in Nat
    <3>1. CASE lastQuery = NoQuery BY <3>1
    <3>2. CASE lastQuery # NoQuery BY <3>2 DEF LastQueryHeard, TypeOK
    <3> QED BY <3>1, <3>2
  <2>2. SilentAfter \in Nat /\ SilentAfter < AgeCap
    <3>1. CASE interval = NoInterval BY <3>1 DEF SilentAfter
    <3>2. CASE interval # NoInterval
      <4>1. interval \in Nat /\ interval <= (MaxMissed + 1) * Period
        BY <3>2 DEF TypeOK, IntervalInTime
      <4> QED BY <3>2, <4>1 DEF SilentAfter
    <3> QED BY <3>1, <3>2
  <2>3. lastQuery > SilentAfter BY <2>1, <2>2
  <2> QED BY <2>3, ReportIs DEF Silent
<1>2. Spec => [][Noticed]_vars BY <1>1, Invariance, PTL DEF Spec
<1> QED BY <1>2 DEF SilenceIsNoticed, Noticed

\* The body of ConflictIsReal.
TwoQueried == CloseWindow => (report'.conflict => Cardinality(QueriedLately) >= 2)

\* A conflict reported is of two queriers whose General Queries came in the Window that
\* closes (check_multiple_queriers, reset_window).
THEOREM ConflictReported == Spec => ConflictIsReal
<1>1. IInv /\ [Next]_vars => [TwoQueried]_vars
  <2> USE TimeAssumption DEF IInv
  <2> SUFFICES ASSUME IInv, CloseWindow, report'.conflict PROVE Cardinality(QueriedLately) >= 2
    BY DEF TwoQueried
  <2>1. Cardinality(heardQueriers) >= 2 BY ReportIs DEF Conflict
  <2>2. heardQueriers \subseteq QueriedLately
    <3> SUFFICES ASSUME NEW q \in heardQueriers PROVE q \in QueriedLately OBVIOUS
    <3>1. q \in Queriers /\ heardAge[q] <= elapsed BY DEF HeardThisWindow
    <3>2. heardAge[q] \in 0..NoQuery /\ elapsed \in 0..(Window + Slack) BY <3>1 DEF TypeOK
    <3> QED BY <3>1, <3>2, CapsAreNumbers DEF QueriedLately
  <2>3. IsFiniteSet(QueriedLately) BY SetAssumption, FS_Subset DEF QueriedLately
  <2>4. /\ Cardinality(heardQueriers) <= Cardinality(QueriedLately)
        /\ Cardinality(heardQueriers) \in Nat /\ Cardinality(QueriedLately) \in Nat
    <3>1. IsFiniteSet(heardQueriers) BY <2>2, <2>3, FS_Subset
    <3> QED BY <2>2, <2>3, <3>1, FS_Subset, FS_CardinalityType
  <2> QED BY <2>1, <2>4
<1>2. Spec => [][TwoQueried]_vars BY <1>1, Invariance, PTL DEF Spec
<1> QED BY <1>2 DEF ConflictIsReal, TwoQueried

-----------------------------------------------------------------------------
(* The memberships. *)

\* The body of JoinAnnouncedOnce.
AnnouncedAgain == \A j \in alerts' : joinAge[j] >= JoinTtl

\* A host's Join is announced only if its last one is older than the dedup time, or was
\* followed by a Leave: the map is never behind what the hosts have sent.
THEOREM JoinsAnnouncedOnce == Spec => JoinAnnouncedOnce
<1>1. IInv /\ [Next]_vars => [AnnouncedAgain]_vars
  <2> SUFFICES ASSUME IInv, Next, NEW j \in alerts' PROVE joinAge[j] >= JoinTtl
    BY DEF AnnouncedAgain
  <2>1. \E i \in Memberships : Join(i)
    BY DEF Next, GeneralQuery, GroupQuery, Lose, Stop, Leave, Named, Tick, CloseWindow
  <2>2. j \in Memberships /\ joins[j] = JoinCap BY <2>1 DEF Join
  <2> QED BY <2>2 DEF IInv, JoinsRemembered
<1>2. Spec => [][AnnouncedAgain]_vars BY <1>1, Invariance, PTL DEF Spec
<1> QED BY <1>2 DEF JoinAnnouncedOnce, AnnouncedAgain

=============================================================================
