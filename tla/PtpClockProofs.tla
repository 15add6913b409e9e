--------------------------- MODULE PtpClockProofs ---------------------------
(***************************************************************************)
(* For any number of domains, devices and grandmasters: the flags of an    *)
(* entry agree with each other, the last alert about a domain is the truth *)
(* about it, and alerts come in the order detected, changed*, lost.        *)
(***************************************************************************)
EXTENDS PtpClock, FiniteSetTheorems, TLAPS

\* Every message is a record of these fields.
MessageShape ==
    [type : {"Sync", "Announce", "Delay_Req", "Delay_Resp", "Other"},
     kind : {"IP", "AVB"}, src : Devices \cup {NoIp},
     gm : Masters \cup {NoMaster}, stratum : Strata \cup {NoStratum},
     delay : Delays \cup {NoDelay}]

\* A message parse_ptp delivers has the shape above.
LEMMA MessageType ==
    ASSUME NEW k \in Keys, NEW m \in Messages(k)
    PROVE  m \in MessageShape
<1>1. CASE m \in V1Messages
  BY <1>1 DEF V1Messages, Message, MessageShape
<1>2. CASE m \in V2Messages
  BY <1>2 DEF V2Messages, Message, MessageShape
<1> QED BY <1>1, <1>2 DEF Messages

\* The part of ClockStates that concerns one entry.
EntryOK(e) ==
    /\ e.valid <=> e.gm # NoMaster
    /\ ~(e.valid /\ e.lost)
    /\ e.valid \/ e.lost => e.seen
    /\ e.minDelay = NoDelay <=> e.maxDelay = NoDelay
    /\ e.minDelay <= e.maxDelay

\* update returns an entry of the right type.
LEMMA UpdateType ==
    ASSUME NEW k \in Keys, NEW e \in Stats, NEW m \in MessageShape
    PROVE  Update(k, e, m) \in Stats
<1> USE DataAssumption, TimeAssumption
<1> DEFINE a == [e EXCEPT !.seen = TRUE, !.age = 0, !.kind = m.kind,
                             !.sync = IF m.type = "Sync" THEN TRUE ELSE @]
<1>0. /\ m.kind \in {"IP", "AVB"} /\ m.src \in Devices \cup {NoIp}
      /\ m.gm \in Masters \cup {NoMaster} /\ m.delay \in Delays \cup {NoDelay}
  BY DEF MessageShape
<1>1. a \in Stats
  <2>1. 0 \in 0..AgeCap OBVIOUS
  <2> DEFINE sync == IF m.type = "Sync" THEN TRUE ELSE e.sync
  <2>2. sync \in BOOLEAN BY DEF Stats
  <2>3. a = [e EXCEPT !.seen = TRUE, !.age = 0, !.kind = m.kind, !.sync = sync] OBVIOUS
  <2> HIDE DEF sync, a
  <2> QED BY <1>0, <2>1, <2>2, <2>3 DEF Stats
<1> HIDE DEF a
<1>2. WithMaster(a, m) \in Stats
  <2>1. CASE m.gm = NoMaster BY <1>1, <2>1 DEF WithMaster
  <2>2. CASE m.gm # NoMaster
    <3> DEFINE changes == IF Changed(a, m) THEN Least(a.changes + 1, ChangesCap) ELSE a.changes
               low == IF Changed(a, m) THEN NoDelay ELSE a.minDelay
               high == IF Changed(a, m) THEN NoDelay ELSE a.maxDelay
               src == IF m.src = NoIp THEN a.gmSrc ELSE m.src
    <3>1. /\ changes \in 0..ChangesCap /\ src \in Devices \cup {NoIp}
          /\ low \in Delays \cup {NoDelay} /\ high \in Delays \cup {NoDelay}
      BY <1>0, <1>1 DEF Stats, Least
    <3>2. WithMaster(a, m) =
            [a EXCEPT !.gm = m.gm, !.valid = TRUE, !.lost = FALSE, !.gmSrc = src,
                      !.changes = changes, !.minDelay = low, !.maxDelay = high]
      BY <2>2 DEF WithMaster
    <3> HIDE DEF changes, low, high, src
    <3>3. WithMaster(a, m) =
            [seen |-> a.seen, kind |-> a.kind, age |-> a.age, gm |-> m.gm,
             valid |-> TRUE, lost |-> FALSE, changes |-> changes, gmSrc |-> src, sync |-> a.sync,
             minDelay |-> low, maxDelay |-> high, senders |-> a.senders]
      BY <1>1, <3>2 DEF Stats
    <3> QED BY <1>0, <1>1, <3>1, <3>3 DEF Stats
  <2> QED BY <2>1, <2>2
<1> DEFINE b == WithMaster(a, m)
<1> HIDE DEF b
<1>3. b \in Stats BY <1>2 DEF b
<1>4. WithSender(k, b, m) \in Stats
  <2>1. CASE m.type = "Sync" /\ k \in V1Keys /\ m.src # NoIp
    <3>1. <<m.src, m.stratum>> \in Devices \X (Strata \cup {NoStratum})
      BY <2>1 DEF MessageShape
    <3>2. {p \in b.senders : p[1] # m.src} \cup {<<m.src, m.stratum>>}
             \in SUBSET (Devices \X (Strata \cup {NoStratum}))
      BY <3>1, <1>3 DEF Stats
    <3> QED BY <2>1, <3>2, <1>3 DEF WithSender, Stats
  <2> QED BY <2>1, <1>3 DEF WithSender
<1> DEFINE c == WithSender(k, b, m)
<1> HIDE DEF c
<1>5. c \in Stats BY <1>4 DEF c
<1>6. WithDelay(c, m) \in Stats
  <2> DEFINE low == IF c.minDelay = NoDelay \/ m.delay < c.minDelay THEN m.delay ELSE c.minDelay
             high == IF c.maxDelay = NoDelay \/ m.delay > c.maxDelay THEN m.delay ELSE c.maxDelay
  <2>1. low \in Delays \cup {NoDelay} /\ high \in Delays \cup {NoDelay}
    BY <1>0, <1>5 DEF Stats
  <2>2. WithDelay(c, m) = c \/ WithDelay(c, m) = [c EXCEPT !.minDelay = low, !.maxDelay = high]
    BY DEF WithDelay
  <2> HIDE DEF low, high
  <2> DEFINE d == [c EXCEPT !.minDelay = low, !.maxDelay = high]
  <2>3. d = [seen |-> c.seen, kind |-> c.kind, age |-> c.age, gm |-> c.gm,
             valid |-> c.valid, lost |-> c.lost, changes |-> c.changes, gmSrc |-> c.gmSrc, sync |-> c.sync,
             minDelay |-> low, maxDelay |-> high, senders |-> c.senders]
    <3>1. DOMAIN c = {"seen", "kind", "age", "gm", "valid", "lost", "changes", "gmSrc", "sync",
                      "minDelay", "maxDelay", "senders"}
      BY <1>5 DEF Stats
    <3>2. DOMAIN d = DOMAIN c /\ d = [x \in DOMAIN d |-> d[x]]
      OBVIOUS
    <3>3. /\ d.seen = c.seen /\ d.kind = c.kind /\ d.age = c.age
          /\ d.gm = c.gm /\ d.valid = c.valid /\ d.lost = c.lost
      BY <3>1
    <3>4. /\ d.changes = c.changes /\ d.gmSrc = c.gmSrc /\ d.sync = c.sync
          /\ d.senders = c.senders /\ d.minDelay = low /\ d.maxDelay = high
      BY <3>1
    <3> HIDE DEF d
    <3> QED BY <3>1, <3>2, <3>3, <3>4
  <2> HIDE DEF d
  <2>4. d \in Stats BY <1>5, <2>1, <2>3 DEF Stats
  <2> QED BY <1>5, <2>2, <2>4 DEF d
<1> QED BY <1>6 DEF Update, a, b, c

\* update keeps the flags of an entry in agreement, and changes them exactly
\* when the message names a grandmaster.
LEMMA UpdateEntry ==
    ASSUME NEW k \in Keys, NEW e \in Stats, EntryOK(e), NEW m \in MessageShape
    PROVE  /\ EntryOK(Update(k, e, m))
           /\ Update(k, e, m).valid = (e.valid \/ m.gm # NoMaster)
           /\ Update(k, e, m).lost = (e.lost /\ m.gm = NoMaster)
<1> USE DataAssumption, NoneAssumption
<1>0. m.gm \in Masters \cup {NoMaster} BY DEF MessageShape
<1> DEFINE a == [e EXCEPT !.seen = TRUE, !.age = 0, !.kind = m.kind,
                             !.sync = IF m.type = "Sync" THEN TRUE ELSE @]
<1>1. /\ a.seen = TRUE /\ a.valid = e.valid /\ a.lost = e.lost /\ a.gm = e.gm
      /\ a.minDelay = e.minDelay /\ a.maxDelay = e.maxDelay
      /\ DOMAIN a = DOMAIN e /\ a = [x \in DOMAIN e |-> a[x]]
  BY DEF Stats
<1>e. DOMAIN e = {"seen", "kind", "age", "gm", "valid", "lost", "changes", "gmSrc", "sync",
                  "minDelay", "maxDelay", "senders"}
  BY DEF Stats
<1>f. /\ e.minDelay \in Delays \cup {NoDelay} /\ e.maxDelay \in Delays \cup {NoDelay}
      /\ e.valid \in BOOLEAN /\ e.lost \in BOOLEAN
  BY DEF Stats
<1> HIDE DEF a
<1> DEFINE b == WithMaster(a, m)
<1>2. /\ DOMAIN b = DOMAIN e /\ b = [x \in DOMAIN b |-> b[x]]
      /\ b.minDelay \in Delays \cup {NoDelay} /\ b.maxDelay \in Delays \cup {NoDelay}
      /\ b.seen = TRUE /\ EntryOK(b)
      /\ b.valid = (e.valid \/ m.gm # NoMaster)
      /\ b.lost = (e.lost /\ m.gm = NoMaster)
  <2>1. CASE m.gm = NoMaster
    BY <1>1, <1>e, <1>f, <2>1 DEF WithMaster, EntryOK
  <2>2. CASE m.gm # NoMaster
    <3>a. /\ b.gm = m.gm /\ b.valid = TRUE /\ b.lost = FALSE /\ b.seen = a.seen
      BY <1>1, <1>e, <2>2 DEF WithMaster
    <3>d. DOMAIN b = DOMAIN a /\ b = [x \in DOMAIN b |-> b[x]]
      BY <1>1, <1>e, <2>2 DEF WithMaster
    <3>b. b.minDelay = IF Changed(a, m) THEN NoDelay ELSE a.minDelay
      BY <1>1, <1>e, <2>2 DEF WithMaster
    <3>c. b.maxDelay = IF Changed(a, m) THEN NoDelay ELSE a.maxDelay
      BY <1>1, <1>e, <2>2 DEF WithMaster
    <3> HIDE DEF b
    <3>1. /\ b.gm = m.gm /\ b.valid = TRUE /\ b.lost = FALSE /\ b.seen = a.seen
          /\ b.minDelay = IF Changed(a, m) THEN NoDelay ELSE a.minDelay
          /\ b.maxDelay = IF Changed(a, m) THEN NoDelay ELSE a.maxDelay
          /\ DOMAIN b = DOMAIN a /\ b = [x \in DOMAIN b |-> b[x]]
      BY <3>a, <3>b, <3>c, <3>d
    <3>2. /\ b.minDelay \in Delays \cup {NoDelay} /\ b.maxDelay \in Delays \cup {NoDelay}
          /\ (b.minDelay = NoDelay <=> b.maxDelay = NoDelay) /\ b.minDelay <= b.maxDelay
      BY <1>1, <1>f, <3>1 DEF EntryOK, NoDelay
    <3>3. EntryOK(b) BY <1>1, <2>2, <3>1, <3>2 DEF EntryOK
    <3> QED BY <1>0, <1>1, <1>e, <2>2, <3>1, <3>2, <3>3
  <2> QED BY <2>1, <2>2
<1> HIDE DEF b
<1> DEFINE c == WithSender(k, b, m)
<1>3. /\ c.minDelay = b.minDelay /\ c.maxDelay = b.maxDelay /\ c.seen = b.seen
      /\ c.valid = b.valid /\ c.lost = b.lost /\ c.gm = b.gm
      /\ DOMAIN c = DOMAIN b /\ c = [x \in DOMAIN b |-> c[x]]
  BY <1>2, <1>e DEF WithSender
<1> HIDE DEF c
<1> DEFINE d == WithDelay(c, m)
<1>4. /\ d.seen = c.seen /\ d.valid = c.valid /\ d.lost = c.lost /\ d.gm = c.gm
  BY <1>2, <1>3, <1>e DEF WithDelay
<1>5. /\ d.minDelay = NoDelay <=> d.maxDelay = NoDelay
      /\ d.minDelay <= d.maxDelay
  <2>1. CASE m.type # "Delay_Resp" \/ m.delay = NoDelay
    BY <2>1, <1>2, <1>3 DEF WithDelay, EntryOK
  <2>2. CASE ~(m.type # "Delay_Resp" \/ m.delay = NoDelay)
    <3>1. m.delay \in Nat BY <2>2 DEF MessageShape
    <3>2. /\ d.minDelay = IF c.minDelay = NoDelay \/ m.delay < c.minDelay
                          THEN m.delay ELSE c.minDelay
          /\ d.maxDelay = IF c.maxDelay = NoDelay \/ m.delay > c.maxDelay
                          THEN m.delay ELSE c.maxDelay
      BY <2>2, <1>2, <1>3, <1>e DEF WithDelay
    <3> QED BY <3>1, <3>2, <1>2, <1>3 DEF EntryOK, NoDelay
  <2> QED BY <2>1, <2>2
<1> QED BY <1>2, <1>3, <1>4, <1>5 DEF Update, EntryOK, a, b, c, d

Spans == [gm : Masters \cup {NoMaster}, delays : SUBSET Delays, crossed : BOOLEAN]

\* What is remembered of a grandmaster keeps its type.
LEMMA SpannedType ==
    ASSUME NEW s \in Spans, NEW m \in MessageShape, NEW lost \in BOOLEAN
    PROVE  Spanned(s, m, lost) \in Spans
<1>1. (IF m.gm = NoMaster THEN s.gm ELSE m.gm) \in Masters \cup {NoMaster}
  BY DEF Spans, MessageShape
<1>2. (IF TakesOver(s, m) THEN {} ELSE s.delays)
         \cup (IF m.type = "Delay_Resp" THEN {m.delay} \ {NoDelay} ELSE {}) \in SUBSET Delays
  BY DEF Spans, MessageShape
<1>3. (IF TakesOver(s, m) THEN lost ELSE s.crossed) \in BOOLEAN
  BY DEF Spans
<1> QED BY <1>1, <1>2, <1>3 DEF Spanned, Spans

-----------------------------------------------------------------------------
IInv == TypeOK /\ ClockStates /\ LastAlertIsTrue

\* No domain is known at first.
LEMMA Initially == Init => IInv
<1> SUFFICES ASSUME Init PROVE IInv OBVIOUS
<1>1. TypeOK
  BY TimeAssumption, NoneAssumption DEF Init, TypeOK, NewStats, Stats, Gone
<1>2. ClockStates BY DEF Init, ClockStates, NewStats, NoDelay
<1>3. LastAlertIsTrue BY DEF Init, LastAlertIsTrue, NewStats
<1> QED BY <1>1, <1>2, <1>3 DEF IInv

\* A message leaves a domain that is announced exactly while it is valid.
LEMMA HandleKeeps ==
    ASSUME IInv, NEW k \in Keys, NEW m \in Messages(k), HandlePtp(k, m)
    PROVE  IInv'
<1> DEFINE old == domains[k]  new == Update(k, old, m)
           ev  == IF Detected(old, m) THEN "Detected"
                  ELSE IF Changed(old, m) THEN "Changed" ELSE "none"
<1>1. m \in MessageShape BY MessageType
<1>2. old \in Stats /\ EntryOK(old)
  BY DEF IInv, TypeOK, ClockStates, EntryOK
<1>3. new \in Stats BY <1>1, <1>2, UpdateType
<1>4. /\ EntryOK(new)
      /\ new.valid = (old.valid \/ m.gm # NoMaster)
      /\ new.lost = (old.lost /\ m.gm = NoMaster)
  BY <1>1, <1>2, UpdateEntry
<1>5. /\ domains' = [domains EXCEPT ![k] = new]
      /\ events' = IF ev = "none" THEN {} ELSE {<<k, ev>>}
      /\ told' = IF ev = "none" THEN told ELSE [told EXCEPT ![k] = "present"]
  BY DEF HandlePtp
<1>6. ev \in {"Detected", "Changed", "none"} /\ (ev = "none" => m.gm = NoMaster \/ m.gm = old.gm)
      /\ (ev # "none" => m.gm # NoMaster)
  BY DEF Detected, Changed
<1> HIDE DEF new, ev
<1>7. TypeOK'
  <2>1. domains' \in [Keys -> Stats] BY <1>3, <1>5 DEF IInv, TypeOK
  <2>2. followers' \in [Devices -> 0..Gone]
    BY <1>1, NoneAssumption, TimeAssumption DEF HandlePtp, IInv, TypeOK, MessageShape, Gone
  <2>3. events' \in SUBSET (Keys \X {"Detected", "Changed", "Lost"})
    BY <1>5, <1>6
  <2>4. told' \in [Keys -> {"nothing", "present", "lost"}]
    BY <1>5 DEF IInv, TypeOK
  <2>5. conflicts' \in SUBSET (Keys \X {"preferred", "competing"})
    BY DEF HandlePtp, IInv, TypeOK
  <2>6. syncHeard' \in [Keys -> SUBSET (Devices)]
    <3>1. m.type = "Sync" /\ k \in V1Keys => m.src \in Devices
      BY KeyAssumption DEF Messages, V1Messages, Message
    <3> QED BY <3>1 DEF HandlePtp, IInv, TypeOK
  <2>7. kinds' \in [Keys -> SUBSET {"IP", "AVB"}]
    BY <1>1 DEF HandlePtp, IInv, TypeOK, MessageShape
  <2>8. masterAge' \in [Keys -> 0..AgeCap]
    BY TimeAssumption DEF HandlePtp, IInv, TypeOK
  <2>9. span' \in [Keys -> Spans]
    <3>1. span \in [Keys -> Spans] BY DEF IInv, TypeOK, Spans
    <3>2. Spanned(span[k], m, told[k] = "lost") \in Spans BY <1>1, <3>1, SpannedType
    <3> QED BY <3>1, <3>2 DEF HandlePtp
  <2> QED BY <2>1, <2>2, <2>3, <2>4, <2>5, <2>6, <2>7, <2>8, <2>9 DEF TypeOK, Spans
<1>8. ClockStates'
  BY <1>4, <1>5 DEF IInv, TypeOK, ClockStates, EntryOK
<1>9. LastAlertIsTrue'
  <2> SUFFICES ASSUME NEW j \in Keys
               PROVE  /\ told'[j] = "present" <=> domains'[j].valid
                      /\ told'[j] = "lost" <=> domains'[j].lost
    BY DEF LastAlertIsTrue
  <2>0. told \in [Keys -> {"nothing", "present", "lost"}] /\ domains \in [Keys -> Stats]
    BY DEF IInv, TypeOK
  <2>1. CASE j # k
    BY <2>0, <2>1, <1>5 DEF IInv, LastAlertIsTrue
  <2>2. CASE j = k
    <3>1. domains'[j] = new BY <2>0, <2>2, <1>5
    <3>2. CASE ev = "none"
      <4>1. told'[j] = told[k] BY <2>2, <3>2, <1>5
      <4>2. (told[k] = "present" <=> old.valid) /\ (told[k] = "lost" <=> old.lost)
        BY DEF IInv, LastAlertIsTrue
      <4>3. old.valid <=> old.gm # NoMaster BY <1>2 DEF EntryOK
      <4>4. ~(old.valid /\ old.lost) BY <1>2 DEF EntryOK
      <4> QED BY <3>1, <3>2, <4>1, <4>2, <4>3, <4>4, <1>4, <1>6
    <3>3. CASE ev # "none"
      <4>1. told'[j] = "present" BY <2>0, <2>2, <3>3, <1>5
      <4> QED BY <3>1, <3>3, <4>1, <1>4, <1>6
    <3> QED BY <3>2, <3>3
  <2> QED BY <2>1, <2>2
<1> QED BY <1>7, <1>8, <1>9 DEF IInv

\* check_timeout keeps an entry well formed and turns a valid clock into a lost one.
LEMMA CheckTimeoutEntry ==
    ASSUME NEW e \in Stats, EntryOK(e)
    PROVE  /\ CheckTimeout(e) \in Stats /\ EntryOK(CheckTimeout(e))
           /\ CheckTimeout(e).valid = (e.valid /\ ~TimedOut(e))
           /\ CheckTimeout(e).lost = (e.lost \/ TimedOut(e))
<1>1. CASE TimedOut(e)
  <2>1. CheckTimeout(e) = [e EXCEPT !.valid = FALSE, !.lost = TRUE, !.gm = NoMaster]
    BY <1>1 DEF CheckTimeout
  <2>2. e.valid BY <1>1 DEF TimedOut
  <2> QED BY <1>1, <2>1, <2>2 DEF Stats, EntryOK
<1>2. CASE ~TimedOut(e)
  BY <1>2 DEF CheckTimeout, Stats
<1> QED BY <1>1, <1>2

\* The end of a Window announces each loss.
LEMMA CloseKeeps == IInv /\ CloseWindow => IInv'
<1> SUFFICES ASSUME IInv, CloseWindow PROVE IInv' OBVIOUS
<1>0. /\ domains \in [Keys -> Stats]
      /\ told \in [Keys -> {"nothing", "present", "lost"}]
      /\ \A j \in Keys : EntryOK(domains[j])
  BY DEF IInv, TypeOK, ClockStates, EntryOK
<1>1. \A j \in Keys :
          /\ CheckTimeout(domains[j]) \in Stats /\ EntryOK(CheckTimeout(domains[j]))
          /\ CheckTimeout(domains[j]).valid = (domains[j].valid /\ ~TimedOut(domains[j]))
          /\ CheckTimeout(domains[j]).lost = (domains[j].lost \/ TimedOut(domains[j]))
  BY <1>0, CheckTimeoutEntry
<1>2. \A j \in Keys : domains'[j] = [CheckTimeout(domains[j]) EXCEPT !.senders = {}]
  BY DEF CloseWindow
<1>3. \A j \in Keys : /\ domains'[j] \in Stats /\ EntryOK(domains'[j])
                      /\ domains'[j].valid = CheckTimeout(domains[j]).valid
                      /\ domains'[j].lost = CheckTimeout(domains[j]).lost
  <2> TAKE j \in Keys
  <2> DEFINE c == CheckTimeout(domains[j])
  <2>1. c \in Stats /\ EntryOK(c) BY <1>1
  <2>2. domains'[j] = [c EXCEPT !.senders = {}] BY <1>2
  <2> HIDE DEF c
  <2>3. /\ domains'[j] \in Stats /\ EntryOK(domains'[j])
        /\ domains'[j].valid = c.valid /\ domains'[j].lost = c.lost
    BY <2>1, <2>2 DEF Stats, EntryOK
  <2> QED BY <2>3 DEF c
<1>4. TypeOK'
  <2>1. domains' \in [Keys -> Stats] BY <1>3 DEF CloseWindow
  <2>2. followers' \in [Devices -> 0..Gone]
    BY TimeAssumption DEF CloseWindow, IInv, TypeOK, Gone
  <2>3. events' \in SUBSET (Keys \X {"Detected", "Changed", "Lost"})
    BY DEF CloseWindow
  <2>4. conflicts' \in SUBSET (Keys \X {"preferred", "competing"})
    <3>1. \A j \in Keys : SyncConflict(j) \in {"none", "preferred", "competing"}
      BY DEF SyncConflict
    <3>2. conflicts' = {<<j, SyncConflict(j)>> : j \in {i \in Keys : SyncConflict(i) # "none"}}
      BY DEF CloseWindow
    <3> QED BY <3>1, <3>2
  <2>5. told' \in [Keys -> {"nothing", "present", "lost"}]
    BY <1>0 DEF CloseWindow
  <2>6. syncHeard' \in [Keys -> SUBSET Devices] BY DEF CloseWindow
  <2>7. /\ kinds' \in [Keys -> SUBSET {"IP", "AVB"}]
        /\ masterAge' \in [Keys -> 0..AgeCap] /\ span' \in [Keys -> Spans]
    BY DEF CloseWindow, IInv, TypeOK, Spans
  <2> QED BY <2>1, <2>2, <2>3, <2>4, <2>5, <2>6, <2>7 DEF TypeOK, Spans
<1>5. ClockStates' BY <1>3 DEF ClockStates, EntryOK
<1>6. LastAlertIsTrue'
  <2> SUFFICES ASSUME NEW j \in Keys
               PROVE  /\ told'[j] = "present" <=> domains'[j].valid
                      /\ told'[j] = "lost" <=> domains'[j].lost
    BY DEF LastAlertIsTrue
  <2>1. told'[j] = IF TimedOut(domains[j]) THEN "lost" ELSE told[j]
    BY DEF CloseWindow
  <2>2. (told[j] = "present" <=> domains[j].valid) /\ (told[j] = "lost" <=> domains[j].lost)
    BY DEF IInv, LastAlertIsTrue
  <2>3. CASE TimedOut(domains[j]) BY <1>1, <1>3, <2>1, <2>3
  <2>4. CASE ~TimedOut(domains[j]) BY <1>1, <1>3, <2>1, <2>2, <2>4
  <2> QED BY <2>3, <2>4
<1> QED BY <1>4, <1>5, <1>6 DEF IInv

\* Time changes the ages only.
LEMMA TickKeeps == IInv /\ Tick => IInv'
<1> SUFFICES ASSUME IInv, Tick PROVE IInv' OBVIOUS
<1>0. domains \in [Keys -> Stats] BY DEF IInv, TypeOK
<1>1. \A j \in Keys : /\ domains'[j] \in Stats
                      /\ \A f \in {"valid", "lost", "gm", "seen", "minDelay", "maxDelay"} :
                            domains'[j][f] = domains[j][f]
  <2> TAKE j \in Keys
  <2>1. domains'[j] = [domains[j] EXCEPT !.age = Least(@ + 1, AgeCap)] BY DEF Tick
  <2>2. Least(domains[j].age + 1, AgeCap) \in 0..AgeCap
    BY <1>0, TimeAssumption DEF Stats, Least
  <2>3. domains[j] \in Stats BY <1>0
  <2> QED BY <2>1, <2>2, <2>3 DEF Stats
<1>2. TypeOK'
  <2>1. domains' \in [Keys -> Stats] BY <1>1 DEF Tick
  <2>2. followers' \in [Devices -> 0..Gone]
    BY TimeAssumption DEF Tick, IInv, TypeOK, Gone, Least
  <2>3. masterAge' \in [Keys -> 0..AgeCap]
    BY TimeAssumption DEF Tick, IInv, TypeOK, Least
  <2> QED BY <2>1, <2>2, <2>3 DEF Tick, IInv, TypeOK
<1>3. ClockStates' BY <1>1 DEF IInv, ClockStates
<1>4. LastAlertIsTrue'
  <2>1. told' = told BY DEF Tick
  <2>2. \A j \in Keys : domains'[j].valid = domains[j].valid /\ domains'[j].lost = domains[j].lost
    <3> TAKE j \in Keys
    <3>1. domains'[j] = [domains[j] EXCEPT !.age = Least(@ + 1, AgeCap)] BY DEF Tick
    <3>2. domains[j] \in Stats BY <1>0
    <3> QED BY <3>1, <3>2 DEF Stats
  <2> QED BY <2>1, <2>2 DEF IInv, LastAlertIsTrue
<1> QED BY <1>2, <1>3, <1>4 DEF IInv

\* Every step keeps the invariant.
LEMMA StepKeeps == IInv /\ [Next]_vars => IInv'
<1> SUFFICES ASSUME IInv, [Next]_vars PROVE IInv' OBVIOUS
<1>1. ASSUME NEW k \in Keys, NEW m \in Messages(k), HandlePtp(k, m) PROVE IInv'
  BY <1>1, HandleKeeps
<1>2. CASE CloseWindow BY <1>2, CloseKeeps
<1>3. CASE Tick BY <1>3, TickKeeps
<1>4. CASE UNCHANGED vars
  BY <1>4 DEF vars, state, history, IInv, TypeOK, ClockStates, LastAlertIsTrue
<1> QED BY <1>1, <1>2, <1>3, <1>4 DEF Next

-----------------------------------------------------------------------------
\* The inductive invariant holds in every reachable state.
THEOREM Invariance == Spec => []IInv
BY Initially, StepKeeps, PTL DEF Spec

\* Every variable of the PTP substate keeps its type.
THEOREM TypeCorrect == Spec => []TypeOK
<1>1. IInv => TypeOK BY DEF IInv
<1> QED BY <1>1, Invariance, PTL

\* Validity, loss, grandmaster and path-delay history of every entry agree
\* (PtpStats::update and check_timeout).
THEOREM EntriesConsistent == Spec => []ClockStates
<1>1. IInv => ClockStates BY DEF IInv
<1> QED BY <1>1, Invariance, PTL

\* What was last announced about a domain is true of it.
THEOREM AlertTruth == Spec => []LastAlertIsTrue
<1>1. IInv => LastAlertIsTrue BY DEF IInv
<1> QED BY <1>1, Invariance, PTL

\* The body of AlertOrder.
Ordered ==
    \A k \in Keys :
        /\ <<k, "Lost">> \in events' => told[k] = "present"
        /\ <<k, "Changed">> \in events' => told[k] = "present"
        /\ <<k, "Detected">> \in events' => told[k] # "present"

\* No alert comes out of turn.
LEMMA StepOrdered == IInv /\ [Next]_vars => [Ordered]_vars
<1> SUFFICES ASSUME IInv, Next PROVE Ordered OBVIOUS
<1> SUFFICES ASSUME NEW j \in Keys
             PROVE  /\ <<j, "Lost">> \in events' => told[j] = "present"
                    /\ <<j, "Changed">> \in events' => told[j] = "present"
                    /\ <<j, "Detected">> \in events' => told[j] # "present"
  BY DEF Ordered
<1>0. /\ told[j] = "present" <=> domains[j].valid
      /\ domains[j].valid <=> domains[j].gm # NoMaster
  BY DEF IInv, LastAlertIsTrue, ClockStates
<1>1. ASSUME NEW k \in Keys, NEW m \in Messages(k), HandlePtp(k, m)
      PROVE  /\ <<j, "Lost">> \in events' => told[j] = "present"
             /\ <<j, "Changed">> \in events' => told[j] = "present"
             /\ <<j, "Detected">> \in events' => told[j] # "present"
  BY <1>0, <1>1 DEF HandlePtp, Detected, Changed
<1>2. CASE CloseWindow
  BY <1>0, <1>2 DEF CloseWindow, TimedOut
<1>3. CASE Tick BY <1>3 DEF Tick
<1> QED BY <1>1, <1>2, <1>3 DEF Next

\* Every loss follows a detection and every change a detection, and nothing is
\* detected twice without a loss in between.
THEOREM AlertsInOrder == Spec => AlertOrder
<1>1. Spec => [][Ordered]_vars
  BY Invariance, StepOrdered, PTL DEF Spec
<1> QED BY <1>1 DEF AlertOrder, Ordered

-----------------------------------------------------------------------------
(* The path-delay history. *)

\* update starts the bounds anew when the grandmaster changes, and then takes in the delay
\* the message reports.
LEMMA UpdateDelays ==
    ASSUME NEW k \in Keys, NEW e \in Stats, NEW m \in MessageShape, NEW low, NEW high,
           low = IF Changed(e, m) THEN NoDelay ELSE e.minDelay,
           high = IF Changed(e, m) THEN NoDelay ELSE e.maxDelay
    PROVE  /\ m.type # "Delay_Resp" \/ m.delay = NoDelay =>
                 Update(k, e, m).minDelay = low /\ Update(k, e, m).maxDelay = high
           /\ ~(m.type # "Delay_Resp" \/ m.delay = NoDelay) =>
                 /\ Update(k, e, m).minDelay =
                       (IF low = NoDelay \/ m.delay < low THEN m.delay ELSE low)
                 /\ Update(k, e, m).maxDelay =
                       (IF high = NoDelay \/ m.delay > high THEN m.delay ELSE high)
           /\ Update(k, e, m).gm = IF m.gm = NoMaster THEN e.gm ELSE m.gm
<1> DEFINE a == [e EXCEPT !.seen = TRUE, !.age = 0, !.kind = m.kind,
                             !.sync = IF m.type = "Sync" THEN TRUE ELSE @]
           b == WithMaster(a, m)
           c == WithSender(k, b, m)
<1>1. /\ a.minDelay = e.minDelay /\ a.maxDelay = e.maxDelay /\ a.gm = e.gm
      /\ {"gm", "valid", "lost", "gmSrc", "changes", "senders", "minDelay", "maxDelay"}
             \subseteq DOMAIN a
  BY DEF Stats
<1>2. Update(k, e, m) = WithDelay(c, m) BY DEF Update
<1>3. Changed(a, m) = Changed(e, m) BY <1>1 DEF Changed
<1> HIDE DEF a
<1>4. {"gm", "senders", "minDelay", "maxDelay"} \subseteq DOMAIN b
  BY <1>1 DEF WithMaster
<1>5. b.gm = (IF m.gm = NoMaster THEN e.gm ELSE m.gm) BY <1>1 DEF WithMaster
<1>6. b.minDelay = low
  <2>1. CASE m.gm = NoMaster BY <1>1, <1>3, <2>1 DEF WithMaster, Changed
  <2>2. CASE m.gm # NoMaster BY <1>1, <1>3, <2>2 DEF WithMaster
  <2> QED BY <2>1, <2>2
<1>7. b.maxDelay = high
  <2>1. CASE m.gm = NoMaster BY <1>1, <1>3, <2>1 DEF WithMaster, Changed
  <2>2. CASE m.gm # NoMaster BY <1>1, <1>3, <2>2 DEF WithMaster
  <2> QED BY <2>1, <2>2
<1> HIDE DEF b
<1>8. /\ c.minDelay = b.minDelay /\ c.maxDelay = b.maxDelay /\ c.gm = b.gm
      /\ {"gm", "minDelay", "maxDelay"} \subseteq DOMAIN c
  BY <1>4 DEF WithSender
<1> HIDE DEF c
<1>9. WithDelay(c, m).gm = c.gm BY <1>8 DEF WithDelay
<1>10. m.type # "Delay_Resp" \/ m.delay = NoDelay => WithDelay(c, m) = c
  BY DEF WithDelay
<1>11. ~(m.type # "Delay_Resp" \/ m.delay = NoDelay) =>
         /\ WithDelay(c, m).minDelay =
               (IF c.minDelay = NoDelay \/ m.delay < c.minDelay THEN m.delay ELSE c.minDelay)
         /\ WithDelay(c, m).maxDelay =
               (IF c.maxDelay = NoDelay \/ m.delay > c.maxDelay THEN m.delay ELSE c.maxDelay)
  BY <1>8 DEF WithDelay
<1> QED BY <1>2, <1>5, <1>6, <1>7, <1>8, <1>9, <1>10, <1>11

\* What an entry remembers of the grandmaster: the one named last while the clock is valid,
\* none before the first one, and its delays.
Remembered(k) ==
    /\ domains[k].valid => domains[k].gm = span[k].gm
    /\ told[k] = "nothing" => span[k].gm = NoMaster
    /\ ~span[k].crossed => BoundsAre(domains[k], span[k].delays)

AllRemembered == \A k \in Keys : Remembered(k)

\* A new delay among those known, or the first one.
LEMMA BoundsGrow ==
    ASSUME NEW S \in SUBSET Nat, NEW e, BoundsAre(e, S), NEW d \in Nat, NEW f,
           f.minDelay = IF e.minDelay = NoDelay \/ d < e.minDelay THEN d ELSE e.minDelay,
           f.maxDelay = IF e.maxDelay = NoDelay \/ d > e.maxDelay THEN d ELSE e.maxDelay
    PROVE  BoundsAre(f, S \cup {d})
<1>1. CASE S = {}
  <2>1. f.minDelay = d /\ f.maxDelay = d BY <1>1 DEF BoundsAre
  <2> QED BY <1>1, <2>1 DEF BoundsAre
<1>2. CASE S # {}
  <2>1. /\ e.minDelay \in S /\ e.maxDelay \in S
        /\ \A x \in S : e.minDelay <= x /\ x <= e.maxDelay
    BY <1>2 DEF BoundsAre
  <2>2. e.minDelay # NoDelay /\ e.maxDelay # NoDelay BY <2>1 DEF NoDelay
  <2>3. f.minDelay \in S \cup {d} /\ f.maxDelay \in S \cup {d} BY <2>1, <2>2
  <2>4. ASSUME NEW x \in S \cup {d} PROVE f.minDelay <= x /\ x <= f.maxDelay
    <3>1. CASE x = d
      <4>1. e.minDelay \in Nat /\ e.maxDelay \in Nat BY <2>1
      <4> QED BY <2>2, <3>1, <4>1
    <3>2. CASE x \in S
      <4>1. e.minDelay <= x /\ x <= e.maxDelay /\ x \in Nat BY <2>1, <3>2
      <4>2. e.minDelay \in Nat /\ e.maxDelay \in Nat BY <2>1
      <4> QED BY <2>2, <4>1, <4>2
    <3> QED BY <3>1, <3>2
  <2> QED BY <2>3, <2>4 DEF BoundsAre
<1> QED BY <1>1, <1>2

\* A message keeps what is remembered of its domain: while the clock is valid, update sees
\* each takeover as a change; while it is lost, the takeover is one across the loss.
LEMMA HandleRemembers ==
    ASSUME IInv, AllRemembered, NEW k \in Keys, NEW m \in Messages(k), HandlePtp(k, m)
    PROVE  AllRemembered'
<1> DEFINE e == domains[k]
           f == Update(k, e, m)
           s == span[k]
           t == Spanned(s, m, told[k] = "lost")
           ev == IF Detected(e, m) THEN "Detected"
                 ELSE IF Changed(e, m) THEN "Changed" ELSE "none"
<1>0. /\ domains \in [Keys -> Stats] /\ span \in [Keys -> Spans]
      /\ told \in [Keys -> {"nothing", "present", "lost"}]
  BY DEF IInv, TypeOK, Spans
<1>1. m \in MessageShape /\ e \in Stats /\ s \in Spans BY <1>0, MessageType
<1>2. /\ domains' = [domains EXCEPT ![k] = f] /\ span' = [span EXCEPT ![k] = t]
      /\ told' = IF ev = "none" THEN told ELSE [told EXCEPT ![k] = "present"]
  BY DEF HandlePtp
<1>3. ASSUME NEW j \in Keys, j # k PROVE Remembered(j)'
  <2>1. domains'[j] = domains[j] /\ span'[j] = span[j] /\ told'[j] = told[j]
    BY <1>0, <1>2, <1>3
  <2> QED BY <2>1 DEF AllRemembered, Remembered, BoundsAre
<1>4. /\ domains'[k] = f /\ span'[k] = t
      /\ told'[k] = IF ev = "none" THEN told[k] ELSE "present"
  BY <1>0, <1>2
<1>5. /\ e.valid => e.gm = s.gm
      /\ told[k] = "nothing" => s.gm = NoMaster
      /\ ~s.crossed => BoundsAre(e, s.delays)
  BY DEF AllRemembered, Remembered
<1>6. /\ EntryOK(e)
      /\ told[k] = "present" <=> e.valid
      /\ told[k] = "lost" <=> e.lost
  BY DEF IInv, ClockStates, EntryOK, LastAlertIsTrue
<1>7. f.valid = (e.valid \/ m.gm # NoMaster)
  BY <1>1, <1>6, UpdateEntry
<1>8. f.gm = IF m.gm = NoMaster THEN e.gm ELSE m.gm
  BY <1>1, UpdateDelays
<1>9. /\ t.gm = (IF m.gm = NoMaster THEN s.gm ELSE m.gm)
      /\ t.crossed = (IF TakesOver(s, m) THEN told[k] = "lost" ELSE s.crossed)
      /\ t.delays = (IF TakesOver(s, m) THEN {} ELSE s.delays)
                      \cup (IF m.type = "Delay_Resp" THEN {m.delay} \ {NoDelay} ELSE {})
  BY DEF Spanned
<1>10. f.valid => f.gm = t.gm
  BY <1>5, <1>7, <1>8, <1>9
<1>11. ev = "none" => m.gm = NoMaster \/ m.gm = e.gm
  BY DEF Detected, Changed
<1>12. told'[k] = "nothing" => t.gm = NoMaster
  <2> SUFFICES ASSUME told'[k] = "nothing" PROVE t.gm = NoMaster
    OBVIOUS
  <2>1. ev = "none" /\ told[k] = "nothing" BY <1>4
  <2>2. e.gm = NoMaster BY <1>6, <2>1 DEF EntryOK
  <2> QED BY <1>5, <1>9, <1>11, <2>1, <2>2
<1>13. ASSUME ~t.crossed PROVE BoundsAre(f, t.delays)
  <2> DEFINE over == TakesOver(s, m)
             low == IF Changed(e, m) THEN NoDelay ELSE e.minDelay
             high == IF Changed(e, m) THEN NoDelay ELSE e.maxDelay
             base == IF over THEN {} ELSE s.delays
             g == [minDelay |-> low, maxDelay |-> high]
  <2>1. over => told[k] # "lost" BY <1>9, <1>13
  <2>2. over => told[k] = "present"
    <3>1. over => told[k] # "nothing" BY <1>5 DEF TakesOver
    <3> QED BY <1>0, <2>1, <3>1
  <2>3. over <=> Changed(e, m)
    <3>1. over => Changed(e, m)
      <4> SUFFICES ASSUME over PROVE Changed(e, m)
        OBVIOUS
      <4>1. e.valid /\ e.gm = s.gm BY <1>5, <1>6, <2>2
      <4> QED BY <4>1 DEF TakesOver, Changed
    <3>2. Changed(e, m) => over
      <4> SUFFICES ASSUME Changed(e, m) PROVE over
        OBVIOUS
      <4>1. e.gm # NoMaster /\ m.gm # NoMaster /\ m.gm # e.gm BY DEF Changed
      <4>2. e.valid BY <1>6, <4>1 DEF EntryOK
      <4> QED BY <1>5, <4>1, <4>2 DEF TakesOver
    <3> QED BY <3>1, <3>2
  <2>4. ~over => ~s.crossed BY <1>9, <1>13
  <2>5. BoundsAre(g, base)
    <3>1. CASE over BY <2>3, <3>1 DEF BoundsAre
    <3>2. CASE ~over
      <4>1. BoundsAre(e, s.delays) BY <1>5, <2>4, <3>2
      <4>2. g.minDelay = e.minDelay /\ g.maxDelay = e.maxDelay /\ base = s.delays
        BY <2>3, <3>2
      <4> QED BY <4>1, <4>2 DEF BoundsAre
    <3> QED BY <3>1, <3>2
  <2>6. g.minDelay = low /\ g.maxDelay = high OBVIOUS
  <2>7. base \in SUBSET Nat BY <1>1, DataAssumption DEF Spans
  <2>8. t.delays = base \cup (IF m.type = "Delay_Resp" THEN {m.delay} \ {NoDelay} ELSE {})
    BY <1>9
  <2>9. CASE m.type # "Delay_Resp" \/ m.delay = NoDelay
    <3>1. f.minDelay = low /\ f.maxDelay = high BY <1>1, <2>9, UpdateDelays
    <3>2. t.delays = base BY <2>8, <2>9
    <3> HIDE DEF f, low, high, base, t
    <3> QED BY <2>5, <2>6, <3>1, <3>2 DEF BoundsAre
  <2>10. CASE ~(m.type # "Delay_Resp" \/ m.delay = NoDelay)
    <3>1. /\ f.minDelay = (IF low = NoDelay \/ m.delay < low THEN m.delay ELSE low)
          /\ f.maxDelay = (IF high = NoDelay \/ m.delay > high THEN m.delay ELSE high)
      BY <1>1, <2>10, UpdateDelays
    <3>2. t.delays = base \cup {m.delay} BY <2>8, <2>10
    <3>3. m.delay \in Nat BY <1>1, <2>10, DataAssumption DEF MessageShape
    <3> HIDE DEF f, low, high, base, t, g
    <3>4. BoundsAre(f, base \cup {m.delay})
      BY <2>5, <2>6, <2>7, <3>1, <3>3, BoundsGrow
    <3> QED BY <3>2, <3>4
  <2> QED BY <2>9, <2>10
<1>14. Remembered(k)'
  <2> HIDE DEF e, f, s, t
  <2> QED BY <1>4, <1>10, <1>12, <1>13 DEF Remembered, BoundsAre
<1> QED BY <1>3, <1>14 DEF AllRemembered

\* Nothing else touches the history, and a loss forgets the grandmaster only.
LEMMA StepRemembers == IInv /\ AllRemembered /\ [Next]_vars => AllRemembered'
<1> SUFFICES ASSUME IInv, AllRemembered, [Next]_vars PROVE AllRemembered' OBVIOUS
<1>0. domains \in [Keys -> Stats] BY DEF IInv, TypeOK
<1>1. ASSUME NEW k \in Keys, NEW m \in Messages(k), HandlePtp(k, m) PROVE AllRemembered'
  BY <1>1, HandleRemembers
<1>2. CASE CloseWindow
  <2> SUFFICES ASSUME NEW k \in Keys PROVE Remembered(k)'
    BY DEF AllRemembered
  <2> DEFINE c == CheckTimeout(domains[k])
  <2>1. domains'[k] = [c EXCEPT !.senders = {}] /\ span' = span
        /\ told'[k] = (IF TimedOut(domains[k]) THEN "lost" ELSE told[k])
    BY <1>2 DEF CloseWindow
  <2>2. /\ c.minDelay = domains[k].minDelay /\ c.maxDelay = domains[k].maxDelay
        /\ c.valid => domains[k].valid /\ c.gm = domains[k].gm
        /\ {"valid", "gm", "minDelay", "maxDelay"} \subseteq DOMAIN c
    <3>1. CASE TimedOut(domains[k]) BY <1>0, <3>1 DEF CheckTimeout, Stats
    <3>2. CASE ~TimedOut(domains[k]) BY <1>0, <3>2 DEF CheckTimeout, Stats
    <3> QED BY <3>1, <3>2
  <2> HIDE DEF c
  <2>3. /\ domains'[k].minDelay = c.minDelay /\ domains'[k].maxDelay = c.maxDelay
        /\ domains'[k].valid = c.valid /\ domains'[k].gm = c.gm
    BY <2>1, <2>2
  <2>4. Remembered(k) BY DEF AllRemembered
  <2> QED BY <2>1, <2>2, <2>3, <2>4 DEF Remembered, BoundsAre
<1>3. CASE Tick
  <2> SUFFICES ASSUME NEW k \in Keys PROVE Remembered(k)'
    BY DEF AllRemembered
  <2>1. domains'[k] = [domains[k] EXCEPT !.age = Least(@ + 1, AgeCap)]
        /\ span' = span /\ told' = told
    BY <1>3 DEF Tick
  <2>2. /\ domains'[k].minDelay = domains[k].minDelay
        /\ domains'[k].maxDelay = domains[k].maxDelay
        /\ domains'[k].valid = domains[k].valid /\ domains'[k].gm = domains[k].gm
    BY <1>0, <2>1 DEF Stats
  <2>3. Remembered(k) BY DEF AllRemembered
  <2> QED BY <2>1, <2>2, <2>3 DEF Remembered, BoundsAre
<1>4. CASE UNCHANGED vars
  BY <1>4 DEF vars, state, history, AllRemembered, Remembered, BoundsAre
<1> QED BY <1>1, <1>2, <1>3, <1>4 DEF Next

\* The path-delay bounds of a domain are the least and the greatest of the delays reported
\* since its grandmaster took over from another one, unless it did so across a loss.
THEOREM DelaysKept == Spec => []DelaysOfTakeover
<1>1. Init => AllRemembered
  <2> SUFFICES ASSUME Init PROVE AllRemembered OBVIOUS
  <2>1. \A k \in Keys : /\ ~domains[k].valid /\ span[k].gm = NoMaster /\ span[k].delays = {}
                        /\ domains[k].minDelay = NoDelay /\ domains[k].maxDelay = NoDelay
    BY DEF Init, NewStats
  <2> QED BY <2>1 DEF AllRemembered, Remembered, BoundsAre
<1>2. AllRemembered => DelaysOfTakeover
  BY DEF AllRemembered, Remembered, DelaysOfTakeover
<1> QED BY <1>1, <1>2, Invariance, StepRemembers, PTL DEF Spec

-----------------------------------------------------------------------------
(* The census of Sync senders. *)

\* One entry for each PTPv1 device that has sent Sync in the open Window, and no other.
Census ==
    \A k \in Keys :
        LET senders == domains[k].senders IN
        /\ IsFiniteSet(senders) /\ IsFiniteSet(syncHeard[k])
        /\ \A p \in senders : p[1] \in syncHeard[k]
        /\ \A d \in syncHeard[k] : \E p \in senders : p[1] = d
        /\ \A p, q \in senders : p[1] = q[1] => p = q
        /\ k \notin V1Keys => senders = {}

\* A finite set has two members or more exactly when it has two different ones.
LEMMA TwoOrMore ==
    ASSUME NEW S, IsFiniteSet(S)
    PROVE  Cardinality(S) >= 2 <=> \E a, b \in S : a # b
<1>0. Cardinality(S) \in Nat BY FS_CardinalityType
<1>1. ASSUME Cardinality(S) >= 2 PROVE \E a, b \in S : a # b
  <2>1. S # {} BY <1>0, <1>1, FS_EmptySet
  <2>2. PICK a \in S : TRUE BY <2>1
  <2>3. IsFiniteSet(S \ {a}) /\ Cardinality(S \ {a}) = Cardinality(S) - 1
    BY FS_RemoveElement
  <2>4. S \ {a} # {} BY <1>0, <1>1, <2>3, FS_EmptySet
  <2> QED BY <2>4
<1>2. ASSUME NEW a \in S, NEW b \in S, a # b PROVE Cardinality(S) >= 2
  <2>1. IsFiniteSet(S \ {a}) /\ Cardinality(S \ {a}) = Cardinality(S) - 1
    BY FS_RemoveElement
  <2>2. Cardinality(S \ {a}) # 0 BY <1>2, <2>1, FS_EmptySet
  <2>3. Cardinality(S \ {a}) \in Nat BY <2>1, FS_CardinalityType
  <2> QED BY <1>0, <2>1, <2>2, <2>3
<1> QED BY <1>1, <1>2

\* update records a Sync of PTPv1 under its source, in the place of an earlier one.
LEMMA UpdateSenders ==
    ASSUME NEW k \in Keys, NEW e \in Stats, NEW m \in MessageShape
    PROVE  Update(k, e, m).senders =
               IF m.type = "Sync" /\ k \in V1Keys /\ m.src # NoIp
               THEN {p \in e.senders : p[1] # m.src} \cup {<<m.src, m.stratum>>}
               ELSE e.senders
<1> DEFINE a == [e EXCEPT !.seen = TRUE, !.age = 0, !.kind = m.kind,
                             !.sync = IF m.type = "Sync" THEN TRUE ELSE @]
           b == WithMaster(a, m)
           c == WithSender(k, b, m)
<1>1. a.senders = e.senders BY DEF Stats
<1>2. b.senders = a.senders /\ "senders" \in DOMAIN b BY DEF WithMaster, Stats
<1>3. Update(k, e, m) = WithDelay(c, m) BY DEF Update
<1> HIDE DEF a, b
<1>4. c.senders = IF m.type = "Sync" /\ k \in V1Keys /\ m.src # NoIp
                  THEN {p \in b.senders : p[1] # m.src} \cup {<<m.src, m.stratum>>}
                  ELSE b.senders
  BY <1>2 DEF WithSender
<1>5. "senders" \in DOMAIN c BY <1>2 DEF WithSender
<1> HIDE DEF c
<1>6. WithDelay(c, m).senders = c.senders BY <1>5 DEF WithDelay
<1> QED BY <1>1, <1>2, <1>3, <1>4, <1>6

\* Every step keeps the census: a Sync enters it, the end of the Window empties it.
LEMMA StepCensus == IInv /\ Census /\ [Next]_vars => Census'
<1> SUFFICES ASSUME IInv, Census, [Next]_vars PROVE Census' OBVIOUS
<1>0. domains \in [Keys -> Stats] /\ syncHeard \in [Keys -> SUBSET Devices] BY DEF IInv, TypeOK
<1>1. ASSUME NEW k \in Keys, NEW m \in Messages(k), HandlePtp(k, m) PROVE Census'
  <2>1. m \in MessageShape BY MessageType
  <2>2. domains' = [domains EXCEPT ![k] = Update(k, domains[k], m)]
        /\ syncHeard' = IF k \in V1Keys /\ m.type = "Sync"
                        THEN [syncHeard EXCEPT ![k] = @ \cup {m.src}] ELSE syncHeard
    BY <1>1 DEF HandlePtp
  <2>3. k \in V1Keys /\ m.type = "Sync" => m.src # NoIp
    BY KeyAssumption, NoneAssumption DEF Messages, V1Messages, Message
  <2>4. \A j \in Keys \ {k} : domains'[j] = domains[j] /\ syncHeard'[j] = syncHeard[j]
    BY <1>0, <2>2
  <2> DEFINE old == domains[k].senders
             new == domains'[k].senders
  <2>5. new = IF m.type = "Sync" /\ k \in V1Keys
              THEN {p \in old : p[1] # m.src} \cup {<<m.src, m.stratum>>} ELSE old
    <3> DEFINE e == domains[k]
    <3>1. e \in Stats /\ domains'[k] = Update(k, e, m) BY <1>0, <2>2
    <3> HIDE DEF e
    <3>2. Update(k, e, m).senders =
             IF m.type = "Sync" /\ k \in V1Keys /\ m.src # NoIp
             THEN {p \in e.senders : p[1] # m.src} \cup {<<m.src, m.stratum>>}
             ELSE e.senders
      BY <2>1, <3>1, UpdateSenders
    <3>3. domains'[k].senders =
             IF m.type = "Sync" /\ k \in V1Keys
             THEN {p \in e.senders : p[1] # m.src} \cup {<<m.src, m.stratum>>}
             ELSE e.senders
      BY <2>3, <3>1, <3>2
    <3> QED BY <3>3 DEF e
  <2>6. syncHeard'[k] = IF m.type = "Sync" /\ k \in V1Keys
                        THEN syncHeard[k] \cup {m.src} ELSE syncHeard[k]
    BY <1>0, <2>2
  <2>7. /\ IsFiniteSet(old) /\ IsFiniteSet(syncHeard[k])
        /\ \A p \in old : p[1] \in syncHeard[k]
        /\ \A d \in syncHeard[k] : \E p \in old : p[1] = d
        /\ \A p, q \in old : p[1] = q[1] => p = q
        /\ k \notin V1Keys => old = {}
    BY DEF Census
  <2> HIDE DEF old, new
  <2>8. /\ IsFiniteSet(new) /\ IsFiniteSet(syncHeard'[k])
        /\ \A p \in new : p[1] \in syncHeard'[k]
        /\ \A d \in syncHeard'[k] : \E p \in new : p[1] = d
        /\ \A p, q \in new : p[1] = q[1] => p = q
        /\ k \notin V1Keys => new = {}
    <3>1. CASE m.type = "Sync" /\ k \in V1Keys
      <4> DEFINE rest == {p \in old : p[1] # m.src}
                 one  == <<m.src, m.stratum>>
      <4>1. new = rest \cup {one} /\ one[1] = m.src /\ syncHeard'[k] = syncHeard[k] \cup {m.src}
        BY <2>5, <2>6, <3>1
      <4>2. IsFiniteSet(rest) BY <2>7, FS_Subset
      <4>3. IsFiniteSet(new)
        <5>1. IsFiniteSet(rest \cup {one}) BY <4>2, FS_AddElement
        <5> QED BY <4>1, <5>1
      <4>4. IsFiniteSet(syncHeard'[k])
        <5>1. IsFiniteSet(syncHeard[k]) BY <2>7
        <5>2. IsFiniteSet(syncHeard[k] \cup {m.src}) BY <5>1, FS_AddElement
        <5> QED BY <4>1, <5>2
      <4> HIDE DEF one
      <4>5. \A p \in new : p[1] \in syncHeard'[k] BY <2>7, <4>1
      <4>6. \A d \in syncHeard'[k] : \E p \in new : p[1] = d BY <2>7, <4>1
      <4>7. \A p, q \in new : p[1] = q[1] => p = q BY <2>7, <4>1
      <4> QED BY <3>1, <4>3, <4>4, <4>5, <4>6, <4>7
    <3>2. CASE ~(m.type = "Sync" /\ k \in V1Keys)
      BY <2>5, <2>6, <2>7, <3>2
    <3> QED BY <3>1, <3>2
  <2> QED BY <2>4, <2>8 DEF Census, new
<1>2. CASE CloseWindow
  <2>1. ASSUME NEW k \in Keys PROVE domains'[k].senders = {} /\ syncHeard'[k] = {}
    <3>1. domains'[k] = [CheckTimeout(domains[k]) EXCEPT !.senders = {}] /\ syncHeard'[k] = {}
      BY <1>2 DEF CloseWindow
    <3>2. "senders" \in DOMAIN CheckTimeout(domains[k]) BY <1>0 DEF CheckTimeout, Stats
    <3> QED BY <3>1, <3>2
  <2> QED BY <2>1, FS_EmptySet DEF Census
<1>3. CASE Tick
  <2>1. \A k \in Keys : domains'[k].senders = domains[k].senders BY <1>0, <1>3 DEF Tick, Stats
  <2>2. syncHeard' = syncHeard BY <1>3 DEF Tick
  <2> QED BY <2>1, <2>2 DEF Census
<1>4. CASE UNCHANGED vars BY <1>4 DEF vars, state, history, Census
<1> QED BY <1>1, <1>2, <1>3, <1>4 DEF Next

\* The body of ConflictMatchesWindow.
ConflictTold ==
    CloseWindow => \A k \in Keys :
        (\E c \in conflicts' : c[1] = k) <=> (Cardinality(syncHeard[k]) >= 2)

\* The report of a Window names a Sync conflict exactly for the PTPv1 domains in which two
\* devices or more have sent Sync in that Window, however often each did and whatever
\* strata it claimed (check_ptp_sync_conflict before reset_window).
THEOREM ConflictsTold == Spec => ConflictMatchesWindow
<1>1. Init => Census
  <2> SUFFICES ASSUME Init PROVE Census OBVIOUS
  <2>1. \A k \in Keys : domains[k].senders = {} /\ syncHeard[k] = {} BY DEF Init, NewStats
  <2>2. IsFiniteSet({}) BY FS_EmptySet
  <2> QED BY <2>1, <2>2 DEF Census
<1>2. Census /\ [Next]_vars => [ConflictTold]_vars
  <2> SUFFICES ASSUME Census, CloseWindow, NEW k \in Keys
               PROVE  (\E c \in conflicts' : c[1] = k) <=> (Cardinality(syncHeard[k]) >= 2)
    BY DEF ConflictTold
  <2> DEFINE senders == domains[k].senders
  <2>1. /\ IsFiniteSet(senders) /\ IsFiniteSet(syncHeard[k])
        /\ \A p \in senders : p[1] \in syncHeard[k]
        /\ \A d \in syncHeard[k] : \E p \in senders : p[1] = d
        /\ \A p, q \in senders : p[1] = q[1] => p = q
        /\ k \notin V1Keys => senders = {}
    BY DEF Census
  <2>2. (\E c \in conflicts' : c[1] = k) <=> SyncConflict(k) # "none"
    <3>1. conflicts' = {<<j, SyncConflict(j)>> : j \in {i \in Keys : SyncConflict(i) # "none"}}
      BY DEF CloseWindow
    <3>2. SyncConflict(k) # "none" => <<k, SyncConflict(k)>> \in conflicts' BY <3>1
    <3>3. ASSUME NEW c \in conflicts', c[1] = k PROVE SyncConflict(k) # "none"
      <4>1. PICK j \in Keys : SyncConflict(j) # "none" /\ c = <<j, SyncConflict(j)>> BY <3>1
      <4> QED BY <3>3, <4>1
    <3>4. <<k, SyncConflict(k)>>[1] = k OBVIOUS
    <3> QED BY <3>2, <3>3, <3>4
  <2>3. SyncConflict(k) # "none" <=> k \in V1Keys /\ ~(Cardinality(senders) <= 1)
    BY DEF SyncConflict
  <2>4. Cardinality(senders) \in Nat BY <2>1, FS_CardinalityType
  <2>5. ~(Cardinality(senders) <= 1) <=> \E p, q \in senders : p # q
    BY <2>1, <2>4, TwoOrMore
  <2>6. Cardinality(syncHeard[k]) >= 2 <=> \E a, b \in syncHeard[k] : a # b
    BY <2>1, TwoOrMore
  <2> HIDE DEF senders
  <2>7. (\E p, q \in senders : p # q) <=> (\E a, b \in syncHeard[k] : a # b) BY <2>1
  <2>8. (\E p, q \in senders : p # q) => k \in V1Keys BY <2>1
  <2> QED BY <2>2, <2>3, <2>5, <2>6, <2>7, <2>8
<1>3. Spec => [][ConflictTold]_vars
  BY <1>1, <1>2, Invariance, StepCensus, PTL DEF Spec
<1> QED BY <1>3 DEF ConflictMatchesWindow, ConflictTold

-----------------------------------------------------------------------------
(* PtpClock implements ClockStatus. *)

MappedStatus  == [k \in Keys |-> StatusOf(domains[k])]
MappedSilence == [k \in Keys |-> Least(domains[k].age, ClockTimeout + 1)]

\* A message that arrives is heard, and now.
LEMMA UpdateHeard ==
    ASSUME NEW k \in Keys, NEW e \in Stats, NEW m \in MessageShape
    PROVE  Update(k, e, m).seen = TRUE /\ Update(k, e, m).age = 0
<1> DEFINE a == [e EXCEPT !.seen = TRUE, !.age = 0, !.kind = m.kind,
                             !.sync = IF m.type = "Sync" THEN TRUE ELSE @]
           b == WithMaster(a, m)
           c == WithSender(k, b, m)
<1>1. /\ a.seen = TRUE /\ a.age = 0
      /\ {"seen", "age", "senders", "minDelay", "maxDelay"} \subseteq DOMAIN a
  BY DEF Stats
<1> HIDE DEF a
<1>2. /\ b.seen = TRUE /\ b.age = 0
      /\ {"seen", "age", "senders", "minDelay", "maxDelay"} \subseteq DOMAIN b
  BY <1>1 DEF WithMaster
<1> HIDE DEF b
<1>3. /\ c.seen = TRUE /\ c.age = 0
      /\ {"seen", "age", "minDelay", "maxDelay"} \subseteq DOMAIN c
  BY <1>2 DEF WithSender
<1> HIDE DEF c
<1>4. WithDelay(c, m).seen = TRUE /\ WithDelay(c, m).age = 0
  BY <1>3 DEF WithDelay
<1> QED BY <1>4 DEF Update, a, b, c

\* At first no domain has been heard.
LEMMA InitMaps == Init => Status!Init
<1> SUFFICES ASSUME Init PROVE Status!Init OBVIOUS
<1>1. \A k \in Keys : StatusOf(domains[k]) = "unheard" BY DEF Init, NewStats, StatusOf
<1>2. \A k \in Keys : Least(domains[k].age, ClockTimeout + 1) = 0
  BY TimeAssumption DEF Init, NewStats, Least
<1> QED BY <1>1, <1>2 DEF Init, Status!Init, Status!Unheard

\* A message names the grandmaster of its domain or does not.
LEMMA HandleMaps ==
    ASSUME IInv, NEW k \in Keys, NEW m \in Messages(k), HandlePtp(k, m)
    PROVE  Status!Unnamed(k) \/ Status!Named(k)
<1> DEFINE old == domains[k]  new == Update(k, old, m)
<1>1. m \in MessageShape BY MessageType
<1>2. domains \in [Keys -> Stats] /\ old \in Stats /\ EntryOK(old)
  BY DEF IInv, TypeOK, ClockStates, EntryOK
<1>3. /\ new.seen = TRUE /\ new.age = 0
      /\ new.valid = (old.valid \/ m.gm # NoMaster)
      /\ new.lost = (old.lost /\ m.gm = NoMaster)
  BY <1>1, <1>2, UpdateHeard, UpdateEntry
<1>4. domains' = [domains EXCEPT ![k] = new] BY DEF HandlePtp
<1>5. /\ m.gm = NoMaster => events' = {}
      /\ m.gm # NoMaster /\ ~old.valid => events' = {<<k, "Detected">>}
      /\ m.gm # NoMaster /\ old.valid => events' \in {{}, {<<k, "Changed">>}}
  BY <1>2 DEF HandlePtp, Detected, Changed, EntryOK
<1> HIDE DEF new
<1>6. \A j \in Keys : domains'[j] = IF j = k THEN new ELSE domains[j]
  BY <1>2, <1>4
<1>7. MappedSilence' = [MappedSilence EXCEPT ![k] = 0]
  <2>1. Least(new.age, ClockTimeout + 1) = 0 BY <1>3, TimeAssumption DEF Least
  <2> QED BY <1>6, <2>1 DEF MappedSilence
<1>8. old.valid \in BOOLEAN /\ old.lost \in BOOLEAN /\ old.seen \in BOOLEAN
  BY <1>2 DEF Stats
<1>9. CASE m.gm = NoMaster
  <2>1. StatusOf(new) = IF StatusOf(old) = "unheard" THEN "unnamed" ELSE StatusOf(old)
    BY <1>3, <1>8, <1>9 DEF StatusOf
  <2>2. MappedStatus' = [MappedStatus EXCEPT ![k] = IF @ = "unheard" THEN "unnamed" ELSE @]
    BY <1>6, <2>1 DEF MappedStatus
  <2> QED BY <1>5, <1>7, <1>9, <2>2 DEF Status!Unnamed, Status!Follower, MappedStatus, MappedSilence
<1>10. CASE m.gm # NoMaster
  <2>1. StatusOf(new) = "present" BY <1>3, <1>10 DEF StatusOf
  <2>2. MappedStatus' = [MappedStatus EXCEPT ![k] = "present"]
    BY <1>6, <2>1 DEF MappedStatus
  <2>3. old.valid <=> MappedStatus[k] = "present" BY <1>8 DEF MappedStatus, StatusOf
  <2> QED BY <1>5, <1>7, <1>10, <2>2, <2>3 DEF Status!Named, Status!Master, MappedStatus, MappedSilence
<1> QED BY <1>9, <1>10

\* The end of a Window loses the overdue clocks and no other.
LEMMA CloseMaps == IInv /\ CloseWindow => Status!CloseWindow
<1> SUFFICES ASSUME IInv, CloseWindow PROVE Status!CloseWindow OBVIOUS
<1>0. domains \in [Keys -> Stats] /\ \A j \in Keys : EntryOK(domains[j])
  BY DEF IInv, TypeOK, ClockStates, EntryOK
<1>1. \A j \in Keys : /\ domains'[j].valid = (domains[j].valid /\ ~TimedOut(domains[j]))
                      /\ domains'[j].lost = (domains[j].lost \/ TimedOut(domains[j]))
                      /\ domains'[j].seen = domains[j].seen
                      /\ domains'[j].age = domains[j].age
  <2> TAKE j \in Keys
  <2> DEFINE c == CheckTimeout(domains[j])
  <2>1. /\ c \in Stats /\ c.valid = (domains[j].valid /\ ~TimedOut(domains[j]))
        /\ c.lost = (domains[j].lost \/ TimedOut(domains[j]))
    BY <1>0, CheckTimeoutEntry
  <2>2. c.seen = domains[j].seen /\ c.age = domains[j].age
    BY <1>0 DEF CheckTimeout, Stats
  <2>3. domains'[j] = [c EXCEPT !.senders = {}] BY DEF CloseWindow
  <2> HIDE DEF c
  <2> QED BY <2>1, <2>2, <2>3 DEF Stats
<1>2. \A j \in Keys : /\ domains[j].valid \in BOOLEAN /\ domains[j].lost \in BOOLEAN
                      /\ domains[j].seen \in BOOLEAN /\ domains[j].age \in Nat
  BY <1>0, TimeAssumption DEF Stats
<1>3. \A j \in Keys : Status!Overdue(j) <=> TimedOut(domains[j])
  BY <1>2, TimeAssumption DEF Status!Overdue, TimedOut, StatusOf, Least
<1>4. \A j \in Keys : StatusOf(domains[j])' =
                        IF TimedOut(domains[j]) THEN "lost" ELSE StatusOf(domains[j])
  <2> TAKE j \in Keys
  <2>1. CASE TimedOut(domains[j]) BY <1>1, <1>2, <2>1 DEF StatusOf
  <2>2. CASE ~TimedOut(domains[j]) BY <1>1, <1>2, <2>2 DEF StatusOf
  <2> QED BY <2>1, <2>2
<1>5. MappedSilence' = MappedSilence BY <1>1 DEF MappedSilence
<1>6. MappedStatus' = [j \in Keys |-> IF Status!Overdue(j) THEN "lost" ELSE MappedStatus[j]]
  BY <1>3, <1>4 DEF MappedStatus
<1>7. events' = {<<j, "Lost">> : j \in {i \in Keys : Status!Overdue(i)}}
  BY <1>3 DEF CloseWindow
<1> QED BY <1>5, <1>6, <1>7 DEF Status!CloseWindow, Status!Timeouts, MappedStatus, MappedSilence

\* Ages grow alike, up to where they matter.
LEMMA TickMaps == IInv /\ Tick => Status!Tick
<1> SUFFICES ASSUME IInv, Tick PROVE Status!Tick OBVIOUS
<1>0. domains \in [Keys -> Stats] BY DEF IInv, TypeOK
<1>1. \A j \in Keys : /\ domains'[j].age = Least(domains[j].age + 1, AgeCap)
                      /\ domains'[j].valid = domains[j].valid
                      /\ domains'[j].lost = domains[j].lost
                      /\ domains'[j].seen = domains[j].seen
  BY <1>0 DEF Tick, Stats
<1>2. \A j \in Keys : domains[j].age \in 0..AgeCap BY <1>0 DEF Stats
<1>3. \A j \in Keys : Least(domains'[j].age, ClockTimeout + 1) =
          IF MappedSilence[j] > ClockTimeout THEN MappedSilence[j] ELSE MappedSilence[j] + 1
  BY <1>1, <1>2, TimeAssumption DEF MappedSilence, Least
<1>4. MappedSilence' = [j \in Keys |-> IF MappedSilence[j] > ClockTimeout
                                      THEN MappedSilence[j] ELSE MappedSilence[j] + 1]
  BY <1>3 DEF MappedSilence
<1>5. MappedStatus' = MappedStatus BY <1>1 DEF MappedStatus, StatusOf
<1>6. events' = {} BY DEF Tick
<1> QED BY <1>4, <1>5, <1>6 DEF Status!Tick, Status!Age, MappedStatus, MappedSilence

\* Every step of the PTP substate is a step of the promise, or none.
LEMMA StepMaps == IInv /\ [Next]_vars => [Status!Next]_(Status!vars)
<1> SUFFICES ASSUME IInv, [Next]_vars PROVE [Status!Next]_(Status!vars) OBVIOUS
<1>1. ASSUME NEW k \in Keys, NEW m \in Messages(k), HandlePtp(k, m) PROVE Status!Next
  BY <1>1, HandleMaps DEF Status!Next
<1>2. CASE CloseWindow BY <1>2, CloseMaps DEF Status!Next
<1>3. CASE Tick BY <1>3, TickMaps DEF Status!Next
<1>4. CASE UNCHANGED vars
  BY <1>4 DEF vars, state, Status!vars, Status!life
<1> QED BY <1>1, <1>2, <1>3, <1>4 DEF Next

\* PtpState keeps the promise of ClockStatus: what the score, the missing clocks and the
\* alerts rely on follows from update and check_timeout.
THEOREM Refinement == Spec => ImplementsStatus
<1>1. Spec => Status!Spec
  BY InitMaps, StepMaps, Invariance, PTL DEF Spec, Status!Spec
<1> QED BY <1>1 DEF ImplementsStatus
=============================================================================
