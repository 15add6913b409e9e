------------------------------ MODULE PtpClock ------------------------------
(***************************************************************************)
(* The PTP substate of the capture loop (PtpState, PtpStats): one entry per *)
(* (domain, version) that follows the grandmaster of that domain, declares *)
(* its clock lost after a silence, and takes a census of the devices that  *)
(* send Sync in the current Window and of the PTPv1 followers.             *)
(*                                                                         *)
(* Time is kept as ages: the code only ever compares now - last_seen with  *)
(* a threshold, so an age that saturates above every threshold says all    *)
(* that an Instant does and the clock itself need not be bounded.          *)
(***************************************************************************)
EXTENDS Integers, FiniteSets

CONSTANTS
    V1Keys, V2Keys,  \* the (domain, version) entries on the network
    Devices,         \* source addresses of PTP over UDP
    Masters,         \* grandmaster identities
    NoMaster, NoIp,  \* Option::None of a grandmaster and of a source address
    Strata,          \* PTPv1 strata, 0 is Dante's "preferred"
    Delays,          \* path delays a Delay_Resp may report
    ClockTimeout,    \* PtpStats.timeout_secs
    FollowerPrune,   \* age at which a PTPv1 follower is forgotten
    AgeCap,          \* bound: ages saturate here
    ChangesCap       \* bound: grandmaster_changes saturates here (3 in the score)

Keys == V1Keys \cup V2Keys

NoStratum == 255
NoDelay   == -1
Gone      == AgeCap + 1   \* the age of an address the census does not hold

ASSUME KeyAssumption  == V1Keys \cap V2Keys = {}
ASSUME NoneAssumption == NoMaster \notin Masters /\ NoIp \notin Devices
ASSUME DataAssumption == Strata \subseteq 0..254 /\ Delays \subseteq Nat
ASSUME TimeAssumption ==
    /\ ClockTimeout \in Nat /\ FollowerPrune \in Nat /\ AgeCap \in Nat
    /\ ChangesCap \in Nat
    /\ ClockTimeout < AgeCap /\ FollowerPrune < AgeCap

VARIABLES
    domains,    \* PtpState.domains, one PtpStats per key; absent while ~seen
    followers,  \* PtpState.v1_followers: age of the last Delay_Req, or Gone
    events,     \* alerts of the last step: <<key, "Detected"|"Changed"|"Lost">>
    conflicts,  \* check_ptp_sync_conflict of the last closed Window
    syncHeard,  \* history: senders of PTPv1 Sync since the last CloseWindow
    told,       \* history: last event announced for the key
    kinds,      \* history: protocol kinds whose messages an entry counted
    masterAge,  \* history: age of the last message naming a grandmaster
    span        \* history: the grandmaster last named, the delays since, how it took over

state   == <<domains, followers>>
history == <<syncHeard, told, kinds, masterAge, span>>
vars    == <<state, events, conflicts, history>>

-----------------------------------------------------------------------------
(* Messages, as parse_ptp and detect_protocol deliver them.                *)

Message(type, kind, src, gm, stratum, delay) ==
    [type |-> type, kind |-> kind, src |-> src, gm |-> gm,
     stratum |-> stratum, delay |-> delay]

\* A PTPv1 Sync names a grandmaster and its stratum, unless its body is short or
\* its uuid zero.  "Other" stands for Follow_Up, management and signalling.
V1Messages ==
    {Message("Sync", "IP", d, g, s, NoDelay) : d \in Devices, g \in Masters, s \in Strata}
    \cup {Message(t, "IP", d, NoMaster, NoStratum, NoDelay) :
             t \in {"Sync", "Delay_Req", "Other"}, d \in Devices}

\* Only the Announce of PTPv2 names a grandmaster.  gPTP comes in Ethernet
\* frames, without a source address; its link-delay exchange (Delay_Resp stands
\* for P_Delay_Resp too) runs on every port, with or without a grandmaster.
V2Messages ==
    UNION {
        {Message("Announce", from[1], from[2], g, NoStratum, NoDelay) : g \in Masters}
        \cup {Message(t, from[1], from[2], NoMaster, NoStratum, NoDelay) :
                 t \in {"Sync", "Delay_Req", "Other"}}
        \cup {Message("Delay_Resp", from[1], from[2], NoMaster, NoStratum, p) : p \in Delays}
        : from \in ({"IP"} \X Devices) \cup {<<"AVB", NoIp>>} }

Messages(k) == IF k \in V1Keys THEN V1Messages ELSE V2Messages

-----------------------------------------------------------------------------
(* PtpStats. *)

NewStats == [seen |-> FALSE, kind |-> "IP", age |-> 0, gm |-> NoMaster,
             valid |-> FALSE, lost |-> FALSE, changes |-> 0, gmSrc |-> NoIp, sync |-> FALSE,
             minDelay |-> NoDelay, maxDelay |-> NoDelay,
             senders |-> {}]   \* sync_senders_this_window as <<source, stratum>>

Least(a, b) == IF a <= b THEN a ELSE b

\* What a message naming a grandmaster does to the entry.
Detected(e, m)  == e.gm = NoMaster /\ m.gm # NoMaster
Changed(e, m)   == e.gm # NoMaster /\ m.gm # NoMaster /\ m.gm # e.gm

\* Mutation of WithMaster: the sticky "lost" flag survives the recovery.
WithMasterStillLost(e, m) ==
    IF m.gm = NoMaster THEN e
    ELSE [e EXCEPT !.gm = m.gm, !.valid = TRUE,
            !.gmSrc = IF m.src = NoIp THEN @ ELSE m.src,
            !.changes = IF Changed(e, m) THEN Least(@ + 1, ChangesCap) ELSE @,
            !.minDelay = IF Changed(e, m) THEN NoDelay ELSE @,
            !.maxDelay = IF Changed(e, m) THEN NoDelay ELSE @]

\* Mutation of WithMaster: the path-delay history of the former grandmaster is kept.
WithMasterKeepDelays(e, m) ==
    IF m.gm = NoMaster THEN e
    ELSE [e EXCEPT !.gm = m.gm, !.valid = TRUE, !.lost = FALSE,
            !.gmSrc = IF m.src = NoIp THEN @ ELSE m.src,
            !.changes = IF Changed(e, m) THEN Least(@ + 1, ChangesCap) ELSE @]

\* PtpStats::update, block by block: every message refreshes last_seen.
WithMaster(e, m) ==
    IF m.gm = NoMaster THEN e
    ELSE [e EXCEPT
            !.gm       = m.gm,
            !.valid    = TRUE,
            !.lost     = FALSE,
            !.gmSrc    = IF m.src = NoIp THEN @ ELSE m.src,
            !.changes  = IF Changed(e, m) THEN Least(@ + 1, ChangesCap) ELSE @,
            !.minDelay = IF Changed(e, m) THEN NoDelay ELSE @,
            !.maxDelay = IF Changed(e, m) THEN NoDelay ELSE @]

WithSender(k, e, m) ==
    IF m.type = "Sync" /\ k \in V1Keys /\ m.src # NoIp
    THEN [e EXCEPT !.senders = {p \in @ : p[1] # m.src} \cup {<<m.src, m.stratum>>}]
    ELSE e

WithDelay(e, m) ==
    IF m.type # "Delay_Resp" \/ m.delay = NoDelay THEN e
    ELSE [e EXCEPT
            !.minDelay = IF @ = NoDelay \/ m.delay < @ THEN m.delay ELSE @,
            !.maxDelay = IF @ = NoDelay \/ m.delay > @ THEN m.delay ELSE @]

Update(k, e, m) ==
    WithDelay(WithSender(k, WithMaster(
        [e EXCEPT !.seen = TRUE, !.age = 0, !.kind = m.kind,
                  !.sync = IF m.type = "Sync" THEN TRUE ELSE @], m), m), m)

\* PtpStats::check_timeout.
TimedOut(e) == e.valid /\ e.age > ClockTimeout

\* Mutation of CheckTimeout: the lost grandmaster is remembered, so that its
\* return is not detected again.
CheckTimeoutKeepMaster(e) ==
    IF TimedOut(e) THEN [e EXCEPT !.valid = FALSE, !.lost = TRUE] ELSE e

\* Mutation of CheckTimeout: the clock is never declared lost.
CheckTimeoutNever(e) == e

CheckTimeout(e) ==
    IF TimedOut(e) THEN [e EXCEPT !.valid = FALSE, !.lost = TRUE, !.gm = NoMaster]
                   ELSE e

-----------------------------------------------------------------------------
(* Actions. *)

Init ==
    /\ domains   = [k \in Keys |-> NewStats]
    /\ followers = [d \in Devices |-> Gone]
    /\ events    = {}
    /\ conflicts = {}
    /\ syncHeard = [k \in Keys |-> {}]
    /\ told      = [k \in Keys |-> "nothing"]
    /\ kinds     = [k \in Keys |-> {}]
    /\ masterAge = [k \in Keys |-> AgeCap]
    /\ span      = [k \in Keys |-> [gm |-> NoMaster, delays |-> {}, crossed |-> FALSE]]

\* What was measured under the grandmaster named last: nothing before it took over from
\* another one, be it across a loss of the clock.
TakesOver(s, m) == s.gm # NoMaster /\ m.gm \notin {NoMaster, s.gm}

Spanned(s, m, lost) ==
    [gm      |-> IF m.gm = NoMaster THEN s.gm ELSE m.gm,
     delays  |-> (IF TakesOver(s, m) THEN {} ELSE s.delays)
                    \cup IF m.type = "Delay_Resp" THEN {m.delay} \ {NoDelay} ELSE {},
     crossed |-> IF TakesOver(s, m) THEN lost ELSE s.crossed]

\* CaptureState::handle_ptp.
HandlePtp(k, m) ==
    LET old == domains[k]
        new == Update(k, old, m)
        ev  == IF Detected(old, m) THEN "Detected"
               ELSE IF Changed(old, m) THEN "Changed" ELSE "none"
    IN  /\ domains' = [domains EXCEPT ![k] = new]
        /\ followers' = IF k \in V1Keys /\ m.type = "Delay_Req" /\ m.src # NoIp
                        THEN [followers EXCEPT ![m.src] = 0] ELSE followers
        /\ events' = IF ev = "none" THEN {} ELSE {<<k, ev>>}
        /\ told' = IF ev = "none" THEN told ELSE [told EXCEPT ![k] = "present"]
        /\ syncHeard' = IF k \in V1Keys /\ m.type = "Sync"
                        THEN [syncHeard EXCEPT ![k] = @ \cup {m.src}] ELSE syncHeard
        /\ kinds' = [kinds EXCEPT ![k] = @ \cup {m.kind}]
        /\ masterAge' = IF m.gm # NoMaster THEN [masterAge EXCEPT ![k] = 0] ELSE masterAge
        /\ span' = [span EXCEPT ![k] = Spanned(@, m, told[k] = "lost")]
        /\ UNCHANGED conflicts

\* PtpState::check_ptp_sync_conflict: only PTPv1 entries, two senders or more.
SyncConflict(k) ==
    LET senders   == domains[k].senders
        preferred == {p \in senders : p[2] = 0}
    IN  IF k \notin V1Keys \/ Cardinality(senders) <= 1 THEN "none"
        ELSE IF Cardinality(preferred) >= 2 THEN "preferred" ELSE "competing"

\* Mutation of CloseWindow: the census of Sync senders is not cleared.
CloseWindowKeepSenders ==
    /\ domains' = [k \in Keys |-> CheckTimeout(domains[k])]
    /\ events'  = {<<k, "Lost">> : k \in {j \in Keys : TimedOut(domains[j])}}
    /\ conflicts' = {<<k, SyncConflict(k)>> : k \in {j \in Keys : SyncConflict(j) # "none"}}
    /\ followers' = [d \in Devices |-> IF followers[d] < FollowerPrune
                                       THEN followers[d] ELSE Gone]
    /\ told' = [k \in Keys |-> IF TimedOut(domains[k]) THEN "lost" ELSE told[k]]
    /\ syncHeard' = [k \in Keys |-> {}]
    /\ UNCHANGED <<kinds, masterAge, span>>

\* The PTP part of close_window, in the order end_of_window fixes: timeouts,
\* sync conflicts, then PtpState::reset_window.
CloseWindow ==
    /\ domains' = [k \in Keys |-> [CheckTimeout(domains[k]) EXCEPT !.senders = {}]]
    /\ events'  = {<<k, "Lost">> : k \in {j \in Keys : TimedOut(domains[j])}}
    /\ conflicts' = {<<k, SyncConflict(k)>> : k \in {j \in Keys : SyncConflict(j) # "none"}}
    /\ followers' = [d \in Devices |-> IF followers[d] < FollowerPrune
                                       THEN followers[d] ELSE Gone]
    /\ told' = [k \in Keys |-> IF TimedOut(domains[k]) THEN "lost" ELSE told[k]]
    /\ syncHeard' = [k \in Keys |-> {}]
    /\ UNCHANGED <<kinds, masterAge, span>>

\* One unit of time passes.
Tick ==
    /\ domains' = [k \in Keys |-> [domains[k] EXCEPT !.age = Least(@ + 1, AgeCap)]]
    /\ followers' = [d \in Devices |-> IF followers[d] = Gone THEN Gone
                                       ELSE Least(followers[d] + 1, AgeCap)]
    /\ masterAge' = [k \in Keys |-> Least(masterAge[k] + 1, AgeCap)]
    /\ events' = {}
    /\ UNCHANGED <<conflicts, syncHeard, told, kinds, span>>

Next ==
    \/ \E k \in Keys : \E m \in Messages(k) : HandlePtp(k, m)
    \/ CloseWindow
    \/ Tick

Spec == Init /\ [][Next]_vars

\* Time passes and Windows close; that messages arrive is never assumed.
FairSpec == Spec /\ WF_vars(Tick) /\ WF_vars(CloseWindow)

-----------------------------------------------------------------------------
(* What the rest of the program may rely on. *)

StatusOf(e) ==
    IF e.valid THEN "present"
    ELSE IF e.lost THEN "lost"
    ELSE IF e.seen THEN "unnamed" ELSE "unheard"

\* render_clock_sources, of a domain that has been heard: what its line says.
Heading(e) ==
    IF e.gm # NoMaster /\ e.valid THEN "grandmaster"
    ELSE IF e.gm # NoMaster THEN "clock lost"
    ELSE IF e.sync THEN "sync but no announce" ELSE "no sync"

Status == INSTANCE ClockStatus WITH
    Domains <- Keys,
    status  <- [k \in Keys |-> StatusOf(domains[k])],
    silence <- [k \in Keys |-> Least(domains[k].age, ClockTimeout + 1)],
    alerts  <- events

-----------------------------------------------------------------------------
(* Properties. *)

Stats == [seen : BOOLEAN, kind : {"IP", "AVB"}, age : 0..AgeCap,
          gm : Masters \cup {NoMaster}, valid : BOOLEAN, lost : BOOLEAN,
          changes : 0..ChangesCap, gmSrc : Devices \cup {NoIp}, sync : BOOLEAN,
          minDelay : Delays \cup {NoDelay}, maxDelay : Delays \cup {NoDelay},
          senders : SUBSET (Devices \X (Strata \cup {NoStratum}))]

TypeOK ==
    /\ domains \in [Keys -> Stats]
    /\ followers \in [Devices -> 0..Gone]
    /\ events \in SUBSET (Keys \X {"Detected", "Changed", "Lost"})
    /\ conflicts \in SUBSET (Keys \X {"preferred", "competing"})
    /\ syncHeard \in [Keys -> SUBSET Devices]
    /\ told \in [Keys -> {"nothing", "present", "lost"}]
    /\ kinds \in [Keys -> SUBSET {"IP", "AVB"}]
    /\ masterAge \in [Keys -> 0..AgeCap]
    /\ span \in [Keys -> [gm : Masters \cup {NoMaster}, delays : SUBSET Delays,
                            crossed : BOOLEAN]]

\* A clock is valid exactly while the entry names a grandmaster, is never valid
\* and lost at once, and a path-delay history has both its bounds or none
\* (PtpStats::update against check_timeout).
ClockStates ==
    \A k \in Keys : LET e == domains[k] IN
        /\ e.valid <=> e.gm # NoMaster
        /\ ~(e.valid /\ e.lost)
        /\ e.valid \/ e.lost => e.seen
        /\ e.minDelay = NoDelay <=> e.maxDelay = NoDelay
        /\ e.minDelay <= e.maxDelay

\* The last alert about a domain is the truth about it: "detected" or "changed"
\* while its clock is valid, "lost" from the loss to the recovery, none before
\* the first grandmaster.  This is what the sticky protocol_clock_lost is for.
LastAlertIsTrue ==
    \A k \in Keys :
        /\ told[k] = "present" <=> domains[k].valid
        /\ told[k] = "lost" <=> domains[k].lost

\* The bounds of an entry are the least and the greatest of a set of delays.
BoundsAre(e, delays) ==
    IF delays = {} THEN e.minDelay = NoDelay /\ e.maxDelay = NoDelay
    ELSE /\ {e.minDelay, e.maxDelay} \subseteq delays
         /\ \A d \in delays : e.minDelay <= d /\ d <= e.maxDelay

\* "Path-delay history from the previous master is meaningless; reset so the spread metric
\* reflects the new clock's stability" (PtpStats::update): the bounds are those of the delays
\* reported since the domain's grandmaster took over from another one, also through a loss
\* after which the same one returns.  A grandmaster that takes over while the clock is lost
\* is taken for the first one, and excepted.
DelaysOfTakeover ==
    \A k \in Keys : ~span[k].crossed => BoundsAre(domains[k], span[k].delays)

\* "Sync seen, no Announce - no grandmaster elected" (render_clock_sources) is said of no
\* domain whose grandmaster was announced before.
HeadingIsTrue ==
    \A k \in Keys : Heading(domains[k]) = "sync but no announce" => told[k] = "nothing"

\* Every loss is announced once and only of a clock announced before; after it
\* the grandmaster is detected again, not "changed".
AlertOrder ==
    [][\A k \in Keys :
        /\ <<k, "Lost">> \in events' => told[k] = "present"
        /\ <<k, "Changed">> \in events' => told[k] = "present"
        /\ <<k, "Detected">> \in events' => told[k] # "present"]_vars

\* The Window's report names a Sync conflict exactly for the PTPv1 domains in
\* which two devices sent Sync in that same Window (check_ptp_sync_conflict runs
\* before reset_window clears the census, and reset_window does clear it).
ConflictMatchesWindow ==
    [][CloseWindow => \A k \in Keys :
           (\E c \in conflicts' : c[1] = k) <=> (Cardinality(syncHeard[k]) >= 2)]_vars

\* PtpState keeps the promise of ClockStatus: its clocks move between heard, present and
\* lost as announced and in no other way, whatever else update and check_timeout remember
\* (handle_ptp returns the alert before the entry it is about is read again).
ImplementsStatus == Status!Spec

\* A domain in which nothing is heard any more does not stay valid.
SilenceEndsValidity ==
    \A k \in Keys : (domains[k].valid /\ domains[k].age = AgeCap)
                        ~> (~domains[k].valid \/ domains[k].age = 0)

\* "Clock is currently present and valid" (PtpStats.clock_valid): a clock whose
\* grandmaster has not been named for a long time is declared lost, or the
\* grandmaster is named again, whatever the followers go on sending.
AbsentMasterEndsValidity ==
    \A k \in Keys : (domains[k].valid /\ masterAge[k] = AgeCap)
                        ~> (~domains[k].valid \/ masterAge[k] = 0)

\* "PTP stats for a specific (domain, version, protocol_kind) combination".
OneKindPerEntry == \A k \in Keys : Cardinality(kinds[k]) <= 1

\* The same as DelaysOfTakeover, also when the clock was lost in between.
DelaysOfOneMaster == \A k \in Keys : BoundsAre(domains[k], span[k].delays)

=============================================================================
