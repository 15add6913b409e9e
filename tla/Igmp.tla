-------------------------------- MODULE Igmp --------------------------------
(***************************************************************************)
(* IGMP as the monitor sees and uses it: the General Queries that tell it  *)
(* of a querier, of its interval and of its silence (NetworkHealth), the   *)
(* queriers and Joins of IgmpState, and the multicast groups the monitor   *)
(* itself joins when a membership report or a Session Announcement names   *)
(* them (queue_multicast_join, drain_pending_joins).                       *)
(*                                                                         *)
(* A live capture.  The environment is a set of queriers that query at a   *)
(* fixed period, until they stop; queries may be lost.  Times are ages.    *)
(***************************************************************************)
EXTENDS Integers, FiniteSets

CONSTANTS
    Queriers,       \* queriers, by address
    Switches,       \* snooping switches, which send Group-Specific Queries
    Groups,
    Memberships,    \* of hosts in groups: <<host, group>>
    Scoped,         \* groups in 239.0.0.0/8
    Wanted,         \* groups should_join_group accepts
    Startup,        \* groups join_multicast_groups has joined
    MaxReported,    \* groups in one report or announcement
    Period,         \* query interval of the queriers
    MaxMissed,      \* queries of one querier lost in a row
    Fallback,       \* silence tolerated before an interval is known
    Margin,         \* seconds added to twice the interval
    JoinTtl,        \* IGMP_JOIN_DEDUP_TTL_SECS
    Window, Slack,  \* report period; how late a Window may close
    NoInterval

ASSUME SetAssumption ==
    /\ Scoped \subseteq Groups /\ Wanted \subseteq Scoped /\ Startup \subseteq Groups
    /\ IsFiniteSet(Queriers) /\ NoInterval \notin Nat
ASSUME TimeAssumption ==
    /\ Period \in Nat \ {0} /\ MaxMissed \in Nat /\ MaxReported \in Nat
    /\ Fallback \in Nat /\ Margin \in Nat /\ JoinTtl \in Nat
    /\ Window \in Nat \ {0} /\ Slack \in Nat

\* "2x the RFC default": the fallback spans a missed query.
ASSUME FallbackAssumption == 2 * Period <= Fallback

VARIABLES
    lastQuery,      \* NetworkHealth.last_igmp_query: its age, NoQuery when none
    interval,       \* igmp_query_interval_secs, NoInterval when unknown
    heardQueriers,  \* IgmpState.querier_ips_this_window
    version,        \* IgmpState.querier_version, 0 when unknown
    v3Seen,         \* IgmpState.v3_report_seen_this_window
    joins,          \* IgmpState.joins_seen: ages, JoinCap when absent
    joined,         \* CaptureState.joined_multicast
    mcJoined,       \* LiveConfig.mc_joined
    sockets,        \* sockets open per group
    elapsed,        \* time since the last Window closed
    alerts,         \* Joins announced in the last step
    report,         \* what the last Window reported, and whether multicast flowed
    present,        \* environment: queriers that still query
    phase,          \* environment: time since each querier's last query
    missed,         \* history: queries lost since the one last heard
    heardAge,       \* history: age of each querier's last query heard, NoQuery when none
    joinAge         \* history: age of each host's last Join, JoinCap after a Leave

querier == <<lastQuery, interval, heardQueriers, version>>
groups  == <<joined, mcJoined, sockets>>
network == <<present, phase, missed, heardAge>>
vars == <<querier, v3Seen, joins, groups, elapsed, alerts, report, network, joinAge>>

\* Beyond it no silence is told apart: the longest interval is that of the losses.
AgeCap  == Fallback + 2 * (MaxMissed + 1) * Period + Margin + 1
JoinCap == JoinTtl + Window + Slack + 1
NoQuery == AgeCap + 1

NoReport == [multicast |-> FALSE, silent |-> FALSE, conflict |-> FALSE, mismatch |-> FALSE]

Older(age, cap) == IF age < cap THEN age + 1 ELSE cap

QueryOlder(age) == IF age = NoQuery THEN NoQuery ELSE Older(age, AgeCap)

Init ==
    /\ lastQuery = NoQuery /\ interval = NoInterval
    /\ heardQueriers = {} /\ version = 0 /\ v3Seen = FALSE
    /\ joins = [j \in Memberships |-> JoinCap]
    /\ joined = {} /\ mcJoined = {}
    /\ sockets = [g \in Groups |-> IF g \in Startup THEN 1 ELSE 0]
    /\ elapsed = 0 /\ alerts = {} /\ report = NoReport
    /\ present = Queriers
    /\ phase \in [Queriers -> 0..Period]
    /\ missed = [q \in Queriers |-> 0]
    /\ heardAge = [q \in Queriers |-> NoQuery]
    /\ joinAge = [j \in Memberships |-> JoinCap]

-----------------------------------------------------------------------------
(* handle_igmp: queries.  Only a General Query establishes a querier. *)

\* The time since the General Query before, from whichever querier.
Interval == IF lastQuery = NoQuery THEN interval ELSE lastQuery

GeneralQuery(q, v) ==
    /\ q \in present /\ phase[q] = Period
    /\ interval' = Interval
    /\ lastQuery' = 0
    /\ heardQueriers' = heardQueriers \cup {q}
    /\ version' = v
    /\ phase' = [phase EXCEPT ![q] = 0]
    /\ missed' = [missed EXCEPT ![q] = 0]
    /\ heardAge' = [heardAge EXCEPT ![q] = 0]
    /\ alerts' = {} /\ report' = NoReport
    /\ UNCHANGED <<v3Seen, joins, groups, elapsed, present, joinAge>>

\* Mutation of GroupQuery: the sender counts as a querier.
GroupQueryCounts(w) ==
    /\ heardQueriers' = heardQueriers \cup {w}
    /\ lastQuery' = 0
    /\ alerts' = {} /\ report' = NoReport
    /\ UNCHANGED <<interval, version, v3Seen, joins, groups, elapsed, network, joinAge>>

\* Membership verification by a snooping switch changes nothing.
GroupQuery(w) ==
    /\ alerts' = {} /\ report' = NoReport
    /\ UNCHANGED <<querier, v3Seen, joins, groups, elapsed, network, joinAge>>

-----------------------------------------------------------------------------
(* handle_igmp: memberships. *)

\* Mutation of SeenJoin: the time of the first Join is kept.
SeenJoinFirst(j) == IF joins[j] = JoinCap THEN 0 ELSE joins[j]

\* The time every Join leaves in the map.
SeenJoin(j) == 0

Join(j) ==
    /\ alerts' = IF joins[j] = JoinCap THEN {j} ELSE {}
    /\ joins' = [joins EXCEPT ![j] = SeenJoin(j)]
    /\ joinAge' = [joinAge EXCEPT ![j] = 0]
    /\ report' = NoReport
    /\ UNCHANGED <<querier, v3Seen, groups, elapsed, network>>

Leave(j) ==
    /\ joins' = [joins EXCEPT ![j] = JoinCap]
    /\ joinAge' = [joinAge EXCEPT ![j] = JoinCap]
    /\ alerts' = {} /\ report' = NoReport
    /\ UNCHANGED <<querier, v3Seen, groups, elapsed, network>>

\* queue_multicast_join for every group named: the places in the queue.
Pending(named) == {i \in DOMAIN named : named[i] \in Scoped \ joined}

\* Mutation of Opened: what this drain has joined itself is overlooked.
OpenedAgain(named, ok) == {i \in Pending(named) : ok[i] /\ named[i] \in Wanted \ mcJoined}

\* drain_pending_joins: the queued joins that open a socket, given which attempts
\* succeed; a group joined earlier in the queue is not joined again.
Opened(named, ok) ==
    {i \in Pending(named) :
        /\ ok[i] /\ named[i] \in Wanted \ mcJoined
        /\ \A j \in Pending(named) : j < i => ~(ok[j] /\ named[j] = named[i])}

Drain(named, ok) ==
    LET opened == Opened(named, ok)
        new    == {named[i] : i \in opened}
    IN  /\ joined' = joined \cup new
        /\ mcJoined' = mcJoined \cup new
        /\ sockets' = [g \in Groups |->
                          sockets[g] + Cardinality({i \in opened : named[i] = g})]

\* An IGMPv3 report (v3) or a Session Announcement names groups, and the loop drains
\* the queue before the next packet.  What an announcement does to the streams it
\* describes is ApplySdp of RtpStream.
Named(named, v3, ok) ==
    /\ Drain(named, ok)
    /\ v3Seen' = (v3Seen \/ v3)
    /\ alerts' = {} /\ report' = NoReport
    /\ UNCHANGED <<querier, joins, elapsed, network, joinAge>>

-----------------------------------------------------------------------------
(* The environment, and time. *)

Lose(q) ==
    /\ q \in present /\ phase[q] = Period
    /\ missed[q] < MaxMissed
    /\ phase' = [phase EXCEPT ![q] = 0]
    /\ missed' = [missed EXCEPT ![q] = @ + 1]
    /\ alerts' = {} /\ report' = NoReport
    /\ UNCHANGED <<querier, v3Seen, joins, groups, elapsed, present, heardAge, joinAge>>

Stop(q) ==
    /\ q \in present
    /\ present' = present \ {q}
    /\ alerts' = {} /\ report' = NoReport
    /\ UNCHANGED <<querier, v3Seen, joins, groups, elapsed, phase, missed, heardAge, joinAge>>

\* No query is late, and no Window closes later than Slack.
Tick ==
    /\ elapsed < Window + Slack
    /\ \A q \in present : phase[q] < Period
    /\ elapsed' = elapsed + 1
    /\ lastQuery' = QueryOlder(lastQuery)
    /\ joins' = [j \in Memberships |-> Older(joins[j], JoinCap)]
    /\ joinAge' = [j \in Memberships |-> Older(joinAge[j], JoinCap)]
    /\ phase' = [q \in Queriers |-> Older(phase[q], Period)]
    /\ heardAge' = [q \in Queriers |-> QueryOlder(heardAge[q])]
    /\ alerts' = {} /\ report' = NoReport
    /\ UNCHANGED <<interval, heardQueriers, version, v3Seen, groups, present, missed>>

-----------------------------------------------------------------------------
(* The end of a Window. *)

\* Mutation of SilentAfter: the silence of a single interval is too long.
SilentAfterOne == IF interval = NoInterval THEN Fallback ELSE interval + Margin

\* querier_silent_after_secs.
SilentAfter == IF interval = NoInterval THEN Fallback ELSE interval * 2 + Margin

\* The querier-absent penalty, of a querier never heard too; none is due without
\* multicast (has_multicast).
Silent(multicast) == multicast /\ lastQuery > SilentAfter

Conflict(multicast) == multicast /\ Cardinality(heardQueriers) >= 2

\* Mutation of ResetQueriers: the queriers of the Window are not forgotten.
ResetQueriersKeep == heardQueriers

ResetQueriers == {}

\* end_of_window's IGMP checks, the querier penalties, then IgmpState::reset_window.
CloseWindow ==
    /\ elapsed >= Window
    /\ \E multicast \in BOOLEAN :
         report' = [multicast |-> multicast,
                    silent    |-> Silent(multicast),
                    conflict  |-> Conflict(multicast),
                    mismatch  |-> version = 2 /\ v3Seen]
    /\ heardQueriers' = ResetQueriers
    /\ v3Seen' = FALSE
    /\ joins' = [j \in Memberships |-> IF joins[j] >= JoinTtl THEN JoinCap ELSE joins[j]]
    /\ elapsed' = 0 /\ alerts' = {}
    /\ UNCHANGED <<lastQuery, interval, version, groups, network, joinAge>>

Next ==
    \/ \E q \in Queriers, v \in {2, 3} : GeneralQuery(q, v)
    \/ \E w \in Switches : GroupQuery(w)
    \/ \E q \in Queriers : Lose(q)
    \/ \E q \in Queriers : Stop(q)
    \/ \E j \in Memberships : Join(j)
    \/ \E j \in Memberships : Leave(j)
    \/ \E n \in 1..MaxReported : \E named \in [1..n -> Groups], v3 \in BOOLEAN,
           ok \in [1..n -> BOOLEAN] : Named(named, v3, ok)
    \/ Tick
    \/ CloseWindow

Spec == Init /\ [][Next]_vars

-----------------------------------------------------------------------------
(* Properties. *)

TypeOK ==
    /\ lastQuery \in 0..NoQuery /\ interval \in 0..AgeCap \cup {NoInterval}
    /\ heardQueriers \subseteq Queriers \cup Switches /\ version \in {0, 2, 3} /\ v3Seen \in BOOLEAN
    /\ joins \in [Memberships -> 0..JoinCap] /\ joinAge \in [Memberships -> 0..JoinCap]
    /\ joined \subseteq Groups /\ mcJoined \subseteq Groups /\ sockets \in [Groups -> Nat]
    /\ elapsed \in 0..(Window + Slack) /\ alerts \subseteq Memberships
    /\ report \in [multicast : BOOLEAN, silent : BOOLEAN, conflict : BOOLEAN, mismatch : BOOLEAN]
    /\ present \subseteq Queriers /\ phase \in [Queriers -> 0..Period]
    /\ missed \in [Queriers -> 0..MaxMissed] /\ heardAge \in [Queriers -> 0..NoQuery]

\* "A single missed query" is no reason to call the querier silent: with one querier on
\* the network, a report says so only if it has gone or two queries in a row were lost
\* (querier_silent_after_secs).
OneMissedQueryIsNotSilence ==
    [][CloseWindow =>
        (report'.silent => \A q \in present :
            {r \in Queriers : heardAge[r] # NoQuery} = {q} => missed[q] >= 2)]_vars

\* When nothing has been heard for twice the longest interval the losses can have
\* produced, the silence is reported, whatever Group-Specific Queries there were.
SilenceIsNoticed ==
    [][CloseWindow =>
        (/\ report'.multicast
         /\ \A q \in Queriers : heardAge[q] >= AgeCap
         => report'.silent)]_vars

QueriedLately == {q \in Queriers : heardAge[q] <= Window + Slack}

\* A conflict is reported only when two queriers have sent General Queries in the
\* Window that closes: neither those of the last Window nor Group-Specific ones count.
ConflictIsReal ==
    [][CloseWindow => (report'.conflict => Cardinality(QueriedLately) >= 2)]_vars

\* The Join of a host is announced again only after a Leave, or when the host has not
\* repeated it for the dedup time: the repetitions refresh the entry.
JoinAnnouncedOnce == [][\A j \in alerts' : joinAge[j] >= JoinTtl]_vars

\* The sockets open: one for a group joined at startup, and one for a group joined since.
SocketsCounted ==
    \A g \in Groups :
        sockets[g] = (IF g \in Startup THEN 1 ELSE 0) + (IF g \in mcJoined THEN 1 ELSE 0)

\* The two stores of joined groups hold the same groups, all of them wanted ones.
StoresAgree == joined = mcJoined /\ mcJoined \subseteq Wanted

\* Reports and announcements open at most one socket for a group, the one the stores
\* remember, although they may name it twice, attempts may fail and be repeated, and two
\* stores remember what has been joined (drain_pending_joins).  A group joined at startup
\* is in neither store: it is the one that can have two sockets.
JoinsAgree == TypeOK /\ SocketsCounted /\ StoresAgree

\* The same with startup counted: no group is joined twice.
OneSocketPerGroup == \A g \in Groups : sockets[g] <= 1

\* The same with several queriers: the monitor hears all their queries, and none has
\* missed two.
QueriedIsNotSilent ==
    [][CloseWindow =>
        (report'.silent =>
            \A q \in present : heardAge[q] = NoQuery \/ missed[q] >= 2)]_vars

\* "multiple competing queriers" reduce the score: two queriers that are both heard
\* within their period are reported as such whenever multicast flows.
CompetingQueriersScored ==
    [][CloseWindow =>
        (/\ report'.multicast
         /\ Cardinality({q \in present : heardAge[q] <= Period}) >= 2
         => report'.conflict)]_vars

=============================================================================
