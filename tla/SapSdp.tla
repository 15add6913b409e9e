------------------------------- MODULE SapSdp -------------------------------
(***************************************************************************)
(* Session Announcements: the SDP a SAP packet carries (parse_sap_packet,  *)
(* parse_sdp), the bounded cache of sessions, and the descriptions of the  *)
(* streams that come from it, whether the announcement or the first packet *)
(* of the stream is first (handle_sap, find_sdp_media, apply_sdp), and the *)
(* check of the announced grandmasters against those on the wire           *)
(* (ts_refclk_alerts).                                                     *)
(*                                                                         *)
(* A document is [lines, means]: its lines, and what its author says of    *)
(* each flow it describes.  A line is [is, ...] for the types parse_sdp    *)
(* looks at.  A flow is <<group, port>>.                                   *)
(***************************************************************************)
EXTENDS Integers, SequencesExt, FiniteSetsExt

CONSTANTS
    Documents,
    Flows,
    Domains,        \* PTP domain and version pairs that are on the wire
    Masters,
    MaxSessions,    \* MAX_SDP_SESSIONS
    Prune,          \* STREAM_PRUNE_SECS
    Window, Slack,
    DefaultHz,
    NoGroup, NoRefclk

ASSUME CacheAssumption ==
    /\ MaxSessions \in Nat \ {0} /\ Prune \in Nat \ {0}
    /\ Window \in Nat \ {0} /\ Slack \in Nat
ASSUME DocumentAssumption == \A d \in Documents : DOMAIN d.means \subseteq Flows

VARIABLES
    cache,          \* sdp_cache: sessions by id
    streams,        \* the streams by flow, with the age of their last packet
    clocks,         \* PtpState.domains: [heard, gm, valid] by domain and version
    elapsed,
    alerts,         \* ts_refclk_alerts of the last Window
    means,          \* history: what the last announcement says of each flow
    certain,        \* history: flows whose stream had only that one to be described by
    unclear         \* history: flows the last document to speak of them is not clear about

sdpVars == <<cache, streams, clocks, elapsed, alerts, means, certain, unclear>>

Unsaid   == [hz |-> 0, pt |-> -1, id |-> ""]
NoStream == [hz |-> 0, pt |-> -1, age |-> -1]
Started  == [NoStream EXCEPT !.age = 0]
NewMedia == [port |-> 0, pts |-> <<>>, group |-> NoGroup, hz |-> 0, refclk |-> NoRefclk]

SdpInit ==
    /\ cache = [id \in {} |-> NewMedia]
    /\ streams = [f \in Flows |-> NoStream]
    /\ clocks = [d \in Domains |-> [heard |-> FALSE, gm |-> NoRefclk, valid |-> FALSE]]
    /\ elapsed = 0 /\ alerts = {}
    /\ means = [f \in Flows |-> Unsaid] /\ certain = {} /\ unclear = {}

-----------------------------------------------------------------------------
(* The document. *)

Unreadable == -1

Amend(s, amended) == [s EXCEPT !.media = Append(Front(s.media), amended)]

\* Connections and attributes count in a media section only, not in the session's own.  A
\* media line that is too short opens no section and ends the one before.  A rate that
\* cannot be read is the default; one of 0 says nothing.
Line(s, line) ==
    LET m == IF s.open THEN Last(s.media) ELSE NewMedia
    IN  CASE line.is = "o" -> [s EXCEPT !.id = line.id]
          [] line.is = "m" /\ line.ok ->
                [s EXCEPT !.media = Append(@, [NewMedia EXCEPT !.port = line.port,
                                                               !.pts = line.pts]),
                          !.open = TRUE]
          [] line.is = "m" /\ ~line.ok -> [s EXCEPT !.open = FALSE]
          [] line.is = "c" /\ s.open -> Amend(s, [m EXCEPT !.group = line.group])
          [] line.is = "rtpmap" /\ s.open ->
                Amend(s, [m EXCEPT !.hz = IF line.hz = Unreadable THEN DefaultHz ELSE line.hz])
          [] line.is = "ts-refclk" /\ s.open -> Amend(s, [m EXCEPT !.refclk = line.refclk])
          [] OTHER -> s

ParseSdp(lines) == FoldLeft(Line, [id |-> "", media |-> <<>>, open |-> FALSE], lines)

\* An announcement of version 1 with something after its header; a deletion is ignored.
ParseSap(sap) ==
    {s \in {ParseSdp(sap.document.lines)} : sap.version = 1 /\ ~sap.deletion /\ sap.whole}

-----------------------------------------------------------------------------
(* Streams and sessions. *)

Exists(f) == streams[f] # NoStream

\* Mutation of Describes: the port alone.
DescribesPort(m, f) == m.port = f[2]

\* Without a connection of its own a media section is matched by its port alone.
Describes(m, f) == m.port = f[2] /\ m.group \in {NoGroup, f[1]}

Sections(s, f) == {i \in DOMAIN s.media : Describes(s.media[i], f)}

\* What sections say one after the other, of what was known before: the last that says
\* something is right.
Rate(s, sections, before) ==
    LET said == {i \in sections : s.media[i].hz > 0}
    IN  IF said = {} THEN before ELSE s.media[Max(said)].hz

Type(s, sections, before) ==
    LET said == {i \in sections : s.media[i].pts # <<>>}
    IN  IF said = {} THEN before ELSE Head(s.media[Max(said)].pts)

\* apply_sdp of each section: what it says is taken, what it leaves out is kept.
Apply(stream, s, sections) ==
    [stream EXCEPT !.hz = Rate(s, sections, @), !.pt = Type(s, sections, @)]

-----------------------------------------------------------------------------
(* What documents say, apart from how the code looks it up.                  *)

\* A section speaks of a flow that has its port, and its connection if it has one.
SpeaksOf(m, f) == m.port = f[2] /\ (m.group = f[1] \/ m.group = NoGroup)

Says(s, sections, meant) ==
    /\ \E i \in sections : s.media[i].hz > 0
    /\ \E i \in sections : s.media[i].pts # <<>>
    /\ Rate(s, sections, 0) = meant.hz /\ Type(s, sections, 0) = meant.pt

\* A document is clear about a flow it does not mean when no section speaks of it, and about
\* one it means when those that do, together and the first alone, say what its author means.
Clear(d, f) ==
    LET s  == ParseSdp(d.lines)
        of == {i \in DOMAIN s.media : SpeaksOf(s.media[i], f)}
    IN  IF f \notin DOMAIN d.means THEN of = {}
        ELSE /\ d.means[f].id = s.id
             /\ of # {}
             /\ \A said \in {of, {Min(of)}} : Says(s, said, d.means[f])

-----------------------------------------------------------------------------
(* The announcement and the stream. *)

Active(s) == \E i \in DOMAIN s.media, f \in Flows : Exists(f) /\ f[2] = s.media[i].port

\* The sessions cache_sdp may evict: those without a stream first; the order of the map
\* is arbitrary.
Victims ==
    LET stale == {id \in DOMAIN cache : ~Active(cache[id])}
    IN  IF stale # {} THEN stale ELSE DOMAIN cache

CacheSdp(s) ==
    \E victim \in IF s.id \in DOMAIN cache \/ Cardinality(DOMAIN cache) < MaxSessions
                  THEN {{}} ELSE {{v} : v \in Victims} :
        cache' = [id \in (DOMAIN cache \ victim) \cup {s.id} |->
                     IF id = s.id THEN s ELSE cache[id]]

\* handle_sap: every stream a section describes is described anew, in the order of the
\* sections, then the session is cached.  (The groups are joined: Named of Igmp.)
HandleSap(s) ==
    /\ streams' = [f \in Flows |->
                      IF Exists(f) THEN Apply(streams[f], s, Sections(s, f)) ELSE streams[f]]
    /\ CacheSdp(s)

Sap(sap) ==
    /\ IF ParseSap(sap) = {} THEN UNCHANGED <<cache, streams, means, certain, unclear>>
       ELSE LET d == sap.document
            IN  /\ \A s \in ParseSap(sap) : HandleSap(s)
                /\ means' = [f \in Flows |-> IF f \in DOMAIN d.means THEN d.means[f] ELSE means[f]]
                /\ certain' = certain \cup DOMAIN d.means
                /\ unclear' = (unclear \ DOMAIN d.means) \cup {f \in Flows : ~Clear(d, f)}
    /\ alerts' = {}
    /\ UNCHANGED <<clocks, elapsed>>

\* find_sdp_media: the first section that describes the flow, of any cached session.
Matches(f) == {id \in DOMAIN cache : Sections(cache[id], f) # {}}

FirstSection(s, f) == {Min(Sections(s, f))}

\* The first packet of a stream takes what the cache says, later ones only the time.
\* AES67 and ST 2110 streams do the same.
MediaPacket(f) ==
    /\ IF Exists(f)
       THEN streams' = [streams EXCEPT ![f].age = 0] /\ UNCHANGED certain
       ELSE /\ \E described \in IF Matches(f) = {} THEN {Started}
                  ELSE {Apply(Started, cache[id], FirstSection(cache[id], f)) : id \in Matches(f)} :
                 streams' = [streams EXCEPT ![f] = described]
            /\ certain' = IF Matches(f) = {means[f].id} THEN certain ELSE certain \ {f}
    /\ alerts' = {}
    /\ UNCHANGED <<cache, clocks, elapsed, means, unclear>>

-----------------------------------------------------------------------------
(* Time and the end of a Window. *)

\* PTP as PtpClock has it: any grandmaster or none yet, valid or lost.
Clock(d) ==
    /\ \E gm \in Masters \cup {NoRefclk}, valid \in BOOLEAN :
           clocks' = [clocks EXCEPT ![d] = [heard |-> TRUE, gm |-> gm, valid |-> valid]]
    /\ alerts' = {}
    /\ UNCHANGED <<cache, streams, elapsed, means, certain, unclear>>

Tick ==
    /\ elapsed < Window + Slack
    /\ elapsed' = elapsed + 1
    /\ streams' = [f \in Flows |-> IF Exists(f) THEN [streams[f] EXCEPT !.age = @ + 1]
                                   ELSE NoStream]
    /\ alerts' = {}
    /\ UNCHANGED <<cache, clocks, means, certain, unclear>>

\* The entry of the domain, of PTPv2 before PTPv1, whichever the session means, and with or
\* without a grandmaster.
Entry(domain) ==
    LET heard == {v \in {1, 2} : <<domain, v>> \in Domains /\ clocks[<<domain, v>>].heard}
    IN  {clocks[<<domain, v>>] : v \in {w \in heard : w = Max(heard)}}

\* Of the sessions with a stream: a claim of a domain nobody has heard, or of another
\* grandmaster than the valid one.  A refclk that is not PTP (localmac) claims nothing.
RefclkAlerts ==
    LET claims == UNION {{m.refclk : m \in Range(cache[id].media)} \ {NoRefclk} :
                            id \in {k \in DOMAIN cache : Active(cache[k])}}
    IN  {c \in claims : \A e \in Entry(c.domain) :
                        e.valid /\ e.gm \notin {NoRefclk, c.gm}}

SdpWindow ==
    /\ elapsed >= Window
    /\ elapsed' = 0
    /\ alerts' = RefclkAlerts
    /\ streams' = [f \in Flows |-> IF streams[f].age >= Prune THEN NoStream
                                   ELSE streams[f]]
    /\ UNCHANGED <<cache, clocks, means, certain, unclear>>

SdpNext ==
    \/ \E d \in Documents, deletion \in BOOLEAN :
           Sap([document |-> d, version |-> 1, deletion |-> deletion, whole |-> TRUE])
    \/ \E f \in Flows : MediaPacket(f)
    \/ \E d \in Domains : Clock(d)
    \/ Tick
    \/ SdpWindow

SdpSpec == SdpInit /\ [][SdpNext]_sdpVars

-----------------------------------------------------------------------------
(* Properties. *)

Described(flows) ==
    \A f \in flows : Exists(f) =>
        streams[f].hz = means[f].hz /\ streams[f].pt = means[f].pt

\* A stream is described as its author last announced it, whether the announcement or the
\* first packet came first and whatever else was announced between: provided that the
\* stream was there to hear it, or found no other session when it came, and that the last
\* document to speak of the stream is clear about it.  A section without a connection of
\* its own is clear about the stream it means, and not about another one on the same port.
LatestAnnouncementDescribes == Described(certain \ unclear)

\* The same, whatever the documents: a stream on the port of a section without connection
\* takes what is meant of another one.
AnyAnnouncementDescribes == Described(certain)

\* The same for streams that come back: what describes them is the last announcement.
ReturnedAsAnnounced ==
    \A f \in Flows : Exists(f) /\ means[f] # Unsaid /\ means[f].id \in DOMAIN cache
        => streams[f].hz = means[f].hz

\* "each SDP-claimed grandmaster matches what's actually on the wire": an alert is about
\* the clock of the version the session names.
RefclkAlertTrue ==
    \A c \in alerts : LET d == <<c.domain, c.version>> IN
        d \in Domains /\ clocks[d].valid => clocks[d].gm # c.gm

=============================================================================
