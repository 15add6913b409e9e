---------------------------- MODULE DanteDevices ----------------------------
(***************************************************************************)
(* The Dante substate (DanteState) and what its checks read of the others: *)
(* devices are discovered by mDNS, by their ConMon frames or by their      *)
(* control plane, kept in maps of bounded size, named, watched for         *)
(* silence and for the same device on both redundant networks.  Every      *)
(* check of a Window reads the maps before reset_window prunes them; the   *)
(* Discovered section of its report is drawn from what the reset leaves.   *)
(* The census of the followers is in Advisories.                           *)
(*                                                                         *)
(* A live capture; a source has at most one stream; times are ages.        *)
(***************************************************************************)
EXTENDS Integers, FiniteSets

CONSTANTS
    Ips,            \* source addresses
    Local,          \* addresses of the capture interface
    Talkers,        \* addresses that may send audio
    Macs,           \* devices that send ConMon, by their MAC
    Classes,        \* transmitter classes a control plane reveals
    NoMac, NoClass,
    MaxSources,     \* DanteState::MAX_SOURCES
    Threshold,      \* DanteState::UNVERIFIED_THRESHOLD
    Window, Slack,  \* report period; how late a Window may close
    StreamPrune, ConmonPrune

ASSUME SetAssumption ==
    /\ IsFiniteSet(Ips) /\ Local \subseteq Ips /\ Talkers \subseteq Ips
    /\ NoMac \notin Macs /\ NoClass \notin Classes \cup {"Hardware"}
ASSUME SizeAssumption == MaxSources \in Nat \ {0} /\ Threshold \in Nat \ {0}
ASSUME TimeAssumption ==
    /\ Window \in Nat \ {0} /\ Slack \in Nat
    /\ StreamPrune \in Nat /\ ConmonPrune \in Nat

\* What is heard within a Window outlives the reset that closes it.
ASSUME PruneAssumption == Window + Slack < StreamPrune /\ Window + Slack < ConmonPrune

VARIABLES
    sources,     \* DanteState.sources
    named,       \* the keys of DanteState.names
    class,       \* DanteState.transmitter_class, NoClass when absent
    conmon,      \* DanteState.conmon: MAC and age, NoMac when absent
    silent,      \* DanteState.unverified_windows, 0 when absent
    streams,     \* per source: its Dante stream, its age, and whether it has a name
    elapsed,     \* time since the last Window closed
    report,      \* what the last Window reported
    nics,        \* environment: the addresses each device has at present
    heard,       \* history: addresses heard (ConMon or audio) in the open Window
    macHeard,    \* history: last MAC heard from the address in the open Window
    idle         \* history: closed Windows in a row in which nothing was heard

devices == <<sources, named, class, conmon, silent, streams>>
history == <<heard, macHeard, idle>>
vars    == <<devices, elapsed, report, nics, history>>

NoConmon == [mac |-> NoMac, age |-> 0]
NoStream == [known |-> FALSE, age |-> 0, named |-> FALSE]
NoReport == [printed |-> FALSE, unverified |-> {}, bridged |-> {}, verified |-> {},
             pending |-> {}, live |-> "none"]

Older(age, cap) == IF age < cap THEN age + 1 ELSE cap

Init ==
    /\ sources = {} /\ named = {}
    /\ class  = [ip \in Ips |-> NoClass]
    /\ conmon = [ip \in Ips |-> NoConmon]
    /\ silent = [ip \in Ips |-> 0]
    /\ streams = [ip \in Ips |-> NoStream]
    /\ elapsed = 0
    /\ report = NoReport
    /\ nics \in [Macs -> {{ip} : ip \in Ips}]
    /\ heard = {}
    /\ macHeard = [ip \in Ips |-> NoMac]
    /\ idle = [ip \in Ips |-> 0]

-----------------------------------------------------------------------------
(* DanteState::record_source.                                               *)

\* What record_bounded_source may evict for a new address: any one entry, in the
\* order of the hash set, when the set is full.
Evictable(ip) ==
    IF ip \notin sources /\ Cardinality(sources) >= MaxSources
    THEN {{v} : v \in sources} ELSE {{}}

\* Mutation of RecordSource: an evicted device keeps its name.
RecordSourceKeepName(ip, victim, name) ==
    /\ sources' = (sources \ victim) \cup {ip}
    /\ named'   = named \cup (IF name THEN {ip} ELSE {})

RecordSource(ip, victim, name) ==
    /\ sources' = (sources \ victim) \cup {ip}
    /\ named'   = (named \ victim) \cup (IF name THEN {ip} ELSE {})

\* record_tx_class: Hardware never replaces a more specific class.
RecordClass(ip, victim, c) ==
    class' = [v \in Ips |->
                 IF v \in victim THEN NoClass
                 ELSE IF v = ip /\ (c # "Hardware" \/ class[v] = NoClass) THEN c
                 ELSE class[v]]

EvictClass(victim) == class' = [v \in Ips |-> IF v \in victim THEN NoClass ELSE class[v]]

-----------------------------------------------------------------------------
(* handle_dante.  No report is printed by a packet.                         *)

\* A name names the stream of the device unless it has one.
Backfill(ip, name) ==
    streams' = [streams EXCEPT ![ip].named = @ \/ (name /\ streams[ip].known)]

Discovery(ip, name) ==
    /\ ip \notin Local
    /\ \E victim \in Evictable(ip) :
         /\ RecordSource(ip, victim, name)
         /\ EvictClass(victim)
    /\ Backfill(ip, name)
    /\ report' = NoReport
    /\ UNCHANGED <<conmon, silent, elapsed, nics, history>>

\* The ConMon entry after a frame: its MAC and its time are refreshed.
Heartbeat(ip, mac) == [mac |-> mac, age |-> 0]

ConMon(ip, mac) ==
    /\ ip \in nics[mac] \ Local
    /\ conmon' = [conmon EXCEPT ![ip] = Heartbeat(ip, mac)]
    /\ \E victim \in Evictable(ip) :
         /\ RecordSource(ip, victim, FALSE)
         /\ RecordClass(ip, victim, "Hardware")
    /\ heard' = heard \cup {ip}
    /\ macHeard' = [macHeard EXCEPT ![ip] = mac]
    /\ report' = NoReport
    /\ UNCHANGED <<silent, streams, elapsed, nics, idle>>

ControlPlane(ip, c) ==
    /\ ip \notin Local
    /\ \E victim \in Evictable(ip) :
         /\ RecordSource(ip, victim, FALSE)
         /\ RecordClass(ip, victim, c)
    /\ report' = NoReport
    /\ UNCHANGED <<conmon, silent, streams, elapsed, nics, history>>

\* A new stream takes the name of its source, if that is known.
AudioStream(ip) ==
    /\ streams' = [streams EXCEPT ![ip] =
            [known |-> TRUE, age |-> 0,
             named |-> IF @.known THEN @.named ELSE ip \in named]]
    /\ heard' = heard \cup {ip}
    /\ report' = NoReport
    /\ UNCHANGED <<sources, named, class, conmon, silent, elapsed, nics,
                   macHeard, idle>>

\* A device gets another address, or is plugged into the other network as well.
Rewire(mac, ips) ==
    /\ nics' = [nics EXCEPT ![mac] = ips]
    /\ report' = NoReport
    /\ UNCHANGED <<devices, elapsed, history>>

Tick ==
    /\ elapsed < Window + Slack
    /\ elapsed' = elapsed + 1
    /\ conmon' = [ip \in Ips |-> [conmon[ip] EXCEPT !.age = Older(@, ConmonPrune)]]
    /\ streams' = [ip \in Ips |-> [streams[ip] EXCEPT !.age = Older(@, StreamPrune)]]
    /\ report' = NoReport
    /\ UNCHANGED <<sources, named, class, silent, nics, heard, macHeard, idle>>

-----------------------------------------------------------------------------
(* The checks of a Window, and its reset. *)

Unverified == {ip \in sources : silent[ip] >= Threshold}

\* Mutation of Bridged: two addresses are not yet enough.
BridgedBeyondTwo ==
    {mac \in Macs : Cardinality({ip \in Ips : conmon[ip].mac = mac}) > 2}

\* check_conmon_bridge: one MAC at two addresses.
Bridged ==
    {mac \in Macs : Cardinality({ip \in Ips : conmon[ip].mac = mac}) >= 2}

\* streams.retain: what the verification of the sources reads is what is left.
PrunedStreams ==
    [ip \in Ips |-> IF streams[ip].age >= StreamPrune THEN NoStream ELSE streams[ip]]

PrunedConmon ==
    [ip \in Ips |-> IF conmon[ip].age >= ConmonPrune THEN NoConmon ELSE conmon[ip]]

\* Mutation of Active: only a stream shows that a device is alive.
ActiveStream(ip) == PrunedStreams[ip].known

Active(ip) == PrunedStreams[ip].known \/ PrunedConmon[ip].mac # NoMac

\* Mutation of CountSilent: a device once counted is counted for ever.
CountSilentNever(ip) == IF Active(ip) THEN 0 ELSE silent[ip]

\* The counters of DanteState::reset_window, which saturate at the threshold.
CountSilent(ip) ==
    IF ip \notin sources \/ Active(ip) THEN 0 ELSE Older(silent[ip], Threshold)

\* The Discovered section: how many of the devices that are not flagged are live, by ConMon.
Live ==
    LET entries == Cardinality({ip \in Ips : PrunedConmon[ip].mac # NoMac})
    IN  IF entries = 0 THEN "none"
        ELSE IF entries = Cardinality(sources) - Cardinality(Unverified) THEN "all" ELSE "some"

\* render_discovery lists every source, with its name or as pending, or as unverified.
CloseWindow ==
    /\ elapsed >= Window
    /\ report' = [printed    |-> TRUE,
                  unverified |-> Unverified,
                  bridged    |-> Bridged,
                  verified   |-> sources \ Unverified,
                  pending    |-> sources \ named,
                  live       |-> Live]
    /\ streams'   = PrunedStreams
    /\ conmon'    = PrunedConmon
    /\ silent'    = [ip \in Ips |-> CountSilent(ip)]
    /\ elapsed' = 0
    /\ idle' = [ip \in Ips |-> IF ip \in heard THEN 0 ELSE Older(idle[ip], Threshold)]
    /\ heard' = {}
    /\ macHeard' = [ip \in Ips |-> NoMac]
    /\ UNCHANGED <<sources, named, class, nics>>

Next ==
    \/ \E ip \in Ips, name \in BOOLEAN : Discovery(ip, name)
    \/ \E mac \in Macs : \E ip \in nics[mac] : ConMon(ip, mac)
    \/ \E ip \in Ips, c \in Classes : ControlPlane(ip, c)
    \/ \E ip \in Talkers : AudioStream(ip)
    \/ \E mac \in Macs, ips \in SUBSET Ips : Rewire(mac, ips)
    \/ Tick
    \/ CloseWindow

Spec == Init /\ [][Next]_vars

\* Time passes and the capture loop closes its Windows.
FairSpec == Spec /\ WF_vars(Tick) /\ WF_vars(CloseWindow)

-----------------------------------------------------------------------------
(* Properties. *)

TypeOK ==
    /\ sources \subseteq Ips /\ named \subseteq Ips
    /\ class \in [Ips -> Classes \cup {"Hardware", NoClass}]
    /\ conmon \in [Ips -> [mac : Macs \cup {NoMac}, age : 0..ConmonPrune]]
    /\ silent \in [Ips -> 0..Threshold]
    /\ streams \in [Ips -> [known : BOOLEAN, age : 0..StreamPrune, named : BOOLEAN]]
    /\ elapsed \in 0..(Window + Slack)
    /\ report \in [printed : BOOLEAN, unverified : SUBSET Ips, bridged : SUBSET Macs,
                   verified : SUBSET Ips, pending : SUBSET Ips, live : {"none", "some", "all"}]
    /\ nics \in [Macs -> SUBSET Ips]
    /\ heard \subseteq Ips
    /\ macHeard \in [Ips -> Macs \cup {NoMac}]
    /\ idle \in [Ips -> 0..Threshold]

\* "Keeping the per-source maps bounded": never more than MaxSources devices, and
\* neither a name nor a class of a device that has been evicted (record_source).  The
\* ConMon entries and the counters of silent Windows are not of these maps: an eviction
\* leaves both, and ConMon entries go by their age alone.
SourcesBounded ==
    /\ Cardinality(sources) <= MaxSources
    /\ named \subseteq sources
    /\ \A ip \in Ips : class[ip] # NoClass => ip \in sources

\* Whichever comes first, the announcement of a name or the first audio packet,
\* the stream of a device with a known name bears a name ("retroactive naming").
StreamsNamed == \A ip \in named : streams[ip].known => streams[ip].named

\* The maps of the devices agree with each other and with the streams, in whatever order
\* devices are announced, heard, evicted and announced again.
DeviceMapsAgree == TypeOK /\ SourcesBounded /\ StreamsNamed

\* A device is called unverified only after Threshold closed Windows in a row in
\* which neither ConMon nor audio of it was heard, however it was evicted and
\* discovered again in between (reset_window, unverified).
UnverifiedWasSilent ==
    [][CloseWindow => \A ip \in report'.unverified : idle[ip] >= Threshold]_vars

\* A device known from mDNS alone does not stay among the verified ones.
SilentSourceFlagged ==
    \A ip \in Ips : (ip \in sources /\ idle[ip] >= Threshold)
        ~> (ip \in report.unverified \/ idle[ip] = 0 \/ ip \in heard \/ ip \notin sources)

\* A device that is on both networks, and heard on both in the Window, is
\* reported as bridged when the Window closes.
BridgeReported ==
    [][CloseWindow => \A i, j \in Ips :
           i # j /\ macHeard[i] = macHeard[j] /\ macHeard[i] # NoMac
               => macHeard[i] \in report'.bridged]_vars

\* "Two distinct source IPs sharing the same ConMon MAC means both NICs of the
\* same device are visible" (check_conmon_bridge).
BridgeMeansTwoNics ==
    [][CloseWindow => \A mac \in report'.bridged : Cardinality(nics[mac]) >= 2]_vars

\* "Source IPs that have gone UNVERIFIED_THRESHOLD or more consecutive windows
\* without ConMon activity or an active stream" (unverified): none of them has
\* just been heard.
UnverifiedIsSilent ==
    [][CloseWindow => report'.unverified \cap heard = {}]_vars

\* "all live" (render_discovery): every device listed above it has a ConMon entry.
AllLiveTrue ==
    [][CloseWindow => (report'.live = "all" =>
           \A ip \in report'.verified : conmon'[ip].mac # NoMac)]_vars

=============================================================================
