------------------------- MODULE DanteDevicesProofs -------------------------
(***************************************************************************)
(* DanteDevices, for any addresses, devices and bounds: the maps of the    *)
(* Dante devices agree with each other and with the streams, a device is   *)
(* called unverified only after a silence, and a device that is heard on   *)
(* both networks is reported as bridging.                                  *)
(*                                                                         *)
(* PacketPath, for any frames, command lines and answers: the kernel       *)
(* filter drops nothing that a handler would get, and a dynamic source     *)
(* port decides nothing of what a datagram is taken for.                   *)
(***************************************************************************)
EXTENDS DanteDevices, PacketPath, FiniteSetTheorems, SequenceTheorems, WellFoundedInduction, TLAPS

USE DEF devices, history

\* A counter of silent Windows never runs ahead of the silence.
CountersEarned == \A ip \in Ips : silent[ip] <= idle[ip]

\* What has been heard in the open Window is still there, and no older than the Window.
HeardIsFresh ==
    \A ip \in heard : \/ streams[ip].known /\ streams[ip].age <= elapsed
                      \/ conmon[ip].mac # NoMac /\ conmon[ip].age <= elapsed

\* The ConMon entry of an address is the one last heard from it in the open Window.
MacIsLast == \A ip \in Ips : macHeard[ip] # NoMac => conmon[ip].mac = macHeard[ip]

\* The inductive invariant.
IInv ==
    /\ TypeOK
    /\ SourcesBounded
    /\ StreamsNamed
    /\ CountersEarned
    /\ HeardIsFresh
    /\ MacIsLast

-----------------------------------------------------------------------------
(* The bound of the maps. *)

\* The victim of an eviction is one of the sources, and there is one whenever a new
\* address comes to a full set.
LEMMA EvictionMakesRoom ==
    ASSUME TypeOK, SourcesBounded, NEW ip \in Ips, NEW victim \in Evictable(ip)
    PROVE  /\ victim \subseteq sources
           /\ Cardinality((sources \ victim) \cup {ip}) <= MaxSources
<1>1. IsFiniteSet(sources) /\ Cardinality(sources) \in Nat
  BY SetAssumption, FS_Subset, FS_CardinalityType DEF TypeOK
<1>2. Cardinality(sources) <= MaxSources /\ MaxSources \in Nat
  BY SizeAssumption DEF SourcesBounded
<1>3. CASE ip \notin sources /\ Cardinality(sources) >= MaxSources
  <2>1. PICK v \in sources : victim = {v} BY <1>3 DEF Evictable
  <2>2. /\ IsFiniteSet(sources \ {v})
        /\ Cardinality(sources \ {v}) = Cardinality(sources) - 1
    BY <1>1, <2>1, FS_RemoveElement
  <2>3. Cardinality((sources \ {v}) \cup {ip}) = Cardinality(sources \ {v}) + 1
    BY <1>3, <2>2, FS_AddElement
  <2> QED BY <1>1, <1>2, <2>1, <2>2, <2>3
<1>4. CASE ip \in sources
  <2>1. victim = {} BY <1>4 DEF Evictable
  <2>2. (sources \ victim) \cup {ip} = sources BY <1>4, <2>1
  <2> QED BY <1>2, <2>1, <2>2
<1>5. CASE ip \notin sources /\ ~(Cardinality(sources) >= MaxSources)
  <2>1. victim = {} BY <1>5 DEF Evictable
  <2>2. Cardinality(sources \cup {ip}) = Cardinality(sources) + 1
    BY <1>1, <1>5, FS_AddElement
  <2>3. (sources \ victim) \cup {ip} = sources \cup {ip} BY <2>1
  <2> QED BY <1>1, <1>2, <1>5, <2>1, <2>2, <2>3
<1> QED BY <1>3, <1>4, <1>5

\* What a store of a device keeps after record_source, with or without a name.
LEMMA RecordKeepsBound ==
    ASSUME TypeOK, SourcesBounded, NEW ip \in Ips, NEW name \in BOOLEAN,
           NEW victim \in Evictable(ip), RecordSource(ip, victim, name)
    PROVE  /\ sources' \subseteq Ips /\ named' \subseteq sources'
           /\ ip \in sources' /\ sources \ victim \subseteq sources'
           /\ Cardinality(sources') <= MaxSources
           /\ named' \subseteq named \cup (IF name THEN {ip} ELSE {})
<1>1. /\ victim \subseteq sources
      /\ Cardinality((sources \ victim) \cup {ip}) <= MaxSources
  BY EvictionMakesRoom
<1> QED BY <1>1 DEF RecordSource, TypeOK, SourcesBounded

\* No device that is evicted keeps its class.
LEMMA ClassKeepsBound ==
    ASSUME TypeOK, SourcesBounded, NEW ip \in Ips, NEW c \in Classes \cup {"Hardware"},
           NEW victim \in Evictable(ip), sources' = (sources \ victim) \cup {ip},
           RecordClass(ip, victim, c) \/ EvictClass(victim)
    PROVE  /\ class' \in [Ips -> Classes \cup {"Hardware", NoClass}]
           /\ \A v \in Ips : class'[v] # NoClass => v \in sources'
<1>1. CASE RecordClass(ip, victim, c)
  BY <1>1 DEF RecordClass, TypeOK, SourcesBounded
<1>2. CASE EvictClass(victim)
  BY <1>2 DEF EvictClass, TypeOK, SourcesBounded
<1> QED BY <1>1, <1>2

-----------------------------------------------------------------------------
(* The initial states, and every step, keep the invariant. *)

LEMMA Initially == Init => IInv
<1> SUFFICES ASSUME Init PROVE IInv OBVIOUS
<1> USE SetAssumption, SizeAssumption, TimeAssumption
<1>1. TypeOK
  BY DEF Init, TypeOK, NoConmon, NoStream, NoReport
<1>2. SourcesBounded BY FS_EmptySet DEF Init, SourcesBounded
<1>3. StreamsNamed /\ CountersEarned /\ HeardIsFresh /\ MacIsLast
  BY DEF Init, StreamsNamed, CountersEarned, HeardIsFresh, MacIsLast
<1> QED BY <1>1, <1>2, <1>3 DEF IInv

LEMMA DiscoveryKeeps ==
    ASSUME IInv, NEW ip \in Ips, NEW name \in BOOLEAN, Discovery(ip, name)
    PROVE  IInv'
<1> USE SetAssumption, SizeAssumption, TimeAssumption
<1>0. TypeOK /\ SourcesBounded BY DEF IInv
<1>1. PICK victim \in Evictable(ip) : RecordSource(ip, victim, name) /\ EvictClass(victim)
  BY DEF Discovery
<1>2. /\ sources' \subseteq Ips /\ named' \subseteq sources'
      /\ Cardinality(sources') <= MaxSources
      /\ named' \subseteq named \cup (IF name THEN {ip} ELSE {})
  BY <1>0, <1>1, RecordKeepsBound
<1>3. /\ class' \in [Ips -> Classes \cup {"Hardware", NoClass}]
      /\ \A v \in Ips : class'[v] # NoClass => v \in sources'
  BY <1>0, <1>1, ClassKeepsBound DEF RecordSource
<1>4. streams' = [streams EXCEPT ![ip].named = @ \/ (name /\ streams[ip].known)]
  BY DEF Discovery, Backfill
<1> DEFINE given == IF name /\ streams[ip].known THEN TRUE ELSE streams[ip].named
<1>5. /\ given \in BOOLEAN
      /\ streams' = [streams EXCEPT ![ip] = [@ EXCEPT !.named = given]]
  BY <1>0, <1>4 DEF TypeOK
<1> HIDE DEF given
<1> DEFINE st == [known |-> streams[ip].known, age |-> streams[ip].age, named |-> given]
<1>6. st \in [known : BOOLEAN, age : 0..StreamPrune, named : BOOLEAN]
  BY <1>0, <1>5 DEF TypeOK
<1>6a. streams' = [streams EXCEPT ![ip] = st]
  <2>1. streams[ip] \in [known : BOOLEAN, age : 0..StreamPrune, named : BOOLEAN]
    BY <1>0 DEF TypeOK
  <2>2. [streams[ip] EXCEPT !.named = given] = st BY <2>1
  <2>3. streams' = [streams EXCEPT ![ip] = [streams[ip] EXCEPT !.named = given]]
    BY <1>5
  <2> QED BY <2>2, <2>3
<1>6b. st.known = streams[ip].known /\ st.age = streams[ip].age /\ st.named = given OBVIOUS
<1> HIDE DEF st
<1>6c. streams' \in [Ips -> [known : BOOLEAN, age : 0..StreamPrune, named : BOOLEAN]]
  BY <1>0, <1>6, <1>6a DEF TypeOK
<1>6d. streams'[ip] = st /\ \A v \in Ips \ {ip} : streams'[v] = streams[v]
  BY <1>0, <1>6a DEF TypeOK
<1>7. /\ report' = NoReport
      /\ UNCHANGED <<conmon, silent, elapsed, nics, history>>
  BY DEF Discovery
<1>8. TypeOK' BY <1>0, <1>2, <1>3, <1>6c, <1>7 DEF TypeOK, NoReport
<1>9. SourcesBounded' BY <1>2, <1>3 DEF SourcesBounded
<1>10. StreamsNamed'
  <2> SUFFICES ASSUME NEW v \in named', streams'[v].known
               PROVE  streams'[v].named
    BY DEF StreamsNamed
  <2>1. v \in Ips BY <1>2
  <2>2. CASE v = ip
    <3>1. streams[ip].known BY <1>6b, <1>6d, <2>2
    <3>2. name \/ ip \in named BY <1>2, <2>2
    <3>3. ip \in named => streams[ip].named BY <3>1 DEF IInv, StreamsNamed
    <3>4. given
      <4>1. CASE name BY <3>1, <4>1 DEF given
      <4>2. CASE ~name BY <3>2, <3>3, <4>2 DEF given
      <4> QED BY <4>1, <4>2
    <3> QED BY <1>6b, <1>6d, <2>2, <3>4
  <2>3. CASE v # ip
    <3>1. streams'[v] = streams[v] /\ v \in named BY <1>2, <1>6d, <2>1, <2>3
    <3> QED BY <3>1 DEF IInv, StreamsNamed
  <2> QED BY <2>2, <2>3
<1>11. CountersEarned' /\ MacIsLast' BY <1>7 DEF IInv, CountersEarned, MacIsLast
<1>12. HeardIsFresh'
  <2> SUFFICES ASSUME NEW v \in heard
               PROVE  \/ streams'[v].known /\ streams'[v].age <= elapsed
                      \/ conmon[v].mac # NoMac /\ conmon[v].age <= elapsed
    BY <1>7 DEF HeardIsFresh
  <2>1. v \in Ips /\ \/ streams[v].known /\ streams[v].age <= elapsed
                     \/ conmon[v].mac # NoMac /\ conmon[v].age <= elapsed
    BY <1>0 DEF IInv, HeardIsFresh, TypeOK
  <2>2. CASE v = ip
    <3>1. streams'[v].known = streams[v].known /\ streams'[v].age = streams[v].age
      BY <1>6b, <1>6d, <2>2
    <3> QED BY <2>1, <3>1
  <2>3. CASE v # ip
    <3>1. streams'[v] = streams[v] BY <1>6d, <2>1, <2>3
    <3> QED BY <2>1, <3>1
  <2> QED BY <2>2, <2>3
<1> QED BY <1>8, <1>9, <1>10, <1>11, <1>12 DEF IInv

LEMMA ConMonKeeps ==
    ASSUME IInv, NEW mac \in Macs, NEW ip \in Ips, ConMon(ip, mac)
    PROVE  IInv'
<1> USE SetAssumption, SizeAssumption, TimeAssumption
<1>0. TypeOK /\ SourcesBounded BY DEF IInv
<1>1. PICK victim \in Evictable(ip) :
          RecordSource(ip, victim, FALSE) /\ RecordClass(ip, victim, "Hardware")
  BY DEF ConMon
<1>2. /\ sources' \subseteq Ips /\ named' \subseteq sources'
      /\ Cardinality(sources') <= MaxSources /\ named' \subseteq named
  BY <1>0, <1>1, RecordKeepsBound
<1>3. /\ class' \in [Ips -> Classes \cup {"Hardware", NoClass}]
      /\ \A v \in Ips : class'[v] # NoClass => v \in sources'
  BY <1>0, <1>1, ClassKeepsBound DEF RecordSource
<1>4. /\ conmon' = [conmon EXCEPT ![ip] = [mac |-> mac, age |-> 0]]
      /\ heard' = heard \cup {ip}
      /\ macHeard' = [macHeard EXCEPT ![ip] = mac]
      /\ report' = NoReport
      /\ UNCHANGED <<silent, streams, elapsed, nics, idle>>
  BY DEF ConMon, Heartbeat
<1>5. TypeOK' BY <1>0, <1>2, <1>3, <1>4 DEF TypeOK, NoReport
<1>6. SourcesBounded' BY <1>2, <1>3 DEF SourcesBounded
<1>7. StreamsNamed' BY <1>2, <1>4 DEF IInv, StreamsNamed
<1>8. CountersEarned' BY <1>4 DEF IInv, CountersEarned
<1>9. HeardIsFresh' BY <1>0, <1>4 DEF IInv, HeardIsFresh, TypeOK
<1>10. MacIsLast' BY <1>0, <1>4 DEF IInv, MacIsLast, TypeOK
<1> QED BY <1>5, <1>6, <1>7, <1>8, <1>9, <1>10 DEF IInv

LEMMA ControlPlaneKeeps ==
    ASSUME IInv, NEW ip \in Ips, NEW c \in Classes, ControlPlane(ip, c)
    PROVE  IInv'
<1> USE SetAssumption, SizeAssumption, TimeAssumption
<1>0. TypeOK /\ SourcesBounded BY DEF IInv
<1>1. PICK victim \in Evictable(ip) :
          RecordSource(ip, victim, FALSE) /\ RecordClass(ip, victim, c)
  BY DEF ControlPlane
<1>2. /\ sources' \subseteq Ips /\ named' \subseteq sources'
      /\ Cardinality(sources') <= MaxSources /\ named' \subseteq named
  BY <1>0, <1>1, RecordKeepsBound
<1>3. /\ class' \in [Ips -> Classes \cup {"Hardware", NoClass}]
      /\ \A v \in Ips : class'[v] # NoClass => v \in sources'
  BY <1>0, <1>1, ClassKeepsBound DEF RecordSource
<1>4. /\ report' = NoReport
      /\ UNCHANGED <<conmon, silent, streams, elapsed, nics, history>>
  BY DEF ControlPlane
<1>5. TypeOK' BY <1>0, <1>2, <1>3, <1>4 DEF TypeOK, NoReport
<1>6. SourcesBounded' BY <1>2, <1>3 DEF SourcesBounded
<1>7. StreamsNamed' BY <1>2, <1>4 DEF IInv, StreamsNamed
<1>8. CountersEarned' /\ HeardIsFresh' /\ MacIsLast'
  BY <1>4 DEF IInv, CountersEarned, HeardIsFresh, MacIsLast
<1> QED BY <1>5, <1>6, <1>7, <1>8 DEF IInv

LEMMA AudioKeeps ==
    ASSUME IInv, NEW ip \in Ips, AudioStream(ip)
    PROVE  IInv'
<1> USE SetAssumption, SizeAssumption, TimeAssumption
<1> DEFINE given == IF streams[ip].known THEN streams[ip].named ELSE ip \in named
<1>0. TypeOK BY DEF IInv
<1>1. /\ streams' = [streams EXCEPT ![ip] = [known |-> TRUE, age |-> 0, named |-> given]]
      /\ heard' = heard \cup {ip}
      /\ report' = NoReport
      /\ UNCHANGED <<sources, named, class, conmon, silent, elapsed, nics, macHeard, idle>>
  BY DEF AudioStream
<1>2. given \in BOOLEAN /\ (ip \in named => given)
  <2>1. streams[ip].named \in BOOLEAN BY <1>0 DEF TypeOK
  <2>2. CASE streams[ip].known
    <3>1. given = streams[ip].named BY <2>2
    <3>2. ip \in named => streams[ip].named BY <2>2 DEF IInv, StreamsNamed
    <3> QED BY <2>1, <3>1, <3>2
  <2>3. CASE ~streams[ip].known
    <3>1. CASE ip \in named BY <2>3, <3>1
    <3>2. CASE ip \notin named BY <2>3, <3>2
    <3> QED BY <3>1, <3>2
  <2> QED BY <2>2, <2>3
<1> HIDE DEF given
<1>3. streams' \in [Ips -> [known : BOOLEAN, age : 0..StreamPrune, named : BOOLEAN]]
  BY <1>0, <1>1, <1>2 DEF TypeOK
<1>4. TypeOK' BY <1>0, <1>1, <1>3 DEF TypeOK, NoReport
<1>5. SourcesBounded' BY <1>1 DEF IInv, SourcesBounded
<1>6. StreamsNamed' BY <1>0, <1>1, <1>2 DEF IInv, StreamsNamed, TypeOK
<1>7. HeardIsFresh' BY <1>0, <1>1 DEF IInv, HeardIsFresh, TypeOK
<1>8. CountersEarned' /\ MacIsLast' BY <1>1 DEF IInv, CountersEarned, MacIsLast
<1> QED BY <1>4, <1>5, <1>6, <1>7, <1>8 DEF IInv

LEMMA RewireKeeps ==
    ASSUME IInv, NEW mac \in Macs, NEW ips \in SUBSET Ips, Rewire(mac, ips)
    PROVE  IInv'
<1>1. /\ nics' = [nics EXCEPT ![mac] = ips] /\ report' = NoReport
      /\ UNCHANGED <<sources, named, class, conmon, silent, streams, elapsed, heard, macHeard, idle>>
  BY DEF Rewire
<1>2. TypeOK' BY <1>1 DEF IInv, TypeOK, NoReport
<1>3. SourcesBounded' /\ StreamsNamed' /\ CountersEarned' /\ HeardIsFresh' /\ MacIsLast'
  BY <1>1 DEF IInv, SourcesBounded, StreamsNamed, CountersEarned, HeardIsFresh, MacIsLast
<1> QED BY <1>2, <1>3 DEF IInv

LEMMA TickKeeps == ASSUME IInv, Tick PROVE IInv'
<1> USE SetAssumption, SizeAssumption, TimeAssumption
<1>0. TypeOK BY DEF IInv
<1>1. /\ elapsed < Window + Slack /\ elapsed' = elapsed + 1
      /\ conmon' = [ip \in Ips |-> [conmon[ip] EXCEPT !.age = Older(@, ConmonPrune)]]
      /\ streams' = [ip \in Ips |-> [streams[ip] EXCEPT !.age = Older(@, StreamPrune)]]
      /\ report' = NoReport
      /\ UNCHANGED <<sources, named, class, silent, nics, heard, macHeard, idle>>
  BY DEF Tick
<1>2. ASSUME NEW ip \in Ips
      PROVE  /\ conmon'[ip].mac = conmon[ip].mac /\ conmon'[ip].age <= conmon[ip].age + 1
             /\ conmon'[ip] \in [mac : Macs \cup {NoMac}, age : 0..ConmonPrune]
             /\ streams'[ip].known = streams[ip].known /\ streams'[ip].named = streams[ip].named
             /\ streams'[ip].age <= streams[ip].age + 1
             /\ streams'[ip] \in [known : BOOLEAN, age : 0..StreamPrune, named : BOOLEAN]
  BY <1>0, <1>1 DEF TypeOK, Older
<1>3. TypeOK'
  <2>1. conmon' \in [Ips -> [mac : Macs \cup {NoMac}, age : 0..ConmonPrune]] BY <1>1, <1>2
  <2>2. streams' \in [Ips -> [known : BOOLEAN, age : 0..StreamPrune, named : BOOLEAN]]
    BY <1>1, <1>2
  <2>3. elapsed' \in 0..(Window + Slack) BY <1>0, <1>1 DEF TypeOK
  <2> QED BY <1>0, <1>1, <2>1, <2>2, <2>3 DEF TypeOK, NoReport
<1>4. SourcesBounded' BY <1>1 DEF IInv, SourcesBounded
<1>5. StreamsNamed' BY <1>0, <1>1, <1>2 DEF IInv, StreamsNamed, TypeOK, SourcesBounded
<1>6. HeardIsFresh'
  <2> SUFFICES ASSUME NEW ip \in heard
               PROVE  \/ streams'[ip].known /\ streams'[ip].age <= elapsed + 1
                      \/ conmon'[ip].mac # NoMac /\ conmon'[ip].age <= elapsed + 1
    BY <1>1 DEF HeardIsFresh
  <2>1. ip \in Ips /\ elapsed \in Nat /\ conmon[ip].age \in Nat /\ streams[ip].age \in Nat
        /\ conmon'[ip].age \in Nat /\ streams'[ip].age \in Nat
    BY <1>0, <1>2 DEF TypeOK
  <2> QED BY <1>2, <2>1 DEF IInv, HeardIsFresh
<1>7. CountersEarned' BY <1>1 DEF IInv, CountersEarned
<1>8. MacIsLast' BY <1>1, <1>2 DEF IInv, MacIsLast
<1> QED BY <1>3, <1>4, <1>5, <1>6, <1>7, <1>8 DEF IInv

\* What was heard in the Window shows a device to be alive when the Window closes.
LEMMA HeardIsActive ==
    ASSUME IInv, NEW ip \in heard
    PROVE  Active(ip)
<1>1. /\ ip \in Ips /\ elapsed \in 0..(Window + Slack)
      /\ streams[ip].age \in Nat /\ conmon[ip].age \in Nat
  BY TimeAssumption DEF IInv, TypeOK
<1>2. CASE streams[ip].known /\ streams[ip].age <= elapsed
  <2>1. ~(streams[ip].age >= StreamPrune) BY <1>1, <1>2, PruneAssumption, TimeAssumption
  <2> QED BY <1>1, <1>2, <2>1 DEF Active, PrunedStreams
<1>3. CASE conmon[ip].mac # NoMac /\ conmon[ip].age <= elapsed
  <2>1. ~(conmon[ip].age >= ConmonPrune) BY <1>1, <1>3, PruneAssumption, TimeAssumption
  <2> QED BY <1>1, <1>3, <2>1 DEF Active, PrunedConmon
<1> QED BY <1>2, <1>3 DEF IInv, HeardIsFresh

LEMMA CloseKeeps == ASSUME IInv, CloseWindow PROVE IInv'
<1> USE SetAssumption, SizeAssumption, TimeAssumption
<1>0. TypeOK BY DEF IInv
<1>1. /\ streams' = PrunedStreams /\ conmon' = PrunedConmon
      /\ silent' = [ip \in Ips |-> CountSilent(ip)]
      /\ elapsed' = 0 /\ heard' = {}
      /\ idle' = [ip \in Ips |-> IF ip \in heard THEN 0 ELSE Older(idle[ip], Threshold)]
      /\ macHeard' = [ip \in Ips |-> NoMac]
      /\ UNCHANGED <<sources, named, class, nics>>
  BY DEF CloseWindow
<1>2. report' \in [printed : BOOLEAN, unverified : SUBSET Ips, bridged : SUBSET Macs,
                   verified : SUBSET Ips, pending : SUBSET Ips, live : {"none", "some", "all"}]
  <2>1. Unverified \in SUBSET Ips /\ Bridged \in SUBSET Macs
        /\ sources \ Unverified \in SUBSET Ips /\ sources \ named \in SUBSET Ips
    BY <1>0 DEF TypeOK, Unverified, Bridged
  <2>2. Live \in {"none", "some", "all"} BY DEF Live
  <2>3. report' = [printed |-> TRUE, unverified |-> Unverified, bridged |-> Bridged,
                  verified |-> sources \ Unverified, pending |-> sources \ named, live |-> Live]
    BY DEF CloseWindow
  <2> QED BY <2>1, <2>2, <2>3
<1>3. ASSUME NEW ip \in Ips
      PROVE  /\ silent'[ip] \in 0..Threshold /\ idle'[ip] \in 0..Threshold
             /\ silent'[ip] <= idle'[ip]
  <2>1. silent[ip] \in 0..Threshold /\ idle[ip] \in 0..Threshold /\ silent[ip] <= idle[ip]
    BY <1>0 DEF IInv, CountersEarned, TypeOK
  <2>2. ip \in heard => silent'[ip] = 0 BY <1>1, HeardIsActive DEF CountSilent
  <2> QED BY <1>1, <2>1, <2>2 DEF CountSilent, Older
<1>4. TypeOK'
  <2>1. PrunedStreams \in [Ips -> [known : BOOLEAN, age : 0..StreamPrune, named : BOOLEAN]]
    BY <1>0 DEF TypeOK, PrunedStreams, NoStream
  <2>2. PrunedConmon \in [Ips -> [mac : Macs \cup {NoMac}, age : 0..ConmonPrune]]
    BY <1>0 DEF TypeOK, PrunedConmon, NoConmon
  <2>3. silent' \in [Ips -> 0..Threshold] /\ idle' \in [Ips -> 0..Threshold]
    BY <1>1, <1>3
  <2> QED BY <1>0, <1>1, <1>2, <2>1, <2>2, <2>3 DEF TypeOK
<1>5. SourcesBounded' BY <1>1 DEF IInv, SourcesBounded
<1>6. StreamsNamed'
  BY <1>0, <1>1 DEF IInv, StreamsNamed, PrunedStreams, NoStream, TypeOK
<1>7. CountersEarned' BY <1>3 DEF CountersEarned
<1>8. HeardIsFresh' /\ MacIsLast' BY <1>1 DEF HeardIsFresh, MacIsLast
<1> QED BY <1>4, <1>5, <1>6, <1>7, <1>8 DEF IInv

LEMMA StepKeeps == IInv /\ [Next]_vars => IInv'
<1> SUFFICES ASSUME IInv, [Next]_vars PROVE IInv' OBVIOUS
<1>1. CASE \E ip \in Ips, name \in BOOLEAN : Discovery(ip, name) BY <1>1, DiscoveryKeeps
<1>2. CASE \E mac \in Macs : \E ip \in nics[mac] : ConMon(ip, mac)
  BY <1>2, ConMonKeeps DEF IInv, TypeOK
<1>3. CASE \E ip \in Ips, c \in Classes : ControlPlane(ip, c) BY <1>3, ControlPlaneKeeps
<1>4. CASE \E ip \in Talkers : AudioStream(ip) BY <1>4, AudioKeeps, SetAssumption
<1>5. CASE \E mac \in Macs, ips \in SUBSET Ips : Rewire(mac, ips) BY <1>5, RewireKeeps
<1>6. CASE Tick BY <1>6, TickKeeps
<1>7. CASE CloseWindow BY <1>7, CloseKeeps
<1>8. CASE UNCHANGED vars
  BY <1>8 DEF vars, IInv, TypeOK, SourcesBounded, StreamsNamed, CountersEarned, HeardIsFresh,
              MacIsLast
<1> QED BY <1>1, <1>2, <1>3, <1>4, <1>5, <1>6, <1>7, <1>8 DEF Next

-----------------------------------------------------------------------------
\* The inductive invariant holds in every reachable state.
THEOREM Invariance == Spec => []IInv
BY Initially, StepKeeps, PTL DEF Spec

\* The maps of the devices never hold more than MaxSources devices, no name and no class of
\* one that has been evicted, and every stream of a named device bears its name.
THEOREM MapsAgree == Spec => []DeviceMapsAgree
<1>1. IInv => DeviceMapsAgree BY DEF IInv, DeviceMapsAgree
<1> QED BY <1>1, Invariance, PTL

\* The body of UnverifiedWasSilent.
Earned == CloseWindow => \A ip \in report'.unverified : idle[ip] >= Threshold

\* A device is called unverified only after Threshold Windows of silence, whatever was
\* evicted and discovered again in between.
THEOREM UnverifiedEarned == Spec => UnverifiedWasSilent
<1>1. IInv /\ [Next]_vars => [Earned]_vars
  <2> SUFFICES ASSUME IInv, CloseWindow, NEW ip \in report'.unverified
               PROVE  idle[ip] >= Threshold
    BY DEF Earned
  <2>1. ip \in sources /\ silent[ip] >= Threshold BY DEF CloseWindow, Unverified
  <2>2. ip \in Ips /\ silent[ip] \in Nat /\ idle[ip] \in Nat /\ silent[ip] <= idle[ip]
    BY <2>1, SizeAssumption DEF IInv, TypeOK, CountersEarned
  <2> QED BY <2>1, <2>2, SizeAssumption
<1>2. Spec => [][Earned]_vars BY <1>1, Invariance, PTL DEF Spec
<1> QED BY <1>2 DEF UnverifiedWasSilent, Earned

\* The body of BridgeReported.
BridgesTold ==
    CloseWindow => \A i, j \in Ips :
        i # j /\ macHeard[i] = macHeard[j] /\ macHeard[i] # NoMac
            => macHeard[i] \in report'.bridged

\* A device heard on both networks in a Window is reported as bridging when it closes.
THEOREM BridgesReported == Spec => BridgeReported
<1>1. IInv /\ [Next]_vars => [BridgesTold]_vars
  <2> SUFFICES ASSUME IInv, CloseWindow, NEW i \in Ips, NEW j \in Ips, i # j,
                      macHeard[i] = macHeard[j], macHeard[i] # NoMac
               PROVE  macHeard[i] \in report'.bridged
    BY DEF BridgesTold
  <2> DEFINE mac == macHeard[i]
             at  == {ip \in Ips : conmon[ip].mac = mac}
  <2>1. mac \in Macs /\ i \in at /\ j \in at BY DEF IInv, TypeOK, MacIsLast
  <2>2. IsFiniteSet(at) BY SetAssumption, FS_Subset
  <2>3. IsFiniteSet({i}) /\ Cardinality({i}) = 1 BY FS_Singleton
  <2>4. Cardinality({i} \cup {j}) = 2 BY <2>3, FS_AddElement
  <2>5. Cardinality({i} \cup {j}) <= Cardinality(at) BY <2>1, <2>2, FS_Subset
  <2>6. Cardinality(at) \in Nat BY <2>2, FS_CardinalityType
  <2>7. mac \in Bridged BY <2>1, <2>4, <2>5, <2>6 DEF Bridged
  <2> QED BY <2>7 DEF CloseWindow
<1>2. Spec => [][BridgesTold]_vars BY <1>1, Invariance, PTL DEF Spec
<1> QED BY <1>2 DEF BridgeReported, BridgesTold

-----------------------------------------------------------------------------
(* The way of a packet (PacketPath). *)

\* A finite set of numbers has a least one: of the subsets without one, a smallest would
\* have one as soon as an element is put back.
LEMMA LeastIsIn ==
    ASSUME NEW S \in SUBSET Nat, IsFiniteSet(S), S # {} PROVE Min(S) \in S
  <1> DEFINE Bad == {X \in SUBSET S : X # {} /\ ~ \E x \in X : \A y \in X : x <= y}
             R   == StrictSubsetOrdering(S)
  <1>1. Bad = {}
    <2>1. SUFFICES ASSUME Bad # {} PROVE FALSE
      OBVIOUS
    <2>2. PICK X \in Bad : \A Y \in Bad : <<Y, X>> \notin R
      <3>1. IsWellFoundedOn(R, SUBSET S)
        BY FS_StrictSubsetOrderingWellFounded, FS_FiniteSubsetsOfFinite
      <3>2. Bad \subseteq SUBSET S
        OBVIOUS
      <3> HIDE DEF Bad, R
      <3> QED BY <2>1, <3>1, <3>2, WFMin
    <2>3. PICK z \in X : TRUE
      OBVIOUS
    <2> DEFINE Y == X \ {z}
    <2>4. Y \in SUBSET S /\ Y \subseteq X /\ Y # X
      OBVIOUS
    <2>5. <<Y, X>> \in R
      BY <2>4 DEF StrictSubsetOrdering
    <2>6. Y \notin Bad
      BY <2>2, <2>5
    <2>7. Y # {}
      BY <2>3
    <2>8. PICK x \in Y : \A y \in Y : x <= y
      BY <2>4, <2>6, <2>7
    <2> QED BY <2>3, <2>8
  <1>2. PICK x \in S : \A y \in S : x <= y
    BY <1>1
  <1> QED BY <1>2 DEF Min

Offered == {"all", "audio", "video", "aes67", "avb", "dante", "ndi", "st2110"}

\* A list names choices, whatever its words.
LEMMA ParsedAreOffered == ASSUME NEW tokens PROVE ParseProtocols(tokens) \subseteq Offered
  <1>1. {"all"} \cup Range(AllChoices) = Offered
    BY DEF Range, AllChoices, Offered
  <1>2. \A token : ParseChoice(token) \subseteq Offered
    BY <1>1 DEF ParseChoice
  <1> QED BY <1>2 DEF ParseProtocols, Offered

LEMMA ChosenAreOffered ==
    ASSUME NEW words, NEW answer PROVE Chosen(ParseArgs(words), answer) \subseteq Offered
  <1>1. ParseArgs(words).protocols \subseteq Offered
    BY ParsedAreOffered DEF ParseArgs
  <1>2. {"all"} \subseteq Offered /\ ParseProtocols(answer) \subseteq Offered
    BY ParsedAreOffered DEF Offered
  <1> QED BY <1>1, <1>2 DEF Chosen

\* And choices stand for concrete protocols.
LEMMA ExpandedAreConcrete ==
    ASSUME NEW choices \in SUBSET Offered PROVE Expanded(choices) \subseteq Concrete
  <1>1. \A c \in Offered : Includes(c) \subseteq Concrete
    BY DEF Includes, Offered, Concrete
  <1> QED BY <1>1 DEF Expanded

-----------------------------------------------------------------------------
(* What a UDP datagram may be taken for. *)

UdpKinds == {"Sap", "Dante", "Ndi", "Ptp", "Aes67", "St2110"}
OfUdp(found) == \A p \in found : p.is \in UdpKinds

\* The first rule that applies is one of the rules.
LEMMA FirstIsOfUdp ==
    ASSUME NEW n \in Nat, NEW rules, DOMAIN rules = 1..n, \A i \in 1..n : OfUdp(rules[i].is)
    PROVE  OfUdp(FirstOf(rules))
  <1> DEFINE on == {i \in DOMAIN rules : rules[i].on}
  <1>1. CASE on = {}
    BY <1>1 DEF FirstOf, OfUdp
  <1>2. CASE on # {}
    <2>1. on \in SUBSET Nat /\ on \subseteq 1..n /\ IsFiniteSet(on)
      BY FS_Interval, FS_Subset
    <2>2. Min(on) \in on
      <3> HIDE DEF on
      <3> QED BY <1>2, <2>1, LeastIsIn
    <2>3. FirstOf(rules) = rules[Min(on)].is
      BY <1>2 DEF FirstOf
    <2> HIDE DEF on
    <2> QED BY <2>1, <2>2, <2>3
  <1> QED BY <1>1, <1>2

LEMMA FoundIs ==
    ASSUME NEW is, NEW kind, NEW names
    PROVE  Found(is, kind, names) # {} /\ \A p \in Found(is, kind, names) : p.is = is
  BY DEF Found

LEMMA MdnsIsOfUdp == ASSUME NEW m PROVE OfUdp(Mdns(m))
  <1>1. /\ OfUdp({})
        /\ OfUdp(Dante("Discovery", {DanteName(m)} \ {NoName}))
        /\ OfUdp(Found("Ndi", "Discovery", {NdiName(m)} \ {NoName}))
    BY FoundIs DEF OfUdp, Dante, UdpKinds
  <1>2. Mdns(m) \in {{}, Dante("Discovery", {DanteName(m)} \ {NoName}),
                     Found("Ndi", "Discovery", {NdiName(m)} \ {NoName})}
    BY DEF Mdns
  <1> QED BY <1>1, <1>2

LEMMA UdpRulesAreOfUdp ==
    ASSUME NEW f
    PROVE  /\ DOMAIN UdpRules(f) = 1..7 /\ \A i \in 1..7 : OfUdp(UdpRules(f)[i].is)
           /\ UdpRules(f) = [i \in 1..7 |-> UdpRules(f)[i]]
  <1> DEFINE r == UdpRules(f)
  <1>1. DOMAIN r = 1..7 /\ r = [i \in 1..7 |-> r[i]]
    BY DEF UdpRules
  <1>2. OfUdp({}) /\ OfUdp(Mdns(f.payload))
    BY MdnsIsOfUdp DEF OfUdp
  <1>3. \A kind, names : OfUdp(Dante(kind, names)) /\ OfUdp(Found("Sap", kind, names))
                            /\ OfUdp(Found("Ptp", kind, names))
    BY FoundIs DEF OfUdp, Dante, UdpKinds
  <1>4. OfUdp(r[1].is)
    BY <1>2, <1>3 DEF UdpRules
  <1>5. OfUdp(r[2].is)
    BY <1>2, <1>3 DEF UdpRules
  <1>6. OfUdp(r[3].is)
    BY <1>2, <1>3 DEF UdpRules
  <1>7. OfUdp(r[4].is)
    BY <1>2, <1>3 DEF UdpRules
  <1>8. OfUdp(r[5].is)
    <2>1. r[5].is = UNION {Dante(c, {}) : c \in DanteControlPlaneClass(f.sport, f.dport)}
      BY DEF UdpRules
    <2> QED BY <1>3, <2>1 DEF OfUdp
  <1>9. OfUdp(r[6].is)
    BY <1>2, <1>3 DEF UdpRules
  <1>10. OfUdp(r[7].is)
    BY <1>2, <1>3 DEF UdpRules
  <1> HIDE DEF r
  <1> QED BY <1>1, <1>4, <1>5, <1>6, <1>7, <1>8, <1>9, <1>10 DEF r

LEMMA AudioRulesAreOfUdp ==
    ASSUME NEW f
    PROVE  /\ DOMAIN AudioRules(f) = 1..4 /\ \A i \in 1..4 : OfUdp(AudioRules(f)[i].is)
           /\ AudioRules(f) = [i \in 1..4 |-> AudioRules(f)[i]]
  <1> DEFINE r == AudioRules(f)
  <1>1. DOMAIN r = 1..4 /\ r = [i \in 1..4 |-> r[i]]
    BY DEF AudioRules
  <1>2. \A kind, names : OfUdp(Dante(kind, names)) /\ OfUdp(Found("Aes67", kind, names))
                            /\ OfUdp(Found("St2110", kind, names))
    BY FoundIs DEF OfUdp, Dante, UdpKinds
  <1>3. OfUdp(r[1].is) /\ OfUdp(r[2].is)
    BY <1>2 DEF AudioRules
  <1>4. OfUdp(r[3].is)
    BY <1>2 DEF AudioRules
  <1>5. OfUdp(r[4].is)
    BY <1>2 DEF AudioRules
  <1> HIDE DEF r
  <1> QED BY <1>1, <1>3, <1>4, <1>5 DEF r

\* A list of rules and another one after it.
LEMMA OneAfterAnother ==
    ASSUME NEW m \in Nat, NEW n \in Nat, NEW r, NEW q,
           r = [i \in 1..m |-> r[i]], q = [i \in 1..n |-> q[i]]
    PROVE  /\ DOMAIN (r \o q) = 1..(m + n)
           /\ \A i \in 1..(m + n) : (r \o q)[i] = IF i <= m THEN r[i] ELSE q[i - m]
  <1> DEFINE S == {r[i] : i \in 1..m} \cup {q[i] : i \in 1..n}
  <1>1. r \in [1..m -> S] /\ q \in [1..n -> S]
    OBVIOUS
  <1> HIDE DEF S
  <1>2. r \in Seq(S) /\ Len(r) = m /\ q \in Seq(S) /\ Len(q) = n
    BY <1>1
  <1> QED BY <1>2, ConcatProperties, LenProperties

LEMMA UdpIsOfUdp == ASSUME NEW f PROVE OfUdp(Udp(f))
  <1> DEFINE both == UdpRules(f) \o AudioRules(f)
  <1>1. OfUdp(FirstOf(UdpRules(f)))
    BY UdpRulesAreOfUdp, FirstIsOfUdp
  <1>2. OfUdp(FirstOf(both))
    <2>1. /\ DOMAIN both = 1..(7 + 4)
          /\ \A i \in 1..(7 + 4) :
                 both[i] = IF i <= 7 THEN UdpRules(f)[i] ELSE AudioRules(f)[i - 7]
      <3> DEFINE r == UdpRules(f)
                 q == AudioRules(f)
      <3>1. r = [i \in 1..7 |-> r[i]] /\ q = [i \in 1..4 |-> q[i]]
        BY UdpRulesAreOfUdp, AudioRulesAreOfUdp
      <3>2. both = r \o q
        OBVIOUS
      <3> HIDE DEF r, q, both
      <3>3. /\ DOMAIN (r \o q) = 1..(7 + 4)
            /\ \A i \in 1..(7 + 4) : (r \o q)[i] = IF i <= 7 THEN r[i] ELSE q[i - 7]
        BY <3>1, OneAfterAnother
      <3> QED BY <3>2, <3>3 DEF r, q
    <2> HIDE DEF both
    <2>2. ASSUME NEW i \in 1..11 PROVE OfUdp(both[i].is)
      <3>1. CASE i <= 7
        BY <2>1, <3>1, UdpRulesAreOfUdp
      <3>2. CASE ~(i <= 7)
        <4>1. i - 7 \in 1..4 /\ both[i] = AudioRules(f)[i - 7]
          BY <2>1, <3>2
        <4> QED BY <4>1, AudioRulesAreOfUdp
      <3> QED BY <3>1, <3>2
    <2>3. DOMAIN both = 1..11
      BY <2>1
    <2> QED BY <2>2, <2>3, FirstIsOfUdp
  <1> QED BY <1>1, <1>2 DEF Udp

-----------------------------------------------------------------------------
(* The filter and the selection. *)

\* What is detected in a UDP datagram and selected needs UDP, unless AVB alone is selected.
LEMMA SelectedUdp ==
    ASSUME expanded \subseteq Concrete, expanded # {"avb"}, NEW p, p.is \in UdpKinds, IsSelected(p)
    PROVE  \E c \in expanded : NeedsUdp(c)
  <1>1. CASE p.is = "Ptp"
    <2>1. PICK c \in expanded : NeedsPtp(c)
      BY <1>1 DEF IsSelected
    <2>2. PICK d \in expanded : d # "avb"
      BY <2>1
    <2> QED BY <2>2 DEF Concrete, NeedsUdp
  <1>2. CASE p.is = "Sap"
    BY <1>2 DEF IsSelected, NeedsSap, NeedsUdp
  <1>3. CASE p.is = "Dante"
    BY <1>3 DEF IsSelected, NeedsUdp
  <1>4. CASE p.is = "Ndi"
    BY <1>4 DEF IsSelected, NeedsUdp
  <1>5. CASE p.is = "Aes67"
    BY <1>5 DEF IsSelected, NeedsUdp
  <1>6. CASE p.is = "St2110"
    BY <1>6 DEF IsSelected, NeedsUdp
  <1> QED BY <1>1, <1>2, <1>3, <1>4, <1>5, <1>6 DEF UdpKinds

LEMMA NoneIsNotSelected == ~IsSelected(None)
  BY DEF IsSelected, None

\* What is detected is one of what the rules find.
LEMMA DetectIsFound ==
    ASSUME NEW f, NEW found,
           found = IF f.type # "ipv4" THEN LinkLayer(f)
                   ELSE CASE f.proto = "igmp"            -> IgmpType(f.payload)
                          [] f.proto = "tcp" /\ ~Cut(f)  -> Found("Tcp", "", {})
                          [] OTHER                       -> Udp(f)
    PROVE  Detect(f) = None \/ Detect(f) \in found
  BY DEF Detect

\* The link layer: only what belongs to AVB depends on the selection.
LEMMA LinkKinds ==
    ASSUME NEW f, f.type \in {"avtp", "msrp", "mvrp"}
    PROVE  \A p \in LinkLayer(f) : p.is \in {"Avb", "Msrp", "Mvrp", "AvdeccAdp"}
  <1>1. CASE f.type = "avtp"
    BY <1>1, FoundIs DEF LinkLayer
  <1>2. CASE f.type = "msrp"
    BY <1>2, FoundIs DEF LinkLayer
  <1>3. CASE f.type = "mvrp"
    BY <1>3, FoundIs DEF LinkLayer
  <1> QED BY <1>1, <1>2, <1>3

LEMMA OtherLink ==
    ASSUME NEW f, f.type \notin {"avtp", "msrp", "mvrp", "lldp", "gptp", "flow"}
    PROVE  LinkLayer(f) = {}
  BY DEF LinkLayer

\* What the filter drops of what it could look into would not be handled.
LEMMA DroppedIsNotSelected ==
    ASSUME expanded \subseteq Concrete, NEW f, ~Untagged(f, expanded),
           f.type = "ipv4" => /\ f.proto \in {"igmp", "tcp", "udp"} /\ ~Cut(f)
                              /\ expanded # {"avb"}
    PROVE  ~IsSelected(Detect(f))
  <1>1. CASE f.type = "ipv4"
    <2>1. f.proto # "igmp"
      BY <1>1 DEF Untagged
    <2>2. CASE f.proto = "tcp"
      <3>1. Detect(f) = None \/ Detect(f) \in Found("Tcp", "", {})
        BY <1>1, <2>2, DetectIsFound
      <3>2. Detect(f).is = "Tcp" => "ndi" \notin expanded
        BY <1>1, <2>2 DEF Untagged, NeedsTcp
      <3>3. Detect(f).is = "Tcp" => ~IsSelected(Detect(f))
        BY <3>2 DEF IsSelected
      <3> QED BY <3>1, <3>3, NoneIsNotSelected, FoundIs
    <2>3. CASE f.proto = "udp"
      <3>1. Detect(f) = None \/ Detect(f) \in Udp(f)
        BY <1>1, <2>3, DetectIsFound DEF Cut
      <3>2. Detect(f) \in Udp(f) => Detect(f).is \in UdpKinds
        BY UdpIsOfUdp DEF OfUdp
      <3>3. ~ \E c \in expanded : NeedsUdp(c)
        BY <1>1, <2>3 DEF Untagged
      <3> QED BY <1>1, <3>1, <3>2, <3>3, SelectedUdp, NoneIsNotSelected
    <2> QED BY <1>1, <2>1, <2>2, <2>3
  <1>2. CASE f.type \in {"avtp", "msrp", "mvrp"}
    <2>1. "avb" \notin expanded
      <3>1. ~ \E c \in expanded : NeedsAvb(c)
        BY <1>2 DEF Untagged
      <3> QED BY <3>1 DEF NeedsAvb
    <2>2. Detect(f) = None \/ Detect(f) \in LinkLayer(f)
      BY <1>2, DetectIsFound
    <2>3. Detect(f) \in LinkLayer(f) => Detect(f).is \in {"Avb", "Msrp", "Mvrp", "AvdeccAdp"}
      BY <1>2, LinkKinds
    <2>4. Detect(f).is \in {"Avb", "Msrp", "Mvrp", "AvdeccAdp"} => ~IsSelected(Detect(f))
      BY <2>1 DEF IsSelected
    <2> QED BY <2>2, <2>3, <2>4, NoneIsNotSelected
  <1>3. CASE f.type \in {"lldp", "gptp", "flow"}
    BY <1>3 DEF Untagged
  <1>4. CASE f.type \notin {"ipv4", "avtp", "msrp", "mvrp", "lldp", "gptp", "flow"}
    <2>1. LinkLayer(f) = {}
      BY <1>4, OtherLink
    <2>2. Detect(f) = None \/ Detect(f) \in LinkLayer(f)
      BY <1>4, DetectIsFound
    <2> QED BY <2>1, <2>2, NoneIsNotSelected
  <1> QED BY <1>1, <1>2, <1>3, <1>4

\* What is asked for is concrete, and what is known of a packet is what was made of it.
PathInv ==
    /\ expanded \subseteq Concrete
    /\ phase = "packet" =>
          /\ frame \in Frames
          /\ detected = IF Passes(frame, expanded) THEN Detect(frame) ELSE None
          /\ handled = IsSelected(detected)

LEMMA PathInvariance == PathSpec => []PathInv
  <1>1. PathInit => PathInv
    BY DEF PathInit, PathInv
  <1>2. PathInv /\ [PathNext]_pathVars => PathInv'
    <2> SUFFICES ASSUME PathInv, [PathNext]_pathVars PROVE PathInv'
      OBVIOUS
    <2>1. ASSUME NEW words \in CommandLines, NEW answer \in Answers, NEW ok \in BOOLEAN,
                 Start(words, answer, ok)
          PROVE  PathInv'
      <3>1. Expanded(Chosen(ParseArgs(words), answer)) \subseteq Concrete
        BY ChosenAreOffered, ExpandedAreConcrete
      <3>2. expanded' \subseteq Concrete /\ phase' # "packet"
        BY <2>1, <3>1 DEF Start, PathInv
      <3> QED BY <3>2 DEF PathInv
    <2>2. ASSUME NEW f \in Frames, Packet(f) PROVE PathInv'
      <3>1. frame' = f /\ expanded' = expanded
            /\ detected' = (IF Passes(f, expanded) THEN Detect(f) ELSE None)
            /\ handled' = IsSelected(detected')
        BY <2>2 DEF Packet
      <3>2. handled' = IsSelected(detected)'
        BY <3>1 DEF IsSelected
      <3> QED BY <3>1, <3>2 DEF PathInv
    <2>3. CASE NextPacket
      BY <2>3 DEF NextPacket, PathInv
    <2>4. CASE UNCHANGED pathVars
      BY <2>4 DEF pathVars, PathInv, IsSelected
    <2> QED BY <2>1, <2>2, <2>3, <2>4 DEF PathNext
  <1> QED BY <1>1, <1>2, PTL DEF PathSpec

\* Nothing that a handler would get is dropped by the kernel, and nothing the detector takes
\* for UDP by mistake gets to one: for every selection and every frame of at most one tag,
\* other than PTP over UDP under AVB alone.
THEOREM FilterPasses == PathSpec => []FilterPassesSelected
  <1>1. PathInv => FilterPassesSelected
    <2> SUFFICES ASSUME PathInv, phase = "packet" PROVE FilterPassesSelected
      BY DEF FilterPassesSelected
    <2>1. detected = (IF Passes(frame, expanded) THEN Detect(frame) ELSE None)
          /\ handled = IsSelected(detected) /\ expanded \subseteq Concrete
      BY DEF PathInv
    <2>2. CASE frame.type = "ipv4" /\ frame.proto \notin {"igmp", "tcp", "udp"}
      <3>1. ~Passes(frame, expanded)
        BY <2>2 DEF Passes, Untagged
      <3> QED BY <2>1, <2>2, <3>1, NoneIsNotSelected DEF FilterPassesSelected
    <2>3. CASE /\ ~(frame.type = "ipv4" /\ frame.proto \notin {"igmp", "tcp", "udp"})
               /\ ~(frame.type = "ipv4" /\ Cut(frame))
               /\ Len(frame.pcps) <= 1 /\ (frame.type = "ipv4" => expanded # {"avb"})
      <3>1. CASE Passes(frame, expanded)
        BY <2>1, <2>3, <3>1 DEF FilterPassesSelected
      <3>2. CASE ~Passes(frame, expanded)
        <4>1. ~Untagged(frame, expanded)
          BY <2>3, <3>2 DEF Passes
        <4>2. ~IsSelected(Detect(frame)) /\ ~handled
          BY <2>1, <2>3, <3>2, <4>1, DroppedIsNotSelected, NoneIsNotSelected
        <4>3. handled \in BOOLEAN
          BY <2>1 DEF IsSelected
        <4>4. IsSelected(Detect(frame)) \in BOOLEAN
          BY DEF IsSelected
        <4>5. handled = IsSelected(Detect(frame))
          BY <4>2, <4>3, <4>4
        <4> QED BY <2>3, <4>5 DEF FilterPassesSelected
      <3> QED BY <3>1, <3>2
    <2>4. CASE frame.type = "ipv4" /\ Cut(frame)
      <3>1. frame.proto = "tcp"
        BY <2>4 DEF Cut
      <3>2. handled => Passes(frame, expanded)
        BY <2>1, NoneIsNotSelected
      <3>3. handled => "ndi" \in expanded
        BY <2>4, <3>1, <3>2 DEF Passes, Untagged, NeedsTcp
      <3> QED BY <2>4, <3>1, <3>3 DEF FilterPassesSelected
    <2>5. CASE /\ ~(frame.type = "ipv4" /\ frame.proto \notin {"igmp", "tcp", "udp"})
               /\ ~(frame.type = "ipv4" /\ Cut(frame))
               /\ ~(Len(frame.pcps) <= 1 /\ (frame.type = "ipv4" => expanded # {"avb"}))
      BY <2>5 DEF FilterPassesSelected
    <2> QED BY <2>2, <2>3, <2>4, <2>5
  <1> QED BY <1>1, PathInvariance, PTL

-----------------------------------------------------------------------------
(* Source ports. *)

\* The dynamic ports of IANA.
Dynamic == 49152..65535

Families == {MdnsPort, 8751} \cup DanteCtrlPorts \cup DvsPorts \cup ViaPorts \cup PtpPorts
              \cup AtpPorts \cup DanteAudioPorts

\* No family of which a source port decides has one of them.
LEMMA DynamicIsInNoFamily == ASSUME NEW p \in Dynamic PROVE p \notin Families
  <1>1. p \in Int /\ p >= 49152
    BY DEF Dynamic
  <1>2. \A q \in Families : q < 49152
    <2>1. \A q \in {MdnsPort, 8751} \cup DanteCtrlPorts \cup PtpPorts : q < 49152
      BY DEF MdnsPort, DanteCtrlPorts, PtpPorts
    <2>2. \A q \in DvsPorts : q < 49152
      BY DEF DvsPorts
    <2>3. \A q \in ViaPorts : q < 49152
      BY DEF ViaPorts
    <2>4. \A q \in AtpPorts \cup DanteAudioPorts : q < 49152
      BY DEF AtpPorts, DanteAudioPorts
    <2> QED BY <2>1, <2>2, <2>3, <2>4 DEF Families
  <1>3. ~(p < 49152)
    BY <1>1
  <1> QED BY <1>2, <1>3

\* Beside a port of no family, only the other one matters.
LEMMA OneOfTwo ==
    ASSUME NEW p, NEW q, NEW d, NEW S, p \notin S, q \notin S
    PROVE  ({p, d} \cap S # {}) = ({q, d} \cap S # {})
  OBVIOUS

LEMMA SameRules ==
    ASSUME NEW f, NEW g, g.dport = f.dport, g.dst = f.dst, g.payload = f.payload,
           f.sport \in Dynamic, g.sport \in Dynamic
    PROVE  UdpRules(g) = UdpRules(f) /\ AudioRules(g) = AudioRules(f)
  <1> DEFINE p == f.sport
             q == g.sport
             d == f.dport
  <1>1. p \notin Families /\ q \notin Families
    BY DynamicIsInNoFamily
  <1>2. ({q, d} \cap DanteCtrlPorts # {}) = ({p, d} \cap DanteCtrlPorts # {})
    BY <1>1, OneOfTwo DEF Families
  <1>3. ({q, d} \cap PtpPorts # {}) = ({p, d} \cap PtpPorts # {})
    BY <1>1, OneOfTwo DEF Families
  <1>4. ({q, d} \cap AtpPorts # {}) = ({p, d} \cap AtpPorts # {})
    BY <1>1, OneOfTwo DEF Families
  <1>5. (MdnsPort \in {q, d}) = (MdnsPort \in {p, d})
    BY <1>1 DEF Families
  <1>6. DanteControlPlaneClass(q, d) = DanteControlPlaneClass(p, d)
    <2>1. ({q, d} \cap DvsPorts # {}) = ({p, d} \cap DvsPorts # {})
      BY <1>1, OneOfTwo DEF Families
    <2>2. ({q, d} \cap ViaPorts # {}) = ({p, d} \cap ViaPorts # {})
      BY <1>1, OneOfTwo DEF Families
    <2>3. (8751 \in {q, d}) = (8751 \in {p, d})
      BY <1>1 DEF Families
    <2> QED BY <2>1, <2>2, <2>3 DEF DanteControlPlaneClass
  <1>7. ({q, d} \subseteq DanteAudioPorts) = FALSE /\ ({p, d} \subseteq DanteAudioPorts) = FALSE
    BY <1>1 DEF Families
  <1>8. UdpRules(g) = UdpRules(f)
    <2> DEFINE r == UdpRules(g)
               s == UdpRules(f)
    <2>1. r[1] = s[1]
      BY DEF UdpRules
    <2>2. r[2] = s[2]
      BY <1>5 DEF UdpRules
    <2>3. r[3] = s[3]
      BY DEF UdpRules
    <2>4. r[4] = s[4]
      BY <1>2 DEF UdpRules
    <2>5. r[5] = s[5]
      BY <1>6 DEF UdpRules
    <2>6. r[6] = s[6]
      BY <1>3 DEF UdpRules
    <2>7. r[7] = s[7]
      <3> DEFINE atp(x) == \/ IsDanteMulticast(f.dst) /\ d = 4321
                           \/ {x, d} \cap AtpPorts # {}
      <3>1. r[7] = [on |-> atp(q), is |-> Dante("Audio", {})]
        BY DEF UdpRules
      <3>2. s[7] = [on |-> atp(p), is |-> Dante("Audio", {})]
        BY DEF UdpRules
      <3>3. atp(q) = atp(p)
        BY <1>4
      <3> HIDE DEF atp, r, s
      <3> QED BY <3>1, <3>2, <3>3
    <2>8. r = [i \in 1..7 |-> r[i]] /\ s = [i \in 1..7 |-> s[i]]
      BY UdpRulesAreOfUdp
    <2> HIDE DEF r, s
    <2>9. \A i \in 1..7 : r[i] = s[i]
      BY <2>1, <2>2, <2>3, <2>4, <2>5, <2>6, <2>7
    <2>10. r = s
      BY <2>8, <2>9
    <2> QED BY <2>10 DEF r, s
  <1>9. IsLikelyDanteAudio(g) = IsLikelyDanteAudio(f)
    BY <1>7 DEF IsLikelyDanteAudio
  <1>10. AudioRules(g) = AudioRules(f)
    BY <1>9 DEF AudioRules
  <1> QED BY <1>8, <1>10

\* Where hosts take the ports of their unbound sockets from the dynamic range of IANA, such a
\* port as the source of a datagram decides nothing about what the datagram is taken for.
THEOREM SourcePortsDecideNothing ==
    ASSUME Ephemeral \subseteq Dynamic PROVE PathSpec => []SourcePortIsNoEvidence
  <1>1. PathInv => SourcePortIsNoEvidence
    <2> SUFFICES ASSUME PathInv, phase = "packet", frame.type = "ipv4", frame.proto = "udp",
                        frame.sport \in Ephemeral, NEW port \in Ephemeral
                 PROVE  Detect([frame EXCEPT !.sport = port]) = Detect(frame)
      BY DEF SourcePortIsNoEvidence
    <2> DEFINE g == [frame EXCEPT !.sport = port]
    <2>1. DOMAIN frame = {"pcps", "type", "proto", "dst", "sport", "dport", "payload", "wrote",
                          "whole"}
      BY FrameAssumption DEF PathInv
    <2>2. /\ g.type = frame.type /\ g.proto = frame.proto /\ g.dport = frame.dport
          /\ g.dst = frame.dst /\ g.payload = frame.payload /\ g.sport = port
      BY <2>1
    <2> HIDE DEF g
    <2>3. UdpRules(g) = UdpRules(frame) /\ AudioRules(g) = AudioRules(frame)
      <3>1. frame.sport \in Dynamic
        OBVIOUS
      <3>2. g.sport \in Dynamic
        BY <2>2
      <3> QED BY <2>2, <3>1, <3>2, SameRules
    <2>4. Udp(g) = Udp(frame)
      BY <2>2, <2>3 DEF Udp
    <2>5. Detect(g) = Detect(frame)
      BY <2>2, <2>4 DEF Detect, Cut
    <2> QED BY <2>5 DEF g
  <1> QED BY <1>1, PathInvariance, PTL

=============================================================================
