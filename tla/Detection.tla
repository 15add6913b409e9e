----------------------------- MODULE Detection -----------------------------
(***************************************************************************)
(* What a frame is taken for: unwrap_vlan and detect_protocol_unwrapped,   *)
(* with the port families of Dante and the precedence of the audio rules   *)
(* (ADR 0001).                                                             *)
(*                                                                         *)
(* A frame is [pcps, type, proto, dst, sport, dport, payload, wrote,       *)
(* whole]: the priorities of its VLAN tags, its inner EtherType, its IP    *)
(* protocol, an address of four octets, ports, and a payload whose kind    *)
(* decides which parser accepts it.  What its sender wrote into it, and    *)
(* whether all of it is there, is for the properties.                      *)
(***************************************************************************)
EXTENDS WireFormats

SapPort == 9875
MdnsPort == 5353
PtpPorts == {319, 320}
DanteCtrlPorts == {4440, 4455, 8700, 8800}
ConmonPorts == 8700..8708
AtpPorts == 14336..15359
DanteAudioPorts == {p \in 5000..6000 : p % 2 = 0}

None == [is |-> "None", kind |-> "", names |-> {}]

Found(is, kind, names) == {[is |-> is, kind |-> kind, names |-> names]}

-----------------------------------------------------------------------------
(* Addresses and ports. *)

IsAes67Multicast(ip)  == ip[1] = 239 /\ ip[2] = 69
IsSt2110Multicast(ip) == ip[1] = 239 /\ ip[2] # 69
IsDanteMulticast(ip)  == ip[1] = 239 /\ ip[2] = 255

\* The essence, by the last digit of the port before the payload type.
ClassifySt2110(pt, port) ==
    IF port % 10 \in {4, 6, 8}
    THEN CASE port % 10 = 4 -> "Video"
           [] port % 10 = 6 -> "Audio"
           [] port % 10 = 8 -> "Ancdata"
    ELSE CASE pt \in 96..107  -> "Video"
           [] pt \in 108..115 -> "Audio"
           [] pt \in 116..127 -> "Ancdata"
           [] OTHER           -> "Unknown"

IsLikelyDanteAudio(f) ==
    /\ f.payload.pt \in {0, 8} \cup 96..127
    /\ {f.sport, f.dport} \subseteq DanteAudioPorts

DvsPorts == (38700..38708) \cup {38800, 38900}
ViaPorts == (28700..28708) \cup {28800, 28900, 4777, 24440, 24441, 24444, 24455}
              \cup (34336..34600)

\* Mutation of DanteControlPlaneClass: the flow keepalive range on either side.
DanteControlPlaneClassEither(sport, dport) ==
    IF {sport, dport} \cap DvsPorts # {} \/ dport = 8899 THEN {"Dvs"}
    ELSE IF {sport, dport} \cap ViaPorts # {} THEN {"Via"}
    ELSE IF {sport, dport} \cap ({8751} \cup (61440..61951)) # {} THEN {"Hardware"}
    ELSE {}

\* The product that a port family identifies; the families that overlap other uses count
\* as destinations only.
DanteControlPlaneClass(sport, dport) ==
    IF {sport, dport} \cap DvsPorts # {} \/ dport = 8899 THEN {"Dvs"}
    ELSE IF {sport, dport} \cap ViaPorts # {} THEN {"Via"}
    ELSE IF 8751 \in {sport, dport} \/ dport \in 61440..61951 THEN {"Hardware"}
    ELSE {}

-----------------------------------------------------------------------------
(* The link layer and IGMP. *)

LinkLayer(f) ==
    CASE f.type = "msrp" ->
            IF f.payload.declared = {} THEN {} ELSE Found("Msrp", "", f.payload.declared)
      [] f.type = "lldp" ->
            UNION {Found("LldpEee", "", {w}) : w \in LldpEee(f.payload.tlvs, f.payload.size)}
      [] f.type = "flow" ->
            UNION {Found("FlowControl", k, {}) :
                     k \in {FlowControlKind(f.payload.opcode)} \ {"Unknown"}}
      [] f.type = "mvrp" ->
            IF MvrpVlans(f.payload.octets) = {} THEN {}
            ELSE Found("Mvrp", "", MvrpVlans(f.payload.octets))
      [] f.type = "avtp" /\ f.payload.kind = "adp" ->
            IF IsAdp(f.payload) THEN Found("AvdeccAdp", "", {}) ELSE {}
      [] f.type = "avtp" /\ f.payload.kind = "stream" ->
            Found("Avb", "", AvtpStreamId(f.payload))
      [] f.type = "gptp" -> IF f.payload.kind = "ptp" THEN Found("Ptp", "AVB", {}) ELSE {}
      [] OTHER -> {}

\* A query has twelve octets from version 3 on.
IgmpType(p) ==
    CASE p.kind = "query"  -> Found("Igmp", IF p.size >= 12 THEN "Query3" ELSE "Query2", {})
      [] p.kind = "join"   -> Found("Igmp", "Join", {})
      [] p.kind = "leave"  -> Found("Igmp", "Leave", {})
      [] p.kind = "report" -> Found("Igmp", "MembershipReportV3", ReportGroups(p.words))
      [] OTHER             -> Found("Igmp", "Unknown", {})

-----------------------------------------------------------------------------
(* UDP: a rule that applies decides, even when it finds nothing. *)

Dante(kind, names) == Found("Dante", kind, names)

\* Only responses name devices.
Mdns(m) ==
    IF ~m.reply THEN {}
    ELSE IF \E s \in Services \ {"_ndi"} : MdnsContains(m, s)
    THEN Dante("Discovery", {DanteName(m)} \ {NoName})
    ELSE IF MdnsContains(m, "_ndi") THEN Found("Ndi", "Discovery", {NdiName(m)} \ {NoName})
    ELSE {}

\* ADR 0001: Dante before AES67, and ST 2110 is what remains of 239.0.0.0/8.
AudioRules(f) == <<
    [on |-> IsLikelyDanteAudio(f),                                  is |-> Dante("Audio", {})],
    [on |-> IsDanteMulticast(f.dst) /\ f.dport \in DanteAudioPorts, is |-> Dante("Audio", {})],
    [on |-> IsAes67Multicast(f.dst),  is |-> Found("Aes67", "", {})],
    [on |-> IsSt2110Multicast(f.dst),
     is |-> Found("St2110", ClassifySt2110(f.payload.pt, f.dport), {})]>>

UdpRules(f) == <<
    [on |-> f.dport = SapPort,
     is |-> IF f.payload.kind = "sap" THEN Found("Sap", "", {}) ELSE {}],
    [on |-> MdnsPort \in {f.sport, f.dport},
     is |-> IF f.payload.kind = "dns" THEN Mdns(f.payload) ELSE {}],
    [on |-> f.dport \in ConmonPorts /\ IsConmon(f.payload),
     is |-> IF IsConmon(f.payload)
            THEN Dante("ConMon", {<<ConmonMac(f.payload.identity), ConmonChannels(f.payload)>>})
            ELSE {}],
    [on |-> {f.sport, f.dport} \cap DanteCtrlPorts # {},
     is |-> Dante("Control", {})],
    [on |-> DanteControlPlaneClass(f.sport, f.dport) # {},
     is |-> UNION {Dante(c, {}) : c \in DanteControlPlaneClass(f.sport, f.dport)}],
    [on |-> {f.sport, f.dport} \cap PtpPorts # {} /\ f.payload.kind = "ptp",
     is |-> Found("Ptp", "UDP", {})],
    [on |-> \/ IsDanteMulticast(f.dst) /\ f.dport = 4321
            \/ {f.sport, f.dport} \cap AtpPorts # {},
     is |-> Dante("Audio", {})]>>

FirstOf(rules) ==
    LET on == {i \in DOMAIN rules : rules[i].on}
    IN  IF on = {} THEN {} ELSE rules[Min(on)].is

\* What is left must be RTP: twelve octets, version 2.
Udp(f) ==
    IF f.payload.kind = "rtp" THEN FirstOf(UdpRules(f) \o AudioRules(f))
    ELSE FirstOf(UdpRules(f))

\* A TCP segment of fewer than the twenty octets of its header, and at least eight.
Cut(f) == f.proto = "tcp" /\ f.payload.kind = "cut"

\* What is neither IGMP nor a TCP header goes through the rules for UDP.
Detect(f) ==
    LET found == IF f.type # "ipv4" THEN LinkLayer(f)
                 ELSE CASE f.proto = "igmp"            -> IgmpType(f.payload)
                        [] f.proto = "tcp" /\ ~Cut(f)  -> Found("Tcp", "", {})
                        [] OTHER                       -> Udp(f)
    IN  IF found = {} THEN None ELSE CHOOSE p \in found : TRUE

=============================================================================
