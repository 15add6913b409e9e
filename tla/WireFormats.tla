---------------------------- MODULE WireFormats ----------------------------
(***************************************************************************)
(* What the parsers read from a payload that may be cut short anywhere:    *)
(* IGMPv3 reports, MVRP and LLDP, MAC control, ConMon, AVTP, ADP and mDNS. *)
(*                                                                         *)
(* A payload is a sequence of octets where the parser computes offsets     *)
(* from what it reads (MVRP), of words of four octets where every field is *)
(* aligned (IGMPv3), of TLVs or of names and labels where it walks those.  *)
(* The offsets are recursive functions: f[at] is what is read from at on.  *)
(***************************************************************************)
EXTENDS Integers, SequencesExt, FiniteSetsExt

CONSTANTS NoName, Gap    \* no name; octets of a message that are not a label

U16(high, low) == high * 256 + low

\* Class D, by the first octet.
IsMulticast(ip) == ip[1] \in 224..239

-----------------------------------------------------------------------------
(* IGMPv3 Membership Reports. *)

\* The words of a group record: its head, its group, its sources, its auxiliary data.
RecordWords(head) == 2 + U16(head[3], head[4]) + head[2]

\* The groups of the records whose head and group are there.  The type of a record is
\* not looked at: one that leaves a group names it as one that joins it does.
ReportGroups(words) ==
    LET groups[left \in Nat, at \in Nat] ==
          IF left = 0 \/ at + 1 > Len(words) THEN {}
          ELSE {g \in {words[at + 1]} : IsMulticast(g)}
                 \cup groups[left - 1, at + RecordWords(words[at])]
    IN  IF Len(words) < 2 THEN {} ELSE groups[U16(words[2][3], words[2][4]), 3]

-----------------------------------------------------------------------------
(* MVRP, and what LLDP and MAC control say of the link. *)

\* The walk is between messages when type is 0, else in the vectors of a message of
\* that type.  A vector that is cut before its end still declares its values; nothing
\* after it is read.
MvrpVlans(octets) ==
    LET declared(first, n) == {(first + i) % 4096 : i \in 0..(n - 1)} \ {0}
        vlans[at \in Nat, type \in Nat, len \in Nat] ==
          LET header == U16(octets[at], octets[at + 1])
              n      == header % 8192
              events == (n + 2) \div 3
          IN  IF at + 1 > Len(octets) THEN {}
              ELSE IF type = 0
              THEN IF octets[at] = 0 \/ octets[at + 1] = 0 THEN {}
                   ELSE vlans[at + 2, octets[at], octets[at + 1]]
              ELSE IF header = 0 THEN vlans[at + 2, 0, 0]
              ELSE IF n = 0 THEN vlans[at + 2, type, len]
              ELSE IF at + 1 + len > Len(octets) THEN {}
              ELSE (IF type = 1 /\ len = 2
                    THEN declared(U16(octets[at + 2], octets[at + 3]) % 4096, n) ELSE {})
                   \cup (IF at + 1 + len + events > Len(octets) THEN {}
                         ELSE vlans[at + 2 + len + events, type, len])
    IN  IF octets = <<>> \/ Head(octets) # 0 THEN {} ELSE vlans[2, 0, 0]

\* The wake times of the last whole EEE TLV before the end mark or the cut, if one of
\* them is not zero.  A TLV is [type, len, eee, tx, rx], a frame of size octets.
LldpEee(tlvs, size) ==
    LET end(i)  == MapThenSumSet(LAMBDA j : 2 + tlvs[j].len, 1..i)
        whole   == {i \in DOMAIN tlvs : \A j \in 1..i : tlvs[j].type # 0 /\ end(j) <= size}
        eee     == {i \in whole : tlvs[i].type = 127 /\ tlvs[i].eee /\ tlvs[i].len >= 14}
        last    == tlvs[Max(eee)]
    IN  IF eee # {} /\ last.tx + last.rx > 0 THEN {<<last.tx, last.rx>>} ELSE {}

\* The opcodes 802.3x PAUSE and 802.1Qbb PFC.
FlowControlKind(opcode) ==
    CASE opcode = 1   -> "Pause"
      [] opcode = 257 -> "PriorityFlowControl"
      [] OTHER        -> "Unknown"

-----------------------------------------------------------------------------
(* ConMon: [size, signed, declared, identity, class, tagged, block, count]. *)

MeteringClass == 4098

\* Mutation of ConmonMac: the first six octets, whichever the encoding.
ConmonMacPlain(identity) == SubSeq(identity, 1, 6)

\* The MAC in the eight octets of the sender: a modified EUI-64 has FF:FE in the middle.
ConmonMac(identity) ==
    IF identity[4] = 255 /\ identity[5] = 254
    THEN SubSeq(identity, 1, 3) \o SubSeq(identity, 6, 8)
    ELSE SubSeq(identity, 1, 6)

IsConmon(p) ==
    /\ p.kind = "conmon" /\ p.size >= 24 /\ p.signed
    /\ p.declared \in 24..p.size

\* The channel count of a metering frame whose block repeats the sender's MAC.
ConmonChannels(p) ==
    {c \in {p.count} :
        /\ p.size > 68 /\ p.class = MeteringClass /\ p.tagged
        /\ p.block = ConmonMac(p.identity)
        /\ c > 0 /\ 71 + c <= p.declared}

-----------------------------------------------------------------------------
(* AVTP and ADP headers. *)

\* The stream id is there when its bit (sv) is set and twelve octets are.
AvtpStreamId(p) == {id \in {p.stream} : p.size >= 12 /\ p.valid}

IsAdp(p) == p.size >= 49

-----------------------------------------------------------------------------
(* mDNS: [reply, asks, answers, there, about], a name is a sequence of labels, *)
(* the last one Gap when the name goes on elsewhere in the message             *)
(* (compression); the first there of its labels and gaps are there.            *)

Services == {"_netaudio-cmc", "_netaudio-arc", "_netaudio", "_ndi"}

\* A message up to its n-th answer, as the search for labels sees it.
Tokens(m, n) ==
    FoldLeft(LAMBDA t, ask : t \o ask \o <<Gap>>, <<Gap>>, m.asks)
      \o FoldLeft(LAMBDA t, rr : t \o rr.owner \o <<Gap>> \o rr.data \o <<Gap>>,
                     <<>>, SubSeq(m.answers, 1, n))

DnsTokens(m) == SubSeq(Tokens(m, Len(m.answers)), 1, m.there)

MdnsContains(m, service) == \E i \in DOMAIN DnsTokens(m) : DnsTokens(m)[i] = service

\* The label just before the first mention of the service, if it is one.
InstanceBefore(m, service) ==
    LET t  == DnsTokens(m)
        at == {i \in DOMAIN t : t[i] = service}
    IN  IF at # {} /\ t[Min(at) - 1] # Gap THEN t[Min(at) - 1] ELSE NoName

\* Of the first PTR answer that has one, the first label of its data, which is followed by
\* the rest of them and a gap.
PtrInstance(m) ==
    LET named == {i \in DOMAIN m.answers :
                     /\ m.answers[i].type = "PTR" /\ Head(m.answers[i].data) # Gap
                     /\ Len(Tokens(m, i)) - Len(m.answers[i].data) <= m.there}
    IN  IF named = {} THEN NoName ELSE Head(m.answers[Min(named)].data)

FirstNamed(names) ==
    LET found == {i \in DOMAIN names : names[i] # NoName}
    IN  IF found = {} THEN NoName ELSE names[Min(found)]

DanteName(m) ==
    FirstNamed(<<InstanceBefore(m, "_netaudio-cmc"), InstanceBefore(m, "_netaudio-arc"),
                 InstanceBefore(m, "_netaudio"), PtrInstance(m)>>)

NdiName(m) == FirstNamed(<<InstanceBefore(m, "_ndi"), PtrInstance(m)>>)

=============================================================================
