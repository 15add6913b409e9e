---------------------------- MODULE MCPacketPath ----------------------------
(* PacketPath with frames of every kind the detector knows, on the ports at  *)
(* and beside the edges of its port families, cut short where the parser     *)
(* computes offsets.                                                         *)
EXTENDS PacketPath

CONSTANTS Sources, Destinations

Frame(pcps, type, proto, dst, sport, dport, payload, wrote, whole) ==
    [pcps |-> pcps, type |-> type, proto |-> proto, dst |-> dst, sport |-> sport,
     dport |-> dport, payload |-> payload, wrote |-> wrote, whole |-> whole]

Unicast == <<10, 0, 0, 7>>
PtpPrimary == <<224, 0, 1, 129>>

\* Media and control flows.
Flows ==
    {Frame(<<>>, "ipv4", "udp", dst, sport, dport, payload, {}, TRUE) :
        dst \in {Unicast, <<239, 69, 0, 1>>, <<239, 255, 0, 1>>, <<239, 1, 0, 1>>},
        sport \in Sources, dport \in Destinations,
        payload \in {[kind |-> "rtp", pt |-> 97], [kind |-> "rtp", pt |-> 33],
                     [kind |-> "ptp"], [kind |-> "noise"]}}

\* Infrastructure to the groups joined at startup, and tagged frames.
Infrastructure ==
    {Frame(pcps, "ipv4", "udp", dst, 319, 319, [kind |-> "ptp"], {}, TRUE) :
        dst \in PtpGroups, pcps \in {<<>>, <<3>>, <<3, 5>>}}
    \cup {Frame(<<>>, "ipv4", "udp", dst, 50000, SapPort, [kind |-> k], {}, TRUE) :
            dst \in SapGroups, k \in {"sap", "noise"}}
    \cup {Frame(<<>>, "ipv4", p, Unicast, 50000, port, [kind |-> "noise"], {}, TRUE) :
            p \in {"tcp", "other"}, port \in {5960, 8800}}
    \cup {Frame(<<>>, "ipv4", "tcp", Unicast, 50000, port, [kind |-> "cut"], {}, FALSE) :
            port \in {5960, 8800}}
    \cup {Frame(pcps, type, "", Unicast, 0, 0, [kind |-> "ptp"], {}, TRUE) :
            pcps \in {<<>>, <<3>>, <<3, 5>>}, type \in {"gptp", "arp"}}
    \cup {Frame(pcps, "avtp", "", Unicast, 0, 0,
                [kind |-> "stream", size |-> n, valid |-> v, stream |-> 1],
                {1}, v /\ n >= 12) :
            pcps \in {<<>>, <<3>>}, n \in {4, 12}, v \in BOOLEAN}
    \cup {Frame(<<>>, "avtp", "", Unicast, 0, 0, [kind |-> "adp", size |-> n], {}, TRUE) :
            n \in {48, 49}}
    \cup {Frame(<<>>, "msrp", "", Unicast, 0, 0, [kind |-> "msrp", declared |-> d], d, TRUE) :
            d \in SUBSET {1}}
    \cup {Frame(<<>>, "flow", "", Unicast, 0, 0, [kind |-> "flow", opcode |-> o], {}, TRUE) :
            o \in {1, 2, 257}}

\* IGMP, with reports of up to two records and an auxiliary word that looks like a group.
Groups == <<<<239, 69, 0, 1>>, <<239, 1, 0, 2>>>>
RecordOf(i, sources, aux) ==
    <<<<4, aux, 0, sources>>, Groups[i]>>
      \o [s \in 1..sources |-> <<10, 0, 0, s>>] \o [a \in 1..aux |-> <<239, 7, 7, 7>>]
Report(shape) ==
    <<<<34, 0, 0, 0>>, <<0, 0, 0, Len(shape)>>>>
      \o FlattenSeq([i \in DOMAIN shape |-> RecordOf(i, shape[i][1], shape[i][2])])
Reports ==
    UNION {{Frame(<<>>, "ipv4", "igmp", V3Reports, 0, 0,
                  [kind |-> "report", words |-> SubSeq(Report(shape), 1, cut)],
                  {Groups[i] : i \in DOMAIN shape}, cut = Len(Report(shape))) :
              cut \in 0..Len(Report(shape))} :
           shape \in UNION {[1..n -> (0..2) \X (0..1)] : n \in 0..2}}
Igmp ==
    {Frame(<<>>, "ipv4", "igmp", <<224, 0, 0, 1>>, 0, 0, [kind |-> k, size |-> n], {}, TRUE) :
        k \in {"query", "join", "leave", "noise"}, n \in {8, 12}}

\* MVRP: vectors that wrap, that are only a LeaveAll, of more than three values.
Vector(v) == <<v[3] * 32 + v[2] \div 256, v[2] % 256>>
               \o (IF v[2] = 0 THEN <<>>
                   ELSE <<v[1] \div 256, v[1] % 256>> \o [e \in 1..((v[2] + 2) \div 3) |-> 108])
MvrpOctets(vectors) ==
    <<0, 1, 2>> \o FlattenSeq([i \in DOMAIN vectors |-> Vector(vectors[i])]) \o <<0, 0, 0, 0>>
MvrpVectors == {<<4095, 2, 0>>, <<100, 1, 1>>, <<200, 4, 0>>, <<0, 0, 1>>}
Mvrps ==
    UNION {{Frame(<<>>, "mvrp", "", Unicast, 0, 0,
                  [kind |-> "mvrp", octets |-> SubSeq(MvrpOctets(v), 1, cut)],
                  UNION {{(v[i][1] + k) % 4096 : k \in 0..(v[i][2] - 1)} \ {0} : i \in DOMAIN v},
                  cut = Len(MvrpOctets(v))) :
              cut \in 0..Len(MvrpOctets(v))} :
           v \in UNION {[1..n -> MvrpVectors] : n \in 1..2}}

\* LLDP with the EEE TLV before or after others, too short, or after the end mark.
Tlv(type, len, eee) == [type |-> type, len |-> len, eee |-> eee, tx |-> 30, rx |-> 0]
Lldps ==
    {Frame(<<>>, "lldp", "", Unicast, 0, 0, [kind |-> "lldp", tlvs |-> t, size |-> n],
           {<<30, 0>>}, FALSE) :
        t \in {<<Tlv(1, 7, FALSE), Tlv(127, 14, TRUE), Tlv(0, 0, FALSE)>>,
               <<Tlv(127, 12, TRUE), Tlv(0, 0, FALSE)>>,
               <<Tlv(0, 0, FALSE), Tlv(127, 14, TRUE)>>},
        n \in {2, 24, 25, 27, 60}}

\* ConMon from a device of either encoding, whole, cut or padded: meters of 32 channels, and
\* the status message, whose padding looks like meters.
Mac == <<0, 29, 193, 1, 2, 3>>
Conmons ==
    {Frame(<<>>, "ipv4", "udp", <<224, 0, 0, 231>>, 8705, 8705,
           [kind |-> "conmon", size |-> n, signed |-> s, declared |-> d, identity |-> id,
            class |-> IF d = 120 THEN MeteringClass ELSE 1, tagged |-> TRUE, block |-> b,
            count |-> 32],
           {<<Mac, IF d = 120 /\ b = Mac THEN {32} ELSE {}>>}, s /\ n >= d) :
        n \in {16, 23, 24, 53, 54, 59, 60, 68, 69, 102, 103, 119, 120, 130}, s \in BOOLEAN,
        d \in {60, 120}, b \in {Mac, <<0, 160, 222, 1, 2, 3>>},
        id \in {Mac \o <<0, 0>>, <<0, 29, 193, 255, 254, 1, 2, 3>>}}

\* Announcements and replies, cut anywhere; a reply to the probe echoes its questions and
\* compresses.  Of one product or two, and a list of services.
Arc == <<"_netaudio-arc", "_udp", "local", Gap>>
Cmc == <<"_netaudio-cmc", "_udp", "local", Gap>>
Ndi == <<"_ndi", "_tcp", "local", Gap>>
Ptr(owner, data) == [type |-> "PTR", owner |-> owner, data |-> data]
Srv(owner) == [type |-> "SRV", owner |-> owner, data |-> <<Gap>>]
Named(reply, asks, answers, about, names) ==
    LET m == [kind |-> "dns", reply |-> reply, asks |-> asks, answers |-> answers, there |-> 0,
              about |-> about]
        all == Len(Tokens(m, Len(answers)))
    IN  {Frame(<<>>, "ipv4", "udp", <<224, 0, 0, 251>>, MdnsPort, MdnsPort,
               [m EXCEPT !.there = n], names, n = all) : n \in 0..all}
Mdnss ==
    UNION {
        Named(FALSE, <<Arc, Ndi>>, <<>>, {}, {}),
        Named(TRUE, <<>>, <<Ptr(Arc, <<"Stage">> \o Arc)>>, {"Dante"}, {"Stage"}),
        Named(TRUE, <<>>, <<Srv(<<"Stage">> \o Cmc), Srv(<<"Stage">> \o Arc)>>, {"Dante"},
              {"Stage"}),
        Named(TRUE, <<Arc, Ndi>>, <<Ptr(<<Gap>>, <<"Stage", Gap>>)>>, {"Dante"}, {"Stage"}),
        Named(TRUE, <<Arc, Ndi>>, <<Ptr(<<Gap>>, <<"Camera", Gap>>)>>, {"Ndi"}, {"Camera"}),
        Named(TRUE, <<>>, <<Ptr(Ndi, <<"Camera">> \o Ndi)>>, {"Ndi"}, {"Camera"}),
        Named(TRUE, <<>>, <<Ptr(<<"_http">>, <<"Web", Gap>>)>>, {}, {}),
        Named(TRUE, <<>>, <<Ptr(Ndi, <<"Camera", Gap>>), Ptr(Arc, <<"Stage", Gap>>)>>,
              {"Dante", "Ndi"}, {"Camera", "Stage"}),
        Named(TRUE, <<>>, <<Ptr(<<"_services", Gap>>, Arc)>>, {}, {})}

MCFrames == Flows \cup Infrastructure \cup Reports \cup Igmp \cup Mvrps \cup Lldps
              \cup Conmons \cup Mdnss

Word(flag, value) == [flag |-> flag, value |-> value]
MCCommandLines ==
    {<<>>, <<Word("-r", <<"file">>)>>, <<Word("-d", <<0>>)>>, <<Word("-p", <<>>)>>,
     <<Word("-i", <<"en0">>), Word("-q", <<>>), Word("-d", <<30>>)>>, <<Word("-h", <<>>)>>,
     <<Word("-p", <<"ndi">>), Word("-p", <<"avb", "avb">>)>>}
    \cup {<<Word("-p", <<c, d>>)>> : c, d \in {"5", "dante", "ndi", "aes67", "st2110", "x"}}
MCAnswers == {<<>>, <<"1">>, <<"2">>, <<"4", "6">>, <<"3", "0">>}

\* The ephemeral ports used by the frames: the whole range of IANA, or that of Linux.
MCIana  == {49152, 49158, 50000, 61440, 65535}
MCLinux == {32768, 34336, 38700, 49158, 60999}
=============================================================================
