----------------------------- MODULE PacketPath -----------------------------
(***************************************************************************)
(* The way of a packet into the program: the command line decides what is  *)
(* asked for (Selection), the kernel filter what is seen, the detector     *)
(* what a frame is taken for (Detection, WireFormats), and is_selected     *)
(* whether a handler gets it.  Three places derive their rule from the     *)
(* selection on their own, the filter, the joins and is_selected, and must *)
(* agree.                                                                  *)
(*                                                                         *)
(* Each packet is on its own here: what handlers do is in the modules of   *)
(* the components.                                                         *)
(***************************************************************************)
EXTENDS Detection, Selection

CONSTANTS
    Frames,         \* the frames of the network
    CommandLines,   \* command lines, each a sequence of words
    Answers,        \* what the user answers to the prompt
    Ephemeral       \* ports an operating system gives to sockets that name none

\* A frame has all its fields, whether or not its kind uses them.
ASSUME FrameAssumption ==
    \A f \in Frames : DOMAIN f = {"pcps", "type", "proto", "dst", "sport", "dport", "payload",
                                 "wrote", "whole"}
ASSUME PortAssumption == Ephemeral \subseteq 1..65535

VARIABLES
    phase,          \* "start", "loop", "packet" or "exited"
    expanded,       \* the concrete protocols asked for
    joined,         \* groups with a socket (mc_sockets)
    asked,          \* services the startup probe has asked for
    frame,          \* the packet on the wire; NoFrame between packets
    detected,       \* what the detector made of it, None when it was not seen
    handled         \* whether a handler got it

CONSTANT NoFrame

pathVars == <<phase, expanded, joined, asked, frame, detected, handled>>

PathInit ==
    /\ phase = "start" /\ expanded = {} /\ joined = {} /\ asked = {}
    /\ frame = NoFrame /\ detected = None /\ handled = FALSE

\* AvProtocol::is_selected.
IsSelected(p) ==
    \/ p.is \in {"LldpEee", "FlowControl"}
    \/ p.is = "Aes67" /\ "aes67" \in expanded
    \/ p.is = "St2110" /\ "st2110" \in expanded
    \/ p.is = "Dante" /\ "dante" \in expanded
    \/ p.is \in {"Ndi", "Tcp"} /\ "ndi" \in expanded
    \/ p.is \in {"Avb", "Msrp", "Mvrp", "AvdeccAdp"} /\ "avb" \in expanded
    \/ p.is = "Ptp" /\ \E c \in expanded : NeedsPtp(c)
    \/ p.is = "Igmp" /\ \E c \in expanded : NeedsIgmp(c)
    \/ p.is = "Sap" /\ \E c \in expanded : NeedsSap(c)

\* main: an unusable command line, a file or an interface that does not open (ok) and a
\* filter that does not compile end the program.  Groups are joined before the privileges
\* are checked, the probe is sent last; joins and the probe may fail.
Start(words, answer, ok) ==
    LET flags   == ParseArgs(words)
        choices == Expanded(Chosen(flags, answer))
    IN  /\ phase = "start"
        /\ IF flags.exit \/ ~ok
           THEN phase' = "exited" /\ UNCHANGED <<expanded, joined, asked>>
           ELSE /\ phase' = "loop"
                /\ expanded' = choices
                /\ joined' \in {{}, IF flags.file THEN {} ELSE StartupGroups(choices)}
                /\ asked' \in {{}, IF flags.file THEN {} ELSE ProbeServices(choices)}
        /\ UNCHANGED <<frame, detected, handled>>

\* process_packet: what the filter keeps is unwrapped, detected and, when it was asked
\* for, handled.
Packet(f) ==
    LET p == IF Passes(f, expanded) THEN Detect(f) ELSE None
    IN  /\ phase = "loop"
        /\ phase' = "packet"
        /\ frame' = f
        /\ detected' = p
        /\ handled' = IsSelected(p)
        /\ UNCHANGED <<expanded, joined, asked>>

NextPacket ==
    /\ phase = "packet"
    /\ phase' = "loop"
    /\ frame' = NoFrame /\ detected' = None /\ handled' = FALSE
    /\ UNCHANGED <<expanded, joined, asked>>

PathNext ==
    \/ \E words \in CommandLines, answer \in Answers, ok \in BOOLEAN :
           Start(words, answer, ok)
    \/ \E f \in Frames : Packet(f)
    \/ NextPacket

PathSpec == PathInit /\ [][PathNext]_pathVars

-----------------------------------------------------------------------------
(* Properties. *)

\* Answers to a service enumeration: their data are services.
Lists(message) ==
    \E i \in DOMAIN message.answers : Head(message.answers[i].data) \in Services

\* The filter and is_selected agree: what would be handled is not left to the kernel to
\* drop, if it has at most one VLAN tag.  PTP over UDP when AVB alone is asked for is the
\* exception (AvbHearsPtp).  The detector takes every other IP protocol for UDP, the filter
\* for none: nothing of it is handled.  A TCP segment cut within its header is taken for UDP
\* as well, and then for Dante's if a port says so: only where NDI is asked for.
FilterPassesSelected ==
    phase = "packet" =>
        CASE frame.type = "ipv4" /\ frame.proto \notin {"igmp", "tcp", "udp"} -> ~handled
          [] frame.type = "ipv4" /\ Cut(frame) -> handled => "ndi" \in expanded
          [] OTHER -> Len(frame.pcps) <= 1 /\ (frame.type = "ipv4" => expanded # {"avb"})
                        => handled = IsSelected(Detect(frame))

\* An ephemeral source port says nothing of the sender: had the host drawn another one, the
\* flow would be taken for the same.  Rules on both ports, on either and on the destination
\* alone keep to it together (dante_control_plane_class).
SourcePortIsNoEvidence ==
    phase = "packet" /\ frame.type = "ipv4" /\ frame.proto = "udp" /\ frame.sport \in Ephemeral
      => \A port \in Ephemeral :
            Detect([frame EXCEPT !.sport = port]) = Detect(frame)

\* Wherever a frame is cut, and whichever encoding the sender uses, the groups, VLANs, MACs
\* and instances read from it are ones its sender wrote, and from a whole frame all.  One
\* name is read from an mDNS message: those that answer for several instances, and those
\* that list the services of a host, are excepted (EveryNameIsWritten).
NamesAreWritten ==
    /\ phase = "packet"
    /\ frame.payload.kind = "dns" => Cardinality(frame.wrote) <= 1 /\ ~Lists(frame.payload)
    => /\ detected.names \subseteq frame.wrote
       /\ frame.whole => detected = None \/ detected.names = frame.wrote

\* A stream of 239.0.0.0/8 that would be tracked is one whose group the program would join
\* when a report or an announcement names it.
TrackedIsJoined ==
    /\ handled /\ frame.type = "ipv4" /\ frame.dst[1] = 239
    /\ detected.is \in {"Aes67", "St2110"} \/ (detected.is = "Dante" /\ detected.kind = "Audio")
    => ShouldJoin(frame.dst, expanded)

\* The same as FilterPassesSelected without the exception for PTP over UDP.
AvbHearsPtp ==
    phase = "packet" /\ Len(frame.pcps) <= 1 /\ frame.proto # "other" /\ ~Cut(frame)
      => handled = IsSelected(Detect(frame))

\* The same as NamesAreWritten without the exceptions for mDNS.
EveryNameIsWritten ==
    phase = "packet" =>
        /\ detected.names \subseteq frame.wrote
        /\ frame.whole => detected = None \/ detected.names = frame.wrote

\* An instance is one of the product whose service the answers are for, whatever was asked
\* besides (the startup probe asks for Dante and NDI in one message).
ProductIsOfAnswers ==
    /\ phase = "packet" /\ detected.kind = "Discovery" /\ detected.names # {}
    => detected.is \in frame.payload.about

=============================================================================
