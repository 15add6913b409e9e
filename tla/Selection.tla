----------------------------- MODULE Selection -----------------------------
(***************************************************************************)
(* What the user asks for and what follows from it: the command line and   *)
(* the prompt, the protocols a choice stands for, what each of them needs, *)
(* the kernel filter and the groups that are joined.                       *)
(*                                                                         *)
(* A word of the command line is a string, the list given to --protocol a  *)
(* sequence of names or numbers.                                           *)
(***************************************************************************)
EXTENDS Integers, SequencesExt, FiniteSetsExt

AllChoices == <<"audio", "video", "aes67", "avb", "dante", "ndi", "st2110">>
Concrete   == {"aes67", "st2110", "dante", "ndi", "avb"}

\* The concrete protocols of a choice.
Includes(choice) ==
    CASE choice = "all"   -> Concrete
      [] choice = "audio" -> {"aes67", "dante", "avb"}
      [] choice = "video" -> {"st2110", "ndi"}
      [] OTHER            -> {choice}

Expanded(choices) == UNION {Includes(c) : c \in choices}

\* Of the concrete protocols.
NeedsUdp(c)  == c \in {"aes67", "st2110", "dante", "ndi"}
NeedsTcp(c)  == c = "ndi"
NeedsAvb(c)  == c = "avb"
NeedsPtp(c)  == c \in {"aes67", "st2110", "dante", "avb"}
NeedsIgmp(c) == c \in {"aes67", "st2110", "dante"}

NeedsSap(c)  == c \in {"aes67", "st2110"}

-----------------------------------------------------------------------------
(* The choice, from the command line or the prompt. *)

\* The choice a name or a number stands for, if any.
ParseChoice(token) ==
    {c \in {"all"} \cup Range(AllChoices) :
        \/ token = c
        \/ token = "0" /\ c = "all"
        \/ \E i \in DOMAIN AllChoices : c = AllChoices[i] /\ token = ToString(i)}

\* Nothing but unknown words, or "all", is all of them.
ParseProtocols(tokens) ==
    LET choices == UNION {ParseChoice(tokens[i]) : i \in DOMAIN tokens}
    IN  IF choices = {} \/ "all" \in choices THEN {"all"} ELSE choices

\* A word is [flag, value]; the value is a sequence, empty when the line ends there, and 0
\* stands for a duration that is no positive number.
Usable(word) ==
    \/ word.flag \in {"-p", "-r", "-i"} /\ word.value # <<>>
    \/ word.flag = "-d" /\ word.value # <<>> /\ Head(word.value) # 0
    \/ word.flag \in {"-q", "--no-color"}

\* The last list counts.  An unusable word ends the program, and so does --help.
ParseArgs(words) ==
    LET lists == {i \in DOMAIN words : words[i].flag = "-p"}
    IN  [exit      |-> \E i \in DOMAIN words : ~Usable(words[i]),
         file      |-> \E i \in DOMAIN words : words[i].flag = "-r",
         protocols |-> IF lists = {} THEN {} ELSE ParseProtocols(words[Max(lists)].value)]

\* A replay without a choice is of everything; a live capture asks.
Chosen(flags, prompted) ==
    CASE flags.protocols # {} -> flags.protocols
      [] flags.protocols = {} /\ flags.file -> {"all"}
      [] OTHER -> ParseProtocols(prompted)

-----------------------------------------------------------------------------
(* The kernel filter and the groups. *)

\* Mutation of Untagged: UDP only for the protocols that need IGMP.
UntaggedIgmpUdp(frame, expanded) ==
    \/ /\ frame.type = "ipv4"
       /\ \/ frame.proto = "igmp"
          \/ frame.proto = "udp" /\ \E c \in expanded : NeedsIgmp(c)
          \/ frame.proto = "tcp" /\ \E c \in expanded : NeedsTcp(c)
    \/ frame.type \in {"avtp", "msrp", "mvrp"} /\ \E c \in expanded : NeedsAvb(c)
    \/ frame.type \in {"lldp", "gptp", "flow"}

\* The expression for untagged frames: IGMP and the link-layer signals always, the rest
\* when a protocol needs it.
Untagged(frame, expanded) ==
    \/ /\ frame.type = "ipv4"
       /\ \/ frame.proto = "igmp"
          \/ frame.proto = "udp" /\ \E c \in expanded : NeedsUdp(c)
          \/ frame.proto = "tcp" /\ \E c \in expanded : NeedsTcp(c)
    \/ frame.type \in {"avtp", "msrp", "mvrp"} /\ \E c \in expanded : NeedsAvb(c)
    \/ frame.type \in {"lldp", "gptp", "flow"}

\* build_bpf_filter with its VLAN arm, which looks under one tag.
Passes(frame, expanded) == Len(frame.pcps) <= 1 /\ Untagged(frame, expanded)

PtpGroups == {<<224, 0, 1, 129>>, <<224, 0, 1, 130>>, <<224, 0, 1, 131>>,
              <<224, 0, 1, 132>>, <<224, 0, 0, 107>>}
V3Reports == <<224, 0, 0, 22>>
SapGroups == {<<224, 2, 127, 254>>, <<239, 255, 255, 255>>}

\* join_multicast_groups.
StartupGroups(expanded) ==
    (IF \E c \in expanded : NeedsPtp(c) THEN PtpGroups \cup {V3Reports} ELSE {})
      \cup (IF \E c \in expanded : NeedsSap(c) THEN SapGroups ELSE {})

\* Streams are joined by their block of 239.0.0.0/8.
ShouldJoin(group, expanded) ==
    /\ group[1] = 239
    /\ CASE group[2] = 69  -> "aes67" \in expanded
         [] group[2] = 255 -> "dante" \in expanded
         [] OTHER          -> "st2110" \in expanded

\* The services asked for at startup.
ProbeServices(expanded) ==
    (IF "dante" \in expanded THEN {"_netaudio-arc", "_netaudio-cmc", "_netaudio"} ELSE {})
      \cup (IF "ndi" \in expanded THEN {"_ndi"} ELSE {})

=============================================================================
