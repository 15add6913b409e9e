-------------------------- MODULE AvbReservations --------------------------
(***************************************************************************)
(* The AVB substate (AvbState): AVTP streams, the MSRP declarations made   *)
(* for them, registered VLANs and AVDECC entities, each with the lifetime  *)
(* reset_window gives it, and what the Window's score and the report       *)
(* rendered after the reset make of them.                                  *)
(*                                                                         *)
(* The sender of a stream numbers its frames; the network may lose some    *)
(* but neither reorders nor repeats them.  Times are ages.                 *)
(***************************************************************************)
EXTENDS Integers, FiniteSets

CONSTANTS
    Streams,        \* stream ids
    Priorities,     \* priorities, of a declaration or of a frame's tag
    DeclTypes,      \* what is declared: "Advertise", "Failed", "Listener"
    MaxDecls,       \* declarations in one MSRP frame
    Vlans, Entities,
    ValidTimes,     \* valid times an AVDECC entity may announce
    NoPriority,     \* an untagged frame, a declaration without priority
    SeqMod,         \* 2^8: the AVTP sequence number wraps here
    MaxSkip,        \* frames lost in a row
    MaxCount,       \* bound on the counters of a stream
    Window, Slack,  \* report period; how late a Window may close
    StreamPrune,    \* STREAM_PRUNE_SECS
    Grace           \* seconds an AVDECC entity is kept beyond its valid time

ASSUME SetAssumption ==
    /\ DeclTypes \subseteq {"Advertise", "Failed", "Listener"}
    /\ NoPriority \notin Priorities
    /\ ValidTimes \subseteq Nat /\ IsFiniteSet(ValidTimes)
ASSUME SeqAssumption ==
    SeqMod \in Nat \ {0} /\ MaxSkip \in Nat /\ 2 * MaxSkip < SeqMod
        /\ MaxDecls \in Nat /\ MaxCount \in Nat
ASSUME TimeAssumption ==
    /\ Window \in Nat \ {0} /\ Slack \in Nat
    /\ StreamPrune \in Nat /\ Grace \in Nat

VARIABLES
    avtp,       \* AvbState.avtp_streams, NoStream when absent
    msrp,       \* AvbState.msrp_state: the last declaration, NoDecl when absent
    vlans,      \* AvbState.mvrp_vlans
    entities,   \* AvbState.avdecc_entities, NoEntity when absent
    elapsed,    \* time since the last Window closed
    alerts,     \* alerts of the last step
    report,     \* what the last Window reported
    skipped,    \* history: frames lost, while the monitor knew the stream
    talker,     \* history: priority of the last talker declaration
    wrong,      \* history: frames tagged otherwise than the talker declared
    masked,     \* history: those of them sent after a listener had declared
    answered,   \* history: streams a listener has declared for since its talker last did
    failing,    \* history: streams the talker of which failed in the open Window
    ready,      \* history: streams a listener was declared for since
    silence,    \* history: age of the last announcement of an entity
    promised,   \* history: the valid time it announced
    departed    \* history: entities that have taken their leave since

streamHistory == <<skipped, talker, wrong, masked, answered, failing, ready>>
entityHistory == <<silence, promised, departed>>
vars == <<avtp, msrp, vlans, entities, elapsed, alerts, report, streamHistory, entityHistory>>

\* Ages are told apart up to the longest lifetime.
Longest(s) == CHOOSE x \in s \cup {0} : \A y \in s : y <= x
AgeCap == Longest(ValidTimes \cup {StreamPrune, Grace}) + Grace

Declarations ==
    [stream : Streams, type : DeclTypes \ {"Listener"}, priority : Priorities]
        \cup [stream : Streams, type : DeclTypes \cap {"Listener"}, priority : {NoPriority}]

NoStream == [known |-> FALSE, age |-> 0, last |-> 0, lost |-> 0,
             violations |-> 0, observed |-> NoPriority, declared |-> NoPriority]
NoDecl   == [type |-> "none", priority |-> NoPriority]
NoEntity == [known |-> FALSE, age |-> 0, valid |-> 0, index |-> 0]
NoReport == [printed |-> FALSE, failed |-> {}, reserved |-> {}, listened |-> {}]

Older(age) == IF age < AgeCap THEN age + 1 ELSE AgeCap

Init ==
    /\ avtp = [s \in Streams |-> NoStream]
    /\ msrp = [s \in Streams |-> NoDecl]
    /\ vlans = {}
    /\ entities = [e \in Entities |-> NoEntity]
    /\ elapsed = 0 /\ alerts = {} /\ report = NoReport
    /\ skipped = [s \in Streams |-> 0]
    /\ talker = [s \in Streams |-> NoPriority]
    /\ wrong = [s \in Streams |-> 0] /\ masked = [s \in Streams |-> 0]
    /\ answered = {} /\ failing = {} /\ ready = {}
    /\ silence = [e \in Entities |-> AgeCap]
    /\ promised = [e \in Entities |-> 0]
    /\ departed = {}

-----------------------------------------------------------------------------
(* handle_avb. *)

\* wrapping_sub read as a signed number of the counter's width.
Signed(n) == IF 2 * (n % SeqMod) < SeqMod THEN n % SeqMod ELSE (n % SeqMod) - SeqMod

\* Mutation of Missing: the distance is taken without wrapping.
MissingNoWrap(st, seq) ==
    IF st.known /\ seq - (st.last + 1) > 0 THEN seq - (st.last + 1) ELSE 0

\* update_seq: frames between the last one and this; a step back counts none.
Missing(st, seq) ==
    LET delta == Signed(seq - (st.last + 1))
    IN  IF st.known /\ delta > 0 THEN delta ELSE 0

\* The tag and the declared priority are known and differ.
Mismatch(s, pcp) ==
    pcp # NoPriority /\ msrp[s].priority # NoPriority /\ pcp # msrp[s].priority

\* The frame is tagged otherwise than the talker of the stream has declared.
Wrong(s, pcp) == pcp # NoPriority /\ talker[s] \notin {NoPriority, pcp}

\* A frame of the stream after skip lost ones.
Frame(s, skip, pcp) ==
    LET st  == avtp[s]
        seq == IF st.known THEN (st.last + 1 + skip) % SeqMod ELSE 0
    IN  /\ skipped[s] + skip <= MaxCount
        /\ avtp' = [avtp EXCEPT ![s] =
               [known |-> TRUE, age |-> 0, last |-> seq,
                lost       |-> st.lost + Missing(st, seq),
                violations |-> st.violations + (IF Mismatch(s, pcp) THEN 1 ELSE 0),
                observed   |-> IF Mismatch(s, pcp) /\ st.observed = NoPriority
                               THEN pcp ELSE st.observed,
                declared   |-> IF Mismatch(s, pcp) THEN msrp[s].priority ELSE st.declared]]
        /\ skipped' = [skipped EXCEPT ![s] = IF st.known THEN @ + skip ELSE 0]
        /\ wrong' = IF Wrong(s, pcp) THEN [wrong EXCEPT ![s] = @ + 1] ELSE wrong
        /\ masked' = IF Wrong(s, pcp) /\ s \in answered
                     THEN [masked EXCEPT ![s] = @ + 1] ELSE masked
        /\ wrong'[s] <= MaxCount
        /\ alerts' = {} /\ report' = NoReport
        /\ UNCHANGED <<msrp, vlans, entities, elapsed, talker, answered, failing, ready,
                       entityHistory>>

-----------------------------------------------------------------------------
(* handle_msrp, handle_mvrp and handle_avdecc_adp. *)

\* The last declaration of the frame for a stream, of the given types.
Positions(decls, s, types) ==
    {i \in DOMAIN decls : decls[i].stream = s /\ decls[i].type \in types}

LastOf(decls, s, types) == decls[Longest(Positions(decls, s, types))]

\* The map is keyed by the stream alone: whoever declares last has the entry.
Declared(decls, s) ==
    IF Positions(decls, s, DeclTypes) = {} THEN msrp[s]
    ELSE LET d == LastOf(decls, s, DeclTypes) IN [type |-> d.type, priority |-> d.priority]

Talking == DeclTypes \ {"Listener"}

Msrp(decls) ==
    /\ msrp' = [s \in Streams |-> Declared(decls, s)]
    /\ alerts' = {<<"failed", decls[i].stream>> :
                     i \in {i \in DOMAIN decls : decls[i].type = "Failed"}}
    /\ talker' = [s \in Streams |->
           IF Positions(decls, s, Talking) = {} THEN talker[s]
           ELSE LastOf(decls, s, Talking).priority]
    /\ answered' = {s \in Streams :
           IF Positions(decls, s, DeclTypes) = {} THEN s \in answered
           ELSE LastOf(decls, s, DeclTypes).type = "Listener"}
    /\ failing' = {s \in Streams :
           IF Positions(decls, s, Talking) = {} THEN s \in failing
           ELSE LastOf(decls, s, Talking).type = "Failed"}
    /\ ready' = ready \cup {s \in Streams : Positions(decls, s, {"Listener"}) # {}}
    /\ report' = NoReport
    /\ UNCHANGED <<avtp, vlans, entities, elapsed, skipped, wrong, masked, entityHistory>>

Mvrp(vids) ==
    /\ vlans' = vlans \cup vids
    /\ alerts' = {<<"vlan", v>> : v \in vids \ vlans}
    /\ report' = NoReport
    /\ UNCHANGED <<avtp, msrp, entities, elapsed, streamHistory, entityHistory>>

\* ENTITY_AVAILABLE.
Available(e, valid, index) ==
    /\ entities' = [entities EXCEPT ![e] =
           [known |-> TRUE, age |-> 0, valid |-> valid, index |-> index]]
    /\ alerts' = IF ~entities[e].known THEN {<<"discovered", e>>}
                 ELSE IF entities[e].index # index THEN {<<"changed", e>>} ELSE {}
    /\ silence' = [silence EXCEPT ![e] = 0]
    /\ promised' = [promised EXCEPT ![e] = valid]
    /\ departed' = departed \ {e}
    /\ report' = NoReport
    /\ UNCHANGED <<avtp, msrp, vlans, elapsed, streamHistory>>

\* ENTITY_DEPARTING.
Departing(e) ==
    /\ entities' = [entities EXCEPT ![e] = NoEntity]
    /\ alerts' = IF entities[e].known THEN {<<"departed", e>>} ELSE {}
    /\ departed' = departed \cup {e}
    /\ report' = NoReport
    /\ UNCHANGED <<avtp, msrp, vlans, elapsed, streamHistory, silence, promised>>

-----------------------------------------------------------------------------
(* Time, and the end of a Window. *)

Tick ==
    /\ elapsed < Window + Slack
    /\ elapsed' = elapsed + 1
    /\ avtp' = [s \in Streams |-> IF avtp[s].known THEN [avtp[s] EXCEPT !.age = Older(@)] ELSE avtp[s]]
    /\ entities' = [e \in Entities |->
           IF entities[e].known THEN [entities[e] EXCEPT !.age = Older(@)] ELSE entities[e]]
    /\ silence' = [e \in Entities |-> Older(silence[e])]
    /\ alerts' = {} /\ report' = NoReport
    /\ UNCHANGED <<msrp, vlans, streamHistory, promised, departed>>

\* AvbState::reset_window, in its order: the streams, what depends on them, the entities.
PrunedAvtp == [s \in Streams |-> IF avtp[s].age >= StreamPrune THEN NoStream ELSE avtp[s]]

PrunedMsrp == [s \in Streams |-> IF PrunedAvtp[s].known THEN msrp[s] ELSE NoDecl]

PrunedVlans == IF \E s \in Streams : PrunedAvtp[s].known THEN vlans ELSE {}

\* Mutation of Lifetime: no grace.
LifetimeExact(valid) == valid

Lifetime(valid) == Longest({valid, Grace}) + Grace

PrunedEntities ==
    [e \in Entities |->
        IF entities[e].known /\ entities[e].age >= Lifetime(entities[e].valid)
        THEN NoEntity ELSE entities[e]]

\* Mutation of Failed: the score is computed after the reset.
FailedAfterReset == {s \in Streams : PrunedMsrp[s].type = "Failed"}

\* The reservation failures collect_penalties deducts for.
Failed == {s \in Streams : msrp[s].type = "Failed"}

\* render_streams, after the reset: a stream whose entry is an advertisement is
\* reserved; its listener is looked for in the same entry.
Reserved == {s \in Streams : PrunedAvtp[s].known /\ PrunedMsrp[s].type = "Advertise"}

Listened == {s \in Reserved : PrunedMsrp[s].type = "Listener"}

CloseWindow ==
    /\ elapsed >= Window
    /\ report' = [printed |-> TRUE, failed |-> Failed, reserved |-> Reserved, listened |-> Listened]
    /\ avtp' = PrunedAvtp
    /\ msrp' = PrunedMsrp
    /\ vlans' = PrunedVlans
    /\ entities' = PrunedEntities
    /\ elapsed' = 0 /\ alerts' = {}
    /\ failing' = {}
    \* A stream the monitor does not know (any more) is forgotten.
    /\ skipped' = [s \in Streams |-> IF PrunedAvtp[s].known THEN skipped[s] ELSE 0]
    /\ talker' = [s \in Streams |-> IF PrunedAvtp[s].known THEN talker[s] ELSE NoPriority]
    /\ wrong' = [s \in Streams |-> IF PrunedAvtp[s].known THEN wrong[s] ELSE 0]
    /\ masked' = [s \in Streams |-> IF PrunedAvtp[s].known THEN masked[s] ELSE 0]
    /\ answered' = {s \in answered : PrunedAvtp[s].known}
    /\ ready' = {s \in ready : PrunedAvtp[s].known}
    /\ UNCHANGED entityHistory

Next ==
    \/ \E s \in Streams, skip \in 0..MaxSkip, pcp \in Priorities \cup {NoPriority} :
           Frame(s, skip, pcp)
    \/ \E n \in 1..MaxDecls : \E decls \in [1..n -> Declarations] : Msrp(decls)
    \/ \E vids \in SUBSET Vlans : vids # {} /\ Mvrp(vids)
    \/ \E e \in Entities, valid \in ValidTimes, index \in {0, 1} : Available(e, valid, index)
    \/ \E e \in Entities : Departing(e)
    \/ Tick
    \/ CloseWindow

Spec == Init /\ [][Next]_vars

-----------------------------------------------------------------------------
(* Properties. *)

TypeOK ==
    /\ avtp \in [Streams -> [known : BOOLEAN, age : 0..AgeCap, last : 0..(SeqMod - 1),
                    lost : 0..MaxCount, violations : 0..MaxCount,
                    observed : Priorities \cup {NoPriority}, declared : Priorities \cup {NoPriority}]]
    /\ msrp \in [Streams -> [type : DeclTypes \cup {"none"}, priority : Priorities \cup {NoPriority}]]
    /\ vlans \subseteq Vlans
    /\ entities \in [Entities -> [known : BOOLEAN, age : 0..AgeCap, valid : ValidTimes \cup {0}, index : {0, 1}]]
    /\ elapsed \in 0..(Window + Slack)
    /\ report \in [printed : BOOLEAN, failed : SUBSET Streams, reserved : SUBSET Streams,
                   listened : SUBSET Streams]
    /\ skipped \in [Streams -> 0..MaxCount] /\ wrong \in [Streams -> 0..MaxCount]
    /\ talker \in [Streams -> Priorities \cup {NoPriority}]
    /\ masked \in [Streams -> 0..MaxCount]
    /\ answered \subseteq Streams /\ failing \subseteq Streams /\ ready \subseteq Streams
    /\ silence \in [Entities -> 0..AgeCap] /\ promised \in [Entities -> ValidTimes \cup {0}]
    /\ departed \subseteq Entities

\* The loss a stream shows is what was lost, across the wraps of the 8-bit sequence
\* number and over pruning and rediscovery, while the network keeps the order.
AvtpLossExact == \A s \in Streams : avtp[s].lost = skipped[s]

\* The PCP violations of a stream are the frames tagged otherwise than its talker has
\* declared, except for those sent after a listener's declaration had replaced the
\* talker's (handle_msrp) and before the talker's next; whatever else is replaced, pruned
\* or seen again in between.
MismatchesCounted ==
    \A s \in Streams : avtp[s].known => avtp[s].violations = wrong[s] - masked[s]

\* What a stream is said to have lost and violated is what happened to it.
CountsExact == TypeOK /\ AvtpLossExact /\ MismatchesCounted

\* A failure the talker has declared in the Window, and not taken back, is deducted when
\* the Window closes, although the reset forgets it at once when the stream never starts;
\* unless a listener of the stream has declared since, in the failure's place.
FailureScored == [][CloseWindow => failing \ answered \subseteq report'.failed]_vars

\* An AVDECC entity that keeps announcing itself within its valid time is never
\* announced as discovered a second time, however the Windows fall: that means that it
\* has departed, or was silent for its valid time and the grace.
RediscoveredOnlyWhenGone ==
    [][\A e \in Entities :
        <<"discovered", e>> \in alerts' =>
            \/ e \in departed
            \/ silence[e] >= promised[e] + Grace]_vars

\* "AVB bandwidth reservation failures" reduce the score: the same with listeners that
\* declare.
EveryFailureScored == [][CloseWindow => failing \subseteq report'.failed]_vars

\* The PCP mismatches are counted whether or not a listener has declared (handle_avb).
EveryMismatchCounted ==
    \A s \in Streams : avtp[s].known => avtp[s].violations = wrong[s]

\* The report of a reserved stream tells the state of its listener, once both the
\* talker and a listener of the stream have declared (render_streams).
ListenerShown ==
    [][CloseWindow => report'.reserved \cap ready \subseteq report'.listened]_vars

\* "Only fires when both values are known and they differ": the two priorities a
\* violation is reported with differ (handle_avb, render_streams).
ShownTagsDiffer ==
    \A s \in Streams : avtp[s].violations > 0 => avtp[s].observed # avtp[s].declared

=============================================================================
