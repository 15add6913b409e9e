-------------------------------- MODULE NdiTcp --------------------------------
(***************************************************************************)
(* NDI: the sources that mDNS announces (NdiState, handle_ndi_discovery),  *)
(* the TCP flows of a source or on an NDI port (handle_tcp,                *)
(* TcpStreamStats), the stream that stands for each source, and what the   *)
(* end of a Window makes of them (collect_penalties and reset_window; the  *)
(* report is rendered after the reset).  Bit rates are left out.           *)
(*                                                                         *)
(* A flow is one direction of a connection, [src, dst, ndi]: ndi when one  *)
(* of its ports is an NDI port.  Its sender numbers its segments from the  *)
(* start of the connection; on the wire the numbers are taken modulo       *)
(* SeqMod (2^32).  The capture may miss segments.                          *)
(***************************************************************************)
EXTENDS Integers, FiniteSetsExt

CONSTANTS
    Hosts, Local,          \* all hosts, and those of the capture interface
    Flows,
    MaxSources,            \* NdiState::MAX_SOURCES
    SeqMod, Firsts, Reach, \* sequence numbers, those a connection may begin with, and how
                           \* far a sender may run ahead of what an entry has seen
    DegradingOver, CriticalOver,   \* retransmissions: more than 2, more than 10
    Window, Slack, Prune,  \* STREAM_PRUNE_SECS
    MaxSegments,           \* bound: segments of a connection
    MaxAgain, MaxProbes,   \* bounds: its retransmissions and keepalives
    Reuse                  \* a connection may follow another on the same ports

ASSUME BoundAssumption ==
    /\ Local \subseteq Hosts /\ MaxSources \in Nat \ {0}
    /\ SeqMod \in Nat /\ SeqMod % 2 = 0 /\ Firsts \subseteq 0..(SeqMod - 1)
    /\ Reach \in Nat \ {0} /\ 2 * Reach < SeqMod
    /\ Window \in Nat \ {0} /\ Slack \in Nat /\ Prune \in Nat \ {0}
    /\ DegradingOver \in Nat /\ CriticalOver \in Nat /\ DegradingOver < CriticalOver

VARIABLES
    sources, names,  \* NdiState: known sources, and those with a name
    streams,         \* the NDI stream of each source
    flows,           \* tcp_streams
    retransmitted,   \* NetworkHealth.tcp_retransmissions of this Window is not zero
    elapsed,
    report,          \* what the last step scored and showed
    sender,          \* each flow's sender: first number, segments sent, sent again
    newest, older,   \* history: latest segment of the entry, and how many it saw after later ones
    reset,           \* history: flows reset since the last Window
    ends             \* history: the ends of a flow that were sources when it last moved

vars == <<sources, names, streams, flows, retransmitted, elapsed, report, sender,
          newest, older, reset, ends>>

tracked == <<streams, flows, retransmitted, newest, older, reset, ends>>

NoSeq    == -1
NoStream == [age |-> -1, named |-> FALSE]
NoFlow   == [packets |-> 0, seq |-> NoSeq, fins |-> 0, rst |-> FALSE, again |-> 0,
             quality |-> "Healthy", age |-> -1]
NoReport == [printed |-> FALSE, scored |-> {}, again |-> FALSE, shown |-> [h \in {} |-> "None"]]

Init ==
    /\ sources = {} /\ names = {}
    /\ streams = [h \in Hosts |-> NoStream]
    /\ flows = [f \in Flows |-> NoFlow]
    /\ retransmitted = FALSE /\ elapsed = 0 /\ report = NoReport
    /\ sender = [f \in Flows |-> [first |-> NoSeq, sent |-> 0, again |-> 0, probes |-> 0]]
    /\ newest = [f \in Flows |-> -1] /\ older = [f \in Flows |-> 0]
    /\ reset = {} /\ ends = [f \in Flows |-> {}]

Known(f) == flows[f].age >= 0
Live(h)  == streams[h].age >= 0

-----------------------------------------------------------------------------
(* Discovery. *)

\* record_source: at the limit one source is forgotten for a new one, with its name.  A
\* stream there is keeps the name it has.
Discovery(h, named) ==
    /\ h \notin Local
    /\ \E victim \in IF h \in sources \/ Cardinality(sources) < MaxSources THEN {{}}
                     ELSE {{v} : v \in sources} :
           /\ sources' = (sources \ victim) \cup {h}
           /\ names' = (names \ victim) \cup IF named THEN {h} ELSE {}
    /\ report' = NoReport
    /\ UNCHANGED <<streams, flows, retransmitted, elapsed, sender, newest, older, reset, ends>>

-----------------------------------------------------------------------------
(* Segments. *)

IsNdi(f) == f.ndi \/ f.src \in sources \/ f.dst \in sources

\* Whose stream the segment belongs to: its source before its destination.
Sender(f) == IF f.src \in sources THEN {f.src} ELSE {f.dst} \cap sources

Attributed(f) ==
    [h \in Hosts |->
        IF h \notin Sender(f) THEN streams[h]
        ELSE IF Live(h) THEN [streams[h] EXCEPT !.age = 0]
        ELSE [NoStream EXCEPT !.age = 0, !.named = h \in names]]

\* Mutation of Behind: numbers are compared as they are.
BehindPlain(seq, last) == seq < last

\* seq.wrapping_sub(last) as i32 is negative; is positive.
Behind(seq, last) == (seq - last) % SeqMod >= SeqMod \div 2
Ahead(seq, last)  == (seq - last) % SeqMod \in 1..(SeqMod \div 2 - 1)

\* Mutation of Quality: a flow that is reset is no worse than its retransmissions.
QualityOfLoss(rst, fins, again) ==
    IF again > CriticalOver THEN "Critical"
    ELSE IF again > DegradingOver THEN "Degrading"
    ELSE IF rst \/ fins >= 2 THEN "Terminated"
    ELSE "Healthy"

Quality(rst, fins, again) ==
    IF rst \/ fins >= 2 THEN "Terminated"
    ELSE IF again > CriticalOver THEN "Critical"
    ELSE IF again > DegradingOver THEN "Degrading"
    ELSE "Healthy"

\* A segment that carries a smaller number than the largest seen counts as a
\* retransmission from the third packet on.
Again(e, seq, flag) ==
    flag # "SYN" /\ e.seq # NoSeq /\ e.packets >= 2 /\ Behind(seq, e.seq)

\* TcpStreamStats after a segment; packets counts to 3, FINs to 2.
Entry(e, seq, flag) ==
    LET fins  == IF flag = "FIN" /\ e.fins < 2 THEN e.fins + 1 ELSE e.fins
        again == IF Again(e, seq, flag) THEN e.again + 1 ELSE e.again
        rst   == e.rst \/ flag = "RST"
    IN  [packets |-> IF e.packets < 3 THEN e.packets + 1 ELSE 3,
         seq     |-> IF e.seq = NoSeq \/ Ahead(seq, e.seq) THEN seq ELSE e.seq,
         fins    |-> fins, rst |-> rst, again |-> again,
         quality |-> Quality(rst, fins, again),
         age     |-> 0]

\* handle_tcp; i numbers the segment from the start of its connection, flag is ACK when
\* none of SYN, FIN and RST is set.
HandleTcp(f, seq, i, flag) ==
    IF ~IsNdi(f)
    THEN UNCHANGED tracked
    ELSE /\ streams' = Attributed(f)
         /\ flows' = [flows EXCEPT ![f] = Entry(@, seq, flag)]
         /\ retransmitted' = (retransmitted \/ flag = "RST" \/ Again(flows[f], seq, flag))
         /\ newest' = [newest EXCEPT ![f] = IF flag = "SYN" \/ i > @ THEN i ELSE @]
         /\ older' = IF flag # "SYN" /\ i < newest[f] /\ flows[f].packets >= 2
                     THEN [older EXCEPT ![f] = @ + 1] ELSE older
         /\ reset' = IF flag = "RST" THEN reset \cup {f} ELSE reset
         /\ ends' = [ends EXCEPT ![f] = {f.src, f.dst} \cap sources]

Number(f, i) == (sender[f].first + i) % SeqMod
Open(f)      == sender[f].first # NoSeq

Unmoved == report' = NoReport /\ UNCHANGED <<sources, names, elapsed>>

\* A connection opens, at any sequence number.
Connect(f) ==
    /\ Reuse \/ ~Known(f)
    /\ \E first \in Firsts :
           /\ sender' = [sender EXCEPT ![f] = [first |-> first, sent |-> 1, again |-> 0,
                                                 probes |-> 0]]
           /\ HandleTcp(f, first, 0, "SYN")
    /\ Unmoved

\* The next segment, with data or the last one; or one that is not heard: the capture
\* misses it, or knows neither end as a source.
Segment(f) ==
    /\ Open(f) /\ sender[f].sent < MaxSegments
    /\ sender' = [sender EXCEPT ![f].sent = @ + 1]
    /\ \/ /\ IsNdi(f)
          /\ \E flag \in {"ACK", "FIN"} :
                HandleTcp(f, Number(f, sender[f].sent), sender[f].sent, flag)
       \/ /\ Known(f) => sender[f].sent - newest[f] < Reach
          /\ UNCHANGED tracked
    /\ Unmoved

\* No data: an acknowledgement or a reset, with the number the next segment will have.
NoData(f, flag) ==
    /\ Open(f)
    /\ HandleTcp(f, Number(f, sender[f].sent), sender[f].sent, flag)
    /\ UNCHANGED sender /\ Unmoved

\* A segment that was sent before.
Retransmit(f) ==
    /\ Open(f) /\ sender[f].again < MaxAgain
    /\ sender' = [sender EXCEPT ![f].again = @ + 1]
    /\ \E i \in Max({0, sender[f].sent - Reach}) .. (sender[f].sent - 1) :
           HandleTcp(f, Number(f, i), i, "ACK")
    /\ Unmoved

\* A probe of an idle connection: no data, under the last number that was used.
Keepalive(f) ==
    /\ Open(f) /\ sender[f].probes < MaxProbes
    /\ sender' = [sender EXCEPT ![f].probes = @ + 1]
    /\ HandleTcp(f, Number(f, sender[f].sent - 1), sender[f].sent - 1, "ACK")
    /\ Unmoved

-----------------------------------------------------------------------------
(* Time and the end of a Window. *)

Older(age, cap) == IF age >= 0 /\ age < cap THEN age + 1 ELSE age

Tick ==
    /\ elapsed < Window + Slack
    /\ elapsed' = elapsed + 1
    /\ streams' = [h \in Hosts |-> [streams[h] EXCEPT !.age = Older(@, Prune)]]
    /\ flows' = [f \in Flows |-> [flows[f] EXCEPT !.age = Older(@, Prune)]]
    /\ report' = NoReport
    /\ UNCHANGED <<sources, names, retransmitted, sender, newest, older, reset, ends>>

Touching(h) == {f \in Flows : Known(f) /\ h \in {f.src, f.dst}}

\* The TCP penalties of collect_penalties.
Scored == {f \in Flows : Known(f) /\ flows[f].quality # "Healthy"}

Kept(f) == flows[f].age < Prune /\ flows[f].quality # "Terminated"

Rank == [Healthy |-> 0, Degrading |-> 1, Critical |-> 2, Terminated |-> 3]

\* The worst connection of a source, of those the reset has left: "None" when there is none.
Shown(h) ==
    LET left == {f \in Touching(h) : Kept(f)}
        worst == {f \in left : \A g \in left : Rank[flows[g].quality] <= Rank[flows[f].quality]}
    IN  IF left = {} THEN "None" ELSE (CHOOSE q \in {flows[f].quality : f \in worst} : TRUE)

CloseWindow ==
    /\ elapsed >= Window
    /\ elapsed' = 0
    /\ streams' = [h \in Hosts |-> IF streams[h].age >= Prune THEN NoStream ELSE streams[h]]
    /\ flows' = [f \in Flows |-> IF Known(f) /\ Kept(f) THEN flows[f] ELSE NoFlow]
    /\ newest' = [f \in Flows |-> IF Known(f) /\ Kept(f) THEN newest[f] ELSE -1]
    /\ older' = [f \in Flows |-> IF Known(f) /\ Kept(f) THEN older[f] ELSE 0]
    /\ report' = [printed |-> TRUE, scored |-> Scored, again |-> retransmitted,
                  shown |-> [h \in {x \in Hosts : Live(x) /\ streams[x].age < Prune} |-> Shown(h)]]
    /\ retransmitted' = FALSE /\ reset' = {}
    /\ ends' = [f \in Flows |-> IF Known(f) /\ Kept(f) THEN ends[f] ELSE {}]
    /\ UNCHANGED <<sources, names, sender>>

Next ==
    \/ \E h \in Hosts, named \in BOOLEAN : Discovery(h, named)
    \/ \E f \in Flows :
          \/ Connect(f) \/ Segment(f) \/ Retransmit(f) \/ Keepalive(f)
          \/ \E flag \in {"ACK", "RST"} : NoData(f, flag)
    \/ Tick
    \/ CloseWindow

Spec == Init /\ [][Next]_vars

-----------------------------------------------------------------------------
(* Properties. *)

\* The counter of a flow is the number of segments that came under an earlier number than
\* one before them (from the third packet on), across any wrap of the numbers, whatever
\* the capture missed, and although the flow may be forgotten in between.
RetransmissionsExact == \A f \in Flows : flows[f].again = older[f]

\* "true retransmission detection": what is counted was sent again.
RetransmissionsReal == \A f \in Flows : flows[f].again <= sender[f].again

\* A flow that was reset is deducted in that Window, whatever came after the reset, and
\* is in no Window after it unless it is heard again.
ResetScoredOnce ==
    [][report'.printed => /\ reset \subseteq report'.scored
                          /\ \A f \in reset : flows'[f].age < 0]_vars

\* A source that is named in discovery is named in the report.
StreamNamed == \A h \in names : Live(h) => streams[h].named

\* "TCP quality, retransmissions, RST/FIN": the report shows that a connection of a source
\* was reset.
ResetShown ==
    [][report'.printed => \A f \in reset : \A h \in ends[f] :
          h \in DOMAIN report'.shown => report'.shown[h] = "Terminated"]_vars

=============================================================================
