------------------------------ MODULE MCSapSdp ------------------------------
(* SapSdp with a few documents: sessions of one stream each, one that is      *)
(* announced again with another rate, three that describe the same stream,   *)
(* one with a line before its media section and a section that is cut short, *)
(* one whose connection is that of the session, rates of 0 and unreadable.   *)
(* Window 1 stands for 5 s, Prune 2 for the time a silent stream is kept.    *)
EXTENDS SapSdp

CONSTANTS g1, g2

O(id)    == [is |-> "o", id |-> id]
M(port)  == [is |-> "m", ok |-> TRUE, port |-> port, pts |-> <<97>>]
Short    == [is |-> "m", ok |-> FALSE]
C(group) == [is |-> "c", group |-> group]
Hz(hz)   == [is |-> "rtpmap", hz |-> hz]
Refclk(gm, version) ==
    [is |-> "ts-refclk", refclk |-> [gm |-> gm, domain |-> 0, version |-> version]]

Means(flow, hz, id) == [f \in {flow} |-> [hz |-> hz, pt |-> 97, id |-> id]]

Stage(hz) == [lines |-> <<O("stage"), Hz(1), M(5004), C(g1), Hz(hz), Refclk("gm1", 2)>>,
              means |-> Means(<<g1, 5004>>, hz, "stage")]
Talkback  == [lines |-> <<O("talkback"), M(5004), C(g2), Hz(Unreadable), Short, Hz(96), C(g1)>>,
              means |-> Means(<<g2, 5004>>, 48, "talkback")]
\* Describes a stream that is not sent.
Empty     == [lines |-> <<O("empty"), M(6000), C(g2), Hz(44)>>,
              means |-> [f \in {} |-> 0]]
\* Another session for the first stream, with a second section whose rate says nothing.
Rehearsal == [lines |-> <<O("rehearsal"), M(5004), C(g1), Hz(44), M(5004), C(g1), Hz(0)>>,
              means |-> Means(<<g1, 5004>>, 44, "rehearsal")]

\* The connection of the session, for all its media: its section has none of its own, and
\* speaks of both streams on its port.
SessionLevel == [lines |-> <<O("session"), C(g1), M(5004), Hz(44)>>,
                 means |-> Means(<<g1, 5004>>, 44, "session")]

MCDocuments == {Stage(48), Stage(96), Talkback, Empty, Rehearsal, SessionLevel}
MCFlows     == {<<g1, 5004>>, <<g2, 5004>>}

\* A session that names a PTPv1 clock.
Legacy    == [lines |-> <<O("legacy"), M(5004), C(g1), Hz(48), Refclk("gm1", 1)>>,
              means |-> Means(<<g1, 5004>>, 48, "legacy")]
MCClaimed == MCDocuments \cup {Legacy}

ASSUME Clarity ==
    \A d \in MCDocuments, f \in MCFlows :
        ~Clear(d, f) <=> d = SessionLevel /\ f = <<g2, 5004>>

MCV2   == {<<0, 2>>}
MCBoth == {<<0, 1>>, <<0, 2>>}
=============================================================================
