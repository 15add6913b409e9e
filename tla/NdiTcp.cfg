\* One flow, of two hosts that may both be sources although one is remembered; numbers that
\* wrap, segments missed, sent again or after a reset.
SPECIFICATION Spec
CONSTANTS
    Hosts <- MCHosts
    Local = {"self"}
    Flows <- MCFlows
    MaxSources = 1
    SeqMod = 6
    Firsts = {0, 5}
    Reach = 2
    DegradingOver = 0
    CriticalOver = 1
    Window = 1
    Slack = 0
    Prune = 2
    MaxSegments = 4
    MaxAgain = 1
    MaxProbes = 1
    Reuse = FALSE
INVARIANTS
    RetransmissionsExact
PROPERTIES
    ResetScoredOnce
