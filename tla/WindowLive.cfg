\* A live capture: a Dante stream that comes and goes, a PTPv1 and a PTPv2 domain.
SPECIFICATION FairSpec
CONSTANTS
    Live = TRUE
    Streams = {s1}
    DanteStreams = {s1}
    Flows = {}
    Domains = {d1, d2}
    V1Domains = {d1}
    GptpDomains = {}
    Queriers = {}
    Ports = {}
    WindowFaults = {"PacketLoss"}
    Window = 2
    Slack = 1
    StreamTimeout = 4
    PruneAge = 8
    ClockTimeout = 2
    QuerierSilent = 3
INVARIANTS
    LostClockIsReported
    MissingClockExplained
PROPERTIES
    FaultsScoredOnce
    ClockLossIsAnnounced
    DeadShownBeforePruned
    ReportsKeepComing
    ImplementsLife
CHECK_DEADLOCK FALSE
