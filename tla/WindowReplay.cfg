\* A replay: a stream, a TCP flow, two queriers and a port with EEE, gaps of any length.
SPECIFICATION Spec
CONSTANTS
    Live = FALSE
    Streams = {s1}
    DanteStreams = {s1}
    Flows = {t1}
    Domains = {}
    V1Domains = {}
    GptpDomains = {}
    Queriers = {q1, q2}
    Ports = {p1}
    WindowFaults = {"PacketLoss"}
    Window = 2
    Slack = 1
    StreamTimeout = 4
    PruneAge = 8
    ClockTimeout = 2
    QuerierSilent = 3
INVARIANTS
    NoBulletWithoutPenalty
CHECK_DEADLOCK FALSE
