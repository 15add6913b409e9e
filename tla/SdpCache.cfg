\* Five sessions for a cache of two; two streams on one port that come, fall silent and
\* come back.
SPECIFICATION SdpSpec
CONSTANTS
    g1 = g1
    g2 = g2
    NoGroup = NoGroup
    NoRefclk = NoRefclk
    Documents <- MCDocuments
    Flows <- MCFlows
    Domains <- MCV2
    Masters = {"gm2"}
    MaxSessions = 2
    Prune = 2
    Window = 1
    Slack = 0
    DefaultHz = 48
INVARIANTS
    LatestAnnouncementDescribes
