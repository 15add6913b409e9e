\* Two queriers at a shortened period that may lose queries and stop, both also
\* snooping switches; a host in a group, and two groups that a report may name, one of which (s, as
\* 239.255.255.255) has been joined at startup.
SPECIFICATION Spec
CONSTANTS
    Queriers = {q, r}
    Switches = {q, r}
    Groups = {g, s}
    Memberships <- MCMemberships
    Scoped = {g, s}
    Wanted = {g, s}
    Startup = {s}
    MaxReported = 2
    Period = 2
    MaxMissed = 1
    Fallback = 4
    Margin = 1
    JoinTtl = 2
    Window = 1
    Slack = 0
    NoInterval = NoInterval
SYMMETRY
    QuerierSymmetry
INVARIANTS
    JoinsAgree
PROPERTIES
    OneMissedQueryIsNotSilence
    SilenceIsNoticed
    ConflictIsReal
    JoinAnnouncedOnce
