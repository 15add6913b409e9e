\* One stream whose talker declares, or fails to, and whose listener declares, while
\* frames are lost; a VLAN and an AVDECC entity that announces two valid times.
SPECIFICATION Spec
CONSTANTS
    Streams = {s}
    Priorities = {p, r}
    DeclTypes = {"Advertise", "Failed", "Listener"}
    MaxDecls = 2
    Vlans = {v}
    Entities = {e}
    ValidTimes = {1, 3}
    NoPriority = NoPriority
    SeqMod = 4
    MaxSkip = 1
    MaxCount = 1
    Window = 1
    Slack = 0
    StreamPrune = 2
    Grace = 2
SYMMETRY
    PrioritySymmetry
INVARIANTS
    CountsExact
PROPERTIES
    FailureScored
    RediscoveredOnlyWhenGone
