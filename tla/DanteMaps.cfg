\* Two addresses compete for one place of the maps: discovery, ConMon from
\* one or both addresses of a device, its control plane, audio.
SPECIFICATION MCSpec
CONSTANTS
    Ips = {a, b}
    Local = {}
    Talkers = {a}
    Macs = {m}
    Classes = {"DVS"}
    NoMac = NoMac
    NoClass = NoClass
    MaxSources = 1
    Threshold = 2
    Window = 1
    Slack = 0
    StreamPrune = 2
    ConmonPrune = 2
INVARIANTS
    DeviceMapsAgree
PROPERTIES
    UnverifiedWasSilent
    SilentSourceFlagged
    BridgeReported
