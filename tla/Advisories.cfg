\* Two devices and two PTPv1 domains, or two devices, three flows and a querier.
SPECIFICATION MCSpec
CONSTANTS
    Ips = {a, b}
    LinkLocal = {b}
    Subnets = {{a}}
    Flows = {x, y, z}
    V1Domains = {d, e}
    NoIp = NoIp
    Window = 1
    Slack = 1
    StreamPrune = 2
    ConmonPrune = 3
    FollowerPrune = 3
SYMMETRY Alike
PROPERTIES
    SyncingDevicesNotNamed
    
