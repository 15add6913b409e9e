\* A PTPv1 (Dante) domain with two devices that may both send Sync, or a PTPv2 domain that
\* they share with gPTP frames.
SPECIFICATION MCSpec
CONSTANTS
    V1Keys = {v1}
    V2Keys = {v2}
    Devices = {a, b}
    Masters = {g1, g2}
    NoMaster = NoMaster
    NoIp = NoIp
    Strata = {0}
    Delays = {3, 9}
    ClockTimeout = 2
    FollowerPrune = 2
    AgeCap = 3
    ChangesCap = 1
INVARIANTS
    DelaysOfTakeover
    LastAlertIsTrue
PROPERTIES
    ConflictMatchesWindow
    ImplementsStatus
    SilenceEndsValidity
