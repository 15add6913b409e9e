\* A Dante device that may be badly configured, a soundcard under Windows and a camera.
SPECIFICATION HealthSpec
CONSTANTS
    Streams <- MCStreams
    SourceOf <- MCSourceOf
    ProtocolOf <- MCProtocolOf
    Natures <- MCNatures
    Marks = {0}
    MinSamples = 2
    MaxSamples = 4
    Counters = {"lost"}
    MaxPackets = 1
    MaxCount = 1
INVARIANTS
    GateAgreesWithVerdict
PROPERTIES
    MismarkedScored
