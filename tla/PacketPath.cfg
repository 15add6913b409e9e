\* Frames of every kind for every selection; the ephemeral ports are those of IANA.
SPECIFICATION PathSpec
CONSTANTS
    NoName = NoName
    Gap = Gap
    NoFrame = NoFrame
    Frames <- MCFrames
    CommandLines <- MCCommandLines
    Answers <- MCAnswers
    Ephemeral <- MCIana
    Sources = {319, 5004, 5353, 14337, 38700, 49158, 61440}
    Destinations = {320, 4321, 4440, 4777, 5004, 5005, 8705, 8751, 8899, 14335, 14336, 20000, 61440}
INVARIANTS
    FilterPassesSelected
    SourcePortIsNoEvidence
    NamesAreWritten
CHECK_DEADLOCK FALSE
