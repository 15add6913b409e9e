\* Reordering, duplication and loss around the wrap of a 3-bit sequence number,
\* with clock inference from two timestamp deltas and announcements at any time, of five
\* senders that differ in rate, packet interval, packets per timestamp and announcements.
SPECIFICATION Spec
CONSTANTS
    Modulus = 8
    FirstSeq = 5
    Reach = 3
    SampleSize = 2
    Senders <- MCSenders
    DefaultRate = 1
    VideoRate = 3
    DefaultInterval = 2
    Known <- MCKnown
    SsrcSwitch = 3
    NoticeAfter = 3
    MaxSent = 6
    MaxArrivals = 5
INVARIANTS
    LossNeverUnderReported
    LossExactInOrder
    WindowsAccountForLoss
    CleanStreamIsClean
CHECK_DEADLOCK FALSE
