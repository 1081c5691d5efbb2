CONSTANTS
    Events = {e1, e3}
    Legacy = {e3}
    Workers = {w1, w2}
    MaxAttempts = 3
    Batch = 2
    MaxFaults = 3
    NoEvent = NoEvent
SPECIFICATION FairSpec
INVARIANT QuarantineJustified
PROPERTIES LeaseRespected ImplementsAtLeastOnce EventuallySettled
