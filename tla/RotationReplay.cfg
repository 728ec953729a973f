\* Repeated datagrams and clocks that differ by as much as is accepted.
CONSTANTS
    Skew = 1
    PendingTTL = 2
    Overlap = 1
    Window = 1
    Capacity = 1
    MaxClock = 4
    MaxEpoch = 1
    MaxRequests = 2
    Drift = 1
SPECIFICATION Spec
INVARIANTS ReplaySafety
