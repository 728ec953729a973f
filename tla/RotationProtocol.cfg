\* Two rotations over an unreliable channel, with crashes on both sides; one
\* tick makes a prepared key, an overlap and a handshake old.
CONSTANTS
    Skew = 1
    PendingTTL = 1
    Overlap = 1
    Window = 0
    Capacity = 5
    MaxClock = 1
    MaxEpoch = 2
    MaxRequests = 5
    Drift = 0
SPECIFICATION Spec
INVARIANTS NeverLockedOut PeersAreState ClientServed
PROPERTY ImplementsHandover
