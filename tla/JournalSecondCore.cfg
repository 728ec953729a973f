SPECIFICATION Spec
CONSTANTS
    Exchange = {x1}
    Modes = {"launcher", "plain", "stream", "extractor"}
    Limit = 1
    Retentions = {1}
    Leased = FALSE
    MaxClock = 2
INVARIANTS InterruptedIsDead
