SPECIFICATION Spec
CONSTANTS
    Exchange = {x1, x2}
    Modes = {"plain", "extractor"}
    Limit = 1
    Retentions = {1}
    Leased = FALSE
    MaxClock = 2
SYMMETRY Interchangeable
INVARIANTS JournalSafety
PROPERTIES ImplementsHistory
