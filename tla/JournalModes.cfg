SPECIFICATION FairSpec
CONSTANTS
    Exchange = {x1}
    Modes = {"launcher", "plain", "stream", "extractor"}
    Limit = 2
    Retentions = {1, 2}
    Leased = TRUE
    MaxClock = 3
INVARIANTS SuccessIsTrue InterruptedIsDead
PROPERTIES ExchangeSettles
