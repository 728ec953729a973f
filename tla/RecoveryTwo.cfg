\* Two calls at one installation that restores its own archives, over two days.
CONSTANTS
    Node = {a}
    Memory = {}
    Grant = {}
    Client = {c1}
    Thread = {}
    Request = {r1, r2}
    Factory = Factory
    Retention = 1
    ThreadDays = 1
    ReportLimit = 1
    Collector = TRUE
    MaxArchives = 1
    MaxDay = 2
SPECIFICATION FairSpec
INVARIANTS OneRecovery
PROPERTIES ReportsStay RecoveryEnds
