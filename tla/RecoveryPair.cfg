\* Two installations: an archive of one is restored at either.
CONSTANTS
    Node = {a, b}
    Memory = {m1}
    Grant = {g1}
    Client = {}
    Thread = {t1}
    Request = {r1}
    Factory = Factory
    Retention = 1
    ThreadDays = 1
    ReportLimit = 0
    Collector = FALSE
    MaxArchives = 1
    MaxDay = 1
SPECIFICATION Spec
INVARIANTS OverwritesNothing
PROPERTIES NoRevival ImplementsRelocation
