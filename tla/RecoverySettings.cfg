\* Settings alone, until their audit rows are pruned.
CONSTANTS
    Node = {a, b}
    Memory = {}
    Grant = {}
    Client = {}
    Thread = {}
    Request = {r1}
    Factory = Factory
    Retention = 1
    ThreadDays = 1
    ReportLimit = 1
    Collector = FALSE
    MaxArchives = 1
    MaxDay = 2
SPECIFICATION Spec
PROPERTIES SettingsSurvive
