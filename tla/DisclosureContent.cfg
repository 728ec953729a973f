SPECIFICATION FairSpec
CONSTANTS
    m1 = m1  m2 = m2  s1 = s1  s2 = s2
    Memory = {m1, m2}
    Source = {s1}
    SourceOf <- OneSource
    Content = {a}
    Destination = {p1}
    McpDestination = mcp
    Grant = {g1}
    Client = {}
    NoClient = NoClient
    NoGrant = NoGrant
    Owner = Owner
    Legacy = Legacy
    ManagedBlocked = {}
    Rank <- Newest
    Room = 1
    MaxClients = 1
    MaxEdits = 1
    MaxRevision = 0
    MaxClock = 1
    Request = {r1}
INVARIANTS WireWitnessed HandlersCanRun
PROPERTIES WithdrawalCloses ImplementsLedger Concludes
