SPECIFICATION Spec
CONSTANTS
    m1 = m1  m2 = m2  s1 = s1  s2 = s2
    Memory = {m1}
    Source = {s1}
    SourceOf <- OneEach
    Content = {a, b, c}
    Destination = {p1}
    McpDestination = mcp
    Grant = {g1}
    Client = {c1, c2}
    NoClient = NoClient
    NoGrant = NoGrant
    Owner = Owner
    Legacy = Legacy
    ManagedBlocked = {c}
    Rank <- Newest
    Room = 2
    MaxClients = 1
    MaxEdits = 0
    MaxRevision = 1
    MaxClock = 0
    Request = {r1}
SYMMETRY Interchangeable
INVARIANTS DisclosureInv PolicyCovers
PROPERTIES RevocationCloses
