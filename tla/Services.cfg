\* The desktop and the phone configuration; two installations that report
\* over three weeks; two starts of a core; two browsers with one code.
CONSTANTS
    k1 = k1  k2 = k2  m1 = m1  local = local  gptHost = gptHost  claudeHost = claudeHost
    Base = {local, gptHost, claudeHost}
    Loopback = {local}
    Ollama = local
    OpenAI = gptHost
    Key = {k1, k2}
    Model = {m1}
    None = None
    Keep = Keep
    Config <- MCConfig
    Allowlist <- MCAllowlist
    Patch <- MCPatch
    Call = {p1}
    ProfileLimit = 3
    MaxProfiles = 4
    MaxEdits = 2
    Installation = {i1, i2}
    OptIn = {i1}
    Configured = {i1, i2}
    Sender = {s1}
    Budget = 2
    Minimum = 2
    MaxWeek = 3
    MaxChanges = 3
    Latency = {0, 249, 250, 30000}
    Tokens = {127, 128}
    Missing = Missing
    MaxRows = 5
    Core = {c1, c2}
    Handler = {h1, h2}
    NoCore = NoCore
    Permits = 1
    Browser = {b1, b2, b3}
    Lifetime = 2
    MaxClock = 3
SPECIFICATION ServicesSpec
INVARIANTS
    KeysGoHome ProfileIsTrue PrimaryServes
    ReportsAreHonest
    LatticeExact
    LeaseIsSound
PROPERTIES ImplementsSurvey PairedOnce ShutdownEnds
CHECK_DEADLOCK FALSE
