SPECIFICATION Spec
CONSTANTS
    Thread = {t1, t2}
    Chat = {h1, h2, h3}
    NoChat = NoChat
    RequestId = {q1, q2}
    NoRequest = NoRequest
    Message = {a, b}
    Window = 1
    Capacity = 2
    MaxRevision = 3
    Lifetime = {1}
    MaxClock = 1
    Observed = t1
SYMMETRY Interchangeable
INVARIANTS ContinuitySafety OneSendPerRevision ReplayIsOwn
PROPERTIES ExpiryIsFinal ImplementsLog
