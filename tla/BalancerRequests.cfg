\* Two clients, one request at a time, one connection each.
SPECIFICATION ListeningSpec
CONSTANTS
    Client = {c1, c2}
    Reader = {r1}
    NoClient = NoClient
    Leaves = {"c1001"}
    MaxRetry = 1
    MaxConns = 1
    CloseMayFail = TRUE
INVARIANTS
    SnapshotConsistent
PROPERTIES
    RequestCompletes
    ConnectSettles
CHECK_DEADLOCK FALSE
