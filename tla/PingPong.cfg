\* One client through three connections and every retry outcome.
SPECIFICATION FairSpec
CONSTANTS
    Client = {c1}
    Reader = {}
    NoClient = NoClient
    Leaves = {"c1000", "c1001", "c1012", "c1011", "eof", "neterr"}
    MaxRetry = 2
    MaxConns = 3
    CloseMayFail = TRUE
INVARIANTS
    NoLeakWhileServing
    ConnectorReplacedAlone
PROPERTIES
    QuitIsFinal
    LeadsOneLife
    RestartReconnects
    ShutdownCompletesWhenSettled
CHECK_DEADLOCK FALSE
