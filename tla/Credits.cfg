\* Two requests of any kind that cost 2 each, a balance of 3, 4 or none yet, two
\* lost connections, one call of the operator and the end of a month.
SPECIFICATION Spec
CONSTANTS
    Request = {r1, r2}
    Costs = {2}
    InitialBalances = {3, 4, Absent}
    Absent = Absent
    RetryLimit = 2
    OverdraftAllowed = FALSE
    Topups = {1}
    Sets = {2}
    MaxMonth = 2
    MaxOps = 1
    MaxFaults = 2
SYMMETRY RequestSymmetry
CHECK_DEADLOCK FALSE
INVARIANTS
    LedgerChain
    BilledAsCharged
    TriesHaveCauses
PROPERTIES
    AddsUp
    PaysAtOnce
