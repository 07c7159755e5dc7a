\* Three servers, four items: a body of two, and uneven bodies. Three callers
\* around a limit of four: several may be past it at once.
SPECIFICATION DispatchSpec
CONSTANTS
    MaxServers = 3
    MaxItems = 4
    Caller = {t1, t2, t3}
    Limit = 4
    NumServers = 2
SYMMETRY CallerSymmetry
INVARIANTS
    SplitIsPartition
    MergeComplete
    TicketsDistinct
CHECK_DEADLOCK FALSE
