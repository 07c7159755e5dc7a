\* The administrator's challenges, in minutes. Three routes, two readers, one fault.
SPECIFICATION RowsSpec
CONSTANTS
    Client = {admin}
    Lifetime <- Seeded
    Period = 5
    MaxLate = 1
    Reader = {r1, r2}
    Writer = {w1, w2, w3}
    MaxFaults = 1
INVARIANTS
    AfterCommitHeals
    TransactionHeals
    LostOnlyToRivals
    LapseIsShort
SYMMETRY Symmetry
CHECK_DEADLOCK FALSE
