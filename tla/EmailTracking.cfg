SPECIFICATION FairSpec
CONSTANTS
    Email = {m1}
    Consumer = {c1, c2}
    Count = 4
    Attempts = 2
    Outcomes = {"SENT"}
    MaxFaults = 1
    MaxVisits = 2
INVARIANTS
    CountersMatchEvents
    DeliveredWithin
    StatusIsRecorded
PROPERTIES
    NoLimbo
\* once every row is deleted and every event is read, nothing is left to do
CHECK_DEADLOCK FALSE
