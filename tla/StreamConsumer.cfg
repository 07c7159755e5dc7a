\* Three entries, one of them not convertible (a link's is counted by then) and one not countable; two
\* consumers that read two at a time; two failures anywhere.
SPECIFICATION FairSpec
CONSTANTS
    Entry = {e1, e2, e3}
    Bad = {e3}
    Miscounted = {e3}
    Uncounted = {e2}
    Consumer = {c1, c2}
    Kinds = {"link", "email", "sms", "call", "tracking", "subs"}
    Count = 2
    MaxFaults = 2
CHECK_DEADLOCK FALSE
INVARIANTS
    CountedIsRecorded
    DeletedIsRecorded
PROPERTIES
    DeliveredAtMostOnce
    EntryIsDeleted
