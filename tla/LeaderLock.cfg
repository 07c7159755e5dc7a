\* Two processes; each may see a Redis command fail, at any point, and each may end
\* and be started again, two ends in all.  A sleep is always longer than the key lives.
SPECIFICATION FairSpec
CONSTANTS
    Instance = {a, b}
    None = None
    Gone = Gone
    TTL = 2
    MinSleep = 3
    MaxSleep = 5
    MayEnd = {a, b}
    MayLoseRedis = {a, b}
    MaxEnds = 2
PROPERTIES
    LeadershipKept
    LoserStops
    SchedulerComesBack
