---------------------------- MODULE LeaderLock ----------------------------
(***************************************************************************)
(* TaskService._leader_loop: every application process runs the loop over   *)
(* one Redis key, and the process that holds it runs the APScheduler jobs   *)
(* of the shared job store.  Each Redis command is a step of its own and    *)
(* its answer is handled in a later one; time advances in ticks of 300 s.   *)
(***************************************************************************)
EXTENDS Naturals

CONSTANTS Instance,           \* the processes, each with its INSTANCE_ID
          None, Gone,         \* no holder; the INSTANCE_ID of a process that ended
          TTL,                \* LEADER_LOCK_TTL
          MinSleep, MaxSleep, \* TTL plus its lower and its upper bound
          MayEnd,             \* the processes that may be stopped or killed
          MayLoseRedis,       \* the processes whose Redis commands may fail
          MaxEnds             \* bound of the model: how many processes end

ASSUME LeaderLockAssumption ==
    /\ None \notin Instance /\ Gone \notin Instance /\ None # Gone
    /\ TTL \in Nat \ {0}
    /\ MinSleep \in Nat /\ MaxSleep \in Nat /\ MinSleep <= MaxSleep
    /\ MayEnd \subseteq Instance /\ MayLoseRedis \subseteq Instance
    /\ MaxEnds \in Nat

VARIABLES
    lock,    \* the value of apscheduler@leader_lock, or None
    ttl,     \* ticks before it expires; 0 when it has no expiry
    pc,      \* per process: where its loop is
    timer,   \* per process: ticks left of its sleep
    seen,    \* per process: val
    leader,  \* per process: self._leader
    running, \* per process: its scheduler is started and not paused
    ends     \* how many processes ended

vars == <<lock, ttl, pc, timer, seen, leader, running, ends>>

TypeOK ==
    /\ lock \in Instance \cup {None, Gone}
    /\ ttl \in 0..TTL
    /\ pc \in [Instance -> {"off", "sleep", "got", "held", "answered", "ended"}]
    /\ timer \in [Instance -> 0..MaxSleep]
    /\ seen \in [Instance -> Instance \cup {None, Gone}]
    /\ leader \in [Instance -> BOOLEAN]
    /\ running \in [Instance -> BOOLEAN]
    /\ ends \in 0..MaxEnds

Init ==
    /\ lock = None /\ ttl = 0 /\ ends = 0
    /\ pc = [i \in Instance |-> "off"]
    /\ timer = [i \in Instance |-> 0]
    /\ seen = [i \in Instance |-> None]
    /\ leader = [i \in Instance |-> FALSE]
    /\ running = [i \in Instance |-> FALSE]

\* asyncio.sleep at the end of the loop's body
Nap(i) ==
    /\ pc' = [pc EXCEPT ![i] = "sleep"]
    /\ \E n \in MinSleep..MaxSleep : timer' = [timer EXCEPT ![i] = n]

\* start(): the scheduler is started, paused, and the loop's task created
Start(i) ==
    /\ pc[i] = "off"
    /\ pc' = [pc EXCEPT ![i] = "sleep"]
    /\ timer' = [timer EXCEPT ![i] = 0]
    /\ UNCHANGED <<lock, ttl, seen, leader, running, ends>>

TryAcquire_NoExpiry(i) ==
    /\ pc[i] = "sleep" /\ timer[i] = 0
    /\ \/ lock = None /\ lock' = i /\ ttl' = 0 /\ pc' = [pc EXCEPT ![i] = "got"]
       \/ lock # None /\ pc' = [pc EXCEPT ![i] = "held"] /\ UNCHANGED <<lock, ttl>>
    /\ UNCHANGED <<timer, seen, leader, running, ends>>

\* SET key INSTANCE_ID NX EX ttl, as Redis evaluates it
TryAcquire(i) ==
    /\ pc[i] = "sleep" /\ timer[i] = 0
    /\ \/ lock = None /\ lock' = i /\ ttl' = TTL /\ pc' = [pc EXCEPT ![i] = "got"]
       \/ lock # None /\ pc' = [pc EXCEPT ![i] = "held"] /\ UNCHANGED <<lock, ttl>>
    /\ UNCHANGED <<timer, seen, leader, running, ends>>

\* got, not yet leader: resume(), which with MongoDB waits for a reader lock
Resume(i) ==
    /\ pc[i] = "got" /\ ~leader[i]
    /\ leader' = [leader EXCEPT ![i] = TRUE]
    /\ running' = [running EXCEPT ![i] = TRUE]
    /\ Nap(i)
    /\ UNCHANGED <<lock, ttl, seen, ends>>

\* EXPIRE key ttl: nothing when the key is gone, whoever's the value is
Expire(i) ==
    /\ ttl' = IF lock = None THEN ttl ELSE TTL
    /\ Nap(i)
    /\ UNCHANGED <<lock, seen, leader, running, ends>>

\* got, already leader: the key had expired during the sleep
Renew(i) == pc[i] = "got" /\ leader[i] /\ Expire(i)

\* GET key, as Redis evaluates it
ReadHolder(i) ==
    /\ pc[i] = "held"
    /\ seen' = [seen EXCEPT ![i] = lock]
    /\ pc' = [pc EXCEPT ![i] = "answered"]
    /\ UNCHANGED <<lock, ttl, timer, leader, running, ends>>

\* val is None: continue, without a sleep
RetryNow(i) ==
    /\ pc[i] = "answered" /\ seen[i] = None
    /\ pc' = [pc EXCEPT ![i] = "sleep"]
    /\ UNCHANGED <<lock, ttl, timer, seen, leader, running, ends>>

Yield_KeepsFlag(i) ==
    /\ pc[i] = "answered" /\ seen[i] \notin {None, i}
    /\ running' = [running EXCEPT ![i] = FALSE]
    /\ Nap(i)
    /\ UNCHANGED <<lock, ttl, seen, leader, ends>>
Yield_KeepsRunning(i) ==
    /\ pc[i] = "answered" /\ seen[i] \notin {None, i}
    /\ leader' = [leader EXCEPT ![i] = FALSE]
    /\ Nap(i)
    /\ UNCHANGED <<lock, ttl, seen, running, ends>>

\* val is another's: a leader pauses its scheduler
Yield(i) ==
    /\ pc[i] = "answered" /\ seen[i] \notin {None, i}
    /\ leader' = [leader EXCEPT ![i] = FALSE]
    /\ running' = [running EXCEPT ![i] = FALSE]
    /\ Nap(i)
    /\ UNCHANGED <<lock, ttl, seen, ends>>

\* val is its own
Extend(i) == pc[i] = "answered" /\ seen[i] = i /\ Expire(i)

\* A command fails, applied or not: the loop returns, its scheduler goes on or
\* stays paused as it was, and nothing starts the loop again.
RedisFails(i) ==
    /\ i \in MayLoseRedis
    /\ pc[i] \in {"got", "held", "answered"} \/ (pc[i] = "sleep" /\ timer[i] = 0)
    /\ pc' = [pc EXCEPT ![i] = "ended"]
    /\ UNCHANGED <<lock, ttl, timer, seen, leader, running, ends>>

\* shutdown() or a crash: the key is not deleted.  The process that replaces
\* this one has the same INSTANCE_ID when it gets the same pid and host name.
ProcessEnds(i) ==
    /\ i \in MayEnd /\ pc[i] # "off" /\ ends < MaxEnds
    /\ ends' = ends + 1
    /\ pc' = [pc EXCEPT ![i] = "off"]
    /\ leader' = [leader EXCEPT ![i] = FALSE]
    /\ running' = [running EXCEPT ![i] = FALSE]
    /\ lock' \in IF lock = i THEN {i, Gone} ELSE {lock}
    /\ UNCHANGED <<ttl, timer, seen>>

Tick ==
    /\ ttl' = IF ttl > 0 THEN ttl - 1 ELSE 0
    /\ lock' = IF ttl = 1 THEN None ELSE lock
    /\ timer' = [i \in Instance |-> IF timer[i] > 0 THEN timer[i] - 1 ELSE 0]
    /\ UNCHANGED <<pc, seen, leader, running, ends>>

LeaderLoop(i) ==
    \/ Start(i) \/ TryAcquire(i) \/ Resume(i) \/ Renew(i)
    \/ ReadHolder(i) \/ RetryNow(i) \/ Yield(i) \/ Extend(i)

Next ==
    \/ Tick
    \/ \E i \in Instance : LeaderLoop(i) \/ RedisFails(i) \/ ProcessEnds(i)

\* Time passes and the event loop of a live process runs its tasks.
Fairness == WF_vars(Tick) /\ \A i \in Instance : WF_vars(LeaderLoop(i))

\* From some time on Redis answers a GET, and the loop handles the answer, within a
\* tick of 300 s.
Prompt == <>[][\A i \in Instance : Tick => pc[i] \notin {"held", "answered"}]_vars

Spec == Init /\ [][Next]_vars
FairSpec == Spec /\ Fairness /\ Prompt

-----------------------------------------------------------------------------
\* i runs the jobs, or has the key and is about to.
Leads(i) == running[i] \/ pc[i] = "got"

\* No process has ended and no Redis command has failed so far.
NoFailure == ends = 0 /\ \A i \in Instance : pc[i] # "ended"

\* As long as nothing fails, once a process leads there is never a moment when
\* none does, although keys expire during the sleeps and answers come late: the
\* pause of _leader_loop's "lost leadership" branch can take the scheduler
\* only from a process that is not the last to have acquired.
LeadershipKept ==
    [][(\E i \in Instance : Leads(i)) /\ NoFailure'
         => (\E i \in Instance : Leads(i))']_vars

\* _leader_loop: "If we lose the lock -> stop scheduler and try again".  A
\* process whose key another one took stops running jobs or acquires the key
\* again, unless a failed command has ended its loop.
LoserStops ==
    \A i, j \in Instance :
        (i # j /\ running[i] /\ lock = j) ~> (~running[i] \/ lock = i \/ pc[i] = "ended")

\* Whatever processes end, and whenever commands fail, jobs are run again and again
\* by some process, unless failed commands end the loop of every one of them for
\* good: as an outage of Redis does that all of them meet, which is not retried.
SchedulerComesBack ==
    (\E i \in Instance : []<>(pc[i] # "ended")) => []<>(\E i \in Instance : running[i])

=============================================================================
