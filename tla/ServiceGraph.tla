---------------------------- MODULE ServiceGraph ----------------------------
(***************************************************************************)
(* The services of one process, linked to the service they are built from,  *)
(* and callback/status_sub.py: a state message destroys and rebuilds a      *)
(* service and then, down its links, what was built from it.  Routes ping a *)
(* service and then run under status locks, readers or writer; an aiorwlock *)
(* lets no reader pass a waiting writer.  The lock's owners are not stored: *)
(* they follow from where the handler and the routes are.  Mini services    *)
(* are part of their manager; every link in use has to_build.               *)
(***************************************************************************)
EXTENDS Naturals, Sequences

CONSTANTS Service, None,
          Parent,      \* the service each is linked to, or None
          Created,     \* when the container created each, after its parent
          Destroys,    \* the services whose link has to_destroy
          Verifies,    \* ... to_async_verify
          Inverted,    \* whose async_verify_dependency answers the opposite
          Checks,      \* whose verify_dependency refuses an unacceptable parent
          Skips,       \* whose verify_dependency may put an end to _builder
          MayRefuse,   \* whose own async_verify_dependency looks at other services
          Needs,       \* the services whose reader it takes for that
          Message,     \* the state messages sent: [service, destroy, build]
          Route,
          Pings,       \* the services each route pings
          Locks,       \* the services each route locks, in order
          Exclusive,   \* the routes whose LockService takes the writer
          Timed,       \* the routes with a wait_timeout
          MaxQueue     \* bound of the model: messages waiting in the channel

ASSUME ServiceGraphAssumption ==
    /\ None \notin Service
    /\ Parent \in [Service -> Service \cup {None}]
    /\ Created \in [Service -> Nat]
    /\ \A s \in Service : Parent[s] # None => Created[Parent[s]] < Created[s]
    /\ Verifies \subseteq Destroys /\ Checks \subseteq Service
    /\ Skips \cap Checks = {} /\ Needs \in [Service -> SUBSET Service]
    /\ \A s \in Verifies \cup Checks : Parent[s] # None
    /\ Message \subseteq [service : Service, destroy : BOOLEAN, build : BOOLEAN]
    /\ Pings \in [Route -> SUBSET Service]
    /\ Locks \in [Route -> Seq(Service) \ {<<>>}]
    /\ MaxQueue \in Nat

VARIABLES
    status,    \* service_status: "up" (AVAILABLE), "partly" or "down"
    built, destroyed,  \* _builded, _destroyed
    stale,     \* what it was built from has been destroyed or rebuilt since
    channel,   \* the messages that wait for the channel's loop
    pc,        \* where SetServiceStatus is
    msg,       \* the message it handles
    cur,       \* the service it locks, holds or builds
    path,      \* the services recursive() is in, outermost first
    done,      \* cache
    rpc, held  \* per route: where it is, how many locks it has

graph  == <<status, built, destroyed, stale>>
sub    == <<pc, msg, cur, path, done>>
routes == <<rpc, held>>
vars   == <<graph, channel, sub, routes>>

Children(s) == {d \in Service : Parent[d] = s}
Acceptable(s) == status[s] \in {"up", "partly"}

\* check_status lets a call through
Usable(s) == Acceptable(s) /\ built[s] /\ ~destroyed[s]

Owning == {"root_verify", "root_build", "verify", "build"}

\* the one service whose writer the handler owns
HandlerHolds(s) == pc \in Owning /\ cur = s

Asked(r) == Locks[r][held[r] + 1]
Has(r, s) == \E i \in 1..held[r] : Locks[r][i] = s

WriterWaits(s) ==
    \/ pc \in {"root_lock", "lock"} /\ cur = s
    \/ \E r \in Exclusive : rpc[r] = "locking" /\ held[r] < Len(Locks[r]) /\ Asked(r) = s

CanRead(s) == /\ ~HandlerHolds(s) /\ ~WriterWaits(s)
              /\ \A r \in Exclusive : ~Has(r, s)

CanWrite(s) == /\ ~HandlerHolds(s)
               /\ \A r \in Route : ~Has(r, s)

TypeOK ==
    /\ status \in [Service -> {"up", "partly", "down"}]
    /\ built \in [Service -> BOOLEAN] /\ destroyed \in [Service -> BOOLEAN]
    /\ stale \in [Service -> BOOLEAN]
    /\ channel \in Seq(Message)
    /\ pc \in {"idle", "root_lock", "walk", "lock"} \cup Owning
    /\ msg \in Message \cup {None} /\ cur \in Service \cup {None}
    /\ path \in Seq(Service) /\ done \subseteq Service
    /\ rpc \in [Route -> {"idle", "locking", "in"}] /\ held \in [Route -> Nat]

\* the container has built every service
Init ==
    /\ status = [s \in Service |-> "up"]
    /\ built = [s \in Service |-> TRUE] /\ destroyed = [s \in Service |-> FALSE]
    /\ stale = [s \in Service |-> FALSE]
    /\ channel = <<>>
    /\ pc = "idle" /\ msg = None /\ cur = None /\ path = <<>> /\ done = {}
    /\ rpc = [r \in Route |-> "idle"] /\ held = [r \in Route |-> 0]
-----------------------------------------------------------------------------
\* broker.propagate publishes, the process's own subscription receives
Publish(m) ==
    /\ Len(channel) < MaxQueue
    /\ channel' = Append(channel, m)
    /\ UNCHANGED <<graph, sub, routes>>

\* what depends on s was built from something that is no longer
Outdated(s) == [d \in Service |-> IF Parent[d] = s THEN TRUE ELSE stale[d]]

\* _destroyer: the flags, never the status
Destroy(s) ==
    /\ built' = [built EXCEPT ![s] = FALSE]
    /\ destroyed' = [destroyed EXCEPT ![s] = TRUE]
    /\ stale' = Outdated(s)
    /\ UNCHANGED status

Build_Unverified(s) ==
    \E result \in {"up", "partly", "down"} :
        /\ status' = [status EXCEPT ![s] = result]
        /\ built' = [built EXCEPT ![s] = @ \/ result = "up"]
        /\ destroyed' = [destroyed EXCEPT ![s] = @ /\ result # "up"]
        /\ stale' = [Outdated(s) EXCEPT ![s] = @ /\ result = "down"]

\* _builder: verify_dependency, then build.  Only a build that raises nothing
\* sets the flags; BuildOkError and BuildSkipError ("partly") come at its end, but
\* CeleryService raises one, its flag set, before build: it keeps what it had
Build(s) ==
    \/ /\ s \in Checks /\ ~Acceptable(Parent[s])
       /\ status' = [status EXCEPT ![s] = "down"]
       /\ UNCHANGED <<built, destroyed, stale>>
    \/ /\ s \in Skips
       /\ status' = [status EXCEPT ![s] = "partly"]
       /\ built' = [built EXCEPT ![s] = TRUE]
       /\ UNCHANGED <<destroyed, stale>>
    \/ \E result \in {"up", "partly", "down"} :
          /\ s \in Checks => Acceptable(Parent[s])
          /\ status' = [status EXCEPT ![s] = result]
          /\ built' = [built EXCEPT ![s] = @ \/ result = "up"]
          /\ destroyed' = [destroyed EXCEPT ![s] = @ /\ result # "up"]
          /\ stale' = [Outdated(s) EXCEPT ![s] = @ /\ result = "down"]

\* the channel's loop awaits the handler: one message at a time
Receive ==
    /\ pc = "idle" /\ channel # <<>>
    /\ msg' = Head(channel) /\ channel' = Tail(channel)
    /\ cur' = msg'.service /\ pc' = "root_lock"
    /\ UNCHANGED <<path, done, graph, routes>>

\* the root's writer is released and recursive() starts on it
Descend == pc' = "walk" /\ path' = <<cur>> /\ cur' = None /\ UNCHANGED <<msg, done>>

RootLock_Unlocked ==
    /\ pc = "root_lock"
    /\ IF msg.destroy THEN Destroy(cur) ELSE UNCHANGED graph
    /\ IF msg.build THEN pc' = "root_verify" /\ UNCHANGED <<msg, cur, path, done>>
                    ELSE Descend
    /\ UNCHANGED <<channel, routes>>

\* async with service.statusLock.writer
RootLock ==
    /\ pc = "root_lock" /\ CanWrite(cur)
    /\ IF msg.destroy THEN Destroy(cur) ELSE UNCHANGED graph
    /\ IF msg.build THEN pc' = "root_verify" /\ UNCHANGED <<msg, cur, path, done>>
                    ELSE Descend
    /\ UNCHANGED <<channel, routes>>

\* the message's own async_verify_dependency, under the root's writer: it takes the
\* reader of each service it needs and releases it
RootVerify ==
    /\ pc = "root_verify" /\ \A n \in Needs[cur] : CanRead(n)
    /\ \/ pc' = "root_build" /\ UNCHANGED <<graph, msg, cur, path, done>>
       \/ /\ cur \in MayRefuse
          /\ status' = [status EXCEPT ![cur] = "down"]
          /\ Descend
          /\ UNCHANGED <<built, destroyed, stale>>
    /\ UNCHANGED <<channel, routes>>

RootBuild == pc = "root_build" /\ Build(cur) /\ Descend /\ UNCHANGED <<channel, routes>>

Top == path[Len(path)]
Settle == pc' = "idle" /\ msg' = None /\ cur' = None /\ path' = <<>> /\ done' = {}

\* the next dependent of the service recursive() is in: used_by_services keeps the
\* order in which the container created them
Visit(d) ==
    /\ pc = "walk" /\ d \in Children(Top) \ done
    /\ \A e \in Children(Top) \ done : Created[d] <= Created[e]
    /\ pc' = "lock" /\ cur' = d
    /\ UNCHANGED <<msg, path, done, channel, graph, routes>>

Return_NotCached ==
    /\ pc = "walk" /\ Children(Top) \subseteq done
    /\ IF Len(path) = 1 THEN Settle
       ELSE path' = SubSeq(path, 1, Len(path) - 1) /\ UNCHANGED <<pc, msg, cur, done>>
    /\ UNCHANGED <<channel, graph, routes>>

\* no dependent left: the service is cached
Return ==
    /\ pc = "walk" /\ Children(Top) \subseteq done
    /\ IF Len(path) = 1 THEN Settle
       ELSE /\ path' = SubSeq(path, 1, Len(path) - 1)
            /\ done' = done \cup {Top}
            /\ UNCHANGED <<pc, msg, cur>>
    /\ UNCHANGED <<channel, graph, routes>>

Lock_NoDestroy(d) ==
    /\ pc = "lock" /\ cur = d /\ CanWrite(d)
    /\ UNCHANGED graph
    /\ pc' = IF d \in Verifies THEN "verify" ELSE "build"
    /\ UNCHANGED <<msg, cur, path, done, channel, routes>>

\* async with d.statusLock.writer, to_destroy
Lock(d) ==
    /\ pc = "lock" /\ cur = d /\ CanWrite(d)
    /\ IF d \in Destroys THEN Destroy(d) ELSE UNCHANGED graph
    /\ pc' = IF d \in Verifies THEN "verify" ELSE "build"
    /\ UNCHANGED <<msg, cur, path, done, channel, routes>>

\* d's writer is released: recursive(d)
Enter == pc' = "walk" /\ path' = Append(path, cur) /\ cur' = None /\ UNCHANGED <<msg, done>>

Sufficient(d) == Acceptable(Parent[d]) # (d \in Inverted)

\* async_verify_dependency reads the parent under its reader lock
Verify ==
    /\ pc = "verify" /\ CanRead(Parent[cur])
    /\ IF Sufficient(cur) THEN pc' = "build" /\ UNCHANGED <<msg, cur, path, done>>
                          ELSE Enter
    /\ UNCHANGED <<channel, graph, routes>>

BuildDependent == pc = "build" /\ Build(cur) /\ Enter /\ UNCHANGED <<channel, routes>>

Handler == \/ RootLock \/ RootVerify \/ RootBuild
           \/ \E d \in Service : Visit(d) \/ Lock(d)
           \/ Return \/ Verify \/ BuildDependent
-----------------------------------------------------------------------------
\* PingService: check_status under the reader, which is released again.  The
\* handler of the mini services' channel is a route that pings nothing
Ping(r) ==
    /\ rpc[r] = "idle"
    /\ \A s \in Pings[r] : CanRead(s) /\ Usable(s)
    /\ rpc' = [rpc EXCEPT ![r] = "locking"]
    /\ UNCHANGED <<held, graph, channel, sub>>

CanLock(r) == IF r \in Exclusive THEN CanWrite(Asked(r)) ELSE CanRead(Asked(r))

\* LockService: the locks one by one, then the handler runs under all of them
Acquire(r) ==
    /\ rpc[r] = "locking" /\ CanLock(r)
    /\ held' = [held EXCEPT ![r] = @ + 1]
    /\ rpc' = [rpc EXCEPT ![r] = IF held'[r] = Len(Locks[r]) THEN "in" ELSE @]
    /\ UNCHANGED <<graph, channel, sub>>

\* the handler ends, or wait_timeout passes: async with releases what it has
Release(r) ==
    /\ rpc[r] = "in" \/ (rpc[r] = "locking" /\ r \in Timed)
    /\ rpc' = [rpc EXCEPT ![r] = "idle"] /\ held' = [held EXCEPT ![r] = 0]
    /\ UNCHANGED <<graph, channel, sub>>

RouteStep(r) == Ping(r) \/ Acquire(r) \/ Release(r)

Next == \/ \E m \in Message : Publish(m)
        \/ Receive \/ Handler
        \/ \E r \in Route : RouteStep(r)

Spec == Init /\ [][Next]_vars

\* the event loop runs ready tasks and a route's handler ends; a lock that becomes
\* free goes to those who wait for it, so a wait is not passed over for ever
Fairness == /\ WF_vars(Receive) /\ SF_vars(Handler)
            /\ \A r \in Route : WF_vars(Acquire(r)) /\ WF_vars(rpc[r] = "in" /\ Release(r))

FairSpec == Spec /\ Fairness
-----------------------------------------------------------------------------
\* The cascade leaves no dependent running on what its parent was before: one that
\* answers calls was built from the parent as it is, unless the cascade under way
\* has yet to reach it, or it gave up its own rebuilding (CeleryService).
NoStaleService ==
    \A d \in Service \ Skips : Usable(d) /\ stale[d] => pc # "idle" /\ d \notin done

\* Between cascades no service that verifies its parent answers calls while the
\* parent's status says it cannot be used.
NoneAboveAFailure ==
    pc = "idle" => \A d \in Checks : Usable(d) => Acceptable(Parent[d])

\* No service is destroyed, rebuilt or refused under a route that runs its handler
\* inside the service's lock.
StableUnderLock ==
    [][\A r \in Route, s \in Service :
          rpc[r] = "in" /\ Has(r, s)
             => UNCHANGED <<status[s], built[s], destroyed[s]>>]_vars

\* A route holds a service the message's own verification asks for, somebody waits
\* for the writer of that service, and the route waits for the one in hand.
Knot ==
    /\ pc = "root_verify"
    /\ \E n \in Needs[cur], r \in Route :
          ~CanRead(n) /\ Has(r, n) /\ rpc[r] = "locking" /\ Asked(r) = cur

\* Every message taken from the channel is handled to its end: readers do not starve
\* the cascade, and handler and routes wait for each other for ever in one way only.
CascadeSettles == []<>(pc = "idle") \/ <>[]Knot

\* docstring of async_verify_dependency, "Callback to check if the state of the
\* service dependency is suffisant to run": with its parent usable, a dependent that
\* the cascade verifies goes on to be rebuilt.
SufficientIsRebuilt ==
    [][pc = "verify" /\ pc' # "verify" /\ Acceptable(Parent[cur]) => pc' = "build"]_vars
=============================================================================
