------------------------ MODULE ServiceGraph_proofs ------------------------
(***************************************************************************)
(* For any forest of services, messages and routes: a cascade leaves no     *)
(* service running on what its parent was, and nothing changes under a       *)
(* route that holds the lock.                                                *)
(***************************************************************************)
EXTENDS ServiceGraph, TLAPS

On(s) == \E i \in 1..Len(path) : path[i] = s

\* Where the handler is, and what it has in hand there.
Phase ==
    /\ pc = "idle" => path = <<>> /\ done = {}
    /\ pc \in {"root_lock", "root_verify", "root_build"} =>
          cur \in Service /\ msg \in Message /\ path = <<>> /\ done = {}
    /\ pc \in {"walk", "lock", "verify", "build"} => path # <<>>
    /\ pc \in {"lock", "verify", "build"} =>
          cur \in Service /\ cur \notin done /\ Parent[cur] = Top
    /\ pc = "verify" => ~built[cur]

\* The path goes down the links.
Downwards ==
    /\ \A i \in 2..Len(path) : Parent[path[i]] = path[i - 1]
    /\ \A i, j \in 1..Len(path) : i < j => Created[path[i]] < Created[path[j]]

\* What is done was reached from a service that is done or still on the path.
DoneBelow == \A d \in done : Parent[d] \in done \/ On(Parent[d])

\* Whoever runs on what its parent was is a dependent of a service in hand.
StaleInv ==
    \A d \in Service \ Skips : Usable(d) /\ stale[d] =>
        /\ pc \notin {"idle", "root_lock"} /\ d \notin done /\ ~On(d)
        /\ On(Parent[d]) \/ (pc \in Owning /\ cur = Parent[d])

\* Nobody locks what the handler owns.
LockInv ==
    \A r \in Route :
        /\ held[r] <= Len(Locks[r])
        /\ rpc[r] = "idle" => held[r] = 0
        /\ rpc[r] = "locking" => held[r] < Len(Locks[r])
        /\ \A s \in Service : Has(r, s) => ~HandlerHolds(s)

IInv == TypeOK /\ Phase /\ Downwards /\ DoneBelow /\ StaleInv /\ LockInv
-----------------------------------------------------------------------------
\* What destroying or building s may change.
Touched(s) ==
    /\ status' \in [Service -> {"up", "partly", "down"}]
    /\ built' \in [Service -> BOOLEAN] /\ destroyed' \in [Service -> BOOLEAN]
    /\ stale' \in [Service -> BOOLEAN]
    /\ \A d \in Service : d # s =>
          /\ status'[d] = status[d] /\ built'[d] = built[d] /\ destroyed'[d] = destroyed[d]
          /\ stale'[d] => stale[d] \/ Parent[d] = s
    /\ status'[s] = "down" \/ ~built'[s] \/ destroyed'[s] \/ ~stale'[s] \/ s \in Skips

LEMMA DestroyTouches ==
    ASSUME TypeOK, NEW s \in Service, Destroy(s)
    PROVE  Touched(s) /\ built'[s] = FALSE
BY DEF TypeOK, Destroy, Outdated, Touched, Usable, Acceptable

LEMMA BuildTouches ==
    ASSUME TypeOK, NEW s \in Service, Build(s)
    PROVE  Touched(s)
<1>1. CASE s \in Checks /\ ~Acceptable(Parent[s]) /\ status' = [status EXCEPT ![s] = "down"]
           /\ UNCHANGED <<built, destroyed, stale>>
  BY <1>1 DEF TypeOK, Touched, Usable, Acceptable
<1>2. ASSUME NEW result \in {"up", "partly", "down"},
             status' = [status EXCEPT ![s] = result],
             built' = [built EXCEPT ![s] = @ \/ result = "up"],
             destroyed' = [destroyed EXCEPT ![s] = @ /\ result # "up"],
             stale' = [Outdated(s) EXCEPT ![s] = @ /\ result = "down"]
      PROVE  Touched(s)
  <2>1. Outdated(s) \in [Service -> BOOLEAN]
    BY DEF TypeOK, Outdated
  <2>2. stale' \in [Service -> BOOLEAN] /\ (stale'[s] => result = "down")
    BY <1>2, <2>1
  <2>3. \A d \in Service : d # s => (stale'[d] => stale[d] \/ Parent[d] = s)
    BY <1>2, <2>1 DEF Outdated
  <2>4. status' \in [Service -> {"up", "partly", "down"}] /\ status'[s] = result
    BY <1>2 DEF TypeOK
  <2>5. status'[s] = "down" \/ ~stale'[s]
    BY <2>2, <2>4
  <2>6. built' \in [Service -> BOOLEAN] /\ destroyed' \in [Service -> BOOLEAN]
    BY <1>2 DEF TypeOK
  <2> QED BY <1>2, <2>2, <2>3, <2>4, <2>5, <2>6 DEF TypeOK, Touched
<1>3. CASE s \in Skips /\ status' = [status EXCEPT ![s] = "partly"]
           /\ built' = [built EXCEPT ![s] = TRUE] /\ UNCHANGED <<destroyed, stale>>
  BY <1>3 DEF TypeOK, Touched
<1> QED BY <1>1, <1>2, <1>3 DEF Build

LEMMA Untouched ==
    ASSUME TypeOK, NEW s \in Service, UNCHANGED graph,
           Usable(s) /\ stale[s] => s \in Skips
    PROVE  Touched(s)
BY DEF graph, TypeOK, Touched, Usable, Acceptable
LEMMA NotItsOwnParent == \A d \in Service : Parent[d] # d
<1> SUFFICES ASSUME NEW d \in Service, Parent[d] = d PROVE FALSE
  OBVIOUS
<1>1. Created[d] < Created[d] /\ Created[d] \in Nat
  BY ServiceGraphAssumption
<1> QED BY <1>1
-----------------------------------------------------------------------------
LEMMA InitIInv == Init => IInv
<1> SUFFICES ASSUME Init PROVE IInv
  OBVIOUS
<1>1. TypeOK
  BY ServiceGraphAssumption DEF Init, TypeOK, Owning
<1>2. Phase /\ Downwards /\ DoneBelow /\ StaleInv
  BY DEF Init, Phase, Downwards, DoneBelow, StaleInv
<1>3. LockInv
  <2> SUFFICES ASSUME NEW r \in Route
               PROVE  /\ held[r] <= Len(Locks[r])
                      /\ rpc[r] = "idle" => held[r] = 0
                      /\ rpc[r] = "locking" => held[r] < Len(Locks[r])
                      /\ \A s \in Service : Has(r, s) => ~HandlerHolds(s)
    BY DEF LockInv
  <2>1. held[r] = 0 /\ rpc[r] = "idle" /\ Len(Locks[r]) \in Nat
    BY ServiceGraphAssumption DEF Init
  <2> QED BY <2>1 DEF Has
<1> QED BY <1>1, <1>2, <1>3 DEF IInv

\* The service in hand is not on the path, and none of its dependents is done.
LEMMA InHand ==
    ASSUME IInv, pc \in {"root_lock", "lock"} \cup Owning
    PROVE  /\ cur \in Service /\ ~On(cur) /\ cur \notin done
           /\ \A d \in done : Parent[d] # cur
           /\ \A d \in Service : Parent[d] = cur => ~On(d) /\ d # cur
<1>1. cur \in Service /\ cur \notin done
  BY DEF IInv, Phase, Owning
<1>2. CASE path = <<>> /\ done = {}
  BY <1>1, <1>2, ServiceGraphAssumption DEF On
<1>3. CASE pc \in {"lock", "verify", "build"}
  <2>1. path # <<>> /\ Parent[cur] = Top /\ path \in Seq(Service)
    BY <1>3 DEF IInv, Phase, TypeOK
  <2>2. Len(path) \in 1..Len(path) /\ Top \in Service
    BY <2>1 DEF Top
  <2>3. Created[Top] < Created[cur]
    BY <1>1, <2>1, <2>2, ServiceGraphAssumption
  <2>4. ASSUME NEW i \in 1..Len(path) PROVE Created[path[i]] < Created[cur]
    <3>1. i = Len(path) \/ Created[path[i]] < Created[Top]
      BY <2>2 DEF IInv, Downwards, Top
    <3>2. path[i] \in Service
      BY <2>1
    <3> QED BY <1>1, <2>2, <2>3, <3>1, <3>2, ServiceGraphAssumption DEF Top
  <2>5. ~On(cur)
    BY <1>1, <2>4, ServiceGraphAssumption DEF On
  <2>6. \A d \in done : Parent[d] # cur
    BY <1>1, <2>5 DEF IInv, DoneBelow
  <2>7. ASSUME NEW d \in Service, Parent[d] = cur PROVE ~On(d) /\ d # cur
    <3>1. Created[cur] < Created[d]
      BY <1>1, <2>7, ServiceGraphAssumption
    <3>2. Created[cur] \in Nat /\ Created[d] \in Nat
      BY <1>1, ServiceGraphAssumption
    <3>3. ASSUME NEW i \in 1..Len(path), path[i] = d PROVE FALSE
      BY <2>4, <3>1, <3>2, <3>3
    <3> QED BY <3>1, <3>2, <3>3 DEF On
  <2> QED BY <1>1, <2>5, <2>6, <2>7
<1> QED BY <1>2, <1>3 DEF IInv, Phase, Owning
-----------------------------------------------------------------------------
\* After the service in hand was touched, only its dependents and those of the path
\* may run on what is no longer.
LEMMA TouchedStale ==
    ASSUME IInv, pc \in {"root_lock", "lock"} \cup Owning, Touched(cur)
    PROVE  \A d \in Service \ Skips : Usable(d)' /\ stale'[d] =>
              d # cur /\ d \notin done /\ ~On(d) /\ (On(Parent[d]) \/ Parent[d] = cur)
<1> SUFFICES ASSUME NEW d \in Service \ Skips, Usable(d)', stale'[d]
             PROVE  d # cur /\ d \notin done /\ ~On(d) /\ (On(Parent[d]) \/ Parent[d] = cur)
  OBVIOUS
<1>1. d # cur /\ Usable(d) /\ (stale[d] \/ Parent[d] = cur)
  BY DEF Touched, Usable, Acceptable
<1>2. CASE stale[d]
  BY <1>1, <1>2 DEF IInv, StaleInv
<1>3. CASE Parent[d] = cur
  BY <1>1, <1>3, InHand
<1> QED BY <1>1, <1>2, <1>3

\* A service in hand may be left untouched: it is not both usable and stale.
LEMMA FreshInHand ==
    ASSUME IInv, pc \in {"root_lock", "root_verify", "root_build", "verify"}
    PROVE  Usable(cur) /\ stale[cur] => cur \in Skips
<1>1. cur \in Service /\ ~On(cur)
  BY InHand DEF Owning
<1>2. CASE pc = "verify"
  BY <1>2 DEF IInv, Phase, Usable
<1>3. CASE pc # "verify"
  <2>1. path = <<>>
    BY <1>3 DEF IInv, Phase
  <2>2. ~On(Parent[cur])
    BY <2>1 DEF On
  <2>3. cur # Parent[cur]
    BY <1>1, NotItsOwnParent
  <2> QED BY <1>1, <2>2, <2>3 DEF IInv, StaleInv
<1> QED BY <1>2, <1>3

LEMMA LocksKept ==
    ASSUME LockInv, UNCHANGED routes,
           \A s \in Service : HandlerHolds(s)' => HandlerHolds(s) \/ CanWrite(s)
    PROVE  LockInv'
<1> SUFFICES ASSUME NEW r \in Route
             PROVE  /\ held'[r] <= Len(Locks[r])
                    /\ rpc'[r] = "idle" => held'[r] = 0
                    /\ rpc'[r] = "locking" => held'[r] < Len(Locks[r])
                    /\ \A s \in Service : Has(r, s)' => ~HandlerHolds(s)'
  BY DEF LockInv
<1> QED BY DEF LockInv, routes, Has, CanWrite

\* The handler keeps the service it has in hand: destroyed, or verified.
LEMMA KeepInHand ==
    ASSUME IInv, pc \in {"root_lock", "root_verify", "lock"},
           pc' \in Owning, UNCHANGED <<msg, cur, path, done, channel, routes>>,
           Touched(cur),
           pc \in {"root_lock", "root_verify"} <=> pc' \in {"root_verify", "root_build"},
           pc' = "verify" => ~built'[cur],
           pc \in {"root_lock", "lock"} => CanWrite(cur)
    PROVE  IInv'
<1>1. cur \in Service
  BY InHand DEF Owning
<1>2. TypeOK'
  BY <1>1 DEF IInv, TypeOK, Touched, Owning, routes
<1>3. Phase'
  BY DEF IInv, Phase, Owning, Top
<1>4. Downwards' /\ DoneBelow'
  BY DEF IInv, Downwards, DoneBelow, On
<1>5. StaleInv'
  BY TouchedStale DEF StaleInv, On, Owning
<1>6. LockInv'
  <2>1. ASSUME NEW s \in Service, HandlerHolds(s)' PROVE HandlerHolds(s) \/ CanWrite(s)
    BY <2>1 DEF HandlerHolds, Owning
  <2> QED BY <2>1, LocksKept DEF IInv
<1> QED BY <1>2, <1>3, <1>4, <1>5, <1>6 DEF IInv

\* The root's writer is released.
LEMMA DescendInv ==
    ASSUME IInv, pc \in {"root_lock", "root_verify", "root_build"}, Descend,
           UNCHANGED <<channel, routes>>, Touched(cur)
    PROVE  IInv'
<1>1. cur \in Service /\ path = <<>> /\ done = {} /\ msg \in Message
  BY InHand DEF IInv, Phase, Owning
<1>2. path' = <<cur>> /\ path' \in Seq(Service) /\ Len(path') = 1 /\ path'[1] = cur
  BY <1>1 DEF Descend
<1>3. \A s : On(s)' <=> s = cur
  BY <1>2 DEF On
<1>4. TypeOK'
  BY <1>1, <1>2 DEF IInv, TypeOK, Touched, Owning, routes, Descend
<1>5. Phase'
  BY <1>2 DEF Phase, Descend
<1>6. Downwards' /\ DoneBelow'
  BY <1>1, <1>2 DEF Downwards, DoneBelow, Descend
<1>7. \A s : ~On(s)
  BY <1>1 DEF On
<1>8. StaleInv'
  BY <1>1, <1>3, <1>7, TouchedStale DEF StaleInv, Descend, Owning
<1>9. LockInv'
  <2>1. \A s \in Service : ~HandlerHolds(s)'
    BY <1>2 DEF HandlerHolds, Descend, Owning
  <2> QED BY <2>1, LocksKept DEF IInv
<1> QED BY <1>4, <1>5, <1>6, <1>8, <1>9 DEF IInv

\* Under its writer, the handler goes on below the service it had in hand.
LEMMA EnterInv ==
    ASSUME IInv, pc \in {"verify", "build"}, Enter,
           UNCHANGED <<channel, routes>>, Touched(cur)
    PROVE  IInv'
<1>1. cur \in Service /\ path # <<>> /\ path \in Seq(Service) /\ Parent[cur] = Top
      /\ cur \notin done
  BY DEF IInv, Phase, TypeOK
<1> DEFINE n == Len(path)
<1>2. n \in Nat /\ n >= 1 /\ path' \in Seq(Service) /\ Len(path') = n + 1
      /\ path'[n + 1] = cur /\ \A i \in 1..n : path'[i] = path[i]
  BY <1>1 DEF Enter
<1>3. \A s : On(s)' <=> On(s) \/ s = cur
  BY <1>2 DEF On
<1>4. TypeOK'
  BY <1>1, <1>2 DEF IInv, TypeOK, Touched, Owning, routes, Enter
<1>5. Phase'
  BY <1>2 DEF Phase, Enter
<1>6. Downwards'
  <2>1. ASSUME NEW i \in 2..(n + 1) PROVE Parent[path'[i]] = path'[i - 1]
    <3>1. CASE i = n + 1
      BY <3>1, <1>1, <1>2 DEF Top
    <3>2. CASE i \in 2..n
      <4>1. i - 1 \in 1..n /\ i \in 1..n
        BY <3>2, <1>2
      <4> QED BY <3>2, <4>1, <1>2 DEF IInv, Downwards
    <3> QED BY <2>1, <1>2, <3>1, <3>2
  <2>2. ASSUME NEW i \in 1..n PROVE Created[path[i]] < Created[cur]
    <3>1. path[i] \in Service /\ Top \in Service /\ n \in 1..n
      BY <1>1, <1>2 DEF Top
    <3>2. Created[Top] < Created[cur] /\ Created[Top] \in Nat /\ Created[cur] \in Nat
          /\ Created[path[i]] \in Nat
      BY <1>1, <3>1, ServiceGraphAssumption
    <3>3. i = n \/ Created[path[i]] < Created[Top]
      BY <1>2, <3>1 DEF IInv, Downwards, Top
    <3> QED BY <3>2, <3>3 DEF Top
  <2>3. ASSUME NEW i \in 1..(n + 1), NEW j \in 1..(n + 1), i < j
        PROVE  Created[path'[i]] < Created[path'[j]]
    <3>1. i \in 1..n
      BY <2>3, <1>2
    <3>2. CASE j = n + 1
      BY <3>1, <3>2, <1>2, <2>2
    <3>3. CASE j \in 1..n
      BY <2>3, <3>1, <3>3, <1>2 DEF IInv, Downwards
    <3> QED BY <1>2, <3>2, <3>3
  <2> QED BY <2>1, <2>3, <1>2 DEF Downwards
<1>7. DoneBelow'
  BY <1>3 DEF IInv, DoneBelow, Enter
<1>8. StaleInv'
  BY <1>3, TouchedStale DEF StaleInv, Enter, Owning
<1>9. LockInv'
  <2>1. \A s \in Service : ~HandlerHolds(s)'
    BY DEF HandlerHolds, Enter, Owning
  <2> QED BY <2>1, LocksKept DEF IInv
<1> QED BY <1>4, <1>5, <1>6, <1>7, <1>8, <1>9 DEF IInv
-----------------------------------------------------------------------------
\* No dependent is left below the last service of the path: it goes.
LEMMA ReturnInv == ASSUME IInv, Return PROVE IInv'
<1>1. pc = "walk" /\ path # <<>> /\ path \in Seq(Service)
  BY DEF Return, IInv, Phase, TypeOK
<1> DEFINE n == Len(path)
<1>2. n \in Nat /\ n >= 1 /\ n \in 1..n /\ Top = path[n] /\ Top \in Service
  BY <1>1 DEF Top
<1>3. ASSUME NEW d \in Service \ Skips, Usable(d), stale[d]
      PROVE  \E i \in 1..(n - 1) : path[i] = Parent[d]
  <2>1. On(Parent[d]) /\ d \notin done
    BY <1>1, <1>3 DEF IInv, StaleInv, Owning
  <2>2. Parent[d] # Top
    BY <2>1, <1>3 DEF Return, Children
  <2> QED BY <2>1, <2>2, <1>2 DEF On
<1>4. CASE n = 1 /\ Settle /\ UNCHANGED <<channel, graph, routes>>
  <2>1. TypeOK'
    BY <1>4 DEF IInv, TypeOK, Settle, graph, routes
  <2>2. Phase' /\ Downwards' /\ DoneBelow'
    BY <1>4 DEF Settle, Phase, Downwards, DoneBelow, Owning
  <2>3. StaleInv'
    BY <1>3, <1>4 DEF StaleInv, graph, Usable, Acceptable
  <2>4. \A s \in Service : ~HandlerHolds(s)'
    BY <1>4 DEF Settle, HandlerHolds, Owning
  <2>5. LockInv'
    BY <1>4, <2>4, LocksKept DEF IInv
  <2> QED BY <2>1, <2>2, <2>3, <2>5 DEF IInv
<1>5. CASE n # 1 /\ path' = SubSeq(path, 1, n - 1) /\ done' = done \cup {Top}
           /\ UNCHANGED <<pc, msg, cur, channel, graph, routes>>
  <2>0. n \in Nat /\ n >= 2
    <3>1. n # 1
      BY <1>5
    <3>2. \A k \in Nat : k >= 1 /\ k # 1 => k >= 2
      OBVIOUS
    <3>3. n \in Nat /\ n >= 1
      BY <1>2
    <3> QED BY <3>1, <3>2, <3>3
  <2>1. path' \in Seq(Service) /\ Len(path') = n - 1 /\ path' # <<>>
        /\ \A i \in 1..(n - 1) : path'[i] = path[i]
    <3>1. n - 1 \in 1..n
      BY <2>0
    <3>2. SubSeq(path, 1, n - 1) \in Seq(Service) /\ Len(SubSeq(path, 1, n - 1)) = n - 1
      BY <1>1, <3>1
    <3>3. \A i \in 1..(n - 1) : SubSeq(path, 1, n - 1)[i] = path[i]
      BY <1>1, <3>1
    <3>4. SubSeq(path, 1, n - 1) # <<>>
      <4>1. n - 1 # 0 /\ Len(<<>>) = 0
        BY <2>0
      <4> QED BY <3>2, <4>1
    <3> QED BY <1>5, <3>2, <3>3, <3>4
  <2>2. \A s : On(s) => On(s)' \/ s = Top
    BY <2>1, <1>2 DEF On
  <2>3. \A s : On(s)' => On(s)
    BY <2>1, <1>2 DEF On
  <2>4. TypeOK'
    BY <1>2, <1>5, <2>1 DEF IInv, TypeOK, graph, routes
  <2>5. Phase'
    BY <1>1, <1>5, <2>1 DEF Phase
  <2>6. Downwards'
    <3>1. ASSUME NEW i \in 2..(n - 1) PROVE Parent[path'[i]] = path'[i - 1]
      <4>1. i \in 2..n /\ i \in 1..(n - 1) /\ i - 1 \in 1..(n - 1)
        BY <1>2
      <4> QED BY <4>1, <2>1 DEF IInv, Downwards
    <3>2. ASSUME NEW i \in 1..(n - 1), NEW j \in 1..(n - 1), i < j
          PROVE  Created[path'[i]] < Created[path'[j]]
      <4>1. i \in 1..n /\ j \in 1..n
        BY <1>2
      <4> QED BY <3>2, <4>1, <2>1 DEF IInv, Downwards
    <3> QED BY <2>1, <3>1, <3>2 DEF Downwards
  <2>7. DoneBelow'
    <3> SUFFICES ASSUME NEW d \in done' PROVE Parent[d] \in done' \/ On(Parent[d])'
      BY DEF DoneBelow
    <3>1. CASE d \in done
      BY <3>1, <1>5, <2>2 DEF IInv, DoneBelow
    <3>2. CASE d = Top
      <4>1. Parent[Top] = path[n - 1]
        <5>1. n \in 2..n
          BY <2>0
        <5> QED BY <5>1, <1>2 DEF IInv, Downwards
      <4>2. n - 1 \in 1..(n - 1)
        BY <2>0
      <4> QED BY <3>2, <4>1, <4>2, <2>1 DEF On
    <3> QED BY <3>1, <3>2, <1>5
  <2>8. StaleInv'
    <3> SUFFICES ASSUME NEW d \in Service \ Skips, Usable(d)', stale'[d]
                 PROVE  /\ pc' \notin {"idle", "root_lock"} /\ d \notin done' /\ ~On(d)'
                        /\ On(Parent[d])' \/ (pc' \in Owning /\ cur' = Parent[d])
      BY DEF StaleInv
    <3>1. Usable(d) /\ stale[d]
      BY <1>5 DEF graph, Usable, Acceptable
    <3>2. On(Parent[d])'
      BY <3>1, <1>3, <2>1 DEF On
    <3>3. ~On(d) /\ d \notin done
      BY <3>1 DEF IInv, StaleInv
    <3>4. d # Top
      BY <3>3, <1>2 DEF On
    <3> QED BY <1>1, <1>5, <2>3, <3>2, <3>3, <3>4
  <2>9. \A s \in Service : HandlerHolds(s)' => HandlerHolds(s)
    BY <1>2, <1>5, <2>1 DEF HandlerHolds
  <2>10. LockInv'
    BY <1>5, <2>9, LocksKept DEF IInv
  <2> QED BY <2>4, <2>5, <2>6, <2>7, <2>8, <2>10 DEF IInv
<1> QED BY <1>4, <1>5 DEF Return

\* The handler moves without a service changing or being released.
LEMMA MoveInv ==
    ASSUME IInv, UNCHANGED <<path, done, graph>>, TypeOK', Phase', LockInv',
           \/ UNCHANGED <<pc, cur>>
           \/ pc = "idle" /\ pc' = "root_lock"
           \/ pc = "walk" /\ pc' = "lock"
           \/ pc = "verify" /\ pc' = "build" /\ cur' = cur
    PROVE  IInv'
<1>1. Downwards' /\ DoneBelow'
  BY DEF IInv, Downwards, DoneBelow, On
<1>2. StaleInv'
  BY DEF IInv, StaleInv, graph, Usable, Acceptable, On, Owning
<1> QED BY <1>1, <1>2 DEF IInv

LEMMA ReceiveInv == ASSUME IInv, Receive PROVE IInv'
<1>1. Head(channel) \in Message /\ Tail(channel) \in Seq(Message)
  BY DEF Receive, IInv, TypeOK
<1>2. Head(channel).service \in Service
  BY <1>1, ServiceGraphAssumption
<1>3. TypeOK'
  BY <1>1, <1>2 DEF Receive, IInv, TypeOK, graph, routes
<1>4. Phase'
  BY <1>1, <1>2 DEF Receive, IInv, Phase
<1>5. \A s \in Service : HandlerHolds(s)' => HandlerHolds(s)
  BY DEF Receive, HandlerHolds, Owning
<1>6. LockInv'
  BY <1>5, LocksKept DEF Receive, IInv
<1> QED BY <1>3, <1>4, <1>6, MoveInv DEF Receive

LEMMA VisitInv == ASSUME IInv, NEW d \in Service, Visit(d) PROVE IInv'
<1>1. TypeOK'
  BY DEF Visit, IInv, TypeOK, graph, routes
<1>2. Phase'
  BY DEF Visit, IInv, Phase, Children, Top
<1>3. \A s \in Service : HandlerHolds(s)' => HandlerHolds(s)
  BY DEF Visit, HandlerHolds, Owning
<1>4. LockInv'
  BY <1>3, LocksKept DEF Visit, IInv
<1> QED BY <1>1, <1>2, <1>4, MoveInv DEF Visit

LEMMA RouteInv ==
    ASSUME IInv, UNCHANGED <<graph, sub>>, channel' \in Seq(Message), TypeOK', LockInv'
    PROVE  IInv'
<1>1. Phase'
  BY DEF IInv, Phase, sub, graph, Top
<1> QED BY <1>1, MoveInv DEF sub

LEMMA RouteStepInv == ASSUME IInv, NEW r \in Route, RouteStep(r) PROVE IInv'
<1>1. \A s \in Service : HandlerHolds(s)' <=> HandlerHolds(s)
  BY DEF RouteStep, Ping, Acquire, Release, sub, HandlerHolds
<1>2. Len(Locks[r]) \in Nat \ {0} /\ held[r] \in Nat /\ Locks[r] \in Seq(Service)
  BY ServiceGraphAssumption DEF IInv, TypeOK
<1>3. UNCHANGED <<graph, sub>> /\ channel' \in Seq(Message)
  BY DEF RouteStep, Ping, Acquire, Release, IInv, TypeOK
<1>4. TypeOK'
  <2>1. rpc' \in [Route -> {"idle", "locking", "in"}] /\ held' \in [Route -> Nat]
    <3>1. CASE Ping(r)
      BY <3>1 DEF Ping, IInv, TypeOK
    <3>2. CASE Acquire(r)
      BY <3>2 DEF Acquire, IInv, TypeOK
    <3>3. CASE Release(r)
      BY <3>3 DEF Release, IInv, TypeOK
    <3> QED BY <3>1, <3>2, <3>3 DEF RouteStep
  <2> QED BY <2>1, <1>3 DEF IInv, TypeOK, graph, sub
<1>5. ASSUME NEW x \in Route
      PROVE  /\ held'[x] <= Len(Locks[x])
             /\ rpc'[x] = "idle" => held'[x] = 0
             /\ rpc'[x] = "locking" => held'[x] < Len(Locks[x])
             /\ \A s \in Service : Has(x, s)' => ~HandlerHolds(s)'
  <2>1. CASE x # r
    BY <2>1, <1>1 DEF RouteStep, Ping, Acquire, Release, IInv, TypeOK, LockInv, Has
  <2>2. CASE x = r /\ Ping(r)
    BY <2>2, <1>1, <1>2 DEF Ping, IInv, TypeOK, LockInv, Has
  <2>3. CASE x = r /\ Acquire(r)
    <3>1. held[r] < Len(Locks[r]) /\ held' = [held EXCEPT ![r] = @ + 1]
          /\ ~HandlerHolds(Asked(r))
      BY <2>3 DEF Acquire, CanLock, CanRead, CanWrite, IInv, LockInv
    <3>2. held'[r] = held[r] + 1
      BY <3>1 DEF IInv, TypeOK
    <3>3. rpc'[r] # "idle" /\ (rpc'[r] = "locking" => held'[r] # Len(Locks[r]))
      BY <2>3 DEF Acquire, IInv, TypeOK
    <3>4. ASSUME NEW s \in Service, Has(r, s)' PROVE ~HandlerHolds(s)'
      <4>1. PICK i \in 1..(held[r] + 1) : Locks[r][i] = s
        BY <3>4, <3>2 DEF Has
      <4>2. CASE i = held[r] + 1
        BY <4>1, <4>2, <3>1, <1>1 DEF Asked
      <4>3. CASE i \in 1..held[r]
        BY <4>1, <4>3, <1>1 DEF Has, IInv, LockInv
      <4> QED BY <4>1, <4>2, <4>3, <1>2
    <3> QED BY <2>3, <1>2, <3>1, <3>2, <3>3, <3>4
  <2>4. CASE x = r /\ Release(r)
    <3>1. held'[r] = 0 /\ rpc'[r] = "idle"
      BY <2>4 DEF Release, IInv, TypeOK
    <3>2. \A s \in Service : ~Has(r, s)'
      BY <3>1 DEF Has
    <3> QED BY <2>4, <1>2, <3>1, <3>2
  <2> QED BY <2>1, <2>2, <2>3, <2>4 DEF RouteStep
<1>6. LockInv'
  BY <1>5 DEF LockInv
<1> QED BY <1>3, <1>4, <1>6, RouteInv
-----------------------------------------------------------------------------
LEMMA HandlerInv == ASSUME IInv, Handler PROVE IInv'
<1>1. CASE RootLock
  <2>1. cur \in Service
    BY <1>1, InHand DEF RootLock, Owning
  <2>2. Touched(cur)
    <3>1. CASE Destroy(cur)
      BY <2>1, <3>1, DestroyTouches DEF IInv
    <3>2. CASE UNCHANGED graph
      BY <1>1, <2>1, <3>2, Untouched, FreshInHand DEF IInv, RootLock
    <3> QED BY <1>1, <3>1, <3>2 DEF RootLock
  <2>3. CASE msg.build
    BY <1>1, <2>2, <2>3, KeepInHand DEF RootLock, Owning
  <2>4. CASE ~msg.build
    BY <1>1, <2>2, <2>4, DescendInv DEF RootLock
  <2> QED BY <2>3, <2>4
<1>2. CASE RootVerify
  <2>1. cur \in Service
    BY <1>2, InHand DEF RootVerify, Owning
  <2>2. CASE pc' = "root_build" /\ UNCHANGED <<graph, msg, cur, path, done>>
    <3>1. Touched(cur)
      BY <1>2, <2>1, <2>2, Untouched, FreshInHand DEF IInv, RootVerify
    <3> QED BY <1>2, <2>2, <3>1, KeepInHand DEF RootVerify, Owning
  <2>3. CASE status' = [status EXCEPT ![cur] = "down"] /\ Descend
             /\ UNCHANGED <<built, destroyed, stale>>
    <3>1. Touched(cur)
      BY <2>1, <2>3 DEF Touched, IInv, TypeOK
    <3> QED BY <1>2, <2>3, <3>1, DescendInv DEF RootVerify
  <2> QED BY <1>2, <2>2, <2>3 DEF RootVerify
<1>3. CASE RootBuild
  <2>1. Touched(cur)
    BY <1>3, InHand, BuildTouches DEF RootBuild, IInv, Owning
  <2> QED BY <1>3, <2>1, DescendInv DEF RootBuild
<1>4. ASSUME NEW d \in Service, Lock(d) PROVE IInv'
  <2>1. cur = d /\ cur \in Service /\ d \notin done /\ Parent[d] \in Service
    <3>1. path \in Seq(Service) /\ path # <<>> /\ Parent[d] = Top
      BY <1>4 DEF Lock, IInv, Phase, TypeOK
    <3>2. Top \in Service
      BY <3>1 DEF Top
    <3> QED BY <1>4, <3>1, <3>2 DEF Lock, IInv, Phase
  <2>2. CASE d \in Destroys
    <3>1. Touched(cur) /\ built'[cur] = FALSE
      BY <1>4, <2>1, <2>2, DestroyTouches DEF Lock, IInv
    <3> QED BY <1>4, <2>1, <3>1, KeepInHand DEF Lock, Owning
  <2>3. CASE d \notin Destroys
    <3>1. d \notin Verifies /\ UNCHANGED graph /\ pc = "lock" /\ pc' = "build"
          /\ CanWrite(cur) /\ UNCHANGED <<msg, cur, path, done, channel, routes>>
      BY <1>4, <2>1, <2>3, ServiceGraphAssumption DEF Lock
    <3>2. TypeOK' /\ Phase'
      BY <3>1 DEF IInv, TypeOK, Phase, Owning, graph, routes, Top
    <3>3. ASSUME NEW s \in Service, HandlerHolds(s)' PROVE HandlerHolds(s) \/ CanWrite(s)
      BY <3>1, <3>3 DEF HandlerHolds, Owning
    <3>4. LockInv'
      BY <3>1, <3>3, LocksKept DEF IInv
    <3>5. Downwards' /\ DoneBelow'
      BY <3>1 DEF IInv, Downwards, DoneBelow, On
    <3>6. StaleInv'
      BY <3>1 DEF IInv, StaleInv, graph, Usable, Acceptable, On, Owning
    <3> QED BY <3>2, <3>4, <3>5, <3>6 DEF IInv
  <2> QED BY <2>2, <2>3
<1>5. CASE Verify
  <2>1. cur \in Service
    BY <1>5, InHand DEF Verify, Owning
  <2>2. CASE pc' = "build" /\ UNCHANGED <<msg, cur, path, done>>
    <3>1. TypeOK' /\ Phase'
      BY <1>5, <2>2 DEF Verify, IInv, TypeOK, Phase, Owning, graph, routes, Top
    <3>2. \A s \in Service : HandlerHolds(s)' => HandlerHolds(s)
      BY <1>5, <2>2 DEF Verify, HandlerHolds, Owning
    <3>3. LockInv'
      BY <1>5, <3>2, LocksKept DEF Verify, IInv
    <3> QED BY <1>5, <2>2, <3>1, <3>3, MoveInv DEF Verify
  <2>3. CASE Enter
    <3>1. Touched(cur)
      BY <1>5, <2>1, Untouched, FreshInHand DEF Verify, IInv
    <3> QED BY <1>5, <2>3, <3>1, EnterInv DEF Verify
  <2> QED BY <1>5, <2>2, <2>3 DEF Verify
<1>6. CASE BuildDependent
  <2>1. Touched(cur)
    BY <1>6, InHand, BuildTouches DEF BuildDependent, IInv, Owning
  <2> QED BY <1>6, <2>1, EnterInv DEF BuildDependent
<1> QED BY <1>1, <1>2, <1>3, <1>4, <1>5, <1>6, VisitInv, ReturnInv DEF Handler

LEMMA NextIInv == IInv /\ [Next]_vars => IInv'
<1> SUFFICES ASSUME IInv, [Next]_vars PROVE IInv'
  OBVIOUS
<1>1. ASSUME NEW m \in Message, Publish(m) PROVE IInv'
  <2>1. channel' \in Seq(Message) /\ UNCHANGED <<graph, sub, routes>>
    BY <1>1 DEF Publish, IInv, TypeOK
  <2>2. TypeOK'
    BY <2>1 DEF IInv, TypeOK, graph, sub, routes
  <2>3. LockInv'
    BY <2>1 DEF IInv, LockInv, sub, routes, Has, HandlerHolds
  <2> QED BY <2>1, <2>2, <2>3, RouteInv
<1>2. CASE UNCHANGED vars
  <2>1. TypeOK' /\ LockInv' /\ channel' \in Seq(Message)
    BY <1>2 DEF vars, IInv, TypeOK, LockInv, graph, sub, routes, Has, HandlerHolds
  <2> QED BY <1>2, <2>1, RouteInv DEF vars
<1> QED BY <1>1, <1>2, ReceiveInv, HandlerInv, RouteStepInv DEF Next

\* What holds between and within cascades, routes' locks included.
THEOREM Inductive == Spec => []IInv
BY InitIInv, NextIInv, PTL DEF Spec

\* The services, the handler and the routes keep their types.
THEOREM TypeCorrect == Spec => []TypeOK
BY Inductive, PTL DEF IInv

\* A cascade leaves no dependent running on what its parent was.
THEOREM NoStaleServiceEver == Spec => []NoStaleService
<1>1. IInv => NoStaleService
  BY DEF IInv, StaleInv, NoStaleService
<1> QED BY Inductive, <1>1, PTL

\* A service that should not be usable, for its parent is not.
Above(d) == d \in Checks /\ Usable(d) /\ ~Acceptable(Parent[d])

\* Every such service is yet to be visited, from its parent on the path.
AboveInv == \A d \in Service : Above(d) => On(Parent[d]) /\ d \notin done /\ ~On(d)

\* Build and Destroy leave the service they touch in order, and make no other usable.
LEMMA TouchedAbove ==
    ASSUME IInv, NEW s \in Service, Destroy(s) \/ Build(s)
    PROVE  \A d \in Service : Above(d)' => d # s /\ (Above(d) \/ Parent[d] = s)
<1>1. TypeOK /\ Touched(s)
  BY DestroyTouches, BuildTouches DEF IInv
<1>2. s \in Checks => Parent[s] \in Service /\ Parent[s] # s
  BY ServiceGraphAssumption
<1>3. ~Above(s)'
  <2>1. CASE Destroy(s)
    BY <1>1, <2>1, DestroyTouches DEF Above, Usable
  <2>2. CASE Build(s) /\ s \in Checks /\ ~Acceptable(Parent[s])
    BY <1>1, <2>2, ServiceGraphAssumption DEF Build, Above, Usable, Acceptable, TypeOK
  <2>3. CASE s \in Checks /\ Acceptable(Parent[s])
    BY <1>1, <1>2, <2>3 DEF Above, Touched, Acceptable
  <2>4. CASE s \notin Checks
    BY <2>4 DEF Above
  <2> QED BY <2>1, <2>2, <2>3, <2>4
<1>4. ASSUME NEW d \in Service, Above(d)' PROVE d # s /\ (Above(d) \/ Parent[d] = s)
  <2>1. d # s
    BY <1>3, <1>4
  <2>2. Usable(d)
    BY <1>1, <1>4, <2>1 DEF Touched, Above, Usable, Acceptable
  <2>3. Parent[d] \in Service
    BY <1>4, ServiceGraphAssumption DEF Above
  <2> QED BY <1>1, <1>4, <2>1, <2>2, <2>3 DEF Touched, Above, Acceptable
<1> QED BY <1>4

\* A step that leaves the services alone, and the path, or takes it one further.
LEMMA AboveKept ==
    ASSUME IInv, AboveInv, UNCHANGED <<status, built, destroyed, done>>,
           path' = path \/ (pc = "verify" /\ Enter)
    PROVE  AboveInv'
<1>1. \A d : Above(d)' <=> Above(d)
  BY DEF Above, Usable, Acceptable
<1>2. CASE path' = path
  BY <1>1, <1>2 DEF AboveInv, On
<1>3. CASE pc = "verify" /\ Enter
  <2>1. ~Above(cur) /\ path \in Seq(Service)
    BY <1>3 DEF IInv, Phase, TypeOK, Above, Usable
  <2>2. \A s : On(s)' <=> On(s) \/ s = cur
    BY <1>3, <2>1 DEF Enter, On
  <2> QED BY <1>1, <2>1, <2>2 DEF AboveInv
<1> QED BY <1>2, <1>3

\* With no service on the path there is none above a failure.
LEMMA NoneAbove == ASSUME AboveInv, path = <<>> PROVE \A d \in Service : ~Above(d)
<1>1. \A s : ~On(s)
  BY DEF On
<1> QED BY <1>1 DEF AboveInv

\* The root is destroyed, refused or built: what depends on it is now below the path.
LEMMA AboveRoot ==
    ASSUME IInv, AboveInv, pc \in {"root_lock", "root_verify", "root_build"},
           \/ RootLock \/ RootVerify \/ RootBuild
    PROVE  AboveInv'
<1>1. cur \in Service /\ path = <<>> /\ done = {} /\ ~Above(cur)
      /\ \A d \in Service : ~Above(d)
  BY InHand, NoneAbove DEF IInv, Phase, Owning
<1>2. \A d \in Service : Parent[d] = cur => d # cur
  BY <1>1, NotItsOwnParent
<1>3. ASSUME Descend, \A d \in Service : Above(d)' => d # cur /\ Parent[d] = cur PROVE AboveInv'
  <2>1. \A s : On(s)' <=> s = cur
    BY <1>3 DEF Descend, On
  <2> QED BY <1>1, <1>3, <2>1 DEF AboveInv, Descend
<1>4. CASE RootLock
  <2>1. \A d \in Service : ~Above(d)'
    <3>1. CASE Destroy(cur)
      <4>1. status' = status /\ Touched(cur)
        BY <1>1, <3>1, DestroyTouches DEF Destroy, IInv
      <4>2. \A d \in Service : Above(d)' => d # cur
        BY <1>1, <3>1, TouchedAbove
      <4>3. \A d \in Checks : Parent[d] \in Service
        BY ServiceGraphAssumption
      <4> QED BY <1>1, <4>1, <4>2, <4>3 DEF Touched, Above, Usable, Acceptable
    <3>2. CASE UNCHANGED graph
      BY <1>1, <3>2 DEF graph, Above, Usable, Acceptable
    <3> QED BY <1>4, <3>1, <3>2 DEF RootLock
  <2> QED BY <2>1 DEF AboveInv
<1>5. CASE RootVerify
  <2>1. CASE UNCHANGED <<graph, path, done>>
    BY <2>1, AboveKept DEF graph
  <2>2. CASE status' = [status EXCEPT ![cur] = "down"] /\ Descend /\ UNCHANGED <<built, destroyed>>
    <3>1. \A d \in Service : Above(d)' => d # cur /\ Parent[d] = cur
      <4>1. \A d \in Service : d # cur => status'[d] = status[d]
        BY <2>2 DEF IInv, TypeOK
      <4>2. \A d \in Service : Usable(d)' => d # cur
        BY <1>1, <2>2 DEF Usable, Acceptable, IInv, TypeOK
      <4>3. \A d \in Checks : Parent[d] \in Service
        BY ServiceGraphAssumption
      <4> QED BY <1>1, <2>2, <4>1, <4>2, <4>3 DEF Above, Usable, Acceptable
    <3> QED BY <1>3, <2>2, <3>1
  <2> QED BY <1>5, <2>1, <2>2 DEF RootVerify
<1>6. CASE RootBuild
  BY <1>1, <1>2, <1>3, <1>6, TouchedAbove DEF RootBuild
<1> QED BY <1>4, <1>5, <1>6

\* So it is with a dependent.
LEMMA AboveDependent ==
    ASSUME IInv, AboveInv, BuildDependent \/ \E d \in Service : Lock(d)
    PROVE  AboveInv'
<1>1. /\ cur \in Service /\ ~On(cur) /\ cur \notin done /\ path \in Seq(Service)
      /\ \A d \in Service : Parent[d] = cur => d \notin done /\ ~On(d) /\ d # cur
  BY InHand DEF BuildDependent, Lock, Owning, IInv, TypeOK
<1>2. CASE BuildDependent
  <2>1. \A s : On(s)' <=> On(s) \/ s = cur
    BY <1>1, <1>2 DEF BuildDependent, Enter, On
  <2>2. done' = done
    BY <1>2 DEF BuildDependent, Enter
  <2>3. \A d \in Service : Above(d)' => d # cur /\ (Above(d) \/ Parent[d] = cur)
    BY <1>1, <1>2, TouchedAbove DEF BuildDependent
  <2> QED BY <1>1, <2>1, <2>2, <2>3 DEF AboveInv
<1>3. ASSUME NEW d \in Service, Lock(d), d \in Destroys PROVE AboveInv'
  <2>1. Destroy(cur) /\ cur = d /\ UNCHANGED <<path, done>>
    BY <1>3 DEF Lock
  <2>2. status' = status /\ Touched(cur)
    BY <1>1, <2>1, DestroyTouches DEF Destroy, IInv
  <2>3. ASSUME NEW c \in Service, Above(c)' PROVE Above(c)
    <3>1. c # cur
      BY <1>1, <2>1, <2>3, TouchedAbove
    <3> QED BY <2>2, <2>3, <3>1 DEF Touched, Above, Usable, Acceptable
  <2> QED BY <2>1, <2>3 DEF AboveInv, On
<1>4. ASSUME NEW d \in Service, Lock(d), d \notin Destroys PROVE AboveInv'
  BY <1>4, AboveKept DEF Lock, graph
<1> QED BY <1>2, <1>3, <1>4

\* A service is left when nothing that depends on it is to be visited any more.
LEMMA AboveReturn == ASSUME IInv, AboveInv, Return PROVE AboveInv'
<1>1. path # <<>> /\ path \in Seq(Service) /\ graph' = graph
  BY DEF Return, IInv, Phase, TypeOK
<1> DEFINE n == Len(path)
<1>2. n \in Nat /\ n >= 1 /\ n \in 1..n /\ Top = path[n]
  BY <1>1 DEF Top
<1>3. \A d \in Service : Above(d)' <=> Above(d)
  BY <1>1 DEF graph, Above, Usable, Acceptable
<1>4. ASSUME NEW d \in Service, Above(d) PROVE \E i \in 1..(n - 1) : path[i] = Parent[d]
  <2>1. On(Parent[d]) /\ Parent[d] # Top
    BY <1>4 DEF AboveInv, Return, Children
  <2> QED BY <1>2, <2>1 DEF On
<1>5. CASE n = 1
  BY <1>3, <1>4, <1>5 DEF AboveInv
<1>6. CASE n # 1
  <2>0. n - 1 \in 1..n
    BY <1>2, <1>6
  <2>1. path' = SubSeq(path, 1, n - 1) /\ done' = done \cup {Top}
    BY <1>6 DEF Return
  <2>2. Len(path') = n - 1 /\ \A i \in 1..(n - 1) : path'[i] = path[i]
    BY <1>1, <2>0, <2>1
  <2>3. ASSUME NEW d \in Service, Above(d) PROVE On(Parent[d])' /\ d \notin done' /\ ~On(d)'
    <3>1. d \notin done /\ ~On(d)
      BY <2>3 DEF AboveInv
    <3>2. d # Top /\ ~On(d)'
      BY <1>2, <2>2, <3>1 DEF On
    <3> QED BY <1>4, <2>1, <2>2, <2>3, <3>1, <3>2 DEF On
  <2> QED BY <1>3, <2>3 DEF AboveInv
<1> QED BY <1>5, <1>6

LEMMA AboveStep == IInv /\ AboveInv /\ [Next]_vars => AboveInv'
<1> SUFFICES ASSUME IInv, AboveInv, [Next]_vars PROVE AboveInv'
  OBVIOUS
<1>1. CASE RootLock \/ RootVerify \/ RootBuild
  BY <1>1, AboveRoot DEF RootLock, RootVerify, RootBuild
<1>2. CASE UNCHANGED <<graph, path, done>>
  BY <1>2, AboveKept DEF graph
<1>3. CASE Verify
  BY <1>3, AboveKept DEF Verify, Enter, graph
<1>4. CASE Receive \/ (\E m \in Message : Publish(m)) \/ (\E d \in Service : Visit(d))
           \/ (\E r \in Route : RouteStep(r)) \/ UNCHANGED vars
  <2>1. UNCHANGED <<graph, path, done>>
    BY <1>4 DEF Receive, Publish, Visit, RouteStep, Ping, Acquire, Release, vars, sub
  <2> QED BY <2>1, <1>2
<1> QED BY <1>1, <1>3, <1>4, AboveDependent, AboveReturn DEF Next, Handler

\* Between cascades no service that verifies its parent is usable above a parent that
\* is not, in any forest of services and whatever builds and checks come to.
THEOREM NoneAboveAFailureEver == Spec => []NoneAboveAFailure
<1>1. Init => AboveInv
  BY ServiceGraphAssumption DEF Init, AboveInv, Above, Acceptable
<1>2. IInv /\ AboveInv => NoneAboveAFailure
  <2> SUFFICES ASSUME IInv, AboveInv, pc = "idle", NEW d \in Checks, Usable(d)
               PROVE  Acceptable(Parent[d])
    BY DEF NoneAboveAFailure
  <2>1. d \in Service
    BY ServiceGraphAssumption
  <2> QED BY <2>1, NoneAbove DEF IInv, Phase, Above
<1> QED BY <1>1, <1>2, Inductive, AboveStep, PTL DEF Spec

\* A handler under a status lock sees its services unchanged.
THEOREM StableUnderLockAlways == Spec => StableUnderLock
<1> DEFINE Stable == \A r \in Route, s \in Service :
                        rpc[r] = "in" /\ Has(r, s)
                           => UNCHANGED <<status[s], built[s], destroyed[s]>>
<1>1. IInv /\ [Next]_vars => [Stable]_vars
  <2> SUFFICES ASSUME IInv, Next, NEW r \in Route, NEW s \in Service,
                      rpc[r] = "in", Has(r, s)
               PROVE  UNCHANGED <<status[s], built[s], destroyed[s]>>
    OBVIOUS
  <2>1. ~HandlerHolds(s) /\ ~CanWrite(s)
    BY DEF IInv, LockInv, CanWrite
  <2>2. ASSUME pc \in Owning \/ CanWrite(cur), cur \in Service, Touched(cur)
        PROVE  UNCHANGED <<status[s], built[s], destroyed[s]>>
    <3>1. s # cur
      BY <2>1, <2>2 DEF HandlerHolds
    <3> QED BY <2>2, <3>1 DEF Touched
  <2>3. CASE UNCHANGED <<status, built, destroyed>>
    BY <2>3
  <2>4. CASE RootLock
    <3>1. cur \in Service
      BY <2>4, InHand DEF RootLock, Owning
    <3> QED BY <2>2, <2>3, <2>4, <3>1, DestroyTouches DEF RootLock, graph, IInv
  <2>5. CASE RootVerify
    <3>1. s # cur
      BY <2>1, <2>5 DEF RootVerify, HandlerHolds, Owning
    <3> QED BY <2>5, <3>1 DEF RootVerify, graph, IInv, TypeOK
  <2>6. CASE RootBuild \/ BuildDependent
    <3>1. cur \in Service /\ pc \in Owning
      BY <2>6, InHand DEF RootBuild, BuildDependent, Owning
    <3> QED BY <2>2, <2>6, <3>1, BuildTouches DEF RootBuild, BuildDependent, IInv
  <2>7. ASSUME NEW d \in Service, Lock(d)
        PROVE  UNCHANGED <<status[s], built[s], destroyed[s]>>
    BY <2>2, <2>3, <2>7, DestroyTouches DEF Lock, graph, IInv
  <2> QED BY <2>3, <2>4, <2>5, <2>6, <2>7
          DEF Next, Publish, Receive, Handler, Visit, Return, Verify,
              RouteStep, Ping, Acquire, Release, graph
<1> QED BY Inductive, <1>1, PTL DEF Spec, StableUnderLock
=============================================================================
