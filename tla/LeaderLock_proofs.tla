------------------------- MODULE LeaderLock_proofs -------------------------
(***************************************************************************)
(* Proofs about LeaderLock, for every set of processes and every length of   *)
(* the key's life and of the sleeps.                                        *)
(***************************************************************************)
EXTENDS LeaderLock, TLAPS

USE LeaderLockAssumption DEF LeaderLockAssumption

LEMMA TypeInit == Init => TypeOK
  BY DEF Init, TypeOK

\* A sleep's length is typed, whatever the loop did before it.
LEMMA NapTyped ==
    ASSUME TypeOK, NEW i \in Instance, Nap(i)
    PROVE  /\ pc' \in [Instance -> {"off", "sleep", "got", "held", "answered", "ended"}]
           /\ timer' \in [Instance -> 0..MaxSleep]
  BY DEF Nap, TypeOK

LEMMA TypeStep == TypeOK /\ [Next]_vars => TypeOK'
<1> SUFFICES ASSUME TypeOK, [Next]_vars PROVE TypeOK'
    OBVIOUS
<1>1. ASSUME NEW i \in Instance, Start(i) PROVE TypeOK'
  BY <1>1 DEF Start, TypeOK
<1>2. ASSUME NEW i \in Instance, TryAcquire(i) PROVE TypeOK'
  BY <1>2 DEF TryAcquire, TypeOK
<1>3. ASSUME NEW i \in Instance, Resume(i) PROVE TypeOK'
  BY <1>3, NapTyped DEF Resume, TypeOK
<1>4. ASSUME NEW i \in Instance, Expire(i) PROVE TypeOK'
  BY <1>4, NapTyped DEF Expire, TypeOK
<1>5. ASSUME NEW i \in Instance, ReadHolder(i) PROVE TypeOK'
  BY <1>5 DEF ReadHolder, TypeOK
<1>6. ASSUME NEW i \in Instance, RetryNow(i) PROVE TypeOK'
  BY <1>6 DEF RetryNow, TypeOK
<1>7. ASSUME NEW i \in Instance, Yield(i) PROVE TypeOK'
  BY <1>7, NapTyped DEF Yield, TypeOK
<1>8. ASSUME NEW i \in Instance, RedisFails(i) PROVE TypeOK'
  BY <1>8 DEF RedisFails, TypeOK
<1>9. ASSUME NEW i \in Instance, ProcessEnds(i) PROVE TypeOK'
  BY <1>9 DEF ProcessEnds, TypeOK
<1>10. CASE Tick
  BY <1>10 DEF Tick, TypeOK
<1>11. CASE UNCHANGED vars
  BY <1>11 DEF vars, TypeOK
<1>12. QED
  BY <1>1, <1>2, <1>3, <1>4, <1>5, <1>6, <1>7, <1>8, <1>9, <1>10, <1>11
  DEF Next, LeaderLoop, Renew, Extend

\* The variables of the loop of task_service.py keep their types.
THEOREM TypeCorrect == Spec => []TypeOK
  BY TypeInit, TypeStep, PTL DEF Spec

-----------------------------------------------------------------------------
(* Without failures the last process to acquire the key cannot be the one   *)
(* that yields: nobody's key but its own, or none, is there for its GET to  *)
(* return.                                                                  *)
FlagsAgree == leader = running

LastAcquirer(i) ==
    /\ Leads(i)
    /\ lock \in {None, i}
    /\ pc[i] = "answered" => seen[i] \in {None, i}

NobodyYet ==
    /\ lock = None
    /\ \A i \in Instance : ~Leads(i) /\ (pc[i] = "answered" => seen[i] = None)

LeadInv == FlagsAgree /\ (NobodyYet \/ \E i \in Instance : LastAcquirer(i))

LEMMA LeadInit == Init => LeadInv
  BY DEF Init, LeadInv, FlagsAgree, NobodyYet, Leads

LEMMA FlagsStep ==
    ASSUME TypeOK, FlagsAgree, [Next]_vars PROVE FlagsAgree'
<1> USE DEF FlagsAgree, TypeOK
<1>1. ASSUME NEW i \in Instance,
             Start(i) \/ TryAcquire(i) \/ ReadHolder(i) \/ RetryNow(i) \/ Expire(i)
      PROVE  FlagsAgree'
  BY <1>1 DEF Start, TryAcquire, ReadHolder, RetryNow, Expire
<1>2. ASSUME NEW i \in Instance, Resume(i) \/ Yield(i) PROVE FlagsAgree'
  BY <1>2 DEF Resume, Yield
<1>3. ASSUME NEW i \in Instance, RedisFails(i) \/ ProcessEnds(i) PROVE FlagsAgree'
  BY <1>3 DEF RedisFails, ProcessEnds
<1>4. CASE Tick \/ UNCHANGED vars
  BY <1>4 DEF Tick, vars
<1>5. QED
  BY <1>1, <1>2, <1>3, <1>4 DEF Next, LeaderLoop, Renew, Extend

\* A step after which nothing has failed is not a failure.
LEMMA NothingFails ==
    ASSUME TypeOK, NoFailure', [Next]_vars
    PROVE  NoFailure /\ \A j \in Instance : ~RedisFails(j) /\ ~ProcessEnds(j)
<1> USE DEF NoFailure, TypeOK
<1>1. ASSUME NEW j \in Instance PROVE ~RedisFails(j)
  BY DEF RedisFails
<1>2. ASSUME NEW j \in Instance PROVE ~ProcessEnds(j)
  BY DEF ProcessEnds
<1>3. ends' = ends
  BY <1>1, <1>2 DEF Next, LeaderLoop, Start, TryAcquire, Resume, Renew, Expire, ReadHolder,
     RetryNow, Yield, Extend, Tick, vars
<1>4. ASSUME NEW k \in Instance, pc[k] = "ended" PROVE pc'[k] = pc[k]
  <2>1. ASSUME NEW j \in Instance, Start(j) \/ TryAcquire(j) \/ ReadHolder(j) \/ RetryNow(j)
        PROVE  pc'[k] = pc[k]
    BY <1>4, <2>1 DEF Start, TryAcquire, ReadHolder, RetryNow
  <2>2. ASSUME NEW j \in Instance, Resume(j) \/ Yield(j) \/ Renew(j) \/ Extend(j)
        PROVE  pc'[k] = pc[k]
    BY <1>4, <2>2 DEF Resume, Yield, Renew, Extend, Expire, Nap
  <2>3. CASE Tick \/ UNCHANGED vars
    BY <2>3 DEF Tick, vars
  <2>4. QED
    BY <1>1, <1>2, <1>4, <2>1, <2>2, <2>3 DEF Next, LeaderLoop
<1>5. QED
  BY <1>1, <1>2, <1>3, <1>4

\* The last to acquire stays the last until another process acquires.
LEMMA LastKept ==
    ASSUME TypeOK, FlagsAgree, NoFailure', [Next]_vars,
           NEW i \in Instance, LastAcquirer(i)
    PROVE  \E k \in Instance : LastAcquirer(k)'
<1> USE DEF LastAcquirer, Leads, TypeOK
<1>1. ASSUME NEW j \in Instance, j # i, LeaderLoop(j), ~TryAcquire(j)
      PROVE  LastAcquirer(i)'
  <2>1. UNCHANGED lock
    BY <1>1 DEF LeaderLoop, Start, Resume, Renew, Expire, ReadHolder, RetryNow, Yield, Extend
  <2>2. pc'[i] = pc[i] /\ running'[i] = running[i] /\ seen'[i] = seen[i]
    <3>1. CASE Start(j) \/ ReadHolder(j) \/ RetryNow(j)
      BY <1>1, <3>1 DEF Start, ReadHolder, RetryNow
    <3>2. CASE Resume(j) \/ Expire(j) \/ Yield(j)
      BY <1>1, <3>2 DEF Resume, Expire, Yield, Nap
    <3>3. QED
      BY <1>1, <3>1, <3>2 DEF LeaderLoop, Renew, Extend
  <2>3. QED
    BY <2>1, <2>2
<1>2. ASSUME NEW j \in Instance, TryAcquire(j), lock = None PROVE LastAcquirer(j)'
  BY <1>2 DEF TryAcquire
<1>3. ASSUME NEW j \in Instance, TryAcquire(j), lock # None PROVE LastAcquirer(i)'
  BY <1>3 DEF TryAcquire
<1>4. ASSUME LeaderLoop(i), ~TryAcquire(i) PROVE LastAcquirer(i)'
  <2>1. CASE Start(i) \/ RetryNow(i)
    BY <2>1 DEF Start, RetryNow
  <2>2. CASE Resume(i) \/ Renew(i)
    BY <2>2 DEF Resume, Renew, Expire, Nap, FlagsAgree
  <2>3. CASE ReadHolder(i)
    BY <2>3 DEF ReadHolder
  <2>4. CASE Extend(i)
    BY <2>4 DEF Extend, Expire, Nap
  <2>5. CASE Yield(i)
    BY <2>5 DEF Yield
  <2>6. QED
    BY <1>4, <2>1, <2>2, <2>3, <2>4, <2>5 DEF LeaderLoop
<1>5. CASE Tick \/ UNCHANGED vars
  BY <1>5 DEF Tick, vars
<1>6. ASSUME NEW j \in Instance PROVE ~RedisFails(j) /\ ~ProcessEnds(j)
  BY NothingFails
<1>7. QED
  BY <1>1, <1>2, <1>3, <1>4, <1>5, <1>6 DEF Next

\* Before the first acquisition only SET can make a process lead.
LEMMA NobodyKept ==
    ASSUME TypeOK, FlagsAgree, NoFailure', [Next]_vars, NobodyYet
    PROVE  NobodyYet' \/ \E k \in Instance : LastAcquirer(k)'
<1> USE DEF NobodyYet, Leads, TypeOK
<1>1. ASSUME NEW j \in Instance, TryAcquire(j) PROVE LastAcquirer(j)'
  BY <1>1 DEF TryAcquire, LastAcquirer
<1>2. ASSUME NEW j \in Instance, Start(j) \/ RetryNow(j) \/ ReadHolder(j) PROVE NobodyYet'
  BY <1>2 DEF Start, RetryNow, ReadHolder
<1>3. ASSUME NEW j \in Instance PROVE ~Resume(j) /\ ~Renew(j) /\ ~Yield(j) /\ ~Extend(j)
  BY DEF Resume, Renew, Yield, Extend
<1>4. ASSUME NEW j \in Instance PROVE ~RedisFails(j) /\ ~ProcessEnds(j)
  BY NothingFails
<1>5. CASE Tick \/ UNCHANGED vars
  BY <1>5 DEF Tick, vars
<1>6. QED
  BY <1>1, <1>2, <1>3, <1>4, <1>5 DEF Next, LeaderLoop

LEMMA LeadStep ==
    ASSUME TypeOK, NoFailure => LeadInv, [Next]_vars, NoFailure'
    PROVE  LeadInv'
<1>1. LeadInv
  BY NothingFails
<1>2. QED
  BY <1>1, FlagsStep, LastKept, NobodyKept DEF LeadInv

\* As long as nothing fails the loop of task_service.py never leaves the jobs
\* without a process that runs them, or has acquired the key to do so.
THEOREM LeadershipKeptAlways == Spec => LeadershipKept
<1> DEFINE Kept == (\E i \in Instance : Leads(i)) /\ NoFailure'
                      => (\E i \in Instance : Leads(i))'
           Inv == TypeOK /\ (NoFailure => LeadInv)
<1>1. Init => Inv
  BY TypeInit, LeadInit
<1>2. Inv /\ [Next]_vars => Inv'
  BY TypeStep, LeadStep
<1>3. Inv /\ [Next]_vars => Kept
  <2> SUFFICES ASSUME TypeOK, NoFailure => LeadInv, [Next]_vars, NoFailure',
                      \E i \in Instance : Leads(i)
               PROVE  (\E i \in Instance : Leads(i))'
    OBVIOUS
  <2>1. LeadInv
    BY NothingFails
  <2>2. PICK i \in Instance : LastAcquirer(i)
    BY <2>1 DEF LeadInv, NobodyYet
  <2>3. PICK k \in Instance : LastAcquirer(k)'
    BY <2>1, <2>2, LastKept DEF LeadInv
  <2>4. QED
    BY <2>3 DEF LastAcquirer
<1>4. QED
  <2> HIDE DEF Inv, Kept
  <2>1. Spec => [][Kept]_vars
    BY <1>1, <1>2, <1>3, PTL DEF Spec
  <2>2. QED
    BY <2>1 DEF LeadershipKept, Kept

=============================================================================
