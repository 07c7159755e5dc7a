--------------------------- MODULE Dispatch_proofs ---------------------------
(***************************************************************************)
(* The two ways a request is sent on. Split, for every number of servers    *)
(* and items: bodies are an even partition, no item is processed by two     *)
(* servers, and good answers are merged in full. Picked, for every number   *)
(* of callers: the round-robin counter is bounded, and tickets are distinct. *)
(***************************************************************************)
EXTENDS ProxyDispatch, RoundRobin, FiniteSetTheorems, TLAPS

USE ProxyAssumption DEF ProxyAssumption

Server == 0..MaxServers - 1
Item == 0..MaxItems - 1

\* SplitRequest's bodies are disjoint, and together they are the content.
LEMMA BodiesPartition ==
    ASSUME NEW n \in Nat \ {0}, NEW m \in Nat
    PROVE  /\ \A j, k \in 0..n - 1 : j # k => Body(n, m, j) \cap Body(n, m, k) = {}
           /\ \A i \in 0..m - 1 : \E k \in 0..n - 1 : i \in Body(n, m, k)
<1>1. \A j, k \in 0..n - 1 : j # k => Body(n, m, j) \cap Body(n, m, k) = {}
  BY DEF Body
<1>2. ASSUME NEW i \in 0..m - 1 PROVE \E k \in 0..n - 1 : i \in Body(n, m, k)
  <2>1. i % n \in 0..n - 1
    OBVIOUS
  <2>2. i \in Body(n, m, i % n)
    BY DEF Body
  <2>3. QED
    BY <2>1, <2>2
<1>3. QED
  BY <1>1, <1>2

\* What was forwarded, processed and stored stays within the bodies dealt.
DealInv ==
    /\ canSplit \in BOOLEAN /\ servers \in Nat /\ items \in Nat
    /\ ~canSplit => servers = 1
    /\ worker \in [Server -> {"off", "send", "done"}]
    /\ \A k \in Server : worker[k] # "off" => k < servers
    /\ accepted \in [Server -> SUBSET Nat]
    /\ \A k \in Server : accepted[k] \subseteq Payload(k)
    /\ \A k \in Server : k >= servers => accepted[k] = {}
    /\ DOMAIN syncResp \subseteq Server
    /\ \A k \in DOMAIN syncResp : syncResp[k].results \subseteq accepted[k]

LEMMA DealStep == DealInv /\ [Next]_vars => DealInv'
<1> SUFFICES ASSUME DealInv, [Next]_vars PROVE DealInv'
    OBVIOUS
<1> USE DEF DealInv, Server, Payload
<1>1. CASE SplitRequest
  BY <1>1 DEF SplitRequest, Finish
<1>2. ASSUME NEW k \in Server, CopyAnswered(k) PROVE DealInv'
  BY <1>2 DEF CopyAnswered, Store, Body
<1>3. ASSUME NEW k \in Server, CopyUnavailable(k) PROVE DealInv'
  BY <1>3 DEF CopyUnavailable, vars
<1>4. ASSUME NEW k \in Server, CopyFailed(k) PROVE DealInv'
  <2>1. PICK done \in SUBSET Payload(k) : accepted' = [accepted EXCEPT ![k] = @ \cup done]
    BY <1>4 DEF CopyFailed
  <2>2. Payload(k) \subseteq Nat /\ k < servers
    BY <1>4 DEF CopyFailed, Body
  <2>3. accepted' \in [Server -> SUBSET Nat] /\ \A j \in Server : accepted[j] \subseteq accepted'[j]
    BY <2>1, <2>2
  <2>4. /\ \A j \in Server : accepted'[j] \subseteq Payload(j)
        /\ \A j \in Server : j >= servers => accepted'[j] = {}
    BY <2>1, <2>2
  <2>5. QED
    BY <1>4, <2>3, <2>4 DEF CopyFailed
<1>5. CASE WorkersWait
  BY <1>5 DEF WorkersWait
<1>6. CASE MergeRequest
  BY <1>6 DEF MergeRequest, ReturnRequest, MergeVisited, Finish
<1>7. CASE UNCHANGED vars
  BY <1>7 DEF vars
<1>8. QED
  BY <1>1, <1>2, <1>3, <1>4, <1>5, <1>6, <1>7 DEF Next, CopyRequest

LEMMA DealInvariance == Spec => []DealInv
<1>1. Init => DealInv
  BY DEF Init, DealInv, Server, Payload, Body, NoReply
<1>2. QED
  BY <1>1, DealStep, PTL DEF Spec

\* No item is processed by two servers, whatever they answer and however often
\* a body is sent again.
THEOREM ProcessedOnceAlways == Spec => []ProcessedOnce
<1>1. DealInv => ProcessedOnce
  <2> SUFFICES ASSUME DealInv, NEW j \in Server, NEW k \in Server, j # k
               PROVE  accepted[j] \cap accepted[k] = {}
      BY DEF ProcessedOnce, DealInv
  <2>1. CASE j < servers /\ k < servers /\ canSplit
    <3>1. servers \in Nat \ {0} /\ items \in Nat /\ j \in 0..servers - 1 /\ k \in 0..servers - 1
      BY <2>1 DEF DealInv, Server
    <3>2. Body(servers, items, j) \cap Body(servers, items, k) = {}
      BY <3>1, BodiesPartition
    <3>3. accepted[j] \subseteq Body(servers, items, j) /\ accepted[k] \subseteq Body(servers, items, k)
      BY <2>1 DEF DealInv, Payload
    <3>4. QED
      BY <3>2, <3>3
  <2>2. CASE ~(j < servers /\ k < servers)
    BY <2>2 DEF DealInv, Server
  <2>3. CASE ~canSplit
    BY <2>3 DEF DealInv, Server
  <2>4. QED
    BY <2>1, <2>2, <2>3
<1>2. QED
  BY <1>1, DealInvariance, PTL

\* An answer is stored once, by the worker that ends with it, and carries all its
\* server has processed.
AnswerInv ==
    /\ servers <= MaxServers
    /\ pc = "split" => \A k \in Server : worker[k] = "off"
    /\ \A k \in Server : worker[k] # "done" => k \notin DOMAIN syncResp /\ accepted[k] = {}
    /\ \A k \in DOMAIN syncResp : accepted[k] = syncResp[k].results
    /\ MergeComplete

\* The results of a set of answers are what was processed, if the others processed nothing.
LEMMA ResultsAreAccepted ==
    ASSUME DealInv, AnswerInv, \A k \in 0..servers - 1 : k \in DOMAIN syncResp
    PROVE  UNION {syncResp[k].results : k \in DOMAIN syncResp} = UNION {accepted[k] : k \in DOMAIN accepted}
<1>1. \A k \in DOMAIN accepted \ DOMAIN syncResp : accepted[k] = {}
  BY DEF DealInv, Server
<1>2. DOMAIN syncResp \subseteq DOMAIN accepted
  BY DEF DealInv
<1>3. QED
  BY <1>1, <1>2 DEF AnswerInv

LEMMA AnswerStep == DealInv /\ AnswerInv /\ [Next]_vars => AnswerInv'
<1> SUFFICES ASSUME DealInv, AnswerInv, [Next]_vars PROVE AnswerInv'
    OBVIOUS
<1>1. CASE SplitRequest
  <2>1. 0 \in Server /\ 0 \notin DOMAIN syncResp
    BY <1>1 DEF SplitRequest, AnswerInv, Server
  <2>2. MergeComplete'
    BY <1>1, <2>1 DEF SplitRequest, MergeComplete, DealInv
  <2>3. QED
    BY <1>1, <2>2 DEF SplitRequest, AnswerInv, DealInv, Server
<1>2. ASSUME NEW k \in Server, CopyAnswered(k) PROVE AnswerInv'
  <2>1. PICK a : Store(k, a) /\ accepted' = [accepted EXCEPT ![k] = @ \cup a.results]
    BY <1>2 DEF CopyAnswered
  <2>2. accepted[k] = {} /\ accepted' \in [Server -> SUBSET Nat] /\ accepted'[k] = a.results
    <3>1. accepted[k] = {}
      BY <1>2 DEF CopyAnswered, AnswerInv
    <3>2. accepted' \in [Server -> SUBSET Nat]
      BY <1>2, DealStep DEF DealInv
    <3>3. accepted'[k] = accepted[k] \cup a.results
      BY <2>1 DEF DealInv
    <3>4. QED
      BY <3>1, <3>2, <3>3
  <2>3. DOMAIN syncResp' = DOMAIN syncResp \cup {k} /\ syncResp'[k] = a
    BY <2>1 DEF Store
  <2>4. \A j \in Server : j # k =>
           /\ accepted'[j] = accepted[j] /\ worker'[j] = worker[j]
           /\ j \in DOMAIN syncResp => syncResp'[j] = syncResp[j]
    BY <1>2, <2>1 DEF CopyAnswered, Store, DealInv
  <2>5. worker'[k] = "done" /\ pc' = "run" /\ servers' = servers
    BY <1>2 DEF CopyAnswered, DealInv
  <2>6. QED
    BY <2>2, <2>3, <2>4, <2>5 DEF AnswerInv, DealInv, MergeComplete
<1>3. ASSUME NEW k \in Server, CopyUnavailable(k) PROVE AnswerInv'
  BY <1>3 DEF CopyUnavailable, vars, AnswerInv, MergeComplete, Good
<1>4. ASSUME NEW k \in Server, CopyFailed(k) PROVE AnswerInv'
  <2>1. \A j \in Server : j # k => accepted'[j] = accepted[j] /\ worker'[j] = worker[j]
    BY <1>4 DEF CopyFailed, DealInv
  <2>2. k \notin DOMAIN syncResp
    BY <1>4 DEF CopyFailed, AnswerInv
  <2>3. QED
    BY <1>4, <2>1, <2>2 DEF CopyFailed, AnswerInv, DealInv, MergeComplete
<1>5. CASE WorkersWait
  BY <1>5 DEF WorkersWait, AnswerInv, MergeComplete
<1>6. CASE MergeRequest
  <2>1. MergeComplete'
    <3> SUFFICES ASSUME canSplit, servers > 0,
                        \A k \in 0..servers - 1 : k \in DOMAIN syncResp /\ Good(k)
                 PROVE  /\ reply'.merged /\ reply'.ids = DOMAIN syncResp
                        /\ reply'.results = UNION {accepted[k] : k \in DOMAIN accepted}
      BY <1>6 DEF MergeRequest, MergeComplete, Good
    <3>1. \A k \in DOMAIN syncResp : Good(k)
      <4> SUFFICES ASSUME NEW k \in DOMAIN syncResp PROVE k \in 0..servers - 1
        OBVIOUS
      <4>1. k \in Server /\ worker[k] = "done"
        BY DEF DealInv, AnswerInv
      <4>2. QED
        BY <4>1 DEF DealInv, Server
    <3>2. \A k \in DOMAIN syncResp :
             /\ syncResp[k].status # 422 /\ syncResp[k].status # 500
             /\ ~(syncResp[k].status \in Ok /\ ~syncResp[k].json)
      BY <3>1 DEF Good, Ok
    <3> DEFINE all == UNION {syncResp[k].results : k \in DOMAIN syncResp}
    <3>3. \E status : Finish(status, all, DOMAIN syncResp, TRUE)
      <4>1. MergeVisited(DOMAIN syncResp)
        <5>1. \/ MergeVisited(DOMAIN syncResp)
              \/ \E k \in DOMAIN syncResp :
                    \/ syncResp[k].status = 422
                    \/ syncResp[k].status \in Ok /\ ~syncResp[k].json
                    \/ syncResp[k].status = 500
          BY <1>6 DEF MergeRequest, MergeVisited, Finish, ReturnRequest
        <5>2. QED
          BY <5>1, <3>2
      <4>2. QED
        BY <4>1, Zenon DEF MergeVisited
    <3>4. all = UNION {accepted[k] : k \in DOMAIN accepted}
      BY ResultsAreAccepted
    <3> HIDE DEF all
    <3>5. reply'.merged /\ reply'.ids = DOMAIN syncResp /\ reply'.results = all
      BY <3>3 DEF Finish
    <3>6. QED
      BY <3>4, <3>5
  <2>2. pc' = "done"
    BY <1>6 DEF MergeRequest, ReturnRequest, MergeVisited, Finish
  <2>3. QED
    BY <1>6, <2>1, <2>2 DEF MergeRequest, AnswerInv
<1>7. CASE UNCHANGED vars
  BY <1>7 DEF vars, AnswerInv, MergeComplete, Good
<1>8. QED
  BY <1>1, <1>2, <1>3, <1>4, <1>5, <1>6, <1>7 DEF Next, CopyRequest, DealInv

\* When every server gave a good answer the reply reports all that was processed and
\* the ids of all the requests.
THEOREM MergeCompleteAlways == Spec => []MergeComplete
<1>1. Init => AnswerInv
  BY DEF Init, AnswerInv, MergeComplete, Server
<1>2. AnswerInv => MergeComplete
  BY DEF AnswerInv
<1>3. QED
  BY <1>1, <1>2, AnswerStep, DealInvariance, PTL DEF Spec

\* A multiple of n that is nearer to 0 than n is 0.
LEMMA SmallMultiple ==
    ASSUME NEW n \in Nat \ {0}, NEW d \in Int, NEW e \in Int, n * d = e, -n < e, e < n
    PROVE  d = 0
<1>1. CASE d >= 1
  <2>1. n * d >= n
    BY <1>1
  <2>2. QED
    BY <2>1
<1>2. CASE d <= -1
  <2>1. n * d <= -n
    BY <1>2
  <2>2. QED
    BY <2>1
<1>3. QED
  BY <1>1, <1>2

\* Division with remainder: the quotient and the remainder are the only ones.
LEMMA Remainder ==
    ASSUME NEW n \in Nat \ {0}, NEW x \in Nat
    PROVE  /\ x \div n \in Nat /\ x % n \in 0..n - 1 /\ x = (n * (x \div n)) + (x % n)
           /\ \A p \in Nat, k \in 0..n - 1 : x = (n * p) + k => x % n = k
<1>1. x \div n \in Nat /\ x % n \in 0..n - 1 /\ x = (n * (x \div n)) + (x % n)
  OBVIOUS
<1>2. ASSUME NEW p \in Nat, NEW k \in 0..n - 1, x = (n * p) + k PROVE x % n = k
  <2> DEFINE q == x \div n
             r == x % n
  <2> HIDE DEF q, r
  <2>1. (n * p) + k = (n * q) + r /\ q \in Nat /\ r \in 0..n - 1
    BY <1>1, <1>2 DEF q, r
  <2>2. n * (p - q) = r - k
    BY <2>1
  <2>3. p - q = 0
    BY <2>1, <2>2, SmallMultiple
  <2>4. r = k
    BY <2>1, <2>3
  <2>5. QED
    BY <2>4 DEF r
<1>3. QED
  BY <1>1, <1>2

\* The first n items are the first of a body each.
LEMMA FirstRound ==
    ASSUME NEW n \in Nat \ {0}, NEW i \in 0..n - 1
    PROVE  i % n = i
<1>1. n * 0 = 0 /\ i \in Nat
  OBVIOUS
<1>2. i = (n * 0) + i
  BY <1>1
<1>3. QED
  BY <1>1, <1>2, Remainder

\* An item of one body and the item of another that was dealt a round before.
LEMMA RoundBefore ==
    ASSUME NEW n \in Nat \ {0}, NEW m \in Nat, NEW j \in 0..n - 1, NEW k \in 0..n - 1,
           NEW i \in Body(n, m, j), i >= n
    PROVE  (i - n) - j + k \in Body(n, m, k)
<1>1. i \in 0..m - 1 /\ i % n = j
  BY DEF Body
<1> DEFINE q == i \div n
<1>2. q \in Nat /\ i = (n * q) + j
  BY <1>1, Remainder
<1> HIDE DEF q
<1>3. q >= 1
  BY <1>1, <1>2
<1> DEFINE p == q - 1
           x == (n * p) + k
<1>4. p \in Nat /\ n * p \in Nat /\ n * p = (n * q) - n
  BY <1>2, <1>3
<1> HIDE DEF p
<1>5. x = (i - n) - j + k /\ x \in Nat /\ x < i
  BY <1>2, <1>4
<1>6. x % n = k
  BY <1>4, <1>5, Remainder
<1>7. QED
  BY <1>1, <1>5, <1>6 DEF Body

\* SplitRequest's bodies differ by one item at most.
LEMMA BodiesEven ==
    ASSUME NEW n \in Nat \ {0}, NEW m \in Nat, NEW j \in 0..n - 1, NEW k \in 0..n - 1
    PROVE  Cardinality(Body(n, m, j)) <= Cardinality(Body(n, m, k)) + 1
<1> DEFINE later == {i \in Body(n, m, j) : i >= n}
           f == [i \in later |-> (i - n) - j + k]
<1>1. IsFiniteSet(Body(n, m, j)) /\ IsFiniteSet(Body(n, m, k))
  <2>1. IsFiniteSet(0..m - 1)
    BY FS_Interval
  <2>2. QED
    BY <2>1, FS_Subset DEF Body
<1>2. f \in Injection(later, Body(n, m, k))
  <2>1. f \in [later -> Body(n, m, k)]
    BY RoundBefore
  <2>2. later \subseteq Nat
    BY DEF Body
  <2>3. \A a, b \in later : f[a] = f[b] => a = b
    BY <2>2
  <2>4. QED
    BY <2>1, <2>3 DEF Injection, IsInjective
<1>3. IsFiniteSet(later) /\ Cardinality(later) <= Cardinality(Body(n, m, k))
  BY <1>1, <1>2, FS_Injection, FS_Subset
<1>4. Body(n, m, j) \subseteq later \cup {j}
  <2> SUFFICES ASSUME NEW i \in Body(n, m, j), i < n PROVE i = j
    BY DEF Body
  <2>1. i \in 0..n - 1 /\ i % n = j
    BY DEF Body
  <2>2. i % n = i
    BY <2>1, FirstRound
  <2>3. QED
    BY <2>1, <2>2
<1> HIDE DEF later, f
<1>5. Cardinality(later \cup {j}) <= Cardinality(later) + 1 /\ IsFiniteSet(later \cup {j})
  <2>1. Cardinality(later) \in Nat
    BY <1>3, FS_CardinalityType
  <2>2. QED
    BY <1>3, <2>1, FS_AddElement
<1>6. Cardinality(Body(n, m, j)) <= Cardinality(later \cup {j})
  BY <1>4, <1>5, FS_Subset
<1>7. QED
  BY <1>1, <1>3, <1>5, <1>6, FS_CardinalityType

\* A request that is split has an item for every server.
SplitInv == pc = "run" /\ canSplit => servers \in Nat /\ items \in Nat /\ items >= servers /\ (servers > 0 \/ items = 0)

\* The bodies of a split request are a partition of its items, even and none of them empty.
THEOREM SplitIsPartitionAlways == Spec => []SplitIsPartition
<1>1. DealInv /\ SplitInv => SplitIsPartition
  <2> SUFFICES ASSUME DealInv, SplitInv, pc = "run", canSplit, servers \in Nat \ {0}
               PROVE  SplitIsPartition
    BY DEF SplitIsPartition, SplitInv, DealInv
  <2>1. items \in Nat /\ items >= servers /\ \A k \in 0..servers - 1 : Payload(k) = Body(servers, items, k)
    BY DEF SplitInv, Payload
  <2>2. ASSUME NEW k \in 0..servers - 1 PROVE Body(servers, items, k) # {}
    <3>1. k % servers = k
      BY FirstRound
    <3>2. k \in Body(servers, items, k)
      BY <2>1, <3>1 DEF Body
    <3>3. QED
      BY <3>2
  <2>3. ASSUME NEW i \in 0..items - 1 PROVE \E k \in 0..servers - 1 : i \in Payload(k)
    BY <2>1, BodiesPartition
  <2>4. ASSUME NEW j \in 0..servers - 1, NEW k \in 0..servers - 1, j # k
        PROVE  /\ Payload(j) \cap Payload(k) = {}
               /\ Cardinality(Payload(j)) <= Cardinality(Payload(k)) + 1
               /\ Payload(k) # {}
    <3>1. Payload(j) = Body(servers, items, j) /\ Payload(k) = Body(servers, items, k)
      BY <2>1
    <3>2. Body(servers, items, j) \cap Body(servers, items, k) = {}
      BY <2>1, <2>4, BodiesPartition
    <3>3. Cardinality(Body(servers, items, j)) <= Cardinality(Body(servers, items, k)) + 1
      BY <2>1, BodiesEven
    <3>4. QED
      BY <2>2, <3>1, <3>2, <3>3
  <2>5. QED
    BY <2>3, <2>4 DEF SplitIsPartition
<1>2. Init => SplitInv
  BY DEF Init, SplitInv
<1>3. DealInv /\ SplitInv /\ [Next]_vars => SplitInv'
  BY DEF DealInv, SplitInv, Next, vars, SplitRequest, CopyRequest, CopyAnswered, CopyUnavailable,
         CopyFailed, WorkersWait, MergeRequest, ReturnRequest, MergeVisited, Finish
<1>4. QED
  BY <1>1, <1>2, <1>3, DealInvariance, PTL DEF Spec

-----------------------------------------------------------------------------
USE RoundRobinAssumption DEF RoundRobinAssumption

\* Every variable keeps its type.
THEOREM CallersTypeCorrect == RRSpec => []RRTypeOK
<1>1. RRInit => RRTypeOK
  BY DEF RRInit, RRTypeOK
<1>2. RRTypeOK /\ [RRNext]_rrVars => RRTypeOK'
  BY DEF RRTypeOK, RRNext, rrVars, Draw, Reset, Pick
<1>3. QED
  BY <1>1, <1>2, PTL DEF RRSpec

LEMMA PendingFinite == IsFiniteSet(Pending) /\ Cardinality(Pending) \in Nat
  BY FS_Subset, FS_CardinalityType DEF Pending

\* A caller that goes past the limit is pending in the same step, and a reset
\* brings the counter to 0: the counter exceeds Limit by at most the callers
\* that are about to reset it.
THEOREM IndexIsBounded == RRSpec => []IndexBounded
<1>1. RRInit => IndexBounded
  BY PendingFinite DEF RRInit, IndexBounded
<1>2. RRTypeOK /\ RRTypeOK' /\ IndexBounded /\ [RRNext]_rrVars => IndexBounded'
  <2> SUFFICES ASSUME RRTypeOK, RRTypeOK', IndexBounded, [RRNext]_rrVars
               PROVE  IndexBounded'
      OBVIOUS
  <2>0. /\ IsFiniteSet(Pending) /\ Cardinality(Pending) \in Nat
        /\ IsFiniteSet(Pending') /\ Cardinality(Pending)' \in Nat
    <3>1. Pending' \subseteq Caller
      BY DEF Pending
    <3>2. QED
      BY <3>1, PendingFinite, FS_Subset, FS_CardinalityType
  <2>1. ASSUME NEW t \in Caller, Draw(t) PROVE IndexBounded'
    <3>1. CASE index + 1 > Limit
      <4>1. Pending' = Pending \cup {t} /\ t \notin Pending
        BY <2>1, <3>1 DEF Draw, Pending, RRTypeOK
      <4>2. Cardinality(Pending)' = Cardinality(Pending) + 1
        BY <2>0, <4>1, FS_AddElement
      <4>3. QED
        BY <2>0, <2>1, <4>2 DEF Draw, IndexBounded, RRTypeOK
    <3>2. CASE ~(index + 1 > Limit)
      BY <2>0, <2>1, <3>2 DEF Draw, IndexBounded, RRTypeOK
    <3>3. QED
      BY <3>1, <3>2
  <2>2. ASSUME NEW t \in Caller, Reset(t) PROVE IndexBounded'
    BY <2>0, <2>2 DEF Reset, IndexBounded
  <2>3. ASSUME NEW t \in Caller, Pick(t) PROVE IndexBounded'
    <3>1. Pending' = Pending
      BY <2>3 DEF Pick, Pending, RRTypeOK
    <3>2. QED
      BY <2>3, <3>1 DEF Pick, IndexBounded
  <2>4. CASE UNCHANGED rrVars
    BY <2>4 DEF rrVars, IndexBounded, Pending
  <2>5. QED
    BY <2>1, <2>2, <2>3, <2>4 DEF RRNext
<1>3. QED
  BY <1>1, <1>2, CallersTypeCorrect, PTL DEF RRSpec

\* Tickets drawn since the last reset are numbered from 1 up to the counter.
TicketInv ==
    /\ \A t \in epoch : at[t] \in {"pick", "reset"} /\ ticket[t] \in 1..index
    /\ TicketsDistinct

\* Callers between two resets never share a ticket.
THEOREM TicketsAreDistinct == RRSpec => []TicketsDistinct
<1>1. RRInit => TicketInv
  BY DEF RRInit, TicketInv, TicketsDistinct
<1>2. RRTypeOK /\ TicketInv /\ [RRNext]_rrVars => TicketInv'
  <2> SUFFICES ASSUME RRTypeOK, TicketInv, [RRNext]_rrVars PROVE TicketInv'
      OBVIOUS
  <2> USE DEF RRTypeOK, TicketInv, TicketsDistinct
  <2>1. ASSUME NEW t \in Caller, Draw(t) PROVE TicketInv'
    BY <2>1 DEF Draw
  <2>2. ASSUME NEW t \in Caller, Reset(t) PROVE TicketInv'
    BY <2>2 DEF Reset
  <2>3. ASSUME NEW t \in Caller, Pick(t) PROVE TicketInv'
    BY <2>3 DEF Pick
  <2>4. CASE UNCHANGED rrVars
    BY <2>4 DEF rrVars
  <2>5. QED
    BY <2>1, <2>2, <2>3, <2>4 DEF RRNext
<1>3. TicketInv => TicketsDistinct
  BY DEF TicketInv
<1>4. QED
  BY <1>1, <1>2, <1>3, CallersTypeCorrect, PTL DEF RRSpec
=============================================================================
