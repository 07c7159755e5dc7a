----------------------- MODULE EmailTracking_proofs -----------------------
(***************************************************************************)
(* Proofs about EmailTracking, for every number of emails, consumers, visits *)
(* and failures, and for every size of a batch: counters, event rows and     *)
(* statuses agree, whatever is retried, undone or overwritten.               *)
(***************************************************************************)
EXTENDS EmailTracking, FiniteSetTheorems, WellFoundedInduction, TLAPS

\* The rows a handler has found are rows of its batch, and none before it looks.
FoundInBatch ==
    \A c \in Consumer :
       /\ pc[c] \in {"idle", "query"} => found[c] = {}
       /\ \A m \in found[c] : \E i \in DOMAIN batch[c] : batch[c][i].email = m

IInv == /\ TypeOK /\ FoundInBatch /\ StatusIsRecorded
        /\ CountersMatchEvents /\ DeliveredWithin

-----------------------------------------------------------------------------
\* A set of naturals has a least element.
LEMMA Minimum == ASSUME NEW T \in SUBSET Nat, T # {}
                 PROVE  \E x \in T : \A y \in T : x <= y
<1> DEFINE R == {ss \in Nat \X Nat : ss[1] < ss[2]}
<1>1. IsWellFoundedOn(R, Nat)
  BY NatLessThanWellFounded DEF OpToRel
<1> HIDE DEF R
<1>2. PICK x \in T : \A y \in T : ~(<<y, x>> \in R)
  BY <1>1, WFMin
<1>3. \A y \in T : x <= y
  <2> SUFFICES ASSUME NEW y \in T PROVE x <= y
    OBVIOUS
  <2>1. x \in Nat /\ y \in Nat
    OBVIOUS
  <2>2. ~(y < x)
    BY <1>2, <2>1 DEF R
  <2> QED
    BY <2>1, <2>2
<1> QED
  BY <1>3

\* The status the loop ends with is that of one of the email's events.
LEMMA LastKindIsOne ==
    ASSUME NEW b \in Seq(Event), NEW m, \E i \in DOMAIN b : b[i].email = m
    PROVE  LastKind(b, m) \in KindsOf(b, m)
<1> DEFINE P(i) == i \in DOMAIN b /\ b[i].email = m
           T == {n \in Nat : \E i \in DOMAIN b : P(i) /\ n = Len(b) - i}
<1>1. DOMAIN b = 1..Len(b) /\ Len(b) \in Nat
  OBVIOUS
<1>2. T # {} /\ T \in SUBSET Nat
  <2>1. PICK i \in DOMAIN b : P(i)
    OBVIOUS
  <2>2. Len(b) - i \in Nat
    BY <1>1
  <2> QED
    BY <2>1, <2>2
<1>3. PICK n \in T : \A k \in T : n <= k
  BY <1>2, Minimum
<1>4. PICK i \in DOMAIN b : P(i) /\ n = Len(b) - i
  BY <1>3
<1>5. \A j \in DOMAIN b : b[j].email = m => j <= i
  <2> SUFFICES ASSUME NEW j \in DOMAIN b, b[j].email = m PROVE j <= i
    OBVIOUS
  <2>1. Len(b) - j \in Nat /\ Len(b) - j \in T
    BY <1>1
  <2> QED
    BY <2>1, <1>1, <1>3, <1>4
<1> DEFINE last == CHOOSE k \in DOMAIN b :
                       b[k].email = m /\ \A j \in DOMAIN b : b[j].email = m => j <= k
<1>6. last \in DOMAIN b /\ b[last].email = m
  BY <1>4, <1>5
<1> QED
  BY <1>6 DEF LastKind, KindsOf

\* The emails at some positions are no more than the positions.
LEMMA EmailsAt ==
    ASSUME NEW b \in Seq(Event), NEW S \in SUBSET DOMAIN b
    PROVE  /\ IsFiniteSet(S) /\ Cardinality(S) \in Nat
           /\ IsFiniteSet({b[i].email : i \in S})
           /\ Cardinality({b[i].email : i \in S}) \in Nat
           /\ Cardinality({b[i].email : i \in S}) <= Cardinality(S)
<1>1. DOMAIN b = 1..Len(b) /\ Len(b) \in Nat
  OBVIOUS
<1>2. IsFiniteSet(S)
  <2>1. IsFiniteSet(1..Len(b))
    BY <1>1, FS_Interval
  <2> QED
    BY <1>1, <2>1, FS_Subset
<1> DEFINE T == {b[i].email : i \in S}
           f == [i \in S |-> b[i].email]
<1>3. f \in Surjection(S, T)
  BY DEF Surjection
<1>4. IsFiniteSet(T) /\ Cardinality(T) <= Cardinality(S)
  BY <1>2, <1>3, FS_Surjection
<1> QED
  BY <1>2, <1>4, FS_CardinalityType

\* What a batch adds to the counters against the rows it inserts.
LEMMA DeltaBounds ==
    ASSUME NEW b \in Seq(Event), NEW k \in Kind
    PROVE  /\ Cardinality(Positions(b, k)) \in Nat /\ Delta(b, k) \in Nat
           /\ k \notin {"BLOCKED", "DELIVERED"} => Delta(b, k) = Cardinality(Positions(b, k))
           /\ k = "DELIVERED" => Delta(b, k) <= Cardinality(Positions(b, k))
<1>1. Positions(b, k) \in SUBSET DOMAIN b
  BY DEF Positions
<1>2. /\ Cardinality(Positions(b, k)) \in Nat
      /\ Cardinality({b[i].email : i \in Positions(b, k)}) \in Nat
      /\ Cardinality({b[i].email : i \in Positions(b, k)}) <= Cardinality(Positions(b, k))
  BY <1>1, EmailsAt
<1> QED
  BY <1>2 DEF Delta

\* The union of two finite sets is no larger than both together.
LEMMA UnionBound ==
    ASSUME NEW S, NEW T, IsFiniteSet(S), IsFiniteSet(T)
    PROVE  Cardinality(S \cup T) <= Cardinality(S) + Cardinality(T)
<1>1. IsFiniteSet(S \cap T)
  BY FS_Subset
<1>2. /\ Cardinality(S) \in Nat /\ Cardinality(T) \in Nat /\ Cardinality(S \cap T) \in Nat
  BY <1>1, FS_CardinalityType
<1>3. Cardinality(S \cup T) = Cardinality(S) + Cardinality(T) - Cardinality(S \cap T)
  BY FS_Union
<1> QED
  BY <1>2, <1>3

\* What the job adds, to the counters and to the rows.
LEMMA CronCountBounds ==
    ASSUME TypeOK
    PROVE  /\ \A k \in Kind : CronCount(k) \in Nat
           /\ IsFiniteSet(cron.sent) /\ CronCount("DELIVERED") = Cardinality(cron.sent)
<1>1. IsFiniteSet(cron.sent) /\ IsFiniteSet(cron.received)
  <2>1. cron.sent \in SUBSET Email /\ cron.received \in SUBSET Email
    BY DEF TypeOK
  <2> QED
    BY <2>1, FS_Subset, EmailTrackingAssumption DEF EmailTrackingAssumption
<1>2. Cardinality(cron.sent) \in Nat /\ Cardinality(cron.received) \in Nat
  BY <1>1, FS_CardinalityType
<1> QED
  BY <1>1, <1>2 DEF CronCount

-----------------------------------------------------------------------------
LEMMA InitInv == Init => IInv
<1> SUFFICES ASSUME Init PROVE IInv
  OBVIOUS
<1> USE DEF Init
<1>1. TypeOK
  BY DEF TypeOK, CronIdle, Kind
<1>2. FoundInBatch /\ StatusIsRecorded /\ CountersMatchEvents
  BY DEF FoundInBatch, StatusIsRecorded, HasRow, CountersMatchEvents, Kind
<1>3. DeliveredWithin
  <2>1. {m \in Email : "DELIVERED" \in recorded[m]} = {}
    OBVIOUS
  <2>2. Cardinality({m \in Email : "DELIVERED" \in recorded[m]}) = 0
    BY <2>1, FS_EmptySet
  <2>3. analytics["DELIVERED"] = 0 /\ rows["DELIVERED"] = 0
    BY DEF Kind
  <2> QED
    BY <2>2, <2>3 DEF DeliveredWithin
<1> QED
  BY <1>1, <1>2, <1>3 DEF IInv

\* A commit leaves a row its status or gives it that of an event of the batch.
LEMMA CommitStatus ==
    ASSUME TypeOK, FoundInBatch, NEW c \in Consumer, Commit(c), NEW m \in Email
    PROVE  /\ row'[m] = row[m] \/ row'[m] \in KindsOf(batch[c], m)
           /\ KindsOf(batch[c], m) \subseteq Kind
<1>1. batch[c] \in Seq(Event)
  BY DEF TypeOK
<1>2. KindsOf(batch[c], m) \subseteq Kind
  <2> SUFFICES ASSUME NEW i \in DOMAIN batch[c] PROVE batch[c][i].kind \in Kind
    BY DEF KindsOf
  <2>1. batch[c][i] \in Event
    BY <1>1
  <2> QED
    BY <2>1 DEF Event
<1>3. row'[m] = IF m \in found[c] \cap HasRow THEN LastKind(batch[c], m) ELSE row[m]
  BY DEF Commit
<1>4. m \in found[c] => LastKind(batch[c], m) \in KindsOf(batch[c], m)
  BY <1>1, LastKindIsOne DEF FoundInBatch
<1> QED
  BY <1>2, <1>3, <1>4

LEMMA TypeStep == TypeOK /\ FoundInBatch /\ [Next]_vars => TypeOK'
<1> SUFFICES ASSUME TypeOK, FoundInBatch, [Next]_vars PROVE TypeOK'
  OBVIOUS
<1> USE DEF TypeOK, source, consumer, tables, Goto
<1>1. ASSUME NEW m \in Email, Request(m) PROVE TypeOK'
  BY <1>1 DEF Request
<1>1b. ASSUME NEW m \in Email, Announce(m) PROVE TypeOK'
  BY <1>1b DEF Announce
<1>1a. ASSUME NEW m \in Email, Tell(m) PROVE TypeOK'
  <2>1. Entry(m, "RECEIVED") \in Event
    BY DEF Entry, Event, Kind
  <2>2. stream' \in Seq(Event) /\ told' \in [Email -> BOOLEAN]
    BY <1>1a, <2>1 DEF Tell
  <2> QED
    BY <1>1a, <2>2 DEF Tell
<1>2. ASSUME NEW m \in Email, Send(m) PROVE TypeOK'
  <2>1. PICK k \in Outcomes :
           /\ sent' = [sent EXCEPT ![m] = IF k = "SENT" THEN "sent" ELSE "refused"]
           /\ stream' = Append(stream, Entry(m, k))
    BY <1>2 DEF Send
  <2>2. Entry(m, k) \in Event
    BY <2>1, EmailTrackingAssumption DEF EmailTrackingAssumption, Entry, Event, Kind
  <2> QED
    BY <1>2, <2>1, <2>2 DEF Send
<1>3. ASSUME NEW m \in Email, Visit(m) PROVE TypeOK'
  <2>1. <<Entry(m, "OPENED"), Entry(m, "DELIVERED")>> \in Seq(Event)
    BY DEF Entry, Event, Kind
  <2> QED
    BY <1>3, <2>1 DEF Visit
<1>4. ASSUME NEW m \in Email, CreateRow(m) PROVE TypeOK'
  BY <1>4 DEF CreateRow, Kind
<1>4a. ASSUME NEW m \in Email, CreateFails(m) PROVE TypeOK'
  BY <1>4a DEF CreateFails, Fault
<1>4b. ASSUME NEW m \in Email, Expire(m) PROVE TypeOK'
  BY <1>4b DEF Expire, Fault
<1>5. ASSUME NEW c \in Consumer, Read(c) PROVE TypeOK'
  <2>1. PICK n \in 1..Count :
           /\ n <= Len(stream)
           /\ batch' = [batch EXCEPT ![c] = SubSeq(stream, 1, n)]
           /\ stream' = SubSeq(stream, n + 1, Len(stream))
    BY <1>5 DEF Read
  <2>2. n \in Nat /\ n >= 1
    BY EmailTrackingAssumption DEF EmailTrackingAssumption
  <2>3. SubSeq(stream, 1, n) \in Seq(Event) /\ SubSeq(stream, n + 1, Len(stream)) \in Seq(Event)
    BY <2>1, <2>2
  <2> QED
    BY <1>5, <2>1, <2>3 DEF Read
<1>6. ASSUME NEW c \in Consumer, Query(c) PROVE TypeOK'
  BY <1>6 DEF Query, HasRow
<1>7. ASSUME NEW c \in Consumer, Upsert(c) \/ Update(c) PROVE TypeOK'
  BY <1>7 DEF Upsert, Update
<1>8. ASSUME NEW c \in Consumer, Commit(c) PROVE TypeOK'
  <2>1. row' \in [Email -> Kind \cup {"none", "announced", "gone"}]
    <3>1. \A m \in Email : row'[m] \in Kind \cup {"none", "announced", "gone"}
      BY <1>8, CommitStatus
    <3>2. row' = [m \in Email |-> row'[m]]
      BY <1>8 DEF Commit
    <3> QED
      BY <3>1, <3>2
  <2>2. recorded' \in [Email -> SUBSET Kind]
    BY <1>8, CommitStatus DEF Commit
  <2>3. rows' \in [Kind -> Nat] /\ analytics' \in [Kind -> Nat]
    BY <1>8, DeltaBounds DEF Commit
  <2> QED
    BY <1>8, <2>1, <2>2, <2>3 DEF Commit, Done
<1>9. ASSUME NEW c \in Consumer, Orphaned(c) PROVE TypeOK'
  <2>1. tries[c] + 1 \in Nat
    OBVIOUS
  <2>2. CASE Done(c)
    BY <1>9, <2>2 DEF Orphaned, Done
  <2>3. CASE Goto(c, "begin") /\ tries' = [tries EXCEPT ![c] = @ + 1] /\ UNCHANGED <<batch, found>>
    BY <1>9, <2>1, <2>3 DEF Orphaned
  <2> QED
    BY <1>9, <2>2, <2>3 DEF Orphaned
<1>10. ASSUME NEW c \in Consumer, Fail(c) PROVE TypeOK'
  BY <1>10 DEF Fail, Fault, Done
<1>11. ASSUME NEW c \in Consumer, Deadlocked(c) PROVE TypeOK'
  <2>1. CASE Done(c) /\ UNCHANGED cron
    BY <1>11, <2>1 DEF Deadlocked, Done
  <2>2. CASE cron' = CronIdle /\ UNCHANGED consumer
    BY <1>11, <2>2 DEF Deadlocked, CronIdle
  <2> QED
    BY <1>11, <2>1, <2>2 DEF Deadlocked
<1>12. ASSUME NEW old \in SUBSET Email, CronSent(old) PROVE TypeOK'
  <2>1. {m \in old : row[m] = "SENT"} \in SUBSET Email
    OBVIOUS
  <2> QED
    BY <1>12, <2>1 DEF CronSent
<1>12a. CASE CronReceived
  <2>1. {m \in cron.old : row[m] = "RECEIVED"} \in SUBSET Email
    OBVIOUS
  <2> QED
    BY <1>12a, <2>1 DEF CronReceived
<1>13. CASE CronUpdate
  BY <1>13 DEF CronUpdate
<1>13a. CASE CronOrphaned
  BY <1>13a DEF CronOrphaned, CronIdle
<1>14. CASE CronCommit
  <2>1. \A k \in Kind : CronCount(k) \in Nat
    BY CronCountBounds
  <2>2. row' \in [Email -> Kind \cup {"none", "announced", "gone"}]
    BY <1>14 DEF CronCommit, Kind
  <2>3. recorded' \in [Email -> SUBSET Kind]
    BY <1>14 DEF CronCommit, CronKinds, Kind
  <2>4. rows' \in [Kind -> Nat] /\ analytics' \in [Kind -> Nat]
    BY <1>14, <2>1 DEF CronCommit
  <2> QED
    BY <1>14, <2>2, <2>3, <2>4 DEF CronCommit, CronIdle
<1>15. CASE UNCHANGED vars
  BY <1>15 DEF vars
<1> QED
  BY <1>1, <1>1a, <1>1b, <1>2, <1>3, <1>4, <1>4a, <1>4b, <1>5, <1>6, <1>7, <1>8, <1>9, <1>10, <1>11, <1>12, <1>12a,
     <1>13, <1>13a, <1>14, <1>15 DEF Next, Consume, Cron

-----------------------------------------------------------------------------
LEMMA FoundStep == TypeOK /\ FoundInBatch /\ [Next]_vars => FoundInBatch'
<1> SUFFICES ASSUME TypeOK, FoundInBatch, [Next]_vars PROVE FoundInBatch'
  OBVIOUS
<1> USE DEF TypeOK, FoundInBatch
<1>1. ASSUME UNCHANGED <<pc, batch, found>> PROVE FoundInBatch'
  BY <1>1
<1>2. ASSUME NEW c \in Consumer, Done(c) PROVE FoundInBatch'
  BY <1>2 DEF Done
<1>3. ASSUME NEW c \in Consumer, Query(c) PROVE FoundInBatch'
  BY <1>3 DEF Query, Goto
<1>4. ASSUME NEW c \in Consumer, Read(c) PROVE FoundInBatch'
  <2>1. found[c] = {} /\ found' = found
    BY <1>4 DEF Read
  <2>2. \A d \in Consumer \ {c} : pc'[d] = pc[d] /\ batch'[d] = batch[d]
    BY <1>4 DEF Read, Goto
  <2> SUFFICES ASSUME NEW d \in Consumer
               PROVE  /\ pc'[d] \in {"idle", "query"} => found'[d] = {}
                      /\ \A m \in found'[d] : \E i \in DOMAIN batch'[d] : batch'[d][i].email = m
    OBVIOUS
  <2>3. CASE d = c
    BY <2>1, <2>3
  <2>4. CASE d # c
    <3>1. /\ pc[d] \in {"idle", "query"} => found[d] = {}
          /\ \A m \in found[d] : \E i \in DOMAIN batch[d] : batch[d][i].email = m
      OBVIOUS
    <3>2. pc'[d] = pc[d] /\ batch'[d] = batch[d] /\ found'[d] = found[d]
      BY <2>1, <2>2, <2>4
    <3> HIDE DEF TypeOK, FoundInBatch
    <3> QED
      BY <3>1, <3>2
  <2> QED
    BY <2>3, <2>4
<1>4a. ASSUME NEW c \in Consumer, NEW l \in {"begin", "update", "insert"}, Goto(c, l),
              UNCHANGED <<batch, found>>
       PROVE  FoundInBatch'
  <2> SUFFICES ASSUME NEW d \in Consumer
               PROVE  pc'[d] \in {"idle", "query"} => found'[d] = {}
    BY <1>4a
  <2>1. pc'[d] \in {"idle", "query"} => pc[d] = pc'[d]
    BY <1>4a DEF Goto
  <2> QED
    BY <1>4a, <2>1
<1>5. ASSUME NEW c \in Consumer, Upsert(c) \/ Update(c) PROVE FoundInBatch'
  BY <1>4a, <1>5 DEF Upsert, Update
<1>6. ASSUME NEW c \in Consumer, Orphaned(c) PROVE FoundInBatch'
  <2>1. Done(c) \/ (Goto(c, "begin") /\ UNCHANGED <<batch, found>>)
    BY <1>6 DEF Orphaned
  <2> QED
    BY <1>2, <1>4a, <2>1
<1>7. ASSUME NEW c \in Consumer, Commit(c) \/ Fail(c) \/ Deadlocked(c) PROVE FoundInBatch'
  <2>1. Done(c) \/ UNCHANGED consumer
    BY <1>7 DEF Commit, Fail, Deadlocked
  <2> QED
    BY <1>1, <1>2, <2>1 DEF consumer
<1>8. ASSUME NEW m \in Email,
             \/ Request(m) \/ Announce(m) \/ Tell(m) \/ Send(m) \/ Visit(m)
             \/ CreateRow(m) \/ CreateFails(m) \/ Expire(m)
      PROVE  UNCHANGED consumer
  BY <1>8 DEF Request, Announce, Tell, Send, Visit, CreateRow, CreateFails, Expire
<1>9. ASSUME NEW old \in SUBSET Email, CronSent(old) PROVE UNCHANGED consumer
  BY <1>9 DEF CronSent
<1>10. ASSUME Cron PROVE UNCHANGED consumer
  BY <1>10 DEF Cron, CronReceived, CronUpdate, CronCommit, CronOrphaned
<1>11. ASSUME UNCHANGED vars PROVE UNCHANGED consumer
  BY <1>11 DEF vars
<1>12. ASSUME UNCHANGED consumer PROVE FoundInBatch'
  BY <1>1, <1>12 DEF consumer
<1> QED
  BY <1>3, <1>4, <1>5, <1>6, <1>7, <1>8, <1>9, <1>10, <1>11, <1>12 DEF Next, Consume

-----------------------------------------------------------------------------
\* A step that commits nothing leaves the tables alone.
LEMMA TablesStep ==
    ASSUME [Next]_vars
    PROVE  \/ UNCHANGED tables
           \/ \E c \in Consumer : Commit(c)
           \/ CronCommit
<1>1. ASSUME NEW m \in Email,
             \/ Request(m) \/ Announce(m) \/ Tell(m) \/ Send(m) \/ Visit(m)
             \/ CreateRow(m) \/ CreateFails(m) \/ Expire(m)
      PROVE  UNCHANGED tables
  BY <1>1 DEF Request, Announce, Tell, Send, Visit, CreateRow, CreateFails, Expire
<1>2. ASSUME NEW c \in Consumer, Read(c) \/ Query(c) \/ Upsert(c) \/ Update(c)
      PROVE  UNCHANGED tables
  BY <1>2 DEF Read, Query, Upsert, Update
<1>3. ASSUME NEW c \in Consumer, Orphaned(c) \/ Fail(c) \/ Deadlocked(c) PROVE UNCHANGED tables
  BY <1>3 DEF Orphaned, Fail, Deadlocked
<1>4. ASSUME NEW old \in SUBSET Email, CronSent(old) PROVE UNCHANGED tables
  BY <1>4 DEF CronSent
<1>5. ASSUME CronReceived \/ CronUpdate \/ CronOrphaned PROVE UNCHANGED tables
  BY <1>5 DEF CronReceived, CronUpdate, CronOrphaned
<1>6. ASSUME UNCHANGED vars PROVE UNCHANGED tables
  BY <1>6 DEF vars, tables
<1> QED
  BY <1>1, <1>2, <1>3, <1>4, <1>5, <1>6 DEF Next, Consume, Cron

LEMMA CountersStep == TypeOK /\ CountersMatchEvents /\ [Next]_vars => CountersMatchEvents'
<1> SUFFICES ASSUME TypeOK, CountersMatchEvents, [Next]_vars PROVE CountersMatchEvents'
  OBVIOUS
<1>1. CASE UNCHANGED tables
  BY <1>1 DEF tables, CountersMatchEvents
<1>2. ASSUME NEW c \in Consumer, Commit(c) PROVE CountersMatchEvents'
  <2> SUFFICES ASSUME NEW k \in {"RECEIVED", "SENT", "FAILED"}
               PROVE  analytics'[k] = rows'[k]
    BY DEF CountersMatchEvents
  <2>1. batch[c] \in Seq(Event) /\ k \in Kind
    BY DEF TypeOK, Kind
  <2>2. Delta(batch[c], k) = Cardinality(Positions(batch[c], k))
    BY <2>1, DeltaBounds
  <2>3. analytics[k] = rows[k]
    BY DEF CountersMatchEvents
  <2>4. /\ analytics'[k] = analytics[k] + Delta(batch[c], k)
        /\ rows'[k] = rows[k] + Cardinality(Positions(batch[c], k))
    BY <1>2, <2>1 DEF Commit
  <2> QED
    BY <2>2, <2>3, <2>4
<1>3. CASE CronCommit
  BY <1>3 DEF CronCommit, CountersMatchEvents, Kind
<1> QED
  BY <1>1, <1>2, <1>3, TablesStep

\* A transaction that records deliveries for D more emails, counts at least that many
\* and inserts at least as many rows as it counts.
LEMMA DeliveredAdds ==
    ASSUME TypeOK, DeliveredWithin, NEW D \in SUBSET Email, NEW a \in Nat, NEW r \in Nat,
           {m \in Email : "DELIVERED" \in recorded'[m]}
             = {m \in Email : "DELIVERED" \in recorded[m]} \cup D,
           Cardinality(D) <= a, a <= r,
           analytics'["DELIVERED"] = analytics["DELIVERED"] + a,
           rows'["DELIVERED"] = rows["DELIVERED"] + r
    PROVE  DeliveredWithin'
<1> DEFINE S == {m \in Email : "DELIVERED" \in recorded[m]}
<1>1. IsFiniteSet(S) /\ IsFiniteSet(D) /\ IsFiniteSet(S \cup D)
  BY EmailTrackingAssumption, FS_Subset DEF EmailTrackingAssumption
<1>2. Cardinality(S) \in Nat /\ Cardinality(D) \in Nat /\ Cardinality(S \cup D) \in Nat
  BY <1>1, FS_CardinalityType
<1>3. Cardinality(S \cup D) <= Cardinality(S) + Cardinality(D)
  BY <1>1, UnionBound
<1>4. analytics["DELIVERED"] \in Nat /\ rows["DELIVERED"] \in Nat
  BY DEF TypeOK, Kind
<1>5. Cardinality(S) <= analytics["DELIVERED"] /\ analytics["DELIVERED"] <= rows["DELIVERED"]
  BY DEF DeliveredWithin
<1>6. /\ Cardinality(S \cup D) <= analytics'["DELIVERED"]
      /\ analytics'["DELIVERED"] <= rows'["DELIVERED"]
  <2> HIDE DEF S
  <2> QED
    BY <1>2, <1>3, <1>4, <1>5
<1> QED
  BY <1>6 DEF DeliveredWithin

LEMMA DeliveredStep == TypeOK /\ DeliveredWithin /\ [Next]_vars => DeliveredWithin'
<1> SUFFICES ASSUME TypeOK, DeliveredWithin, [Next]_vars PROVE DeliveredWithin'
  OBVIOUS
<1>1. CASE UNCHANGED tables
  BY <1>1 DEF tables, DeliveredWithin
<1>2. ASSUME NEW c \in Consumer, Commit(c) PROVE DeliveredWithin'
  <2> DEFINE b == batch[c]
             P == Positions(b, "DELIVERED")
             D == {b[i].email : i \in P}
  <2>1. b \in Seq(Event) /\ P \in SUBSET DOMAIN b
    BY DEF TypeOK, Positions
  <2>2. D \in SUBSET Email
    <3> SUFFICES ASSUME NEW i \in P PROVE b[i].email \in Email
      OBVIOUS
    <3>1. b[i] \in Event
      BY <2>1
    <3> QED
      BY <3>1 DEF Event
  <2>3. /\ Cardinality(D) \in Nat /\ Cardinality(P) \in Nat
        /\ Cardinality(D) <= Cardinality(P)
    BY <2>1, EmailsAt
  <2>4. "DELIVERED" \in Kind /\ Delta(b, "DELIVERED") = Cardinality(D)
    BY DEF Delta, Kind
  <2>5. /\ analytics'["DELIVERED"] = analytics["DELIVERED"] + Cardinality(D)
        /\ rows'["DELIVERED"] = rows["DELIVERED"] + Cardinality(P)
    BY <1>2, <2>4 DEF Commit
  <2>6. \A m \in Email : "DELIVERED" \in KindsOf(b, m) <=> m \in D
    BY DEF KindsOf, Positions
  <2>7. {m \in Email : "DELIVERED" \in recorded'[m]}
          = {m \in Email : "DELIVERED" \in recorded[m]} \cup D
    <3>1. \A m \in Email : recorded'[m] = recorded[m] \cup KindsOf(b, m)
      BY <1>2 DEF Commit
    <3> HIDE DEF b, D
    <3> QED
      BY <2>2, <2>6, <3>1
  <2> HIDE DEF b, P, D
  <2> QED
    BY <2>2, <2>3, <2>5, <2>7, DeliveredAdds
<1>3. CASE CronCommit
  <2>1. cron.sent \in SUBSET Email /\ "DELIVERED" \in Kind
    BY DEF TypeOK, Kind
  <2>2. /\ Cardinality(cron.sent) \in Nat
        /\ CronCount("DELIVERED") = Cardinality(cron.sent)
    BY CronCountBounds, FS_CardinalityType
  <2>3. /\ analytics'["DELIVERED"] = analytics["DELIVERED"] + Cardinality(cron.sent)
        /\ rows'["DELIVERED"] = rows["DELIVERED"] + Cardinality(cron.sent)
    BY <1>3, <2>1, <2>2 DEF CronCommit
  <2>4. \A m \in Email : "DELIVERED" \in CronKinds(m) <=> m \in cron.sent
    BY DEF CronKinds
  <2>5. {m \in Email : "DELIVERED" \in recorded'[m]}
          = {m \in Email : "DELIVERED" \in recorded[m]} \cup cron.sent
    <3>1. \A m \in Email : recorded'[m] = recorded[m] \cup CronKinds(m)
      BY <1>3 DEF CronCommit
    <3> QED
      BY <2>1, <2>4, <3>1
  <2> QED
    BY <2>1, <2>2, <2>3, <2>5, DeliveredAdds
<1> QED
  BY <1>1, <1>2, <1>3, TablesStep

-----------------------------------------------------------------------------
\* A step that commits nothing only announces, creates or deletes a row.
LEMMA RowStep ==
    ASSUME TypeOK, [Next]_vars, UNCHANGED tables, NEW x \in Email
    PROVE  \/ row'[x] \in {row[x], "announced", "RECEIVED", "gone"}
           \/ \E c \in Consumer : Commit(c)
           \/ CronCommit
<1> USE DEF TypeOK
<1>1. ASSUME NEW m \in Email, Announce(m) \/ CreateRow(m) \/ CreateFails(m) \/ Expire(m)
      PROVE  row'[x] \in {row[x], "announced", "RECEIVED", "gone"}
  BY <1>1 DEF Announce, CreateRow, CreateFails, Expire
<1>2. ASSUME NEW m \in Email, Request(m) \/ Tell(m) \/ Send(m) \/ Visit(m) PROVE row' = row
  BY <1>2 DEF Request, Tell, Send, Visit
<1>3. ASSUME NEW c \in Consumer, Read(c) \/ Query(c) \/ Upsert(c) \/ Update(c) PROVE row' = row
  BY <1>3 DEF Read, Query, Upsert, Update
<1>4. ASSUME NEW c \in Consumer, Orphaned(c) \/ Fail(c) \/ Deadlocked(c) PROVE row' = row
  BY <1>4 DEF Orphaned, Fail, Deadlocked
<1>5. ASSUME NEW old \in SUBSET Email, CronSent(old) PROVE row' = row
  BY <1>5 DEF CronSent
<1>6. ASSUME CronReceived \/ CronUpdate \/ CronOrphaned PROVE row' = row
  BY <1>6 DEF CronReceived, CronUpdate, CronOrphaned
<1>7. ASSUME UNCHANGED vars PROVE row' = row
  BY <1>7 DEF vars
<1> QED
  BY <1>1, <1>2, <1>3, <1>4, <1>5, <1>6, <1>7 DEF Next, Consume, Cron

LEMMA StatusStep ==
    TypeOK /\ FoundInBatch /\ StatusIsRecorded /\ [Next]_vars => StatusIsRecorded'
<1> SUFFICES ASSUME TypeOK, FoundInBatch, StatusIsRecorded, [Next]_vars, NEW x \in Email,
                    row'[x] \in Kind
             PROVE  row'[x] = "RECEIVED" \/ row'[x] \in recorded'[x]
  BY DEF StatusIsRecorded, HasRow
<1>1. row[x] \in Kind => row[x] = "RECEIVED" \/ row[x] \in recorded[x]
  BY DEF StatusIsRecorded, HasRow
<1>2. ASSUME NEW c \in Consumer, Commit(c)
      PROVE  row'[x] = "RECEIVED" \/ row'[x] \in recorded'[x]
  <2>1. row'[x] = row[x] \/ row'[x] \in KindsOf(batch[c], x)
    BY <1>2, CommitStatus
  <2>2. recorded'[x] = recorded[x] \cup KindsOf(batch[c], x)
    BY <1>2 DEF Commit
  <2> QED
    BY <1>1, <2>1, <2>2
<1>3. CASE CronCommit
  <2>1. row'[x] = IF x \in cron.received THEN "FAILED"
                  ELSE IF x \in cron.sent THEN "DELIVERED" ELSE row[x]
    BY <1>3 DEF CronCommit
  <2>2. recorded'[x] = recorded[x] \cup CronKinds(x)
    BY <1>3 DEF CronCommit
  <2> QED
    BY <1>1, <2>1, <2>2 DEF CronKinds
<1>4. CASE UNCHANGED tables /\ row'[x] \in {row[x], "announced", "RECEIVED", "gone"}
  BY <1>1, <1>4 DEF tables, Kind
<1> QED
  BY <1>2, <1>3, <1>4, TablesStep, RowStep

LEMMA Inductive == IInv /\ [Next]_vars => IInv'
  BY TypeStep, FoundStep, StatusStep, CountersStep, DeliveredStep DEF IInv

LEMMA Invariance == Spec => []IInv
  BY InitInv, Inductive, PTL DEF Spec

-----------------------------------------------------------------------------
\* Every variable keeps its type, through retries, deadlocks and deleted rows.
THEOREM TypeCorrect == Spec => []TypeOK
  BY Invariance, PTL DEF IInv

\* Whatever the interleaving of handlers, retries, deadlocks and the job, the day's
\* counters are the numbers of event rows written.
THEOREM CountersMatchAlways == Spec => []CountersMatchEvents
  BY Invariance, PTL DEF IInv

\* The deliveries counted lie between the emails delivered and the rows that say so.
THEOREM DeliveredWithinAlways == Spec => []DeliveredWithin
  BY Invariance, PTL DEF IInv

\* No overwritten or late status is one that nothing recorded.
THEOREM StatusIsRecordedAlways == Spec => []StatusIsRecorded
  BY Invariance, PTL DEF IInv
=============================================================================
