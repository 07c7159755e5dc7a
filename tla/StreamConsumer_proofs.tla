----------------------- MODULE StreamConsumer_proofs -----------------------
(***************************************************************************)
(* Proofs about StreamConsumer, for every number of entries, consumers and  *)
(* failures: entries take effect at most once, and the detailed consumers   *)
(* implement AtMostOnce.                                                    *)
(***************************************************************************)
EXTENDS StreamConsumer, TLAPS

USE StreamAssumption DEF StreamAssumption

InFlight(c) == pc[c] \in {"entry", "ack", "del"} \cup InHandler

\* A batch belongs to one consumer while it is in flight; until its
\* transactions its entries have had no effect.
HeldInv(c) ==
    /\ InFlight(c) => \A e \in batch[c] :
          where[e] = "pending" \/ (pc[c] = "del" /\ where[e] = "acked")
    /\ pc[c] \in {"events", "analytics", "ack", "del"} => result[c] \subseteq batch[c]
FreshInv(c) ==
    /\ pc[c] \in {"entry", "locked", "events"} =>
          \A e \in batch[c] : rows[e] = 0 /\ counts[e] = 0
    /\ pc[c] = "analytics" =>
          kind = "link" /\ \A e \in batch[c] : rows[e] = (IF e \in Bad THEN 0 ELSE 1) /\ counts[e] = 0
Disjoint(c, d) == InFlight(c) /\ InFlight(d) => batch[c] \cap batch[d] = {}
EntryInv(e) ==
    /\ where[e] \in {"absent", "new"} => rows[e] = 0 /\ counts[e] = 0
    /\ rows[e] \in {0, 1} /\ counts[e] \in {0, 1}
    /\ counts[e] <= rows[e] \/ (kind = "link" /\ e \in Miscounted /\ rows[e] = 0)

CInv(c) == HeldInv(c) /\ FreshInv(c)
IInv ==
    /\ TypeOK
    /\ \A c \in Consumer : CInv(c)
    /\ \A c, d \in Consumer : c # d => Disjoint(c, d)
    /\ \A e \in Entry : EntryInv(e)

\* xreadgroup returns entries of the set it is given.
LEMMA AtMostIsPart == ASSUME NEW n, NEW S, NEW B \in AtMost(n, S) PROVE B \subseteq S
  BY DEF AtMost

LEMMA InitInv == Init => IInv
  BY DEF Init, IInv, TypeOK, CInv, HeldInv, FreshInv, Disjoint, InFlight, EntryInv, InHandler

-----------------------------------------------------------------------------
LEMMA TypeStep == TypeOK /\ [Next]_vars => TypeOK'
<1> SUFFICES ASSUME TypeOK, [Next]_vars PROVE TypeOK'
    OBVIOUS
<1> USE DEF TypeOK, Goto, Move, Bump, Fault, InHandler
<1>1. ASSUME NEW e \in Entry, Add(e) PROVE TypeOK'
  BY <1>1 DEF Add
<1>2. ASSUME NEW c \in Consumer, Read(c) PROVE TypeOK'
  <2>1. PICK B \in AtMost(Count, {e \in Entry : where[e] = "new"}) \ {{}} :
           batch' = [batch EXCEPT ![c] = B] /\ Move(B, "pending")
    BY <1>2 DEF Read
  <2>2. B \in SUBSET Entry
    BY <2>1, AtMostIsPart
  <2>3. QED
    BY <1>2, <2>1, <2>2 DEF Read
<1>3. ASSUME NEW c \in Consumer, Enter(c) PROVE TypeOK'
  BY <1>3 DEF Enter
<1>4. ASSUME NEW c \in Consumer, Convert(c) PROVE TypeOK'
  <2>1. Invalid(c) \in SUBSET Entry
    BY DEF Invalid
  <2>2. QED
    BY <1>4, <2>1 DEF Convert
<1>5. ASSUME NEW c \in Consumer, CommitEvents(c) PROVE TypeOK'
  BY <1>5 DEF CommitEvents
<1>6. ASSUME NEW c \in Consumer, EventsFail(c) \/ EventsRetried(c) PROVE TypeOK'
  BY <1>6 DEF EventsFail, EventsRetried
<1>7. ASSUME NEW c \in Consumer, CommitAnalytics(c) \/ AnalyticsFail(c) PROVE TypeOK'
  BY <1>7 DEF CommitAnalytics, AnalyticsFail
<1>8. ASSUME NEW c \in Consumer, Ack(c) \/ Del(c) PROVE TypeOK'
  BY <1>8 DEF Ack, Del
<1>9. ASSUME NEW c \in Consumer, RedisFails(c) \/ QueryFails(c) \/ Stop(c) \/ Restart(c) PROVE TypeOK'
  BY <1>9 DEF RedisFails, QueryFails, Stop, Restart
<1>10. CASE SetStatus
  BY <1>10 DEF SetStatus
<1>11. CASE UNCHANGED vars
  BY <1>11 DEF vars
<1>12. QED
  BY <1>1, <1>2, <1>3, <1>4, <1>5, <1>6, <1>7, <1>8, <1>9, <1>10, <1>11
  DEF Next, Consume, Handler, Failures

\* The types of the consumers' variables.
THEOREM TypeCorrect == Spec => []TypeOK
<1>1. Init => TypeOK
  BY InitInv DEF IInv
<1>2. QED
  BY <1>1, TypeStep, PTL DEF Spec

-----------------------------------------------------------------------------
\* A step of c that leaves alone what another consumer holds keeps what is
\* known of the other.
LEMMA OthersKept ==
    ASSUME IInv, kind' = kind, NEW c \in Consumer, NEW d \in Consumer, c # d,
           pc'[d] = pc[d], batch'[d] = batch[d], result'[d] = result[d],
           \A e \in Entry : InFlight(d) /\ e \in batch[d] =>
              where'[e] = where[e] /\ rows'[e] = rows[e] /\ counts'[e] = counts[e]
    PROVE  CInv(d)'
<1>1. batch[d] \subseteq Entry /\ CInv(d)
  BY DEF IInv, TypeOK
<1>2. HeldInv(d)'
  BY <1>1 DEF CInv, HeldInv, InFlight, InHandler
<1>3. FreshInv(d)'
  BY <1>1 DEF CInv, FreshInv, InFlight, InHandler
<1>4. QED
  BY <1>2, <1>3 DEF CInv

\* A step of c that touches only entries T, none of them in another's hands.
LEMMA FrameStep ==
    ASSUME IInv, TypeOK', kind' = kind, NEW c \in Consumer, NEW T \in SUBSET Entry,
           \A d \in Consumer \ {c} :
              /\ pc'[d] = pc[d] /\ batch'[d] = batch[d] /\ result'[d] = result[d]
              /\ InFlight(d) => T \cap batch[d] = {}
              /\ Disjoint(c, d)',
           \A e \in Entry \ T :
              where'[e] = where[e] /\ rows'[e] = rows[e] /\ counts'[e] = counts[e],
           \A e \in T : EntryInv(e)',
           CInv(c)'
    PROVE  IInv'
<1>1. ASSUME NEW d \in Consumer PROVE CInv(d)'
  <2>1. CASE d = c
    BY <2>1
  <2>2. CASE d # c
    BY <2>2, OthersKept DEF IInv, TypeOK
  <2>3. QED
    BY <2>1, <2>2
<1>2. ASSUME NEW d \in Consumer, NEW f \in Consumer, d # f PROVE Disjoint(d, f)'
  <2>1. CASE d = c \/ f = c
    BY <1>2, <2>1 DEF Disjoint
  <2>2. CASE d # c /\ f # c
    BY <1>2, <2>2 DEF IInv, Disjoint, InFlight
  <2>3. QED
    BY <2>1, <2>2
<1>3. ASSUME NEW e \in Entry PROVE EntryInv(e)'
  <2>1. CASE e \in T
    BY <2>1
  <2>2. CASE e \notin T
    BY <2>2 DEF IInv, EntryInv
  <2>3. QED
    BY <2>1, <2>2
<1>4. QED
  BY <1>1, <1>2, <1>3 DEF IInv

\* What c holds is in nobody else's batch.
LEMMA OwnBatch ==
    ASSUME IInv, NEW c \in Consumer, InFlight(c), NEW d \in Consumer, d # c, InFlight(d)
    PROVE  batch[c] \cap batch[d] = {}
  BY DEF IInv, Disjoint

\* The handler of a stream is configured, once.
LEMMA KindStays == [Next]_vars => kind' = kind
  BY DEF Next, vars, Add, Consume, Handler, Failures, Read, Enter, Convert, CommitEvents, CommitAnalytics,
         Ack, Del, Restart, QueryFails, EventsFail, EventsRetried, AnalyticsFail, RedisFails, Stop, SetStatus

LEMMA StepInv == IInv /\ [Next]_vars => IInv'
<1> SUFFICES ASSUME IInv, [Next]_vars PROVE IInv'
    OBVIOUS
<1>0. TypeOK /\ TypeOK' /\ (\A c \in Consumer : batch[c] \subseteq Entry) /\ kind' = kind
  BY TypeStep, KindStays DEF IInv, TypeOK
<1>a. \A c \in Consumer : CInv(c)
  BY DEF IInv
<1>b. \A e \in Entry : EntryInv(e)
  BY DEF IInv
<1> USE DEF Goto, Bump
<1>1. ASSUME NEW e \in Entry, Add(e) PROVE IInv'
  <2>1. where[e] = "absent" /\ UNCHANGED <<pc, batch, result, rows, counts>>
        /\ where'[e] = "new" /\ \A f \in Entry \ {e} : where'[f] = where[f]
    BY <1>1, <1>0 DEF Add, Move, TypeOK
  <2>2. \A c \in Consumer : CInv(c)'
    BY <2>1, <1>0, <1>a DEF CInv, HeldInv, FreshInv, InFlight, InHandler
  <2>3. \A f \in Entry : EntryInv(f)'
    BY <2>1, <1>0, <1>b DEF EntryInv
  <2>4. QED
    BY <2>1, <2>2, <2>3, <1>0 DEF IInv, Disjoint, InFlight
<1>2. ASSUME NEW c \in Consumer, Read(c) PROVE IInv'
  <2>1. PICK B \in AtMost(Count, {e \in Entry : where[e] = "new"}) \ {{}} :
           batch' = [batch EXCEPT ![c] = B] /\ Move(B, "pending")
    BY <1>2 DEF Read
  <2>2. B \subseteq {e \in Entry : where[e] = "new"}
    BY <2>1, AtMostIsPart
  <2>3. /\ UNCHANGED <<result, rows, counts>> /\ pc'[c] = "entry" /\ batch'[c] = B
        /\ \A d \in Consumer \ {c} : pc'[d] = pc[d] /\ batch'[d] = batch[d]
        /\ \A e \in Entry : where'[e] = IF e \in B THEN "pending" ELSE where[e]
    BY <1>2, <2>1, <1>0 DEF Read, Move, TypeOK
  <2>4. \A d \in Consumer : InFlight(d) => B \cap batch[d] = {}
    BY <2>2, <1>0, <1>a DEF CInv, HeldInv
  <2>5. CInv(c)'
    BY <2>2, <2>3, <1>b DEF CInv, HeldInv, FreshInv, InFlight, InHandler, EntryInv
  <2>6. \A d \in Consumer \ {c} : Disjoint(c, d)'
    BY <2>3, <2>4 DEF Disjoint, InFlight
  <2>7. \A e \in B : EntryInv(e)'
    BY <2>2, <2>3, <1>0, <1>b DEF EntryInv
  <2>8. QED
    BY <2>2, <2>3, <2>4, <2>5, <2>6, <2>7, <1>0, FrameStep
<1>3. ASSUME NEW c \in Consumer,
             Enter(c) \/ Convert(c) \/ EventsRetried(c) \/ RedisFails(c) \/ QueryFails(c) \/ Stop(c) \/ Restart(c)
      PROVE  IInv'
  <2>1. /\ UNCHANGED <<where, batch, rows, counts>>
        /\ \A d \in Consumer \ {c} : pc'[d] = pc[d] /\ result'[d] = result[d]
    BY <1>3, <1>0 DEF Enter, Convert, EventsRetried, RedisFails, QueryFails, Stop, Restart, TypeOK
  <2>2. Invalid(c) \subseteq batch[c]
    BY DEF Invalid
  <2>3. CInv(c)' /\ (InFlight(c)' => InFlight(c))
    <3>1. CASE Enter(c)
      BY <3>1, <1>0, <1>a, <2>1 DEF Enter, CInv, HeldInv, FreshInv, InFlight, InHandler, TypeOK
    <3>2. CASE Convert(c)
      BY <3>2, <2>2, <1>0, <1>a, <2>1 DEF Convert, CInv, HeldInv, FreshInv, InFlight, InHandler, TypeOK
    <3>3. CASE EventsRetried(c) \/ RedisFails(c) \/ QueryFails(c) \/ Stop(c) \/ Restart(c)
      BY <3>3, <1>0, <1>a, <2>1
      DEF EventsRetried, RedisFails, QueryFails, Stop, Restart, CInv, HeldInv, FreshInv, InFlight, InHandler, TypeOK
    <3>4. QED
      BY <1>3, <3>1, <3>2, <3>3
  <2>4. \A d \in Consumer \ {c} : Disjoint(c, d)'
    BY <2>1, <2>3 DEF IInv, Disjoint, InFlight
  <2>5. /\ {} \in SUBSET Entry /\ (\A d \in Consumer \ {c} : batch'[d] = batch[d])
        /\ \A e \in Entry \ {} : where'[e] = where[e] /\ rows'[e] = rows[e] /\ counts'[e] = counts[e]
    BY <2>1
  <2>6. QED
    BY <2>1, <2>3, <2>4, <2>5, <1>0, FrameStep
<1>4. ASSUME NEW c \in Consumer,
             CommitEvents(c) \/ EventsFail(c) \/ CommitAnalytics(c) \/ AnalyticsFail(c)
             \/ Ack(c) \/ Del(c)
      PROVE  IInv'
  <2>1. InFlight(c)
    BY <1>4 DEF CommitEvents, EventsFail, CommitAnalytics, AnalyticsFail, Ack, Del, InFlight, InHandler
  <2>2. /\ batch' = batch
        /\ \A d \in Consumer \ {c} : pc'[d] = pc[d] /\ result'[d] = result[d]
    BY <1>4, <1>0 DEF CommitEvents, EventsFail, CommitAnalytics, AnalyticsFail, Ack, Del, TypeOK
  <2>3. \A d \in Consumer \ {c} : Disjoint(c, d)' /\ (InFlight(d) => batch[c] \cap batch[d] = {})
    BY <2>1, <2>2, OwnBatch DEF IInv, Disjoint, InFlight
  <2>4. pc[c] \in {"ack", "del"} => result[c] \subseteq batch[c]
    BY <1>a DEF CInv, HeldInv
  <2>5. \A e \in Entry \ batch[c] :
           where'[e] = where[e] /\ rows'[e] = rows[e] /\ counts'[e] = counts[e]
    <3>1. CASE CommitEvents(c) \/ EventsFail(c)
      BY <3>1, <1>0 DEF CommitEvents, EventsFail, Objs, Counted, TypeOK
    <3>2. CASE CommitAnalytics(c) \/ AnalyticsFail(c)
      BY <3>2, <1>0 DEF CommitAnalytics, AnalyticsFail, Objs, Visited, TypeOK
    <3>3. CASE Ack(c) \/ Del(c)
      BY <3>3, <1>0, <2>4 DEF Ack, Del, Move, TypeOK
    <3>4. QED
      BY <1>4, <3>1, <3>2, <3>3
  <2>6. CInv(c)' /\ \A e \in batch[c] : EntryInv(e)'
    <3>1. CASE CommitEvents(c)
      BY <3>1, <1>0, <1>a, <1>b
      DEF CommitEvents, Objs, Counted, CInv, HeldInv, FreshInv, EntryInv, InFlight, InHandler, TypeOK
    <3>2. CASE EventsFail(c)
      BY <3>2, <1>0, <1>a, <1>b
      DEF EventsFail, Objs, Counted, CInv, HeldInv, FreshInv, EntryInv, InFlight, InHandler, TypeOK
    <3>3. CASE CommitAnalytics(c) \/ AnalyticsFail(c)
      BY <3>3, <1>0, <1>a, <1>b
      DEF CommitAnalytics, AnalyticsFail, Objs, Visited, CInv, HeldInv, FreshInv, EntryInv, InFlight, InHandler, TypeOK
    <3>4. CASE Ack(c) \/ Del(c)
      BY <3>4, <1>0, <1>a, <1>b
      DEF Ack, Del, Move, CInv, HeldInv, FreshInv, EntryInv, InFlight, InHandler, TypeOK
    <3>5. QED
      BY <1>4, <3>1, <3>2, <3>3, <3>4
  <2>7. QED
    BY <2>2, <2>3, <2>5, <2>6, <1>0, FrameStep
<1>5. CASE SetStatus \/ UNCHANGED vars
  BY <1>5, <1>0 DEF SetStatus, vars, IInv, CInv, HeldInv, FreshInv, Disjoint, EntryInv, InFlight
<1>6. QED
  BY <1>1, <1>2, <1>3, <1>4, <1>5 DEF Next, Consume, Handler, Failures

LEMMA Invariance == Spec => []IInv
  BY InitInv, StepInv, PTL DEF Spec

\* Add_Link_Event, Add_Email_Event and the others create an entry's row, and
\* count it, at most once.
THEOREM RecordedOnceAlways == Spec => []RecordedOnce
<1>1. IInv => RecordedOnce
  BY DEF IInv, EntryInv, RecordedOnce
<1>2. QED
  BY <1>1, Invariance, PTL

\* The analytics never run ahead of the event rows, but for the link entries that
\* were rejected after they had been counted; those are counted once.
THEOREM CountedIsRecordedAlways == Spec => []CountedIsRecorded
<1>1. IInv => CountedIsRecorded
  BY DEF IInv, EntryInv, CountedIsRecorded
<1>2. QED
  BY <1>1, Invariance, PTL

-----------------------------------------------------------------------------
\* What DeletedIsRecorded asks of an entry whose handler accepted it.
Recorded(e) == e \in Bad \/ (rows[e] = 1 /\ (kind # "tracking" => counts[e] = 1))

\* Until a transaction has committed, a handler has only refused entries to return;
\* what is returned after that, and so acknowledged and deleted, is recorded.
ReturnedInv(c) ==
    /\ pc[c] \in {"events", "analytics"} => result[c] \subseteq Bad
    /\ pc[c] \in {"ack", "del"} => \A e \in result[c] : Recorded(e)
RemovedInv(e) == where[e] \in {"acked", "deleted"} => Recorded(e)
RecordInv ==
    kind \in {"link", "email", "tracking"} =>
        (\A c \in Consumer : ReturnedInv(c)) /\ (\A e \in Entry : RemovedInv(e))

\* Rows are created and counted, never taken back.
LEMMA Accumulate ==
    ASSUME TypeOK, [Next]_vars
    PROVE  \A e \in Entry : rows'[e] >= rows[e] /\ counts'[e] >= counts[e]
<1>1. /\ rows' = rows \/ \E S : rows' = Bump(rows, S)
      /\ counts' = counts \/ \E S : counts' = Bump(counts, S)
  BY DEF Next, vars, Add, Consume, Handler, Failures, Read, Enter, Convert, CommitEvents, CommitAnalytics,
         Ack, Del, Restart, QueryFails, EventsFail, EventsRetried, AnalyticsFail, RedisFails, Stop, SetStatus
<1>2. QED
  BY <1>1 DEF TypeOK, Bump

\* So an entry stays recorded.
LEMMA StaysRecorded ==
    ASSUME IInv, IInv', [Next]_vars, NEW e \in Entry, Recorded(e)
    PROVE  Recorded(e)'
<1>1. kind' = kind
  BY KindStays
<1>2. /\ rows'[e] >= rows[e] /\ counts'[e] >= counts[e]
      /\ rows'[e] \in {0, 1} /\ counts'[e] \in {0, 1}
  BY Accumulate DEF IInv, EntryInv
<1>3. QED
  BY <1>1, <1>2 DEF Recorded

\* What a transaction that commits returns is recorded by it.
LEMMA CommitsRecord ==
    ASSUME IInv, IInv', NEW c \in Consumer, kind \in {"link", "email", "tracking"},
           (CommitEvents(c) /\ kind # "link") \/ CommitAnalytics(c)
    PROVE  \A e \in batch[c] : Recorded(e)'
<1>1. TypeOK /\ CInv(c) /\ batch[c] \subseteq Entry
  BY DEF IInv, TypeOK
<1>2. CASE CommitEvents(c) /\ kind # "link"
  BY <1>1, <1>2 DEF CommitEvents, CInv, FreshInv, Objs, Counted, Bump, Recorded, TypeOK
<1>3. CASE CommitAnalytics(c)
  BY <1>1, <1>3 DEF CommitAnalytics, CInv, FreshInv, Objs, Visited, Bump, Recorded, TypeOK
<1>4. QED
  BY <1>2, <1>3

LEMMA RecordStep == IInv /\ IInv' /\ RecordInv /\ [Next]_vars => RecordInv'
<1> SUFFICES ASSUME IInv, IInv', RecordInv, [Next]_vars,
                    kind' \in {"link", "email", "tracking"}
             PROVE  (\A c \in Consumer : ReturnedInv(c)') /\ (\A e \in Entry : RemovedInv(e)')
  BY DEF RecordInv
<1>1. kind' = kind
  BY KindStays
<1>2. TypeOK /\ (\A c \in Consumer : ReturnedInv(c)) /\ (\A e \in Entry : RemovedInv(e))
  BY <1>1 DEF RecordInv, IInv
<1>3. \A e \in Entry : Recorded(e) => Recorded(e)'
  BY StaysRecorded
\* A consumer whose result stands, and who is not past its handler for the first time.
<1>4. ASSUME NEW d \in Consumer, result'[d] = result[d],
             pc'[d] = pc[d] \/ pc'[d] \notin {"events", "analytics", "ack", "del"}
             \/ <<pc[d], pc'[d]>> \in {<<"events", "analytics">>, <<"events", "ack">>,
                                       <<"analytics", "ack">>, <<"ack", "del">>}
      PROVE  ReturnedInv(d)'
  <2>1. result[d] \subseteq Entry /\ ReturnedInv(d)
    BY <1>2 DEF TypeOK
  <2>2. \A e \in Bad : Recorded(e)'
    BY DEF Recorded
  <2>3. QED
    BY <1>3, <1>4, <2>1, <2>2 DEF ReturnedInv
<1>5. ASSUME NEW c \in Consumer, Consume(c) \/ Failures(c)
      PROVE  ReturnedInv(c)' /\ \A d \in Consumer \ {c} : pc'[d] = pc[d] /\ result'[d] = result[d]
  <2>1. CASE Read(c) \/ Restart(c) \/ Stop(c) \/ QueryFails(c) \/ RedisFails(c) \/ EventsRetried(c)
             \/ EventsFail(c) \/ AnalyticsFail(c) \/ Ack(c) \/ Del(c)
    <3>1. UNCHANGED result /\ \A d \in Consumer \ {c} : pc'[d] = pc[d]
      BY <2>1, <1>2 DEF Read, Restart, Stop, QueryFails, RedisFails, EventsRetried, EventsFail,
                        AnalyticsFail, Ack, Del, Goto, TypeOK
    <3>2. \/ pc'[c] = pc[c] \/ pc'[c] \notin {"events", "analytics", "ack", "del"}
          \/ <<pc[c], pc'[c]>> \in {<<"events", "analytics">>, <<"events", "ack">>,
                                    <<"analytics", "ack">>, <<"ack", "del">>}
      BY <2>1, <1>2 DEF Read, Restart, Stop, QueryFails, RedisFails, EventsRetried, EventsFail,
                        AnalyticsFail, Ack, Del, Goto, TypeOK
    <3>3. QED
      BY <3>1, <3>2, <1>4
  <2>2. CASE Enter(c) \/ Convert(c)
    <3>1. Invalid(c) \subseteq Bad
      BY <1>1 DEF Invalid
    <3>2. \A d \in Consumer \ {c} : pc'[d] = pc[d] /\ result'[d] = result[d]
      BY <2>2, <1>2 DEF Enter, Convert, Goto, TypeOK
    <3>3. ReturnedInv(c)'
      BY <2>2, <3>1, <1>1, <1>2 DEF Enter, Convert, Goto, TypeOK, ReturnedInv
    <3>4. QED
      BY <3>2, <3>3
  <2>3. CASE CommitEvents(c) /\ kind = "link"
    <3>1. result' = result /\ pc[c] = "events" /\ pc'[c] = "analytics"
          /\ \A d \in Consumer \ {c} : pc'[d] = pc[d]
      BY <2>3, <1>2 DEF CommitEvents, Goto, TypeOK
    <3>2. QED
      BY <3>1, <1>4
  <2>4. CASE (CommitEvents(c) /\ kind # "link") \/ CommitAnalytics(c)
    <3>1. /\ pc'[c] = "ack" /\ result'[c] = batch[c]
          /\ \A d \in Consumer \ {c} : pc'[d] = pc[d] /\ result'[d] = result[d]
      BY <2>4, <1>2 DEF CommitEvents, CommitAnalytics, Goto, TypeOK
    <3>2. QED
      BY <2>4, <3>1, <1>1, CommitsRecord DEF ReturnedInv
  <2>5. QED
    BY <1>5, <2>1, <2>2, <2>3, <2>4 DEF Consume, Handler, Failures
<1>6. \A c \in Consumer : ReturnedInv(c)'
  <2>1. CASE \E c \in Consumer : Consume(c) \/ Failures(c)
    BY <2>1, <1>4, <1>5
  <2>2. CASE (\E e \in Entry : Add(e)) \/ SetStatus \/ UNCHANGED vars
    BY <2>2, <1>4 DEF Add, SetStatus, vars
  <2>3. QED
    BY <2>1, <2>2 DEF Next
<1>7. ASSUME NEW e \in Entry PROVE RemovedInv(e)'
  <2>1. CASE where'[e] = where[e] \/ where'[e] \in {"new", "pending"}
    BY <2>1, <1>2, <1>3 DEF RemovedInv
  <2>2. ASSUME NEW c \in Consumer, Ack(c) \/ Del(c), where'[e] # where[e] PROVE Recorded(e)'
    <3>1. e \in result[c] /\ pc[c] \in {"ack", "del"}
      BY <2>2, <1>2 DEF Ack, Del, Move, TypeOK
    <3>2. QED
      BY <3>1, <1>2, <1>3 DEF ReturnedInv
  <2>3. \/ where'[e] = where[e] \/ where'[e] \in {"new", "pending"}
        \/ \E c \in Consumer : Ack(c) \/ Del(c)
    BY <1>2 DEF Next, vars, Add, Consume, Handler, Failures, Read, Enter, Convert, CommitEvents, Move, TypeOK,
                CommitAnalytics, Restart, QueryFails, EventsFail, EventsRetried, AnalyticsFail, RedisFails,
                Stop, SetStatus
  <2>4. QED
    BY <2>1, <2>2, <2>3 DEF RemovedInv
<1>8. QED
  BY <1>6, <1>7

\* Whatever the link, email and tracking streams lose is recorded: what _consume_stream
\* acknowledges and deletes has its row, and is counted, unless it was found invalid.
THEOREM DeletedIsRecordedAlways == Spec => []DeletedIsRecorded
<1>1. Init => RecordInv
  BY DEF Init, RecordInv, ReturnedInv, RemovedInv
<1>2. RecordInv => DeletedIsRecorded
  BY DEF RecordInv, RemovedInv, Recorded, DeletedIsRecorded
<1>3. QED
  BY <1>1, <1>2, Invariance, RecordStep, PTL DEF Spec

-----------------------------------------------------------------------------
Handed == {e \in Entry : where[e] \in {"pending", "acked", "deleted"}}
Gone == {e \in Entry : where[e] = "deleted"}

LEMMA RefinesStep ==
    ASSUME IInv, [Next]_vars
    PROVE  \/ UNCHANGED <<Handed, rows, Gone>>
           \/ /\ \E B \in SUBSET (Entry \ Handed) : B # {} /\ Handed' = Handed \cup B
              /\ UNCHANGED <<rows, Gone>>
           \/ /\ \E B \in SUBSET Handed :
                    /\ B # {} /\ \A e \in B : rows[e] = 0
                    /\ rows' = [e \in Entry |-> IF e \in B THEN 1 ELSE rows[e]]
              /\ UNCHANGED <<Handed, Gone>>
           \/ /\ \E B \in SUBSET (Handed \ Gone) : B # {} /\ Gone' = Gone \cup B
              /\ UNCHANGED <<Handed, rows>>
<1>0. TypeOK /\ \A c \in Consumer : CInv(c) /\ batch[c] \subseteq Entry
  BY DEF IInv, TypeOK
<1> USE DEF Handed, Gone
<1>1. ASSUME NEW e \in Entry, Add(e) PROVE UNCHANGED <<Handed, rows, Gone>>
  BY <1>0, <1>1 DEF Add, Move, TypeOK
<1>2. ASSUME NEW c \in Consumer, Read(c)
      PROVE  /\ \E B \in SUBSET (Entry \ Handed) : B # {} /\ Handed' = Handed \cup B
             /\ UNCHANGED <<rows, Gone>>
  <2>1. PICK B \in AtMost(Count, {e \in Entry : where[e] = "new"}) \ {{}} : Move(B, "pending")
    BY <1>2 DEF Read
  <2>2. B \subseteq {e \in Entry : where[e] = "new"}
    BY <2>1, AtMostIsPart
  <2>3. Handed' = Handed \cup B /\ Gone' = Gone /\ B \in SUBSET (Entry \ Handed) /\ B # {}
    BY <2>1, <2>2 DEF Move
  <2>4. QED
    BY <1>2, <2>3 DEF Read
<1>3. ASSUME NEW c \in Consumer, CommitEvents(c) \/ EventsFail(c), rows' = Bump(rows, Objs(c))
      PROVE  \/ UNCHANGED <<Handed, rows, Gone>>
             \/ /\ \E B \in SUBSET Handed :
                      /\ B # {} /\ \A e \in B : rows[e] = 0
                      /\ rows' = [e \in Entry |-> IF e \in B THEN 1 ELSE rows[e]]
                /\ UNCHANGED <<Handed, Gone>>
  <2>1. UNCHANGED where /\ pc[c] = "events"
    BY <1>3 DEF CommitEvents, EventsFail
  <2>2. \A e \in Objs(c) : e \in Handed /\ rows[e] = 0
    BY <2>1, <1>0 DEF Objs, CInv, HeldInv, FreshInv, InFlight, InHandler
  <2>3. rows' = [e \in Entry |-> IF e \in Objs(c) THEN 1 ELSE rows[e]]
    BY <1>3, <2>2, <1>0 DEF Bump, TypeOK
  <2>4. CASE Objs(c) = {}
    BY <2>1, <2>3, <2>4, <1>0 DEF TypeOK
  <2>5. CASE Objs(c) # {}
    BY <2>1, <2>2, <2>3, <2>5
  <2>6. QED
    BY <2>4, <2>5
<1>4. ASSUME NEW c \in Consumer, Ack(c) PROVE UNCHANGED <<Handed, rows, Gone>>
  BY <1>0, <1>4 DEF Ack, Move, CInv, HeldInv, InFlight
<1>5. ASSUME NEW c \in Consumer, Del(c)
      PROVE  \/ UNCHANGED <<Handed, rows, Gone>>
             \/ /\ \E B \in SUBSET (Handed \ Gone) : B # {} /\ Gone' = Gone \cup B
                /\ UNCHANGED <<Handed, rows>>
  <2>1. result[c] \subseteq Handed \ Gone
    BY <1>0, <1>5 DEF Del, CInv, HeldInv, InFlight
  <2>2. Handed' = Handed /\ Gone' = Gone \cup result[c] /\ rows' = rows
    BY <1>0, <1>5, <2>1 DEF Del, Move
  <2>3. CASE result[c] = {}
    BY <2>2, <2>3
  <2>4. CASE result[c] # {}
    BY <2>1, <2>2, <2>4
  <2>5. QED
    BY <2>3, <2>4
<1>6. ASSUME NEW c \in Consumer,
             \/ Enter(c) \/ Convert(c) \/ CommitAnalytics(c) \/ Restart(c)
             \/ EventsRetried(c) \/ AnalyticsFail(c) \/ RedisFails(c) \/ QueryFails(c) \/ Stop(c)
             \/ EventsFail(c) /\ UNCHANGED rows
      PROVE  UNCHANGED <<Handed, rows, Gone>>
  BY <1>6 DEF Enter, Convert, CommitAnalytics, Restart, EventsRetried, AnalyticsFail, RedisFails, QueryFails, Stop, EventsFail
<1>7. CASE SetStatus \/ UNCHANGED vars
  BY <1>7 DEF SetStatus, vars
<1>8. ASSUME NEW c \in Consumer, CommitEvents(c) PROVE rows' = Bump(rows, Objs(c))
  BY <1>8 DEF CommitEvents
<1>9. ASSUME NEW c \in Consumer, EventsFail(c) PROVE UNCHANGED rows \/ rows' = Bump(rows, Objs(c))
  BY <1>9 DEF EventsFail
<1>10. QED
  BY <1>1, <1>2, <1>3, <1>4, <1>5, <1>6, <1>7, <1>8, <1>9 DEF Next, Consume, Handler, Failures

\* _consume_stream and its handlers implement AtMostOnce: an entry is handed
\* out once, takes effect at most once after that, and only then disappears.
THEOREM Implements == Spec => DeliveredAtMostOnce
<1>1. Init => Delivery!AInit
  BY DEF Init, Delivery!AInit
<1>2. IInv /\ [Next]_vars => [Delivery!ANext]_(Delivery!avars)
  BY RefinesStep DEF Handed, Gone, Delivery!ANext, Delivery!avars, Delivery!HandOut,
                     Delivery!TakeEffect, Delivery!Remove
<1>3. QED
  BY <1>1, <1>2, Invariance, PTL DEF Spec, DeliveredAtMostOnce, Delivery!ASpec
=============================================================================
