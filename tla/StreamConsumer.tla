-------------------------- MODULE StreamConsumer --------------------------
(***************************************************************************)
(* RedisService._consume_stream: the consumers of one group read a Redis    *)
(* stream with '>', hand the batch to the stream's handler, acknowledge and *)
(* delete the ids it returns.  Handlers write to PostgreSQL under the       *)
(* reader lock of TortoiseConnectionService.  Consumers stop at any step.   *)
(***************************************************************************)
EXTENDS Naturals, FiniteSets

CONSTANTS Entry,     \* entries a stream receives
          Bad,       \* entries whose conversion raises
          Miscounted, \* those LinkEventORM(**val) rejects, after the counting
          Uncounted, \* good SMS entries whose counting raises (val[analytics])
          Consumer,  \* one per process
          Kinds,     \* the streams' handlers to consider
          Count,     \* xreadgroup's count
          MaxFaults  \* bound of the model: failed commands and stops

ASSUME StreamAssumption ==
    /\ IsFiniteSet(Entry) /\ Bad \subseteq Entry /\ Miscounted \subseteq Bad /\ Uncounted \subseteq Entry \ Bad
    /\ Kinds \subseteq {"link", "email", "sms", "call", "tracking", "subs"}
    /\ Count \in Nat \ {0} /\ MaxFaults \in Nat

VARIABLES
    kind,    \* the stream's handler; "tracking" stands also for Add_Contact_Creation_Event,
             \* one statement whose counter is its record
    where,   \* per entry: "absent", "new", "pending" (in the group's list), "acked", "deleted"
    pc,      \* per consumer: where it is
    batch,   \* per consumer: entries
    result,  \* per consumer: the ids its handler returned
    rows,    \* per entry: event rows committed for it
    counts,  \* per entry: how often it was added to the analytics
    valid,   \* the connection service's status is acceptable
    faults

vars == <<kind, where, pc, batch, result, rows, counts, valid, faults>>

InHandler == {"locked", "events", "analytics"}

TypeOK ==
    /\ kind \in Kinds
    /\ where \in [Entry -> {"absent", "new", "pending", "acked", "deleted"}]
    /\ pc \in [Consumer -> {"off", "sleep", "entry", "ack", "del"} \cup InHandler]
    /\ batch \in [Consumer -> SUBSET Entry]
    /\ result \in [Consumer -> SUBSET Entry]
    /\ rows \in [Entry -> Nat]
    /\ counts \in [Entry -> Nat]
    /\ valid \in BOOLEAN
    /\ faults \in 0..MaxFaults

Init ==
    /\ kind \in Kinds
    /\ where = [e \in Entry |-> "absent"]
    /\ pc = [c \in Consumer |-> "sleep"]
    /\ batch = [c \in Consumer |-> {}]
    /\ result = [c \in Consumer |-> {}]
    /\ rows = [e \in Entry |-> 0] /\ counts = [e \in Entry |-> 0]
    /\ valid = TRUE /\ faults = 0

AtMost(n, S) == IF Cardinality(S) <= n THEN {S} ELSE {B \in SUBSET S : Cardinality(B) = n}
Bump(f, S) == [e \in Entry |-> IF e \in S THEN f[e] + 1 ELSE f[e]]
Move(S, to) == where' = [e \in Entry |-> IF e \in S THEN to ELSE where[e]]
Goto(c, to) == pc' = [pc EXCEPT ![c] = to]
Fault == faults < MaxFaults /\ faults' = faults + 1

\* stream_data: XADD
Add(e) ==
    /\ where[e] = "absent" /\ Move({e}, "new")
    /\ UNCHANGED <<kind, pc, batch, result, rows, counts, valid, faults>>

Read_Pending(c) ==
    /\ pc[c] = "sleep"
    /\ \E B \in AtMost(Count, {e \in Entry : where[e] \in {"new", "pending"}}) \ {{}} :
          batch' = [batch EXCEPT ![c] = B] /\ Move(B, "pending")
    /\ Goto(c, "entry")
    /\ UNCHANGED <<kind, result, rows, counts, valid, faults>>

\* XREADGROUP with '>': entries no consumer of the group has received
Read(c) ==
    /\ pc[c] = "sleep"
    /\ \E B \in AtMost(Count, {e \in Entry : where[e] = "new"}) \ {{}} :
          batch' = [batch EXCEPT ![c] = B] /\ Move(B, "pending")
    /\ Goto(c, "entry")
    /\ UNCHANGED <<kind, result, rows, counts, valid, faults>>

\* lock_logic: the reader lock, then the status; [] when it is not acceptable
Enter(c) ==
    /\ pc[c] = "entry"
    /\ IF valid
       THEN Goto(c, "locked") /\ UNCHANGED result
       ELSE Goto(c, "ack") /\ result' = [result EXCEPT ![c] = {}]
    /\ UNCHANGED <<kind, where, batch, rows, counts, valid, faults>>

Invalid(c) ==
    batch[c] \cap (CASE kind = "sms" -> Bad \cup Uncounted
                     [] kind \in {"call", "subs"} -> Entry
                     [] OTHER -> Bad)

\* The loop over the entries, no await in it.  Add_Contact_Subs_Event raises on
\* every entry; its upsert of nothing is left out.  Add_Twilio_Call_Event then
\* filters CallTrackingORM by a field it does not have: the handler raises.
Convert(c) ==
    /\ pc[c] = "locked"
    /\ result' = [result EXCEPT ![c] = Invalid(c)]
    /\ Goto(c, CASE kind = "call" -> "sleep"
                 [] kind = "subs" -> "ack"
                 [] OTHER -> "events")
    /\ UNCHANGED <<kind, where, batch, rows, counts, valid, faults>>

\* Reading the tracking rows fails, outside the try: the handler raises.
QueryFails(c) ==
    /\ pc[c] = "locked" /\ kind \in {"email", "sms"} /\ Fault /\ Goto(c, "sleep")
    /\ UNCHANGED <<kind, where, batch, result, rows, counts, valid>>

Objs(c) == batch[c] \ Bad

\* The statistics of the same transaction.
Counted(c) == IF kind = "email" THEN Objs(c) ELSE {}

\* Add_Link_Event counts an entry before it makes a row of it.
Visited(c) == Objs(c) \cup (batch[c] \cap Miscounted)

CommitEvents_AnalyticsFirst(c) ==
    /\ pc[c] = "events"
    /\ IF kind = "link"
       THEN /\ counts' = Bump(counts, Visited(c)) /\ UNCHANGED <<rows, result>>
            /\ Goto(c, "analytics")
       ELSE /\ rows' = Bump(rows, Objs(c)) /\ counts' = Bump(counts, Counted(c))
            /\ result' = [result EXCEPT ![c] = batch[c]]
            /\ Goto(c, "ack")
    /\ UNCHANGED <<kind, where, batch, valid, faults>>

\* The transaction that creates the event rows commits.
CommitEvents(c) ==
    /\ pc[c] = "events"
    /\ rows' = Bump(rows, Objs(c))
    /\ counts' = Bump(counts, Counted(c))
    /\ IF kind = "link"
       THEN Goto(c, "analytics") /\ UNCHANGED result
       ELSE Goto(c, "ack") /\ result' = [result EXCEPT ![c] = batch[c]]
    /\ UNCHANGED <<kind, where, batch, valid, faults>>

EventsFail_ReturnAll(c) ==
    /\ pc[c] = "events" /\ Fault
    /\ \/ UNCHANGED <<rows, counts>>
       \/ rows' = Bump(rows, Objs(c)) /\ counts' = Bump(counts, Counted(c))
    /\ Goto(c, "ack") /\ result' = [result EXCEPT ![c] = batch[c]]
    /\ UNCHANGED <<kind, where, batch, valid>>

\* It raises: rolled back, or committed with its answer lost.  The except
\* clause returns the invalid ids only.
EventsFail(c) ==
    /\ pc[c] = "events" /\ Fault
    /\ \/ UNCHANGED <<rows, counts>>
       \/ rows' = Bump(rows, Objs(c)) /\ counts' = Bump(counts, Counted(c))
    /\ Goto(c, "ack")
    /\ UNCHANGED <<kind, where, batch, result, valid>>

\* retry_logic: an IntegrityError rolls the transaction back; run it again.
EventsRetried(c) ==
    /\ pc[c] = "events" /\ kind \in {"email", "sms"} /\ Fault
    /\ UNCHANGED <<kind, where, pc, batch, result, rows, counts, valid>>

\* Add_Link_Event's second transaction
CommitAnalytics(c) ==
    /\ pc[c] = "analytics"
    /\ counts' = Bump(counts, Visited(c))
    /\ result' = [result EXCEPT ![c] = batch[c]]
    /\ Goto(c, "ack")
    /\ UNCHANGED <<kind, where, batch, rows, valid, faults>>

AnalyticsFail(c) ==
    /\ pc[c] = "analytics" /\ Fault
    /\ counts' \in {counts, Bump(counts, Visited(c))}
    /\ Goto(c, "ack")
    /\ UNCHANGED <<kind, where, batch, result, rows, valid>>

Ack_NoDelete(c) ==
    /\ pc[c] = "ack" /\ Goto(c, "sleep") /\ Move(result[c], "acked")
    /\ UNCHANGED <<kind, batch, result, rows, counts, valid, faults>>

\* XACK; with no id it is refused and the bare except goes on
Ack(c) ==
    /\ pc[c] = "ack"
    /\ IF result[c] = {}
       THEN Goto(c, "sleep") /\ UNCHANGED where
       ELSE Goto(c, "del") /\ Move(result[c], "acked")
    /\ UNCHANGED <<kind, batch, result, rows, counts, valid, faults>>

Del(c) ==
    /\ pc[c] = "del" /\ Move(result[c], "deleted") /\ Goto(c, "sleep")
    /\ UNCHANGED <<kind, batch, result, rows, counts, valid, faults>>

\* A Redis command of the loop fails: the bare except goes on
RedisFails(c) ==
    /\ pc[c] \in {"ack", "del"} /\ Fault /\ Goto(c, "sleep")
    /\ UNCHANGED <<kind, where, batch, result, rows, counts, valid>>

\* close_connections cancels the task, or the process stops; the open
\* transaction is rolled back and the reader lock released
Stop(c) ==
    /\ pc[c] # "off" /\ Fault /\ Goto(c, "off")
    /\ UNCHANGED <<kind, where, batch, result, rows, counts, valid>>

\* register_consumer in the process that replaces it
Restart(c) ==
    /\ pc[c] = "off" /\ Goto(c, "sleep")
    /\ UNCHANGED <<kind, where, batch, result, rows, counts, valid, faults>>

\* Another task changes the service's status under the writer lock.
SetStatus ==
    /\ \A c \in Consumer : pc[c] \notin InHandler
    /\ valid' = ~valid
    /\ (valid => Fault) /\ (~valid => UNCHANGED faults)
    /\ UNCHANGED <<kind, where, pc, batch, result, rows, counts>>

Handler(c) ==
    \/ Enter(c) \/ Convert(c) \/ CommitEvents(c) \/ CommitAnalytics(c)
Consume(c) == Read(c) \/ Handler(c) \/ Ack(c) \/ Del(c) \/ Restart(c)
Failures(c) ==
    \/ QueryFails(c) \/ EventsFail(c) \/ EventsRetried(c) \/ AnalyticsFail(c)
    \/ RedisFails(c) \/ Stop(c)

Next ==
    \/ \E e \in Entry : Add(e)
    \/ \E c \in Consumer : Consume(c) \/ Failures(c)
    \/ SetStatus

\* The consumers' tasks run, a stopped process is started again.
Fairness == \A c \in Consumer : WF_vars(Consume(c))

Spec == Init /\ [][Next]_vars
FairSpec == Spec /\ Fairness

-----------------------------------------------------------------------------
\* Whatever fails or stops, and although retry_logic runs a transaction again,
\* an entry's row is created at most once and it is counted at most once.
RecordedOnce == \A e \in Entry : rows[e] <= 1 /\ counts[e] <= 1

\* Add_Link_Event's two transactions and Add_Email_Event's one: what the analytics
\* count has its event row by then, whichever of them fails, save the link entries
\* that were rejected after they had been counted: those have no row, ever, and are
\* off the stream or in hand when they are counted, so that nobody counts them again.
CountedIsRecorded ==
    \A e \in Entry :
        \/ counts[e] <= rows[e]
        \/ /\ kind = "link" /\ e \in Miscounted /\ rows[e] = 0
           /\ counts[e] = 1 /\ where[e] \notin {"absent", "new"}

\* What _consume_stream deletes is recorded, and counted when its handler
\* counts, unless its handler had found it invalid.
DeletedIsRecorded ==
    kind \in {"link", "email", "tracking"} =>
      \A e \in Entry : where[e] \in {"acked", "deleted"} /\ e \notin Bad =>
        rows[e] = 1 /\ (kind # "tracking" => counts[e] = 1)

\* The group hands each entry out once, in spite of stops and restarts.
Delivery == INSTANCE AtMostOnce WITH
    handedOut <- {e \in Entry : where[e] \in {"pending", "acked", "deleted"}},
    effects <- rows,
    removed <- {e \in Entry : where[e] = "deleted"}
DeliveredAtMostOnce == Delivery!ASpec

\* Without failures an entry of a link, email, SMS, subscription or tracking stream
\* is deleted in the end: none stays in the group's pending list.
EntryIsDeleted ==
    \A e \in Entry :
        [](where[e] = "new" /\ kind # "call" /\ [](faults = 0) => <>(where[e] = "deleted"))
=============================================================================
