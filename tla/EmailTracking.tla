--------------------------- MODULE EmailTracking ---------------------------
(***************************************************************************)
(* The tracking of emails: after its response a request streams a row and a *)
(* first event; the sender, which may run before, during or after that, and *)
(* the recipient's clicks stream further events; consumers of               *)
(* the two streams write rows, events, statuses and the day's analytics     *)
(* (Add_Email_Event); an hourly job of the database settles the emails      *)
(* nothing was heard of (set_email_delivered), a daily one deletes rows.    *)
(* PostgreSQL runs both at READ COMMITTED: a transaction is a sequence of   *)
(* steps, its locks follow from where it is, its writes show at its commit. *)
(***************************************************************************)
EXTENDS Integers, Sequences, FiniteSets

CONSTANTS Email, Consumer,
          Count,       \* entries a consumer reads at once
          Attempts,    \* retry_logic's
          Outcomes,    \* the ways a sending ends
          MaxFaults,   \* bound of the model: failures, stopped processes, deleted rows
          MaxVisits    \* bound of the model: opened pixels and followed links

ASSUME EmailTrackingAssumption ==
    /\ IsFiniteSet(Email)
    /\ Count \in Nat \ {0} /\ Attempts \in Nat \ {0}
    /\ Outcomes \subseteq {"SENT", "FAILED", "BLOCKED"}
    /\ MaxFaults \in Nat /\ MaxVisits \in Nat

\* One of the kinds that count as "opened", and one that has no counter (BLOCKED).
\* No running code streams a bounce or a reply.
Kind == {"RECEIVED", "SENT", "DELIVERED", "OPENED", "FAILED", "BLOCKED"}
Event == [email : Email, kind : Kind]

VARIABLES
    row,        \* EmailTracking: email_current_status, or why there is no row
    sent,       \* where the request and the sending are
    told,       \* the request's own event has been streamed
    stream,     \* the event stream's unread entries
    visits, faults,
    pc, batch, found, tries,  \* per consumer of the event stream
    cron,       \* set_email_delivered
    recorded,   \* history: the kinds of an email's TrackingEvent rows
    rows,       \* history: TrackingEvent rows inserted, per kind
    analytics   \* the EmailAnalytics row

source   == <<sent, told, visits>>
Fault    == faults < MaxFaults /\ faults' = faults + 1
consumer == <<pc, batch, found, tries>>
tables   == <<recorded, rows, analytics>>
vars     == <<row, source, stream, consumer, cron, tables, faults>>

HasRow == {m \in Email : row[m] \in Kind}

CronIdle == [pc |-> "idle", old |-> {}, sent |-> {}, received |-> {}]

TypeOK ==
    /\ row \in [Email -> Kind \cup {"none", "announced", "gone"}]
    /\ sent \in [Email -> {"no", "asked", "sent", "refused"}]
    /\ told \in [Email -> BOOLEAN] /\ visits \in Nat /\ faults \in Nat
    /\ stream \in Seq(Event)
    /\ pc \in [Consumer -> {"idle", "query", "begin", "update", "insert"}]
    /\ batch \in [Consumer -> Seq(Event)]
    /\ found \in [Consumer -> SUBSET Email] /\ tries \in [Consumer -> Nat]
    /\ cron \in [pc : {"idle", "received", "update", "write"},
                 old : SUBSET Email, sent : SUBSET Email, received : SUBSET Email]
    /\ recorded \in [Email -> SUBSET Kind]
    /\ rows \in [Kind -> Nat] /\ analytics \in [Kind -> Nat]

Init ==
    /\ row = [m \in Email |-> "none"]
    /\ sent = [m \in Email |-> "no"] /\ told = [m \in Email |-> FALSE] /\ visits = 0 /\ faults = 0
    /\ stream = <<>>
    /\ pc = [c \in Consumer |-> "idle"] /\ batch = [c \in Consumer |-> <<>>]
    /\ found = [c \in Consumer |-> {}] /\ tries = [c \in Consumer |-> 0]
    /\ cron = CronIdle
    /\ recorded = [m \in Email |-> {}]
    /\ rows = [k \in Kind |-> 0] /\ analytics = [k \in Kind |-> 0]
-----------------------------------------------------------------------------
Entry(m, k) == [email |-> m, kind |-> k]

\* the route leaves two tasks to be run after its response, and hands the email to
\* the sender: it awaits it, or a later task or a worker sends
Request(m) ==
    /\ sent[m] = "no"
    /\ sent' = [sent EXCEPT ![m] = "asked"]
    /\ UNCHANGED <<row, told, visits, stream, consumer, cron, tables, faults>>

\* the first of the tasks streams the tracking row
Announce(m) ==
    /\ sent[m] # "no" /\ row[m] = "none"
    /\ row' = [row EXCEPT ![m] = "announced"]
    /\ UNCHANGED <<source, stream, consumer, cron, tables, faults>>

\* the second one the event RECEIVED
Tell(m) ==
    /\ row[m] # "none" /\ ~told[m]
    /\ told' = [told EXCEPT ![m] = TRUE]
    /\ stream' = Append(stream, Entry(m, "RECEIVED"))
    /\ UNCHANGED <<row, sent, visits, consumer, cron, tables, faults>>

\* _send_message streams how sendmail ended
Send(m) ==
    /\ sent[m] = "asked"
    /\ \E k \in Outcomes :
          /\ sent' = [sent EXCEPT ![m] = IF k = "SENT" THEN "sent" ELSE "refused"]
          /\ stream' = Append(stream, Entry(m, k))
    /\ UNCHANGED <<row, told, visits, consumer, cron, tables, faults>>

\* a pixel or a link is fetched: two entries, the delivery after the opening
Visit(m) ==
    /\ sent[m] = "sent" /\ visits < MaxVisits
    /\ visits' = visits + 1
    /\ stream' = stream \o <<Entry(m, "OPENED"), Entry(m, "DELIVERED")>>
    /\ UNCHANGED <<row, sent, told, consumer, cron, tables, faults>>

\* Add_Email_Tracking
CreateRow(m) ==
    /\ row[m] = "announced"
    /\ row' = [row EXCEPT ![m] = "RECEIVED"]
    /\ UNCHANGED <<source, stream, consumer, cron, tables, faults>>

\* its transaction fails: the entry stays pending and no one reads it again
CreateFails(m) ==
    /\ row[m] = "announced"
    /\ Fault
    /\ row' = [row EXCEPT ![m] = "gone"]
    /\ UNCHANGED <<source, stream, consumer, cron, tables>>
-----------------------------------------------------------------------------
Goto(c, l) == pc' = [pc EXCEPT ![c] = l]

\* who holds what: the day's analytics row from the upsert on, the tracking rows
\* from the UPDATE on
HoldsAnalytics(c) == pc[c] \in {"update", "insert"}
HandlerHolds(c, m) == pc[c] = "insert" /\ m \in found[c]
CronIds == cron.sent \cup cron.received
CronHolds(m) == cron.pc = "write" /\ m \in CronIds

Read(c) ==
    /\ pc[c] = "idle" /\ stream # <<>>
    /\ \E n \in 1..Count :
          /\ n <= Len(stream) /\ (n = Count \/ n = Len(stream))
          /\ batch' = [batch EXCEPT ![c] = SubSeq(stream, 1, n)]
          /\ stream' = SubSeq(stream, n + 1, Len(stream))
    /\ tries' = [tries EXCEPT ![c] = 0]
    /\ Goto(c, "query")
    /\ UNCHANGED <<row, source, found, cron, tables, faults>>

\* EmailTrackingORM.filter, outside the transaction and before its retries
Query(c) ==
    /\ pc[c] = "query"
    /\ found' = [found EXCEPT ![c] = {m \in HasRow : \E i \in DOMAIN batch[c] : batch[c][i].email = m}]
    /\ Goto(c, "begin")
    /\ UNCHANGED <<row, source, stream, batch, tries, cron, tables, faults>>

\* bulk_upsert_email_analytics: the first statement of the transaction
Upsert(c) ==
    /\ pc[c] = "begin"
    /\ \A d \in Consumer : ~HoldsAnalytics(d)
    /\ Goto(c, "update")
    /\ UNCHANGED <<row, source, stream, batch, found, tries, cron, tables, faults>>

\* bulk_update waits for the rows the job has updated
Update(c) ==
    /\ pc[c] = "update"
    /\ \A m \in found[c] : ~CronHolds(m)
    /\ Goto(c, "insert")
    /\ UNCHANGED <<row, source, stream, batch, found, tries, cron, tables, faults>>

Done(c) ==
    /\ pc' = [pc EXCEPT ![c] = "idle"] /\ batch' = [batch EXCEPT ![c] = <<>>]
    /\ found' = [found EXCEPT ![c] = {}] /\ tries' = [tries EXCEPT ![c] = 0]

Positions(b, k) == {i \in DOMAIN b : b[i].kind = k}
KindsOf(b, m) == {b[i].kind : i \in {j \in DOMAIN b : b[j].email = m}}

\* the status of m after the loop: the kind of its last event
LastKind(b, m) ==
    LET last == CHOOSE i \in DOMAIN b :
                   b[i].email = m /\ \A j \in DOMAIN b : b[j].email = m => j <= i
    IN  b[last].kind

Delta_WrongDict(b, k) ==
    IF k = "BLOCKED" THEN 0
    ELSE IF k = "DELIVERED"
    THEN Cardinality({i \in Positions(b, k) :
                        \A j \in Positions(b, "OPENED") : b[j].email = b[i].email => i < j})
    ELSE Cardinality(Positions(b, k))

\* what the loop has added up: a delivery once per email of the batch
Delta(b, k) ==
    IF k = "BLOCKED" THEN 0
    ELSE IF k = "DELIVERED" THEN Cardinality({b[i].email : i \in Positions(b, k)})
    ELSE Cardinality(Positions(b, k))

\* bulk_create: the foreign key holds, and the transaction commits
Commit(c) ==
    /\ pc[c] = "insert"
    /\ \A i \in DOMAIN batch[c] : batch[c][i].email \in HasRow
    /\ row' = [m \in Email |-> IF m \in found[c] \cap HasRow THEN LastKind(batch[c], m) ELSE row[m]]
    /\ recorded' = [m \in Email |-> recorded[m] \cup KindsOf(batch[c], m)]
    /\ rows' = [k \in Kind |-> rows[k] + Cardinality(Positions(batch[c], k))]
    /\ analytics' = [k \in Kind |-> analytics[k] + Delta(batch[c], k)]
    /\ Done(c)
    /\ UNCHANGED <<source, stream, cron, faults>>

Orphaned_Autocommit(c) ==
    /\ pc[c] = "insert"
    /\ \E i \in DOMAIN batch[c] : batch[c][i].email \notin HasRow
    /\ IF tries[c] + 1 < Attempts
       THEN Goto(c, "begin") /\ tries' = [tries EXCEPT ![c] = @ + 1] /\ UNCHANGED <<batch, found>>
       ELSE Done(c)
    /\ analytics' = [k \in Kind |-> analytics[k] + Delta(batch[c], k)]
    /\ UNCHANGED <<row, source, stream, cron, recorded, rows, faults>>

\* an event without its row: IntegrityError, everything is rolled back and tried
\* again; after the last attempt the batch stays pending, read by no one
Orphaned(c) ==
    /\ pc[c] = "insert"
    /\ \E i \in DOMAIN batch[c] : batch[c][i].email \notin HasRow
    /\ IF tries[c] + 1 < Attempts
       THEN Goto(c, "begin") /\ tries' = [tries EXCEPT ![c] = @ + 1] /\ UNCHANGED <<batch, found>>
       ELSE Done(c)
    /\ UNCHANGED <<row, source, stream, cron, tables, faults>>

\* any other error, or the end of the process: rolled back, pending
Fail(c) == Fault /\ pc[c] # "idle" /\ Done(c) /\ UNCHANGED <<row, source, stream, cron, tables>>

Consume(c) == Query(c) \/ Upsert(c) \/ Update(c) \/ Commit(c) \/ Orphaned(c)
-----------------------------------------------------------------------------
\* the job selects, in two statements, among the rows that are an hour old when it
\* starts; a run that finds none changes nothing
CronSent(old) ==
    /\ cron.pc = "idle" /\ old # {} /\ old \subseteq HasRow
    /\ cron' = [pc |-> "received", old |-> old,
                sent |-> {m \in old : row[m] = "SENT"}, received |-> {}]
    /\ UNCHANGED <<row, source, stream, consumer, tables, faults>>

CronReceived_SentOnly ==
    /\ cron.pc = "received"
    /\ cron' = [cron EXCEPT !.pc = "update"]
    /\ UNCHANGED <<row, source, stream, consumer, tables, faults>>
CronReceived ==
    /\ cron.pc = "received"
    /\ cron' = [cron EXCEPT !.pc = "update",
                            !.received = {m \in cron.old : row[m] = "RECEIVED"}]
    /\ UNCHANGED <<row, source, stream, consumer, tables, faults>>

\* both UPDATEs, by the ids selected before: the status is not looked at again
CronUpdate ==
    /\ cron.pc = "update"
    /\ \A c \in Consumer, m \in CronIds : ~HandlerHolds(c, m)
    /\ cron' = [cron EXCEPT !.pc = "write"]
    /\ UNCHANGED <<row, source, stream, consumer, tables, faults>>

CronKinds_Unlogged(m) == IF m \in cron.received THEN {"FAILED"} ELSE {}

\* the events the job adds
CronKinds(m) == {k \in {"DELIVERED", "FAILED"} :
                    \/ k = "DELIVERED" /\ m \in cron.sent
                    \/ k = "FAILED" /\ m \in cron.received}

CronCount(k) == IF k = "DELIVERED" THEN Cardinality(cron.sent)
                ELSE IF k = "FAILED" THEN Cardinality(cron.received) ELSE 0

\* the events, the analytics and the commit
CronCommit ==
    /\ cron.pc = "write" /\ CronIds \subseteq HasRow
    /\ \A c \in Consumer : ~HoldsAnalytics(c)
    /\ row' = [m \in Email |-> IF m \in cron.received THEN "FAILED"
                               ELSE IF m \in cron.sent THEN "DELIVERED" ELSE row[m]]
    /\ recorded' = [m \in Email |-> recorded[m] \cup CronKinds(m)]
    /\ rows' = [k \in Kind |-> rows[k] + CronCount(k)]
    /\ analytics' = [k \in Kind |-> analytics[k] + CronCount(k)]
    /\ cron' = CronIdle
    /\ UNCHANGED <<source, stream, consumer, faults>>

\* a row was deleted after it was selected: its event has no row, the job is undone
CronOrphaned ==
    /\ cron.pc = "write" /\ ~(CronIds \subseteq HasRow)
    /\ cron' = CronIdle
    /\ UNCHANGED <<row, source, stream, consumer, tables, faults>>

\* handler and job take the analytics and the rows in opposite orders
Crossed(c) == /\ cron.pc = "write" /\ pc[c] = "update"
              /\ \E m \in found[c] : CronHolds(m)

\* PostgreSQL ends one of the two
Deadlocked(c) ==
    /\ Crossed(c)
    /\ \/ Done(c) /\ UNCHANGED cron
       \/ cron' = CronIdle /\ UNCHANGED consumer
    /\ UNCHANGED <<row, source, stream, tables, faults>>

\* delete_expired_email_tracking, once the row is free
Expire(m) ==
    /\ m \in HasRow /\ ~CronHolds(m) /\ \A c \in Consumer : ~HandlerHolds(c, m)
    /\ Fault
    /\ row' = [row EXCEPT ![m] = "gone"]
    /\ UNCHANGED <<source, stream, consumer, cron, tables>>

Cron == CronReceived \/ CronUpdate \/ CronCommit \/ CronOrphaned

Next ==
    \/ \E m \in Email : \/ Request(m) \/ Announce(m) \/ Tell(m) \/ Send(m) \/ Visit(m)
                        \/ CreateRow(m) \/ CreateFails(m) \/ Expire(m)
    \/ \E c \in Consumer : Read(c) \/ Consume(c) \/ Fail(c) \/ Deadlocked(c)
    \/ \E old \in SUBSET Email : CronSent(old)
    \/ Cron

Spec == Init /\ [][Next]_vars

\* some loop that can go on does, PostgreSQL ends deadlocks, and the job is started
\* again and again, in the end with every row an hour old
Fairness == /\ SF_vars(\E c \in Consumer : Consume(c)) /\ WF_vars(\E c \in Consumer : Deadlocked(c))
            /\ WF_vars(Cron) /\ SF_vars(CronSent(HasRow))

FairSpec == Spec /\ Fairness
-----------------------------------------------------------------------------
\* The day's counters and the event rows are written by concurrent transactions that
\* are retried, undone and ended by PostgreSQL, yet they agree, for the kinds whose
\* every event is to be counted.
CountersMatchEvents ==
    \A k \in {"RECEIVED", "SENT", "FAILED"} : analytics[k] = rows[k]

\* Deliveries are counted once per batch: never less than the emails delivered,
\* never more than the events that say so.
DeliveredWithin ==
    /\ Cardinality({m \in Email : "DELIVERED" \in recorded[m]}) <= analytics["DELIVERED"]
    /\ analytics["DELIVERED"] <= rows["DELIVERED"]

\* Whatever the handler and the job overwrite with what they read before, a row's
\* status is the one it was created with or that of an event recorded for it.
StatusIsRecorded ==
    \A m \in HasRow : row[m] = "RECEIVED" \/ row[m] \in recorded[m]

\* No email stays for ever where only the job can settle it, whoever wins the
\* deadlocks between the job and the consumers.
NoLimbo == \A m \in Email : row[m] \in {"SENT", "RECEIVED"} ~> row[m] \notin {"SENT", "RECEIVED"}

\* comment of Add_Email_Event, "Ensure only one open event is tracked per email_id":
\* a batch counts an email as opened once.
OneOpenPerEmail ==
    [][\A c \in Consumer : pc[c] = "insert" /\ pc'[c] = "idle"
          => analytics'["OPENED"] - analytics["OPENED"]
                <= Cardinality({m \in Email : "OPENED" \in KindsOf(batch[c], m)})]_vars
=============================================================================
