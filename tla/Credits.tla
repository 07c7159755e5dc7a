------------------------------ MODULE Credits ------------------------------
(***************************************************************************)
(* One credit of CostService: its balance and monthly bills in Redis, the   *)
(* requests that check, deduct and refund it, and the Lua functions an      *)
(* operator calls.  COST_FLAG is on.  Requests come in four kinds:          *)
(*   "task"    TaskCostInterceptor: pay, then run the handler;              *)
(*   "data"    DataCostInterceptor('purchase'): check, run, pay;            *)
(*   "token"   the agentic server and the ingestion jobs: run, pay;         *)
(*   "refund"  DataCostInterceptor('refund'): run, refund.                  *)
(***************************************************************************)
EXTENDS Integers, Sequences, SequencesExt

CONSTANTS Request,
          Costs,            \* what a bill may add up to
          InitialBalances,  \* of the credit: Absent before 'initialize' ran
          Absent,
          RetryLimit,       \* deduct_credits's retry_limit
          OverdraftAllowed, \* rule credit_overdraft_allowed
          Topups, Sets,     \* values the operator gives
          MaxMonth, MaxOps, \* bounds of the model: months, the operator's calls,
          MaxFaults         \* connections lost

ASSUME CreditsAssumption ==
    /\ Costs \subseteq Nat /\ Topups \subseteq Nat /\ Sets \subseteq Nat
    /\ Absent \notin Int /\ InitialBalances \subseteq Nat \cup {Absent}
    /\ RetryLimit \in Nat \ {0} /\ MaxMonth \in Nat \ {0} /\ MaxOps \in Nat /\ MaxFaults \in Nat
    /\ OverdraftAllowed \in BOOLEAN /\ "operator" \notin Request

Months == 1..MaxMonth
Kinds == {"task", "data", "token", "refund"}

VARIABLES
    balance,  \* Redis: the credit's key
    bills,    \* Redis: per month, the list; LPUSH puts the newest first
    receipts, \* Redis: what bill_squash pushed
    month, ops,
    kind, cost, pc, \* per request
    seen,     \* per request: the balance it read
    filed,    \* per request: the month its queued bill is for
    dirty,    \* per request: Redis saw a write to the watched key
    tries,    \* per request: deduct_credits's retry
    faults,
    \* per request, for the properties:
    lost,     \* tries that ended with the connection
    unheard,  \* those whose EXEC Redis had run
    rivals    \* writes by others while it pays

store == <<balance, bills, receipts, month, ops>>
local == <<kind, cost, seen, filed, tries, faults, lost, unheard>>
vars == <<balance, bills, receipts, month, ops, kind, cost, pc, seen, filed,
          dirty, tries, faults, lost, unheard, rivals>>

\* deduct_credits's steps, and the ends of a request: answered, "refused" for
\* want of credits, "failed" after RetryLimit tries or without Redis, "broke": a handler or a refund raised
Paying == {"watch", "get", "exec"}
Ended == {"done", "refused", "failed", "broke"}
Amount == IF balance = Absent THEN 0 ELSE balance
Bill == [req : Request \cup {"operator"}, total : Int, before : Int, after : Int]
Receipt == [total : Int, count : Nat, before : Int, after : Int]

TypeOK ==
    /\ balance \in Int \cup {Absent}
    /\ bills \in [Months -> Seq(Bill)] /\ receipts \in Seq(Receipt)
    /\ month \in Months /\ ops \in 0..MaxOps
    /\ kind \in [Request -> Kinds] /\ cost \in [Request -> Costs]
    /\ pc \in [Request -> {"check", "work", "refund"} \cup Paying \cup Ended]
    /\ seen \in [Request -> Int] /\ filed \in [Request -> Months]
    /\ dirty \in [Request -> BOOLEAN]
    /\ tries \in [Request -> 0..RetryLimit] /\ rivals \in [Request -> Nat]
    /\ faults \in 0..MaxFaults
    /\ lost \in [Request -> Nat] /\ unheard \in [Request -> Nat]

Init ==
    /\ balance \in InitialBalances
    /\ bills = [m \in Months |-> <<>>] /\ receipts = <<>>
    /\ month = 1 /\ ops = 0
    /\ kind \in [Request -> Kinds] /\ cost \in [Request -> Costs]
    /\ pc = [r \in Request |-> CASE kind[r] = "task" -> "watch"
                                  [] kind[r] = "data" -> "check"
                                  [] OTHER -> "work"]
    /\ seen = [r \in Request |-> 0] /\ filed = [r \in Request |-> 1]
    /\ dirty = [r \in Request |-> FALSE]
    /\ tries = [r \in Request |-> 0] /\ rivals = [r \in Request |-> 0] /\ faults = 0
    /\ lost = [r \in Request |-> 0] /\ unheard = [r \in Request |-> 0]

Goto(r, to) == pc' = [pc EXCEPT ![r] = to]

\* A write to the key: connections that WATCH it are marked.
Write(by, v) ==
    /\ balance' = v
    /\ dirty' = [r \in Request |-> dirty[r] \/ (r # by /\ pc[r] \in {"get", "exec"})]
    /\ rivals' = [r \in Request |->
                     IF r # by /\ pc[r] \in Paying THEN rivals[r] + 1 ELSE rivals[r]]
Push(m, b) == bills' = [bills EXCEPT ![m] = <<b>> \o @]

\* check_enough_credits, in the interceptor's first half
CheckEnoughCredits(r) ==
    /\ pc[r] = "check"
    /\ Goto(r, IF balance = Absent \/ Amount <= 0 \/ Amount < cost[r] THEN "refused"
                                                                      ELSE "work")
    /\ UNCHANGED <<store, local, dirty, rivals>>

\* The handler; one that raises skips the interceptor's second half.
Work(r) ==
    /\ pc[r] = "work"
    /\ \/ Goto(r, "broke")
       \/ Goto(r, CASE kind[r] = "task" -> "done"
                    [] kind[r] = "refund" -> "refund"
                    [] OTHER -> "watch")
    /\ UNCHANGED <<store, local, dirty, rivals>>

\* refund_credits: a GET queued on a pipeline that watches nothing returns the
\* pipeline, and int() of it raises before any command is sent.
RefundCredits(r) ==
    /\ pc[r] = "refund" /\ Goto(r, "broke")
    /\ UNCHANGED <<store, local, dirty, rivals>>

Watch_NoReset(r) ==
    /\ pc[r] = "watch" /\ Goto(r, "get")
    /\ UNCHANGED <<store, local, dirty, rivals>>

Watch(r) ==
    /\ pc[r] = "watch" /\ Goto(r, "get")
    /\ dirty' = [dirty EXCEPT ![r] = FALSE]
    /\ UNCHANGED <<store, local, rivals>>

Queue(r) ==
    /\ Goto(r, "exec")
    /\ seen' = [seen EXCEPT ![r] = balance]
    /\ filed' = [filed EXCEPT ![r] = month]
    /\ UNCHANGED <<store, kind, cost, tries, faults, lost, unheard, dirty, rivals>>

Get_AnyBalance(r) == pc[r] = "get" /\ balance # Absent /\ Queue(r)

\* The balance, then MULTI, SET and LPUSH are queued; int(None) raises like
\* InsufficientCreditsError.
Get(r) ==
    /\ pc[r] = "get"
    /\ \/ /\ balance # Absent /\ (Amount >= cost[r] \/ OverdraftAllowed)
          /\ Queue(r)
       \/ /\ balance = Absent \/ (Amount < cost[r] /\ ~OverdraftAllowed)
          /\ Goto(r, "refused")
          /\ UNCHANGED <<store, local, dirty, rivals>>

BillOf(r) == [req |-> r, total |-> cost[r], before |-> seen[r], after |-> seen[r] - cost[r]]

\* What EXEC does in Redis.
Charge(r) ==
    /\ Write(r, seen[r] - cost[r])
    /\ IF cost[r] = 0 THEN UNCHANGED bills ELSE Push(filed[r], BillOf(r))
    /\ UNCHANGED <<receipts, month, ops>>

Commit(r) ==
    /\ Charge(r)
    /\ Goto(r, IF kind[r] = "task" THEN "work" ELSE "done")
    /\ UNCHANGED local

\* except WatchError: the next try, unless it was the last
Retry(r) ==
    /\ tries' = [tries EXCEPT ![r] = @ + 1]
    /\ Goto(r, IF tries[r] + 1 < RetryLimit THEN "watch" ELSE "failed")
    /\ UNCHANGED <<kind, cost, seen, filed>>

Exec_Unwatched(r) == pc[r] = "exec" /\ Commit(r)

Exec_BillFirst(r) ==
    /\ pc[r] = "exec"
    /\ \/ ~dirty[r] /\ Commit(r)
       \/ /\ dirty[r] /\ cost[r] # 0 /\ Push(filed[r], BillOf(r)) /\ Retry(r)
          /\ UNCHANGED <<balance, receipts, month, ops, faults, lost, unheard, dirty, rivals>>

\* EXEC: all of it, or WatchError and another try; reset() ends the WATCH
Exec(r) ==
    /\ pc[r] = "exec"
    /\ \/ ~dirty[r] /\ Commit(r)
       \/ /\ dirty[r] /\ Retry(r)
          /\ UNCHANGED <<store, faults, lost, unheard, dirty, rivals>>

Fault == faults < MaxFaults /\ faults' = faults + 1

\* The connection is lost under a WATCH, which redis-py reports as WatchError too:
\* before Redis ran the command, or after EXEC, of which the reply is missing.
Disconnect(r) ==
    /\ pc[r] \in {"get", "exec"} /\ Fault /\ Retry(r)
    /\ lost' = [lost EXCEPT ![r] = @ + 1]
    /\ \/ UNCHANGED <<store, unheard, dirty, rivals>>
       \/ /\ pc[r] = "exec" /\ ~dirty[r] /\ Charge(r)
          /\ unheard' = [unheard EXCEPT ![r] = @ + 1]

\* No connection for the first command: its error is not caught.
Unreachable(r) ==
    /\ pc[r] \in {"check", "watch"} /\ Fault /\ Goto(r, "failed")
    /\ UNCHANGED <<store, kind, cost, seen, filed, tries, lost, unheard, dirty, rivals>>

-----------------------------------------------------------------------------
Operate == ops < MaxOps /\ ops' = ops + 1

\* credit_transaction: v is added to the balance, or is the balance
Transaction(v, new) ==
    /\ Operate /\ Write("operator", new)
    /\ Push(month, [req |-> "operator", total |-> 0 - v, before |-> Amount, after |-> new])
    /\ UNCHANGED <<receipts, month, pc, local>>

Topup(v) == Transaction(v, Amount + v)
SetBalance(v) == Transaction(v, v)

SumTo(f, n) == LET s[k \in 0..n] == IF k = 0 THEN 0 ELSE s[k - 1] + f[k] IN s[n]
TotalOf(bs) == SumTo([i \in 1..Len(bs) |-> bs[i].total], Len(bs))

Squashed(m) ==
    IF bills[m] = <<>>
    THEN [total |-> 0, count |-> 0, before |-> Amount, after |-> Amount]
    ELSE [total |-> TotalOf(bills[m]),
          count |-> Len(bills[m]),
          before |-> Head(bills[m]).before, after |-> Last(bills[m]).after]

Squash_NoTrim(m) ==
    /\ Operate /\ m \in {month, month - 1} \cap Months
    /\ receipts' = <<Squashed(m)>> \o receipts
    /\ UNCHANGED <<balance, bills, month, pc, local, dirty, rivals>>

\* bill_squash, newest bill first.  The script computed the month when it
\* started: it may be the one before.
Squash(m) ==
    /\ Operate /\ m \in {month, month - 1} \cap Months
    /\ receipts' = <<Squashed(m)>> \o receipts
    /\ bills' = [bills EXCEPT ![m] = <<>>]
    /\ UNCHANGED <<balance, month, pc, local, dirty, rivals>>

NextMonth ==
    /\ month < MaxMonth /\ month' = month + 1
    /\ UNCHANGED <<balance, bills, receipts, ops, pc, local, dirty, rivals>>

RequestStep(r) ==
    \/ CheckEnoughCredits(r) \/ Work(r) \/ RefundCredits(r)
    \/ Watch(r) \/ Get(r) \/ Exec(r) \/ Disconnect(r) \/ Unreachable(r)

Next ==
    \/ \E r \in Request : RequestStep(r)
    \/ \E v \in Topups : Topup(v)
    \/ \E v \in Sets : SetBalance(v)
    \/ \E m \in Months : Squash(m)
    \/ NextMonth

Spec == Init /\ [][Next]_vars

-----------------------------------------------------------------------------
\* Without the overdraft rule payments never take the balance below
\* zero, whatever was read before (deduct_credits's WATCH and comparison).
NoOverdraft == OverdraftAllowed \/ Amount >= 0

\* A month's list is a gapless account: each bill starts from the balance the one
\* before it left, and the current month's newest bill shows the balance.  A bill
\* queued before midnight and executed after it does not break the chain.
Chained(bs) == \A i \in 1..(Len(bs) - 1) : bs[i].before = bs[i + 1].after
LedgerChain ==
    /\ \A m \in Months : Chained(bills[m])
    /\ bills[month] # <<>> => Head(bills[month]).after = balance

\* Bills and receipts account for every credit that comes or goes: no payment loses
\* or repeats one, nor does squashing.  (Not so "set": credit_transaction's bill
\* for it leaves out what the balance was.)
Billed == TotalOf(receipts) + SumTo([m \in Months |-> TotalOf(bills[m])], MaxMonth)
AddsUp == [][(\A v \in Sets : ~SetBalance(v)) => (Amount + Billed)' = Amount + Billed]_vars

\* What a request was charged: deduct_credits returned, and tries before that
\* which it took for failures.
Paid(r) ==
    \/ kind[r] = "task" /\ pc[r] \in {"work", "done", "broke"}
    \/ kind[r] \in {"data", "token"} /\ pc[r] = "done"
Charges(r) == unheard[r] + (IF Paid(r) THEN 1 ELSE 0)

\* Every charge of a request has its bill, also one that deduct_credits made twice
\* after a lost reply, and nothing else is billed to it, however often it tried;
\* squashing only takes bills away.
CountOf(bs, r) == SumTo([i \in 1..Len(bs) |-> IF bs[i].req = r THEN 1 ELSE 0], Len(bs))
BillsOf(r) == SumTo([m \in Months |-> CountOf(bills[m], r)], MaxMonth)
Billable(r) == IF cost[r] = 0 THEN 0 ELSE Charges(r)
BilledAsCharged ==
    \A r \in Request :
        BillsOf(r) <= Billable(r) /\ (receipts = <<>> => BillsOf(r) = Billable(r))

\* WATCH, the retry and EXEC make a payment atomic: it takes its cost from the balance
\* at once, if that is there or the overdraft is allowed, and never again once
\* deduct_credits has heard so.  (Again it does take it when the reply was lost.)
Purse == INSTANCE Account WITH
    Payer <- Request, Prices <- Costs, InitialFunds <- InitialBalances,
    MayOverdraw <- OverdraftAllowed, Additions <- Topups, Settings <- Sets,
    funds <- balance, paid <- [r \in Request |-> Charges(r)], price <- cost
PaysAtOnce == Purse!AccountSpec

\* deduct_credits uses up its tries for a cause: each of them lost to another write
\* of the balance that was committed meanwhile, or lost its connection.
TriesHaveCauses == \A r \in Request : rivals[r] + lost[r] >= tries[r]
=============================================================================
