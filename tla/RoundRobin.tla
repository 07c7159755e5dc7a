---------------------------- MODULE RoundRobin ----------------------------
(***************************************************************************)
(* RoundRobbinAlgo: a counter shared by every request.  AddUint64 is        *)
(* atomic, reset() takes a mutex the increment does not take, and a caller  *)
(* that went past the limit resets the counter in a later step.             *)
(***************************************************************************)
EXTENDS Naturals, FiniteSets

CONSTANTS Caller,      \* request goroutines inside Next()
          Limit,       \* 1_000_000_000_000_000 in the code
          NumServers   \* len(Servers): fixed here

ASSUME RoundRobinAssumption ==
    /\ IsFiniteSet(Caller)
    /\ Limit \in Nat \ {0}
    /\ NumServers \in Nat \ {0}

VARIABLES
    index,   \* round.index
    at,      \* per caller: "idle", "reset" (past the limit), "pick"
    ticket,  \* the local i
    epoch    \* history: callers whose ticket was drawn since the last reset

rrVars == <<index, at, ticket, epoch>>

RRTypeOK ==
    /\ index \in Nat
    /\ at \in [Caller -> {"idle", "reset", "pick"}]
    /\ ticket \in [Caller -> Nat]
    /\ epoch \subseteq Caller

RRInit ==
    /\ index = 0
    /\ at = [t \in Caller |-> "idle"]
    /\ ticket = [t \in Caller |-> 0]
    /\ epoch = {}

Draw_ReadThenWrite(t) ==
    /\ at[t] = "idle"
    /\ ticket' = [ticket EXCEPT ![t] = index + 1]
    /\ \E lost \in BOOLEAN : index' = IF lost THEN index ELSE index + 1
    /\ at' = [at EXCEPT ![t] = IF index + 1 > Limit THEN "reset" ELSE "pick"]
    /\ epoch' = epoch \cup {t}

\* i := atomic.AddUint64(&round.index, 1), and the comparison with the limit
Draw(t) ==
    /\ at[t] = "idle"
    /\ index' = index + 1
    /\ ticket' = [ticket EXCEPT ![t] = index + 1]
    /\ at' = [at EXCEPT ![t] = IF index + 1 > Limit THEN "reset" ELSE "pick"]
    /\ epoch' = epoch \cup {t}

\* round.reset()
Reset(t) ==
    /\ at[t] = "reset"
    /\ index' = 0
    /\ at' = [at EXCEPT ![t] = "pick"]
    /\ epoch' = {}
    /\ UNCHANGED ticket

\* Servers[i % len(Servers)]
Chosen(t) == ticket[t] % NumServers

Pick(t) ==
    /\ at[t] = "pick"
    /\ at' = [at EXCEPT ![t] = "idle"]
    /\ ticket' = [ticket EXCEPT ![t] = 0]
    /\ epoch' = epoch \ {t}
    /\ UNCHANGED index

RRNext == \E t \in Caller : Draw(t) \/ Reset(t) \/ Pick(t)

RRSpec == RRInit /\ [][RRNext]_rrVars

-----------------------------------------------------------------------------
\* The counter is compared and reset in two steps, yet it exceeds the limit by
\* no more than the callers that are about to reset it: the uint64 never wraps.
Pending == {t \in Caller : at[t] = "reset"}
IndexBounded == index <= Limit + Cardinality(Pending)

\* Callers that draw between two resets get different tickets, so that
\* NumServers consecutive ones reach every server.
TicketsDistinct ==
    \A t, u \in epoch : t # u => ticket[t] # ticket[u]
=============================================================================
