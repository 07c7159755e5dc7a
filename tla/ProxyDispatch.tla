--------------------------- MODULE ProxyDispatch ---------------------------
(***************************************************************************)
(* ProxyAgentService.ProxyRequest: one HTTP request, forwarded to one      *)
(* server, or, when it may be split, its list of content items dealt round *)
(* robin over all active servers, one goroutine per server, the answers    *)
(* collected in a sync.Map and merged in whatever order Range visits them. *)
(* Items are their positions in "content"; an answer is a status and the   *)
(* items whose results it carries.                                         *)
(***************************************************************************)
EXTENDS Naturals, FiniteSets

CONSTANTS MaxServers,  \* bound on len(nextUrls)
          MaxItems     \* bound on len(content)

ASSUME ProxyAssumption == MaxServers \in Nat \ {0} /\ MaxItems \in Nat

VARIABLES
    pc,        \* "split", "run" (the goroutines), "merge", "done", "panic"
    canSplit,  \* c.Locals("canSplit")
    servers,   \* len(nextUrls)
    items,     \* len(content)
    worker,    \* the CopyRequest goroutine of each body: "send", "done"
    accepted,  \* items each server has processed, over all its attempts
    syncResp,  \* the answers stored, by index
    reply      \* what the client of the balancer gets

vars == <<pc, canSplit, servers, items, worker, accepted, syncResp, reply>>

Ok == {200, 201}
\* The statuses a server answers with; a 2xx whose body is not JSON has ~json.
Status == Ok \cup {422, 500}

\* What the client sees: Status(0) leaves fasthttp's default, 200.  ids are the
\* indexes of the answers whose request id is in the merged meta.
NoReply == [status |-> 0, results |-> {}, ids |-> {}, merged |-> FALSE]
Seen(status) == IF status = 0 THEN 200 ELSE status

Body_Chunk(n, m, k) == {i \in 0..m - 1 : i \div n = k}

\* SplitRequest: item i goes to the body number i % length, with "index" i.
Body(n, m, k) == {i \in 0..m - 1 : i % n = k}

\* The body given to the goroutine of index k.
Payload(k) == IF canSplit THEN Body(servers, items, k) ELSE 0..items - 1

\* A request that reached ProxyRequest and its snapshot of servers; an empty
\* snapshot panics in ChooseServer when the request is not split.
Init ==
    /\ canSplit \in BOOLEAN
    /\ servers \in IF canSplit THEN 0..MaxServers ELSE {1}
    /\ items \in 0..MaxItems
    /\ pc = "split"
    /\ worker = [k \in 0..MaxServers - 1 |-> "off"]
    /\ accepted = [k \in 0..MaxServers - 1 |-> {}]
    /\ syncResp = << >>
    /\ reply = NoReply

Finish(status, results, ids, merged) ==
    /\ pc' = "done"
    /\ reply' = [status |-> Seen(status), results |-> results, ids |-> ids, merged |-> merged]

\* SplitRequest, then one goroutine per body.  A body that does not decode, or
\* whose content is no list, is an error (500); so are fewer items than servers.
\* No server and some item is a division by zero.
SplitRequest ==
    /\ pc = "split"
    /\ \/ /\ canSplit
          /\ Finish(500, {}, {}, FALSE)
          /\ UNCHANGED worker
       \/ /\ canSplit /\ servers = 0 /\ items > 0
          /\ pc' = "panic"
          /\ UNCHANGED <<worker, reply>>
       \/ /\ canSplit => items >= servers /\ (servers > 0 \/ items = 0)
          /\ pc' = "run"
          /\ worker' = [k \in DOMAIN worker |-> IF k < servers THEN "send" ELSE "off"]
          /\ UNCHANGED reply
    /\ UNCHANGED <<canSplit, servers, items, accepted, syncResp>>

Store(k, answer) == syncResp' = [j \in DOMAIN syncResp \cup {k} |-> IF j = k THEN answer ELSE syncResp[j]]

\* The server processes the body and answers; a 2xx may carry the results of
\* some items and report the others in its "errors".
CopyAnswered(k) ==
    /\ pc = "run" /\ worker[k] = "send"
    /\ \E a \in [status : Status, json : BOOLEAN, results : SUBSET Payload(k)] :
          /\ a.status \notin Ok => a.results = {}
          /\ ~a.json => a.status = 200
          /\ Store(k, a)
          /\ accepted' = [accepted EXCEPT ![k] = @ \cup a.results]
    /\ worker' = [worker EXCEPT ![k] = "done"]
    /\ UNCHANGED <<pc, canSplit, servers, items, reply>>

\* 503: `continue`, for retry stays 0.
CopyUnavailable(k) ==
    /\ pc = "run" /\ worker[k] = "send"
    /\ UNCHANGED vars

\* client.Do fails, or the body cannot be read: nothing is stored.  The server
\* may have processed the items all the same.
CopyFailed(k) ==
    /\ pc = "run" /\ worker[k] = "send"
    /\ worker' = [worker EXCEPT ![k] = "done"]
    /\ \E done \in SUBSET Payload(k) : accepted' = [accepted EXCEPT ![k] = @ \cup done]
    /\ UNCHANGED <<pc, canSplit, servers, items, syncResp, reply>>

\* wg.Wait()
WorkersWait ==
    /\ pc = "run" /\ \A k \in DOMAIN worker : worker[k] # "send"
    /\ pc' = "merge"
    /\ UNCHANGED <<canSplit, servers, items, worker, accepted, syncResp, reply>>

\* ReturnRequest: the answer stored under index 0, or a 500.
ReturnRequest ==
    IF 0 \in DOMAIN syncResp
    THEN Finish(syncResp[0].status, syncResp[0].results, {}, FALSE)
    ELSE Finish(500, {}, {}, FALSE)

Good(k) == syncResp[k].status \in Ok /\ syncResp[k].json

MergeVisited_NotFirst(S) ==
    \E status \in IF S = {} THEN {0} ELSE {syncResp[k].status : k \in S} :
        Finish(status, UNION {syncResp[k].results : k \in S \ {0}}, S, TRUE)

\* Range merges the answers it visits (S) and stops at the first (k) that is
\* not a 2xx or cannot be decoded; status is that of the last 2xx it saw.
MergeVisited(S) ==
    \E status \in IF S = {} THEN {0} ELSE {syncResp[k].status : k \in S} :
        Finish(status, UNION {syncResp[k].results : k \in S}, S, TRUE)

MergeRequest ==
    /\ pc = "merge"
    /\ \/ ~canSplit /\ ReturnRequest
       \/ /\ canSplit /\ \A k \in DOMAIN syncResp : Good(k)
          /\ MergeVisited(DOMAIN syncResp)
       \/ /\ canSplit
          /\ \E k \in DOMAIN syncResp :
                \/ syncResp[k].status = 422 /\ ReturnRequest
                \/ syncResp[k].status \in Ok /\ ~syncResp[k].json /\ Finish(500, {}, {}, FALSE)
                \/ /\ syncResp[k].status = 500
                   /\ \E S \in SUBSET {j \in DOMAIN syncResp : Good(j)} : MergeVisited(S)
    /\ UNCHANGED <<canSplit, servers, items, worker, accepted, syncResp>>

CopyRequest(k) == CopyAnswered(k) \/ CopyUnavailable(k) \/ CopyFailed(k)

Next == SplitRequest \/ (\E k \in DOMAIN worker : CopyRequest(k)) \/ WorkersWait \/ MergeRequest

Spec == Init /\ [][Next]_vars

-----------------------------------------------------------------------------
\* SplitRequest deals every item to exactly one body, and to bodies whose sizes
\* differ by at most one, so that no server gets an empty body.
SplitIsPartition ==
    pc = "run" /\ canSplit =>
        /\ \A i \in 0..items - 1 : \E k \in 0..servers - 1 : i \in Payload(k)
        /\ \A j, k \in 0..servers - 1 : j # k =>
              /\ Payload(j) \cap Payload(k) = {}
              /\ Cardinality(Payload(j)) <= Cardinality(Payload(k)) + 1
              /\ Payload(k) # {}

\* Forwarding does not duplicate: no item is processed by two servers.
ProcessedOnce == \A j, k \in DOMAIN accepted : j # k => accepted[j] \cap accepted[k] = {}

\* When every server gave a good answer MergeRequest reports all that was
\* processed, and the ids of all the requests it was split into.
MergeComplete ==
    /\ pc = "done" /\ canSplit /\ servers > 0
    /\ \A k \in 0..servers - 1 : k \in DOMAIN syncResp /\ Good(k)
    => /\ reply.merged /\ reply.ids = DOMAIN syncResp
       /\ reply.results = UNION {accepted[k] : k \in DOMAIN accepted}
=============================================================================
