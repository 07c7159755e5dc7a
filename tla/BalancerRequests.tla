-------------------------- MODULE BalancerRequests --------------------------
(***************************************************************************)
(* HTTP requests over the connection layer: ActiveMiddleware admits a      *)
(* request, ProxyAgentService.ChooseServer takes a snapshot of the active  *)
(* servers under HealthService.mu and each client's mutex in turn, and the *)
(* request is forwarded.  Clients connect and leave between any two steps. *)
(***************************************************************************)
EXTENDS PingPong

VARIABLES
    reqPc,    \* program counter of the handler of each request
    toVisit,  \* clients the range over ppClient has yet to visit
    servers,  \* the slice ActiveServer builds
    crashed,  \* an unrecovered panic has ended the process
    steady,   \* history: clients connected since the snapshot began, while it lasts
    seen      \* history: clients connected at some time since, while it lasts

reqVars == <<reqPc, toVisit, servers>>
allVars == <<vars, reqVars, crashed, steady, seen>>

Connected == {c \in Client : connected[c]}

ReqInit ==
    /\ Init
    /\ reqPc = [r \in Reader |-> "idle"]
    /\ toVisit = [r \in Reader |-> {}]
    /\ servers = [r \in Reader |-> {}]
    /\ crashed = FALSE
    /\ steady = [r \in Reader |-> {}]
    /\ seen = [r \in Reader |-> {}]

ReqStep(r, from, to) == reqPc[r] = from /\ reqPc' = [reqPc EXCEPT ![r] = to]

HealthUntouched == UNCHANGED <<smVars, lockVars, ioVars, active, wfVars, shutVars, crashed>>

\* The listener accepts a request; Fiber.Shutdown closes it before it waits.
Arrive(r) ==
    /\ startPc = "listen" /\ shutPc # "fiber"
    /\ ReqStep(r, "idle", "active")
    /\ HealthUntouched /\ UNCHANGED <<hmu, toVisit, servers, steady, seen>>

\* ActiveMiddleware: activePpConnection <= 0 is answered with a 500.
ActiveMiddleware(r) ==
    /\ "shut" \notin hmu
    /\ ReqStep(r, "active", IF active <= 0 THEN "idle" ELSE "lock")
    /\ HealthUntouched /\ UNCHANGED <<hmu, toVisit, servers, steady, seen>>

\* ActiveServer: health.mu.RLock()
SnapshotLock(r) ==
    /\ "shut" \notin hmu
    /\ ReqStep(r, "lock", "visit")
    /\ hmu' = hmu \cup {r}
    /\ toVisit' = [toVisit EXCEPT ![r] = Client]
    /\ servers' = [servers EXCEPT ![r] = {}]
    /\ steady' = [steady EXCEPT ![r] = Connected]
    /\ seen' = [seen EXCEPT ![r] = Connected]
    /\ HealthUntouched

SnapshotVisit_FirstOnly(r, c) ==
    /\ c \in toVisit[r] /\ mu[c] = "free"
    /\ ReqStep(r, "visit", "visit")
    /\ toVisit' = [toVisit EXCEPT ![r] = IF connected[c] THEN {} ELSE @ \ {c}]
    /\ servers' = [servers EXCEPT ![r] = IF connected[c] /\ started[c] THEN @ \cup {c} ELSE @]
    /\ HealthUntouched /\ UNCHANGED <<hmu, steady, seen>>

\* One iteration: Connected is read under the client's read lock.
SnapshotVisit(r, c) ==
    /\ c \in toVisit[r] /\ mu[c] = "free"
    /\ ReqStep(r, "visit", "visit")
    /\ toVisit' = [toVisit EXCEPT ![r] = @ \ {c}]
    /\ servers' = [servers EXCEPT ![r] = IF connected[c] /\ started[c] THEN @ \cup {c} ELSE @]
    /\ HealthUntouched /\ UNCHANGED <<hmu, steady, seen>>

SnapshotUnlock(r) ==
    /\ toVisit[r] = {}
    /\ ReqStep(r, "visit", "choose")
    /\ hmu' = hmu \ {r}
    /\ HealthUntouched /\ UNCHANGED <<toVisit, servers, steady, seen>>

\* algorithm.Next(servers), or every server for a split request: on no server
\* rand.Intn(0), and `%` by the length, panic outside of any recover.  The slice
\* is not used again.
ChooseServer(r) ==
    /\ ReqStep(r, "choose", "forward")
    /\ crashed' = (servers[r] = {})
    /\ servers' = [servers EXCEPT ![r] = {}]
    /\ steady' = [steady EXCEPT ![r] = {}]
    /\ seen' = [seen EXCEPT ![r] = {}]
    /\ UNCHANGED <<smVars, lockVars, ioVars, active, hmu, wfVars, shutVars, toVisit>>

\* CopyRequest sends the request to the server it was given.
Send(r) ==
    /\ ReqStep(r, "forward", "await")
    /\ HealthUntouched /\ UNCHANGED <<hmu, toVisit, servers, steady, seen>>

\* A 503 is sent again, without a pause and without counting: retry stays 0.
Unavailable(r) ==
    /\ ReqStep(r, "await", "forward")
    /\ HealthUntouched /\ UNCHANGED <<hmu, toVisit, servers, steady, seen>>

\* Another answer, or a transport error: the handler has its answer and returns.
Forwarded(r) ==
    /\ ReqStep(r, "await", "idle")
    /\ HealthUntouched /\ UNCHANGED <<hmu, toVisit, servers, steady, seen>>

Handle(r) ==
    \/ ActiveMiddleware(r) \/ SnapshotLock(r) \/ SnapshotUnlock(r)
    \/ (\E c \in Client : SnapshotVisit(r, c))
    \/ ChooseServer(r) \/ Send(r)

\* The server's part.  The HTTP client has no timeout: it may never come.
ServerAnswers(r) == Unavailable(r) \/ Forwarded(r)

\* Fiber.Shutdown returns once no request is being handled.
Drained == shutPc = "fiber" /\ startPc = "listen" => \A r \in Reader : reqPc[r] = "idle"

\* A step A of the connection layer, and what it means for the histories.
Beneath(A) ==
    /\ A /\ UNCHANGED <<reqVars, crashed>>
    /\ steady' = [r \in Reader |-> {c \in steady[r] : connected'[c] \/ reqPc[r] # "visit"}]
    /\ seen' = [r \in Reader |-> seen[r] \cup {c \in Client : connected'[c] /\ reqPc[r] = "visit"}]

HealthNext == Beneath(ClientStep \/ Listen \/ Signal \/ (Drained /\ Shutdown))

ReqNext == ~crashed /\ (HealthNext \/ \E r \in Reader : Arrive(r) \/ Handle(r) \/ ServerAnswers(r))

ReqSpec == ReqInit /\ [][ReqNext]_allVars

\* The scheduler runs every handler, and every goroutine of PingPong.  Nothing
\* obliges a server to answer a request, or ever to answer other than 503.  A
\* sync.RWMutex lets no new reader in while a writer waits: activePpConnection++
\* gets HealthService.mu however many requests take it for reading.
ReqFairness ==
    /\ \A r \in Reader : WF_allVars(~crashed /\ Handle(r))
    /\ \A c \in Client :
         /\ WF_allVars(~crashed /\ Beneath(StateMachine(c)))
         /\ SF_allVars(~crashed /\ Beneath(CountConnection(c)))
         /\ WF_allVars(~crashed /\ Beneath(Pong(c)))
         /\ WF_allVars(~crashed /\ Beneath(Ping(c)))
    /\ WF_allVars(~crashed /\ Beneath(Listen))
    /\ WF_allVars(~crashed /\ Beneath(Drained /\ Shutdown))

ReqFairSpec == ReqSpec /\ ReqFairness

-----------------------------------------------------------------------------
\* ActiveServer reads one client after another while others come and go: every
\* client connected during the whole snapshot is in it, and nothing is in it
\* that was not connected at some time during the snapshot.
SnapshotConsistent ==
    \A r \in Reader : reqPc[r] = "choose" =>
        steady[r] \subseteq servers[r] /\ servers[r] \subseteq seen[r]

\* What CopyRequest waits for is out of the balancer's hands.
WithServer(r) == reqPc[r] \in {"forward", "await"}

\* A request accepted before any signal is answered, whatever clients do and even
\* if the signal comes meanwhile (no mutex it needs is ever held forever), unless
\* the process dies or the server keeps it for good: by never answering, or by
\* answering 503 each time, which CopyRequest retries without end.
RequestCompletes ==
    \A r \in Reader :
        [](reqPc[r] = "active" /\ shutPc = "run"
           => <>(reqPc[r] = "idle" \/ crashed \/ []WithServer(r)))

\* UnBlock's blocking send happens under wFConn.mu and client.mu: still, of several
\* clients that connect at the same time each one ends up running or quits, as long
\* as no signal comes and the process lives.
ConnectSettles ==
    \A c \in Client :
        [](SmAt(c, "perm") /\ [](shutPc = "run") => <>(smPc[c] \in {"wait", "done"} \/ crashed))

=============================================================================
