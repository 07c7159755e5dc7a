------------------------------ MODULE PingPong ------------------------------
(***************************************************************************)
(* The connection layer of the Go balancer: one PingPongClient per Notifyr *)
(* application, its StateMachine goroutine, the Pong and Ping goroutines   *)
(* the machine starts for each connection, the HealthService that owns the *)
(* clients, the Start goroutine that waits for the first connection, and   *)
(* the main goroutine that shuts everything down.                          *)
(*                                                                         *)
(* One action is one step between two points where another goroutine can   *)
(* run.  A critical section that only reads is one step that waits until   *)
(* no writer holds the mutex.  isTerminated is never set by any caller, so *)
(* the GetIsTerminated checks always pass and are left out.                *)
(***************************************************************************)
EXTENDS Naturals, FiniteSets

CONSTANTS Client,       \* the PingPongClients, one per configured URL
          Reader,       \* HTTP requests that read-lock HealthService.mu
          MaxRetry,     \* MAX_RETRY: transport errors before giving up
          MaxConns,     \* bound on the connections one peer accepts
          NoClient,     \* "no client"
          Leaves,       \* the ways a peer may leave that are explored
          CloseMayFail  \* TRUE when connector.Close() may return an error

\* Close codes a peer's close frame carries; "c1011" stands for the default
\* case, "c4001" is UNEXPECTED_PEER_READ_ERROR and never on the wire.
CloseFrame == {"c1000", "c1001", "c1012", "c1011"}
Code == CloseFrame \cup {"c4001"}

\* The TCP/WebSocket link of a client: "eof" is a peer gone without a close
\* frame (read as CloseError 1006), "neterr" any other read error.
Link == {"none", "up", "eof", "neterr", "closed"} \cup CloseFrame

ASSUME PingPongAssumption ==
    /\ IsFiniteSet(Client)
    /\ NoClient \notin Client
    /\ "shut" \notin Reader
    /\ MaxRetry \in Nat \ {0}
    /\ MaxConns \in Nat
    /\ Leaves \subseteq CloseFrame \cup {"eof", "neterr"}
    /\ CloseMayFail \in BOOLEAN

VARIABLES
    smPc,       \* program counter of client's StateMachine goroutine
    state,      \* PingPongClient.state
    connected,  \* PingPongClient.Connected
    started,    \* PingPongClient.IsStarted
    retry,      \* local retry counter of the loop being run, 0 after it
    mu,         \* who holds PingPongClient.mu for writing
    link,       \* the connection behind PingPongClient.connector
    conns,      \* connections the peer has accepted so far (bound MaxConns)
    pongPc, pingPc,   \* the two goroutines of Run, "off" when not started
    pongCode,   \* the close code Pong passes to Disconnect
    active,     \* HealthService.activePpConnection
    hmu,        \* holders of HealthService.mu: {"shut"}, or readers, or none
    wfStarted, wfMu,  \* WaitForConnection.IsStarted and its mutex
    startPc,    \* the Start goroutine
    shutPc, shutTodo, shutCur  \* the main goroutine: Shutdown()

smVars   == <<smPc, state, started, retry, conns>>
lockVars == <<connected, mu, link>>
ioVars   == <<pongPc, pingPc, pongCode>>
wfVars   == <<wfStarted, wfMu, startPc>>
shutVars == <<shutPc, shutTodo, shutCur>>
vars == <<smVars, lockVars, ioVars, active, hmu, wfVars, shutVars>>

SmPc   == {"switch", "perm", "dial", "lock", "unblock", "unblock2", "send",
           "ret", "torun", "wait", "done"}
MachineTypeOK ==
    /\ smPc \in [Client -> SmPc]
    /\ state \in [Client -> {"TO_CONNECT", "TO_RUN", "TO_QUIT"}]
    /\ connected \in [Client -> BOOLEAN]
    /\ started \in [Client -> BOOLEAN]
    /\ retry \in [Client -> 0..MaxRetry]
LinkTypeOK ==
    /\ mu \in [Client -> {"free", "sm", "leaked"}]
    /\ link \in [Client -> Link]
    /\ conns \in [Client -> 0..MaxConns]
    /\ pongPc \in [Client -> {"off", "check", "read", "disc", "close", "done"}]
    /\ pingPc \in [Client -> {"off", "tick", "write", "done"}]
    /\ pongCode \in [Client -> Code]
SharedTypeOK ==
    /\ active \in Nat
    /\ hmu \in SUBSET ({"shut"} \cup Reader)
    /\ wfStarted \in BOOLEAN
    /\ wfMu \in Client \cup {NoClient}
    /\ startPc \in {"waitconn", "welcome", "listen", "closed"}
    /\ shutPc \in {"run", "fiber", "hlock", "pick", "disc", "close", "waitws",
                   "done"}
    /\ shutTodo \in SUBSET Client
    /\ shutCur \in Client \cup {NoClient}
TypeOK == MachineTypeOK /\ LinkTypeOK /\ SharedTypeOK

Init ==
    /\ smPc = [c \in Client |-> "switch"]
    /\ state = [c \in Client |-> "TO_CONNECT"]
    /\ connected = [c \in Client |-> FALSE]
    /\ started = [c \in Client |-> FALSE]
    /\ retry = [c \in Client |-> 0]
    /\ mu = [c \in Client |-> "free"]
    /\ link = [c \in Client |-> "none"]
    /\ conns = [c \in Client |-> 0]
    /\ pongPc = [c \in Client |-> "off"]
    /\ pingPc = [c \in Client |-> "off"]
    /\ pongCode = [c \in Client |-> "c1000"]
    /\ active = 0
    /\ hmu = {}
    /\ wfStarted = FALSE
    /\ wfMu = NoClient
    /\ startPc = "waitconn"
    /\ shutPc = "run"
    /\ shutTodo = {}
    /\ shutCur = NoClient

-----------------------------------------------------------------------------
(* The StateMachine goroutine.  A definition Op_Slip beside Op is Op with a  *)
(* plausible slip in it: no action uses it, it is there to show that the    *)
(* property it is paired with depends on the code of Op.                    *)

SmAt(c, pc) == smPc[c] = pc
SmGoto(c, pc) == smPc' = [smPc EXCEPT ![c] = pc]

\* case TO_CONNECT: Connect() starts with RequestPermission.
SwitchConnect(c) ==
    /\ SmAt(c, "switch") /\ state[c] = "TO_CONNECT"
    /\ SmGoto(c, "perm")
    /\ retry' = [retry EXCEPT ![c] = 0]
    /\ UNCHANGED <<state, started, conns, lockVars, ioVars, active, hmu, wfVars, shutVars>>

\* case TO_RUN: Run() starts both goroutines, Wait() waits for them.
SwitchRun(c) ==
    /\ SmAt(c, "switch") /\ state[c] = "TO_RUN"
    /\ SmGoto(c, "wait")
    /\ pongPc' = [pongPc EXCEPT ![c] = "check"]
    /\ pingPc' = [pingPc EXCEPT ![c] = "tick"]
    /\ UNCHANGED <<state, started, retry, conns, lockVars, pongCode, active, hmu, wfVars, shutVars>>

\* case TO_QUIT: the goroutine returns and its WaitGroup entry is done.
SwitchQuit(c) ==
    /\ SmAt(c, "switch") /\ state[c] = "TO_QUIT"
    /\ SmGoto(c, "done")
    /\ UNCHANGED <<state, started, retry, conns, lockVars, ioVars, active, hmu, wfVars, shutVars>>

\* Connect() returned an error: state = TO_QUIT and the loop goes round.
ConnectFailed(c) ==
    /\ SmGoto(c, "switch")
    /\ state' = [state EXCEPT ![c] = "TO_QUIT"]

\* A transport error in the permission or the dial loop.
TransportError(c) ==
    /\ smPc[c] \in {"perm", "dial"}
    /\ IF retry[c] + 1 = MaxRetry
       THEN ConnectFailed(c) /\ retry' = [retry EXCEPT ![c] = 0]
       ELSE retry' = [retry EXCEPT ![c] = @ + 1] /\ UNCHANGED <<smPc, state>>
    /\ UNCHANGED <<started, conns, lockVars, ioVars, active, hmu, wfVars, shutVars>>

\* The peer answers the permission request without a usable permission.
PermissionRefused(c) ==
    /\ SmAt(c, "perm")
    /\ ConnectFailed(c)
    /\ retry' = [retry EXCEPT ![c] = 0]
    /\ UNCHANGED <<started, conns, lockVars, ioVars, active, hmu, wfVars, shutVars>>

PermissionGranted(c) ==
    /\ SmAt(c, "perm")
    /\ SmGoto(c, "dial")
    /\ started' = [started EXCEPT ![c] = TRUE]
    /\ retry' = [retry EXCEPT ![c] = 0]
    /\ UNCHANGED <<state, conns, lockVars, ioVars, active, hmu, wfVars, shutVars>>

\* The WebSocket dial succeeds and client.connector is replaced.
DialSucceeds(c) ==
    /\ SmAt(c, "dial") /\ conns[c] < MaxConns
    /\ SmGoto(c, "lock")
    /\ link' = [link EXCEPT ![c] = "up"]
    /\ conns' = [conns EXCEPT ![c] = @ + 1]
    /\ retry' = [retry EXCEPT ![c] = 0]
    /\ UNCHANGED <<state, started, connected, mu, ioVars, active, hmu, wfVars, shutVars>>

\* client.mu.Lock(); Connected = true
MarkConnected(c) ==
    /\ SmAt(c, "lock") /\ mu[c] = "free"
    /\ SmGoto(c, "unblock")
    /\ mu' = [mu EXCEPT ![c] = "sm"]
    /\ connected' = [connected EXCEPT ![c] = TRUE]
    /\ UNCHANGED <<state, started, retry, conns, link, ioVars, active, hmu, wfVars, shutVars>>

\* connectWS returns: the deferred client.mu.Unlock() runs.
ConnectReturns(c) ==
    /\ SmGoto(c, "ret")
    /\ mu' = [mu EXCEPT ![c] = "free"]

\* UnBlock(), the check under the read lock.
UnBlockCheck(c) ==
    /\ SmAt(c, "unblock") /\ wfMu = NoClient
    /\ IF wfStarted THEN ConnectReturns(c)
                    ELSE SmGoto(c, "unblock2") /\ UNCHANGED mu
    /\ UNCHANGED <<state, started, retry, conns, connected, link, ioVars, active, hmu, wfVars, shutVars>>

UnBlockRecheck_Unchecked(c) ==
    /\ SmAt(c, "unblock2") /\ wfMu = NoClient
    /\ SmGoto(c, "send")
    /\ wfStarted' = TRUE
    /\ wfMu' = c
    /\ UNCHANGED <<mu, state, started, retry, conns, connected, link, ioVars, active, hmu, startPc, shutVars>>

\* UnBlock(), the check under the write lock: the first one sends, and holds
\* both wFConn.mu and client.mu while it does.
UnBlockRecheck(c) ==
    /\ SmAt(c, "unblock2") /\ wfMu = NoClient
    /\ IF wfStarted
       THEN /\ ConnectReturns(c)
            /\ UNCHANGED <<wfStarted, wfMu>>
       ELSE /\ SmGoto(c, "send")
            /\ wfStarted' = TRUE
            /\ wfMu' = c
            /\ UNCHANGED mu
    /\ UNCHANGED <<state, started, retry, conns, connected, link, ioVars, active, hmu, startPc, shutVars>>

\* The rendezvous on the unbuffered channel: UnBlock's send, WFNotifyrConn's
\* receive.
UnBlockSend(c) ==
    /\ SmAt(c, "send") /\ startPc = "waitconn"
    /\ ConnectReturns(c)
    /\ wfMu' = NoClient
    /\ startPc' = "welcome"
    /\ UNCHANGED <<state, started, retry, conns, connected, link, ioVars, active, hmu, wfStarted, shutVars>>

\* activePpConnection++ under HealthService.mu
CountConnection(c) ==
    /\ SmAt(c, "ret") /\ hmu = {}
    /\ SmGoto(c, "torun")
    /\ active' = active + 1
    /\ UNCHANGED <<state, started, retry, conns, lockVars, ioVars, hmu, wfVars, shutVars>>

\* client.state = TO_RUN, whatever the state has become since Connect returned.
SetToRun(c) ==
    /\ SmAt(c, "torun")
    /\ SmGoto(c, "switch")
    /\ state' = [state EXCEPT ![c] = "TO_RUN"]
    /\ UNCHANGED <<started, retry, conns, lockVars, ioVars, active, hmu, wfVars, shutVars>>

WaitReturns_PongOnly(c) ==
    /\ SmAt(c, "wait") /\ pongPc[c] = "done"
    /\ SmGoto(c, "switch")
    /\ pongPc' = [pongPc EXCEPT ![c] = "off"]
    /\ UNCHANGED <<state, started, retry, conns, lockVars, pingPc, pongCode, active, hmu, wfVars, shutVars>>

\* wg.Wait() returns once Pong and Ping are both done.
WaitReturns(c) ==
    /\ SmAt(c, "wait") /\ pongPc[c] = "done" /\ pingPc[c] = "done"
    /\ SmGoto(c, "switch")
    /\ pongPc' = [pongPc EXCEPT ![c] = "off"]
    /\ pingPc' = [pingPc EXCEPT ![c] = "off"]
    /\ UNCHANGED <<state, started, retry, conns, lockVars, pongCode, active, hmu, wfVars, shutVars>>

-----------------------------------------------------------------------------
(* The Pong and Ping goroutines *)

\* `if !client.Connected` under the read lock
PongCheck(c) ==
    /\ pongPc[c] = "check" /\ mu[c] = "free"
    /\ pongPc' = [pongPc EXCEPT ![c] = IF connected[c] THEN "read" ELSE "done"]
    /\ UNCHANGED <<smVars, lockVars, pingPc, pongCode, active, hmu, wfVars, shutVars>>

\* What ReadMessage does with the link: a message, a close frame (whose handler
\* calls Disconnect), CloseError 1006 (only logged), net.ErrClosed (ignored),
\* another read error (Disconnect with UNEXPECTED_PEER_READ_ERROR).
PongRead(c) ==
    /\ pongPc[c] = "read"
    /\ \/ /\ link[c] = "up"
          /\ pongPc' = [pongPc EXCEPT ![c] = "check"]
          /\ UNCHANGED pongCode
       \/ /\ link[c] \in CloseFrame
          /\ pongPc' = [pongPc EXCEPT ![c] = "disc"]
          /\ pongCode' = [pongCode EXCEPT ![c] = link[c]]
       \/ /\ link[c] = "neterr"
          /\ pongPc' = [pongPc EXCEPT ![c] = "disc"]
          /\ pongCode' = [pongCode EXCEPT ![c] = "c4001"]
       \/ /\ link[c] \in {"eof", "closed"}
          /\ pongPc' = [pongPc EXCEPT ![c] = "done"]
          /\ UNCHANGED pongCode
    /\ UNCHANGED <<smVars, lockVars, pingPc, active, hmu, wfVars, shutVars>>

StateAfter_QuitOnly(code) == "TO_QUIT"

StateAfter_RetryDefault(code) == IF code \in {"c1000", "c1001"} THEN "TO_QUIT" ELSE "TO_CONNECT"

\* The state Disconnect(false, code) leaves.
StateAfter(code) == IF code \in {"c1012", "c4001"} THEN "TO_CONNECT" ELSE "TO_QUIT"

DisconnectLocked_NoEarlyReturn(c, newState) ==
    /\ mu[c] = "free"
    /\ connected' = [connected EXCEPT ![c] = FALSE]
    /\ state' = [state EXCEPT ![c] = newState]
    /\ UNCHANGED mu

\* Disconnect's critical section: the early return keeps the mutex.
DisconnectLocked(c, newState) ==
    /\ mu[c] = "free"
    /\ IF connected[c]
       THEN /\ connected' = [connected EXCEPT ![c] = FALSE]
            /\ state' = [state EXCEPT ![c] = newState]
            /\ UNCHANGED mu
       ELSE /\ mu' = [mu EXCEPT ![c] = "leaked"]
            /\ UNCHANGED <<connected, state>>

\* connector.Close(), after the unlock; an error sets TO_QUIT without the lock.
CloseConnector(c) ==
    /\ link' = [link EXCEPT ![c] = "closed"]
    /\ \/ UNCHANGED state
       \/ CloseMayFail /\ state' = [state EXCEPT ![c] = "TO_QUIT"]

PongDisconnect(c) ==
    /\ pongPc[c] = "disc"
    /\ DisconnectLocked(c, StateAfter(pongCode[c]))
    /\ pongPc' = [pongPc EXCEPT ![c] = IF connected[c] THEN "close" ELSE "done"]
    /\ UNCHANGED <<smPc, started, retry, conns, link, pingPc, pongCode, active, hmu, wfVars, shutVars>>

PongClose_Twice(c) ==
    /\ pongPc[c] = "close"
    /\ CloseConnector(c)
    /\ pongPc' = [pongPc EXCEPT ![c] = "disc"]
    /\ UNCHANGED <<smPc, started, retry, conns, connected, mu, pingPc, pongCode, active, hmu, wfVars, shutVars>>

PongClose(c) ==
    /\ pongPc[c] = "close"
    /\ CloseConnector(c)
    /\ pongPc' = [pongPc EXCEPT ![c] = "done"]
    /\ UNCHANGED <<smPc, started, retry, conns, connected, mu, pingPc, pongCode, active, hmu, wfVars, shutVars>>

\* A tick: `if !client.Connected` under the read lock
PingTick(c) ==
    /\ pingPc[c] = "tick" /\ mu[c] = "free"
    /\ pingPc' = [pingPc EXCEPT ![c] = IF connected[c] THEN "write" ELSE "done"]
    /\ UNCHANGED <<smVars, lockVars, pongPc, pongCode, active, hmu, wfVars, shutVars>>

\* A write fails on a connection closed here, may fail on one the peer left.
PingWrite(c) ==
    /\ pingPc[c] = "write"
    /\ \/ /\ link[c] # "closed"
          /\ pingPc' = [pingPc EXCEPT ![c] = "tick"]
       \/ /\ link[c] # "up"
          /\ pingPc' = [pingPc EXCEPT ![c] = "done"]
    /\ UNCHANGED <<smVars, lockVars, pongPc, pongCode, active, hmu, wfVars, shutVars>>

\* The peer ends the connection, or the network does.
PeerLeaves(c) ==
    /\ link[c] = "up"
    /\ \E l \in Leaves : link' = [link EXCEPT ![c] = l]
    /\ UNCHANGED <<smVars, connected, mu, ioVars, active, hmu, wfVars, shutVars>>

-----------------------------------------------------------------------------
(* Start() and Shutdown() *)

\* Welcome(2) is over: Fiber.Listen
Listen ==
    /\ startPc = "welcome"
    /\ startPc' = "listen"
    /\ UNCHANGED <<smVars, lockVars, ioVars, active, hmu, wfStarted, wfMu, shutVars>>

ShutGoto(pc) == shutPc' = pc

\* SIGINT or SIGTERM arrives on Quit
Signal ==
    /\ shutPc = "run" /\ ShutGoto("fiber")
    /\ UNCHANGED <<smVars, lockVars, ioVars, active, hmu, wfVars, shutTodo, shutCur>>

\* Fiber.Shutdown(): closes the listener if there is one, else does nothing.
FiberShutdown ==
    /\ shutPc = "fiber" /\ ShutGoto("hlock")
    /\ startPc' = IF startPc = "listen" THEN "closed" ELSE startPc
    /\ UNCHANGED <<smVars, lockVars, ioVars, active, hmu, wfStarted, wfMu, shutTodo, shutCur>>

\* HealthService.Disconnect takes HealthService.mu and ranges over ppClient.
ShutLock ==
    /\ shutPc = "hlock" /\ hmu = {} /\ ShutGoto("pick")
    /\ hmu' = {"shut"}
    /\ shutTodo' = Client
    /\ UNCHANGED <<smVars, lockVars, ioVars, active, wfVars, shutCur>>

ShutPick(c) ==
    /\ shutPc = "pick" /\ c \in shutTodo /\ ShutGoto("disc")
    /\ shutCur' = c
    /\ shutTodo' = shutTodo \ {c}
    /\ UNCHANGED <<smVars, lockVars, ioVars, active, hmu, wfVars>>

ShutDisconnect_Restart ==
    /\ shutPc = "disc" /\ DisconnectLocked(shutCur, "TO_CONNECT")
    /\ ShutGoto(IF connected[shutCur] THEN "close" ELSE "pick")
    /\ UNCHANGED <<smPc, started, retry, conns, link, ioVars, active, hmu, wfVars, shutTodo, shutCur>>

\* client.Disconnect(true, -1, "")
ShutDisconnect ==
    /\ shutPc = "disc" /\ DisconnectLocked(shutCur, "TO_QUIT")
    /\ ShutGoto(IF connected[shutCur] THEN "close" ELSE "pick")
    /\ UNCHANGED <<smPc, started, retry, conns, link, ioVars, active, hmu, wfVars, shutTodo, shutCur>>

ShutClose ==
    /\ shutPc = "close" /\ CloseConnector(shutCur) /\ ShutGoto("pick")
    /\ UNCHANGED <<smPc, started, retry, conns, connected, mu, ioVars, active, hmu, wfVars, shutTodo, shutCur>>

ShutUnlock ==
    /\ shutPc = "pick" /\ shutTodo = {} /\ ShutGoto("waitws")
    /\ hmu' = {}
    /\ shutCur' = NoClient
    /\ UNCHANGED <<smVars, lockVars, ioVars, active, wfVars, shutTodo>>

\* Container.WaitWS() returns once every StateMachine has; main returns.
ShutdownReturns ==
    /\ shutPc = "waitws" /\ \A c \in Client : SmAt(c, "done")
    /\ ShutGoto("done")
    /\ UNCHANGED <<smVars, lockVars, ioVars, active, hmu, wfVars, shutTodo, shutCur>>

-----------------------------------------------------------------------------
\* The answer of the peer to a permission request or a dial.
PeerAnswers(c) == TransportError(c) \/ PermissionRefused(c) \/ PermissionGranted(c) \/ DialSucceeds(c)

StateMachine(c) ==
    \/ SwitchConnect(c) \/ SwitchRun(c) \/ SwitchQuit(c) \/ PeerAnswers(c)
    \/ MarkConnected(c) \/ UnBlockCheck(c) \/ UnBlockRecheck(c) \/ UnBlockSend(c)
    \/ CountConnection(c) \/ SetToRun(c) \/ WaitReturns(c)

Pong(c) == PongCheck(c) \/ PongRead(c) \/ PongDisconnect(c) \/ PongClose(c)
Ping(c) == PingTick(c) \/ PingWrite(c)

Shutdown ==
    \/ FiberShutdown \/ ShutLock \/ (\E c \in Client : ShutPick(c))
    \/ ShutDisconnect \/ ShutClose \/ ShutUnlock \/ ShutdownReturns

ClientStep == \E c \in Client : StateMachine(c) \/ Pong(c) \/ Ping(c) \/ PeerLeaves(c)

Next == ClientStep \/ Listen \/ Signal \/ Shutdown

Spec == Init /\ [][Next]_vars

\* The Go scheduler runs every goroutine that can run; a peer that was asked
\* answers or its transport fails.  Nothing obliges a peer to leave, or a
\* signal to come.
Fairness ==
    /\ \A c \in Client : WF_vars(StateMachine(c)) /\ WF_vars(Pong(c)) /\ WF_vars(Ping(c))
    /\ WF_vars(Listen) /\ WF_vars(Shutdown)

FairSpec == Spec /\ Fairness

-----------------------------------------------------------------------------
(* Safety *)

Counted == {"torun", "switch", "wait", "done"}

\* ActiveMiddleware admits requests while activePpConnection > 0: the counter
\* never falls below the number of clients that are connected and counted,
\* however often they reconnect or leave.
CountCoversConnected ==
    Cardinality({c \in Client : connected[c] /\ smPc[c] \in Counted}) <= active

\* Disconnect returns with client.mu still held when the client is not
\* connected.  No interleaving of close frames, read errors and reconnections
\* reaches that return before HealthService.Disconnect runs, so that a request
\* never blocks on a client mutex while the balancer serves.
NoLeakWhileServing ==
    (\E c \in Client : mu[c] = "leaked") => shutPc \notin {"run", "fiber", "hlock"}

\* UnBlock sends on an unbuffered channel that is received from once, holding
\* two mutexes: whenever a client is about to send, Start has not received yet,
\* and no other client is about to send.
SenderHasReceiver ==
    \A c \in Client : SmAt(c, "send") =>
        /\ startPc = "waitconn"
        /\ \A d \in Client : SmAt(d, "send") => d = c

\* connectWS replaces client.connector without a lock: by then no goroutine of
\* the previous connection is left, the client is not listed as active, and
\* Shutdown is not about to close the connector it found.
ConnectorReplacedAlone ==
    \A c \in Client : smPc[c] \in {"perm", "dial", "lock"} =>
        /\ pongPc[c] = "off" /\ pingPc[c] = "off"
        /\ ~connected[c]
        /\ ~(shutPc = "close" /\ shutCur = c)

\* ActiveServer lists connected clients: a client whose StateMachine has
\* returned, and which nobody will ever disconnect again, is not listed.
QuitNotListed == \A c \in Client : SmAt(c, "done") => ~connected[c]

\* Disconnect's switch on the close code: a client that connects again was told
\* to restart (1012) or lost its peer to a read error (4001); a peer that goes
\* away (1000, 1001, others) is never dialled again.
ReconnectJustified ==
    \A c \in Client : SmAt(c, "perm") /\ conns[c] > 0 => pongCode[c] \in {"c1012", "c4001"}

\* The decision to quit survives until the machine acts on it, except in the
\* window between Connect's last check and `client.state = TO_RUN`.
QuitIsFinal ==
    [][\A c \in Client : state[c] = "TO_QUIT" /\ ~SmAt(c, "torun") => state'[c] = "TO_QUIT"]_vars

\* Machine, Pong and Shutdown between them take a client through one life: it is
\* listed once per dial, never dialled while listed, redialled only after a code that
\* allows it, and never comes back once its machine has returned.
Phase(c) == CASE smPc[c] = "done" -> "over"
              [] smPc[c] # "done" /\ connected[c] -> "listed"
              [] smPc[c] = "lock" /\ ~connected[c] -> "dialled"
              [] OTHER -> "out"
Life == INSTANCE Lifecycle WITH
    Codes <- Code, Resumable <- {"c1012", "c4001"},
    phase <- [c \in Client |-> Phase(c)], dials <- conns, heard <- pongCode
LeadsOneLife == Life!LifeSpec

-----------------------------------------------------------------------------
(* Liveness *)

\* A restart close (1012) or a read error, once seen by Pong, is taken as the order
\* to connect again, and the machine gets to act on it (Ping notices too, so that
\* wg.Wait() returns): the client connects again, unless Close of the connector
\* fails, which turns the order into a quit.
RestartReconnects ==
    \A c \in Client :
        [](/\ pongPc[c] = "disc" /\ pongCode[c] \in {"c1012", "c4001"}
           /\ [](shutPc = "run")
           => <>(/\ pongPc[c] = "close" /\ state[c] = "TO_CONNECT"
                 /\ <>(smPc[c] \in {"perm", "done"})))

\* Every client is running on a live connection, or has returned.
Settled ==
    \A c \in Client : \/ SmAt(c, "done")
                      \/ SmAt(c, "wait") /\ pongPc[c] \in {"check", "read"}

\* Shutdown: a signal that finds every client settled, and no peer leaving
\* meanwhile, ends with every StateMachine returned.
ShutdownCompletesWhenSettled ==
    [](/\ shutPc = "fiber" /\ Settled
       /\ [](\A c \in Client : SmAt(c, "done") \/ link[c] \in {"up", "closed"})
       => <>(shutPc = "done"))

=============================================================================
