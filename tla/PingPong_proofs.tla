-------------------------- MODULE PingPong_proofs --------------------------
(***************************************************************************)
(* Safety of the connection layer for every number of clients, retries and *)
(* connections: IInv is inductive and implies the invariants PingPong      *)
(* states.                                                                 *)
(***************************************************************************)
EXTENDS BalancerRequests, FiniteSetTheorems, TLAPS

Serving == shutPc \in {"run", "fiber", "hlock"}

\* The goroutines of Run exist exactly while the machine waits for them.
RunInv(c) ==
    /\ pongPc[c] = "off" <=> smPc[c] # "wait"
    /\ pingPc[c] = "off" <=> smPc[c] # "wait"

\* connectWS owns client.mu from Connected = true until it returns.
LockInv(c) ==
    /\ mu[c] = "sm" <=> smPc[c] \in {"unblock", "unblock2", "send"}
    /\ Serving => mu[c] # "leaked"

\* Where a client can be listed, and with which state.
ListedInv(c) ==
    /\ smPc[c] \in {"perm", "dial", "lock", "done"} => ~connected[c]
    /\ connected[c] /\ smPc[c] \in {"switch", "wait"} => state[c] = "TO_RUN"
    /\ pongPc[c] = "close" => ~connected[c]
    /\ Serving /\ pongPc[c] \in {"read", "disc"} => connected[c]

\* The client Shutdown has just disconnected does not connect again.
ClosingInv(c) ==
    shutPc = "close" /\ shutCur = c =>
        /\ ~connected[c]
        /\ smPc[c] \in {"ret", "torun", "switch", "wait", "done"}
        /\ smPc[c] \in {"switch", "wait"} => state[c] # "TO_CONNECT"

\* The one sender holds wFConn.mu, and Start has yet to receive.
SendInv(c) ==
    /\ smPc[c] = "send" <=> wfMu = c
    /\ smPc[c] = "send" => startPc = "waitconn" /\ wfStarted

\* Why a client that connected before is to connect again.
ReasonInv(c) ==
    /\ smPc[c] = "wait" /\ pongPc[c] \in {"check", "read", "disc"} => state[c] # "TO_CONNECT"
    /\ conns[c] > 0 /\ \/ smPc[c] \in {"perm", "dial"}
                       \/ smPc[c] \in {"switch", "wait"} /\ state[c] = "TO_CONNECT"
       => pongCode[c] \in {"c1012", "c4001"}

\* The loop over ppClient always holds a client.
ShutInv ==
    /\ shutPc \in {"disc", "close"} => shutCur \in Client
    /\ startPc # "waitconn" => wfStarted

ClientInv(c) ==
    RunInv(c) /\ LockInv(c) /\ ListedInv(c) /\ ClosingInv(c) /\ SendInv(c) /\ ReasonInv(c)

RetryInv(c) == smPc[c] \in {"perm", "dial"} => retry[c] < MaxRetry

IInv == TypeOK /\ ShutInv /\ \A c \in Client : ClientInv(c) /\ RetryInv(c)

-----------------------------------------------------------------------------
(* One lemma per conjunct of IInv: each is established by Init and kept by  *)
(* every action, given IInv before the step.                                *)

USE PingPongAssumption DEF PingPongAssumption

LEMMA InitInv == Init => IInv
<1> SUFFICES ASSUME Init PROVE IInv
    OBVIOUS
<1> USE DEF Init
<1>1. TypeOK
  <2>1. MachineTypeOK
    BY DEF MachineTypeOK, SmPc
  <2>2. LinkTypeOK
    BY DEF LinkTypeOK, Link, Code, CloseFrame
  <2>3. SharedTypeOK
    BY DEF SharedTypeOK
  <2>4. QED
    BY <2>1, <2>2, <2>3 DEF TypeOK
<1>2. ShutInv
  BY DEF ShutInv
<1>3. ASSUME NEW c \in Client PROVE ClientInv(c) /\ RetryInv(c)
  BY DEF ClientInv, RunInv, LockInv, ListedInv, ClosingInv, SendInv, ReasonInv, RetryInv
<1>4. QED
  BY <1>1, <1>2, <1>3 DEF IInv, TypeOK

\* Disconnect's critical section (healthService.go) leaves a state and a flag of
\* the right type, whichever way its early return goes.
LEMMA DisconnectTypes ==
    ASSUME NEW c \in Client, NEW s \in {"TO_CONNECT", "TO_RUN", "TO_QUIT"},
           state \in [Client -> {"TO_CONNECT", "TO_RUN", "TO_QUIT"}],
           connected \in [Client -> BOOLEAN],
           DisconnectLocked(c, s)
    PROVE  /\ state' \in [Client -> {"TO_CONNECT", "TO_RUN", "TO_QUIT"}]
           /\ connected' \in [Client -> BOOLEAN]
<1>1. CASE connected[c]
  BY <1>1 DEF DisconnectLocked
<1>2. CASE ~connected[c]
  BY <1>2 DEF DisconnectLocked
<1>3. QED
  BY <1>1, <1>2

LEMMA MachineTypeStep == IInv /\ [Next]_vars => MachineTypeOK'
<1> SUFFICES ASSUME IInv, [Next]_vars
             PROVE  MachineTypeOK'
    OBVIOUS
<1> USE DEF IInv, TypeOK, smVars, lockVars, ioVars, wfVars, shutVars, SmAt, SmGoto, ShutGoto, MachineTypeOK, LinkTypeOK, SharedTypeOK, SmPc, Link, Code, CloseFrame, RetryInv, ShutInv
<1>1. ASSUME NEW c \in Client, SwitchConnect(c) PROVE MachineTypeOK'
  BY <1>1 DEF SwitchConnect
<1>2. ASSUME NEW c \in Client, SwitchRun(c) PROVE MachineTypeOK'
  BY <1>2 DEF SwitchRun
<1>3. ASSUME NEW c \in Client, SwitchQuit(c) PROVE MachineTypeOK'
  BY <1>3 DEF SwitchQuit
<1>4. ASSUME NEW c \in Client, TransportError(c) PROVE MachineTypeOK'
  BY <1>4 DEF TransportError, ConnectFailed
<1>5. ASSUME NEW c \in Client, PermissionRefused(c) PROVE MachineTypeOK'
  BY <1>5 DEF PermissionRefused, ConnectFailed
<1>6. ASSUME NEW c \in Client, PermissionGranted(c) PROVE MachineTypeOK'
  BY <1>6 DEF PermissionGranted
<1>7. ASSUME NEW c \in Client, DialSucceeds(c) PROVE MachineTypeOK'
  BY <1>7 DEF DialSucceeds
<1>8. ASSUME NEW c \in Client, MarkConnected(c) PROVE MachineTypeOK'
  BY <1>8 DEF MarkConnected
<1>9. ASSUME NEW c \in Client, UnBlockCheck(c) PROVE MachineTypeOK'
  BY <1>9 DEF UnBlockCheck, ConnectReturns
<1>10. ASSUME NEW c \in Client, UnBlockRecheck(c) PROVE MachineTypeOK'
  <2>1. CASE wfStarted
    BY <1>10, <2>1 DEF UnBlockRecheck, ConnectReturns
  <2>2. CASE ~(wfStarted)
    BY <1>10, <2>2 DEF UnBlockRecheck, ConnectReturns
  <2>3. QED
    BY <2>1, <2>2
<1>11. ASSUME NEW c \in Client, UnBlockSend(c) PROVE MachineTypeOK'
  BY <1>11 DEF UnBlockSend, ConnectReturns
<1>12. ASSUME NEW c \in Client, CountConnection(c) PROVE MachineTypeOK'
  BY <1>12 DEF CountConnection
<1>13. ASSUME NEW c \in Client, SetToRun(c) PROVE MachineTypeOK'
  BY <1>13 DEF SetToRun
<1>14. ASSUME NEW c \in Client, WaitReturns(c) PROVE MachineTypeOK'
  BY <1>14 DEF WaitReturns
<1>15. ASSUME NEW c \in Client, PongCheck(c) PROVE MachineTypeOK'
  BY <1>15 DEF PongCheck
<1>16. ASSUME NEW c \in Client, PongRead(c) PROVE MachineTypeOK'
  BY <1>16 DEF PongRead
<1>17. ASSUME NEW c \in Client, PongDisconnect(c) PROVE MachineTypeOK'
  <2>1. StateAfter(pongCode[c]) \in {"TO_CONNECT", "TO_RUN", "TO_QUIT"}
    BY DEF StateAfter
  <2>2. /\ state' \in [Client -> {"TO_CONNECT", "TO_RUN", "TO_QUIT"}]
        /\ connected' \in [Client -> BOOLEAN]
    BY <1>17, <2>1, DisconnectTypes DEF PongDisconnect
  <2>3. UNCHANGED <<smPc, started, retry>>
    BY <1>17 DEF PongDisconnect
  <2>4. QED
    BY <2>2, <2>3
<1>18. ASSUME NEW c \in Client, PongClose(c) PROVE MachineTypeOK'
  BY <1>18 DEF PongClose, CloseConnector
<1>19. ASSUME NEW c \in Client, PingTick(c) PROVE MachineTypeOK'
  BY <1>19 DEF PingTick
<1>20. ASSUME NEW c \in Client, PingWrite(c) PROVE MachineTypeOK'
  BY <1>20 DEF PingWrite
<1>21. ASSUME NEW c \in Client, PeerLeaves(c) PROVE MachineTypeOK'
  BY <1>21 DEF PeerLeaves
<1>22. CASE Listen
  BY <1>22 DEF Listen
<1>23. CASE Signal
  BY <1>23 DEF Signal
<1>24. CASE FiberShutdown
  BY <1>24 DEF FiberShutdown
<1>25. CASE ShutLock
  BY <1>25 DEF ShutLock
<1>26. ASSUME NEW c \in Client, ShutPick(c) PROVE MachineTypeOK'
  BY <1>26 DEF ShutPick
<1>27. CASE ShutDisconnect
  <2>1. shutCur \in Client
    BY <1>27 DEF ShutDisconnect
  <2>2. /\ state' \in [Client -> {"TO_CONNECT", "TO_RUN", "TO_QUIT"}]
        /\ connected' \in [Client -> BOOLEAN]
    BY <1>27, <2>1, DisconnectTypes DEF ShutDisconnect
  <2>3. UNCHANGED <<smPc, started, retry>>
    BY <1>27 DEF ShutDisconnect
  <2>4. QED
    BY <2>2, <2>3
<1>28. CASE ShutClose
  BY <1>28 DEF ShutClose, CloseConnector
<1>29. CASE ShutUnlock
  BY <1>29 DEF ShutUnlock
<1>30. CASE ShutdownReturns
  BY <1>30 DEF ShutdownReturns
<1>31. CASE UNCHANGED vars
  BY <1>31 DEF vars
<1>32. QED
  BY <1>1, <1>2, <1>3, <1>4, <1>5, <1>6, <1>7, <1>8, <1>9, <1>10, <1>11, <1>12, <1>13, <1>14, <1>15,
     <1>16, <1>17, <1>18, <1>19, <1>20, <1>21, <1>22, <1>23, <1>24, <1>25, <1>26, <1>27, <1>28, <1>29, <1>30, <1>31
  DEF Next, ClientStep, StateMachine, PeerAnswers, Pong, Ping, Shutdown

LEMMA LinkTypeStep == IInv /\ [Next]_vars => LinkTypeOK'
<1> SUFFICES ASSUME IInv, [Next]_vars
             PROVE  LinkTypeOK'
    OBVIOUS
<1> USE DEF IInv, TypeOK, smVars, lockVars, ioVars, wfVars, shutVars, SmAt, SmGoto, ShutGoto, MachineTypeOK, LinkTypeOK, SharedTypeOK, SmPc, Link, Code, CloseFrame, ShutInv
<1>1. ASSUME NEW c \in Client, SwitchConnect(c) PROVE LinkTypeOK'
  BY <1>1 DEF SwitchConnect
<1>2. ASSUME NEW c \in Client, SwitchRun(c) PROVE LinkTypeOK'
  BY <1>2 DEF SwitchRun
<1>3. ASSUME NEW c \in Client, SwitchQuit(c) PROVE LinkTypeOK'
  BY <1>3 DEF SwitchQuit
<1>4. ASSUME NEW c \in Client, TransportError(c) PROVE LinkTypeOK'
  BY <1>4 DEF TransportError, ConnectFailed
<1>5. ASSUME NEW c \in Client, PermissionRefused(c) PROVE LinkTypeOK'
  BY <1>5 DEF PermissionRefused, ConnectFailed
<1>6. ASSUME NEW c \in Client, PermissionGranted(c) PROVE LinkTypeOK'
  BY <1>6 DEF PermissionGranted
<1>7. ASSUME NEW c \in Client, DialSucceeds(c) PROVE LinkTypeOK'
  BY <1>7 DEF DialSucceeds
<1>8. ASSUME NEW c \in Client, MarkConnected(c) PROVE LinkTypeOK'
  BY <1>8 DEF MarkConnected
<1>9. ASSUME NEW c \in Client, UnBlockCheck(c) PROVE LinkTypeOK'
  BY <1>9 DEF UnBlockCheck, ConnectReturns
<1>10. ASSUME NEW c \in Client, UnBlockRecheck(c) PROVE LinkTypeOK'
  <2>1. CASE wfStarted
    BY <1>10, <2>1 DEF UnBlockRecheck, ConnectReturns
  <2>2. CASE ~(wfStarted)
    BY <1>10, <2>2 DEF UnBlockRecheck, ConnectReturns
  <2>3. QED
    BY <2>1, <2>2
<1>11. ASSUME NEW c \in Client, UnBlockSend(c) PROVE LinkTypeOK'
  BY <1>11 DEF UnBlockSend, ConnectReturns
<1>12. ASSUME NEW c \in Client, CountConnection(c) PROVE LinkTypeOK'
  BY <1>12 DEF CountConnection
<1>13. ASSUME NEW c \in Client, SetToRun(c) PROVE LinkTypeOK'
  BY <1>13 DEF SetToRun
<1>14. ASSUME NEW c \in Client, WaitReturns(c) PROVE LinkTypeOK'
  BY <1>14 DEF WaitReturns
<1>15. ASSUME NEW c \in Client, PongCheck(c) PROVE LinkTypeOK'
  BY <1>15 DEF PongCheck
<1>16. ASSUME NEW c \in Client, PongRead(c) PROVE LinkTypeOK'
  BY <1>16 DEF PongRead
<1>17. ASSUME NEW c \in Client, PongDisconnect(c) PROVE LinkTypeOK'
  <2>1. CASE connected[c]
    BY <1>17, <2>1 DEF PongDisconnect, DisconnectLocked, StateAfter
  <2>2. CASE ~(connected[c])
    BY <1>17, <2>2 DEF PongDisconnect, DisconnectLocked, StateAfter
  <2>3. QED
    BY <2>1, <2>2
<1>18. ASSUME NEW c \in Client, PongClose(c) PROVE LinkTypeOK'
  BY <1>18 DEF PongClose, CloseConnector
<1>19. ASSUME NEW c \in Client, PingTick(c) PROVE LinkTypeOK'
  BY <1>19 DEF PingTick
<1>20. ASSUME NEW c \in Client, PingWrite(c) PROVE LinkTypeOK'
  BY <1>20 DEF PingWrite
<1>21. ASSUME NEW c \in Client, PeerLeaves(c) PROVE LinkTypeOK'
  BY <1>21 DEF PeerLeaves
<1>22. CASE Listen
  BY <1>22 DEF Listen
<1>23. CASE Signal
  BY <1>23 DEF Signal
<1>24. CASE FiberShutdown
  BY <1>24 DEF FiberShutdown
<1>25. CASE ShutLock
  BY <1>25 DEF ShutLock
<1>26. ASSUME NEW c \in Client, ShutPick(c) PROVE LinkTypeOK'
  BY <1>26 DEF ShutPick
<1>27. CASE ShutDisconnect
  <2>1. CASE connected[shutCur]
    BY <1>27, <2>1 DEF ShutDisconnect, DisconnectLocked
  <2>2. CASE ~(connected[shutCur])
    BY <1>27, <2>2 DEF ShutDisconnect, DisconnectLocked
  <2>3. QED
    BY <2>1, <2>2
<1>28. CASE ShutClose
  BY <1>28 DEF ShutClose, CloseConnector
<1>29. CASE ShutUnlock
  BY <1>29 DEF ShutUnlock
<1>30. CASE ShutdownReturns
  BY <1>30 DEF ShutdownReturns
<1>31. CASE UNCHANGED vars
  BY <1>31 DEF vars
<1>32. QED
  BY <1>1, <1>2, <1>3, <1>4, <1>5, <1>6, <1>7, <1>8, <1>9, <1>10, <1>11, <1>12, <1>13, <1>14, <1>15,
     <1>16, <1>17, <1>18, <1>19, <1>20, <1>21, <1>22, <1>23, <1>24, <1>25, <1>26, <1>27, <1>28, <1>29, <1>30, <1>31
  DEF Next, ClientStep, StateMachine, PeerAnswers, Pong, Ping, Shutdown

LEMMA SharedStep == IInv /\ [Next]_vars => SharedTypeOK' /\ ShutInv'
<1> SUFFICES ASSUME IInv, [Next]_vars
             PROVE  SharedTypeOK' /\ ShutInv'
    OBVIOUS
<1> USE DEF IInv, TypeOK, smVars, lockVars, ioVars, wfVars, shutVars, SmAt, SmGoto, ShutGoto, MachineTypeOK, LinkTypeOK, SharedTypeOK, SmPc, Link, Code, CloseFrame, ClientInv, SendInv, ShutInv
<1>1. ASSUME NEW c \in Client, SwitchConnect(c) PROVE SharedTypeOK' /\ ShutInv'
  BY <1>1 DEF SwitchConnect
<1>2. ASSUME NEW c \in Client, SwitchRun(c) PROVE SharedTypeOK' /\ ShutInv'
  BY <1>2 DEF SwitchRun
<1>3. ASSUME NEW c \in Client, SwitchQuit(c) PROVE SharedTypeOK' /\ ShutInv'
  BY <1>3 DEF SwitchQuit
<1>4. ASSUME NEW c \in Client, TransportError(c) PROVE SharedTypeOK' /\ ShutInv'
  BY <1>4 DEF TransportError, ConnectFailed
<1>5. ASSUME NEW c \in Client, PermissionRefused(c) PROVE SharedTypeOK' /\ ShutInv'
  BY <1>5 DEF PermissionRefused, ConnectFailed
<1>6. ASSUME NEW c \in Client, PermissionGranted(c) PROVE SharedTypeOK' /\ ShutInv'
  BY <1>6 DEF PermissionGranted
<1>7. ASSUME NEW c \in Client, DialSucceeds(c) PROVE SharedTypeOK' /\ ShutInv'
  BY <1>7 DEF DialSucceeds
<1>8. ASSUME NEW c \in Client, MarkConnected(c) PROVE SharedTypeOK' /\ ShutInv'
  BY <1>8 DEF MarkConnected
<1>9. ASSUME NEW c \in Client, UnBlockCheck(c) PROVE SharedTypeOK' /\ ShutInv'
  BY <1>9 DEF UnBlockCheck, ConnectReturns
<1>10. ASSUME NEW c \in Client, UnBlockRecheck(c) PROVE SharedTypeOK' /\ ShutInv'
  <2>1. CASE wfStarted
    BY <1>10, <2>1 DEF UnBlockRecheck, ConnectReturns
  <2>2. CASE ~(wfStarted)
    BY <1>10, <2>2 DEF UnBlockRecheck, ConnectReturns
  <2>3. QED
    BY <2>1, <2>2
<1>11. ASSUME NEW c \in Client, UnBlockSend(c) PROVE SharedTypeOK' /\ ShutInv'
  BY <1>11 DEF UnBlockSend, ConnectReturns
<1>12. ASSUME NEW c \in Client, CountConnection(c) PROVE SharedTypeOK' /\ ShutInv'
  BY <1>12 DEF CountConnection
<1>13. ASSUME NEW c \in Client, SetToRun(c) PROVE SharedTypeOK' /\ ShutInv'
  BY <1>13 DEF SetToRun
<1>14. ASSUME NEW c \in Client, WaitReturns(c) PROVE SharedTypeOK' /\ ShutInv'
  BY <1>14 DEF WaitReturns
<1>15. ASSUME NEW c \in Client, PongCheck(c) PROVE SharedTypeOK' /\ ShutInv'
  BY <1>15 DEF PongCheck
<1>16. ASSUME NEW c \in Client, PongRead(c) PROVE SharedTypeOK' /\ ShutInv'
  BY <1>16 DEF PongRead
<1>17. ASSUME NEW c \in Client, PongDisconnect(c) PROVE SharedTypeOK' /\ ShutInv'
  <2>1. CASE connected[c]
    BY <1>17, <2>1 DEF PongDisconnect, DisconnectLocked, StateAfter
  <2>2. CASE ~(connected[c])
    BY <1>17, <2>2 DEF PongDisconnect, DisconnectLocked, StateAfter
  <2>3. QED
    BY <2>1, <2>2
<1>18. ASSUME NEW c \in Client, PongClose(c) PROVE SharedTypeOK' /\ ShutInv'
  BY <1>18 DEF PongClose, CloseConnector
<1>19. ASSUME NEW c \in Client, PingTick(c) PROVE SharedTypeOK' /\ ShutInv'
  BY <1>19 DEF PingTick
<1>20. ASSUME NEW c \in Client, PingWrite(c) PROVE SharedTypeOK' /\ ShutInv'
  BY <1>20 DEF PingWrite
<1>21. ASSUME NEW c \in Client, PeerLeaves(c) PROVE SharedTypeOK' /\ ShutInv'
  BY <1>21 DEF PeerLeaves
<1>22. CASE Listen
  BY <1>22 DEF Listen
<1>23. CASE Signal
  BY <1>23 DEF Signal
<1>24. CASE FiberShutdown
  BY <1>24 DEF FiberShutdown
<1>25. CASE ShutLock
  BY <1>25 DEF ShutLock
<1>26. ASSUME NEW c \in Client, ShutPick(c) PROVE SharedTypeOK' /\ ShutInv'
  BY <1>26 DEF ShutPick
<1>27. CASE ShutDisconnect
  <2>1. CASE connected[shutCur]
    BY <1>27, <2>1 DEF ShutDisconnect, DisconnectLocked
  <2>2. CASE ~(connected[shutCur])
    BY <1>27, <2>2 DEF ShutDisconnect, DisconnectLocked
  <2>3. QED
    BY <2>1, <2>2
<1>28. CASE ShutClose
  BY <1>28 DEF ShutClose, CloseConnector
<1>29. CASE ShutUnlock
  BY <1>29 DEF ShutUnlock
<1>30. CASE ShutdownReturns
  BY <1>30 DEF ShutdownReturns
<1>31. CASE UNCHANGED vars
  BY <1>31 DEF vars
<1>32. QED
  BY <1>1, <1>2, <1>3, <1>4, <1>5, <1>6, <1>7, <1>8, <1>9, <1>10, <1>11, <1>12, <1>13, <1>14, <1>15,
     <1>16, <1>17, <1>18, <1>19, <1>20, <1>21, <1>22, <1>23, <1>24, <1>25, <1>26, <1>27, <1>28, <1>29, <1>30, <1>31
  DEF Next, ClientStep, StateMachine, PeerAnswers, Pong, Ping, Shutdown

\* What a step does for one client: its invariants are kept, and a decision to
\* quit is lost only at `client.state = TO_RUN`.
ClientGoal(d) ==
    /\ ClientInv(d)' /\ RetryInv(d)'
    /\ state[d] = "TO_QUIT" /\ ~SmAt(d, "torun") => state'[d] = "TO_QUIT"

LEMMA ClientKept == IInv /\ [Next]_vars => \A d \in Client : ClientGoal(d)
<1> SUFFICES ASSUME IInv, [Next]_vars, NEW d \in Client
             PROVE  ClientGoal(d)
    OBVIOUS
<1> USE DEF IInv, TypeOK, smVars, lockVars, ioVars, wfVars, shutVars, SmAt, SmGoto, ShutGoto, MachineTypeOK, LinkTypeOK, SharedTypeOK, ClientInv, ClientGoal, SmPc, RunInv, LockInv, ListedInv, ClosingInv, SendInv, ReasonInv, ShutInv, RetryInv, Serving
<1>1. ASSUME NEW c \in Client, SwitchConnect(c) PROVE ClientGoal(d)
  BY <1>1 DEF SwitchConnect
<1>2. ASSUME NEW c \in Client, SwitchRun(c) PROVE ClientGoal(d)
  BY <1>2 DEF SwitchRun
<1>3. ASSUME NEW c \in Client, SwitchQuit(c) PROVE ClientGoal(d)
  BY <1>3 DEF SwitchQuit
<1>4. ASSUME NEW c \in Client, TransportError(c) PROVE ClientGoal(d)
  BY <1>4 DEF TransportError, ConnectFailed
<1>5. ASSUME NEW c \in Client, PermissionRefused(c) PROVE ClientGoal(d)
  BY <1>5 DEF PermissionRefused, ConnectFailed
<1>6. ASSUME NEW c \in Client, PermissionGranted(c) PROVE ClientGoal(d)
  BY <1>6 DEF PermissionGranted
<1>7. ASSUME NEW c \in Client, DialSucceeds(c) PROVE ClientGoal(d)
  BY <1>7 DEF DialSucceeds
<1>8. ASSUME NEW c \in Client, MarkConnected(c) PROVE ClientGoal(d)
  BY <1>8 DEF MarkConnected
<1>9. ASSUME NEW c \in Client, UnBlockCheck(c) PROVE ClientGoal(d)
  BY <1>9 DEF UnBlockCheck, ConnectReturns
<1>10. ASSUME NEW c \in Client, UnBlockRecheck(c) PROVE ClientGoal(d)
  <2>1. CASE wfStarted
    BY <1>10, <2>1 DEF UnBlockRecheck, ConnectReturns
  <2>2. CASE ~(wfStarted)
    BY <1>10, <2>2 DEF UnBlockRecheck, ConnectReturns
  <2>3. QED
    BY <2>1, <2>2
<1>11. ASSUME NEW c \in Client, UnBlockSend(c) PROVE ClientGoal(d)
  BY <1>11 DEF UnBlockSend, ConnectReturns
<1>12. ASSUME NEW c \in Client, CountConnection(c) PROVE ClientGoal(d)
  BY <1>12 DEF CountConnection
<1>13. ASSUME NEW c \in Client, SetToRun(c) PROVE ClientGoal(d)
  BY <1>13 DEF SetToRun
<1>14. ASSUME NEW c \in Client, WaitReturns(c) PROVE ClientGoal(d)
  BY <1>14 DEF WaitReturns
<1>15. ASSUME NEW c \in Client, PongCheck(c) PROVE ClientGoal(d)
  BY <1>15 DEF PongCheck
<1>16. ASSUME NEW c \in Client, PongRead(c) PROVE ClientGoal(d)
  BY <1>16 DEF PongRead
<1>17. ASSUME NEW c \in Client, PongDisconnect(c) PROVE ClientGoal(d)
  <2>1. CASE connected[c]
    BY <1>17, <2>1 DEF PongDisconnect, DisconnectLocked, StateAfter
  <2>2. CASE ~(connected[c])
    BY <1>17, <2>2 DEF PongDisconnect, DisconnectLocked, StateAfter
  <2>3. QED
    BY <2>1, <2>2
<1>18. ASSUME NEW c \in Client, PongClose(c) PROVE ClientGoal(d)
  BY <1>18 DEF PongClose, CloseConnector
<1>19. ASSUME NEW c \in Client, PingTick(c) PROVE ClientGoal(d)
  BY <1>19 DEF PingTick
<1>20. ASSUME NEW c \in Client, PingWrite(c) PROVE ClientGoal(d)
  BY <1>20 DEF PingWrite
<1>21. ASSUME NEW c \in Client, PeerLeaves(c) PROVE ClientGoal(d)
  BY <1>21 DEF PeerLeaves
<1>22. CASE Listen
  BY <1>22 DEF Listen
<1>23. CASE Signal
  BY <1>23 DEF Signal
<1>24. CASE FiberShutdown
  BY <1>24 DEF FiberShutdown
<1>25. CASE ShutLock
  BY <1>25 DEF ShutLock
<1>26. ASSUME NEW c \in Client, ShutPick(c) PROVE ClientGoal(d)
  BY <1>26 DEF ShutPick
<1>27. CASE ShutDisconnect
  <2>1. CASE connected[shutCur]
    BY <1>27, <2>1 DEF ShutDisconnect, DisconnectLocked
  <2>2. CASE ~(connected[shutCur])
    BY <1>27, <2>2 DEF ShutDisconnect, DisconnectLocked
  <2>3. QED
    BY <2>1, <2>2
<1>28. CASE ShutClose
  BY <1>28 DEF ShutClose, CloseConnector
<1>29. CASE ShutUnlock
  BY <1>29 DEF ShutUnlock
<1>30. CASE ShutdownReturns
  BY <1>30 DEF ShutdownReturns
<1>31. CASE UNCHANGED vars
  BY <1>31 DEF vars
<1>32. QED
  BY <1>1, <1>2, <1>3, <1>4, <1>5, <1>6, <1>7, <1>8, <1>9, <1>10, <1>11, <1>12, <1>13, <1>14, <1>15,
     <1>16, <1>17, <1>18, <1>19, <1>20, <1>21, <1>22, <1>23, <1>24, <1>25, <1>26, <1>27, <1>28, <1>29, <1>30, <1>31
  DEF Next, ClientStep, StateMachine, PeerAnswers, Pong, Ping, Shutdown

\* The clients ActiveMiddleware's counter must cover.
Covered == {c \in Client : connected[c] /\ smPc[c] \in Counted}

CountInv == IInv /\ CountCoversConnected

CountKept == active' = active /\ Covered' \subseteq Covered
CountGrown == active' = active + 1 /\ \E e \in Client : Covered' \subseteq Covered \cup {e}
CoverGoal == CountKept \/ CountGrown

LEMMA CoverStep == IInv /\ [Next]_vars => CoverGoal
<1> SUFFICES ASSUME IInv, [Next]_vars
             PROVE  CoverGoal
    OBVIOUS
<1> USE DEF IInv, TypeOK, smVars, lockVars, ioVars, wfVars, shutVars, SmAt, SmGoto, ShutGoto, CountKept, MachineTypeOK, LinkTypeOK, SharedTypeOK, ClientInv, ListedInv, RunInv, Covered, Counted
<1>1. ASSUME NEW c \in Client, SwitchConnect(c) PROVE CountKept
  BY <1>1 DEF SwitchConnect
<1>2. ASSUME NEW c \in Client, SwitchRun(c) PROVE CountKept
  BY <1>2 DEF SwitchRun
<1>3. ASSUME NEW c \in Client, SwitchQuit(c) PROVE CountKept
  BY <1>3 DEF SwitchQuit
<1>4. ASSUME NEW c \in Client, TransportError(c) PROVE CountKept
  BY <1>4 DEF TransportError, ConnectFailed
<1>5. ASSUME NEW c \in Client, PermissionRefused(c) PROVE CountKept
  BY <1>5 DEF PermissionRefused, ConnectFailed
<1>6. ASSUME NEW c \in Client, PermissionGranted(c) PROVE CountKept
  BY <1>6 DEF PermissionGranted
<1>7. ASSUME NEW c \in Client, DialSucceeds(c) PROVE CountKept
  BY <1>7 DEF DialSucceeds
<1>8. ASSUME NEW c \in Client, MarkConnected(c) PROVE CountKept
  BY <1>8 DEF MarkConnected
<1>9. ASSUME NEW c \in Client, UnBlockCheck(c) PROVE CountKept
  BY <1>9 DEF UnBlockCheck, ConnectReturns
<1>10. ASSUME NEW c \in Client, UnBlockRecheck(c) PROVE CountKept
  <2>1. CASE wfStarted
    BY <1>10, <2>1 DEF UnBlockRecheck, ConnectReturns
  <2>2. CASE ~(wfStarted)
    BY <1>10, <2>2 DEF UnBlockRecheck, ConnectReturns
  <2>3. QED
    BY <2>1, <2>2
<1>11. ASSUME NEW c \in Client, UnBlockSend(c) PROVE CountKept
  BY <1>11 DEF UnBlockSend, ConnectReturns
<1>12. ASSUME NEW c \in Client, CountConnection(c) PROVE CountGrown
  BY <1>12 DEF CountConnection, CountGrown
<1>13. ASSUME NEW c \in Client, SetToRun(c) PROVE CountKept
  BY <1>13 DEF SetToRun
<1>14. ASSUME NEW c \in Client, WaitReturns(c) PROVE CountKept
  BY <1>14 DEF WaitReturns
<1>15. ASSUME NEW c \in Client, PongCheck(c) PROVE CountKept
  BY <1>15 DEF PongCheck
<1>16. ASSUME NEW c \in Client, PongRead(c) PROVE CountKept
  BY <1>16 DEF PongRead
<1>17. ASSUME NEW c \in Client, PongDisconnect(c) PROVE CountKept
  <2>1. CASE connected[c]
    BY <1>17, <2>1 DEF PongDisconnect, DisconnectLocked, StateAfter
  <2>2. CASE ~(connected[c])
    BY <1>17, <2>2 DEF PongDisconnect, DisconnectLocked, StateAfter
  <2>3. QED
    BY <2>1, <2>2
<1>18. ASSUME NEW c \in Client, PongClose(c) PROVE CountKept
  BY <1>18 DEF PongClose, CloseConnector
<1>19. ASSUME NEW c \in Client, PingTick(c) PROVE CountKept
  BY <1>19 DEF PingTick
<1>20. ASSUME NEW c \in Client, PingWrite(c) PROVE CountKept
  BY <1>20 DEF PingWrite
<1>21. ASSUME NEW c \in Client, PeerLeaves(c) PROVE CountKept
  BY <1>21 DEF PeerLeaves
<1>22. ASSUME Listen PROVE CountKept
  BY <1>22 DEF Listen
<1>23. ASSUME Signal PROVE CountKept
  BY <1>23 DEF Signal
<1>24. ASSUME FiberShutdown PROVE CountKept
  BY <1>24 DEF FiberShutdown
<1>25. ASSUME ShutLock PROVE CountKept
  BY <1>25 DEF ShutLock
<1>26. ASSUME NEW c \in Client, ShutPick(c) PROVE CountKept
  BY <1>26 DEF ShutPick
<1>27. ASSUME ShutDisconnect PROVE CountKept
  <2>1. CASE connected[shutCur]
    BY <1>27, <2>1 DEF ShutDisconnect, DisconnectLocked
  <2>2. CASE ~(connected[shutCur])
    BY <1>27, <2>2 DEF ShutDisconnect, DisconnectLocked
  <2>3. QED
    BY <2>1, <2>2
<1>28. ASSUME ShutClose PROVE CountKept
  BY <1>28 DEF ShutClose, CloseConnector
<1>29. ASSUME ShutUnlock PROVE CountKept
  BY <1>29 DEF ShutUnlock
<1>30. ASSUME ShutdownReturns PROVE CountKept
  BY <1>30 DEF ShutdownReturns
<1>31. ASSUME UNCHANGED vars PROVE CountKept
  BY <1>31 DEF vars
<1>32. QED
  BY <1>1, <1>2, <1>3, <1>4, <1>5, <1>6, <1>7, <1>8, <1>9, <1>10, <1>11, <1>12, <1>13, <1>14, <1>15,
     <1>16, <1>17, <1>18, <1>19, <1>20, <1>21, <1>22, <1>23, <1>24, <1>25, <1>26, <1>27, <1>28, <1>29, <1>30, <1>31
  DEF CoverGoal, Next, ClientStep, StateMachine, PeerAnswers, Pong, Ping, Shutdown

LEMMA Invariance_Step == IInv /\ [Next]_vars => IInv'
  BY MachineTypeStep, LinkTypeStep, SharedStep, ClientKept DEF IInv, TypeOK, ClientGoal

\* IInv holds in every reachable state.
THEOREM Invariance == Spec => []IInv
  BY InitInv, Invariance_Step, PTL DEF Spec

-----------------------------------------------------------------------------
(* The invariants of PingPong *)

\* Every variable keeps its type, whatever clients, peers and signals do.
THEOREM TypeCorrect == Spec => []TypeOK
  BY Invariance, PTL DEF IInv

\* Disconnect's early return cannot be reached while the balancer serves:
\* only HealthService.Disconnect, at shutdown, leaves a mutex locked.
THEOREM NoLeak == Spec => []NoLeakWhileServing
<1>1. IInv => NoLeakWhileServing
  BY DEF IInv, ClientInv, LockInv, Serving, NoLeakWhileServing
<1>2. QED
  BY Invariance, <1>1, PTL

\* UnBlock never sends without a receiver, nor twice.
THEOREM SendReceived == Spec => []SenderHasReceiver
<1>1. IInv => SenderHasReceiver
  BY DEF IInv, ClientInv, SendInv, SenderHasReceiver, SmAt
<1>2. QED
  BY Invariance, <1>1, PTL

\* client.connector is only replaced when nobody uses the old one.
THEOREM ConnectorSafe == Spec => []ConnectorReplacedAlone
<1>1. IInv => ConnectorReplacedAlone
  BY DEF IInv, ClientInv, RunInv, ListedInv, ClosingInv, ConnectorReplacedAlone
<1>2. QED
  BY Invariance, <1>1, PTL

\* A client whose state machine has returned is not listed as active.
THEOREM QuitUnlisted == Spec => []QuitNotListed
<1>1. IInv => QuitNotListed
  BY DEF IInv, ClientInv, ListedInv, QuitNotListed, SmAt
<1>2. QED
  BY Invariance, <1>1, PTL

\* A peer is only dialled again after a restart close or a read error.
THEOREM ReconnectReason == Spec => []ReconnectJustified
<1>1. IInv => ReconnectJustified
  BY DEF IInv, ClientInv, ReasonInv, ReconnectJustified, SmAt
<1>2. QED
  BY Invariance, <1>1, PTL

\* The decision to quit is lost only at `client.state = TO_RUN`.
THEOREM QuitFinal == Spec => QuitIsFinal
<1>1. IInv /\ [Next]_vars =>
        [\A c \in Client : state[c] = "TO_QUIT" /\ ~SmAt(c, "torun") => state'[c] = "TO_QUIT"]_vars
  BY ClientKept DEF ClientGoal
<1>2. QED
  BY Invariance, <1>1, PTL DEF Spec, QuitIsFinal

-----------------------------------------------------------------------------
(* PingPong implements Lifecycle. *)

\* A machine that holds a link, or runs on one, has dialled.
DialledInv ==
    \A c \in Client :
        \/ smPc[c] \in {"lock", "unblock", "unblock2", "send", "ret", "torun", "wait"}
        \/ smPc[c] = "switch" /\ state[c] = "TO_RUN"
        => conns[c] > 0

LEMMA DialledStep == IInv /\ DialledInv /\ [Next]_vars => DialledInv'
<1> SUFFICES ASSUME IInv, DialledInv, [Next]_vars PROVE DialledInv'
    OBVIOUS
<1> USE DEF DialledInv, IInv, TypeOK, MachineTypeOK, LinkTypeOK, SharedTypeOK, SmAt, SmGoto, smVars,
            lockVars, ioVars, wfVars, shutVars
<1>1. ASSUME NEW c \in Client, StateMachine(c) PROVE DialledInv'
  BY <1>1 DEF StateMachine, PeerAnswers, SwitchConnect, SwitchRun, SwitchQuit, TransportError,
     PermissionRefused, ConnectFailed, PermissionGranted, DialSucceeds, MarkConnected, UnBlockCheck,
     UnBlockRecheck, UnBlockSend, ConnectReturns, CountConnection, SetToRun, WaitReturns
<1>2. ASSUME NEW c \in Client, Pong(c) \/ Ping(c) \/ PeerLeaves(c) PROVE DialledInv'
  <2>1. UNCHANGED <<smPc, conns>>
    BY <1>2 DEF Pong, Ping, PongCheck, PongRead, PongDisconnect, PongClose, PingTick, PingWrite,
       PeerLeaves
  <2>2. \A d \in Client : state'[d] = state[d] \/ state'[d] # "TO_RUN"
    BY <1>2 DEF Pong, Ping, PongCheck, PongRead, PongDisconnect, PongClose, PingTick, PingWrite,
       PeerLeaves, DisconnectLocked, CloseConnector, StateAfter
  <2> QED BY <2>1, <2>2
<1>3. CASE Listen \/ Signal \/ UNCHANGED vars
  BY <1>3 DEF Listen, Signal, vars
<1>4. CASE Shutdown
  <2>1. UNCHANGED <<smPc, conns>>
    BY <1>4 DEF Shutdown, FiberShutdown, ShutLock, ShutPick, ShutDisconnect, ShutClose, ShutUnlock,
       ShutdownReturns
  <2>2. \A d \in Client : state'[d] = state[d] \/ state'[d] # "TO_RUN"
    BY <1>4 DEF Shutdown, FiberShutdown, ShutLock, ShutPick, ShutDisconnect, ShutClose, ShutUnlock,
       ShutdownReturns, DisconnectLocked, CloseConnector
  <2> QED BY <2>1, <2>2
<1>5. QED
  BY <1>1, <1>2, <1>3, <1>4 DEF Next, ClientStep

\* Only a dial, Connected and the machine's return move a client's phase.
LEMMA PhaseKept ==
    ASSUME NEW d, connected'[d] <=> connected[d],
           \/ smPc'[d] = smPc[d]
           \/ smPc[d] \notin {"lock", "done"} /\ smPc'[d] \notin {"lock", "done"}
    PROVE  Phase(d)' = Phase(d)
BY DEF Phase

\* One client's turn, seen in the life of all.
LEMMA OnesTurn ==
    ASSUME NEW c \in Client, NEW from, NEW to, Phase(c) = from, Phase(c)' = to,
           \A d \in Client \ {c} : Phase(d)' = Phase(d)
    PROVE  Life!Turn(c, from, to)
BY DEF Life!Turn

LEMMA LifeStep == IInv /\ DialledInv /\ [Next]_vars => [Life!Live]_(Life!lcvars)
<1> DEFINE Still == (\A d \in Client : Phase(d)' = Phase(d)) /\ UNCHANGED <<conns, pongCode>>
<1> SUFFICES ASSUME IInv, DialledInv, [Next]_vars PROVE Life!Live \/ Still
  BY DEF Life!lcvars
<1>0. /\ smPc \in [Client -> SmPc] /\ connected \in [Client -> BOOLEAN]
      /\ conns \in [Client -> 0..MaxConns] /\ pongCode \in [Client -> Code]
      /\ state \in [Client -> {"TO_CONNECT", "TO_RUN", "TO_QUIT"}] /\ link \in [Client -> Link]
      /\ \A c \in Client : RunInv(c) /\ ListedInv(c) /\ ReasonInv(c)
  BY DEF IInv, TypeOK, MachineTypeOK, LinkTypeOK, ClientInv
<1>1. ASSUME NEW c \in Client, DialSucceeds(c) PROVE Life!Live
  <2>1. /\ smPc[c] = "dial" /\ smPc'[c] = "lock" /\ ~connected[c] /\ connected' = connected
        /\ conns' = [conns EXCEPT ![c] = @ + 1] /\ pongCode' = pongCode
        /\ \A d \in Client \ {c} : smPc'[d] = smPc[d]
    BY <1>0, <1>1 DEF DialSucceeds, SmAt, SmGoto, ioVars, ListedInv
  <2>2. \A d \in Client \ {c} : Phase(d)' = Phase(d)
    BY <2>1, PhaseKept
  <2>3. Phase(c) = "out" /\ Phase(c)' = "dialled"
    BY <2>1 DEF Phase
  <2>4. Life!Turn(c, "out", "dialled")
    BY <2>2, <2>3, OnesTurn
  <2>5. conns[c] > 0 => pongCode[c] \in {"c1012", "c4001"}
    BY <1>0, <2>1 DEF ReasonInv
  <2>6. Life!Dial(c)
    BY <2>1, <2>4, <2>5 DEF Life!Dial
  <2> QED BY <2>6 DEF Life!Live
<1>2. ASSUME NEW c \in Client, MarkConnected(c) PROVE Life!Live
  <2>1. /\ smPc[c] = "lock" /\ smPc'[c] = "unblock" /\ ~connected[c] /\ connected'[c]
        /\ UNCHANGED <<conns, pongCode>>
        /\ \A d \in Client \ {c} : smPc'[d] = smPc[d] /\ connected'[d] = connected[d]
    BY <1>0, <1>2 DEF MarkConnected, SmAt, SmGoto, ioVars, ListedInv
  <2>2. \A d \in Client \ {c} : Phase(d)' = Phase(d)
    BY <2>1, PhaseKept
  <2>3. Phase(c) = "dialled" /\ Phase(c)' = "listed"
    BY <2>1 DEF Phase
  <2>4. Life!Turn(c, "dialled", "listed")
    BY <2>2, <2>3, OnesTurn
  <2> QED BY <2>1, <2>4 DEF Life!Join, Life!Live
<1>3. ASSUME NEW c \in Client, SwitchQuit(c) PROVE Life!Live
  <2>1. /\ smPc[c] = "switch" /\ smPc'[c] = "done" /\ ~connected[c] /\ connected' = connected
        /\ UNCHANGED <<conns, pongCode>>
        /\ \A d \in Client \ {c} : smPc'[d] = smPc[d]
    BY <1>0, <1>3 DEF SwitchQuit, SmAt, SmGoto, ioVars, lockVars, ListedInv
  <2>2. \A d \in Client \ {c} : Phase(d)' = Phase(d)
    BY <2>1, PhaseKept
  <2>3. Phase(c) = "out" /\ Phase(c)' = "over"
    BY <2>1 DEF Phase
  <2>4. Life!Turn(c, "out", "over")
    BY <2>2, <2>3, OnesTurn
  <2> QED BY <2>1, <2>4 DEF Life!Retire, Life!Live
<1>4. ASSUME NEW c \in Client, StateMachine(c),
             ~DialSucceeds(c), ~MarkConnected(c), ~SwitchQuit(c)
      PROVE  Still
  <2>1. /\ UNCHANGED <<connected, conns, pongCode>>
        /\ \A d \in Client \ {c} : smPc'[d] = smPc[d]
        /\ \/ smPc'[c] = smPc[c]
           \/ smPc[c] \notin {"lock", "done"} /\ smPc'[c] \notin {"lock", "done"}
    BY <1>0, <1>4 DEF StateMachine, PeerAnswers, SwitchConnect, SwitchRun, TransportError,
       PermissionRefused, ConnectFailed, PermissionGranted, UnBlockCheck,
       UnBlockRecheck, UnBlockSend, ConnectReturns, CountConnection, SetToRun, WaitReturns,
       SmAt, SmGoto, ioVars, lockVars
  <2> QED BY <2>1, PhaseKept
<1>5. ASSUME NEW c \in Client, DisconnectLocked(c, state'[c]), UNCHANGED <<smPc, conns, pongCode>>
      PROVE  Life!Live \/ Still
  <2>1. CASE connected[c]
    <3>1. ~connected'[c] /\ \A d \in Client \ {c} : connected'[d] = connected[d]
      BY <1>0, <1>5, <2>1 DEF DisconnectLocked
    <3>2. smPc[c] # "done" /\ smPc[c] # "lock"
      BY <1>0, <2>1 DEF ListedInv
    <3>3. \A d \in Client \ {c} : Phase(d)' = Phase(d)
      BY <1>5, <3>1, PhaseKept
    <3>4. Phase(c) = "listed" /\ Phase(c)' = "out"
      BY <1>5, <2>1, <3>1, <3>2 DEF Phase
    <3>5. Life!Turn(c, "listed", "out")
      BY <3>3, <3>4, OnesTurn
    <3> QED BY <1>5, <3>5 DEF Life!Leave, Life!Live
  <2>2. CASE ~connected[c]
    BY <1>5, <2>2, PhaseKept DEF DisconnectLocked
  <2> QED BY <2>1, <2>2
<1>6. ASSUME NEW c \in Client, PongDisconnect(c) PROVE Life!Live \/ Still
  <2>1. UNCHANGED <<smPc, conns, pongCode>>
    BY <1>6 DEF PongDisconnect
  <2>2. DisconnectLocked(c, state'[c]) \/ UNCHANGED <<connected, smPc>>
    BY <1>0, <1>6 DEF PongDisconnect, DisconnectLocked
  <2>3. CASE UNCHANGED connected
    BY <2>1, <2>3, PhaseKept
  <2> QED BY <1>5, <2>1, <2>2, <2>3
<1>7. ASSUME NEW c \in Client, PongRead(c) PROVE Life!Live \/ Still
  <2>1. UNCHANGED <<smPc, connected, conns>> /\ pongPc[c] = "read"
    BY <1>7 DEF PongRead, smVars, lockVars
  <2>2. \A d \in Client : Phase(d)' = Phase(d)
    BY <2>1, PhaseKept
  <2>3. CASE pongCode' = pongCode
    BY <2>1, <2>2, <2>3
  <2>4. CASE pongCode' # pongCode
    <3>1. PICK code \in Code : pongCode' = [pongCode EXCEPT ![c] = code]
      BY <1>7, <2>4 DEF PongRead, Code, CloseFrame
    <3>2. smPc[c] = "wait"
      BY <1>0, <2>1 DEF RunInv
    <3>3. conns[c] > 0
      BY <3>2 DEF DialledInv
    <3>4. Phase(c) \in {"listed", "out"}
      BY <3>2 DEF Phase
    <3>5. Life!Hear(c)
      BY <2>1, <2>2, <3>1, <3>3, <3>4 DEF Life!Hear
    <3> QED BY <3>5 DEF Life!Live
  <2> QED BY <2>3, <2>4
<1>8. ASSUME NEW c \in Client, PongCheck(c) \/ PongClose(c) \/ Ping(c) \/ PeerLeaves(c) PROVE Still
  <2>1. UNCHANGED <<smPc, connected, conns, pongCode>>
    BY <1>8 DEF PongCheck, PongClose, Ping, PingTick, PingWrite, PeerLeaves, smVars, lockVars, ioVars
  <2> QED BY <2>1, PhaseKept
<1>9. CASE Listen \/ Signal \/ UNCHANGED vars
  <2>1. UNCHANGED <<smPc, connected, conns, pongCode>>
    BY <1>9 DEF Listen, Signal, vars, smVars, lockVars, ioVars
  <2> QED BY <2>1, PhaseKept
<1>10. CASE ShutDisconnect
  <2>1. PICK c \in Client : c = shutCur
    BY <1>10 DEF ShutDisconnect, IInv, ShutInv
  <2>2. UNCHANGED <<smPc, conns, pongCode>>
    BY <1>10 DEF ShutDisconnect, ioVars
  <2>3. DisconnectLocked(c, state'[c]) \/ UNCHANGED connected
    BY <1>0, <1>10, <2>1 DEF ShutDisconnect, DisconnectLocked
  <2>4. CASE UNCHANGED connected
    BY <2>2, <2>4, PhaseKept
  <2> QED BY <1>5, <2>2, <2>3, <2>4
<1>11. CASE Shutdown /\ ~ShutDisconnect
  <2>1. UNCHANGED <<smPc, connected, conns, pongCode>>
    BY <1>11 DEF Shutdown, FiberShutdown, ShutLock, ShutPick, ShutClose, ShutUnlock,
       ShutdownReturns, smVars, lockVars, ioVars
  <2> QED BY <2>1, PhaseKept
<1> QED BY <1>1, <1>2, <1>3, <1>4, <1>6, <1>7, <1>8, <1>9, <1>10, <1>11
        DEF Next, ClientStep, Pong

\* The goroutines of healthService.go take each client through the life the balancer
\* promises, for every number of clients, retries and connections.
THEOREM Implements == Spec => LeadsOneLife
<1>1. Init => DialledInv /\ Life!Begin
  <2> SUFFICES ASSUME Init PROVE DialledInv /\ Life!Begin
    OBVIOUS
  <2>1. DialledInv
    BY DEF Init, DialledInv
  <2>2. \A c \in Client : Phase(c) = "out"
    BY DEF Init, Phase
  <2>3. pongCode \in [Client -> Code] /\ conns = [c \in Client |-> 0]
    BY DEF Init, Code, CloseFrame
  <2> QED BY <2>1, <2>2, <2>3 DEF Life!Begin
<1>2. QED
  BY <1>1, DialledStep, LifeStep, Invariance, PTL DEF Spec, LeadsOneLife, Life!LifeSpec

\* activePpConnection never falls below the number of listed clients.
THEOREM CountCovers == Spec => []CountCoversConnected
<1>1. Init => CountInv
  <2>1. ASSUME Init PROVE Covered = {}
    BY <2>1 DEF Init, Covered
  <2>2. ASSUME Init PROVE CountCoversConnected
    BY <2>1, <2>2, FS_EmptySet DEF CountCoversConnected, Covered, Init
  <2>3. QED
    BY <2>2, InitInv DEF CountInv
<1>2. CountInv /\ [Next]_vars => CountInv'
  <2> SUFFICES ASSUME CountInv, [Next]_vars PROVE CountCoversConnected'
      BY Invariance_Step DEF CountInv
  <2>1. /\ IsFiniteSet(Covered) /\ Cardinality(Covered) \in Nat
        /\ IsFiniteSet(Covered')
        /\ active \in Nat
    <3>1. Covered \subseteq Client /\ Covered' \subseteq Client
      BY DEF Covered
    <3>2. QED
      BY <3>1, FS_Subset, FS_CardinalityType DEF CountInv, IInv, TypeOK, SharedTypeOK
  <2>2. Cardinality(Covered) <= active
    BY DEF CountInv, CountCoversConnected, Covered
  <2>3. CASE active' = active /\ Covered' \subseteq Covered
    <3>1. Cardinality(Covered') <= Cardinality(Covered)
      BY <2>1, <2>3, FS_Subset
    <3>2. QED
      BY <2>1, <2>2, <2>3, <3>1, FS_CardinalityType DEF CountCoversConnected, Covered
  <2>4. CASE active' = active + 1 /\ \E e \in Client : Covered' \subseteq Covered \cup {e}
    <3>1. PICK e \in Client : Covered' \subseteq Covered \cup {e}
      BY <2>4
    <3>2. /\ IsFiniteSet(Covered \cup {e})
          /\ Cardinality(Covered \cup {e}) <= Cardinality(Covered) + 1
      <4>1. /\ IsFiniteSet(Covered \cup {e})
            /\ Cardinality(Covered \cup {e}) = IF e \in Covered THEN Cardinality(Covered) ELSE Cardinality(Covered) + 1
        BY <2>1, FS_AddElement, Zenon
      <4> HIDE DEF Covered
      <4>2. QED
        BY <4>1, <2>1
    <3>3. Cardinality(Covered') <= Cardinality(Covered \cup {e})
      BY <3>1, <3>2, FS_Subset
    <3>4. Cardinality(Covered') \in Nat /\ Cardinality(Covered \cup {e}) \in Nat
      BY <2>1, <3>2, FS_CardinalityType
    <3>5. Cardinality(Covered') <= active'
      BY <2>1, <2>2, <2>4, <3>2, <3>3, <3>4
    <3>6. QED
      BY <3>5 DEF CountCoversConnected, Covered
  <2>5. QED
    BY <2>3, <2>4, CoverStep DEF CountInv, CoverGoal, CountKept, CountGrown
<1>3. QED
  BY <1>1, <1>2, PTL DEF Spec, CountInv


-----------------------------------------------------------------------------
(* Requests over the connection layer *)

\* A client that is listed was granted permission.
StartedInv == \A c \in Client : connected[c] \/ smPc[c] \in {"dial", "lock"} => started[c]

\* Within a snapshot: who has been connected all along is in it once visited, and
\* who is in it was connected at some time.
SnapInv(r) ==
    /\ reqPc[r] = "visit" => /\ Connected \subseteq seen[r] /\ steady[r] \subseteq Connected
                             /\ steady[r] \ toVisit[r] \subseteq servers[r]
    /\ reqPc[r] \in {"visit", "choose"} => servers[r] \subseteq seen[r]
    /\ reqPc[r] = "choose" => steady[r] \subseteq servers[r]

SnapTypeOK ==
    /\ reqPc \in [Reader -> {"idle", "active", "lock", "visit", "choose", "forward", "await"}]
    /\ toVisit \in [Reader -> SUBSET Client] /\ servers \in [Reader -> SUBSET Client]
    /\ steady \in [Reader -> SUBSET Client] /\ seen \in [Reader -> SUBSET Client]

ReqInv == IInv /\ StartedInv /\ SnapTypeOK /\ \A r \in Reader : SnapInv(r)

\* StartedInv is kept by every step of the connection layer.
LEMMA StartedStep == IInv /\ StartedInv /\ [Next]_vars => StartedInv'
<1> SUFFICES ASSUME IInv, StartedInv, [Next]_vars PROVE StartedInv'
    OBVIOUS
<1> USE DEF StartedInv, IInv, TypeOK, MachineTypeOK, SmAt, SmGoto, smVars, lockVars, ioVars, wfVars, shutVars
<1>1. ASSUME NEW c \in Client, StateMachine(c) PROVE StartedInv'
  BY <1>1 DEF StateMachine, PeerAnswers, SwitchConnect, SwitchRun, SwitchQuit, TransportError,
     PermissionRefused, ConnectFailed, PermissionGranted, DialSucceeds, MarkConnected, UnBlockCheck,
     UnBlockRecheck, UnBlockSend, ConnectReturns, CountConnection, SetToRun, WaitReturns
<1>2. ASSUME NEW c \in Client, Pong(c) \/ Ping(c) \/ PeerLeaves(c) PROVE StartedInv'
  BY <1>2 DEF Pong, Ping, PongCheck, PongRead, PongDisconnect, PongClose, DisconnectLocked,
     PingTick, PingWrite, PeerLeaves
<1>3. CASE Listen \/ Signal \/ UNCHANGED vars
  BY <1>3 DEF Listen, Signal, vars
<1>4. CASE Shutdown
  BY <1>4 DEF Shutdown, FiberShutdown, ShutLock, ShutPick, ShutDisconnect, ShutClose, ShutUnlock,
     ShutdownReturns, DisconnectLocked, ShutGoto
<1>5. QED
  BY <1>1, <1>2, <1>3, <1>4 DEF Next, ClientStep

\* What a request does to the connection layer: it holds HealthService.mu for reading.
LEMMA RequestsKeepHealth ==
    ASSUME IInv, StartedInv, HealthUntouched, hmu' \in SUBSET ({"shut"} \cup Reader)
    PROVE  IInv' /\ StartedInv'
<1> USE DEF HealthUntouched, smVars, lockVars, ioVars, wfVars, shutVars
<1>1. TypeOK'
  BY DEF IInv, TypeOK, MachineTypeOK, LinkTypeOK, SharedTypeOK
<1>2. StartedInv' /\ ShutInv'
  BY DEF IInv, StartedInv, ShutInv
<1>3. ASSUME NEW c \in Client PROVE ClientInv(c)' /\ RetryInv(c)'
  <2>1. ClientInv(c) /\ RetryInv(c)
    BY DEF IInv
  <2>2. QED
    BY <2>1 DEF ClientInv, RunInv, LockInv, ListedInv, ClosingInv, SendInv, ReasonInv, RetryInv, Serving
<1>4. QED
  BY <1>1, <1>2, <1>3 DEF IInv

\* A step of the connection layer under the snapshots.
LEMMA HealthStep == ASSUME ReqInv, HealthNext PROVE ReqInv'
<1>1. /\ [Next]_vars /\ UNCHANGED <<reqVars, crashed>>
         /\ steady' = [r \in Reader |-> {c \in steady[r] : connected'[c] \/ reqPc[r] # "visit"}]
         /\ seen' = [r \in Reader |-> seen[r] \cup {c \in Client : connected'[c] /\ reqPc[r] = "visit"}]
  BY DEF HealthNext, Beneath, Next
<1>2. IInv' /\ StartedInv'
  BY <1>1, Invariance_Step, StartedStep DEF ReqInv
<1>3. SnapTypeOK'
  BY <1>1 DEF ReqInv, SnapTypeOK, reqVars
<1>4. ASSUME NEW r \in Reader PROVE SnapInv(r)'
  <2>1. /\ SnapInv(r) /\ SnapTypeOK
        /\ reqPc' = reqPc /\ toVisit' = toVisit /\ servers' = servers
        /\ steady'[r] = {c \in steady[r] : connected'[c] \/ reqPc[r] # "visit"}
        /\ seen'[r] = seen[r] \cup {c \in Client : connected'[c] /\ reqPc[r] = "visit"}
    BY <1>1 DEF ReqInv, reqVars
  <2>2. QED
    BY <2>1 DEF SnapInv, SnapTypeOK, Connected
<1>5. QED
  BY <1>2, <1>3, <1>4 DEF ReqInv

\* A step of a request changes its own snapshot only.
LEMMA RequestStep ==
    ASSUME ReqInv, NEW r \in Reader, Arrive(r) \/ Handle(r) \/ ServerAnswers(r)
    PROVE  ReqInv'
<1> USE DEF SnapTypeOK, ReqStep
<1>1. /\ connected' = connected /\ hmu' \in SUBSET ({"shut"} \cup Reader)
      /\ IInv' /\ StartedInv'
  <2>1. hmu \in SUBSET ({"shut"} \cup Reader)
    BY DEF ReqInv, IInv, TypeOK, SharedTypeOK
  <2>2. CASE HealthUntouched
    <3>1. hmu' \in SUBSET ({"shut"} \cup Reader)
      BY <2>1 DEF Arrive, Handle, ActiveMiddleware, SnapshotLock, SnapshotVisit, SnapshotUnlock,
                  ChooseServer, Send, ServerAnswers, Unavailable, Forwarded
    <3>2. QED
      BY <2>2, <3>1, RequestsKeepHealth DEF ReqInv, HealthUntouched, lockVars
  <2>3. CASE ChooseServer(r)
    <3>1. UNCHANGED vars
      BY <2>3 DEF ChooseServer, vars
    <3>2. QED
      BY <2>1, <3>1, Invariance_Step, StartedStep DEF ReqInv, vars, lockVars
  <2>4. QED
    BY <2>2, <2>3 DEF Arrive, Handle, ActiveMiddleware, SnapshotLock, SnapshotVisit, SnapshotUnlock,
                Send, ServerAnswers, Unavailable, Forwarded
<1>2. SnapTypeOK /\ SnapInv(r) /\ StartedInv /\ Connected \subseteq Client
  BY DEF ReqInv, Connected
<1>3. ASSUME NEW q \in Reader, q # r PROVE SnapInv(q)'
  <2>1. /\ SnapInv(q) /\ reqPc'[q] = reqPc[q] /\ toVisit'[q] = toVisit[q]
        /\ servers'[q] = servers[q] /\ steady'[q] = steady[q] /\ seen'[q] = seen[q]
    BY <1>3 DEF ReqInv, Arrive, Handle, ActiveMiddleware, SnapshotLock, SnapshotVisit, SnapshotUnlock,
                ChooseServer, Send, ServerAnswers, Unavailable, Forwarded
  <2>2. QED
    BY <1>1, <2>1 DEF SnapInv, Connected
<1>4. CASE Arrive(r) \/ ActiveMiddleware(r)
  BY <1>1, <1>2, <1>3, <1>4 DEF Arrive, ActiveMiddleware, SnapInv, ReqInv, Connected
<1>5. CASE SnapshotLock(r)
  BY <1>1, <1>2, <1>3, <1>5 DEF SnapshotLock, SnapInv, ReqInv, Connected
<1>6. ASSUME NEW c \in Client, SnapshotVisit(r, c) PROVE ReqInv'
  <2>1. /\ toVisit'[r] = toVisit[r] \ {c} /\ steady' = steady /\ seen' = seen
        /\ servers'[r] = IF connected[c] /\ started[c] THEN servers[r] \cup {c} ELSE servers[r]
        /\ reqPc'[r] = "visit" /\ reqPc[r] = "visit"
    BY <1>2, <1>6 DEF SnapshotVisit
  <2>2. connected[c] => started[c] /\ c \in Connected
    BY <1>2 DEF StartedInv, Connected
  <2>3. ~connected[c] => c \notin Connected
    BY DEF Connected
  <2>4. SnapInv(r)'
    <3>1. Connected' = Connected
      BY <1>1 DEF Connected
    <3>2. steady[r] \ toVisit'[r] \subseteq servers'[r]
      BY <1>2, <2>1, <2>2, <2>3 DEF SnapInv
    <3>3. servers'[r] \subseteq seen[r]
      BY <1>2, <2>1, <2>2 DEF SnapInv
    <3>4. QED
      BY <1>2, <2>1, <3>1, <3>2, <3>3 DEF SnapInv
  <2>5. SnapTypeOK'
    BY <1>2, <1>6 DEF SnapshotVisit
  <2>6. QED
    BY <1>1, <1>3, <2>4, <2>5 DEF ReqInv
<1>7. CASE SnapshotUnlock(r)
  BY <1>1, <1>2, <1>3, <1>7 DEF SnapshotUnlock, SnapInv, ReqInv, Connected
<1>8. CASE ChooseServer(r)
  BY <1>1, <1>2, <1>3, <1>8 DEF ChooseServer, SnapInv, ReqInv, Connected
<1>9. CASE Send(r) \/ ServerAnswers(r)
  BY <1>1, <1>2, <1>3, <1>9 DEF Send, ServerAnswers, Unavailable, Forwarded, SnapInv, ReqInv, Connected
<1>10. QED
  BY <1>4, <1>5, <1>6, <1>7, <1>8, <1>9 DEF Handle

\* For every number of clients and requests, whoever comes and goes: ActiveServer's
\* slice holds every client that stayed, and only clients that were there.
THEOREM SnapshotConsistentAlways == ReqSpec => []SnapshotConsistent
<1>1. ReqInit => ReqInv
  <2> SUFFICES ASSUME ReqInit PROVE ReqInv
    OBVIOUS
  <2>1. IInv
    BY InitInv DEF ReqInit
  <2>2. StartedInv
    BY DEF ReqInit, Init, StartedInv
  <2>3. SnapTypeOK /\ \A r \in Reader : SnapInv(r)
    BY DEF ReqInit, SnapTypeOK, SnapInv
  <2>4. QED
    BY <2>1, <2>2, <2>3 DEF ReqInv
<1>2. ReqInv /\ [ReqNext]_allVars => ReqInv'
  <2> SUFFICES ASSUME ReqInv, [ReqNext]_allVars PROVE ReqInv'
    OBVIOUS
  <2>1. CASE UNCHANGED allVars
    <3>1. IInv' /\ StartedInv'
      BY <2>1, Invariance_Step, StartedStep DEF ReqInv, allVars
    <3>2. SnapTypeOK' /\ \A r \in Reader : SnapInv(r)'
      BY <2>1 DEF allVars, vars, lockVars, reqVars, ReqInv, SnapTypeOK, SnapInv, Connected
    <3>3. QED
      BY <3>1, <3>2 DEF ReqInv
  <2>2. QED
    BY <2>1, HealthStep, RequestStep DEF ReqNext
<1>3. ReqInv => SnapshotConsistent
  BY DEF ReqInv, SnapInv, SnapshotConsistent
<1>4. QED
  BY <1>1, <1>2, <1>3, PTL DEF ReqSpec
=============================================================================
