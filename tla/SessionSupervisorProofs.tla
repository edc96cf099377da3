----------------------- MODULE SessionSupervisorProofs -----------------------
(***************************************************************************)
(* Proofs about SessionSupervisor, for every set of sockets and whichever  *)
(* owners act.  The safety invariants are not inductive: IInv adds how the *)
(* phases of run(), of its session and of the close() callers exclude each *)
(* other, and what each of them has already reset.                         *)
(***************************************************************************)
EXTENDS SessionSupervisor, TLAPS

\* The session task exists only while run() waits for it, or was cancelled
\* while it did; a result is only there at the end.
PhaseInv ==
  /\ runPc \in {"init", "settling", "backoff", "done"} => sessPc \in {"none", "ended"}
  /\ Dialling => runPc = "waiting"
  /\ runPc # "done" => runResult = "none"
  /\ runPc = "cancelled" => ownerPc = "unloading"
  /\ sessPc = "ended" /\ sessError = "unauthorised" => runPc \notin {"init", "backoff"}

\* A close() past the latch holds it, and the two callers exclude each other.
CloseInv ==
  /\ closePc["run"] # "idle" => closed /\ runPc = "settling" /\ closePc["owner"] = "idle"
  /\ closePc["owner"] # "idle" => (closed \/ runPc = "done") /\ runPc # "cancelled"
  /\ \A c \in Closers : closePc[c] = "closingSocket" => connection \notin open
  /\ closePc["run"] = "closingSocket" => ~pending
  /\ Undisturbed /\ closed => closePc["run"] # "idle"
  /\ deferred => connection = NoSocket /\ ~closed /\ \A c \in Closers : closePc[c] = "idle"

\* What a pass finds when it begins, and what its dial may rely on.
FreshInv ==
  /\ runPc \in {"init", "backoff"} => ~pending /\ ~reconnect
  /\ sessPc \in {"opening", "connecting"} =>
       connection = NoSocket /\ ~deferred /\ \A c \in Closers : closePc[c] = "idle"

\* Only an ended supervisor can have lost the reference to an open socket.
SocketInv ==
  /\ runPc # "done" => open \subseteq {connection}
  /\ Undisturbed /\ runPc \in {"backoff", "done"} =>
       open = {} /\ connection = NoSocket /\ ~pending
  /\ AtMostOneSocket

IInv ==
  /\ TypeOK /\ PhaseInv /\ CloseInv /\ FreshInv /\ SocketInv
  /\ AvailableOnlyWhenAuthenticated /\ FreshSessionUndisturbed

\* What one step does to a rejected session, and to the state of the contract.
RejectionKept ==
  sessError = "unauthorised" /\ sessPc = "ended" =>
    sessError' \in {"unauthorised", "cancelled"} /\ sessPc' = "ended"

ContractKept == Contract!Next \/ UNCHANGED Status

\* The initial states of both callers of run() satisfy the invariant.
LEMMA InitInvariant == Init => IInv
BY SupervisorAssumption DEF Init, IInv, TypeOK, PhaseTypes, FlagTypes, SocketTypes, PhaseInv, CloseInv, FreshInv, SocketInv,
   AtMostOneSocket, AvailableOnlyWhenAuthenticated, FreshSessionUndisturbed, Closers,
   CloseStages, Failures, Dialling, Undisturbed

\* Type correctness, one kind of variable at a time: the phases,
LEMMA PhaseTypesStep == TypeOK /\ [Next]_vars => PhaseTypes'
<1> SUFFICES ASSUME TypeOK, [Next]_vars PROVE PhaseTypes'
  OBVIOUS
<1> USE SupervisorAssumption DEF TypeOK, PhaseTypes, FlagTypes, SocketTypes, Closers, CloseStages, Failures, Dialling, IsConnected, supVars, sessVars, flagVars
<1>1. CASE StartListening
  BY <1>1 DEF StartListening, GoesLive
<1>2. CASE Bootstrap
  BY <1>2 DEF Bootstrap
<1>3. CASE ConnectWebsocket
  BY <1>3 DEF ConnectWebsocket, GoesLive
<1>4. CASE Authenticate
  BY <1>4 DEF Authenticate
<1>5. CASE RequestReconnect
  BY <1>5 DEF RequestReconnect
<1>6. CASE ReconnectRaised
  BY <1>6 DEF ReconnectRaised
<1>7. CASE WorkerFails
  BY <1>7 DEF WorkerFails
<1>8. CASE SessionUnwound
  BY <1>8 DEF SessionUnwound
<1>9. CASE RunStartsPass
  BY <1>9 DEF RunStartsPass
<1>10. CASE RunSeesAuthentication
  BY <1>10 DEF RunSeesAuthentication, SignalsAvailable
<1>11. CASE RunSeesSessionEnd
  BY <1>11 DEF RunSeesSessionEnd, SignalsAvailable
<1>12. CASE RunRecovers
  BY <1>12 DEF RunRecovers, TeardownRequested, CloseReaches, DrainStage, CancelStage, SocketStage, RunResumes, Reset, Verdict, SignalsOutage
<1>13. CASE RunCancelled
  BY <1>13 DEF RunCancelled
<1>14. CASE Stop
  BY <1>14 DEF Stop, OwnerCloses, CloseReaches, DrainStage, CancelStage, SocketStage, RunResumes, Reset, Verdict, SignalsOutage
<1>15. CASE Unload
  BY <1>15 DEF Unload, CancelRun, Abandons
<1>16. CASE UnloadCloses
  BY <1>16 DEF UnloadCloses, OwnerCloses, CloseReaches, DrainStage, CancelStage, SocketStage, RunResumes, Reset, Verdict, SignalsOutage
<1>17. CASE PeerCloses
  BY <1>17 DEF PeerCloses
<1>18. CASE EntityQueuesCommand
  BY <1>18 DEF EntityQueuesCommand
<1>19. CASE QueueDrains
  BY <1>19 DEF QueueDrains
<1>20. ASSUME NEW c \in Closers, CloseContinues(c) PROVE PhaseTypes'
  BY <1>20 DEF CloseContinues, CloseReaches, DrainStage, CancelStage, SocketStage, RunResumes, Reset, Verdict, SignalsOutage
<1>21. CASE UNCHANGED vars
  BY <1>21 DEF vars
<1>. QED
  BY <1>1, <1>2, <1>3, <1>4, <1>5, <1>6, <1>7, <1>8, <1>9, <1>10, <1>11, <1>12, <1>13, <1>14, <1>15, <1>16, <1>17, <1>18, <1>19, <1>20, <1>21 DEF Next, SessionStep, RunStep, OwnerStep, Environment

\* the flags,
LEMMA FlagTypesStep == TypeOK /\ [Next]_vars => FlagTypes'
<1> SUFFICES ASSUME TypeOK, [Next]_vars PROVE FlagTypes'
  OBVIOUS
<1> USE SupervisorAssumption DEF TypeOK, PhaseTypes, FlagTypes, SocketTypes, Closers, CloseStages, Failures, Dialling, IsConnected, supVars, sessVars, flagVars
<1>1. CASE StartListening
  BY <1>1 DEF StartListening, GoesLive
<1>2. CASE Bootstrap
  BY <1>2 DEF Bootstrap
<1>3. CASE ConnectWebsocket
  BY <1>3 DEF ConnectWebsocket, GoesLive
<1>4. CASE Authenticate
  BY <1>4 DEF Authenticate
<1>5. CASE RequestReconnect
  BY <1>5 DEF RequestReconnect
<1>6. CASE ReconnectRaised
  BY <1>6 DEF ReconnectRaised
<1>7. CASE WorkerFails
  BY <1>7 DEF WorkerFails
<1>8. CASE SessionUnwound
  BY <1>8 DEF SessionUnwound
<1>9. CASE RunStartsPass
  BY <1>9 DEF RunStartsPass
<1>10. CASE RunSeesAuthentication
  BY <1>10 DEF RunSeesAuthentication, SignalsAvailable
<1>11. CASE RunSeesSessionEnd
  BY <1>11 DEF RunSeesSessionEnd, SignalsAvailable
<1>12. CASE RunRecovers
  BY <1>12 DEF RunRecovers, TeardownRequested, CloseReaches, DrainStage, CancelStage, SocketStage, RunResumes, Reset, Verdict, SignalsOutage
<1>13. CASE RunCancelled
  BY <1>13 DEF RunCancelled
<1>14. CASE Stop
  BY <1>14 DEF Stop, OwnerCloses, CloseReaches, DrainStage, CancelStage, SocketStage, RunResumes, Reset, Verdict, SignalsOutage
<1>15. CASE Unload
  BY <1>15 DEF Unload, CancelRun, Abandons
<1>16. CASE UnloadCloses
  BY <1>16 DEF UnloadCloses, OwnerCloses, CloseReaches, DrainStage, CancelStage, SocketStage, RunResumes, Reset, Verdict, SignalsOutage
<1>17. CASE PeerCloses
  BY <1>17 DEF PeerCloses
<1>18. CASE EntityQueuesCommand
  BY <1>18 DEF EntityQueuesCommand
<1>19. CASE QueueDrains
  BY <1>19 DEF QueueDrains
<1>20. ASSUME NEW c \in Closers, CloseContinues(c) PROVE FlagTypes'
  <2>1. PICK stage : CloseReaches(c, stage, closed)
    BY <1>20 DEF CloseContinues
  <2>2. closed' \in BOOLEAN
    BY <2>1 DEF CloseReaches
  <2>3. reconnect' \in BOOLEAN /\ connected' \in BOOLEAN
    BY <2>1 DEF CloseReaches, RunResumes, Reset, SignalsOutage
  <2>4. pending' \in BOOLEAN /\ UNCHANGED <<available, authSeen, shutdown, deferred, backlog>>
    BY <1>20 DEF CloseContinues
  <2>. QED
    BY <1>20, <2>2, <2>3, <2>4 DEF CloseContinues
<1>21. CASE UNCHANGED vars
  BY <1>21 DEF vars
<1>. QED
  BY <1>1, <1>2, <1>3, <1>4, <1>5, <1>6, <1>7, <1>8, <1>9, <1>10, <1>11, <1>12, <1>13, <1>14, <1>15, <1>16, <1>17, <1>18, <1>19, <1>20, <1>21 DEF Next, SessionStep, RunStep, OwnerStep, Environment

\* and the sockets with the callers of close().
LEMMA SocketTypesStep == TypeOK /\ [Next]_vars => SocketTypes'
<1> SUFFICES ASSUME TypeOK, [Next]_vars PROVE SocketTypes'
  OBVIOUS
<1> USE SupervisorAssumption DEF TypeOK, PhaseTypes, FlagTypes, SocketTypes, Closers, CloseStages, Failures, Dialling, IsConnected, supVars, sessVars, flagVars
<1>1. CASE StartListening
  BY <1>1 DEF StartListening, GoesLive
<1>2. CASE Bootstrap
  BY <1>2 DEF Bootstrap
<1>3. CASE ConnectWebsocket
  BY <1>3 DEF ConnectWebsocket, GoesLive
<1>4. CASE Authenticate
  BY <1>4 DEF Authenticate
<1>5. CASE RequestReconnect
  BY <1>5 DEF RequestReconnect
<1>6. CASE ReconnectRaised
  BY <1>6 DEF ReconnectRaised
<1>7. CASE WorkerFails
  BY <1>7 DEF WorkerFails
<1>8. CASE SessionUnwound
  BY <1>8 DEF SessionUnwound
<1>9. CASE RunStartsPass
  BY <1>9 DEF RunStartsPass
<1>10. CASE RunSeesAuthentication
  BY <1>10 DEF RunSeesAuthentication, SignalsAvailable
<1>11. CASE RunSeesSessionEnd
  BY <1>11 DEF RunSeesSessionEnd, SignalsAvailable
<1>12. CASE RunRecovers
  BY <1>12 DEF RunRecovers, TeardownRequested, CloseReaches, DrainStage, CancelStage, SocketStage, RunResumes, Reset, Verdict, SignalsOutage
<1>13. CASE RunCancelled
  BY <1>13 DEF RunCancelled
<1>14. CASE Stop
  BY <1>14 DEF Stop, OwnerCloses, CloseReaches, DrainStage, CancelStage, SocketStage, RunResumes, Reset, Verdict, SignalsOutage
<1>15. CASE Unload
  BY <1>15 DEF Unload, CancelRun, Abandons
<1>16. CASE UnloadCloses
  BY <1>16 DEF UnloadCloses, OwnerCloses, CloseReaches, DrainStage, CancelStage, SocketStage, RunResumes, Reset, Verdict, SignalsOutage
<1>17. CASE PeerCloses
  BY <1>17 DEF PeerCloses
<1>18. CASE EntityQueuesCommand
  BY <1>18 DEF EntityQueuesCommand
<1>19. CASE QueueDrains
  BY <1>19 DEF QueueDrains
<1>20. ASSUME NEW c \in Closers, CloseContinues(c) PROVE SocketTypes'
  BY <1>20 DEF CloseContinues, CloseReaches, DrainStage, CancelStage, SocketStage, RunResumes, Reset, Verdict, SignalsOutage
<1>21. CASE UNCHANGED vars
  BY <1>21 DEF vars
<1>. QED
  BY <1>1, <1>2, <1>3, <1>4, <1>5, <1>6, <1>7, <1>8, <1>9, <1>10, <1>11, <1>12, <1>13, <1>14, <1>15, <1>16, <1>17, <1>18, <1>19, <1>20, <1>21 DEF Next, SessionStep, RunStep, OwnerStep, Environment

\* A step keeps the phases of run() and of its session in line.
LEMMA PhaseStep == IInv /\ [Next]_vars => PhaseInv'
<1> SUFFICES ASSUME IInv, [Next]_vars PROVE PhaseInv'
  OBVIOUS
<1> USE SupervisorAssumption DEF IInv, TypeOK, PhaseInv, PhaseTypes, CloseInv, FlagTypes, SocketTypes, Closers, CloseStages, Failures, Dialling, Undisturbed, IsConnected, supVars, sessVars, flagVars
<1>1. CASE StartListening
  BY <1>1 DEF StartListening, GoesLive
<1>2. CASE Bootstrap
  BY <1>2 DEF Bootstrap
<1>3. CASE ConnectWebsocket
  BY <1>3 DEF ConnectWebsocket, GoesLive
<1>4. CASE Authenticate
  BY <1>4 DEF Authenticate
<1>5. CASE RequestReconnect
  BY <1>5 DEF RequestReconnect
<1>6. CASE ReconnectRaised
  BY <1>6 DEF ReconnectRaised
<1>7. CASE WorkerFails
  BY <1>7 DEF WorkerFails
<1>8. CASE SessionUnwound
  BY <1>8 DEF SessionUnwound
<1>9. CASE RunStartsPass
  BY <1>9 DEF RunStartsPass
<1>10. CASE RunSeesAuthentication
  BY <1>10 DEF RunSeesAuthentication, SignalsAvailable
<1>11. CASE RunSeesSessionEnd
  BY <1>11 DEF RunSeesSessionEnd, SignalsAvailable
<1>12. CASE RunRecovers
  BY <1>12 DEF RunRecovers, TeardownRequested, CloseReaches, DrainStage, CancelStage, SocketStage, RunResumes, Reset, Verdict, SignalsOutage
<1>13. CASE RunCancelled
  BY <1>13 DEF RunCancelled
<1>14. CASE Stop
  BY <1>14 DEF Stop, OwnerCloses, CloseReaches, DrainStage, CancelStage, SocketStage, RunResumes, Reset, Verdict, SignalsOutage
<1>15. CASE Unload
  BY <1>15 DEF Unload, CancelRun, Abandons
<1>16. CASE UnloadCloses
  BY <1>16 DEF UnloadCloses, OwnerCloses, CloseReaches, DrainStage, CancelStage, SocketStage, RunResumes, Reset, Verdict, SignalsOutage
<1>17. CASE PeerCloses
  BY <1>17 DEF PeerCloses
<1>18. CASE EntityQueuesCommand
  BY <1>18 DEF EntityQueuesCommand
<1>19. CASE QueueDrains
  BY <1>19 DEF QueueDrains
<1>20. ASSUME NEW c \in Closers, CloseContinues(c) PROVE PhaseInv'
  BY <1>20 DEF CloseContinues, CloseReaches, DrainStage, CancelStage, SocketStage, RunResumes, Reset, Verdict, SignalsOutage
<1>21. CASE UNCHANGED vars
  BY <1>21 DEF vars
<1>. QED
  BY <1>1, <1>2, <1>3, <1>4, <1>5, <1>6, <1>7, <1>8, <1>9, <1>10, <1>11, <1>12, <1>13, <1>14, <1>15, <1>16, <1>17, <1>18, <1>19, <1>20, <1>21 DEF Next, SessionStep, RunStep, OwnerStep, Environment

\* A step keeps the latch of close() with the caller that holds it.
LEMMA CloseStep == IInv /\ [Next]_vars => CloseInv'
<1> SUFFICES ASSUME IInv, [Next]_vars PROVE CloseInv'
  OBVIOUS
<1> USE SupervisorAssumption DEF IInv, TypeOK, CloseInv, PhaseInv, FreshInv, FlagTypes, SocketTypes, SocketInv, Closers, CloseStages, Failures, Dialling, Undisturbed, IsConnected, supVars, sessVars, flagVars
<1>1. CASE StartListening
  BY <1>1 DEF StartListening, GoesLive
<1>2. CASE Bootstrap
  BY <1>2 DEF Bootstrap
<1>3. CASE ConnectWebsocket
  BY <1>3 DEF ConnectWebsocket, GoesLive
<1>4. CASE Authenticate
  BY <1>4 DEF Authenticate
<1>5. CASE RequestReconnect
  BY <1>5 DEF RequestReconnect
<1>6. CASE ReconnectRaised
  BY <1>6 DEF ReconnectRaised
<1>7. CASE WorkerFails
  BY <1>7 DEF WorkerFails
<1>8. CASE SessionUnwound
  BY <1>8 DEF SessionUnwound
<1>9. CASE RunStartsPass
  BY <1>9 DEF RunStartsPass
<1>10. CASE RunSeesAuthentication
  BY <1>10 DEF RunSeesAuthentication, SignalsAvailable
<1>11. CASE RunSeesSessionEnd
  BY <1>11 DEF RunSeesSessionEnd, SignalsAvailable
<1>12. CASE RunRecovers
  BY <1>12 DEF RunRecovers, TeardownRequested, CloseReaches, DrainStage, CancelStage, SocketStage, RunResumes, Reset, Verdict, SignalsOutage
<1>13. CASE RunCancelled
  BY <1>13 DEF RunCancelled
<1>14. CASE Stop
  <2>1. CASE closed
    BY <1>14, <2>1 DEF Stop, OwnerCloses, CloseReaches
  <2>2. CASE ~closed
    <3>1. CloseReaches("owner", DrainStage, TRUE) /\ closePc["run"] = "idle" /\ ~deferred'
      BY <1>14, <2>2 DEF Stop, OwnerCloses
    <3>2. runPc' = runPc /\ pending' = pending /\ (DrainStage = "idle" => ownerPc' = "done")
      BY <1>14, <2>2, <3>1 DEF Stop, OwnerCloses, CloseReaches
    <3>3. closePc' = [closePc EXCEPT !["owner"] = DrainStage] /\ closed' = TRUE
      BY <3>1 DEF CloseReaches
    <3>4. DrainStage = "closingSocket" => connection' \notin open'
      BY <3>1 DEF CloseReaches
    <3>5. runPc # "cancelled"
      BY <1>14 DEF Stop, PhaseInv
    <3>. QED
      BY <3>1, <3>2, <3>3, <3>4, <3>5
  <2>. QED
    BY <2>1, <2>2
<1>15. CASE Unload
  BY <1>15 DEF Unload, CancelRun, Abandons
<1>16. CASE UnloadCloses
  BY <1>16 DEF UnloadCloses, OwnerCloses, CloseReaches, DrainStage, CancelStage, SocketStage, RunResumes, Reset, Verdict, SignalsOutage
<1>17. CASE PeerCloses
  BY <1>17 DEF PeerCloses
<1>18. CASE EntityQueuesCommand
  BY <1>18 DEF EntityQueuesCommand
<1>19. CASE QueueDrains
  BY <1>19 DEF QueueDrains
<1>20. ASSUME NEW c \in Closers, CloseContinues(c) PROVE CloseInv'
  BY <1>20 DEF CloseContinues, CloseReaches, DrainStage, CancelStage, SocketStage, RunResumes, Reset, Verdict, SignalsOutage
<1>21. CASE UNCHANGED vars
  BY <1>21 DEF vars
<1>. QED
  BY <1>1, <1>2, <1>3, <1>4, <1>5, <1>6, <1>7, <1>8, <1>9, <1>10, <1>11, <1>12, <1>13, <1>14, <1>15, <1>16, <1>17, <1>18, <1>19, <1>20, <1>21 DEF Next, SessionStep, RunStep, OwnerStep, Environment

\* A step leaves a clean state to the pass and to the dial it may begin.
LEMMA FreshStep == IInv /\ [Next]_vars => FreshInv'
<1> SUFFICES ASSUME IInv, [Next]_vars PROVE FreshInv'
  OBVIOUS
<1> USE SupervisorAssumption DEF IInv, TypeOK, PhaseInv, CloseInv, FreshInv, FlagTypes, SocketTypes, SocketInv, FreshSessionUndisturbed, Closers, CloseStages, Failures, Dialling, Undisturbed, IsConnected, supVars, sessVars, flagVars
<1>1. CASE StartListening
  BY <1>1 DEF StartListening, GoesLive
<1>2. CASE Bootstrap
  BY <1>2 DEF Bootstrap
<1>3. CASE ConnectWebsocket
  BY <1>3 DEF ConnectWebsocket, GoesLive
<1>4. CASE Authenticate
  BY <1>4 DEF Authenticate
<1>5. CASE RequestReconnect
  BY <1>5 DEF RequestReconnect
<1>6. CASE ReconnectRaised
  BY <1>6 DEF ReconnectRaised
<1>7. CASE WorkerFails
  BY <1>7 DEF WorkerFails
<1>8. CASE SessionUnwound
  BY <1>8 DEF SessionUnwound
<1>9. CASE RunStartsPass
  BY <1>9 DEF RunStartsPass
<1>10. CASE RunSeesAuthentication
  BY <1>10 DEF RunSeesAuthentication, SignalsAvailable
<1>11. CASE RunSeesSessionEnd
  BY <1>11 DEF RunSeesSessionEnd, SignalsAvailable
<1>12. CASE RunRecovers
  BY <1>12 DEF RunRecovers, TeardownRequested, CloseReaches, DrainStage, CancelStage, SocketStage, RunResumes, Reset, Verdict, SignalsOutage
<1>13. CASE RunCancelled
  BY <1>13 DEF RunCancelled
<1>14. CASE Stop
  BY <1>14 DEF Stop, OwnerCloses, CloseReaches, DrainStage, CancelStage, SocketStage, RunResumes, Reset, Verdict, SignalsOutage
<1>15. CASE Unload
  BY <1>15 DEF Unload, CancelRun, Abandons
<1>16. CASE UnloadCloses
  BY <1>16 DEF UnloadCloses, OwnerCloses, CloseReaches, DrainStage, CancelStage, SocketStage, RunResumes, Reset, Verdict, SignalsOutage
<1>17. CASE PeerCloses
  BY <1>17 DEF PeerCloses
<1>18. CASE EntityQueuesCommand
  BY <1>18 DEF EntityQueuesCommand
<1>19. CASE QueueDrains
  BY <1>19 DEF QueueDrains
<1>20. ASSUME NEW c \in Closers, CloseContinues(c) PROVE FreshInv'
  BY <1>20 DEF CloseContinues, CloseReaches, DrainStage, CancelStage, SocketStage, RunResumes, Reset, Verdict, SignalsOutage
<1>21. CASE UNCHANGED vars
  BY <1>21 DEF vars
<1>. QED
  BY <1>1, <1>2, <1>3, <1>4, <1>5, <1>6, <1>7, <1>8, <1>9, <1>10, <1>11, <1>12, <1>13, <1>14, <1>15, <1>16, <1>17, <1>18, <1>19, <1>20, <1>21 DEF Next, SessionStep, RunStep, OwnerStep, Environment

\* A step never loses an open socket under a running supervisor.
LEMMA SocketStep == IInv /\ [Next]_vars => SocketInv'
<1> SUFFICES ASSUME IInv, [Next]_vars PROVE SocketInv'
  OBVIOUS
<1> USE SupervisorAssumption DEF IInv, TypeOK, PhaseInv, CloseInv, FreshInv, FlagTypes, SocketTypes, SocketInv, AtMostOneSocket, Closers, CloseStages, Failures, Dialling, Undisturbed, IsConnected, supVars, sessVars, flagVars
<1>1. CASE StartListening
  BY <1>1 DEF StartListening, GoesLive
<1>2. CASE Bootstrap
  BY <1>2 DEF Bootstrap
<1>3. CASE ConnectWebsocket
  BY <1>3 DEF ConnectWebsocket, GoesLive
<1>4. CASE Authenticate
  BY <1>4 DEF Authenticate
<1>5. CASE RequestReconnect
  BY <1>5 DEF RequestReconnect
<1>6. CASE ReconnectRaised
  BY <1>6 DEF ReconnectRaised
<1>7. CASE WorkerFails
  BY <1>7 DEF WorkerFails
<1>8. CASE SessionUnwound
  BY <1>8 DEF SessionUnwound
<1>9. CASE RunStartsPass
  BY <1>9 DEF RunStartsPass
<1>10. CASE RunSeesAuthentication
  BY <1>10 DEF RunSeesAuthentication, SignalsAvailable
<1>11. CASE RunSeesSessionEnd
  BY <1>11 DEF RunSeesSessionEnd, SignalsAvailable
<1>12. CASE RunRecovers
  BY <1>12 DEF RunRecovers, TeardownRequested, CloseReaches, DrainStage, CancelStage, SocketStage, RunResumes, Reset, Verdict, SignalsOutage
<1>13. CASE RunCancelled
  BY <1>13 DEF RunCancelled
<1>14. CASE Stop
  BY <1>14 DEF Stop, OwnerCloses, CloseReaches, DrainStage, CancelStage, SocketStage, RunResumes, Reset, Verdict, SignalsOutage
<1>15. CASE Unload
  BY <1>15 DEF Unload, CancelRun, Abandons
<1>16. CASE UnloadCloses
  BY <1>16 DEF UnloadCloses, OwnerCloses, CloseReaches, DrainStage, CancelStage, SocketStage, RunResumes, Reset, Verdict, SignalsOutage
<1>17. CASE PeerCloses
  BY <1>17 DEF PeerCloses
<1>18. CASE EntityQueuesCommand
  BY <1>18 DEF EntityQueuesCommand
<1>19. CASE QueueDrains
  BY <1>19 DEF QueueDrains
<1>20. ASSUME NEW c \in Closers, CloseContinues(c) PROVE SocketInv'
  BY <1>20 DEF CloseContinues, CloseReaches, DrainStage, CancelStage, SocketStage, RunResumes, Reset, Verdict, SignalsOutage
<1>21. CASE UNCHANGED vars
  BY <1>21 DEF vars
<1>. QED
  BY <1>1, <1>2, <1>3, <1>4, <1>5, <1>6, <1>7, <1>8, <1>9, <1>10, <1>11, <1>12, <1>13, <1>14, <1>15, <1>16, <1>17, <1>18, <1>19, <1>20, <1>21 DEF Next, SessionStep, RunStep, OwnerStep, Environment

\* A step makes the entities available only after a login.
LEMMA AvailableStep == IInv /\ [Next]_vars => AvailableOnlyWhenAuthenticated'
<1> SUFFICES ASSUME IInv, [Next]_vars PROVE AvailableOnlyWhenAuthenticated'
  OBVIOUS
<1> USE SupervisorAssumption DEF IInv, TypeOK, PhaseInv, CloseInv, FlagTypes, SocketTypes, AvailableOnlyWhenAuthenticated, Closers, CloseStages, Failures, Dialling, Undisturbed, IsConnected, supVars, sessVars, flagVars
<1>1. CASE StartListening
  BY <1>1 DEF StartListening, GoesLive
<1>2. CASE Bootstrap
  BY <1>2 DEF Bootstrap
<1>3. CASE ConnectWebsocket
  BY <1>3 DEF ConnectWebsocket, GoesLive
<1>4. CASE Authenticate
  BY <1>4 DEF Authenticate
<1>5. CASE RequestReconnect
  BY <1>5 DEF RequestReconnect
<1>6. CASE ReconnectRaised
  BY <1>6 DEF ReconnectRaised
<1>7. CASE WorkerFails
  BY <1>7 DEF WorkerFails
<1>8. CASE SessionUnwound
  BY <1>8 DEF SessionUnwound
<1>9. CASE RunStartsPass
  BY <1>9 DEF RunStartsPass
<1>10. CASE RunSeesAuthentication
  BY <1>10 DEF RunSeesAuthentication, SignalsAvailable
<1>11. CASE RunSeesSessionEnd
  BY <1>11 DEF RunSeesSessionEnd, SignalsAvailable
<1>12. CASE RunRecovers
  BY <1>12 DEF RunRecovers, TeardownRequested, CloseReaches, DrainStage, CancelStage, SocketStage, RunResumes, Reset, Verdict, SignalsOutage
<1>13. CASE RunCancelled
  BY <1>13 DEF RunCancelled
<1>14. CASE Stop
  BY <1>14 DEF Stop, OwnerCloses, CloseReaches, DrainStage, CancelStage, SocketStage, RunResumes, Reset, Verdict, SignalsOutage
<1>15. CASE Unload
  BY <1>15 DEF Unload, CancelRun, Abandons
<1>16. CASE UnloadCloses
  BY <1>16 DEF UnloadCloses, OwnerCloses, CloseReaches, DrainStage, CancelStage, SocketStage, RunResumes, Reset, Verdict, SignalsOutage
<1>17. CASE PeerCloses
  BY <1>17 DEF PeerCloses
<1>18. CASE EntityQueuesCommand
  BY <1>18 DEF EntityQueuesCommand
<1>19. CASE QueueDrains
  BY <1>19 DEF QueueDrains
<1>20. ASSUME NEW c \in Closers, CloseContinues(c) PROVE AvailableOnlyWhenAuthenticated'
  BY <1>20 DEF CloseContinues, CloseReaches, DrainStage, CancelStage, SocketStage, RunResumes, Reset, Verdict, SignalsOutage
<1>21. CASE UNCHANGED vars
  BY <1>21 DEF vars
<1>. QED
  BY <1>1, <1>2, <1>3, <1>4, <1>5, <1>6, <1>7, <1>8, <1>9, <1>10, <1>11, <1>12, <1>13, <1>14, <1>15, <1>16, <1>17, <1>18, <1>19, <1>20, <1>21 DEF Next, SessionStep, RunStep, OwnerStep, Environment

\* A step leaves nothing of the last session to the one being dialled.
LEMMA UndisturbedStep == IInv /\ [Next]_vars => FreshSessionUndisturbed'
<1> SUFFICES ASSUME IInv, [Next]_vars PROVE FreshSessionUndisturbed'
  OBVIOUS
<1> USE SupervisorAssumption DEF IInv, TypeOK, PhaseInv, CloseInv, FreshInv, FlagTypes, SocketTypes, FreshSessionUndisturbed, Closers, CloseStages, Failures, Dialling, Undisturbed, IsConnected, supVars, sessVars, flagVars
<1>1. CASE StartListening
  BY <1>1 DEF StartListening, GoesLive
<1>2. CASE Bootstrap
  BY <1>2 DEF Bootstrap
<1>3. CASE ConnectWebsocket
  BY <1>3 DEF ConnectWebsocket, GoesLive
<1>4. CASE Authenticate
  BY <1>4 DEF Authenticate
<1>5. CASE RequestReconnect
  BY <1>5 DEF RequestReconnect
<1>6. CASE ReconnectRaised
  BY <1>6 DEF ReconnectRaised
<1>7. CASE WorkerFails
  BY <1>7 DEF WorkerFails
<1>8. CASE SessionUnwound
  BY <1>8 DEF SessionUnwound
<1>9. CASE RunStartsPass
  BY <1>9 DEF RunStartsPass
<1>10. CASE RunSeesAuthentication
  BY <1>10 DEF RunSeesAuthentication, SignalsAvailable
<1>11. CASE RunSeesSessionEnd
  BY <1>11 DEF RunSeesSessionEnd, SignalsAvailable
<1>12. CASE RunRecovers
  BY <1>12 DEF RunRecovers, TeardownRequested, CloseReaches, DrainStage, CancelStage, SocketStage, RunResumes, Reset, Verdict, SignalsOutage
<1>13. CASE RunCancelled
  BY <1>13 DEF RunCancelled
<1>14. CASE Stop
  BY <1>14 DEF Stop, OwnerCloses, CloseReaches, DrainStage, CancelStage, SocketStage, RunResumes, Reset, Verdict, SignalsOutage
<1>15. CASE Unload
  BY <1>15 DEF Unload, CancelRun, Abandons
<1>16. CASE UnloadCloses
  BY <1>16 DEF UnloadCloses, OwnerCloses, CloseReaches, DrainStage, CancelStage, SocketStage, RunResumes, Reset, Verdict, SignalsOutage
<1>17. CASE PeerCloses
  BY <1>17 DEF PeerCloses
<1>18. CASE EntityQueuesCommand
  BY <1>18 DEF EntityQueuesCommand
<1>19. CASE QueueDrains
  BY <1>19 DEF QueueDrains
<1>20. ASSUME NEW c \in Closers, CloseContinues(c) PROVE FreshSessionUndisturbed'
  BY <1>20 DEF CloseContinues, CloseReaches, DrainStage, CancelStage, SocketStage, RunResumes, Reset, Verdict, SignalsOutage
<1>21. CASE UNCHANGED vars
  BY <1>21 DEF vars
<1>. QED
  BY <1>1, <1>2, <1>3, <1>4, <1>5, <1>6, <1>7, <1>8, <1>9, <1>10, <1>11, <1>12, <1>13, <1>14, <1>15, <1>16, <1>17, <1>18, <1>19, <1>20, <1>21 DEF Next, SessionStep, RunStep, OwnerStep, Environment

\* No step starts a session after a rejection.
LEMMA RejectionStep == IInv /\ [Next]_vars => RejectionKept
<1> SUFFICES ASSUME IInv, [Next]_vars PROVE RejectionKept
  OBVIOUS
<1> USE SupervisorAssumption DEF RejectionKept, IInv, TypeOK, PhaseInv, PhaseTypes, Closers, Failures, Dialling, IsConnected, supVars, sessVars, flagVars
<1>1. CASE StartListening
  BY <1>1 DEF StartListening, GoesLive
<1>2. CASE Bootstrap
  BY <1>2 DEF Bootstrap
<1>3. CASE ConnectWebsocket
  BY <1>3 DEF ConnectWebsocket, GoesLive
<1>4. CASE Authenticate
  BY <1>4 DEF Authenticate
<1>5. CASE RequestReconnect
  BY <1>5 DEF RequestReconnect
<1>6. CASE ReconnectRaised
  BY <1>6 DEF ReconnectRaised
<1>7. CASE WorkerFails
  BY <1>7 DEF WorkerFails
<1>8. CASE SessionUnwound
  BY <1>8 DEF SessionUnwound
<1>9. CASE RunStartsPass
  BY <1>9 DEF RunStartsPass
<1>10. CASE RunSeesAuthentication
  BY <1>10 DEF RunSeesAuthentication, SignalsAvailable
<1>11. CASE RunSeesSessionEnd
  BY <1>11 DEF RunSeesSessionEnd, SignalsAvailable
<1>12. CASE RunRecovers
  BY <1>12 DEF RunRecovers, TeardownRequested, CloseReaches, DrainStage, CancelStage, SocketStage, RunResumes, Reset, Verdict, SignalsOutage
<1>13. CASE RunCancelled
  BY <1>13 DEF RunCancelled
<1>14. CASE Stop
  BY <1>14 DEF Stop, OwnerCloses, CloseReaches, DrainStage, CancelStage, SocketStage, RunResumes, Reset, Verdict, SignalsOutage
<1>15. CASE Unload
  BY <1>15 DEF Unload, CancelRun, Abandons
<1>16. CASE UnloadCloses
  BY <1>16 DEF UnloadCloses, OwnerCloses, CloseReaches, DrainStage, CancelStage, SocketStage, RunResumes, Reset, Verdict, SignalsOutage
<1>17. CASE PeerCloses
  BY <1>17 DEF PeerCloses
<1>18. CASE EntityQueuesCommand
  BY <1>18 DEF EntityQueuesCommand
<1>19. CASE QueueDrains
  BY <1>19 DEF QueueDrains
<1>20. ASSUME NEW c \in Closers, CloseContinues(c) PROVE RejectionKept
  BY <1>20 DEF CloseContinues, CloseReaches, DrainStage, CancelStage, SocketStage, RunResumes, Reset, Verdict, SignalsOutage
<1>21. CASE UNCHANGED vars
  BY <1>21 DEF vars
<1>. QED
  BY <1>1, <1>2, <1>3, <1>4, <1>5, <1>6, <1>7, <1>8, <1>9, <1>10, <1>11, <1>12, <1>13, <1>14, <1>15, <1>16, <1>17, <1>18, <1>19, <1>20, <1>21 DEF Next, SessionStep, RunStep, OwnerStep, Environment

\* Every step is a step or a stutter of the availability contract.
LEMMA ContractStep == IInv /\ [Next]_vars => ContractKept
<1> SUFFICES ASSUME IInv, [Next]_vars PROVE ContractKept
  OBVIOUS
<1> USE SupervisorAssumption DEF ContractKept, Contract!Next, Contract!Dial, Contract!ComesOnline, Contract!GoesOffline, Contract!Ends, Status, IInv, TypeOK, PhaseInv, CloseInv, PhaseTypes, FlagTypes, SocketTypes, AvailableOnlyWhenAuthenticated, Closers, Failures, Dialling, IsConnected, supVars, sessVars, flagVars
<1>1. CASE StartListening
  BY <1>1 DEF StartListening, GoesLive
<1>2. CASE Bootstrap
  BY <1>2 DEF Bootstrap
<1>3. CASE ConnectWebsocket
  BY <1>3 DEF ConnectWebsocket, GoesLive
<1>4. CASE Authenticate
  BY <1>4 DEF Authenticate
<1>5. CASE RequestReconnect
  BY <1>5 DEF RequestReconnect
<1>6. CASE ReconnectRaised
  BY <1>6 DEF ReconnectRaised
<1>7. CASE WorkerFails
  BY <1>7 DEF WorkerFails
<1>8. CASE SessionUnwound
  BY <1>8 DEF SessionUnwound
<1>9. CASE RunStartsPass
  BY <1>9 DEF RunStartsPass
<1>10. CASE RunSeesAuthentication
  BY <1>10 DEF RunSeesAuthentication, SignalsAvailable
<1>11. CASE RunSeesSessionEnd
  BY <1>11 DEF RunSeesSessionEnd, SignalsAvailable
<1>12. CASE RunRecovers
  BY <1>12 DEF RunRecovers, TeardownRequested, CloseReaches, DrainStage, CancelStage, SocketStage, RunResumes, Reset, Verdict, SignalsOutage
<1>13. CASE RunCancelled
  BY <1>13 DEF RunCancelled
<1>14. CASE Stop
  BY <1>14 DEF Stop, OwnerCloses, CloseReaches, DrainStage, CancelStage, SocketStage, RunResumes, Reset, Verdict, SignalsOutage
<1>15. CASE Unload
  BY <1>15 DEF Unload, CancelRun, Abandons
<1>16. CASE UnloadCloses
  BY <1>16 DEF UnloadCloses, OwnerCloses, CloseReaches, DrainStage, CancelStage, SocketStage, RunResumes, Reset, Verdict, SignalsOutage
<1>17. CASE PeerCloses
  BY <1>17 DEF PeerCloses
<1>18. CASE EntityQueuesCommand
  BY <1>18 DEF EntityQueuesCommand
<1>19. CASE QueueDrains
  BY <1>19 DEF QueueDrains
<1>20. ASSUME NEW c \in Closers, CloseContinues(c) PROVE ContractKept
  BY <1>20 DEF CloseContinues, CloseReaches, DrainStage, CancelStage, SocketStage, RunResumes, Reset, Verdict, SignalsOutage
<1>21. CASE UNCHANGED vars
  BY <1>21 DEF vars
<1>. QED
  BY <1>1, <1>2, <1>3, <1>4, <1>5, <1>6, <1>7, <1>8, <1>9, <1>10, <1>11, <1>12, <1>13, <1>14, <1>15, <1>16, <1>17, <1>18, <1>19, <1>20, <1>21 DEF Next, SessionStep, RunStep, OwnerStep, Environment

-----------------------------------------------------------------------------
(* The theorems.                                                           *)

\* The inductive invariant holds in every state of the supervisor.
THEOREM Invariance == Spec => []IInv
<1>1. Init => IInv
  BY InitInvariant
<1>2. IInv /\ [Next]_vars => IInv'
  <2> SUFFICES ASSUME IInv, [Next]_vars PROVE IInv'
    OBVIOUS
  <2>1. TypeOK'
    BY PhaseTypesStep, FlagTypesStep, SocketTypesStep DEF IInv, TypeOK
  <2>2. PhaseInv' /\ CloseInv' /\ FreshInv' /\ SocketInv'
    BY PhaseStep, CloseStep, FreshStep, SocketStep
  <2>3. AvailableOnlyWhenAuthenticated' /\ FreshSessionUndisturbed'
    BY AvailableStep, UndisturbedStep
  <2>. QED
    BY <2>1, <2>2, <2>3 DEF IInv
<1>. QED
  BY <1>1, <1>2, PTL DEF Spec

\* Every variable keeps its type: the supervisor has no state or outcome that
\* its handlers do not classify.
THEOREM TypeCorrect == Spec => []TypeOK
<1>1. IInv => TypeOK
  BY DEF IInv
<1>. QED
  BY <1>1, Invariance, PTL

\* Whatever fails and whichever owner tears down, run(), start_listening() and
\* close() never hold two websockets at once.
THEOREM SingleSocket == Spec => []AtMostOneSocket
<1>1. IInv => AtMostOneSocket
  BY DEF IInv, SocketInv
<1>. QED
  BY <1>1, Invariance, PTL

\* As long as no owner acts, _close_and_reset() leaves no socket, no reference
\* and no latch to the backoff, to the next dial or to the end of run().
THEOREM CleanBetweenSessions == Spec => []NoSocketBetweenSessions
<1>1. IInv => NoSocketBetweenSessions
  BY SupervisorAssumption DEF IInv, TypeOK, PhaseInv, CloseInv, FreshInv, SocketInv, SocketTypes,
     FreshSessionUndisturbed, NoSocketBetweenSessions, Undisturbed, Dialling, Closers
<1>. QED
  BY <1>1, Invariance, PTL

\* on_state(True) only ever stands for a session the Miniserver accepted.
THEOREM AvailabilityIsHonest == Spec => []AvailableOnlyWhenAuthenticated
<1>1. IInv => AvailableOnlyWhenAuthenticated
  BY DEF IInv
<1>. QED
  BY <1>1, Invariance, PTL

\* No event of the last session is still set when the next one is dialled.
THEOREM FreshSession == Spec => []FreshSessionUndisturbed
<1>1. IInv => FreshSessionUndisturbed
  BY DEF IInv
<1>. QED
  BY <1>1, Invariance, PTL

\* Rejected credentials end the supervision: no path retries them.
THEOREM RejectionFinal == Spec => RejectionIsFinal
<1>1. IInv /\ [Next]_vars => [RejectionKept]_vars
  BY RejectionStep
<1>. QED
  BY <1>1, Invariance, PTL DEF Spec, RejectionIsFinal, RejectionKept

\* The supervisor implements the safety part of the availability contract.
THEOREM SafetyRefinement == Spec => Contract!Init /\ [][Contract!Next]_Status
<1>1. Init => Contract!Init
  BY DEF Init, Contract!Init, Status
<1>2. IInv /\ [Next]_vars => [Contract!Next]_Status
  BY ContractStep DEF ContractKept
<1>. QED
  BY <1>1, <1>2, Invariance, PTL DEF Spec

=============================================================================
