-------------------------- MODULE SessionSupervisor --------------------------
(***************************************************************************)
(* The session supervisor of one LoxoneConnection (pyloxone_api/           *)
(* connection.py): run(), the session task start_listening(), close() and  *)
(* _close_and_reset(), with the two owners that end it: the Home Assistant *)
(* stop handler and the unload of the config entry.  Every action is the   *)
(* code one asyncio task executes between two suspension points.           *)
(*                                                                         *)
(* The protocol inside a live session is abstracted to its outcomes:       *)
(*   "retryable"     RETRYABLE_SESSION_ERRORS (lost socket, out of         *)
(*                   service, stale token, ...) or a plain return          *)
(*   "unauthorised"  credentials rejected, or a fatal close code           *)
(*   "bug"           any other exception                                   *)
(*   "cancelled"     the task was cancelled by its owner                   *)
(* The lost/restored log lines are left out.                               *)
(***************************************************************************)
EXTENDS FiniteSets

CONSTANTS Sockets,      \* identities of websocket connections, reused
          NoSocket,     \* self.connection is None
          Teardowns     \* which owners may act: a subset of {"stop", "unload"}

ASSUME SupervisorAssumption ==
  /\ NoSocket \notin Sockets
  /\ Teardowns \subseteq {"stop", "unload"}

VARIABLES
  runPc,        \* where the run() task is suspended
  runResult,    \* how run() left: "none" while it is running
  teardown,     \* run()'s local teardown_requested
  available,    \* run()'s local available
  sessPc,       \* where the start_listening() task is suspended
  sessError,    \* the outcome the session task ends with
  pending,      \* _pending_task is a non-empty list
  authSeen,     \* _authenticated_event was set in this pass
  connection,   \* self.connection
  open,         \* the sockets open at both ends
  closed,       \* _closed
  shutdown,     \* _shutdown_event
  deferred,     \* _websocket_deferred
  reconnect,    \* _reconnect_event
  backlog,      \* _message_queue holds commands
  closePc,      \* where each caller of close() is suspended
  ownerPc,      \* the owner's teardown
  connected     \* coordinator.connected

supVars   == <<runPc, runResult, teardown, available>>
sessVars  == <<sessPc, sessError, pending, authSeen>>
flagVars  == <<closed, shutdown, deferred, reconnect>>
vars == <<runPc, runResult, teardown, available, sessPc, sessError, pending,
          authSeen, connection, open, closed, shutdown, deferred, reconnect,
          backlog, closePc, ownerPc, connected>>

Closers     == {"run", "owner"}
Failures    == {"retryable", "unauthorised", "bug"}
CloseStages == {"idle", "draining", "cancelling", "closingSocket"}

\* is_connected
IsConnected == connection \in open

Dialling == sessPc \in {"starting", "opening", "connecting"}

(***************************************************************************)
(* The coordinator bootstraps with open(connect_websocket=False); the      *)
(* command line opens the websocket before it calls run().                 *)
(***************************************************************************)
Init ==
  /\ runPc = "init" /\ runResult = "none" /\ teardown = FALSE /\ available = FALSE
  /\ sessPc = "none" /\ sessError = "none" /\ pending = FALSE /\ authSeen = FALSE
  /\ \/ deferred = TRUE /\ connection = NoSocket /\ open = {}
     \/ deferred = FALSE /\ connection \in Sockets /\ open = {connection}
  /\ closed = FALSE /\ shutdown = FALSE /\ reconnect = FALSE /\ backlog = FALSE
  /\ closePc = [c \in Closers |-> "idle"]
  /\ ownerPc = "running"
  /\ connected = FALSE

-----------------------------------------------------------------------------
(* The session task: start_listening().                                    *)

\* The websocket of the session is up: clear the shutdown event, drop what was
\* queued without a session, send the key exchange and start the workers.  The
\* key exchange is where a socket the Miniserver closed at once shows up.
GoesLive(s, reachable) ==
  /\ connection' = s
  /\ shutdown' = FALSE
  /\ backlog' = FALSE
  /\ \/ /\ reachable
        /\ open' = open \cup {s}
        /\ sessPc' = "live" /\ pending' = TRUE /\ UNCHANGED sessError
     \/ /\ open' = open \ {s}
        /\ sessPc' = "ended" /\ sessError' \in {"retryable", "unauthorised"}
        /\ UNCHANGED pending

\* The first step of start_listening(): reuse the socket open() made, connect
\* the deferred one, or bootstrap again (open() refuses a closed connection).
StartListening ==
  /\ sessPc = "starting"
  /\ \/ /\ connection = NoSocket /\ deferred
        /\ sessPc' = "connecting" /\ deferred' = FALSE
        /\ UNCHANGED <<sessError, pending, connection, open, shutdown, backlog>>
     \/ /\ connection = NoSocket /\ ~deferred /\ closed
        /\ sessPc' = "ended" /\ sessError' = "bug"
        /\ UNCHANGED <<pending, connection, open, shutdown, deferred, backlog>>
     \/ /\ connection = NoSocket /\ ~deferred /\ ~closed
        /\ sessPc' = "opening"
        /\ UNCHANGED <<sessError, pending, connection, open, shutdown, deferred, backlog>>
     \/ /\ connection # NoSocket
        /\ GoesLive(connection, IsConnected)
        /\ UNCHANGED deferred
  /\ UNCHANGED <<supVars, authSeen, closed, reconnect, closePc, ownerPc, connected>>

\* Mutation: a timeout that no handler of the supervisor classifies.
BootstrapUnclassified ==
  /\ sessPc = "opening"
  /\ sessPc' = "ended" /\ sessError' = "timeout"
  /\ UNCHANGED <<supVars, pending, authSeen, connection, open, flagVars, backlog,
                 closePc, ownerPc, connected>>

\* open(): API key, structure file, public key.  An HTTP 401 is
\* LoxoneUnauthorisedError, an HTTP 500 or a malformed reply is not retryable.
Bootstrap ==
  /\ sessPc = "opening"
  /\ \/ sessPc' = "connecting" /\ deferred' = FALSE /\ UNCHANGED sessError
     \/ /\ sessPc' = "ended" /\ sessError' \in Failures
        /\ UNCHANGED deferred
  /\ UNCHANGED <<supVars, pending, authSeen, connection, open, closed, shutdown,
                 reconnect, backlog, closePc, ownerPc, connected>>

\* _connect_websocket() followed, without a suspension, by the key exchange.
ConnectWebsocket ==
  /\ sessPc = "connecting"
  /\ \/ \E s \in Sockets \ (open \cup {connection}) : GoesLive(s, TRUE)
     \/ /\ sessPc' = "ended" /\ sessError' \in {"retryable", "bug"}
        /\ UNCHANGED <<pending, connection, open, shutdown, backlog>>
  /\ UNCHANGED <<supVars, authSeen, closed, deferred, reconnect, closePc,
                 ownerPc, connected>>

\* A token handler of _websocket_event() accepted the Miniserver's answer.
Authenticate ==
  /\ sessPc = "live" /\ IsConnected
  /\ authSeen' = TRUE
  /\ UNCHANGED <<supVars, sessPc, sessError, pending, connection, open, flagVars,
                 backlog, closePc, ownerPc, connected>>

\* A 401 on authwithtoken or on a refresh: reset the token, ask to reconnect.
RequestReconnect ==
  /\ sessPc = "live" /\ IsConnected
  /\ reconnect' = TRUE
  /\ UNCHANGED <<supVars, sessVars, connection, open, closed, shutdown, deferred,
                 backlog, closePc, ownerPc, connected>>

\* reconnect_task(): returns when the shutdown event is set, else raises.
ReconnectRaised ==
  /\ sessPc = "live" /\ reconnect /\ ~shutdown
  /\ reconnect' = FALSE
  /\ sessPc' = "unwinding" /\ sessError' = "retryable"
  /\ UNCHANGED <<supVars, pending, authSeen, connection, open, closed, shutdown,
                 deferred, backlog, closePc, ownerPc, connected>>

\* Another worker ends with an exception: the wait of start_listening() re-raises
\* it and cancels the rest.
WorkerFails ==
  /\ sessPc = "live"
  /\ sessError' \in IF IsConnected THEN Failures ELSE {"retryable", "unauthorised"}
  /\ sessPc' = "unwinding"
  /\ UNCHANGED <<supVars, pending, authSeen, connection, open, flagVars, backlog,
                 closePc, ownerPc, connected>>

\* The gather over the workers is over.  _process_message() may have sent what
\* was queued.  A close() waiting for the same workers is resumed first.
SessionUnwound ==
  /\ sessPc = "unwinding"
  /\ \A c \in Closers : closePc[c] # "cancelling"
  /\ sessPc' = "ended"
  /\ backlog' \in {backlog, FALSE}
  /\ UNCHANGED <<supVars, sessError, pending, authSeen, connection, open, flagVars,
                 closePc, ownerPc, connected>>

-----------------------------------------------------------------------------
(* close(), shared by the supervisor and the owner.                        *)

\* Mutation: the recovery close forgets the websocket.
SocketStageForgotten == "idle"

\* The next point at which close() suspends; "idle" when it returns.
SocketStage == IF IsConnected THEN "closingSocket" ELSE "idle"
CancelStage == IF pending THEN "cancelling" ELSE SocketStage
DrainStage  == IF backlog /\ IsConnected THEN "draining" ELSE CancelStage

\* Mutation: the reset keeps a reconnect request.
ResetKeepingRequest == connection' = NoSocket /\ UNCHANGED reconnect

\* _close_and_reset() once its close() is over (it also clears _closed).
Reset == connection' = NoSocket /\ reconnect' = FALSE

\* Mutation: a rejection is tested as one of the LoxoneExceptions, all retried.
VerdictTestedLate(stop) ==
  IF stop THEN "returned" ELSE IF sessError = "bug" THEN "bug" ELSE "none"

\* How run() leaves after the recovery close; "none" when it tries again.
Verdict(stop) ==
  IF sessError = "unauthorised" THEN "unauthorised"
  ELSE IF stop THEN "returned"
  ELSE IF sessError = "bug" THEN "bug"
  ELSE "none"

\* Mutation: on_state(False) is not called before the backoff.
OutageUnsignalled(result) == UNCHANGED connected

\* on_state(False) for a session that came up; run_loxone_session() signals it
\* too when run() raises.
SignalsOutage(result) ==
  connected' = (connected /\ ~available /\ result \in {"none", "returned"})

\* The rest of the pass after the recovery close: return, raise or back off.
RunResumes ==
  /\ Reset
  /\ runResult' = Verdict(teardown')
  /\ runPc' = IF runResult' = "none" THEN "backoff" ELSE "done"
  /\ SignalsOutage(runResult')

\* close() by c reaches stage; latched is _closed unless the reset clears it.
CloseReaches(c, stage, latched) ==
  /\ closePc' = [closePc EXCEPT ![c] = stage]
  /\ closed' = (latched /\ ~(c = "run" /\ stage = "idle"))
  /\ open' = IF stage = "closingSocket" THEN open \ {connection} ELSE open
  /\ IF stage = "cancelling" /\ sessPc = "live"
       THEN sessPc' = "unwinding" /\ sessError' = "retryable"
       ELSE UNCHANGED <<sessPc, sessError>>
  /\ \/ /\ stage # "idle"
        /\ UNCHANGED <<connection, reconnect, connected, runPc, runResult, ownerPc>>
     \/ /\ stage = "idle" /\ c = "run"
        /\ RunResumes /\ UNCHANGED ownerPc
     \/ /\ stage = "idle" /\ c = "owner"
        /\ connection' = NoSocket /\ ownerPc' = "done"
        /\ UNCHANGED <<reconnect, connected, runPc, runResult>>

\* close() resumes: the queue drained or timed out, the workers are done, the
\* closing handshake is over.
CloseContinues(c) ==
  /\ UNCHANGED teardown
  /\ \/ closePc[c] = "draining" /\ CloseReaches(c, CancelStage, closed) /\ UNCHANGED pending
     \/ closePc[c] = "cancelling" /\ CloseReaches(c, SocketStage, closed) /\ pending' = FALSE
     \/ closePc[c] = "closingSocket" /\ CloseReaches(c, "idle", closed) /\ UNCHANGED pending
  /\ UNCHANGED <<available, authSeen, shutdown, deferred, backlog>>

-----------------------------------------------------------------------------
(* The supervisor: run().                                                  *)

\* The head of the loop, entered at the start and after each backoff sleep.
RunStartsPass ==
  /\ runPc \in {"init", "backoff"}
  /\ \/ /\ closed
        /\ runPc' = "done" /\ runResult' = "returned"
        /\ UNCHANGED <<available, sessPc, sessError, authSeen, shutdown>>
     \/ /\ ~closed
        /\ runPc' = "waiting" /\ available' = FALSE
        /\ sessPc' = "starting" /\ sessError' = "none"
        /\ authSeen' = FALSE /\ shutdown' = FALSE
        /\ UNCHANGED runResult
  /\ UNCHANGED <<teardown, pending, connection, open, closed, deferred, reconnect,
                 backlog, closePc, ownerPc, connected>>

\* _note_connection_restored and on_state(True), once per session.
SignalsAvailable ==
  IF authSeen /\ ~available
    THEN available' = TRUE /\ connected' = TRUE
    ELSE UNCHANGED <<available, connected>>

RunSeesAuthentication ==
  /\ runPc = "waiting" /\ authSeen /\ ~available /\ sessPc # "ended"
  /\ SignalsAvailable
  /\ UNCHANGED <<runPc, runResult, teardown, sessVars, connection, open, flagVars,
                 backlog, closePc, ownerPc>>

\* The session task is done; an authentication seen at the same wake-up is
\* signalled first.  run() then awaits the gather of its two tasks.
RunSeesSessionEnd ==
  /\ runPc = "waiting" /\ sessPc = "ended"
  /\ SignalsAvailable
  /\ runPc' = "settling"
  /\ UNCHANGED <<runResult, teardown, sessVars, connection, open, flagVars,
                 backlog, closePc, ownerPc>>

\* Mutation: teardown_requested is read after the recovery close has set it.
TeardownReadLate == TRUE

\* teardown_requested, latched before the recovery close sets the same flags.
TeardownRequested == closed \/ shutdown

\* Call _close_and_reset(): a close() that finds
\* _closed set returns at once and only the reset happens.
RunRecovers ==
  /\ runPc = "settling" /\ closePc["run"] = "idle"
  /\ teardown' = TeardownRequested
  /\ CloseReaches("run", IF closed THEN "idle" ELSE DrainStage, TRUE)
  /\ shutdown' = (shutdown \/ ~closed)
  /\ deferred' = (deferred /\ closed)
  /\ UNCHANGED <<available, pending, authSeen, backlog>>

\* A cancelled run() has waited for its session task and re-raises.
RunCancelled ==
  /\ runPc = "cancelled" /\ sessPc = "ended"
  /\ runPc' = "done" /\ runResult' = "cancelled"
  /\ UNCHANGED <<teardown, available, sessVars, connection, open, flagVars,
                 backlog, closePc, ownerPc, connected>>

-----------------------------------------------------------------------------
(* The owners: _persist_token_and_close() and async_unload_entry().        *)

\* api.close() by the owner; a second close of a closed connection returns.
OwnerCloses ==
  /\ \/ /\ closed
        /\ ownerPc' = "done"
        /\ UNCHANGED <<runPc, runResult, sessPc, sessError, connection, open, closed,
                       reconnect, closePc, connected>>
     \/ ~closed /\ CloseReaches("owner", DrainStage, TRUE)
  /\ shutdown' = (shutdown \/ ~closed)
  /\ deferred' = (deferred /\ closed)
  /\ UNCHANGED <<teardown, available, pending, authSeen, backlog>>

\* Home Assistant stops: close the connection, leave the session task alone.
Stop ==
  /\ "stop" \in Teardowns /\ ownerPc = "running" /\ closePc["owner"] = "idle"
  /\ OwnerCloses

\* Mutation: _close_and_reset() swallows the cancellation and run() goes on.
AbandonsSwallowed == UNCHANGED <<runPc, runResult, connection, closePc>>

\* A cancelled run() outside the wait for its session leaves at once; inside
\* _close_and_reset() it abandons the close() where it stands.
Abandons ==
  /\ runPc' = "done"
  /\ runResult' = IF runPc = "done" THEN runResult ELSE "cancelled"
  /\ connection' = IF closePc["run"] = "closingSocket" THEN NoSocket ELSE connection
  /\ closePc' = [closePc EXCEPT !["run"] = "idle"]

\* Cancelling the task that runs run(): while it waits for its session it
\* cancels that too and waits for it.
CancelRun ==
  \/ /\ runPc = "waiting"
     /\ runPc' = "cancelled"
     /\ sessError' = "cancelled"
     /\ sessPc' = IF Dialling THEN "ended" ELSE IF sessPc = "live" THEN "unwinding" ELSE sessPc
     /\ UNCHANGED <<runResult, connection, closePc>>
  \/ /\ runPc # "waiting"
     /\ Abandons
     /\ UNCHANGED <<sessPc, sessError>>

\* async_unload_entry(): cancel the session task and await it ...
Unload ==
  /\ "unload" \in Teardowns /\ ownerPc = "running" /\ closePc["owner"] = "idle"
  /\ ownerPc' = "unloading"
  /\ CancelRun
  /\ UNCHANGED <<teardown, available, pending, authSeen, open, flagVars, backlog,
                 connected>>

\* ... then coordinator.async_cleanup() closes the connection.
UnloadCloses ==
  /\ ownerPc = "unloading" /\ runPc = "done" /\ closePc["owner"] = "idle"
  /\ OwnerCloses

-----------------------------------------------------------------------------
(* The Miniserver, the network and the entities.                           *)

PeerCloses ==
  /\ IsConnected
  /\ open' = open \ {connection}
  /\ UNCHANGED <<supVars, sessVars, connection, flagVars, backlog, closePc,
                 ownerPc, connected>>

EntityQueuesCommand ==
  /\ backlog' = TRUE
  /\ UNCHANGED <<supVars, sessVars, connection, open, flagVars, closePc, ownerPc,
                 connected>>

QueueDrains ==
  /\ sessPc = "live" /\ backlog /\ IsConnected
  /\ backlog' = FALSE
  /\ UNCHANGED <<supVars, sessVars, connection, open, flagVars, closePc, ownerPc,
                 connected>>

-----------------------------------------------------------------------------
SessionStep ==
  \/ StartListening \/ Bootstrap \/ ConnectWebsocket \/ Authenticate
  \/ RequestReconnect \/ ReconnectRaised \/ WorkerFails \/ SessionUnwound

RunStep ==
  \/ RunStartsPass \/ RunSeesAuthentication \/ RunSeesSessionEnd \/ RunRecovers
  \/ RunCancelled

OwnerStep == Stop \/ Unload \/ UnloadCloses

Environment == PeerCloses \/ EntityQueuesCommand \/ QueueDrains

\* The system may really come to rest: a rejected or removed entry.
Next ==
  SessionStep \/ RunStep \/ OwnerStep \/ Environment
    \/ \E c \in Closers : CloseContinues(c)

(***************************************************************************)
(* The event loop resumes every task whose wait is over: the supervisor,   *)
(* a pending close(), the dialling (bounded by its timeouts and retries)   *)
(* and the unwinding of a session.  Nothing makes the Miniserver answer a  *)
(* login, a session fail or an owner act.                                  *)
(***************************************************************************)
Fairness ==
  /\ WF_vars(RunStep)
  /\ WF_vars(StartListening \/ Bootstrap \/ ConnectWebsocket)
  /\ WF_vars(SessionUnwound)
  /\ WF_vars(ReconnectRaised)
  /\ WF_vars(~IsConnected /\ WorkerFails)
  /\ \A c \in Closers : WF_vars(CloseContinues(c))
  /\ WF_vars(UnloadCloses)

Spec == Init /\ [][Next]_vars /\ Fairness

-----------------------------------------------------------------------------
(* Properties.                                                             *)

PhaseTypes ==
  /\ runPc \in {"init", "waiting", "settling", "cancelled", "backoff", "done"}
  /\ runResult \in {"none", "returned", "cancelled", "unauthorised", "bug"}
  /\ sessPc \in {"none", "starting", "opening", "connecting", "live", "unwinding", "ended"}
  /\ sessError \in Failures \cup {"none", "cancelled"}
  /\ ownerPc \in {"running", "unloading", "done"}

FlagTypes ==
  /\ teardown \in BOOLEAN /\ available \in BOOLEAN /\ pending \in BOOLEAN
  /\ authSeen \in BOOLEAN /\ backlog \in BOOLEAN /\ connected \in BOOLEAN
  /\ closed \in BOOLEAN /\ shutdown \in BOOLEAN
  /\ deferred \in BOOLEAN /\ reconnect \in BOOLEAN

SocketTypes ==
  /\ connection \in Sockets \cup {NoSocket}
  /\ open \subseteq Sockets
  /\ closePc \in [Closers -> CloseStages]

TypeOK == PhaseTypes /\ FlagTypes /\ SocketTypes

\* No owner has begun a teardown.
Undisturbed == ownerPc = "running" /\ closePc["owner"] = "idle"

\* The Miniserver caps its websocket sessions (error 901): whatever fails and
\* whoever tears down, the connection never holds two sockets (API-01).
AtMostOneSocket == \A s, t \in open : s = t

\* No socket outlives its session: while the supervisor sleeps before a retry,
\* dials again or has given up by itself, every earlier socket is closed, and
\* the references the next dial looks at are clean (API-09).
NoSocketBetweenSessions ==
  Undisturbed /\ (runPc \in {"backoff", "done"} \/ sessPc \in {"opening", "connecting"}) =>
    open = {} /\ connection = NoSocket /\ ~pending /\ ~closed

\* The entities are available only in a pass whose login the Miniserver has
\* accepted: never during the backoff, a dial, or after a rejected login.
AvailableOnlyWhenAuthenticated ==
  connected /\ runResult # "cancelled" =>
    authSeen /\ available /\ runPc \in {"waiting", "settling", "cancelled"}

\* A reconnect request or a shutdown left over from the last session never
\* reaches the workers of the next one, which it would end at once.
FreshSessionUndisturbed ==
  Dialling => ~reconnect /\ ~pending /\ (shutdown => closed)

\* Rejected credentials are final: after LoxoneUnauthorisedError no further
\* session is started, by any path (CORE-05, API-13).
RejectionIsFinal ==
  [][sessError = "unauthorised" /\ sessPc = "ended" =>
       sessError' \in {"unauthorised", "cancelled"} /\ sessPc' = "ended"]_vars

\* A session that ends in a way the supervisor must survive is followed by a
\* new dial, unless an owner tears the connection down; any other end takes the
\* supervisor out of its loop, so that reauthentication or the reload can start.
EveryEndIsHandled ==
  /\ sessPc = "ended" /\ sessError = "retryable" ~>
       sessPc \in {"opening", "connecting"} \/ ~Undisturbed
  /\ sessPc = "ended" /\ sessError \in {"unauthorised", "bug"} ~> runPc = "done"

\* An unload always completes: the cancelled supervisor ends wherever the
\* cancellation found it, the close after it returns, and nothing is left.
UnloadCompletes ==
  ownerPc = "unloading" ~>
    /\ ownerPc = "done" /\ runPc = "done" /\ sessPc \in {"none", "ended"}
    /\ \A c \in Closers : closePc[c] = "idle"

\* What async_unload_entry() says of itself: the integration is unloaded
\* completely and all its connections are closed.
UnloadClosesAllConnections == ownerPc = "done" => open = {}

\* What run() says of close(): it ends the loop without retrying, so that no
\* session starts once the owner's close() has returned.
CloseEndsTheLoop ==
  [][ownerPc = "done" /\ sessPc # "starting" => sessPc' # "starting"]_vars

-----------------------------------------------------------------------------
(* The contract of the supervisor, and the state of it a reader of the     *)
(* coordinator sees.                                                       *)

Status ==
  IF runPc = "done" THEN "ended"
  ELSE IF runPc = "waiting" /\ ~available THEN "dialling"
  ELSE IF connected THEN "online"
  ELSE "offline"

Contract == INSTANCE AvailabilityContract WITH status <- Status

\* The supervisor implements the availability contract.
ImplementsContract == Contract!Spec

=============================================================================
