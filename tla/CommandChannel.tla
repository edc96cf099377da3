--------------------------- MODULE CommandChannel ---------------------------
(***************************************************************************)
(* The outbound commands of one LoxoneConnection (pyloxone_api/            *)
(* connection.py), across the sessions run() supervises: the bounded       *)
(* _message_queue with its single writer _process_message(), and the       *)
(* secured commands, which wait in _secured_queue until a getvisusalt      *)
(* reply releases them.                                                    *)
(*                                                                         *)
(* A command is a number, in the order of the calls of its kind.  A        *)
(* getvisusalt request is anonymous on the wire; the number it carries     *)
(* here only records which call queued it.                                 *)
(***************************************************************************)
EXTENDS Naturals, Sequences, Functions

CONSTANTS Plain,     \* number of calls of send_websocket_command()
          Secured,   \* number of calls of send_secured_websocket_command()
          Capacity,  \* maxsize of _message_queue
          None       \* no command

ASSUME ChannelAssumption ==
  /\ Plain \in Nat /\ Secured \in Nat /\ Capacity \in Nat \ {0}
  /\ None \notin 1..Secured

VARIABLES
  session,    \* the supervised session
  socket,     \* the websocket is open at both ends
  shutdown,   \* _shutdown_event
  closing,    \* the owner has called close()
  mq,         \* _message_queue
  unfinished, \* its unfinished tasks, which join() waits for
  worker,     \* where _process_message() is suspended
  busy,       \* the message it took
  secq,       \* _secured_queue
  expired,    \* the commands of secq older than SECURED_COMMAND_TIMEOUT
  inflight,   \* getvisusalt requests the Miniserver will answer, in order
  held,       \* the command the listener waits to put into the full mq
  issued,     \* how many calls of each kind were made
  wire,       \* the commands of each kind that reached the Miniserver
  dropped,    \* the commands a new session found in mq
  cleared,    \* the secured commands a close() found waiting
  released,   \* <<request, command>> of the last getvisusalt reply
  hashed      \* the secured commands a reply of this session released

sessionVars == <<session, socket, shutdown, closing>>
queueVars   == <<mq, unfinished>>
workerVars  == <<worker, busy>>
saltVars    == <<secq, expired, inflight, held>>
historyVars == <<issued, wire, dropped, cleared, released, hashed>>
vars == <<sessionVars, queueVars, workerVars, saltVars, historyVars>>

Kinds    == {"plain", "secured"}
Messages == [kind : {"plain", "salt", "secured"}, n : Nat]
Message(k, i) == [kind |-> k, n |-> i]
NoMessage == Message("none", 0)

\* The workers run; or they were cancelled, by start_listening() because one
\* of them failed, or by close().
Listening == session \in {"handshake", "live"}
Cancelled == session \in {"failing", "stopping"}

Init ==
  /\ session = "down" /\ socket = FALSE /\ shutdown = FALSE /\ closing = FALSE
  /\ mq = <<>> /\ unfinished = 0
  /\ worker = "stopped" /\ busy = NoMessage
  /\ secq = <<>> /\ expired = {} /\ inflight = <<>> /\ held = None
  /\ issued = [k \in Kinds |-> 0] /\ wire = [k \in Kinds |-> <<>>]
  /\ dropped = {} /\ cleared = {} /\ released = <<0, 0>> /\ hashed = {}

-----------------------------------------------------------------------------
(* The entities.  A call is accepted at any time, with or without a session. *)

\* Mutation: the queue has no maxsize.
PutUnbounded(m) == mq' = Append(mq, m) /\ unfinished' = unfinished + 1

\* Mutation: a full queue makes room by losing its oldest message.
PutEvicting(m) ==
  IF Len(mq) < Capacity
    THEN mq' = Append(mq, m) /\ unfinished' = unfinished + 1
    ELSE mq' = Append(Tail(mq), m) /\ UNCHANGED unfinished

\* put_nowait() of a message; a full queue raises and changes nothing.
PutNowait(m) ==
  IF Len(mq) < Capacity
    THEN mq' = Append(mq, m) /\ unfinished' = unfinished + 1
    ELSE UNCHANGED queueVars

SendPlain ==
  /\ issued["plain"] < Plain
  /\ issued' = [issued EXCEPT !["plain"] = @ + 1]
  /\ PutNowait(Message("plain", issued'["plain"]))
  /\ UNCHANGED <<sessionVars, workerVars, saltVars, wire, dropped, cleared, released, hashed>>

\* The parameters are stored first; when the salt request then finds the queue
\* full the call raises, and the parameters stay.
SendSecured ==
  /\ issued["secured"] < Secured
  /\ issued' = [issued EXCEPT !["secured"] = @ + 1]
  /\ secq' = Append(secq, issued'["secured"])
  /\ PutNowait(Message("salt", issued'["secured"]))
  /\ UNCHANGED <<sessionVars, workerVars, expired, inflight, held, wire, dropped,
                 cleared, released, hashed>>

\* Time passes: the oldest fresh secured command reaches its timeout.
Expire ==
  /\ \E i \in DOMAIN secq :
       /\ secq[i] \notin expired
       /\ \A j \in 1..(i - 1) : secq[j] \in expired
       /\ expired' = expired \cup {secq[i]}
  /\ UNCHANGED <<sessionVars, queueVars, workerVars, secq, inflight, held, historyVars>>

-----------------------------------------------------------------------------
(* The writer: _process_message().                                         *)

\* It takes the next message; once cancelled it does so only while connected.
TakeNext ==
  /\ worker = "idle" /\ mq # <<>>
  /\ Listening \/ (Cancelled /\ socket)
  /\ busy' = Head(mq) /\ mq' = Tail(mq)
  /\ worker' = "sending"
  /\ UNCHANGED <<sessionVars, unfinished, saltVars, historyVars>>

\* Mutation: a send whose outcome is unknown is repeated.
DeliveredTwice(m) ==
  /\ socket
  /\ wire' = IF m.kind = "salt" THEN wire ELSE [wire EXCEPT ![m.kind] = @ \o <<m.n, m.n>>]
  /\ inflight' = IF m.kind = "salt" /\ Listening THEN Append(inflight, m.n) ELSE inflight

\* The send succeeded, which only a live socket allows.
Delivered(m) ==
  /\ socket
  /\ wire' = IF m.kind = "salt" THEN wire ELSE [wire EXCEPT ![m.kind] = Append(@, m.n)]
  /\ inflight' = IF m.kind = "salt" /\ Listening THEN Append(inflight, m.n) ELSE inflight

\* Mutation: an error of a send ends the writer, not the session.
AfterSendFatal == {"idle", "stopped"}

\* Where the writer goes on after a send: it ends when the shutdown event is
\* set, or when close() cancels it a second time.
AfterSend ==
  IF Listening /\ shutdown THEN {"stopped"}
  ELSE IF session = "failing" /\ closing THEN {"idle", "stopped"}
  ELSE {"idle"}

\* The send is over, then task_done(); a failed one is logged and its message
\* lost.
SendCompletes ==
  /\ worker = "sending"
  /\ Delivered(busy) \/ UNCHANGED <<wire, inflight>>
  /\ unfinished' = unfinished - 1
  /\ busy' = NoMessage
  /\ worker' \in AfterSend
  /\ UNCHANGED <<sessionVars, mq, secq, expired, held, issued, dropped, cleared, released, hashed>>

-----------------------------------------------------------------------------
(* The listener: the getvisusalt branch of _websocket_event().             *)

\* _pop_secured_command(): the oldest command that has not expired, and what
\* is left behind it.  None when there is none.
Fresh == {i \in DOMAIN secq : secq[i] \notin expired}
First(S) == CHOOSE i \in S : \A j \in S : i <= j
Popped == IF Fresh = {} THEN None ELSE secq[First(Fresh)]
AfterPop == IF Fresh = {} THEN <<>> ELSE SubSeq(secq, First(Fresh) + 1, Len(secq))

\* A usable reply releases one command into the queue; put() waits when full.
SaltReply ==
  /\ Listening /\ socket /\ held = None /\ inflight # <<>>
  /\ inflight' = Tail(inflight)
  /\ secq' = AfterPop
  /\ IF Popped = None
       THEN UNCHANGED <<queueVars, held, released, hashed>>
       ELSE /\ released' = <<Head(inflight), Popped>> /\ hashed' = hashed \cup {Popped}
            /\ PutNowait(Message("secured", Popped))
            /\ held' = IF Len(mq) < Capacity THEN None ELSE Popped
  /\ UNCHANGED <<sessionVars, workerVars, expired, issued, wire, dropped, cleared>>

\* A rejected or unusable reply discards the command it belongs to; a 401 also
\* ends the session.
SaltRejected ==
  /\ Listening /\ socket /\ held = None /\ inflight # <<>>
  /\ secq' = AfterPop
  /\ \/ inflight' = Tail(inflight) /\ UNCHANGED session
     \/ inflight' = <<>> /\ session' = "failing"
  /\ UNCHANGED <<socket, shutdown, closing, queueVars, workerVars, expired, held, historyVars>>

\* A put() that waited finds room.
PutResumes ==
  /\ Listening /\ held # None /\ Len(mq) < Capacity
  /\ PutNowait(Message("secured", held))
  /\ held' = None
  /\ UNCHANGED <<sessionVars, workerVars, secq, expired, inflight, historyVars>>

-----------------------------------------------------------------------------
(* The session, as far as the queues depend on it.                         *)

\* The head of the loop of run(): a closed connection is not dialled again.
Dial ==
  /\ session = "down" /\ ~closing
  /\ session' = "dialling" /\ shutdown' = FALSE
  /\ UNCHANGED <<socket, closing, queueVars, workerVars, saltVars, historyVars>>

DialFails ==
  /\ session = "dialling"
  /\ session' = "ended"
  /\ UNCHANGED <<socket, shutdown, closing, queueVars, workerVars, saltVars, historyVars>>

\* Mutation: what is in the queue is kept for the new session.
StaleKept == UNCHANGED queueVars

\* Mutation: the drop forgets task_done().
StaleUncounted == mq' = <<>> /\ UNCHANGED unfinished

\* What was queued without a session is stale: drop it.
StaleDropped == mq' = <<>> /\ unfinished' = unfinished - Len(mq)

\* start_listening(), until the workers run.
SessionStarts ==
  /\ session = "dialling"
  /\ session' = "handshake" /\ socket' = TRUE /\ shutdown' = FALSE
  /\ dropped' = dropped \cup Range(mq)
  /\ StaleDropped
  /\ worker' = "idle" /\ hashed' = {}
  /\ UNCHANGED <<closing, busy, saltVars, issued, wire, cleared, released>>

Authenticated ==
  /\ session = "handshake" /\ socket
  /\ session' = "live"
  /\ UNCHANGED <<socket, shutdown, closing, queueVars, workerVars, saltVars, historyVars>>

SocketLost ==
  /\ socket
  /\ socket' = FALSE
  /\ UNCHANGED <<session, shutdown, closing, queueVars, workerVars, saltVars, historyVars>>

\* Mutation: the put() that waits is not cancelled with the listener.
PutSurvives ==
  /\ Listening
  /\ inflight' = <<>>
  /\ UNCHANGED <<socket, shutdown, closing, queueVars, workerVars, secq, expired, held, historyVars>>

\* The workers are cancelled; with the listener go the replies it would have
\* read and the command it was putting.
CancelWorkers ==
  /\ Listening
  /\ inflight' = <<>> /\ held' = None
  /\ UNCHANGED <<socket, shutdown, closing, queueVars, workerVars, secq, expired, historyVars>>

SessionFails == CancelWorkers /\ session' = "failing"

\* close() waits for join() on a live socket, at most five seconds.
CloseCancels == closing /\ shutdown /\ CancelWorkers /\ session' = "stopping"

\* The writer, cancelled, sends what is left while the socket lasts.
SessionUnwound ==
  /\ Cancelled /\ worker # "sending"
  /\ mq = <<>> \/ ~socket \/ worker = "stopped"
  /\ session' = "ended" /\ worker' = "stopped" /\ socket' = FALSE
  /\ UNCHANGED <<shutdown, closing, queueVars, busy, saltVars, historyVars>>

\* Mutation: the secured commands wait for the next session.
SecuredKept == cleared' = cleared \cup Range(secq) /\ UNCHANGED secq

\* The parameters of the secured commands do not survive a close().
ClearsSecured ==
  /\ cleared' = cleared \cup Range(secq)
  /\ secq' = <<>>

\* _close_and_reset() after a session or a failed dial; once the owner has
\* closed, its close() returns at once and run() leaves.
RecoveryClose ==
  /\ session = "ended"
  /\ IF closing
       THEN session' = "closed" /\ UNCHANGED <<shutdown, secq, cleared>>
       ELSE session' = "down" /\ shutdown' = TRUE /\ ClearsSecured
  /\ UNCHANGED <<socket, closing, queueVars, workerVars, expired, inflight, held,
                 issued, wire, dropped, released, hashed>>

\* close() by the owner, up to the point where it waits for the queue.  A dial
\* that is under way is not stopped by it.
Close ==
  /\ ~closing
  /\ closing' = TRUE /\ shutdown' = TRUE
  /\ session' = IF session = "down" THEN "closed" ELSE session
  /\ ClearsSecured
  /\ UNCHANGED <<socket, queueVars, workerVars, expired, inflight, held, issued,
                 wire, dropped, released, hashed>>

-----------------------------------------------------------------------------
Next ==
  \/ SendPlain \/ SendSecured \/ Expire
  \/ TakeNext \/ SendCompletes
  \/ SaltReply \/ SaltRejected \/ PutResumes
  \/ Dial \/ DialFails \/ SessionStarts \/ Authenticated \/ SocketLost \/ SessionFails
  \/ CloseCancels \/ SessionUnwound \/ RecoveryClose \/ Close

(***************************************************************************)
(* The event loop runs the writer, and a waiting put(), whenever they can  *)
(* go on; a cancelled session unwinds.                                     *)
(***************************************************************************)
Fairness ==
  /\ WF_vars(TakeNext) /\ WF_vars(SendCompletes) /\ WF_vars(PutResumes)
  /\ WF_vars(SessionUnwound) /\ WF_vars(CloseCancels)

Spec == Init /\ [][Next]_vars /\ Fairness

-----------------------------------------------------------------------------
(* Properties.                                                             *)

SessionTypes ==
  /\ session \in {"down", "dialling", "handshake", "live", "failing", "stopping",
                 "ended", "closed"}
  /\ socket \in BOOLEAN /\ shutdown \in BOOLEAN /\ closing \in BOOLEAN

QueueTypes ==
  /\ mq \in Seq(Messages) /\ Len(mq) <= Capacity /\ unfinished \in Nat
  /\ worker \in {"idle", "sending", "stopped"}
  /\ busy \in Messages \cup {NoMessage}

SecuredTypes ==
  /\ secq \in Seq(1..Secured) /\ expired \subseteq 1..Secured
  /\ inflight \in Seq(Nat) /\ held \in 1..Secured \cup {None}

HistoryTypes ==
  /\ issued \in [Kinds -> Nat] /\ issued["plain"] <= Plain /\ issued["secured"] <= Secured
  /\ wire \in [Kinds -> Seq(Nat)]
  /\ dropped \subseteq Messages /\ cleared \subseteq 1..Secured
  /\ released \in Nat \X Nat /\ hashed \subseteq 1..Secured

\* Every variable keeps its type, and the queue its bound, in any session.
TypeOK == SessionTypes /\ QueueTypes /\ SecuredTypes /\ HistoryTypes

\* join() in close() returns exactly when every command has left: a task is
\* counted from its put until its send is over, through drops and cancellations.
TaskAccounting ==
  unfinished = Len(mq) + (IF worker = "sending" THEN 1 ELSE 0)

\* Each kind of command reaches the Miniserver in the order of the calls, and
\* none of them twice, whatever sessions lie between (API-14, API-15).
InOrderAtMostOnce ==
  \A k \in Kinds : \A i, j \in DOMAIN wire[k] : i < j => wire[k][i] < wire[k][j]

\* "A switch flipped minutes ago must not fire now": a command a session start
\* finds in the queue never reaches the Miniserver, in any session, and neither
\* does a secured one whose parameters waited past SECURED_COMMAND_TIMEOUT.  The
\* parameters of a younger secured command outlive the drop of their salt request;
\* the next reply releases them, see ReplyReleasesItsCommand.
StaleNeverFires ==
  /\ \A m \in dropped : m.kind \in Kinds => m.n \notin Range(wire[m.kind])
  /\ expired \cap Range(wire["secured"]) = {}

\* A secured command that waited for its salt across a close() is never
\* released, by any later session (API-15).
ClearedNeverReleased ==
  cleared \cap (Range(secq) \cup {held}) = {}

\* A visual salt is worth nothing to a later session: every secured command that
\* reaches the Miniserver was hashed with a salt of the session it is sent in,
\* although it may wait in a full queue, or in the hands of the writer, while the
\* session ends and the next one starts (API-15: "stale visual salt").
SentUnderItsSalt ==
  [][Range(wire'["secured"]) \ Range(wire["secured"]) \subseteq hashed]_vars

\* In a session that lasts, every queued command is eventually taken, however
\* many sends before it fail.
QueueKeepsMoving ==
  \A i \in 1..Plain :
    (Listening /\ Message("plain", i) \in Range(mq))
      ~> (Message("plain", i) \notin Range(mq) \/ shutdown \/ ~Listening)

\* Each reply releases the command whose request it answers, so that a failed
\* "open gate" never runs with a later "disarm".
ReplyReleasesItsCommand == released[1] = released[2]

\* close() drains the queue: as long as the socket lasts, nothing is left.
CloseDrainsQueue ==
  [][session = "stopping" /\ session' = "ended" /\ socket => mq = <<>>]_vars

-----------------------------------------------------------------------------
(* The ledger of the commands, as an entity would keep it.                 *)

InTransit(k, i) ==
  \/ Message(k, i) \in Range(mq) \cup {busy}
  \/ k = "secured" /\ i \in Range(secq) \cup {held}

Entry(k, i) ==
  IF i > issued[k] THEN "new"
  ELSE IF i \in Range(wire[k]) THEN "sent"
  ELSE IF InTransit(k, i) THEN "pending"
  ELSE "gone"

Calls == {<<"plain", i>> : i \in 1..Plain} \cup {<<"secured", i>> : i \in 1..Secured}

Ledger == INSTANCE CommandLedger
            WITH Commands <- Calls, ledger <- [c \in Calls |-> Entry(c[1], c[2])]

\* The channel implements the ledger.
ImplementsLedger == Ledger!Spec

=============================================================================
