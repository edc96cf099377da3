-------------------------------- MODULE Wire --------------------------------
(***************************************************************************)
(* One LoxoneConnection from the outside: the bootstrap over HTTP, the     *)
(* websocket, the stream of frames in one direction and of encrypted       *)
(* commands in the other, and after the end of a session the next one      *)
(* (pyloxone_api/connection.py: open(), _connect_websocket(),              *)
(* start_listening(), run()).  Bootstrap, FrameStream and SaltChain have   *)
(* the parts; SessionSupervisor has the tasks and the teardown.            *)
(***************************************************************************)
EXTENDS Bootstrap, FrameStream, SaltChain

CONSTANT Work  \* messages and encrypted commands in one session: a bound of the model

ASSUME WireAssumption == Work \in Nat

VARIABLES
  phase,  \* what the connection is doing
  sent    \* encrypted commands of this session

vars == <<bootVars, frameVars, saltVars, phase, sent>>

\* "setup": open(connect_websocket=False) by the coordinator; "open": a later
\* session bootstraps again in start_listening(); "dial": _connect_websocket().
Phases == {"setup", "dial", "open", "listening", "backoff", "failed"}

Init ==
  /\ InitBootstrap /\ InitStream /\ InitSalt
  /\ phase = "setup" /\ sent = 0

Requesting ==
  /\ phase \in {"setup", "open"} /\ ~Bootstrapped
  /\ BootstrapStep
  /\ UNCHANGED <<frameVars, saltVars, phase, sent>>

\* The first open() ends: with an error setup fails, and Home Assistant retries
\* it with a new connection, as it does after a bug.
SetupEnds ==
  /\ phase = "setup" /\ Bootstrapped
  /\ phase' = IF outcome = "none" THEN "dial" ELSE "failed"
  /\ IF outcome = "none" THEN StartSalt ELSE UNCHANGED saltVars
  /\ UNCHANGED <<bootVars, frameVars, sent>>

SetupAgain ==
  /\ phase = "failed"
  /\ StartBootstrap
  /\ phase' = "setup"
  /\ UNCHANGED <<frameVars, saltVars, sent>>

\* _connect_websocket(), and the workers of the session.  A handshake that fails
\* is a matter of the network, but for an address that is none.
Connects ==
  /\ phase = "dial"
  /\ \/ phase' = "listening" /\ StartStream /\ sent' = 0
     \/ phase' \in {"backoff", "failed"} /\ UNCHANGED <<frameVars, sent>>
  /\ UNCHANGED <<bootVars, saltVars>>

\* open() of a later session, by start_listening().
OpenEnds ==
  /\ phase = "open" /\ Bootstrapped
  /\ phase' = CASE Classified(outcome) = "ok"        -> "dial"
                [] Classified(outcome) = "retryable" -> "backoff"
                [] OTHER                             -> "failed"
  /\ IF outcome = "none" THEN StartSalt ELSE UNCHANGED saltVars
  /\ UNCHANGED <<bootVars, frameVars, sent>>

Streams ==
  /\ phase = "listening"
  /\ StreamNext
  /\ message'.id + sent <= Work
  /\ UNCHANGED <<bootVars, saltVars, phase, sent>>

Encrypts ==
  /\ phase = "listening" /\ ended = "no" /\ message.id + sent < Work
  /\ SendEncrypted
  /\ sent' = sent + 1
  /\ UNCHANGED <<bootVars, frameVars, phase>>

SaltGrowsOld ==
  /\ phase = "listening"
  /\ SaltAges
  /\ UNCHANGED <<bootVars, frameVars, phase, sent>>

\* run(): the end of a session is retried in place, a bug is not.  The locals of
\* the listener are gone; _last_rx stays.
SessionEnds ==
  /\ phase = "listening" /\ ended # "no"
  /\ phase' = IF ended = "bug" THEN "failed" ELSE "backoff"
  /\ sending' = <<>> /\ damaged' = 0 /\ strays' = 0
  /\ header' = NoHeader /\ body' = <<>> /\ message' = NoMessage /\ garbled' = 0
  /\ sent' = 0 /\ silent' = 0 /\ ended' = "no"
  /\ UNCHANGED <<bootVars, saltVars, lastRx, wake>>

BackoffOver ==
  /\ phase = "backoff"
  /\ StartBootstrap
  /\ phase' = "open"
  /\ UNCHANGED <<frameVars, saltVars, sent>>

Next ==
  \/ Requesting \/ SetupEnds \/ SetupAgain \/ Connects \/ OpenEnds
  \/ Streams \/ Encrypts \/ SaltGrowsOld \/ SessionEnds \/ BackoffOver

Spec == Init /\ [][Next]_vars
=============================================================================
