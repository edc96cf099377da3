----------------------------- MODULE Bootstrap -----------------------------
(***************************************************************************)
(* The bootstrap of a session over HTTP (pyloxone_api/connection.py:       *)
(* open(), _get_with_retry(); loxone_http_client.py; exceptions.py): three *)
(* requests with bounded retries, and what becomes of an error on its way  *)
(* up.  The content of the answers is abstracted to well-formed or not.    *)
(***************************************************************************)
EXTENDS Naturals, Sequences

CONSTANT Tries   \* CONNECT_TRIES

ASSUME BootstrapAssumption == Tries \in Nat \ {0}

VARIABLES
  request,   \* the request that is next
  attempt,   \* its attempt in _get_with_retry()
  outcome,   \* how open() ended
  rejections \* answers 401 of the Miniserver in this bootstrap

bootVars == <<request, attempt, outcome, rejections>>

Requests == <<"apiKey", "LoxAPP3", "publicKey">>
Done == Len(Requests) + 1

\* What may come back, by status or by failure of the transport.  A body that
\* stalls is read after get() has returned.
Answers == {"200", "garbage", "stalled", "400", "401", "403", "404", "408", "429", "500", "502", "503",
            "504", "901", "ssl", "connector", "disconnected", "timeout", "payload", "response"}

\* get() and _handle_error(): the exception a caller sees.
Raised(a) ==
  CASE a = "401" -> "LoxoneUnauthorisedError"
    [] a = "403" -> "PermissionError"
    [] a = "503" -> "LoxoneServiceUnAvailableError"
    [] a \in {"404", "901"} -> "LoxoneRequestError"
    [] a \in {"408", "504", "timeout"} -> "TimeoutError"
    [] a \in {"502", "ssl", "connector", "disconnected"} -> "ConnectionError"
    [] a \in {"400", "payload"} -> "ValueError"
    [] a \in {"429", "500", "response"} -> "RuntimeError"

\* OSError has the other three of Python's own as subclasses.
OSErrors == {"OSError", "PermissionError", "TimeoutError", "ConnectionError"}

\* Mutation: every error of the library is worth another attempt.
RetriesLibraryErrors == OSErrors \cup {"LoxoneServiceUnAvailableError", "LoxoneUnauthorisedError"}

\* What _get_with_retry() catches.
GetRetries == OSErrors \cup {"LoxoneServiceUnAvailableError"}

\* RETRYABLE_SESSION_ERRORS as run() sees them, LoxoneUnauthorisedError first.
LoxoneErrors == {"LoxoneException", "LoxoneServiceUnAvailableError", "LoxoneRequestError",
                 "LoxoneConnectionError", "LoxoneConnectionClosedOk", "LoxoneOutOfServiceException"}
Classified(error) ==
  CASE error = "none" -> "ok"
    [] error = "LoxoneUnauthorisedError" -> "unauthorised"
    [] error \in OSErrors \cup LoxoneErrors -> "retryable"
    [] OTHER -> "bug"

StartBootstrap == request' = 1 /\ attempt' = 1 /\ outcome' = "none" /\ rejections' = 0
InitBootstrap == request = 1 /\ attempt = 1 /\ outcome = "none" /\ rejections = 0

\* The error of the third request is wrapped, whatever it is.
Fails(error) ==
  /\ outcome' = IF Requests[request] = "publicKey" THEN "RuntimeError" ELSE error
  /\ UNCHANGED <<request, attempt>>

\* One answer: the next request, the end of the bootstrap, or another attempt.
\* A key that is no key is found out when the session key is encrypted with it.
Accepted ==
  IF request < Len(Requests)
  THEN request' = request + 1 /\ attempt' = 1 /\ UNCHANGED outcome
  ELSE outcome' \in {"none", "LoxoneException"} /\ request' = Done /\ UNCHANGED attempt

Get(a) ==
  /\ request \in DOMAIN Requests /\ outcome = "none"
  /\ rejections' = rejections + (IF a = "401" THEN 1 ELSE 0)
  /\ CASE a = "200"     -> Accepted
       [] a = "garbage" -> outcome' = "ValueError" /\ UNCHANGED <<request, attempt>>
       [] a = "stalled" -> outcome' = "TimeoutError" /\ UNCHANGED <<request, attempt>>
       [] OTHER ->
            IF Raised(a) \in GetRetries /\ attempt < Tries
            THEN attempt' = attempt + 1 /\ UNCHANGED <<request, outcome>>
            ELSE Fails(Raised(a))

BootstrapStep == \E a \in Answers : Get(a)

\* The bootstrap is over: with the error it raised, or with "none".
Bootstrapped == request = Done \/ outcome # "none"

(***************************************************************************)
(* Properties.                                                             *)
(***************************************************************************)
\* A rejection ends the bootstrap it happens in: the Miniserver blocks a user
\* after too many failed logins, so the password it refused is not presented
\* again by a retry, and until the last request the caller is told.
RejectionEndsBootstrap ==
  /\ rejections <= 1
  /\ rejections = 1 => outcome # "none"
  /\ rejections = 1 /\ Requests[request] # "publicKey" => Classified(outcome) = "unauthorised"
=============================================================================
