--------------------------- MODULE Authentication ---------------------------
(***************************************************************************)
(* The login and the token of one LoxoneConnection (pyloxone_api/          *)
(* connection.py): the handshake handlers of _websocket_event(), the token *)
(* refresh loop check_refresh_token(), and the copy of the token that the  *)
(* coordinator keeps in the config entry.                                  *)
(*                                                                         *)
(* One listener answers the replies in the order of the requests, so a     *)
(* request is outstanding from the moment it is queued.  What the network  *)
(* and the Miniserver may do wrong is counted against a budget of faults.  *)
(* A reply with an unknown code is treated by the code like an accepted    *)
(* one, and so is it here.                                                 *)
(***************************************************************************)
EXTENDS Naturals, Sequences, SequencesExt

CONSTANTS Tokens,       \* the tokens a Miniserver issues
          NoToken,      \* the empty token
          Keys,         \* the HMAC keys it issues
          NoKey,        \* the empty key
          MaxFailures,  \* TOKEN_REFRESH_MAX_FAILURES
          Faults,       \* how many things go wrong: a bound of the model
          TokenReplies  \* what a token reply may carry, see TokenReplyKinds

TokenReplyKinds == {"long", "short", "undated", "empty"}

ASSUME AuthenticationAssumption ==
  /\ NoToken \notin Tokens /\ NoKey \notin Keys
  /\ MaxFailures \in Nat \ {0} /\ Faults \in Nat
  /\ TokenReplies \subseteq TokenReplyKinds

VARIABLES
  session,       \* "down", "open", or "rejected" once run() has raised
  requests,      \* what the Miniserver has yet to answer
  authenticated, \* _authenticated_event
  updates,       \* this session has asked for status updates
  token,         \* _token
  persisted,     \* the token in the data of the config entry
  key,           \* _key
  oldKey,        \* the old_key of the refresh loop
  keyEvent,      \* _key_update_event: "none", or the event "armed" or "set"
  refresh,       \* where the refresh loop is suspended
  failures,      \* _refresh_failures, up to the threshold it is compared with
  reconnect,     \* _reconnect_event
  refused,       \* the tokens the Miniserver has refused since the start
  faults         \* faults left

loginVars   == <<session, requests, authenticated, updates>>
tokenVars   == <<token, persisted>>
refreshVars == <<key, oldKey, keyEvent, refresh, failures>>
vars == <<loginVars, tokenVars, refreshVars, reconnect, refused, faults>>

\* What is left of the lifetime: "long" is more than 100 seconds, "none" is the
\* valid_until of -1 of an empty token, "undated" a valid_until of 0.
Lives == {"none", "undated", "short", "long"}
Token(id, life) == [id |-> id, life |-> life]
Blank == Token(NoToken, "none")

Commands == {"keyexchange", "getkey2", "gettoken", "auth", "getkey", "refresh"}
Request(c)  == [cmd |-> c, token |-> NoToken]
Presents(c) == [cmd |-> c, token |-> token.id]

\* What a complete token reply leaves in _token, and a reset.
Complete(t) == t.life # "undated" /\ (t.life = "long" => t.id # NoToken)

\* __init__(): an incomplete or invalid stored token is no token.
Loaded(t) == IF t.id = NoToken \/ t.life \in {"none", "undated"} THEN Blank ELSE t

Init ==
  /\ session = "down" /\ requests = <<>> /\ authenticated = FALSE /\ updates = FALSE
  /\ persisted \in {Blank} \cup {Token(t, l) : t \in Tokens, l \in {"short", "long"}}
  /\ token = Loaded(persisted)
  /\ key = NoKey /\ oldKey = NoKey /\ keyEvent = "none"
  /\ refresh = "off" /\ failures = 0
  /\ reconnect = FALSE /\ refused = {} /\ faults = Faults

Fault == faults > 0 /\ faults' = faults - 1

-----------------------------------------------------------------------------
(* The session.                                                            *)

\* The head of the loop of run(): the token survives the session, the login
\* does not.
PassBegins == authenticated' = FALSE /\ updates' = FALSE

\* start_listening(): the key exchange is sent and the workers start.
SessionStarts ==
  /\ session = "down"
  /\ PassBegins
  /\ session' = "open" /\ requests' = <<Request("keyexchange")>>
  /\ refresh' = "delay"
  /\ UNCHANGED <<tokenVars, key, oldKey, keyEvent, failures, reconnect, refused, faults>>

\* The workers are cancelled and _close_and_reset() runs.
Ends(s) ==
  /\ session' = s /\ requests' = <<>>
  /\ refresh' = "off" /\ keyEvent' = "none"
  /\ reconnect' = FALSE

SocketLost ==
  /\ session = "open" /\ Fault
  /\ Ends("down")
  /\ UNCHANGED <<authenticated, updates, tokenVars, key, oldKey, failures, refused>>

\* The Miniserver closes a websocket that does not log in within seconds.
LoginTimesOut ==
  /\ session = "open" /\ ~updates /\ requests = <<>>
  /\ Ends("down")
  /\ UNCHANGED <<authenticated, updates, tokenVars, key, oldKey, failures, refused, faults>>

\* reconnect_task() raises LoxoneReconnectRequested.
Reconnects ==
  /\ session = "open" /\ reconnect
  /\ Ends("down")
  /\ UNCHANGED <<authenticated, updates, tokenVars, key, oldKey, failures, refused, faults>>

-----------------------------------------------------------------------------
(* The replies: _websocket_event().                                        *)

Answers(c) == session = "open" /\ requests # <<>> /\ Head(requests).cmd = c

\* The handler queues nothing, or one request.
Handled    == requests' = Tail(requests)
Continue(r) == requests' = Append(Tail(requests), r)

\* _check_auth_response(): a 401 where the credentials themselves are checked.
Rejected ==
  /\ \E c \in {"getkey2", "gettoken", "getkey"} : Answers(c)
  /\ Fault
  /\ Ends("rejected")
  /\ UNCHANGED <<authenticated, updates, tokenVars, key, oldKey, failures, refused>>

\* A reply without the expected fields is logged, and nothing follows.
Unusable ==
  /\ \E c \in {"getkey2", "gettoken", "getkey", "refresh"} : Answers(c)
  /\ Fault
  /\ Handled
  /\ UNCHANGED <<session, authenticated, updates, tokenVars, refreshVars, reconnect, refused>>

KeyExchangeReply ==
  /\ Answers("keyexchange")
  /\ Continue(Request("getkey2"))
  /\ UNCHANGED <<session, authenticated, updates, tokenVars, refreshVars, reconnect,
                 refused, faults>>

\* Reuse a token that is good for a while, else request one.  A token without a
\* date or without a text raises, which is logged, and nothing is sent.
GetKey2Reply ==
  /\ Answers("getkey2")
  /\ key' \in Keys
  /\ \/ token.life = "long" /\ token.id # NoToken /\ Continue(Presents("auth"))
     \/ token.life \in {"short", "none"} /\ Continue(Request("gettoken"))
     \/ ~Complete(token) /\ Handled
  /\ UNCHANGED <<session, authenticated, updates, tokenVars, oldKey, keyEvent, refresh,
                 failures, reconnect, refused, faults>>

\* Mutation: the owner is not told.
TokenUnsaved == UNCHANGED persisted

\* _signal_token_changed(): the coordinator stores the token in the entry.
TokenSaved == persisted' = token'

\* An empty token is noticed after it was stored in _token; the exception is
\* logged by the handler itself.
GetTokenReply ==
  /\ Answers("gettoken")
  /\ Handled
  /\ \/ /\ \E t \in Tokens \ refused, l \in TokenReplies \ {"empty"} : token' = Token(t, l)
        /\ TokenSaved
        /\ authenticated' = TRUE /\ updates' = TRUE
     \/ /\ "empty" \in TokenReplies
        /\ token' = Token(NoToken, "long")
        /\ UNCHANGED <<persisted, authenticated, updates>>
  /\ UNCHANGED <<session, refreshVars, reconnect, refused, faults>>

AuthReply ==
  /\ Answers("auth")
  /\ Handled
  /\ authenticated' = TRUE /\ updates' = TRUE
  /\ UNCHANGED <<session, tokenVars, refreshVars, reconnect, refused, faults>>

\* Mutations: the reset leaves the event set; the token stays; the session is
\* not restarted.
ResetLeavesEvent    == token' = Blank /\ reconnect' = TRUE /\ UNCHANGED authenticated
ResetKeepsToken     == authenticated' = FALSE /\ reconnect' = TRUE /\ UNCHANGED token
ResetWithoutRestart == token' = Blank /\ authenticated' = FALSE /\ UNCHANGED reconnect

\* reset_token() and a request to reconnect.
ResetToken ==
  token' = Blank /\ authenticated' = FALSE /\ reconnect' = TRUE

\* 401 on authwithtoken or on a refresh: the token is gone, not the credentials.
TokenRefused ==
  /\ Answers("auth") \/ Answers("refresh")
  /\ Fault
  /\ refused' = refused \cup {Head(requests).token}
  /\ Handled
  /\ ResetToken
  /\ UNCHANGED <<session, updates, persisted, refreshVars>>

\* The key of a refresh; the event of the loop is set if there is one.  A new
\* key every time, unless something is wrong.
GetKeyReply ==
  /\ Answers("getkey")
  /\ Handled
  /\ \/ key' \in Keys \ {key} /\ UNCHANGED faults
     \/ key' \in {key, NoKey} /\ Fault
  /\ keyEvent' = IF keyEvent = "none" THEN "none" ELSE "set"
  /\ UNCHANGED <<session, authenticated, updates, tokenVars, oldKey, refresh, failures,
                 reconnect, refused>>

RefreshReply ==
  /\ Answers("refresh")
  /\ Handled
  /\ \E t \in Tokens \ refused, l \in TokenReplies \ {"empty"} : token' = Token(t, l)
  /\ TokenSaved
  /\ authenticated' = TRUE
  /\ UNCHANGED <<session, updates, refreshVars, reconnect, refused, faults>>

-----------------------------------------------------------------------------
(* The refresh loop: check_refresh_token().                                *)

DelayOver ==
  /\ refresh = "delay"
  /\ refresh' = "waiting"
  /\ UNCHANGED <<loginVars, tokenVars, key, oldKey, keyEvent, failures, reconnect,
                 refused, faults>>

\* Wait for the login, then sleep for half the lifetime.  A token without a date
\* raises, and the loop goes round without suspending.
Schedules ==
  /\ refresh = "waiting" /\ authenticated
  /\ refresh' = IF token.life = "undated" THEN "spinning" ELSE "sleeping"
  /\ UNCHANGED <<loginVars, tokenVars, key, oldKey, keyEvent, failures, reconnect,
                 refused, faults>>

\* Mutations: the failures are not compared with the threshold; the loop ends
\* with the first one.
FailsQuietly == failures' = failures + 1 /\ refresh' = "waiting" /\ UNCHANGED <<session, requests, reconnect>>
FailsOnce    == refresh' = "off" /\ UNCHANGED <<failures, session, requests, reconnect>>

\* _note_refresh_failure(): the last failure raises LoxoneTokenError, which ends
\* the session.  The counter is not reset by that.
RefreshFails ==
  \/ /\ failures + 1 < MaxFailures
     /\ failures' = failures + 1 /\ refresh' = "waiting"
     /\ UNCHANGED <<session, requests, reconnect>>
  \/ /\ failures + 1 >= MaxFailures
     /\ failures' = MaxFailures /\ refresh' = "off"
     /\ session' = "down" /\ requests' = <<>> /\ reconnect' = FALSE

\* The sleep is over: ask for a new key.
RequestsKey ==
  /\ refresh = "sleeping"
  /\ \/ /\ requests' = Append(requests, Request("getkey"))
        /\ keyEvent' = "armed" /\ refresh' = "keyWait"
        /\ UNCHANGED <<session, failures, reconnect, faults>>
     \/ Fault /\ keyEvent' = "none" /\ RefreshFails
  /\ oldKey' = key
  /\ UNCHANGED <<authenticated, updates, tokenVars, key, refused>>

\* The key is there: queue the refresh, unless the key is the old one or there
\* is nothing to hash.
KeyArrives ==
  /\ refresh = "keyWait" /\ keyEvent = "set"
  /\ keyEvent' = "none"
  /\ \/ /\ key \notin {oldKey, NoKey} /\ token.id # NoToken
        /\ requests' = Append(requests, Presents("refresh"))
        /\ failures' = 0 /\ refresh' = "waiting"
        /\ UNCHANGED <<session, reconnect>>
     \/ /\ key \in {oldKey, NoKey} \/ token.id = NoToken
        /\ RefreshFails
  /\ UNCHANGED <<authenticated, updates, tokenVars, key, oldKey, refused, faults>>

\* Fifteen seconds without the key: the reply is late, or it was unusable.
KeyTimesOut ==
  /\ refresh = "keyWait" /\ keyEvent = "armed"
  /\ \/ Fault
     \/ (\A i \in DOMAIN requests : requests[i].cmd # "getkey") /\ UNCHANGED faults
  /\ keyEvent' = "none"
  /\ RefreshFails
  /\ UNCHANGED <<authenticated, updates, tokenVars, key, oldKey, refused>>

-----------------------------------------------------------------------------
(* Time, and the process.                                                  *)

Aged(t) == IF t.life = "long" THEN Token(t.id, "short") ELSE t

TokenAges ==
  /\ \E t \in Tokens \cup {NoToken} :
       /\ token' = IF token.id = t THEN Aged(token) ELSE token
       /\ persisted' = IF persisted.id = t THEN Aged(persisted) ELSE persisted
  /\ tokenVars' # tokenVars
  /\ UNCHANGED <<loginVars, refreshVars, reconnect, refused, faults>>

\* A clean stop, _persist_token_and_close(): the dict that get_token_dict()
\* returns is never empty, so the test of it lets an empty token pass.
StopPersists == persisted' = token

\* Home Assistant is killed or stops, and starts again: a new LoxoneConnection
\* with the stored token.
Restart ==
  /\ Fault
  /\ Ends("down")
  /\ StopPersists \/ UNCHANGED persisted
  /\ token' = Loaded(persisted')
  /\ authenticated' = FALSE /\ updates' = FALSE
  /\ key' = NoKey /\ oldKey' = NoKey /\ failures' = 0
  /\ refused' = {}

-----------------------------------------------------------------------------
Replies ==
  \/ KeyExchangeReply \/ GetKey2Reply \/ GetTokenReply \/ AuthReply
  \/ GetKeyReply \/ RefreshReply

RefreshLoop == DelayOver \/ Schedules \/ RequestsKey \/ KeyArrives

\* A loop that spins without suspending stops every task of Home Assistant.
Next ==
  /\ refresh # "spinning"
  /\ \/ SessionStarts \/ SocketLost \/ LoginTimesOut \/ Reconnects
     \/ Replies \/ Rejected \/ Unusable \/ TokenRefused
     \/ RefreshLoop \/ KeyTimesOut
     \/ TokenAges \/ Restart

(***************************************************************************)
(* The supervisor starts sessions, the event loop runs the refresh loop,   *)
(* and a Miniserver that falls silent is a lost socket (the receive        *)
(* watchdog of keep_alive() raises), which is one of the faults.           *)
(***************************************************************************)
Fairness ==
  /\ WF_vars(SessionStarts) /\ WF_vars(LoginTimesOut) /\ WF_vars(Reconnects)
  /\ WF_vars(Replies)
  /\ WF_vars(RefreshLoop)
  /\ WF_vars(UNCHANGED faults /\ KeyTimesOut)

Spec == Init /\ [][Next]_vars /\ Fairness

-----------------------------------------------------------------------------
(* Properties.                                                             *)

RequestType == [cmd : Commands, token : Tokens \cup {NoToken}]
TokenType   == [id : Tokens \cup {NoToken}, life : Lives]
KeyType     == Keys \cup {NoKey}

\* Every variable keeps its type; the failures never pass the threshold.
TypeOK ==
  /\ session \in {"down", "open", "rejected"} /\ requests \in Seq(RequestType)
  /\ authenticated \in BOOLEAN /\ updates \in BOOLEAN
  /\ token \in TokenType /\ persisted \in TokenType
  /\ key \in KeyType /\ oldKey \in KeyType
  /\ keyEvent \in {"none", "armed", "set"}
  /\ refresh \in {"off", "delay", "waiting", "sleeping", "keyWait", "spinning"}
  /\ failures \in 0..MaxFailures
  /\ reconnect \in BOOLEAN /\ refused \subseteq Tokens /\ faults \in 0..Faults

\* on_state(True) is deserved: whenever the supervisor can see the login of an
\* open session, that session holds a token the Miniserver has not refused and
\* has asked for the status updates (API-16).
AuthenticatedSessionIsUsable ==
  session = "open" /\ authenticated =>
    token.id \in Tokens \ refused /\ updates

\* The entry always holds the token in use, so that no restart, however abrupt,
\* goes back to an older one or to the password (API-17).
EntryHoldsTokenInUse ==
  token.id # NoToken => persisted.id = token.id

\* A token the Miniserver has refused is never presented again, by the next
\* login or by the refresh loop.
RefusedTokenNotPresented ==
  [][requests' # requests /\ Len(requests') >= Len(requests)
       => Last(requests').token \notin refused]_vars

\* No fault leads into a loop of logins: once they stop, the connection ends up
\* logged in for good, unless the credentials themselves were rejected.
LoginHeals ==
  []Complete(token) =>
  <>[](session = "open" /\ authenticated) \/ <>[](session = "rejected")

\* A token about to expire is refreshed before the session can outlive it.
ExpiringTokenIsRefreshed ==
  (session = "open" /\ authenticated /\ token.life = "short")
    ~> (session # "open" \/ \E i \in DOMAIN requests : requests[i].cmd = "refresh")

\* "persist a token only if we actually hold one": nothing that is stored
\* erases the token of the entry.
EntryTokenNotErased ==
  [][persisted.id # NoToken => persisted'.id # NoToken]_vars

\* "Token was reset while waiting for auth: wait for the re-authenticated
\* token": the loop suspends before it looks at the token again.
RefreshLoopSuspends == refresh # "spinning"

=============================================================================
