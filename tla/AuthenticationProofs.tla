------------------------ MODULE AuthenticationProofs ------------------------
(***************************************************************************)
(* Proofs about Authentication, for any tokens, keys, threshold and number *)
(* of faults.  That a visible login is usable is not inductive: a token    *)
(* reply could arrive in the middle of a login, or an acceptance after its *)
(* token was reset.  IInv says why neither happens: until the login is     *)
(* through, the listener has at most one request to answer, which presents *)
(* the token in use if it presents one, and the refresh loop waits.        *)
(***************************************************************************)
EXTENDS Authentication, QueueFacts

\* What the two halves of a session may have asked for.
LoginRequest(r) ==
  /\ r.cmd \in {"keyexchange", "getkey2", "gettoken", "auth"}
  /\ r.cmd = "auth" => token.id # NoToken
RefreshRequest(r) == r.cmd \in {"getkey", "refresh"}
PresentsToken(r)  == r.cmd \in {"auth", "refresh"} => r.token \in Tokens

\* Without a session nothing is outstanding, and nothing refreshes.
QuietInv == session # "open" => requests = <<>> /\ refresh = "off"

\* Until the login is through, it is the only one who asks.
LoginInv ==
  session = "open" /\ ~updates =>
    /\ ~authenticated /\ refresh \in {"delay", "waiting"}
    /\ Len(requests) <= 1 /\ \A r \in Range(requests) : LoginRequest(r)

\* Afterwards only the refresh loop asks.
LoggedInInv ==
  session = "open" /\ updates => \A r \in Range(requests) : RefreshRequest(r)

\* What is presented is a token, and what is held was not refused.
TokenInv ==
  /\ \A r \in Range(requests) : PresentsToken(r)
  /\ token.id \notin refused
  /\ session = "open" /\ authenticated => token.id # NoToken

IInv ==
  /\ TypeOK /\ QuietInv /\ LoginInv /\ LoggedInInv /\ TokenInv /\ EntryHoldsTokenInUse

\* A request of a handler or of the loop is one.
LEMMA RequestIsTyped ==
  ASSUME TypeOK, NEW c \in Commands
  PROVE  Request(c) \in RequestType /\ Presents(c) \in RequestType
BY DEF TypeOK, RequestType, TokenType, Request, Presents

\* What an answer leaves of the queue, and what a request adds to it.
LEMMA QueueEffects ==
  ASSUME TypeOK
  PROVE  /\ requests # <<>> =>
              /\ Len(requests) >= 1
              /\ Tail(requests) \in Seq(RequestType) /\ Len(Tail(requests)) = Len(requests) - 1
              /\ Range(Tail(requests)) \subseteq Range(requests)
              /\ Head(requests) \in Range(requests) /\ Head(requests) \in RequestType
              /\ \A r \in RequestType :
                   /\ Append(Tail(requests), r) \in Seq(RequestType)
                   /\ Len(Append(Tail(requests), r)) = Len(requests)
                   /\ Range(Append(Tail(requests), r)) = Range(Tail(requests)) \cup {r}
                   /\ Last(Append(Tail(requests), r)) = r
         /\ Len(requests) <= 1 /\ requests # <<>> => Range(Tail(requests)) = {}
         /\ \A r \in RequestType :
              /\ Append(requests, r) \in Seq(RequestType)
              /\ Range(Append(requests, r)) = Range(requests) \cup {r}
              /\ Last(Append(requests, r)) = r
              /\ <<r>> \in Seq(RequestType) /\ Range(<<r>>) = {r} /\ Len(<<r>>) = 1 /\ Last(<<r>>) = r
         /\ Range(<<>>) = {} /\ <<>> \in Seq(RequestType) /\ Len(<<>>) = 0
         /\ Len(requests) \in Nat
<1>1. requests \in Seq(RequestType) /\ Len(requests) \in Nat
  BY LenProperties DEF TypeOK
<1>2. Range(<<>>) = {} /\ <<>> \in Seq(RequestType) /\ Len(<<>>) = 0
  BY EmptyQueue
<1>3. ASSUME NEW s \in Seq(RequestType), NEW r \in RequestType
      PROVE  /\ Append(s, r) \in Seq(RequestType) /\ Len(Append(s, r)) = Len(s) + 1
             /\ Range(Append(s, r)) = Range(s) \cup {r} /\ Last(Append(s, r)) = r
  BY AppendEffect DEF Last
<1>4. ASSUME NEW r \in RequestType
      PROVE  <<r>> \in Seq(RequestType) /\ Range(<<r>>) = {r} /\ Len(<<r>>) = 1 /\ Last(<<r>>) = r
  <2>1. Append(<<>>, r) = <<r>>
    OBVIOUS
  <2>. QED
    BY <1>2, <1>3, <2>1
<1>5. CASE requests # <<>>
  <2>1. /\ Tail(requests) \in Seq(RequestType) /\ Len(Tail(requests)) = Len(requests) - 1
        /\ Len(requests) >= 1
        /\ Range(Tail(requests)) \subseteq Range(requests)
        /\ Head(requests) \in Range(requests) /\ Head(requests) \in RequestType
    BY <1>1, <1>5, TailEffect
  <2>2. Len(requests) <= 1 => Range(Tail(requests)) = {}
    <3>1. Len(requests) <= 1 => Len(Tail(requests)) = 0
      BY <1>1, <2>1
    <3>2. Len(Tail(requests)) = 0 => Tail(requests) = <<>>
      BY <2>1, EmptySeq
    <3>. QED
      BY <1>2, <3>1, <3>2
  <2>3. \A r \in RequestType :
          /\ Append(Tail(requests), r) \in Seq(RequestType)
          /\ Len(Append(Tail(requests), r)) = Len(requests)
          /\ Range(Append(Tail(requests), r)) = Range(Tail(requests)) \cup {r}
          /\ Last(Append(Tail(requests), r)) = r
    <3>. SUFFICES ASSUME NEW r \in RequestType
                  PROVE  /\ Append(Tail(requests), r) \in Seq(RequestType)
                         /\ Len(Append(Tail(requests), r)) = Len(requests)
                         /\ Range(Append(Tail(requests), r)) = Range(Tail(requests)) \cup {r}
                         /\ Last(Append(Tail(requests), r)) = r
      OBVIOUS
    <3>1. /\ Append(Tail(requests), r) \in Seq(RequestType)
          /\ Len(Append(Tail(requests), r)) = Len(Tail(requests)) + 1
          /\ Range(Append(Tail(requests), r)) = Range(Tail(requests)) \cup {r}
          /\ Last(Append(Tail(requests), r)) = r
      BY <1>3, <2>1
    <3>. QED
      BY <1>1, <2>1, <3>1
  <2>. QED
    BY <1>1, <1>2, <1>3, <1>4, <2>1, <2>2, <2>3
<1>6. CASE requests = <<>>
  BY <1>1, <1>2, <1>3, <1>4, <1>6
<1>. QED
  BY <1>5, <1>6

\* One more thing goes wrong, and one more refresh fails.
LEMMA FaultEffect == TypeOK /\ Fault => faults' \in 0..Faults
BY AuthenticationAssumption DEF TypeOK, Fault

LEMMA FailureEffect ==
  ASSUME TypeOK, RefreshFails
  PROVE  /\ failures' \in 0..MaxFailures
         /\ \/ session' = session /\ requests' = requests /\ refresh' = "waiting" /\ reconnect' = reconnect
            \/ session' = "down" /\ requests' = <<>> /\ refresh' = "off" /\ reconnect' = FALSE
<1>1. failures \in Nat /\ MaxFailures \in Nat \ {0} /\ failures <= MaxFailures
  BY AuthenticationAssumption DEF TypeOK
<1>. QED
  BY <1>1 DEF RefreshFails

-----------------------------------------------------------------------------
(* The invariant.                                                          *)

\* A connection that was just created satisfies it.
LEMMA InitInvariant == Init => IInv
<1>. SUFFICES ASSUME Init PROVE IInv
  OBVIOUS
<1>1. requests = <<>> /\ requests \in Seq(RequestType) /\ Range(requests) = {}
  BY EmptyQueue DEF Init
<1>2. persisted \in TokenType /\ token \in TokenType /\ (token.id # NoToken => persisted.id = token.id)
  BY DEF Init, TokenType, Lives, Loaded, Blank, Token
<1>3. TypeOK
  <2>1. 0 \in 0..MaxFailures /\ Faults \in 0..Faults
    BY AuthenticationAssumption
  <2>2. key \in KeyType /\ oldKey \in KeyType /\ failures \in 0..MaxFailures /\ faults \in 0..Faults
    BY <2>1 DEF Init, KeyType
  <2>. QED
    BY <1>1, <1>2, <2>2 DEF Init, TypeOK
<1>4. QuietInv /\ LoginInv /\ LoggedInInv /\ TokenInv /\ EntryHoldsTokenInUse
  BY <1>1, <1>2 DEF Init, QuietInv, LoginInv, LoggedInInv, TokenInv, EntryHoldsTokenInUse
<1>. QED
  BY <1>3, <1>4 DEF IInv

\* The types, of the queue,
LEMMA QueueTypeStep == TypeOK /\ [Next]_vars => requests' \in Seq(RequestType)
<1> SUFFICES ASSUME TypeOK, [Next]_vars PROVE requests' \in Seq(RequestType)
  OBVIOUS
<1> USE QueueEffects, RequestIsTyped DEF TypeOK, Commands, loginVars, tokenVars, refreshVars
<1>1. CASE SessionStarts
  BY <1>1 DEF SessionStarts, Request, PassBegins
<1>2. CASE SocketLost
  BY <1>2 DEF SocketLost, Ends, Fault
<1>3. CASE LoginTimesOut
  BY <1>3 DEF LoginTimesOut, Ends
<1>4. CASE Reconnects
  BY <1>4 DEF Reconnects, Ends
<1>5. CASE KeyExchangeReply
  BY <1>5 DEF KeyExchangeReply, Answers, Continue, Request
<1>6. CASE GetKey2Reply
  BY <1>6 DEF GetKey2Reply, Answers, Continue, Handled, Request, Presents
<1>7. CASE GetTokenReply
  BY <1>7 DEF GetTokenReply, Answers, Handled, TokenSaved, Token
<1>8. CASE AuthReply
  BY <1>8 DEF AuthReply, Answers, Handled
<1>9. CASE GetKeyReply
  BY <1>9 DEF GetKeyReply, Answers, Handled, Fault
<1>10. CASE RefreshReply
  BY <1>10 DEF RefreshReply, Answers, Handled, TokenSaved, Token
<1>11. CASE Rejected
  BY <1>11 DEF Rejected, Answers, Fault, Ends
<1>12. CASE Unusable
  BY <1>12 DEF Unusable, Answers, Fault, Handled
<1>13. CASE TokenRefused
  BY <1>13 DEF TokenRefused, Answers, Fault, Handled, ResetToken, Blank, Token
<1>14. CASE DelayOver
  BY <1>14 DEF DelayOver
<1>15. CASE Schedules
  BY <1>15 DEF Schedules
<1>16. CASE RequestsKey
  BY <1>16 DEF RequestsKey, RefreshFails, Fault, Request
<1>17. CASE KeyArrives
  BY <1>17 DEF KeyArrives, RefreshFails, Presents
<1>18. CASE KeyTimesOut
  BY <1>18 DEF KeyTimesOut, RefreshFails, Fault
<1>19. CASE TokenAges
  BY <1>19 DEF TokenAges, Aged, Token
<1>20. CASE Restart
  BY <1>20 DEF Restart, Fault, Ends, StopPersists, Loaded, Blank, Token
<1>21. CASE UNCHANGED vars
  BY <1>21 DEF vars
<1>. QED
  BY <1>1, <1>2, <1>3, <1>4, <1>5, <1>6, <1>7, <1>8, <1>9, <1>10, <1>11, <1>12, <1>13, <1>14, <1>15, <1>16, <1>17, <1>18, <1>19, <1>20, <1>21 DEF Next, Replies, RefreshLoop

\* of the tokens,
LEMMA TokenTypeStep == TypeOK /\ [Next]_vars => token' \in TokenType /\ persisted' \in TokenType
<1> SUFFICES ASSUME TypeOK, [Next]_vars PROVE token' \in TokenType /\ persisted' \in TokenType
  OBVIOUS
<1> USE AuthenticationAssumption DEF TypeOK, TokenType, Lives, TokenReplyKinds, loginVars, tokenVars, refreshVars
<1>1. CASE SessionStarts
  BY <1>1 DEF SessionStarts, Request, PassBegins
<1>2. CASE SocketLost
  BY <1>2 DEF SocketLost, Ends, Fault
<1>3. CASE LoginTimesOut
  BY <1>3 DEF LoginTimesOut, Ends
<1>4. CASE Reconnects
  BY <1>4 DEF Reconnects, Ends
<1>5. CASE KeyExchangeReply
  BY <1>5 DEF KeyExchangeReply, Answers, Continue, Request
<1>6. CASE GetKey2Reply
  BY <1>6 DEF GetKey2Reply, Answers, Continue, Handled, Request, Presents
<1>7. CASE GetTokenReply
  BY <1>7 DEF GetTokenReply, Answers, Handled, TokenSaved, Token
<1>8. CASE AuthReply
  BY <1>8 DEF AuthReply, Answers, Handled
<1>9. CASE GetKeyReply
  BY <1>9 DEF GetKeyReply, Answers, Handled, Fault
<1>10. CASE RefreshReply
  BY <1>10 DEF RefreshReply, Answers, Handled, TokenSaved, Token
<1>11. CASE Rejected
  BY <1>11 DEF Rejected, Answers, Fault, Ends
<1>12. CASE Unusable
  BY <1>12 DEF Unusable, Answers, Fault, Handled
<1>13. CASE TokenRefused
  BY <1>13 DEF TokenRefused, Answers, Fault, Handled, ResetToken, Blank, Token
<1>14. CASE DelayOver
  BY <1>14 DEF DelayOver
<1>15. CASE Schedules
  BY <1>15 DEF Schedules
<1>16. CASE RequestsKey
  BY <1>16 DEF RequestsKey, RefreshFails, Fault, Request
<1>17. CASE KeyArrives
  BY <1>17 DEF KeyArrives, RefreshFails, Presents
<1>18. CASE KeyTimesOut
  BY <1>18 DEF KeyTimesOut, RefreshFails, Fault
<1>19. CASE TokenAges
  BY <1>19 DEF TokenAges, Aged, Token
<1>20. CASE Restart
  BY <1>20 DEF Restart, Fault, Ends, StopPersists, Loaded, Blank, Token
<1>21. CASE UNCHANGED vars
  BY <1>21 DEF vars
<1>. QED
  BY <1>1, <1>2, <1>3, <1>4, <1>5, <1>6, <1>7, <1>8, <1>9, <1>10, <1>11, <1>12, <1>13, <1>14, <1>15, <1>16, <1>17, <1>18, <1>19, <1>20, <1>21 DEF Next, Replies, RefreshLoop

\* and of the rest.
LEMMA FlagTypeStep ==
  ASSUME TypeOK, TokenInv, [Next]_vars
  PROVE  /\ session' \in {"down", "open", "rejected"}
         /\ authenticated' \in BOOLEAN /\ updates' \in BOOLEAN /\ reconnect' \in BOOLEAN
         /\ key' \in KeyType /\ oldKey' \in KeyType /\ keyEvent' \in {"none", "armed", "set"}
         /\ refresh' \in {"off", "delay", "waiting", "sleeping", "keyWait", "spinning"}
         /\ failures' \in 0..MaxFailures
         /\ refused' \subseteq Tokens /\ faults' \in 0..Faults
<1> USE FaultEffect, FailureEffect DEF TypeOK, TokenInv, PresentsToken, KeyType, loginVars, tokenVars, refreshVars
<1>1. CASE SessionStarts
  BY <1>1 DEF SessionStarts, Request, PassBegins
<1>2. CASE SocketLost
  BY <1>2 DEF SocketLost, Ends
<1>3. CASE LoginTimesOut
  BY <1>3 DEF LoginTimesOut, Ends
<1>4. CASE Reconnects
  BY <1>4 DEF Reconnects, Ends
<1>5. CASE KeyExchangeReply
  BY <1>5 DEF KeyExchangeReply, Answers, Continue, Request
<1>6. CASE GetKey2Reply
  BY <1>6 DEF GetKey2Reply, Answers, Continue, Handled, Request, Presents
<1>7. CASE GetTokenReply
  BY <1>7 DEF GetTokenReply, Answers, Handled, TokenSaved, Token
<1>8. CASE AuthReply
  BY <1>8 DEF AuthReply, Answers, Handled
<1>9. CASE GetKeyReply
  BY <1>9 DEF GetKeyReply
<1>10. CASE RefreshReply
  BY <1>10 DEF RefreshReply, Answers, Handled, TokenSaved, Token
<1>11. CASE Rejected
  BY <1>11 DEF Rejected, Ends
<1>12. CASE Unusable
  BY <1>12 DEF Unusable
<1>13. CASE TokenRefused
  <2>1. Head(requests) \in Range(requests) /\ Head(requests).cmd \in {"auth", "refresh"}
    BY <1>13, QueueEffects DEF TokenRefused, Answers
  <2>2. refused' \subseteq Tokens
    BY <1>13, <2>1 DEF TokenRefused
  <2>. QED
    BY <1>13, <2>2 DEF TokenRefused, ResetToken
<1>14. CASE DelayOver
  BY <1>14 DEF DelayOver
<1>15. CASE Schedules
  BY <1>15 DEF Schedules
<1>16. CASE RequestsKey
  <2>1. CASE RefreshFails /\ Fault
    BY <1>16, <2>1 DEF RequestsKey
  <2>2. CASE refresh' = "keyWait"
    BY <1>16, <2>2 DEF RequestsKey, Fault, RefreshFails
  <2>. QED
    BY <1>16, <2>1, <2>2 DEF RequestsKey
<1>17. CASE KeyArrives
  <2>1. CASE RefreshFails
    BY <1>17, <2>1 DEF KeyArrives
  <2>2. CASE failures' = 0 /\ refresh' = "waiting" /\ UNCHANGED <<session, reconnect>>
    BY <1>17, <2>2, AuthenticationAssumption DEF KeyArrives
  <2>. QED
    BY <1>17, <2>1, <2>2 DEF KeyArrives
<1>18. CASE KeyTimesOut
  BY <1>18 DEF KeyTimesOut
<1>19. CASE TokenAges
  BY <1>19 DEF TokenAges, Aged, Token
<1>20. CASE Restart
  <2>1. failures' \in 0..MaxFailures /\ refused' \subseteq Tokens /\ key' \in KeyType /\ oldKey' \in KeyType
    BY <1>20, AuthenticationAssumption DEF Restart
  <2>. QED
    BY <1>20, <2>1 DEF Restart, Ends
<1>21. CASE UNCHANGED vars
  BY <1>21 DEF vars
<1>. QED
  BY <1>1, <1>2, <1>3, <1>4, <1>5, <1>6, <1>7, <1>8, <1>9, <1>10, <1>11, <1>12, <1>13, <1>14, <1>15, <1>16, <1>17, <1>18, <1>19, <1>20, <1>21 DEF Next, Replies, RefreshLoop

\* A queue is empty whenever the session is not open.
LEMMA QuietStep == IInv /\ [Next]_vars => QuietInv'
<1> SUFFICES ASSUME IInv, [Next]_vars PROVE QuietInv'
  OBVIOUS
<1> USE DEF IInv, TypeOK, QuietInv, loginVars, tokenVars, refreshVars
<1>1. CASE SessionStarts
  BY <1>1 DEF SessionStarts, Request, PassBegins
<1>2. CASE SocketLost
  BY <1>2 DEF SocketLost, Ends, Fault
<1>3. CASE LoginTimesOut
  BY <1>3 DEF LoginTimesOut, Ends
<1>4. CASE Reconnects
  BY <1>4 DEF Reconnects, Ends
<1>5. CASE KeyExchangeReply
  BY <1>5 DEF KeyExchangeReply, Answers, Continue, Request
<1>6. CASE GetKey2Reply
  BY <1>6 DEF GetKey2Reply, Answers, Continue, Handled, Request, Presents
<1>7. CASE GetTokenReply
  BY <1>7 DEF GetTokenReply, Answers, Handled, TokenSaved, Token
<1>8. CASE AuthReply
  BY <1>8 DEF AuthReply, Answers, Handled
<1>9. CASE GetKeyReply
  BY <1>9 DEF GetKeyReply, Answers, Handled, Fault
<1>10. CASE RefreshReply
  BY <1>10 DEF RefreshReply, Answers, Handled, TokenSaved, Token
<1>11. CASE Rejected
  BY <1>11 DEF Rejected, Answers, Fault, Ends
<1>12. CASE Unusable
  BY <1>12 DEF Unusable, Answers, Fault, Handled
<1>13. CASE TokenRefused
  BY <1>13 DEF TokenRefused, Answers, Fault, Handled, ResetToken, Blank, Token
<1>14. CASE DelayOver
  BY <1>14 DEF DelayOver
<1>15. CASE Schedules
  BY <1>15 DEF Schedules
<1>16. CASE RequestsKey
  BY <1>16 DEF RequestsKey, RefreshFails, Fault, Request
<1>17. CASE KeyArrives
  BY <1>17 DEF KeyArrives, RefreshFails, Presents
<1>18. CASE KeyTimesOut
  BY <1>18 DEF KeyTimesOut, RefreshFails, Fault
<1>19. CASE TokenAges
  BY <1>19 DEF TokenAges, Aged, Token
<1>20. CASE Restart
  BY <1>20 DEF Restart, Fault, Ends, StopPersists, Loaded, Blank, Token
<1>21. CASE UNCHANGED vars
  BY <1>21 DEF vars
<1>. QED
  BY <1>1, <1>2, <1>3, <1>4, <1>5, <1>6, <1>7, <1>8, <1>9, <1>10, <1>11, <1>12, <1>13, <1>14, <1>15, <1>16, <1>17, <1>18, <1>19, <1>20, <1>21 DEF Next, Replies, RefreshLoop

\* A login has one request at a time, and the refresh loop waits for it.
LEMMA LoginStep == IInv /\ [Next]_vars => LoginInv'
<1> SUFFICES ASSUME IInv, [Next]_vars PROVE LoginInv'
  OBVIOUS
<1> USE QueueEffects, RequestIsTyped, AuthenticationAssumption DEF IInv, TypeOK, QuietInv, LoginInv, LoggedInInv, LoginRequest, RefreshRequest, Commands, loginVars, tokenVars, refreshVars
<1>1. CASE SessionStarts
  BY <1>1 DEF SessionStarts, Request, PassBegins
<1>2. CASE SocketLost
  BY <1>2 DEF SocketLost, Ends, Fault
<1>3. CASE LoginTimesOut
  BY <1>3 DEF LoginTimesOut, Ends
<1>4. CASE Reconnects
  BY <1>4 DEF Reconnects, Ends
<1>5. CASE KeyExchangeReply
  BY <1>5 DEF KeyExchangeReply, Answers, Continue, Request
<1>6. CASE GetKey2Reply
  <2>1. Presents("auth") \in RequestType /\ Request("gettoken") \in RequestType
    BY RequestIsTyped DEF Commands
  <2>2. CASE Continue(Presents("auth")) /\ token.id # NoToken
    BY <1>6, <2>1, <2>2 DEF GetKey2Reply, Answers, Continue, Presents
  <2>3. CASE Continue(Request("gettoken"))
    BY <1>6, <2>1, <2>3 DEF GetKey2Reply, Answers, Continue, Request
  <2>4. CASE Handled
    BY <1>6, <2>4 DEF GetKey2Reply, Answers, Handled
  <2>. QED
    BY <1>6, <2>2, <2>3, <2>4 DEF GetKey2Reply
<1>7. CASE GetTokenReply
  BY <1>7 DEF GetTokenReply, Answers, Handled, TokenSaved, Token
<1>8. CASE AuthReply
  BY <1>8 DEF AuthReply, Answers, Handled
<1>9. CASE GetKeyReply
  BY <1>9 DEF GetKeyReply, Answers, Handled, Fault
<1>10. CASE RefreshReply
  BY <1>10 DEF RefreshReply, Answers, Handled, TokenSaved, Token
<1>11. CASE Rejected
  BY <1>11 DEF Rejected, Answers, Fault, Ends
<1>12. CASE Unusable
  BY <1>12 DEF Unusable, Answers, Fault, Handled
<1>13. CASE TokenRefused
  BY <1>13 DEF TokenRefused, Answers, Fault, Handled, ResetToken, Blank, Token
<1>14. CASE DelayOver
  BY <1>14 DEF DelayOver
<1>15. CASE Schedules
  BY <1>15 DEF Schedules
<1>16. CASE RequestsKey
  BY <1>16 DEF RequestsKey, RefreshFails, Fault, Request
<1>17. CASE KeyArrives
  BY <1>17 DEF KeyArrives, RefreshFails, Presents
<1>18. CASE KeyTimesOut
  BY <1>18 DEF KeyTimesOut, RefreshFails, Fault
<1>19. CASE TokenAges
  BY <1>19 DEF TokenAges, Aged, Token
<1>20. CASE Restart
  BY <1>20 DEF Restart, Fault, Ends, StopPersists, Loaded, Blank, Token
<1>21. CASE UNCHANGED vars
  BY <1>21 DEF vars
<1>. QED
  BY <1>1, <1>2, <1>3, <1>4, <1>5, <1>6, <1>7, <1>8, <1>9, <1>10, <1>11, <1>12, <1>13, <1>14, <1>15, <1>16, <1>17, <1>18, <1>19, <1>20, <1>21 DEF Next, Replies, RefreshLoop

\* After the login only the refresh loop asks.
LEMMA LoggedInStep == IInv /\ [Next]_vars => LoggedInInv'
<1> SUFFICES ASSUME IInv, [Next]_vars PROVE LoggedInInv'
  OBVIOUS
<1> USE QueueEffects, RequestIsTyped DEF IInv, TypeOK, QuietInv, LoginInv, LoggedInInv, LoginRequest, RefreshRequest, Commands, loginVars, tokenVars, refreshVars
<1>1. CASE SessionStarts
  BY <1>1 DEF SessionStarts, Request, PassBegins
<1>2. CASE SocketLost
  BY <1>2 DEF SocketLost, Ends, Fault
<1>3. CASE LoginTimesOut
  BY <1>3 DEF LoginTimesOut, Ends
<1>4. CASE Reconnects
  BY <1>4 DEF Reconnects, Ends
<1>5. CASE KeyExchangeReply
  BY <1>5 DEF KeyExchangeReply, Answers, Continue, Request
<1>6. CASE GetKey2Reply
  BY <1>6 DEF GetKey2Reply, Answers, Continue, Handled, Request, Presents
<1>7. CASE GetTokenReply
  BY <1>7 DEF GetTokenReply, Answers, Handled, TokenSaved, Token
<1>8. CASE AuthReply
  BY <1>8 DEF AuthReply, Answers, Handled
<1>9. CASE GetKeyReply
  BY <1>9 DEF GetKeyReply, Answers, Handled, Fault
<1>10. CASE RefreshReply
  BY <1>10 DEF RefreshReply, Answers, Handled, TokenSaved, Token
<1>11. CASE Rejected
  BY <1>11 DEF Rejected, Answers, Fault, Ends
<1>12. CASE Unusable
  BY <1>12 DEF Unusable, Answers, Fault, Handled
<1>13. CASE TokenRefused
  BY <1>13 DEF TokenRefused, Answers, Fault, Handled, ResetToken, Blank, Token
<1>14. CASE DelayOver
  BY <1>14 DEF DelayOver
<1>15. CASE Schedules
  BY <1>15 DEF Schedules
<1>16. CASE RequestsKey
  <2>1. Request("getkey") \in RequestType
    BY RequestIsTyped DEF Commands
  <2>2. CASE requests' = Append(requests, Request("getkey")) /\ UNCHANGED session
    <3>1. PICK q \in RequestType : q.cmd = "getkey" /\ q.token = NoToken /\ requests' = Append(requests, q)
      BY <2>1, <2>2 DEF Request
    <3>2. Range(requests') = Range(requests) \cup {q} /\ Last(requests') = q
      BY <3>1
    <3>. QED
      BY <1>16, <2>2, <3>1, <3>2 DEF RequestsKey
  <2>3. CASE RefreshFails
    BY <1>16, <2>3, FailureEffect DEF RequestsKey
  <2>. QED
    BY <1>16, <2>2, <2>3 DEF RequestsKey
<1>17. CASE KeyArrives
  <2>1. Presents("refresh") \in RequestType
    BY RequestIsTyped DEF Commands
  <2>2. CASE requests' = Append(requests, Presents("refresh")) /\ token.id # NoToken /\ UNCHANGED session
    <3>1. PICK q \in RequestType : q.cmd = "refresh" /\ q.token = token.id /\ requests' = Append(requests, q)
      BY <2>1, <2>2 DEF Presents
    <3>2. Range(requests') = Range(requests) \cup {q} /\ Last(requests') = q
      BY <3>1
    <3>. QED
      BY <1>17, <2>2, <3>1, <3>2 DEF KeyArrives
  <2>3. CASE RefreshFails
    BY <1>17, <2>3, FailureEffect DEF KeyArrives
  <2>. QED
    BY <1>17, <2>2, <2>3 DEF KeyArrives
<1>18. CASE KeyTimesOut
  BY <1>18 DEF KeyTimesOut, RefreshFails, Fault
<1>19. CASE TokenAges
  BY <1>19 DEF TokenAges, Aged, Token
<1>20. CASE Restart
  BY <1>20 DEF Restart, Fault, Ends, StopPersists, Loaded, Blank, Token
<1>21. CASE UNCHANGED vars
  BY <1>21 DEF vars
<1>. QED
  BY <1>1, <1>2, <1>3, <1>4, <1>5, <1>6, <1>7, <1>8, <1>9, <1>10, <1>11, <1>12, <1>13, <1>14, <1>15, <1>16, <1>17, <1>18, <1>19, <1>20, <1>21 DEF Next, Replies, RefreshLoop

\* No step presents an empty token, or holds a refused one.
LEMMA TokenStep == IInv /\ [Next]_vars => TokenInv'
<1> SUFFICES ASSUME IInv, [Next]_vars PROVE TokenInv'
  OBVIOUS
<1> USE QueueEffects, RequestIsTyped, TokenTypeStep, AuthenticationAssumption DEF IInv, TypeOK, QuietInv, LoginInv, LoggedInInv, TokenInv, LoginRequest, RefreshRequest, PresentsToken, TokenType, Commands, loginVars, tokenVars, refreshVars
<1>1. CASE SessionStarts
  BY <1>1 DEF SessionStarts, Request, PassBegins
<1>2. CASE SocketLost
  BY <1>2 DEF SocketLost, Ends, Fault
<1>3. CASE LoginTimesOut
  BY <1>3 DEF LoginTimesOut, Ends
<1>4. CASE Reconnects
  BY <1>4 DEF Reconnects, Ends
<1>5. CASE KeyExchangeReply
  BY <1>5 DEF KeyExchangeReply, Answers, Continue, Request
<1>6. CASE GetKey2Reply
  <2>1. Presents("auth") \in RequestType /\ Request("gettoken") \in RequestType
    BY RequestIsTyped DEF Commands
  <2>2. CASE Continue(Presents("auth")) /\ token.id # NoToken
    BY <1>6, <2>1, <2>2 DEF GetKey2Reply, Answers, Continue, Presents
  <2>3. CASE Continue(Request("gettoken"))
    BY <1>6, <2>1, <2>3 DEF GetKey2Reply, Answers, Continue, Request
  <2>4. CASE Handled
    BY <1>6, <2>4 DEF GetKey2Reply, Answers, Handled
  <2>. QED
    BY <1>6, <2>2, <2>3, <2>4 DEF GetKey2Reply
<1>7. CASE GetTokenReply
  BY <1>7 DEF GetTokenReply, Answers, Handled, TokenSaved, Token
<1>8. CASE AuthReply
  BY <1>8 DEF AuthReply, Answers, Handled
<1>9. CASE GetKeyReply
  BY <1>9 DEF GetKeyReply, Answers, Handled, Fault
<1>10. CASE RefreshReply
  BY <1>10 DEF RefreshReply, Answers, Handled, TokenSaved, Token
<1>11. CASE Rejected
  BY <1>11 DEF Rejected, Answers, Fault, Ends
<1>12. CASE Unusable
  BY <1>12 DEF Unusable, Answers, Fault, Handled
<1>13. CASE TokenRefused
  BY <1>13 DEF TokenRefused, Answers, Fault, Handled, ResetToken, Blank, Token
<1>14. CASE DelayOver
  BY <1>14 DEF DelayOver
<1>15. CASE Schedules
  BY <1>15 DEF Schedules
<1>16. CASE RequestsKey
  <2>1. Request("getkey") \in RequestType
    BY RequestIsTyped DEF Commands
  <2>2. CASE requests' = Append(requests, Request("getkey")) /\ UNCHANGED session
    <3>1. PICK q \in RequestType : q.cmd = "getkey" /\ q.token = NoToken /\ requests' = Append(requests, q)
      BY <2>1, <2>2 DEF Request
    <3>2. Range(requests') = Range(requests) \cup {q} /\ Last(requests') = q
      BY <3>1
    <3>. QED
      BY <1>16, <2>2, <3>1, <3>2 DEF RequestsKey
  <2>3. CASE RefreshFails
    BY <1>16, <2>3, FailureEffect DEF RequestsKey
  <2>. QED
    BY <1>16, <2>2, <2>3 DEF RequestsKey
<1>17. CASE KeyArrives
  <2>1. Presents("refresh") \in RequestType
    BY RequestIsTyped DEF Commands
  <2>2. CASE requests' = Append(requests, Presents("refresh")) /\ token.id # NoToken /\ UNCHANGED session
    <3>1. PICK q \in RequestType : q.cmd = "refresh" /\ q.token = token.id /\ requests' = Append(requests, q)
      BY <2>1, <2>2 DEF Presents
    <3>2. Range(requests') = Range(requests) \cup {q} /\ Last(requests') = q
      BY <3>1
    <3>. QED
      BY <1>17, <2>2, <3>1, <3>2 DEF KeyArrives
  <2>3. CASE RefreshFails
    BY <1>17, <2>3, FailureEffect DEF KeyArrives
  <2>. QED
    BY <1>17, <2>2, <2>3 DEF KeyArrives
<1>18. CASE KeyTimesOut
  BY <1>18 DEF KeyTimesOut, RefreshFails, Fault
<1>19. CASE TokenAges
  BY <1>19 DEF TokenAges, Aged, Token
<1>20. CASE Restart
  BY <1>20 DEF Restart, Fault, Ends, StopPersists, Loaded, Blank, Token
<1>21. CASE UNCHANGED vars
  BY <1>21 DEF vars
<1>. QED
  BY <1>1, <1>2, <1>3, <1>4, <1>5, <1>6, <1>7, <1>8, <1>9, <1>10, <1>11, <1>12, <1>13, <1>14, <1>15, <1>16, <1>17, <1>18, <1>19, <1>20, <1>21 DEF Next, Replies, RefreshLoop

\* The entry follows the token.
LEMMA EntryStep == IInv /\ [Next]_vars => EntryHoldsTokenInUse'
<1> SUFFICES ASSUME IInv, [Next]_vars PROVE EntryHoldsTokenInUse'
  OBVIOUS
<1> USE AuthenticationAssumption DEF IInv, TypeOK, TokenType, EntryHoldsTokenInUse, loginVars, tokenVars, refreshVars
<1>1. CASE SessionStarts
  BY <1>1 DEF SessionStarts, Request, PassBegins
<1>2. CASE SocketLost
  BY <1>2 DEF SocketLost, Ends, Fault
<1>3. CASE LoginTimesOut
  BY <1>3 DEF LoginTimesOut, Ends
<1>4. CASE Reconnects
  BY <1>4 DEF Reconnects, Ends
<1>5. CASE KeyExchangeReply
  BY <1>5 DEF KeyExchangeReply, Answers, Continue, Request
<1>6. CASE GetKey2Reply
  BY <1>6 DEF GetKey2Reply, Answers, Continue, Handled, Request, Presents
<1>7. CASE GetTokenReply
  BY <1>7 DEF GetTokenReply, Answers, Handled, TokenSaved, Token
<1>8. CASE AuthReply
  BY <1>8 DEF AuthReply, Answers, Handled
<1>9. CASE GetKeyReply
  BY <1>9 DEF GetKeyReply, Answers, Handled, Fault
<1>10. CASE RefreshReply
  BY <1>10 DEF RefreshReply, Answers, Handled, TokenSaved, Token
<1>11. CASE Rejected
  BY <1>11 DEF Rejected, Answers, Fault, Ends
<1>12. CASE Unusable
  BY <1>12 DEF Unusable, Answers, Fault, Handled
<1>13. CASE TokenRefused
  BY <1>13 DEF TokenRefused, Answers, Fault, Handled, ResetToken, Blank, Token
<1>14. CASE DelayOver
  BY <1>14 DEF DelayOver
<1>15. CASE Schedules
  BY <1>15 DEF Schedules
<1>16. CASE RequestsKey
  BY <1>16 DEF RequestsKey, RefreshFails, Fault, Request
<1>17. CASE KeyArrives
  BY <1>17 DEF KeyArrives, RefreshFails, Presents
<1>18. CASE KeyTimesOut
  BY <1>18 DEF KeyTimesOut, RefreshFails, Fault
<1>19. CASE TokenAges
  BY <1>19 DEF TokenAges, Aged, Token
<1>20. CASE Restart
  BY <1>20 DEF Restart, Fault, Ends, StopPersists, Loaded, Blank, Token
<1>21. CASE UNCHANGED vars
  BY <1>21 DEF vars
<1>. QED
  BY <1>1, <1>2, <1>3, <1>4, <1>5, <1>6, <1>7, <1>8, <1>9, <1>10, <1>11, <1>12, <1>13, <1>14, <1>15, <1>16, <1>17, <1>18, <1>19, <1>20, <1>21 DEF Next, Replies, RefreshLoop

\* Together: the invariant is inductive.
LEMMA Invariance == Spec => []IInv
<1>1. IInv /\ [Next]_vars => IInv'
  <2>. SUFFICES ASSUME IInv, [Next]_vars PROVE IInv'
    OBVIOUS
  <2>1. TypeOK'
    BY QueueTypeStep, TokenTypeStep, FlagTypeStep DEF IInv, TypeOK, TokenType, KeyType, RequestType
  <2>. QED
    BY <2>1, QuietStep, LoginStep, LoggedInStep, TokenStep, EntryStep DEF IInv
<1>. QED
  BY <1>1, InitInvariant, PTL DEF Spec

-----------------------------------------------------------------------------
(* The theorems.                                                           *)

\* Every variable keeps its type, and the failures never pass the threshold.
THEOREM TypeCorrect == Spec => []TypeOK
<1>1. IInv => TypeOK
  BY DEF IInv
<1>. QED
  BY <1>1, Invariance, PTL

\* A login that the supervisor can see stands for a token that is in use and
\* for a session that receives updates.
THEOREM LoginIsUsable == Spec => []AuthenticatedSessionIsUsable
<1>1. IInv => AuthenticatedSessionIsUsable
  BY DEF IInv, TypeOK, TokenType, LoginInv, TokenInv, AuthenticatedSessionIsUsable
<1>. QED
  BY <1>1, Invariance, PTL

\* The config entry never lags behind the token in use.
THEOREM EntryFollowsToken == Spec => []EntryHoldsTokenInUse
<1>1. IInv => EntryHoldsTokenInUse
  BY DEF IInv
<1>. QED
  BY <1>1, Invariance, PTL

\* A refused token is in no later request.
THEOREM RefusedStaysRefused == Spec => RefusedTokenNotPresented
<1>1. IInv /\ [Next]_vars =>
        [requests' # requests /\ Len(requests') >= Len(requests)
           => Last(requests').token \notin refused]_vars
  <2>. SUFFICES ASSUME IInv, [Next]_vars, requests' # requests, Len(requests') >= Len(requests)
                PROVE  Last(requests').token \notin refused
    OBVIOUS
  <2> USE QueueEffects, RequestIsTyped, AuthenticationAssumption DEF IInv, TypeOK, QuietInv, LoginInv, TokenInv, Commands, loginVars, tokenVars, refreshVars
  <2>1. CASE SessionStarts
    BY <2>1 DEF SessionStarts, Request, PassBegins
  <2>2. CASE SocketLost
    BY <2>2 DEF SocketLost, Ends, Fault
  <2>3. CASE LoginTimesOut
    BY <2>3 DEF LoginTimesOut, Ends
  <2>4. CASE Reconnects
    BY <2>4 DEF Reconnects, Ends
  <2>5. CASE KeyExchangeReply
    BY <2>5 DEF KeyExchangeReply, Answers, Continue, Request
  <2>6. CASE GetKey2Reply
    <3>1. Presents("auth") \in RequestType /\ Request("gettoken") \in RequestType
      BY RequestIsTyped DEF Commands
    <3>2. CASE Continue(Presents("auth")) /\ token.id # NoToken
      BY <2>6, <3>1, <3>2 DEF GetKey2Reply, Answers, Continue, Presents
    <3>3. CASE Continue(Request("gettoken"))
      BY <2>6, <3>1, <3>3 DEF GetKey2Reply, Answers, Continue, Request
    <3>4. CASE Handled
      BY <2>6, <3>4 DEF GetKey2Reply, Answers, Handled
    <3>. QED
      BY <2>6, <3>2, <3>3, <3>4 DEF GetKey2Reply
  <2>7. CASE GetTokenReply
    BY <2>7 DEF GetTokenReply, Answers, Handled, TokenSaved, Token
  <2>8. CASE AuthReply
    BY <2>8 DEF AuthReply, Answers, Handled
  <2>9. CASE GetKeyReply
    BY <2>9 DEF GetKeyReply, Answers, Handled, Fault
  <2>10. CASE RefreshReply
    BY <2>10 DEF RefreshReply, Answers, Handled, TokenSaved, Token
  <2>11. CASE Rejected
    BY <2>11 DEF Rejected, Answers, Fault, Ends
  <2>12. CASE Unusable
    BY <2>12 DEF Unusable, Answers, Fault, Handled
  <2>13. CASE TokenRefused
    BY <2>13 DEF TokenRefused, Answers, Fault, Handled, ResetToken, Blank, Token
  <2>14. CASE DelayOver
    BY <2>14 DEF DelayOver
  <2>15. CASE Schedules
    BY <2>15 DEF Schedules
  <2>16. CASE RequestsKey
    <3>1. Request("getkey") \in RequestType
      BY RequestIsTyped DEF Commands
    <3>2. CASE requests' = Append(requests, Request("getkey")) /\ UNCHANGED session
      <4>1. PICK q \in RequestType : q.cmd = "getkey" /\ q.token = NoToken /\ requests' = Append(requests, q)
        BY <3>1, <3>2 DEF Request
      <4>2. Range(requests') = Range(requests) \cup {q} /\ Last(requests') = q
        BY <4>1
      <4>. QED
        BY <2>16, <3>2, <4>1, <4>2 DEF RequestsKey
    <3>3. CASE RefreshFails
      <4>1. requests' = requests \/ requests' = <<>>
        BY <3>3, FailureEffect
      <4>2. requests' = <<>> => Len(requests') = 0 /\ requests # <<>> /\ Len(requests) >= 1
        OBVIOUS
      <4>. QED
        BY <4>1, <4>2
    <3>. QED
      BY <2>16, <3>2, <3>3 DEF RequestsKey
  <2>17. CASE KeyArrives
    <3>1. Presents("refresh") \in RequestType
      BY RequestIsTyped DEF Commands
    <3>2. CASE requests' = Append(requests, Presents("refresh")) /\ token.id # NoToken /\ UNCHANGED session
      <4>1. PICK q \in RequestType : q.cmd = "refresh" /\ q.token = token.id /\ requests' = Append(requests, q)
        BY <3>1, <3>2 DEF Presents
      <4>2. Range(requests') = Range(requests) \cup {q} /\ Last(requests') = q
        BY <4>1
      <4>. QED
        BY <2>17, <3>2, <4>1, <4>2 DEF KeyArrives
    <3>3. CASE RefreshFails
      <4>1. requests' = requests \/ requests' = <<>>
        BY <3>3, FailureEffect
      <4>2. requests' = <<>> => Len(requests') = 0 /\ requests # <<>> /\ Len(requests) >= 1
        OBVIOUS
      <4>. QED
        BY <4>1, <4>2
    <3>. QED
      BY <2>17, <3>2, <3>3 DEF KeyArrives
  <2>18. CASE KeyTimesOut
    BY <2>18 DEF KeyTimesOut, RefreshFails, Fault
  <2>19. CASE TokenAges
    BY <2>19 DEF TokenAges, Aged, Token
  <2>20. CASE Restart
    BY <2>20 DEF Restart, Fault, Ends, StopPersists, Loaded, Blank, Token
  <2>21. CASE UNCHANGED vars
    BY <2>21 DEF vars
  <2>. QED
    BY <2>1, <2>2, <2>3, <2>4, <2>5, <2>6, <2>7, <2>8, <2>9, <2>10, <2>11, <2>12, <2>13, <2>14, <2>15, <2>16, <2>17, <2>18, <2>19, <2>20, <2>21 DEF Next, Replies, RefreshLoop
<1>. QED
  BY <1>1, Invariance, PTL DEF Spec, RefusedTokenNotPresented

=============================================================================
