------------------------ MODULE CommandChannelProofs ------------------------
(***************************************************************************)
(* Proofs about CommandChannel, for any number of calls and any capacity   *)
(* of the queue.  No invariant about stale, cleared or repeated commands   *)
(* is inductive.  IInv orders every place a command passes through: calls  *)
(* not made yet, then _secured_queue, the put that waits, _message_queue,  *)
(* the message being sent, and the wire.  A command never meets a later    *)
(* one ahead of it, so what has left a place cannot be met there again.    *)
(***************************************************************************)
EXTENDS CommandChannel, QueueFacts, WellFoundedInduction

\* The writer holds a message exactly while it sends, and it runs, like the
\* listener, only in a session.
WriterInv ==
  /\ worker = "sending" <=> busy # NoMessage
  /\ session \in {"down", "dialling", "ended", "closed"} => worker = "stopped"
  /\ ~Listening => held = None

\* No number is met before its call was made.
CallOf(kind) == IF kind = "plain" THEN "plain" ELSE "secured"
IssuedInv ==
  /\ \A m \in (Range(mq) \cup {busy} \cup dropped) \ {NoMessage} :
       m.n <= issued[CallOf(m.kind)]
  /\ \A n \in (Range(secq) \cup {held} \cup cleared) \ {None} : n <= issued["secured"]
  /\ \A k \in Kinds : \A n \in Range(wire[k]) : n <= issued[k]

\* The places are in order, and so is each of them.
QueueInv ==
  \A i, j \in DOMAIN mq : i < j /\ mq[i].kind = mq[j].kind => mq[i].n < mq[j].n
BusyInv ==
  \A m \in Range(mq) : m.kind = busy.kind => busy.n < m.n
WireInv ==
  \A k \in Kinds : \A m \in Range(mq) \cup {busy} :
    m.kind = k => \A n \in Range(wire[k]) : n < m.n
SecuredInv ==
  /\ \A i, j \in DOMAIN secq : i < j => secq[i] < secq[j]
  /\ held # None => \A n \in Range(secq) : held < n
WaitingInv ==
  \A s \in Range(secq) \cup ({held} \ {None}) :
    /\ \A m \in Range(mq) \cup {busy} \cup dropped : m.kind = "secured" => m.n < s
    /\ \A n \in Range(wire["secured"]) : n < s

\* What was dropped is not queued again; what expired is in no later place.
DroppedInv ==
  \A m \in Range(mq) \cup {busy} : m \notin dropped
ExpiredInv ==
  \A s \in expired :
    /\ s # held /\ s \notin Range(wire["secured"])
    /\ \A m \in Range(mq) \cup {busy} : m.kind = "secured" => m.n # s

\* Within a session, what a reply released was released in that session.
InSession == Listening \/ Cancelled
HashedInv ==
  InSession =>
    /\ held # None => held \in hashed
    /\ \A m \in Range(mq) \cup {busy} : m.kind = "secured" => m.n \in hashed

IInv ==
  /\ TypeOK /\ TaskAccounting /\ WriterInv /\ IssuedInv
  /\ QueueInv /\ BusyInv /\ WireInv /\ SecuredInv /\ WaitingInv
  /\ DroppedInv /\ ExpiredInv /\ HashedInv
  /\ InOrderAtMostOnce /\ StaleNeverFires /\ ClearedNeverReleased

\* The commands, wherever they are: what most steps of a session leave alone.
places == <<mq, busy, secq, held, wire, dropped, cleared, issued>>

-----------------------------------------------------------------------------
(* What the operations do to a sequence.                                   *)

\* The oldest of some positions is one of them.
LEMMA FirstIsMember ==
  ASSUME NEW S, S \subseteq Nat, S # {}
  PROVE  First(S) \in S /\ \A j \in S : First(S) <= j
<1>1. PICK i \in S : \A j \in S : <<j, i>> \notin OpToRel(<, Nat)
  BY NatLessThanWellFounded, WFMin
<1>2. ASSUME NEW j \in S PROVE i <= j
  <2>1. <<j, i>> \in Nat \X Nat /\ i \in Nat /\ j \in Nat
    OBVIOUS
  <2>2. ~ (<<j, i>>[1] < <<j, i>>[2])
    BY <1>1, <2>1 DEF OpToRel
  <2>. QED
    BY <2>1, <2>2
<1>. QED
  BY <1>2 DEF First

\* _pop_secured_command() takes a command out and leaves younger ones.
LEMMA PopEffect ==
  ASSUME SecuredTypes
  PROVE  /\ AfterPop \in Seq(1..Secured) /\ Range(AfterPop) \subseteq Range(secq)
         /\ Fresh = {} => Popped = None /\ AfterPop = <<>>
         /\ Fresh # {} => Popped \in Range(secq) /\ Popped \in 1..Secured
         /\ \E d \in Nat : \A i \in DOMAIN AfterPop :
              i \in Nat /\ i + d \in DOMAIN secq /\ AfterPop[i] = secq[i + d]
         /\ Fresh # {} => \E f \in DOMAIN secq :
              /\ Popped = secq[f] /\ Popped \notin expired
              /\ \A n \in Range(AfterPop) : \E i \in DOMAIN secq : f < i /\ n = secq[i]
<1>1. DOMAIN secq = 1..Len(secq) /\ Len(secq) \in Nat /\ \A i \in DOMAIN secq : secq[i] \in 1..Secured
  BY LenProperties, ElementOfSeq DEF SecuredTypes
<1>2. CASE Fresh = {}
  <2>1. Popped = None /\ AfterPop = <<>>
    BY <1>2 DEF Popped, AfterPop
  <2>2. <<>> \in Seq(1..Secured) /\ DOMAIN <<>> = {} /\ Range(<<>>) = {}
    BY EmptySeq, LenProperties DEF Range
  <2>. QED
    BY <1>2, <2>1, <2>2
<1>3. CASE Fresh # {}
  <2> DEFINE f == First(Fresh)
  <2>1. f \in DOMAIN secq /\ secq[f] \notin expired /\ f \in Nat
    <3>1. Fresh \subseteq Nat
      BY <1>1 DEF Fresh
    <3>. QED
      BY <1>1, <1>3, <3>1, FirstIsMember DEF Fresh
  <2>2. Popped = secq[f] /\ AfterPop = SubSeq(secq, f + 1, Len(secq))
    BY <1>3 DEF Popped, AfterPop
  <2>3. /\ AfterPop \in Seq(1..Secured)
        /\ Len(AfterPop) = IF f + 1 <= Len(secq) THEN Len(secq) - (f + 1) + 1 ELSE 0
        /\ \A i \in 1..(Len(secq) - (f + 1) + 1) : AfterPop[i] = secq[(f + 1) + i - 1]
    <3>. HIDE DEF f
    <3>1. f + 1 \in Int /\ Len(secq) \in Int /\ \A i \in (f + 1)..Len(secq) : secq[i] \in 1..Secured
      BY <1>1, <2>1
    <3>. QED
      BY <2>2, <3>1, SubSeqProperties
  <2>4. DOMAIN AfterPop = 1..(Len(secq) - f)
    BY <1>1, <2>1, <2>3, LenProperties
  <2>5. \A i \in DOMAIN AfterPop : i \in Nat /\ i + f \in DOMAIN secq /\ f < i + f
                                   /\ AfterPop[i] = secq[i + f]
    <3>. HIDE DEF f
    <3>1. SUFFICES ASSUME NEW i \in 1..(Len(secq) - f)
                   PROVE i \in Nat /\ i + f \in 1..Len(secq) /\ f < i + f /\ AfterPop[i] = secq[i + f]
      BY <1>1, <2>4
    <3>2. i \in 1..(Len(secq) - (f + 1) + 1) /\ (f + 1) + i - 1 = i + f
      BY <1>1, <2>1
    <3>3. AfterPop[i] = secq[i + f]
      BY <2>3, <3>2
    <3>. QED
      BY <1>1, <2>1, <3>3
  <2>. HIDE DEF f
  <2>6. Range(AfterPop) \subseteq Range(secq) /\ Popped \in Range(secq) /\ Popped \in 1..Secured
    BY <1>1, <2>1, <2>2, <2>5 DEF Range
  <2>7. \A n \in Range(AfterPop) : \E i \in DOMAIN secq : f < i /\ n = secq[i]
    BY <2>5 DEF Range
  <2>. QED
    BY <1>3, <2>1, <2>2, <2>3, <2>5, <2>6, <2>7
<1>. QED
  BY <1>2, <1>3

-----------------------------------------------------------------------------
(* Every step preserves the invariant.                                     *)

\* The steps that move no command.
Quiet ==
  \/ Expire \/ Dial \/ DialFails \/ Authenticated \/ SocketLost \/ SessionUnwound
  \/ UNCHANGED vars

\* They leave every place as it is.
LEMMA QuietSteps == Quiet => UNCHANGED places
BY DEF Quiet, places, Expire, Dial, DialFails, Authenticated, SocketLost, SessionUnwound,
   vars,
   sessionVars, queueVars, workerVars, saltVars, historyVars

\* A put adds at most one message, behind the others, and counts it.
LEMMA PutEffect ==
  ASSUME QueueTypes, NEW m \in Messages, PutNowait(m)
  PROVE  /\ mq' \in Seq(Messages) /\ Len(mq') <= Capacity /\ unfinished' \in Nat
         /\ unfinished' - Len(mq') = unfinished - Len(mq) /\ Len(mq') \in Nat
         /\ Range(mq) \subseteq Range(mq') /\ Range(mq') \subseteq Range(mq) \cup {m}
         /\ \A i, j \in DOMAIN mq' : i < j =>
              /\ i \in DOMAIN mq /\ mq'[i] = mq[i]
              /\ mq'[j] = m \/ (j \in DOMAIN mq /\ mq'[j] = mq[j])
<1>1. Len(mq) \in Nat /\ DOMAIN mq = 1..Len(mq)
  BY LenProperties DEF QueueTypes
<1>2. CASE Len(mq) < Capacity
  <2>1. mq' = Append(mq, m) /\ unfinished' = unfinished + 1
    BY <1>2 DEF PutNowait
  <2>2. /\ mq' \in Seq(Messages) /\ Len(mq') = Len(mq) + 1 /\ Range(mq') = Range(mq) \cup {m}
        /\ DOMAIN mq' = 1..(Len(mq) + 1) /\ mq'[Len(mq) + 1] = m
        /\ \A i \in DOMAIN mq : mq'[i] = mq[i]
    BY <2>1, AppendEffect DEF QueueTypes
  <2>. QED
    BY <1>1, <1>2, <2>1, <2>2, ChannelAssumption DEF QueueTypes
<1>3. CASE ~(Len(mq) < Capacity)
  BY <1>1, <1>3 DEF PutNowait, QueueTypes, queueVars
<1>. QED
  BY <1>2, <1>3

\* Type correctness, one kind of variable at a time: the session,
LEMMA SessionTypesStep == TypeOK /\ [Next]_vars => SessionTypes'
<1>. SUFFICES ASSUME TypeOK, [Next]_vars PROVE SessionTypes'
  OBVIOUS
<1>1. CASE UNCHANGED vars
  BY <1>1 DEF TypeOK, SessionTypes, Listening, vars, sessionVars, queueVars,
     workerVars, saltVars, historyVars
<1>2. CASE SendPlain
  BY <1>2 DEF TypeOK, SessionTypes, Listening, SendPlain, sessionVars, queueVars,
     workerVars, saltVars, historyVars
<1>3. CASE SendSecured
  BY <1>3 DEF TypeOK, SessionTypes, Listening, SendSecured, sessionVars, queueVars,
     workerVars, saltVars, historyVars
<1>4. CASE TakeNext
  BY <1>4 DEF TypeOK, SessionTypes, Listening, TakeNext, sessionVars, queueVars,
     workerVars, saltVars, historyVars
<1>5. CASE SendCompletes
  BY <1>5 DEF TypeOK, SessionTypes, Listening, SendCompletes, AfterSend, sessionVars,
     queueVars, workerVars, saltVars, historyVars
<1>6. CASE SaltReply
  BY <1>6 DEF TypeOK, SessionTypes, Listening, SaltReply, sessionVars, queueVars,
     workerVars, saltVars, historyVars
<1>7. CASE SaltRejected
  BY <1>7 DEF TypeOK, SessionTypes, Listening, SaltRejected, sessionVars, queueVars,
     workerVars, saltVars, historyVars
<1>8. CASE PutResumes
  BY <1>8 DEF TypeOK, SessionTypes, Listening, PutResumes, sessionVars, queueVars,
     workerVars, saltVars, historyVars
<1>9. CASE SessionStarts
  BY <1>9 DEF TypeOK, SessionTypes, Listening, SessionStarts, StaleDropped,
     sessionVars, queueVars, workerVars, saltVars, historyVars
<1>10. CASE SessionFails
  BY <1>10 DEF TypeOK, SessionTypes, Listening, SessionFails, CancelWorkers,
     sessionVars, queueVars, workerVars, saltVars, historyVars
<1>11. CASE CloseCancels
  BY <1>11 DEF TypeOK, SessionTypes, Listening, CloseCancels, CancelWorkers,
     sessionVars, queueVars, workerVars, saltVars, historyVars
<1>12. CASE RecoveryClose
  BY <1>12 DEF TypeOK, SessionTypes, Listening, RecoveryClose, ClearsSecured,
     sessionVars, queueVars, workerVars, saltVars, historyVars
<1>13. CASE Close
  BY <1>13 DEF TypeOK, SessionTypes, Listening, Close, ClearsSecured, sessionVars,
     queueVars, workerVars, saltVars, historyVars
<1>14. CASE Expire
  BY <1>14 DEF TypeOK, SessionTypes, Listening, Expire, sessionVars, queueVars,
     workerVars, saltVars, historyVars
<1>15. CASE Dial
  BY <1>15 DEF TypeOK, SessionTypes, Listening, Dial, sessionVars, queueVars,
     workerVars, saltVars, historyVars
<1>16. CASE DialFails
  BY <1>16 DEF TypeOK, SessionTypes, Listening, DialFails, sessionVars, queueVars,
     workerVars, saltVars, historyVars
<1>17. CASE Authenticated
  BY <1>17 DEF TypeOK, SessionTypes, Listening, Authenticated, sessionVars, queueVars,
     workerVars, saltVars, historyVars
<1>18. CASE SocketLost
  BY <1>18 DEF TypeOK, SessionTypes, Listening, SocketLost, sessionVars, queueVars,
     workerVars, saltVars, historyVars
<1>19. CASE SessionUnwound
  BY <1>19 DEF TypeOK, SessionTypes, Listening, SessionUnwound, sessionVars, queueVars,
     workerVars, saltVars, historyVars
<1>. QED
  BY <1>1, <1>2, <1>3, <1>4, <1>5, <1>6, <1>7, <1>8, <1>9, <1>10, <1>11, <1>12, <1>13,
     <1>14, <1>15, <1>16, <1>17, <1>18, <1>19 DEF Next

\* the queue and its writer,
LEMMA QueueTypesStep == TypeOK /\ TaskAccounting /\ [Next]_vars => QueueTypes'
<1>. SUFFICES ASSUME TypeOK, TaskAccounting, [Next]_vars PROVE QueueTypes'
  OBVIOUS
<1>1. CASE UNCHANGED vars
  BY <1>1 DEF TypeOK, QueueTypes, vars, sessionVars, queueVars, workerVars, saltVars,
     historyVars
<1>2. CASE SendPlain
  <2>1. Message("plain", issued'["plain"]) \in Messages /\ PutNowait(Message("plain", issued'["plain"]))
    BY <1>2 DEF SendPlain, TypeOK, HistoryTypes, Messages, Message, Kinds
  <2>. QED
    BY <1>2, <2>1, PutEffect DEF TypeOK, QueueTypes, SendPlain, workerVars
<1>3. CASE SendSecured
  <2>1. Message("salt", issued'["secured"]) \in Messages /\ PutNowait(Message("salt", issued'["secured"]))
    BY <1>3 DEF SendSecured, TypeOK, HistoryTypes, Messages, Message, Kinds
  <2>. QED
    BY <1>3, <2>1, PutEffect DEF TypeOK, QueueTypes, SendSecured, workerVars
<1>4. CASE TakeNext
  <2>1. mq \in Seq(Messages) /\ mq # <<>>
    BY <1>4 DEF TakeNext, TypeOK, QueueTypes
  <2>2. Tail(mq) \in Seq(Messages) /\ Len(Tail(mq)) = Len(mq) - 1 /\ Head(mq) \in Messages /\ Len(mq) \in Nat
    BY <2>1, TailEffect, LenProperties
  <2>. QED
    BY <1>4, <2>2, ChannelAssumption DEF TakeNext, TypeOK, QueueTypes
<1>5. CASE SendCompletes
  <2>1. Len(mq) \in Nat /\ unfinished >= 1
    BY <1>5, LenProperties DEF TypeOK, QueueTypes, TaskAccounting, SendCompletes
  <2>. QED
    BY <1>5, <2>1 DEF TypeOK, QueueTypes, SendCompletes, AfterSend
<1>6. CASE SaltReply
  <2>1. CASE Popped = None
    BY <1>6, <2>1 DEF SaltReply, TypeOK, QueueTypes, queueVars, workerVars
  <2>2. CASE Popped # None
    <3>1. Popped \in 1..Secured
      BY <2>2, PopEffect DEF TypeOK
    <3>2. Message("secured", Popped) \in Messages /\ PutNowait(Message("secured", Popped))
      BY <1>6, <2>2, <3>1, ChannelAssumption DEF SaltReply, Messages, Message
    <3>. QED
      BY <1>6, <3>2, PutEffect DEF TypeOK, QueueTypes, SaltReply, workerVars
  <2>. QED
    BY <2>1, <2>2
<1>7. CASE SaltRejected
  BY <1>7 DEF TypeOK, QueueTypes, SaltRejected, sessionVars, queueVars, workerVars,
     saltVars, historyVars
<1>8. CASE PutResumes
  <2>1. Message("secured", held) \in Messages /\ PutNowait(Message("secured", held))
    BY <1>8, ChannelAssumption DEF PutResumes, TypeOK, SecuredTypes, Messages, Message
  <2>. QED
    BY <1>8, <2>1, PutEffect DEF TypeOK, QueueTypes, PutResumes, workerVars
<1>9. CASE SessionStarts
  <2>1. Len(mq) \in Nat /\ unfinished = Len(mq) + (IF worker = "sending" THEN 1 ELSE 0)
    BY LenProperties DEF TypeOK, QueueTypes, TaskAccounting
  <2>2. <<>> \in Seq(Messages) /\ Len(<<>>) = 0
    BY EmptySeq
  <2>. QED
    BY <1>9, <2>1, <2>2, ChannelAssumption DEF SessionStarts, StaleDropped, TypeOK,
       QueueTypes
<1>10. CASE SessionFails
  BY <1>10 DEF TypeOK, QueueTypes, SessionFails, CancelWorkers, sessionVars, queueVars,
     workerVars, saltVars, historyVars
<1>11. CASE CloseCancels
  BY <1>11 DEF TypeOK, QueueTypes, CloseCancels, CancelWorkers, sessionVars, queueVars,
     workerVars, saltVars, historyVars
<1>12. CASE RecoveryClose
  BY <1>12 DEF TypeOK, QueueTypes, RecoveryClose, ClearsSecured, sessionVars,
     queueVars, workerVars, saltVars, historyVars
<1>13. CASE Close
  BY <1>13 DEF TypeOK, QueueTypes, Close, ClearsSecured, sessionVars, queueVars,
     workerVars, saltVars, historyVars
<1>14. CASE Expire
  BY <1>14 DEF TypeOK, QueueTypes, Expire, sessionVars, queueVars, workerVars,
     saltVars, historyVars
<1>15. CASE Dial
  BY <1>15 DEF TypeOK, QueueTypes, Dial, sessionVars, queueVars, workerVars, saltVars,
     historyVars
<1>16. CASE DialFails
  BY <1>16 DEF TypeOK, QueueTypes, DialFails, sessionVars, queueVars, workerVars,
     saltVars, historyVars
<1>17. CASE Authenticated
  BY <1>17 DEF TypeOK, QueueTypes, Authenticated, sessionVars, queueVars, workerVars,
     saltVars, historyVars
<1>18. CASE SocketLost
  BY <1>18 DEF TypeOK, QueueTypes, SocketLost, sessionVars, queueVars, workerVars,
     saltVars, historyVars
<1>19. CASE SessionUnwound
  BY <1>19 DEF TypeOK, QueueTypes, SessionUnwound, sessionVars, queueVars, workerVars,
     saltVars, historyVars
<1>. QED
  BY <1>1, <1>2, <1>3, <1>4, <1>5, <1>6, <1>7, <1>8, <1>9, <1>10, <1>11, <1>12, <1>13,
     <1>14, <1>15, <1>16, <1>17, <1>18, <1>19 DEF Next

\* the secured commands,
LEMMA SecuredTypesStep == TypeOK /\ [Next]_vars => SecuredTypes'
<1>. SUFFICES ASSUME TypeOK, [Next]_vars PROVE SecuredTypes'
  OBVIOUS
<1>1. CASE UNCHANGED vars
  BY <1>1 DEF TypeOK, SecuredTypes, vars, sessionVars, queueVars, workerVars, saltVars,
     historyVars
<1>2. CASE SendPlain
  BY <1>2 DEF TypeOK, SecuredTypes, SendPlain, sessionVars, queueVars, workerVars,
     saltVars, historyVars
<1>3. CASE SendSecured
  <2>1. issued'["secured"] \in 1..Secured
    BY <1>3, ChannelAssumption DEF SendSecured, TypeOK, HistoryTypes, Kinds
  <2>. QED
    BY <1>3, <2>1, AppendEffect DEF TypeOK, SecuredTypes, SendSecured
<1>4. CASE TakeNext
  BY <1>4 DEF TypeOK, SecuredTypes, TakeNext, sessionVars, queueVars, workerVars,
     saltVars, historyVars
<1>5. CASE SendCompletes
  <2>1. CASE UNCHANGED inflight
    BY <1>5, <2>1 DEF TypeOK, SecuredTypes, SendCompletes
  <2>2. CASE Delivered(busy)
    <3>1. CASE busy.kind = "salt"
      <4>1. busy.n \in Nat
        BY <3>1 DEF TypeOK, QueueTypes, Messages, NoMessage, Message
      <4>. QED
        BY <1>5, <2>2, <3>1, <4>1, AppendEffect DEF TypeOK, SecuredTypes,
           SendCompletes, Delivered
    <3>2. CASE busy.kind # "salt"
      BY <1>5, <2>2, <3>2 DEF TypeOK, SecuredTypes, SendCompletes, Delivered
    <3>. QED
      BY <3>1, <3>2
  <2>. QED
    BY <1>5, <2>1, <2>2 DEF SendCompletes
<1>6. CASE SaltReply
  <2>1. Tail(inflight) \in Seq(Nat)
    BY <1>6, TailEffect DEF SaltReply, TypeOK, SecuredTypes
  <2>2. AfterPop \in Seq(1..Secured) /\ (Popped # None => Popped \in 1..Secured)
    BY PopEffect DEF TypeOK
  <2>. QED
    BY <1>6, <2>1, <2>2 DEF TypeOK, SecuredTypes, SaltReply
<1>7. CASE SaltRejected
  <2>1. Tail(inflight) \in Seq(Nat) /\ <<>> \in Seq(Nat)
    BY <1>7, TailEffect, EmptySeq DEF SaltRejected, TypeOK, SecuredTypes
  <2>2. AfterPop \in Seq(1..Secured)
    BY PopEffect DEF TypeOK
  <2>. QED
    BY <1>7, <2>1, <2>2 DEF TypeOK, SecuredTypes, SaltRejected
<1>8. CASE PutResumes
  BY <1>8 DEF TypeOK, SecuredTypes, PutResumes, sessionVars, queueVars, workerVars,
     saltVars, historyVars
<1>9. CASE SessionStarts
  BY <1>9 DEF TypeOK, SecuredTypes, SessionStarts, StaleDropped, sessionVars,
     queueVars, workerVars, saltVars, historyVars
<1>10. CASE SessionFails
  <2>1. <<>> \in Seq(Nat) /\ <<>> \in Seq(1..Secured)
    BY EmptySeq
  <2>. QED
    BY <1>10, <2>1 DEF TypeOK, SecuredTypes, SessionFails, CancelWorkers
<1>11. CASE CloseCancels
  <2>1. <<>> \in Seq(Nat) /\ <<>> \in Seq(1..Secured)
    BY EmptySeq
  <2>. QED
    BY <1>11, <2>1 DEF TypeOK, SecuredTypes, CloseCancels, CancelWorkers
<1>12. CASE RecoveryClose
  <2>1. <<>> \in Seq(Nat) /\ <<>> \in Seq(1..Secured)
    BY EmptySeq
  <2>. QED
    BY <1>12, <2>1 DEF TypeOK, SecuredTypes, RecoveryClose, ClearsSecured
<1>13. CASE Close
  <2>1. <<>> \in Seq(Nat) /\ <<>> \in Seq(1..Secured)
    BY EmptySeq
  <2>. QED
    BY <1>13, <2>1 DEF TypeOK, SecuredTypes, Close, ClearsSecured
<1>14. CASE Expire
  <2>1. PICK i \in DOMAIN secq : expired' = expired \cup {secq[i]}
    BY <1>14 DEF Expire
  <2>2. secq[i] \in 1..Secured
    BY <2>1, LenProperties, ElementOfSeq DEF TypeOK, SecuredTypes
  <2>. QED
    BY <1>14, <2>1, <2>2 DEF TypeOK, SecuredTypes, Expire
<1>15. CASE Dial
  BY <1>15 DEF TypeOK, SecuredTypes, Dial, sessionVars, queueVars, workerVars,
     saltVars, historyVars
<1>16. CASE DialFails
  BY <1>16 DEF TypeOK, SecuredTypes, DialFails, sessionVars, queueVars, workerVars,
     saltVars, historyVars
<1>17. CASE Authenticated
  BY <1>17 DEF TypeOK, SecuredTypes, Authenticated, sessionVars, queueVars, workerVars,
     saltVars, historyVars
<1>18. CASE SocketLost
  BY <1>18 DEF TypeOK, SecuredTypes, SocketLost, sessionVars, queueVars, workerVars,
     saltVars, historyVars
<1>19. CASE SessionUnwound
  BY <1>19 DEF TypeOK, SecuredTypes, SessionUnwound, sessionVars, queueVars,
     workerVars, saltVars, historyVars
<1>. QED
  BY <1>1, <1>2, <1>3, <1>4, <1>5, <1>6, <1>7, <1>8, <1>9, <1>10, <1>11, <1>12, <1>13,
     <1>14, <1>15, <1>16, <1>17, <1>18, <1>19 DEF Next

\* and what the model remembers.
LEMMA HistoryTypesStep == TypeOK /\ [Next]_vars => HistoryTypes'
<1>. SUFFICES ASSUME TypeOK, [Next]_vars PROVE HistoryTypes'
  OBVIOUS
<1>1. CASE UNCHANGED vars
  BY <1>1 DEF TypeOK, HistoryTypes, vars, sessionVars, queueVars, workerVars, saltVars,
     historyVars
<1>2. CASE SendPlain
  <2>1. issued' \in [Kinds -> Nat] /\ issued'["plain"] <= Plain /\ issued'["secured"] <= Secured
    BY <1>2, ChannelAssumption DEF TypeOK, HistoryTypes, Kinds, SendPlain
  <2>. QED
    BY <1>2, <2>1 DEF TypeOK, HistoryTypes, SendPlain
<1>3. CASE SendSecured
  BY <1>3, ChannelAssumption DEF TypeOK, HistoryTypes, Kinds, SendSecured
<1>4. CASE TakeNext
  BY <1>4 DEF TypeOK, HistoryTypes, TakeNext, sessionVars, queueVars, workerVars,
     saltVars, historyVars
<1>5. CASE SendCompletes
  <2>1. CASE UNCHANGED wire
    BY <1>5, <2>1 DEF TypeOK, HistoryTypes, SendCompletes
  <2>2. CASE Delivered(busy) /\ busy.kind \in Kinds
    <3>1. busy.n \in Nat /\ busy.kind # "salt"
      BY <2>2 DEF TypeOK, QueueTypes, Messages, NoMessage, Message, Kinds
    <3>2. wire' = [wire EXCEPT ![busy.kind] = Append(@, busy.n)]
      BY <2>2, <3>1 DEF Delivered
    <3>3. Append(wire[busy.kind], busy.n) \in Seq(Nat)
      BY <2>2, <3>1, AppendEffect DEF TypeOK, HistoryTypes
    <3>. QED
      BY <1>5, <3>2, <3>3 DEF TypeOK, HistoryTypes, SendCompletes
  <2>3. CASE Delivered(busy) /\ busy.kind \notin Kinds
    <3>1. wire' = wire
      BY <2>3 DEF Delivered, TypeOK, QueueTypes, HistoryTypes, Messages, NoMessage,
         Message, Kinds
    <3>. QED
      BY <1>5, <3>1 DEF TypeOK, HistoryTypes, SendCompletes
  <2>. QED
    BY <1>5, <2>1, <2>2, <2>3 DEF SendCompletes
<1>6. CASE SaltReply
  <2>1. Popped # None => Popped \in Nat /\ Popped \in 1..Secured
    BY PopEffect DEF TypeOK
  <2>2. Head(inflight) \in Nat
    BY <1>6, TailEffect DEF SaltReply, TypeOK, SecuredTypes
  <2>3. /\ released' \in Nat \X Nat /\ hashed' \subseteq 1..Secured
    <3>1. CASE Popped = None
      BY <1>6, <3>1 DEF TypeOK, HistoryTypes, SaltReply
    <3>2. CASE Popped # None
      <4>1. released' = <<Head(inflight), Popped>> /\ hashed' = hashed \cup {Popped}
        BY <1>6, <3>2 DEF SaltReply
      <4>. QED
        BY <2>1, <2>2, <3>2, <4>1 DEF TypeOK, HistoryTypes
    <3>. QED
      BY <3>1, <3>2
  <2>4. UNCHANGED <<issued, wire, dropped, cleared>>
    BY <1>6 DEF SaltReply
  <2>. QED
    BY <2>3, <2>4 DEF TypeOK, HistoryTypes
<1>7. CASE SaltRejected
  BY <1>7 DEF TypeOK, HistoryTypes, SaltRejected, sessionVars, queueVars, workerVars,
     saltVars, historyVars
<1>8. CASE PutResumes
  BY <1>8 DEF TypeOK, HistoryTypes, PutResumes, sessionVars, queueVars, workerVars,
     saltVars, historyVars
<1>9. CASE SessionStarts
  <2>1. Range(mq) \subseteq Messages
    BY LenProperties, ElementOfSeq DEF TypeOK, QueueTypes, Range
  <2>. QED
    BY <1>9, <2>1 DEF TypeOK, HistoryTypes, SessionStarts
<1>10. CASE SessionFails
  BY <1>10 DEF TypeOK, HistoryTypes, SessionFails, CancelWorkers, sessionVars,
     queueVars, workerVars, saltVars, historyVars
<1>11. CASE CloseCancels
  BY <1>11 DEF TypeOK, HistoryTypes, CloseCancels, CancelWorkers, sessionVars,
     queueVars, workerVars, saltVars, historyVars
<1>12. CASE RecoveryClose
  <2>1. Range(secq) \subseteq 1..Secured
    BY RangeInSet DEF TypeOK, SecuredTypes
  <2>. QED
    BY <1>12, <2>1 DEF TypeOK, HistoryTypes, RecoveryClose, ClearsSecured
<1>13. CASE Close
  <2>1. Range(secq) \subseteq 1..Secured
    BY RangeInSet DEF TypeOK, SecuredTypes
  <2>. QED
    BY <1>13, <2>1 DEF TypeOK, HistoryTypes, Close, ClearsSecured
<1>14. CASE Expire
  BY <1>14 DEF TypeOK, HistoryTypes, Expire, sessionVars, queueVars, workerVars,
     saltVars, historyVars
<1>15. CASE Dial
  BY <1>15 DEF TypeOK, HistoryTypes, Dial, sessionVars, queueVars, workerVars,
     saltVars, historyVars
<1>16. CASE DialFails
  BY <1>16 DEF TypeOK, HistoryTypes, DialFails, sessionVars, queueVars, workerVars,
     saltVars, historyVars
<1>17. CASE Authenticated
  BY <1>17 DEF TypeOK, HistoryTypes, Authenticated, sessionVars, queueVars, workerVars,
     saltVars, historyVars
<1>18. CASE SocketLost
  BY <1>18 DEF TypeOK, HistoryTypes, SocketLost, sessionVars, queueVars, workerVars,
     saltVars, historyVars
<1>19. CASE SessionUnwound
  BY <1>19 DEF TypeOK, HistoryTypes, SessionUnwound, sessionVars, queueVars,
     workerVars, saltVars, historyVars
<1>. QED
  BY <1>1, <1>2, <1>3, <1>4, <1>5, <1>6, <1>7, <1>8, <1>9, <1>10, <1>11, <1>12, <1>13,
     <1>14, <1>15, <1>16, <1>17, <1>18, <1>19 DEF Next

-----------------------------------------------------------------------------
(* What a step does to the commands, whichever handler takes it.           *)

Behind(m) ==
  /\ m \in Messages
  /\ Range(mq) \subseteq Range(mq') /\ Range(mq') \subseteq Range(mq) \cup {m}
  /\ \A i, j \in DOMAIN mq' : i < j =>
       /\ i \in DOMAIN mq /\ mq'[i] = mq[i]
       /\ mq'[j] = m \/ (j \in DOMAIN mq /\ mq'[j] = mq[j])

Younger(c) ==
  /\ Range(secq') \subseteq Range(secq)
  /\ \A i, j \in DOMAIN secq' : i < j => secq'[i] < secq'[j]
  /\ c # None => c \in Range(secq) /\ \A n \in Range(secq') : c < n

CallsPlain ==
  /\ Behind(Message("plain", issued["plain"] + 1))
  /\ issued' = [issued EXCEPT !["plain"] = @ + 1]
  /\ UNCHANGED <<busy, secq, held, wire, dropped, cleared>>
CallsSecured ==
  /\ Behind(Message("salt", issued["secured"] + 1))
  /\ issued' = [issued EXCEPT !["secured"] = @ + 1]
  /\ secq' = Append(secq, issued["secured"] + 1) /\ issued["secured"] + 1 \in 1..Secured
  /\ UNCHANGED <<busy, held, wire, dropped, cleared>>
Takes ==
  /\ busy = NoMessage /\ mq # <<>> /\ busy' = Head(mq) /\ mq' = Tail(mq)
  /\ UNCHANGED <<secq, held, wire, dropped, cleared, issued>>
Loses ==
  /\ busy' = NoMessage
  /\ UNCHANGED <<mq, secq, held, wire, dropped, cleared, issued>>
Sends ==
  /\ busy' = NoMessage /\ busy.kind \in Kinds /\ busy.n \in Nat
  /\ wire' = [wire EXCEPT ![busy.kind] = Append(@, busy.n)]
  /\ UNCHANGED <<mq, secq, held, dropped, cleared, issued>>
Discards ==
  /\ Younger(Popped)
  /\ UNCHANGED <<mq, busy, held, wire, dropped, cleared, issued>>
Releases ==
  /\ Popped # None /\ held = None /\ Younger(Popped) /\ Popped \in hashed'
  /\ \/ Behind(Message("secured", Popped)) /\ held' = None
     \/ held' = Popped /\ UNCHANGED mq
  /\ UNCHANGED <<busy, wire, dropped, cleared, issued>>
Resumes ==
  /\ held # None /\ held' = None /\ Behind(Message("secured", held))
  /\ UNCHANGED <<busy, secq, wire, dropped, cleared, issued>>
Starts ==
  /\ mq' = <<>> /\ dropped' = dropped \cup Range(mq) /\ held = None /\ busy = NoMessage
  /\ UNCHANGED <<busy, secq, held, wire, cleared, issued>>
Abandons ==
  /\ held' = None
  /\ UNCHANGED <<mq, busy, secq, wire, dropped, cleared, issued>>
Clears ==
  /\ secq' = <<>> /\ cleared' = cleared \cup Range(secq)
  /\ UNCHANGED <<mq, busy, held, wire, dropped, issued>>

Moves ==
  \/ CallsPlain \/ CallsSecured \/ Takes \/ Loses \/ Sends \/ Discards
  \/ Releases \/ Resumes \/ Starts \/ Abandons \/ Clears

\* What the types say of the elements of the queues.
LEMMA ElementTypes ==
  ASSUME TypeOK
  PROVE  /\ Range(mq) \subseteq Messages /\ \A i \in DOMAIN mq : i \in Nat /\ mq[i] \in Messages
         /\ mq[1] \in Messages \/ mq = <<>>
         /\ Range(secq) \subseteq 1..Secured /\ \A i \in DOMAIN secq : i \in Nat /\ secq[i] \in 1..Secured
         /\ \A m \in Messages : m.kind \in {"plain", "salt", "secured"} /\ m.n \in Nat /\ m # NoMessage
         /\ busy \in Messages \/ busy = NoMessage
         /\ NoMessage.kind = "none" /\ NoMessage.n = 0 /\ NoMessage \notin Messages
         /\ issued["plain"] \in Nat /\ issued["secured"] \in Nat
         /\ None \notin cleared /\ None \notin Range(secq)
         /\ dropped \subseteq Messages /\ cleared \subseteq Nat /\ held \in Nat \cup {None}
         /\ \A k \in Kinds : wire[k] \in Seq(Nat) /\ Range(wire[k]) \subseteq Nat
                              /\ \A i \in DOMAIN wire[k] : i \in Nat /\ wire[k][i] \in Nat
<1>1. /\ mq \in Seq(Messages) /\ secq \in Seq(1..Secured) /\ busy \in Messages \cup {NoMessage}
      /\ issued \in [Kinds -> Nat] /\ wire \in [Kinds -> Seq(Nat)] /\ dropped \subseteq Messages
      /\ cleared \subseteq 1..Secured /\ held \in 1..Secured \cup {None}
  BY DEF TypeOK, QueueTypes, SecuredTypes, HistoryTypes
<1>2. /\ Range(mq) \subseteq Messages /\ \A i \in DOMAIN mq : i \in Nat /\ mq[i] \in Messages
      /\ Range(secq) \subseteq 1..Secured /\ \A i \in DOMAIN secq : i \in Nat /\ secq[i] \in 1..Secured
  BY <1>1, RangeInSet
<1>3. \A k \in Kinds : wire[k] \in Seq(Nat) /\ Range(wire[k]) \subseteq Nat
                        /\ \A i \in DOMAIN wire[k] : i \in Nat /\ wire[k][i] \in Nat
  BY <1>1, RangeInSet
<1>4. mq[1] \in Messages \/ mq = <<>>
  BY <1>1, TailEffect, <1>2
<1>5. /\ \A m \in Messages : m.kind \in {"plain", "salt", "secured"} /\ m.n \in Nat /\ m # NoMessage
      /\ NoMessage.kind = "none" /\ NoMessage.n = 0 /\ NoMessage \notin Messages
  BY DEF Messages, NoMessage, Message
<1>6. /\ issued["plain"] \in Nat /\ issued["secured"] \in Nat
      /\ 1..Secured \subseteq Nat /\ None \notin 1..Secured
  BY <1>1, ChannelAssumption DEF Kinds
<1>7. /\ cleared \subseteq Nat /\ None \notin cleared /\ None \notin Range(secq)
      /\ held \in Nat \cup {None}
  BY <1>1, <1>2, <1>6
<1>. QED
  BY <1>1, <1>2, <1>3, <1>4, <1>5, <1>6, <1>7

\* Taking a secured command out of its queue leaves only younger ones.
LEMMA PopIsYounger ==
  ASSUME TypeOK, SecuredInv, secq' = AfterPop
  PROVE  Younger(Popped)
<1>1. PICK d \in Nat : \A i \in DOMAIN AfterPop :
        i \in Nat /\ i + d \in DOMAIN secq /\ AfterPop[i] = secq[i + d]
  BY PopEffect DEF TypeOK
<1>2. ASSUME NEW i \in DOMAIN AfterPop, NEW j \in DOMAIN AfterPop, i < j
      PROVE  AfterPop[i] < AfterPop[j]
  <2>1. i + d \in DOMAIN secq /\ j + d \in DOMAIN secq /\ i + d < j + d
    BY <1>1, <1>2
  <2>2. secq[i + d] < secq[j + d]
    BY <2>1 DEF SecuredInv
  <2>. QED
    BY <1>1, <2>2
<1>3. ASSUME Popped # None PROVE Popped \in Range(secq) /\ \A n \in Range(AfterPop) : Popped < n
  <2>1. Fresh # {}
    BY <1>3, PopEffect DEF TypeOK
  <2>2. PICK f \in DOMAIN secq :
          /\ Popped = secq[f]
          /\ \A n \in Range(AfterPop) : \E i \in DOMAIN secq : f < i /\ n = secq[i]
    BY <2>1, PopEffect DEF TypeOK
  <2>. QED
    BY <2>2 DEF SecuredInv, Range
<1>4. Range(AfterPop) \subseteq Range(secq)
  BY PopEffect DEF TypeOK
<1>. QED
  BY <1>2, <1>3, <1>4 DEF Younger

\* Every step of the system is one of these moves, or moves no command.
LEMMA StepMoves == IInv /\ [Next]_vars => Moves \/ UNCHANGED places
<1>. SUFFICES ASSUME IInv, [Next]_vars PROVE Moves \/ UNCHANGED places
  OBVIOUS
<1>. USE DEF IInv
<1>1. CASE Quiet
  BY <1>1, QuietSteps
<1>2. CASE SendPlain
  <2>1. issued' = [issued EXCEPT !["plain"] = @ + 1] /\ issued'["plain"] = issued["plain"] + 1
    BY <1>2 DEF SendPlain, TypeOK, HistoryTypes, Kinds
  <2>2. Message("plain", issued["plain"] + 1) \in Messages
    BY ElementTypes DEF Message, Messages
  <2>3. PutNowait(Message("plain", issued["plain"] + 1))
    BY <1>2, <2>1 DEF SendPlain
  <2>4. Behind(Message("plain", issued["plain"] + 1))
    BY <2>2, <2>3, PutEffect DEF Behind, TypeOK
  <2>. QED
    BY <1>2, <2>1, <2>4 DEF SendPlain, Moves, CallsPlain, workerVars, saltVars
<1>3. CASE SendSecured
  <2>1. /\ issued' = [issued EXCEPT !["secured"] = @ + 1] /\ issued'["secured"] = issued["secured"] + 1
        /\ issued["secured"] + 1 \in 1..Secured
    BY <1>3, ChannelAssumption DEF SendSecured, TypeOK, HistoryTypes, Kinds
  <2>2. Message("salt", issued["secured"] + 1) \in Messages
    BY ElementTypes DEF Message, Messages
  <2>3. PutNowait(Message("salt", issued["secured"] + 1)) /\ secq' = Append(secq, issued["secured"] + 1)
    BY <1>3, <2>1 DEF SendSecured
  <2>4. Behind(Message("salt", issued["secured"] + 1))
    BY <2>2, <2>3, PutEffect DEF Behind, TypeOK
  <2>. QED
    BY <1>3, <2>1, <2>3, <2>4 DEF SendSecured, Moves, CallsSecured, workerVars
<1>4. CASE TakeNext
  <2>1. busy = NoMessage
    BY <1>4 DEF TakeNext, WriterInv
  <2>. QED
    BY <1>4, <2>1 DEF TakeNext, Moves, Takes, saltVars, historyVars
<1>5. CASE SendCompletes
  <2>1. CASE wire' = wire
    BY <1>5, <2>1 DEF SendCompletes, Moves, Loses
  <2>2. CASE Delivered(busy) /\ busy.kind \in Kinds
    <3>1. busy.n \in Nat /\ busy.kind # "salt"
      BY <2>2, ElementTypes DEF Kinds
    <3>. QED
      BY <1>5, <2>2, <3>1 DEF SendCompletes, Delivered, Moves, Sends
  <2>3. CASE Delivered(busy) /\ busy.kind \notin Kinds
    <3>1. wire' = wire
      BY <2>3 DEF Delivered, TypeOK, QueueTypes, HistoryTypes, Messages, NoMessage,
         Message, Kinds
    <3>. QED
      BY <2>1, <3>1
  <2>. QED
    BY <1>5, <2>1, <2>2, <2>3 DEF SendCompletes
<1>6. CASE SaltReply
  <2>1. secq' = AfterPop /\ held = None /\ UNCHANGED <<busy, wire, dropped, cleared, issued>>
    BY <1>6 DEF SaltReply, workerVars
  <2>2. Younger(Popped)
    BY <2>1, PopIsYounger
  <2>3. CASE Popped = None
    BY <1>6, <2>1, <2>2, <2>3 DEF SaltReply, queueVars, Moves, Discards
  <2>4. CASE Popped # None
    <3>1. Popped \in 1..Secured
      BY <2>4, PopEffect DEF TypeOK
    <3>2. Message("secured", Popped) \in Messages /\ PutNowait(Message("secured", Popped))
      BY <1>6, <2>4, <3>1, ChannelAssumption DEF SaltReply, Messages, Message
    <3>3. Behind(Message("secured", Popped))
      BY <3>2, PutEffect DEF Behind, TypeOK
    <3>4. (Len(mq) < Capacity /\ held' = None) \/ (UNCHANGED mq /\ held' = Popped)
      BY <1>6, <2>4, <3>2 DEF SaltReply, PutNowait, queueVars
    <3>. QED
      BY <1>6, <2>1, <2>2, <2>4, <3>3, <3>4 DEF Moves, Releases, SaltReply
  <2>. QED
    BY <2>3, <2>4
<1>7. CASE SaltRejected
  BY <1>7, PopIsYounger DEF SaltRejected, queueVars, workerVars, historyVars, Moves,
     Discards
<1>8. CASE PutResumes
  <2>1. Message("secured", held) \in Messages /\ PutNowait(Message("secured", held))
    BY <1>8, ChannelAssumption DEF PutResumes, TypeOK, SecuredTypes, Messages, Message
  <2>2. Behind(Message("secured", held))
    BY <2>1, PutEffect DEF Behind, TypeOK
  <2>. QED
    BY <1>8, <2>2 DEF PutResumes, workerVars, historyVars, Moves, Resumes
<1>9. CASE SessionStarts
  BY <1>9 DEF SessionStarts, StaleDropped, saltVars, WriterInv, Listening, Moves, Starts
<1>10. CASE SessionFails \/ CloseCancels
  BY <1>10 DEF SessionFails, CloseCancels, CancelWorkers, queueVars, workerVars,
     historyVars, Moves, Abandons
<1>11. CASE RecoveryClose \/ Close
  BY <1>11 DEF RecoveryClose, Close, ClearsSecured, queueVars, workerVars, Moves,
     Clears, places
<1>. QED
  BY <1>1, <1>2, <1>3, <1>4, <1>5, <1>6, <1>7, <1>8, <1>9, <1>10, <1>11 DEF Next, Quiet

-----------------------------------------------------------------------------
(* Each part of the invariant.                                             *)

\* The counter of join() follows the queue and the writer.
LEMMA AccountingStep == IInv /\ [Next]_vars => TaskAccounting'
<1>. SUFFICES ASSUME IInv, [Next]_vars PROVE TaskAccounting'
  OBVIOUS
<1>. USE DEF IInv
<1>1. Len(mq) \in Nat /\ unfinished \in Nat
  BY LenProperties DEF TypeOK, QueueTypes
<1>2. ASSUME NEW m \in Messages, PutNowait(m), UNCHANGED worker PROVE TaskAccounting'
  BY <1>1, <1>2, PutEffect DEF TypeOK, TaskAccounting
<1>3. CASE SendPlain \/ SendSecured
  <2>1. CASE SendPlain
    <3>1. Message("plain", issued'["plain"]) \in Messages
      BY <2>1 DEF SendPlain, TypeOK, HistoryTypes, Messages, Message, Kinds
    <3>. QED
      BY <1>2, <2>1, <3>1 DEF SendPlain, workerVars
  <2>2. CASE SendSecured
    <3>1. Message("salt", issued'["secured"]) \in Messages
      BY <2>2 DEF SendSecured, TypeOK, HistoryTypes, Messages, Message, Kinds
    <3>. QED
      BY <1>2, <2>2, <3>1 DEF SendSecured, workerVars
  <2>. QED
    BY <1>3, <2>1, <2>2
<1>4. CASE TakeNext
  <2>1. Len(Tail(mq)) = Len(mq) - 1
    BY <1>4, TailEffect DEF TakeNext, TypeOK, QueueTypes
  <2>. QED
    BY <1>1, <1>4, <2>1 DEF TakeNext, TaskAccounting
<1>5. CASE SendCompletes
  BY <1>1, <1>5 DEF SendCompletes, AfterSend, TaskAccounting
<1>6. CASE SaltReply
  <2>1. CASE Popped = None
    BY <1>6, <2>1 DEF SaltReply, queueVars, workerVars, TaskAccounting
  <2>2. CASE Popped # None
    <3>1. Message("secured", Popped) \in Messages
      BY <2>2, PopEffect DEF TypeOK, Messages, Message
    <3>. QED
      BY <1>2, <1>6, <2>2, <3>1 DEF SaltReply, workerVars
  <2>. QED
    BY <2>1, <2>2
<1>7. CASE PutResumes
  <2>1. Message("secured", held) \in Messages
    BY <1>7, ChannelAssumption DEF PutResumes, TypeOK, SecuredTypes, Messages, Message
  <2>. QED
    BY <1>2, <1>7, <2>1 DEF PutResumes, workerVars
<1>8. CASE SessionStarts
  <2>1. worker = "stopped" /\ Len(<<>>) = 0
    BY <1>8, EmptySeq DEF SessionStarts, WriterInv
  <2>. QED
    BY <1>1, <1>8, <2>1 DEF SessionStarts, StaleDropped, TaskAccounting
<1>9. CASE SaltRejected \/ SessionFails \/ CloseCancels \/ RecoveryClose \/ Close
  BY <1>9 DEF SaltRejected, SessionFails, CloseCancels, CancelWorkers, RecoveryClose, Close,
     queueVars, workerVars, TaskAccounting
<1>10. CASE Expire \/ Dial \/ DialFails \/ Authenticated \/ SocketLost
  BY <1>10 DEF Expire, Dial, DialFails, Authenticated, SocketLost, queueVars,
     workerVars, TaskAccounting
<1>11. CASE SessionUnwound
  BY <1>11 DEF SessionUnwound, queueVars, TaskAccounting
<1>12. CASE UNCHANGED vars
  BY <1>12 DEF vars, queueVars, workerVars, TaskAccounting
<1>. QED
  BY <1>3, <1>4, <1>5, <1>6, <1>7, <1>8, <1>9, <1>10, <1>11, <1>12 DEF Next

\* The writer and the waiting put live inside a session.
LEMMA WriterStep == IInv /\ [Next]_vars => WriterInv'
<1>. SUFFICES ASSUME IInv, [Next]_vars PROVE WriterInv'
  OBVIOUS
<1>1. CASE UNCHANGED vars
  BY <1>1 DEF IInv, WriterInv, Listening, vars, sessionVars, queueVars, workerVars,
     saltVars, historyVars
<1>2. CASE SendPlain
  BY <1>2 DEF IInv, WriterInv, Listening, SendPlain, sessionVars, queueVars,
     workerVars, saltVars, historyVars
<1>3. CASE SendSecured
  BY <1>3 DEF IInv, WriterInv, Listening, SendSecured, sessionVars, queueVars,
     workerVars, saltVars, historyVars
<1>4. CASE TakeNext
  <2>1. Head(mq) # NoMessage
    BY <1>4, TailEffect, ElementTypes DEF TakeNext, IInv, TypeOK, QueueTypes
  <2>. QED
    BY <1>4, <2>1 DEF TakeNext, IInv, WriterInv, Listening, Cancelled, sessionVars, saltVars
<1>5. CASE SendCompletes
  BY <1>5 DEF SendCompletes, AfterSend, IInv, WriterInv, Listening, sessionVars
<1>6. CASE SaltReply
  BY <1>6 DEF IInv, WriterInv, Listening, SaltReply, sessionVars, queueVars,
     workerVars, saltVars, historyVars
<1>7. CASE SaltRejected
  BY <1>7 DEF IInv, WriterInv, Listening, SaltRejected, sessionVars, queueVars,
     workerVars, saltVars, historyVars
<1>8. CASE PutResumes
  BY <1>8 DEF PutResumes, IInv, WriterInv, Listening, sessionVars, workerVars
<1>9. CASE SessionStarts
  BY <1>9 DEF SessionStarts, IInv, WriterInv, Listening, saltVars
<1>10. CASE SessionFails
  BY <1>10 DEF SessionFails, CancelWorkers, IInv, WriterInv, Listening, workerVars
<1>11. CASE CloseCancels
  BY <1>11 DEF CloseCancels, CancelWorkers, IInv, WriterInv, Listening, workerVars
<1>12. CASE RecoveryClose
  BY <1>12 DEF IInv, WriterInv, Listening, RecoveryClose, ClearsSecured, sessionVars,
     queueVars, workerVars, saltVars, historyVars
<1>13. CASE Close
  BY <1>13 DEF Close, IInv, WriterInv, Listening, workerVars
<1>14. CASE Expire
  BY <1>14 DEF IInv, WriterInv, Listening, Expire, sessionVars, queueVars, workerVars,
     saltVars, historyVars
<1>15. CASE Dial
  BY <1>15 DEF IInv, WriterInv, Listening, Dial, sessionVars, queueVars, workerVars,
     saltVars, historyVars
<1>16. CASE DialFails
  BY <1>16 DEF IInv, WriterInv, Listening, DialFails, sessionVars, queueVars,
     workerVars, saltVars, historyVars
<1>17. CASE Authenticated
  BY <1>17 DEF IInv, WriterInv, Listening, Authenticated, sessionVars, queueVars,
     workerVars, saltVars, historyVars
<1>18. CASE SocketLost
  BY <1>18 DEF IInv, WriterInv, Listening, SocketLost, sessionVars, queueVars,
     workerVars, saltVars, historyVars
<1>19. CASE SessionUnwound
  BY <1>19 DEF SessionUnwound, Cancelled, IInv, WriterInv, Listening, queueVars, saltVars
<1>. QED
  BY <1>1, <1>2, <1>3, <1>4, <1>5, <1>6, <1>7, <1>8, <1>9, <1>10, <1>11, <1>12, <1>13,
     <1>14, <1>15, <1>16, <1>17, <1>18, <1>19 DEF Next

\* A call of either kind puts the youngest message of its kind,
LEMMA CallsEffect ==
  ASSUME TypeOK, CallsPlain \/ CallsSecured
  PROVE  /\ CallsPlain => /\ issued'["plain"] = issued["plain"] + 1 /\ issued'["secured"] = issued["secured"]
                          /\ Message("plain", issued["plain"] + 1).kind = "plain"
                          /\ Message("plain", issued["plain"] + 1).n = issued["plain"] + 1
         /\ CallsSecured => /\ issued'["secured"] = issued["secured"] + 1 /\ issued'["plain"] = issued["plain"]
                            /\ Message("salt", issued["secured"] + 1).kind = "salt"
                            /\ Message("salt", issued["secured"] + 1).n = issued["secured"] + 1
BY DEF CallsPlain, CallsSecured, TypeOK, HistoryTypes, Kinds, Message

\* and a secured one waits behind the others.
LEMMA CallsSecuredEffect ==
  ASSUME TypeOK, CallsSecured
  PROVE  /\ Range(secq') = Range(secq) \cup {issued["secured"] + 1}
         /\ \A i, j \in DOMAIN secq' : i < j =>
              /\ i \in DOMAIN secq /\ secq'[i] = secq[i]
              /\ secq'[j] = issued["secured"] + 1 \/ (j \in DOMAIN secq /\ secq'[j] = secq[j])
<1> DEFINE e == issued["secured"] + 1
           S == 1..Secured
<1>1. e \in S /\ secq' = Append(secq, e) /\ secq \in Seq(S)
  BY DEF CallsSecured, TypeOK, SecuredTypes
<1>. HIDE DEF e, S
<1>2. /\ Range(secq') = Range(secq) \cup {e}
      /\ DOMAIN secq = 1..Len(secq) /\ Len(secq) \in Nat /\ DOMAIN secq' = 1..(Len(secq) + 1)
      /\ \A i \in DOMAIN secq : secq'[i] = secq[i]
      /\ secq'[Len(secq) + 1] = e
  BY <1>1, AppendEffect
<1>3. \A i, j \in DOMAIN secq' : i < j =>
        /\ i \in DOMAIN secq /\ secq'[i] = secq[i]
        /\ secq'[j] = e \/ (j \in DOMAIN secq /\ secq'[j] = secq[j])
  BY <1>2
<1>. QED
  BY <1>2, <1>3 DEF e

\* The writer takes the oldest message.
LEMMA TakesEffect ==
  ASSUME TypeOK, Takes
  PROVE  /\ 1 \in DOMAIN mq /\ busy' = mq[1] /\ busy' \in Range(mq) /\ Range(mq') \subseteq Range(mq)
         /\ Range(mq') \cup {busy'} = Range(mq)
         /\ \A i \in DOMAIN mq' : i + 1 \in DOMAIN mq /\ i \in Nat /\ 1 < i + 1 /\ mq'[i] = mq[i + 1]
<1>1. /\ Head(mq) \in Range(mq) /\ Range(Tail(mq)) \subseteq Range(mq) /\ Head(mq) = mq[1] /\ 1 \in DOMAIN mq
      /\ \A i \in DOMAIN Tail(mq) : i \in Nat /\ i + 1 \in DOMAIN mq /\ Tail(mq)[i] = mq[i + 1]
  BY TailEffect DEF Takes, TypeOK, QueueTypes
<1>2. \A i \in DOMAIN Tail(mq) : 1 < i + 1
  <2>1. DOMAIN Tail(mq) = 1..Len(Tail(mq)) /\ Len(Tail(mq)) \in Nat
    BY TailEffect, LenProperties DEF Takes, TypeOK, QueueTypes
  <2>. QED
    BY <2>1
<1>3. Range(Tail(mq)) \cup {Head(mq)} = Range(mq)
  <2>1. ASSUME NEW i \in DOMAIN mq PROVE mq[i] = mq[1] \/ mq[i] \in Range(Tail(mq))
    <3>1. CASE i = 1
      BY <3>1
    <3>2. CASE i # 1
      <4>1. /\ DOMAIN mq = 1..Len(mq) /\ DOMAIN Tail(mq) = 1..(Len(mq) - 1)
            /\ Len(mq) \in Nat
        BY TailEffect, LenProperties DEF Takes, TypeOK, QueueTypes
      <4>2. i - 1 \in DOMAIN Tail(mq) /\ (i - 1) + 1 = i
        BY <3>2, <4>1
      <4>. QED
        BY <1>1, <4>2 DEF Range
    <3>. QED
      BY <3>1, <3>2
  <2>. QED
    BY <1>1, <2>1 DEF Range
<1>. QED
  BY <1>1, <1>2, <1>3 DEF Takes

\* A send that succeeds puts its command behind those that were sent.
LEMMA SendsEffect ==
  ASSUME TypeOK, Sends
  PROVE  /\ \A k \in Kinds : k # busy.kind => wire'[k] = wire[k]
         /\ Range(wire'[busy.kind]) = Range(wire[busy.kind]) \cup {busy.n}
         /\ \A i, j \in DOMAIN wire'[busy.kind] : i < j =>
              /\ i \in DOMAIN wire[busy.kind] /\ wire'[busy.kind][i] = wire[busy.kind][i]
              /\ \/ wire'[busy.kind][j] = busy.n
                 \/ j \in DOMAIN wire[busy.kind] /\ wire'[busy.kind][j] = wire[busy.kind][j]
<1> DEFINE old == wire[busy.kind]  new == wire'[busy.kind]
<1>1. \A k \in Kinds : k # busy.kind => wire'[k] = wire[k]
  BY DEF Sends, TypeOK, HistoryTypes
<1>2. new = Append(old, busy.n) /\ old \in Seq(Nat) /\ busy.n \in Nat
  BY DEF Sends, TypeOK, HistoryTypes
<1>. HIDE DEF old, new
<1>3. /\ Range(new) = Range(old) \cup {busy.n}
      /\ DOMAIN old = 1..Len(old) /\ Len(old) \in Nat /\ DOMAIN new = 1..(Len(old) + 1)
      /\ \A i \in DOMAIN old : new[i] = old[i]
      /\ new[Len(old) + 1] = busy.n
  BY <1>2, AppendEffect
<1>4. \A i, j \in DOMAIN new : i < j =>
        /\ i \in DOMAIN old /\ new[i] = old[i]
        /\ new[j] = busy.n \/ (j \in DOMAIN old /\ new[j] = old[j])
  BY <1>3
<1>. QED
  BY <1>1, <1>3, <1>4 DEF old, new

\* A message put behind all of its kind keeps the queue in order.
LEMMA BehindKeepsOrder ==
  ASSUME QueueInv, NEW m, Behind(m), \A x \in Range(mq) : x.kind = m.kind => x.n < m.n
  PROVE  QueueInv'
<1>1. ASSUME NEW i \in DOMAIN mq', NEW j \in DOMAIN mq', i < j, mq'[i].kind = mq'[j].kind
      PROVE  mq'[i].n < mq'[j].n
  <2>1. i \in DOMAIN mq /\ mq'[i] = mq[i] /\ mq[i] \in Range(mq)
    BY <1>1 DEF Behind, Range
  <2>2. CASE mq'[j] = m
    BY <1>1, <2>1, <2>2
  <2>3. CASE j \in DOMAIN mq /\ mq'[j] = mq[j]
    BY <1>1, <2>1, <2>3 DEF QueueInv
  <2>. QED
    BY <1>1, <2>2, <2>3 DEF Behind
<1>. QED
  BY <1>1 DEF QueueInv

\* The message of a released command.
LEMMA SecuredMessage ==
  \A n : Message("secured", n).kind = "secured" /\ Message("secured", n).n = n
BY DEF Message

\* An empty queue holds nothing.
LEMMA EmptyRange == Range(<<>>) = {} /\ DOMAIN <<>> = {}
BY EmptySeq, LenProperties DEF Range

\* Nothing is met before its call.
LEMMA IssuedStep == IInv /\ (Moves \/ UNCHANGED places) => IssuedInv'
<1>. SUFFICES ASSUME IInv, Moves \/ UNCHANGED places PROVE IssuedInv'
  OBVIOUS
<1>. USE DEF IInv, IssuedInv, CallOf, Kinds
<1>0. TypeOK
  OBVIOUS
<1>1. CASE CallsPlain
  BY <1>1, <1>0, ElementTypes, CallsEffect DEF CallsPlain, Behind
<1>2. CASE CallsSecured
  <2>1. /\ issued'["secured"] = issued["secured"] + 1 /\ issued'["plain"] = issued["plain"]
        /\ issued["secured"] \in Nat /\ issued["plain"] \in Nat
    BY <1>2, <1>0, CallsEffect, ElementTypes
  <2>2. \A m \in (Range(mq') \cup {busy} \cup dropped) \ {NoMessage} : m.n <= issued'[CallOf(m.kind)]
    <3>1. \A m \in (Range(mq) \cup {busy} \cup dropped) \ {NoMessage} : m.n <= issued'[CallOf(m.kind)]
      BY <1>0, <2>1, ElementTypes
    <3>2. LET m == Message("salt", issued["secured"] + 1) IN m.n <= issued'[CallOf(m.kind)]
      BY <1>2, <1>0, <2>1, CallsEffect
    <3>. QED
      BY <1>2, <3>1, <3>2 DEF CallsSecured, Behind
  <2>3. \A n \in (Range(secq') \cup {held} \cup cleared) \ {None} : n <= issued'["secured"]
    <3>1. \A n \in (Range(secq) \cup {held} \cup cleared) \ {None} : n \in Nat /\ n <= issued["secured"]
      BY <1>0, ElementTypes
    <3>2. /\ Range(secq') = Range(secq) \cup {issued["secured"] + 1}
          /\ held' = held /\ cleared' = cleared
      BY <1>2, <1>0, CallsSecuredEffect DEF CallsSecured
    <3>. QED
      BY <2>1, <3>1, <3>2
  <2>4. ASSUME NEW k \in Kinds, NEW n \in Range(wire[k]) PROVE n <= issued'[k]
    <3>1. n \in Nat /\ n <= issued[k]
      BY <1>0, ElementTypes
    <3>2. CASE k = "plain"
      BY <2>1, <3>1, <3>2
    <3>3. CASE k = "secured"
      BY <2>1, <3>1, <3>3
    <3>. QED
      BY <3>2, <3>3
  <2>. QED
    BY <1>2, <2>2, <2>3, <2>4 DEF CallsSecured
<1>3. CASE Takes
  BY <1>3, <1>0, ElementTypes, TakesEffect DEF Takes
<1>4. CASE Loses
  BY <1>4, <1>0, ElementTypes DEF Loses
<1>5. CASE Sends
  <2>1. \A n \in Range(wire'[busy.kind]) : n <= issued[busy.kind]
    <3>1. busy.kind \in {"plain", "secured"} /\ busy \in Messages /\ busy # NoMessage
      BY <1>5, <1>0, ElementTypes DEF Sends
    <3>2. busy.n <= issued[busy.kind]
      BY <3>1
    <3>3. \A n \in Range(wire[busy.kind]) : n <= issued[busy.kind]
      BY <3>1
    <3>. QED
      BY <1>5, <1>0, <3>2, <3>3, SendsEffect
  <2>2. \A k \in Kinds : \A n \in Range(wire'[k]) : n <= issued[k]
    BY <1>5, <1>0, <2>1, SendsEffect DEF Sends
  <2>. QED
    BY <1>5, <2>2 DEF Sends
<1>6. CASE Discards
  BY <1>6, <1>0, ElementTypes DEF Discards, Younger
<1>7. CASE Releases
  BY <1>7, <1>0, ElementTypes, SecuredMessage DEF Releases, Younger, Behind
<1>8. CASE Resumes
  BY <1>8, <1>0, ElementTypes, SecuredMessage DEF Resumes, Behind
<1>9. CASE Starts
  BY <1>9, <1>0, ElementTypes, EmptyRange DEF Starts
<1>10. CASE Abandons
  BY <1>10, <1>0, ElementTypes DEF Abandons
<1>11. CASE Clears
  BY <1>11, <1>0, ElementTypes, EmptyRange DEF Clears
<1>12. CASE UNCHANGED places
  BY <1>12 DEF places
<1>. QED
  BY <1>1, <1>2, <1>3, <1>4, <1>5, <1>6, <1>7, <1>8, <1>9, <1>10, <1>11, <1>12 DEF Moves

\* The queue stays in the order of the calls,
LEMMA QueueStep == IInv /\ (Moves \/ UNCHANGED places) => QueueInv'
<1>. SUFFICES ASSUME IInv, Moves \/ UNCHANGED places PROVE QueueInv'
  OBVIOUS
<1>. USE DEF IInv, QueueInv, IssuedInv, CallOf, WaitingInv
<1>0. TypeOK
  OBVIOUS
<1>1. CASE CallsPlain
  <2>1. Behind(Message("plain", issued["plain"] + 1))
    BY <1>1 DEF CallsPlain
  <2>2. \A x \in Range(mq) : x.kind = Message("plain", issued["plain"] + 1).kind => x.n < Message("plain", issued["plain"] + 1).n
    BY <1>1, <1>0, ElementTypes, CallsEffect DEF CallsPlain
  <2>. QED
    BY <2>1, <2>2, BehindKeepsOrder
<1>2. CASE CallsSecured
  <2>1. Behind(Message("salt", issued["secured"] + 1))
    BY <1>2 DEF CallsSecured
  <2>2. \A x \in Range(mq) : x.kind = Message("salt", issued["secured"] + 1).kind => x.n < Message("salt", issued["secured"] + 1).n
    BY <1>2, <1>0, ElementTypes, CallsEffect DEF CallsSecured
  <2>. QED
    BY <2>1, <2>2, BehindKeepsOrder
<1>3. CASE Takes
  BY <1>3, <1>0, ElementTypes, TakesEffect DEF Takes
<1>4. CASE Loses
  BY <1>4, <1>0, ElementTypes DEF Loses
<1>5. CASE Sends
  BY <1>5, <1>0, ElementTypes, SendsEffect DEF Sends
<1>6. CASE Discards
  BY <1>6, <1>0, ElementTypes DEF Discards, Younger
<1>7. CASE Releases
  <2>1. CASE UNCHANGED mq
    BY <2>1
  <2>2. CASE Behind(Message("secured", Popped))
    <3>1. \A x \in Range(mq) : x.kind = Message("secured", Popped).kind => x.n < Message("secured", Popped).n
      BY <1>7, <1>0, ElementTypes, SecuredMessage DEF Releases, Younger
    <3>. QED
      BY <2>2, <3>1, BehindKeepsOrder
  <2>. QED
    BY <1>7, <2>1, <2>2 DEF Releases
<1>8. CASE Resumes
  <2>1. Behind(Message("secured", held))
    BY <1>8 DEF Resumes
  <2>2. \A x \in Range(mq) : x.kind = Message("secured", held).kind => x.n < Message("secured", held).n
    BY <1>8, <1>0, ElementTypes, SecuredMessage DEF Resumes
  <2>. QED
    BY <2>1, <2>2, BehindKeepsOrder
<1>9. CASE Starts
  BY <1>9, <1>0, ElementTypes, EmptyRange DEF Starts
<1>10. CASE Abandons
  BY <1>10, <1>0, ElementTypes DEF Abandons
<1>11. CASE Clears
  BY <1>11, <1>0, ElementTypes, EmptyRange DEF Clears
<1>12. CASE UNCHANGED places
  BY <1>12 DEF places
<1>. QED
  BY <1>1, <1>2, <1>3, <1>4, <1>5, <1>6, <1>7, <1>8, <1>9, <1>10, <1>11, <1>12 DEF Moves

\* the message being sent is ahead of it,
LEMMA BusyStep == IInv /\ (Moves \/ UNCHANGED places) => BusyInv'
<1>. SUFFICES ASSUME IInv, Moves \/ UNCHANGED places PROVE BusyInv'
  OBVIOUS
<1>. USE DEF IInv, BusyInv, IssuedInv, CallOf, WaitingInv
<1>0. TypeOK
  OBVIOUS
<1>1. CASE CallsPlain
  BY <1>1, <1>0, ElementTypes, CallsEffect DEF CallsPlain, Behind
<1>2. CASE CallsSecured
  BY <1>2, <1>0, ElementTypes, CallsEffect, CallsSecuredEffect DEF CallsSecured, Behind
<1>3. CASE Takes
  <2>1. ASSUME NEW m \in Range(mq'), m.kind = busy'.kind PROVE busy'.n < m.n
    <3>1. PICK i \in DOMAIN mq' : m = mq'[i]
      BY <2>1 DEF Range
    <3>2. m = mq[i + 1] /\ i + 1 \in DOMAIN mq /\ 1 \in DOMAIN mq /\ 1 < i + 1 /\ busy' = mq[1]
      BY <1>3, <1>0, <3>1, TakesEffect
    <3>. QED
      BY <2>1, <3>2 DEF QueueInv
  <2>. QED
    BY <2>1
<1>4. CASE Loses
  BY <1>4, <1>0, ElementTypes DEF Loses
<1>5. CASE Sends
  BY <1>5, <1>0, ElementTypes, SendsEffect DEF Sends
<1>6. CASE Discards
  BY <1>6, <1>0, ElementTypes DEF Discards, Younger
<1>7. CASE Releases
  BY <1>7, <1>0, ElementTypes, SecuredMessage DEF Releases, Younger, Behind
<1>8. CASE Resumes
  BY <1>8, <1>0, ElementTypes, SecuredMessage DEF Resumes, Behind
<1>9. CASE Starts
  BY <1>9, <1>0, ElementTypes, EmptyRange DEF Starts
<1>10. CASE Abandons
  BY <1>10, <1>0, ElementTypes DEF Abandons
<1>11. CASE Clears
  BY <1>11, <1>0, ElementTypes, EmptyRange DEF Clears
<1>12. CASE UNCHANGED places
  BY <1>12 DEF places
<1>. QED
  BY <1>1, <1>2, <1>3, <1>4, <1>5, <1>6, <1>7, <1>8, <1>9, <1>10, <1>11, <1>12 DEF Moves

\* what was sent is ahead of both,
LEMMA WireStep == IInv /\ (Moves \/ UNCHANGED places) => WireInv'
<1>. SUFFICES ASSUME IInv, Moves \/ UNCHANGED places PROVE WireInv'
  OBVIOUS
<1>. USE DEF IInv, WireInv, BusyInv, IssuedInv, CallOf, WaitingInv, Kinds
<1>0. TypeOK
  OBVIOUS
<1>1. CASE CallsPlain
  <2>1. ASSUME NEW k \in Kinds, NEW m \in Range(mq') \cup {busy}, m.kind = k, NEW n \in Range(wire[k])
        PROVE  n < m.n
    <3>1. CASE m \in Range(mq) \cup {busy}
      BY <2>1, <3>1
    <3>2. CASE m = Message("plain", issued["plain"] + 1)
      <4>1. k = "plain" /\ m.n = issued["plain"] + 1
        BY <1>1, <1>0, <2>1, <3>2, CallsEffect
      <4>2. n <= issued["plain"] /\ n \in Nat /\ issued["plain"] \in Nat
        BY <1>0, <2>1, <4>1, ElementTypes
      <4>. QED
        BY <4>1, <4>2
    <3>. QED
      BY <1>1, <2>1, <3>1, <3>2 DEF CallsPlain, Behind
  <2>. QED
    BY <1>1, <2>1 DEF CallsPlain
<1>2. CASE CallsSecured
  BY <1>2, <1>0, ElementTypes, CallsEffect, CallsSecuredEffect DEF CallsSecured, Behind
<1>3. CASE Takes
  BY <1>3, <1>0, ElementTypes, TakesEffect DEF Takes
<1>4. CASE Loses
  BY <1>4, <1>0, ElementTypes DEF Loses
<1>5. CASE Sends
  BY <1>5, <1>0, ElementTypes, SendsEffect DEF Sends
<1>6. CASE Discards
  BY <1>6, <1>0, ElementTypes DEF Discards, Younger
<1>7. CASE Releases
  BY <1>7, <1>0, ElementTypes, SecuredMessage DEF Releases, Younger, Behind
<1>8. CASE Resumes
  <2>1. ASSUME NEW k \in Kinds, NEW m \in Range(mq') \cup {busy}, m.kind = k, NEW n \in Range(wire[k])
        PROVE  n < m.n
    <3>1. CASE m \in Range(mq) \cup {busy}
      BY <2>1, <3>1
    <3>2. CASE m = Message("secured", held)
      BY <1>8, <2>1, <3>2, SecuredMessage DEF Resumes
    <3>. QED
      BY <1>8, <2>1, <3>1, <3>2 DEF Resumes, Behind
  <2>. QED
    BY <1>8, <2>1 DEF Resumes
<1>9. CASE Starts
  BY <1>9, <1>0, ElementTypes, EmptyRange DEF Starts
<1>10. CASE Abandons
  BY <1>10, <1>0, ElementTypes DEF Abandons
<1>11. CASE Clears
  BY <1>11, <1>0, ElementTypes, EmptyRange DEF Clears
<1>12. CASE UNCHANGED places
  BY <1>12 DEF places
<1>. QED
  BY <1>1, <1>2, <1>3, <1>4, <1>5, <1>6, <1>7, <1>8, <1>9, <1>10, <1>11, <1>12 DEF Moves

\* the secured commands wait in order,
LEMMA SecuredStep == IInv /\ (Moves \/ UNCHANGED places) => SecuredInv'
<1>. SUFFICES ASSUME IInv, Moves \/ UNCHANGED places PROVE SecuredInv'
  OBVIOUS
<1>. USE DEF IInv, SecuredInv, IssuedInv
<1>0. TypeOK
  OBVIOUS
<1>1. CASE CallsPlain
  BY <1>1, <1>0, ElementTypes, CallsEffect DEF CallsPlain, Behind
<1>2. CASE CallsSecured
  <2>1. ASSUME NEW i \in DOMAIN secq', NEW j \in DOMAIN secq', i < j PROVE secq'[i] < secq'[j]
    <3>1. i \in DOMAIN secq /\ secq'[i] = secq[i] /\ secq[i] \in Range(secq)
      BY <1>2, <1>0, <2>1, CallsSecuredEffect DEF Range
    <3>2. CASE secq'[j] = issued["secured"] + 1
      BY <1>0, <3>1, <3>2, ElementTypes
    <3>3. CASE j \in DOMAIN secq /\ secq'[j] = secq[j]
      BY <2>1, <3>1, <3>3
    <3>. QED
      BY <1>2, <1>0, <2>1, <3>2, <3>3, CallsSecuredEffect
  <2>2. held' # None => \A n \in Range(secq') : held' < n
    BY <1>2, <1>0, ElementTypes, CallsSecuredEffect DEF CallsSecured
  <2>. QED
    BY <2>1, <2>2
<1>3. CASE Takes
  BY <1>3, <1>0, ElementTypes, TakesEffect DEF Takes
<1>4. CASE Loses
  BY <1>4, <1>0, ElementTypes DEF Loses
<1>5. CASE Sends
  BY <1>5, <1>0, ElementTypes, SendsEffect DEF Sends
<1>6. CASE Discards
  BY <1>6, <1>0, ElementTypes DEF Discards, Younger
<1>7. CASE Releases
  BY <1>7, <1>0, ElementTypes, SecuredMessage DEF Releases, Younger, Behind
<1>8. CASE Resumes
  BY <1>8, <1>0, ElementTypes, SecuredMessage DEF Resumes, Behind
<1>9. CASE Starts
  BY <1>9, <1>0, ElementTypes, EmptyRange DEF Starts
<1>10. CASE Abandons
  BY <1>10, <1>0, ElementTypes DEF Abandons
<1>11. CASE Clears
  BY <1>11, <1>0, ElementTypes, EmptyRange DEF Clears
<1>12. CASE UNCHANGED places
  BY <1>12 DEF places
<1>. QED
  BY <1>1, <1>2, <1>3, <1>4, <1>5, <1>6, <1>7, <1>8, <1>9, <1>10, <1>11, <1>12 DEF Moves

\* behind every secured command that was released,
LEMMA WaitingStep == IInv /\ (Moves \/ UNCHANGED places) => WaitingInv'
<1>. SUFFICES ASSUME IInv, Moves \/ UNCHANGED places PROVE WaitingInv'
  OBVIOUS
<1>. USE DEF IInv, WaitingInv, SecuredInv, IssuedInv, CallOf, Kinds
<1>0. TypeOK
  OBVIOUS
<1>1. CASE CallsPlain
  BY <1>1, <1>0, ElementTypes, CallsEffect DEF CallsPlain, Behind
<1>2. CASE CallsSecured
  <2>1. /\ \A m \in Range(mq') \cup {busy} \cup dropped : m.kind = "secured" => m \in Range(mq) \cup {busy} \cup dropped
        /\ \A m \in Range(mq) \cup {busy} \cup dropped : m.kind = "secured" => m.n <= issued["secured"] /\ m.n \in Nat
    BY <1>2, <1>0, ElementTypes, CallsEffect DEF CallsSecured, Behind
  <2>2. \A n \in Range(wire["secured"]) : n <= issued["secured"] /\ n \in Nat
    BY <1>0, ElementTypes
  <2>3. ASSUME NEW x \in Range(secq') \cup ({held} \ {None})
        PROVE  x \in Range(secq) \cup ({held} \ {None}) \/ x = issued["secured"] + 1
    BY <1>2, <1>0, <2>3, CallsSecuredEffect
  <2>4. ASSUME NEW x \in Range(secq') \cup ({held} \ {None})
        PROVE  /\ \A m \in Range(mq) \cup {busy} \cup dropped : m.kind = "secured" => m.n < x
               /\ \A n \in Range(wire["secured"]) : n < x
    <3>1. CASE x \in Range(secq) \cup ({held} \ {None})
      BY <3>1
    <3>2. CASE x = issued["secured"] + 1
      BY <1>0, <2>1, <2>2, <3>2, ElementTypes
    <3>. QED
      BY <2>3, <2>4, <3>1, <3>2
  <2>. QED
    BY <1>2, <2>1, <2>4 DEF CallsSecured
<1>3. CASE Takes
  BY <1>3, <1>0, ElementTypes, TakesEffect DEF Takes
<1>4. CASE Loses
  BY <1>4, <1>0, ElementTypes DEF Loses
<1>5. CASE Sends
  BY <1>5, <1>0, ElementTypes, SendsEffect DEF Sends
<1>6. CASE Discards
  BY <1>6, <1>0, ElementTypes DEF Discards, Younger
<1>7. CASE Releases
  BY <1>7, <1>0, ElementTypes, SecuredMessage DEF Releases, Younger, Behind
<1>8. CASE Resumes
  BY <1>8, <1>0, ElementTypes, SecuredMessage DEF Resumes, Behind
<1>9. CASE Starts
  BY <1>9, <1>0, ElementTypes, EmptyRange DEF Starts
<1>10. CASE Abandons
  BY <1>10, <1>0, ElementTypes DEF Abandons
<1>11. CASE Clears
  BY <1>11, <1>0, ElementTypes, EmptyRange DEF Clears
<1>12. CASE UNCHANGED places
  BY <1>12 DEF places
<1>. QED
  BY <1>1, <1>2, <1>3, <1>4, <1>5, <1>6, <1>7, <1>8, <1>9, <1>10, <1>11, <1>12 DEF Moves

\* and the wire gets them in that order.
LEMMA InOrderStep == IInv /\ (Moves \/ UNCHANGED places) => InOrderAtMostOnce'
<1>. SUFFICES ASSUME IInv, Moves \/ UNCHANGED places PROVE InOrderAtMostOnce'
  OBVIOUS
<1>. USE DEF IInv, InOrderAtMostOnce, WireInv
<1>0. TypeOK
  OBVIOUS
<1>1. CASE CallsPlain
  BY <1>1, <1>0, ElementTypes, CallsEffect DEF CallsPlain, Behind
<1>2. CASE CallsSecured
  BY <1>2, <1>0, ElementTypes, CallsEffect, CallsSecuredEffect DEF CallsSecured, Behind
<1>3. CASE Takes
  BY <1>3, <1>0, ElementTypes, TakesEffect DEF Takes
<1>4. CASE Loses
  BY <1>4, <1>0, ElementTypes DEF Loses
<1>5. CASE Sends
  <2>1. ASSUME NEW k \in Kinds, NEW i \in DOMAIN wire'[k], NEW j \in DOMAIN wire'[k], i < j
        PROVE  wire'[k][i] < wire'[k][j]
    <3>1. CASE k # busy.kind
      BY <1>5, <1>0, <2>1, <3>1, SendsEffect
    <3>2. CASE k = busy.kind
      <4>1. /\ i \in DOMAIN wire[k] /\ wire'[k][i] = wire[k][i] /\ wire[k][i] \in Range(wire[k])
            /\ wire'[k][j] = busy.n \/ (j \in DOMAIN wire[k] /\ wire'[k][j] = wire[k][j])
        BY <1>5, <1>0, <2>1, <3>2, SendsEffect DEF Range
      <4>. QED
        BY <2>1, <3>2, <4>1
    <3>. QED
      BY <3>1, <3>2
  <2>. QED
    BY <2>1
<1>6. CASE Discards
  BY <1>6, <1>0, ElementTypes DEF Discards, Younger
<1>7. CASE Releases
  BY <1>7, <1>0, ElementTypes, SecuredMessage DEF Releases, Younger, Behind
<1>8. CASE Resumes
  BY <1>8, <1>0, ElementTypes, SecuredMessage DEF Resumes, Behind
<1>9. CASE Starts
  BY <1>9, <1>0, ElementTypes, EmptyRange DEF Starts
<1>10. CASE Abandons
  BY <1>10, <1>0, ElementTypes DEF Abandons
<1>11. CASE Clears
  BY <1>11, <1>0, ElementTypes, EmptyRange DEF Clears
<1>12. CASE UNCHANGED places
  BY <1>12 DEF places
<1>. QED
  BY <1>1, <1>2, <1>3, <1>4, <1>5, <1>6, <1>7, <1>8, <1>9, <1>10, <1>11, <1>12 DEF Moves

\* A dropped command is behind no put.
LEMMA DroppedStep == IInv /\ (Moves \/ UNCHANGED places) => DroppedInv'
<1>. SUFFICES ASSUME IInv, Moves \/ UNCHANGED places PROVE DroppedInv'
  OBVIOUS
<1>. USE DEF IInv, DroppedInv, IssuedInv, WaitingInv, CallOf
<1>0. TypeOK
  OBVIOUS
<1>1. CASE CallsPlain
  BY <1>1, <1>0, ElementTypes, CallsEffect DEF CallsPlain, Behind
<1>2. CASE CallsSecured
  BY <1>2, <1>0, ElementTypes, CallsEffect, CallsSecuredEffect DEF CallsSecured, Behind
<1>3. CASE Takes
  BY <1>3, <1>0, ElementTypes, TakesEffect DEF Takes
<1>4. CASE Loses
  BY <1>4, <1>0, ElementTypes DEF Loses
<1>5. CASE Sends
  BY <1>5, <1>0, ElementTypes, SendsEffect DEF Sends
<1>6. CASE Discards
  BY <1>6, <1>0, ElementTypes DEF Discards, Younger
<1>7. CASE Releases
  BY <1>7, <1>0, ElementTypes, SecuredMessage DEF Releases, Younger, Behind
<1>8. CASE Resumes
  BY <1>8, <1>0, ElementTypes, SecuredMessage DEF Resumes, Behind
<1>9. CASE Starts
  BY <1>9, <1>0, ElementTypes, EmptyRange DEF Starts
<1>10. CASE Abandons
  BY <1>10, <1>0, ElementTypes DEF Abandons
<1>11. CASE Clears
  BY <1>11, <1>0, ElementTypes, EmptyRange DEF Clears
<1>12. CASE UNCHANGED places
  BY <1>12 DEF places
<1>. QED
  BY <1>1, <1>2, <1>3, <1>4, <1>5, <1>6, <1>7, <1>8, <1>9, <1>10, <1>11, <1>12 DEF Moves

\* Only the passing of time lets a command expire.
LEMMA ExpiresOnly == [Next]_vars => Expire \/ expired' = expired
BY DEF Next, SendPlain, SendSecured, TakeNext, SendCompletes, SaltReply, SaltRejected,
   PutResumes, SessionStarts, SessionFails, CloseCancels, CancelWorkers, RecoveryClose,
   Close, Dial, DialFails, Authenticated, SocketLost, SessionUnwound,
   vars, sessionVars, queueVars, workerVars, saltVars, historyVars

\* A command expires while every later place holds older ones only, and an expired
\* one is never popped.
LEMMA ExpiredStep == IInv /\ [Next]_vars => ExpiredInv'
<1>. SUFFICES ASSUME IInv, [Next]_vars PROVE ExpiredInv'
  OBVIOUS
<1>0. TypeOK /\ ExpiredInv
  BY DEF IInv
<1>a. CASE Expire
  <2>1. UNCHANGED places
    BY <1>a, QuietSteps DEF Quiet
  <2>2. PICK i \in DOMAIN secq : expired' = expired \cup {secq[i]}
    BY <1>a DEF Expire
  <2>3. secq[i] \in Range(secq) /\ secq[i] \in Nat
    BY <1>0, ElementTypes DEF Range
  <2>4. held # secq[i]
    BY <1>0, <2>3, ElementTypes DEF IInv, SecuredInv
  <2>5. /\ \A m \in Range(mq) \cup {busy} : m.kind = "secured" => m.n # secq[i]
        /\ \A n \in Range(wire["secured"]) : n < secq[i]
    BY <1>0, <2>3, ElementTypes DEF IInv, WaitingInv
  <2>6. secq[i] \notin Range(wire["secured"])
    BY <2>3, <2>5
  <2>. QED
    BY <1>0, <2>1, <2>2, <2>4, <2>5, <2>6 DEF ExpiredInv, places
<1>b. CASE expired' = expired
  <2>. USE DEF ExpiredInv
  <2>1. CASE CallsPlain
    BY <1>0, <1>b, <2>1, CallsEffect DEF CallsPlain, Behind, Message
  <2>2. CASE CallsSecured
    BY <1>0, <1>b, <2>2, CallsEffect DEF CallsSecured, Behind, Message
  <2>3. CASE Takes
    BY <1>0, <1>b, <2>3, TakesEffect DEF Takes
  <2>4. CASE Loses
    BY <1>0, <1>b, <2>4, ElementTypes DEF Loses
  <2>5. CASE Sends
    <3>1. Range(wire'["secured"]) \subseteq
            Range(wire["secured"]) \cup (IF busy.kind = "secured" THEN {busy.n} ELSE {})
      BY <1>0, <2>5, SendsEffect, ElementTypes DEF Sends, Kinds
    <3>. QED
      BY <1>0, <1>b, <2>5, <3>1, ElementTypes DEF Sends
  <2>6. CASE Discards
    BY <1>0, <1>b, <2>6 DEF Discards
  <2>7. CASE Releases
    <3>1. Popped \notin expired
      BY <1>0, <2>7, PopEffect DEF Releases, TypeOK
    <3>. QED
      BY <1>0, <1>b, <2>7, <3>1, ElementTypes, SecuredMessage, ChannelAssumption
         DEF Releases, Behind, TypeOK, SecuredTypes
  <2>8. CASE Resumes
    BY <1>0, <1>b, <2>8, SecuredMessage, ChannelAssumption
       DEF Resumes, Behind, TypeOK, SecuredTypes
  <2>9. CASE Starts
    BY <1>0, <1>b, <2>9, EmptyRange DEF Starts
  <2>10. CASE Abandons
    BY <1>0, <1>b, <2>10, ChannelAssumption DEF Abandons, TypeOK, SecuredTypes
  <2>11. CASE Clears
    BY <1>0, <1>b, <2>11 DEF Clears
  <2>12. CASE UNCHANGED places
    BY <1>0, <1>b, <2>12 DEF places
  <2>. QED
    BY <2>1, <2>2, <2>3, <2>4, <2>5, <2>6, <2>7, <2>8, <2>9, <2>10, <2>11, <2>12, StepMoves
       DEF Moves
<1>. QED
  BY <1>a, <1>b, ExpiresOnly

\* A session opens with nothing released, and keeps what its replies release.
LEMMA HashedOf ==
  [Next]_vars => SessionStarts \/ (hashed \subseteq hashed' /\ (InSession' => InSession))
BY DEF InSession, Listening, Cancelled, Next, SendPlain, SendSecured, TakeNext, SendCompletes,
   SaltReply, SaltRejected, PutResumes, SessionFails, CloseCancels, CancelWorkers,
   RecoveryClose, Close, Expire, Dial, DialFails, Authenticated, SocketLost, SessionUnwound,
   vars, sessionVars, queueVars, workerVars, saltVars, historyVars

\* Whatever moves a released command, it was released in the session that moves it.
LEMMA HashedStep == IInv /\ [Next]_vars => HashedInv'
<1>. SUFFICES ASSUME IInv, [Next]_vars, InSession'
              PROVE  /\ held' # None => held' \in hashed'
                     /\ \A m \in Range(mq') \cup {busy'} : m.kind = "secured" => m.n \in hashed'
  BY DEF HashedInv
<1>0. TypeOK /\ HashedInv
  BY DEF IInv
<1>a. CASE SessionStarts
  BY <1>0, <1>a, EmptyRange, ElementTypes
     DEF SessionStarts, StaleDropped, saltVars, IInv, WriterInv, Listening
<1>b. CASE hashed \subseteq hashed' /\ InSession
  <2>. USE DEF HashedInv
  <2>1. CASE CallsPlain
    BY <1>0, <1>b, <2>1, CallsEffect DEF CallsPlain, Behind, Message
  <2>2. CASE CallsSecured
    BY <1>0, <1>b, <2>2, CallsEffect DEF CallsSecured, Behind, Message
  <2>3. CASE Takes
    BY <1>0, <1>b, <2>3, TakesEffect DEF Takes
  <2>4. CASE Loses
    BY <1>0, <1>b, <2>4, ElementTypes DEF Loses
  <2>5. CASE Sends
    BY <1>0, <1>b, <2>5, ElementTypes DEF Sends
  <2>6. CASE Discards
    BY <1>0, <1>b, <2>6 DEF Discards
  <2>7. CASE Releases
    BY <1>0, <1>b, <2>7, SecuredMessage DEF Releases, Behind
  <2>8. CASE Resumes
    BY <1>0, <1>b, <2>8, SecuredMessage DEF Resumes, Behind
  <2>9. CASE Starts
    BY <1>0, <1>b, <2>9, EmptyRange DEF Starts
  <2>10. CASE Abandons
    BY <1>0, <1>b, <2>10 DEF Abandons
  <2>11. CASE Clears
    BY <1>0, <1>b, <2>11 DEF Clears
  <2>12. CASE UNCHANGED places
    BY <1>0, <1>b, <2>12 DEF places
  <2>. QED
    BY <2>1, <2>2, <2>3, <2>4, <2>5, <2>6, <2>7, <2>8, <2>9, <2>10, <2>11, <2>12, StepMoves
       DEF Moves
<1>. QED
  BY <1>a, <1>b, HashedOf

\* A dropped command is behind no send.
LEMMA DroppedNotSent ==
  IInv /\ (Moves \/ UNCHANGED places) =>
    \A m \in dropped' : m.kind \in Kinds => m.n \notin Range(wire'[m.kind])
<1>. SUFFICES ASSUME IInv, Moves \/ UNCHANGED places
              PROVE  \A m \in dropped' : m.kind \in Kinds => m.n \notin Range(wire'[m.kind])
  OBVIOUS
<1>0. TypeOK /\ StaleNeverFires
  BY DEF IInv
<1>1. CASE Sends
  <2>. SUFFICES ASSUME NEW m \in dropped, m.kind \in Kinds PROVE m.n \notin Range(wire'[m.kind])
    BY <1>1 DEF Sends
  <2>1. m \in Messages /\ busy \in Messages /\ m # busy
    BY <1>0, <1>1, ElementTypes DEF Sends, IInv, DroppedInv, Kinds
  <2>2. m.kind # busy.kind \/ m.n # busy.n
    BY <2>1 DEF Messages
  <2>3. Range(wire'[m.kind]) \subseteq
          Range(wire[m.kind]) \cup (IF busy.kind = m.kind THEN {busy.n} ELSE {})
    BY <1>0, <1>1, SendsEffect, ElementTypes DEF Sends, Kinds
  <2>4. m.n \notin Range(wire[m.kind])
    BY <1>0 DEF StaleNeverFires
  <2>. QED
    BY <2>2, <2>3, <2>4
<1>2. CASE Starts
  <2>1. ASSUME NEW m \in Range(mq), m.kind \in Kinds PROVE m.n \notin Range(wire[m.kind])
    <3>1. m.n \in Nat /\ \A n \in Range(wire[m.kind]) : n < m.n
      BY <1>0, <2>1, ElementTypes DEF IInv, WireInv
    <3>. QED
      BY <3>1
  <2>. QED
    BY <1>0, <1>2, <2>1 DEF Starts, StaleNeverFires
<1>3. CASE ~Sends /\ ~Starts
  <2>1. dropped' = dropped /\ wire' = wire
    BY <1>3 DEF Moves, CallsPlain, CallsSecured, Takes, Loses, Discards, Releases, Resumes,
       Abandons, Clears, places
  <2>. QED
    BY <1>0, <2>1 DEF StaleNeverFires
<1>. QED
  BY <1>1, <1>2, <1>3

\* A cleared command is behind no pop.
LEMMA ClearedStep == IInv /\ (Moves \/ UNCHANGED places) => ClearedNeverReleased'
<1>. SUFFICES ASSUME IInv, Moves \/ UNCHANGED places PROVE ClearedNeverReleased'
  OBVIOUS
<1>. USE DEF IInv, ClearedNeverReleased, IssuedInv, SecuredInv
<1>0. TypeOK
  OBVIOUS
<1>1. CASE CallsPlain
  BY <1>1, <1>0, ElementTypes, CallsEffect DEF CallsPlain, Behind
<1>2. CASE CallsSecured
  BY <1>2, <1>0, ElementTypes, CallsEffect, CallsSecuredEffect DEF CallsSecured, Behind
<1>3. CASE Takes
  BY <1>3, <1>0, ElementTypes, TakesEffect DEF Takes
<1>4. CASE Loses
  BY <1>4, <1>0, ElementTypes DEF Loses
<1>5. CASE Sends
  BY <1>5, <1>0, ElementTypes, SendsEffect DEF Sends
<1>6. CASE Discards
  BY <1>6, <1>0, ElementTypes DEF Discards, Younger
<1>7. CASE Releases
  BY <1>7, <1>0, ElementTypes, SecuredMessage DEF Releases, Younger, Behind
<1>8. CASE Resumes
  BY <1>8, <1>0, ElementTypes, SecuredMessage DEF Resumes, Behind
<1>9. CASE Starts
  BY <1>9, <1>0, ElementTypes, EmptyRange DEF Starts
<1>10. CASE Abandons
  BY <1>10, <1>0, ElementTypes DEF Abandons
<1>11. CASE Clears
  BY <1>11, <1>0, ElementTypes, EmptyRange DEF Clears
<1>12. CASE UNCHANGED places
  BY <1>12 DEF places
<1>. QED
  BY <1>1, <1>2, <1>3, <1>4, <1>5, <1>6, <1>7, <1>8, <1>9, <1>10, <1>11, <1>12 DEF Moves

-----------------------------------------------------------------------------
(* The theorems.                                                           *)

\* The queues start empty.
LEMMA InitInvariant == Init => IInv
<1>. SUFFICES ASSUME Init PROVE IInv
  OBVIOUS
<1>. USE DEF Init
<1>1. TypeOK
  <2>1. /\ <<>> \in Seq(Messages) /\ <<>> \in Seq(Nat) /\ <<>> \in Seq(1..Secured) /\ Len(<<>>) = 0
    BY EmptySeq
  <2>2. SessionTypes /\ QueueTypes
    <3>1. SessionTypes
      BY DEF SessionTypes
    <3>2. 0 <= Capacity
      BY ChannelAssumption
    <3>. QED
      BY <2>1, <3>1, <3>2 DEF QueueTypes
  <2>3. SecuredTypes /\ HistoryTypes
    BY <2>1, ChannelAssumption DEF SecuredTypes, HistoryTypes, Kinds
  <2>. QED
    BY <2>2, <2>3 DEF TypeOK
<1>2. TaskAccounting /\ WriterInv
  BY EmptySeq DEF TaskAccounting, WriterInv
<1>3. \A k \in Kinds : wire[k] = <<>>
  OBVIOUS
<1>4. IssuedInv /\ QueueInv /\ BusyInv /\ WireInv
  BY <1>3, EmptyRange DEF IssuedInv, QueueInv, BusyInv, WireInv
<1>5. SecuredInv /\ WaitingInv
  BY EmptyRange DEF SecuredInv, WaitingInv
<1>6. InOrderAtMostOnce /\ StaleNeverFires
  BY <1>3, EmptyRange DEF InOrderAtMostOnce, StaleNeverFires
<1>7. DroppedInv /\ ExpiredInv /\ HashedInv
  BY DEF DroppedInv, ExpiredInv, HashedInv, InSession, Listening, Cancelled
<1>8. ClearedNeverReleased
  BY DEF ClearedNeverReleased
<1>. QED
  BY <1>1, <1>2, <1>4, <1>5, <1>6, <1>7, <1>8 DEF IInv

\* The invariant of the channel.
THEOREM Invariance == Spec => []IInv
<1>1. Init => IInv
  BY InitInvariant
<1>2. IInv /\ [Next]_vars => IInv'
  <2>. SUFFICES ASSUME IInv, [Next]_vars PROVE IInv'
    OBVIOUS
  <2>1. TypeOK'
    BY SessionTypesStep, QueueTypesStep, SecuredTypesStep, HistoryTypesStep DEF IInv, TypeOK
  <2>2. TaskAccounting' /\ WriterInv'
    BY AccountingStep, WriterStep
  <2>3. Moves \/ UNCHANGED places
    BY StepMoves
  <2>4. IssuedInv' /\ QueueInv' /\ BusyInv' /\ WireInv' /\ SecuredInv' /\ WaitingInv'
    BY <2>3, IssuedStep, QueueStep, BusyStep, WireStep, SecuredStep, WaitingStep
  <2>5. DroppedInv' /\ ExpiredInv' /\ HashedInv'
    BY <2>3, DroppedStep, ExpiredStep, HashedStep
  <2>6. StaleNeverFires'
    BY <2>3, <2>5, DroppedNotSent DEF StaleNeverFires, ExpiredInv
  <2>7. InOrderAtMostOnce' /\ ClearedNeverReleased'
    BY <2>3, InOrderStep, ClearedStep
  <2>. QED
    BY <2>1, <2>2, <2>4, <2>5, <2>6, <2>7 DEF IInv
<1>. QED
  BY <1>1, <1>2, PTL DEF Spec

\* Every variable keeps its type and the queue its bound, for any capacity.
THEOREM TypeCorrect == Spec => []TypeOK
<1>1. IInv => TypeOK
  BY DEF IInv
<1>. QED
  BY <1>1, Invariance, PTL

\* join() in close() never returns early and never waits for a message that has
\* already gone, whatever was dropped, lost or drained before.
THEOREM JoinIsHonest == Spec => []TaskAccounting
<1>1. IInv => TaskAccounting
  BY DEF IInv
<1>. QED
  BY <1>1, Invariance, PTL

\* No command overtakes another of its kind, and none is sent twice.
THEOREM InOrder == Spec => []InOrderAtMostOnce
<1>1. IInv => InOrderAtMostOnce
  BY DEF IInv
<1>. QED
  BY <1>1, Invariance, PTL

\* What start_listening() dropped as stale, and what waited past its timeout, reaches
\* the Miniserver in no later session.
THEOREM StaleStaysDropped == Spec => []StaleNeverFires
<1>1. IInv => StaleNeverFires
  BY DEF IInv
<1>. QED
  BY <1>1, Invariance, PTL

\* What close() cleared is released by no later getvisusalt reply.
THEOREM ClearedStaysCleared == Spec => []ClearedNeverReleased
<1>1. IInv => ClearedNeverReleased
  BY DEF IInv
<1>. QED
  BY <1>1, Invariance, PTL

\* A secured command is sent by the session that hashed it, or never: the queue, the
\* waiting put and the writer carry none into the next session.
THEOREM SaltIsOfTheSession == Spec => SentUnderItsSalt
<1>1. IInv /\ [Next]_vars => [Range(wire'["secured"]) \ Range(wire["secured"]) \subseteq hashed]_vars
  <2>. SUFFICES ASSUME IInv, [Next]_vars
                PROVE  Range(wire'["secured"]) \ Range(wire["secured"]) \subseteq hashed
    OBVIOUS
  <2>0. TypeOK
    BY DEF IInv
  <2>1. CASE Sends
    <3>1. Range(wire'["secured"]) \subseteq
            Range(wire["secured"]) \cup (IF busy.kind = "secured" THEN {busy.n} ELSE {})
      BY <2>0, <2>1, SendsEffect, ElementTypes DEF Sends, Kinds
    <3>2. worker = "sending"
      BY <2>0, <2>1, ElementTypes DEF IInv, WriterInv, Sends, Kinds
    <3>3. InSession
      BY <2>0, <3>2 DEF IInv, WriterInv, InSession, Listening, Cancelled, TypeOK, SessionTypes
    <3>4. busy.kind = "secured" => busy.n \in hashed
      BY <3>3 DEF IInv, HashedInv
    <3>. QED
      BY <3>1, <3>4
  <2>2. CASE ~Sends
    <3>1. wire' = wire
      BY <2>2, StepMoves DEF Moves, CallsPlain, CallsSecured, Takes, Loses, Discards, Releases,
         Resumes, Starts, Abandons, Clears, places
    <3>. QED
      BY <3>1
  <2>. QED
    BY <2>1, <2>2
<1>. QED
  BY <1>1, Invariance, PTL DEF Spec, SentUnderItsSalt

-----------------------------------------------------------------------------
(* The channel implements the ledger.                                      *)

Ledgered == [c \in Calls |-> Entry(c[1], c[2])]

\* A command of the ledger is a number of its kind that is not None.
LEMMA CallsFacts ==
  ASSUME NEW c \in Calls
  PROVE  /\ c[1] \in Kinds /\ c[2] \in Nat /\ c = <<c[1], c[2]>>
         /\ c[1] = "secured" => c[2] # None
         /\ Message(c[1], c[2]) \in Messages /\ Message(c[1], c[2]) # NoMessage
         /\ Message(c[1], c[2]).kind = c[1] /\ Message(c[1], c[2]).n = c[2]
BY ChannelAssumption DEF Calls, Kinds, Message, Messages, NoMessage

\* A step that makes no call, sends nothing and puts nothing anywhere it was not
\* in transit already can only lose commands.
LEMMA LosesOnly ==
  ASSUME issued' = issued, wire' = wire,
         \A c \in Calls : InTransit(c[1], c[2])' => InTransit(c[1], c[2])
  PROVE  [Ledger!Next]_Ledgered
<1> DEFINE Lost == {c \in Calls : Ledgered'[c] # Ledgered[c]}
<1>1. ASSUME NEW c \in Lost PROVE Ledgered[c] = "pending" /\ Ledgered'[c] = "gone"
  BY <1>1 DEF Ledgered, Entry
<1>2. CASE Lost = {}
  <2>1. Ledgered' = Ledgered
    BY <1>2 DEF Ledgered
  <2>. QED
    BY <2>1
<1>3. CASE Lost # {}
  <2>1. Ledgered' = [c \in Calls |-> IF c \in Lost THEN "gone" ELSE Ledgered[c]]
    BY <1>1 DEF Ledgered
  <2>2. Ledger!Lose(Lost)
    BY <1>1, <1>3, <2>1 DEF Ledger!Lose, Ledgered
  <2>. QED
    BY <2>2 DEF Ledger!Next
<1>. QED
  BY <1>2, <1>3

\* A step that changes one entry is a call or a delivery of that command.
LEMMA ChangesOne ==
  ASSUME NEW c \in Calls, \A d \in Calls \ {c} : Ledgered'[d] = Ledgered[d],
         \/ Ledgered[c] = "new" /\ Ledgered'[c] \in {"pending", "gone"}
         \/ Ledgered[c] = "pending" /\ Ledgered'[c] = "sent"
  PROVE  Ledger!Next
<1>1. Ledgered' = [Ledgered EXCEPT ![c] = Ledgered'[c]]
  BY DEF Ledgered
<1>2. CASE Ledgered[c] = "new" /\ Ledgered'[c] \in {"pending", "gone"}
  <2>1. Ledger!Call(c)
    BY <1>1, <1>2 DEF Ledger!Call, Ledgered
  <2>. QED
    BY <2>1 DEF Ledger!Next
<1>3. CASE Ledgered[c] = "pending" /\ Ledgered'[c] = "sent"
  <2>1. Ledger!Deliver(c)
    BY <1>1, <1>3 DEF Ledger!Deliver, Ledgered
  <2>. QED
    BY <2>1 DEF Ledger!Next
<1>. QED
  BY <1>2, <1>3

\* A call of a kind: its command is new until then, and no other entry changes.
LEMMA CallChangesOne ==
  ASSUME IInv, NEW k \in Kinds, <<k, issued[k] + 1>> \in Calls,
         issued' = [issued EXCEPT ![k] = @ + 1], wire' = wire,
         \A c \in Calls : c # <<k, issued[k] + 1>> =>
           (InTransit(c[1], c[2])' <=> InTransit(c[1], c[2]))
  PROVE  Ledger!Next
<1> DEFINE called == <<k, issued[k] + 1>>
<1>1. issued \in [Kinds -> Nat] /\ \A j \in Kinds : issued[j] \in Nat
  BY DEF IInv, TypeOK, HistoryTypes
<1>2. Ledgered[called] = "new"
  BY <1>1 DEF Ledgered, Entry
<1>3. issued[k] + 1 \notin Range(wire'[k])
  <2>1. \A n \in Range(wire[k]) : n \in Nat /\ n <= issued[k]
    BY ElementTypes DEF IInv, IssuedInv
  <2>. QED
    BY <1>1, <2>1
<1>4. Ledgered'[called] \in {"pending", "gone"}
  BY <1>1, <1>3 DEF Ledgered, Entry
<1>5. ASSUME NEW d \in Calls \ {called} PROVE Ledgered'[d] = Ledgered[d]
  <2>1. d[2] > issued'[d[1]] <=> d[2] > issued[d[1]]
    BY <1>1, CallsFacts
  <2>. QED
    BY <2>1 DEF Ledgered, Entry
<1>. QED
  BY <1>2, <1>4, <1>5, ChangesOne

\* A step of the channel is a step of the ledger, or none that it can see.
LEMMA LedgerStep == IInv /\ HistoryTypes' /\ (Moves \/ UNCHANGED places) => [Ledger!Next]_Ledgered
<1>. SUFFICES ASSUME IInv, HistoryTypes', Moves \/ UNCHANGED places PROVE [Ledger!Next]_Ledgered
  OBVIOUS
<1>0. TypeOK
  BY DEF IInv
<1>1. CASE CallsPlain
  <2>1. <<"plain", issued["plain"] + 1>> \in Calls
    <3>1. issued["plain"] \in Nat /\ issued'["plain"] = issued["plain"] + 1
      BY <1>0, <1>1, ElementTypes DEF CallsPlain, TypeOK, HistoryTypes, Kinds
    <3>2. issued["plain"] + 1 \in 1..Plain
      BY <3>1, ChannelAssumption DEF HistoryTypes
    <3>. QED
      BY <3>2 DEF Calls
  <2>2. ASSUME NEW c \in Calls, c # <<"plain", issued["plain"] + 1>>
        PROVE  InTransit(c[1], c[2])' <=> InTransit(c[1], c[2])
    <3>1. Message(c[1], c[2]) # Message("plain", issued["plain"] + 1)
      BY <2>2, CallsFacts DEF Message
    <3>. QED
      BY <1>1, <3>1 DEF CallsPlain, Behind, InTransit
  <2>. QED
    BY <1>1, <2>1, <2>2, CallChangesOne DEF CallsPlain, Kinds
<1>2. CASE CallsSecured
  <2>1. <<"secured", issued["secured"] + 1>> \in Calls
    BY <1>2 DEF CallsSecured, Calls
  <2>2. ASSUME NEW c \in Calls, c # <<"secured", issued["secured"] + 1>>
        PROVE  InTransit(c[1], c[2])' <=> InTransit(c[1], c[2])
    <3>1. Message(c[1], c[2]) # Message("salt", issued["secured"] + 1)
      BY CallsFacts DEF Message, Kinds
    <3>2. c[1] = "secured" => c[2] # issued["secured"] + 1
      BY <2>2, CallsFacts
    <3>. QED
      BY <1>0, <1>2, <3>1, <3>2, CallsSecuredEffect DEF CallsSecured, Behind, InTransit
  <2>. QED
    BY <1>2, <2>1, <2>2, CallChangesOne DEF CallsSecured, Kinds
<1>3. CASE Takes
  <2>1. ASSUME NEW c \in Calls PROVE InTransit(c[1], c[2])' => InTransit(c[1], c[2])
    BY <1>0, <1>3, <2>1, TakesEffect DEF Takes, InTransit
  <2>. QED
    BY <1>3, <2>1, LosesOnly DEF Takes
<1>4. CASE Loses
  <2>1. ASSUME NEW c \in Calls PROVE InTransit(c[1], c[2])' => InTransit(c[1], c[2])
    BY <1>4, CallsFacts DEF Loses, InTransit
  <2>. QED
    BY <1>4, <2>1, LosesOnly DEF Loses
<1>5. CASE Sends
  <2> DEFINE delivered == <<busy.kind, busy.n>>
  <2>1. ASSUME NEW c \in Calls \ {delivered} PROVE Ledgered'[c] = Ledgered[c]
    <3>1. Message(c[1], c[2]) # busy
      BY <2>1, CallsFacts
    <3>2. InTransit(c[1], c[2])' <=> InTransit(c[1], c[2])
      BY <1>5, <3>1, CallsFacts DEF Sends, InTransit
    <3>3. c[2] \in Range(wire'[c[1]]) <=> c[2] \in Range(wire[c[1]])
      BY <1>0, <1>5, <2>1, SendsEffect, CallsFacts
    <3>. QED
      BY <1>5, <3>2, <3>3 DEF Ledgered, Entry, Sends
  <2>2. CASE delivered \in Calls
    <3>1. busy \in Messages /\ busy = Message(busy.kind, busy.n)
      BY <1>0, <1>5, ElementTypes DEF Sends, Kinds, Messages, Message
    <3>2. busy.n <= issued[busy.kind] /\ issued[busy.kind] \in Nat /\ busy.n \in Nat
      BY <1>0, <1>5, <3>1, ElementTypes DEF Sends, IInv, IssuedInv, CallOf, Kinds
    <3>3. busy.n \notin Range(wire[busy.kind])
      <4>1. \A n \in Range(wire[busy.kind]) : n \in Nat /\ n < busy.n
        BY <1>0, <1>5, ElementTypes DEF Sends, IInv, WireInv
      <4>. QED
        BY <3>2, <4>1
    <3>4. InTransit(busy.kind, busy.n)
      BY <3>1 DEF InTransit
    <3>5. Ledgered[delivered] = "pending"
      BY <2>2, <3>2, <3>3, <3>4 DEF Ledgered, Entry
    <3>6. busy.n \in Range(wire'[busy.kind])
      BY <1>0, <1>5, SendsEffect
    <3>7. Ledgered'[delivered] = "sent"
      BY <1>5, <2>2, <3>2, <3>6 DEF Ledgered, Entry, Sends
    <3>. QED
      BY <2>1, <2>2, <3>5, <3>7, ChangesOne
  <2>3. CASE delivered \notin Calls
    BY <2>1, <2>3 DEF Ledgered
  <2>. QED
    BY <2>2, <2>3
<1>6. CASE Discards
  <2>1. ASSUME NEW c \in Calls PROVE InTransit(c[1], c[2])' => InTransit(c[1], c[2])
    BY <1>6, <2>1 DEF Discards, Younger, InTransit
  <2>. QED
    BY <1>6, <2>1, LosesOnly DEF Discards
<1>7. CASE Releases
  <2>1. ASSUME NEW c \in Calls PROVE InTransit(c[1], c[2])' => InTransit(c[1], c[2])
    <3>1. Message(c[1], c[2]) = Message("secured", Popped) => c[1] = "secured" /\ c[2] = Popped
      BY CallsFacts, SecuredMessage
    <3>. QED
      BY <1>7, <2>1, <3>1, CallsFacts DEF Releases, Younger, Behind, InTransit
  <2>. QED
    BY <1>7, <2>1, LosesOnly DEF Releases
<1>8. CASE Resumes
  <2>1. ASSUME NEW c \in Calls PROVE InTransit(c[1], c[2])' => InTransit(c[1], c[2])
    <3>1. Message(c[1], c[2]) = Message("secured", held) => c[1] = "secured" /\ c[2] = held
      BY CallsFacts, SecuredMessage
    <3>. QED
      BY <1>8, <2>1, <3>1, CallsFacts DEF Resumes, Behind, InTransit
  <2>. QED
    BY <1>8, <2>1, LosesOnly DEF Resumes
<1>9. CASE Starts
  <2>1. ASSUME NEW c \in Calls PROVE InTransit(c[1], c[2])' => InTransit(c[1], c[2])
    BY <1>9, <2>1, EmptyRange DEF Starts, InTransit
  <2>. QED
    BY <1>9, <2>1, LosesOnly DEF Starts
<1>10. CASE Abandons
  <2>1. ASSUME NEW c \in Calls PROVE InTransit(c[1], c[2])' => InTransit(c[1], c[2])
    BY <1>10, <2>1, CallsFacts DEF Abandons, InTransit
  <2>. QED
    BY <1>10, <2>1, LosesOnly DEF Abandons
<1>11. CASE Clears
  <2>1. ASSUME NEW c \in Calls PROVE InTransit(c[1], c[2])' => InTransit(c[1], c[2])
    BY <1>11, <2>1, EmptyRange DEF Clears, InTransit
  <2>. QED
    BY <1>11, <2>1, LosesOnly DEF Clears
<1>12. CASE UNCHANGED places
  <2>1. ASSUME NEW c \in Calls PROVE InTransit(c[1], c[2])' => InTransit(c[1], c[2])
    BY <1>12, <2>1 DEF places, InTransit
  <2>. QED
    BY <1>12, <2>1, LosesOnly DEF places
<1>. QED
  BY <1>1, <1>2, <1>3, <1>4, <1>5, <1>6, <1>7, <1>8, <1>9, <1>10, <1>11, <1>12 DEF Moves

\* ImplementsLedger, for any number of calls and any capacity: whatever the session,
\* the queues and the timeouts do, a command that was called is sent at most once
\* or is gone, and neither is ever undone; a delivery after the queue was dropped,
\* a second send, or a call that takes another command with it would not be a step
\* of the ledger.
THEOREM LedgerRefinement == Spec => ImplementsLedger
<1>1. Init => Ledger!Init
  BY ChannelAssumption DEF Init, Ledger!Init, Entry, Calls, Kinds
<1>2. IInv /\ IInv' /\ [Next]_vars => [Ledger!Next]_Ledgered
  <2>1. IInv' => HistoryTypes'
    BY DEF IInv, TypeOK
  <2>. QED
    BY <2>1, StepMoves, LedgerStep
<1>. QED
  BY <1>1, <1>2, Invariance, PTL DEF Spec, ImplementsLedger, Ledger!Spec, Ledgered
=============================================================================
