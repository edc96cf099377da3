----------------------------- MODULE WireProofs -----------------------------
(***************************************************************************)
(* What holds of Wire for every number of attempts, every length of the    *)
(* keep-alive period and of the read timeout, every use count of a salt,   *)
(* and any number of messages.  Each property is about one of the three    *)
(* parts, so the invariant is a conjunction of one part each; what Wire    *)
(* adds is when a part starts again.                                       *)
(*                                                                         *)
(* The first half is about the stream: why text frames in the middle of it *)
(* do bounded damage, whatever the lengths of the messages and however     *)
(* they are cut into frames.                                               *)
(*                                                                         *)
(* The listener goes by its own state, so the argument is about what that  *)
(* state and the frames still to come have in common.  Units that were     *)
(* left behind (the body is dirty) make the message that collects them     *)
(* complete too early, never too late: what is left of a message is always *)
(* enough to reach the length of its header, so the listener is waiting    *)
(* for a header again when the message is over, with nothing collected.    *)
(* The debt is what a text frame has already cost, though it does not show *)
(* yet: the message that is being sent, and the next one.                  *)
(***************************************************************************)
EXTENDS Wire, SequenceTheorems, TLAPS

AsNumber(b) == IF b THEN 1 ELSE 0

(***************************************************************************)
(* The invariant.                                                          *)
(***************************************************************************)
StreamTypeOK ==
  /\ damaged \in Nat /\ garbled \in Nat /\ strays \in Nat
  /\ message \in [id : Nat, kind : Kinds \cup {"none"}, arrived : BOOLEAN]
  /\ body \in Seq(Nat)

\* The frames s carry m units of message id, and nothing else.
BodiesLeft(id, m, s) ==
  \/ m = 0 /\ s = <<>>
  \/ m > 0 /\ s = <<Body(id, m)>>
  \/ m > 1 /\ s = <<Body(id, 1), Body(id, m - 1)>>

ExactHeader(n) == Header(message.kind, message.id, n, FALSE)
Estimate(n)    == Header(message.kind, message.id, n, TRUE)

\* The units collected are of an older message, or frames that were taken for units.
Foreign == body # <<>> => body[1] # message.id

\* Only the body is left: a header that was taken needs no more than that.
AtBodies(m) ==
  /\ BodiesLeft(message.id, m, sending)
  /\ header # NoHeader =>
       /\ m > 0 /\ message.kind \in BodyCarriers
       /\ \E n \in Nat \ {0} :
            /\ n <= Len(body) + m
            /\ header = ExactHeader(n) \/ (header = Estimate(n) /\ body # <<>> /\ Foreign)

\* The exact header is next, perhaps after an estimated one.
AtExact(m) ==
  /\ m > 0 /\ sending # <<>> /\ Head(sending) = ExactHeader(m)
  /\ BodiesLeft(message.id, m, Tail(sending))
  /\ header # NoHeader => /\ message.kind \in BodyCarriers
                          /\ \E n \in {m, m + 1} : header = Estimate(n)
  /\ Foreign

\* Nothing of the message has arrived, and an estimated header comes first.
AtEstimate(m) ==
  /\ m > 0 /\ sending # <<>> /\ Tail(sending) # <<>>
  /\ \E n \in {m, m + 1} : Head(sending) = Estimate(n)
  /\ Head(Tail(sending)) = ExactHeader(m)
  /\ BodiesLeft(message.id, m, Tail(Tail(sending)))
  /\ header = NoHeader
  /\ Foreign

\* Something is collected that does not belong to the message that is collected.
Dirty == body # <<>> /\ (header = NoHeader \/ header.estimated \/ body[1] # header.id)

PlaceInv ==
  /\ \E m \in Nat : AtBodies(m) \/ AtExact(m) \/ AtEstimate(m)
  /\ body \in Seq(0..message.id)
  /\ header # NoHeader /\ ~Dirty => body \in Seq({message.id})
  /\ message.kind \notin BodyCarriers => message.arrived

\* The message that is being sent, or was sent last, does not arrive as it was sent.
BodiesNext == sending = <<>> \/ Head(sending).t = "body"
Doomed == /\ ~message.arrived
          /\ sending = <<>> \/ Dirty \/ (header = NoHeader /\ BodiesNext)

\* Nor does the message after it.
NextDoomed == body # <<>> /\ header = NoHeader /\ (BodiesNext \/ message.kind \notin BodyCarriers)

DebtInv ==
  /\ damaged + AsNumber(Doomed) + AsNumber(NextDoomed) <= 2 * strays
  /\ garbled + AsNumber(Dirty) <= strays

StreamInv == StreamTypeOK /\ PlaceInv /\ DebtInv

\* The invariant has the bound as a consequence.
LEMMA StreamInvBounds == StreamInv => DamageIsBounded
<1>. SUFFICES ASSUME StreamInv PROVE DamageIsBounded
  OBVIOUS
<1>1. sending = <<>> /\ ~message.arrived => Doomed
  BY DEF Doomed
<1>. QED
  BY <1>1 DEF StreamInv, StreamTypeOK, DebtInv, AsNumber, DamageIsBounded

(***************************************************************************)
(* Frames and units.                                                       *)
(***************************************************************************)
\* What is left of a body is either nothing, or a frame of it and what is left then.
LEMMA BodiesLeftFacts ==
  ASSUME NEW id, NEW m \in Nat, NEW s, BodiesLeft(id, m, s)
  PROVE  /\ m = 0 <=> s = <<>>
         /\ s # <<>> => /\ \E k \in 1..m : /\ Head(s) = Body(id, k)
                                           /\ BodiesLeft(id, m - k, Tail(s))
                        /\ Head(s).t = "body"
<1>1. CASE m = 0 /\ s = <<>>
  BY <1>1
<1>2. CASE m > 0 /\ s = <<Body(id, m)>>
  <2>1. s # <<>> /\ Head(s) = Body(id, m) /\ Tail(s) = <<>>
    BY <1>2
  <2>2. BodiesLeft(id, m - m, Tail(s))
    BY <2>1 DEF BodiesLeft
  <2>. QED
    BY <1>2, <2>1, <2>2 DEF Body
<1>3. CASE m > 1 /\ s = <<Body(id, 1), Body(id, m - 1)>>
  <2>1. s # <<>> /\ Head(s) = Body(id, 1) /\ Tail(s) = <<Body(id, m - 1)>>
    BY <1>3
  <2>2. BodiesLeft(id, m - 1, Tail(s))
    BY <1>3, <2>1 DEF BodiesLeft
  <2>. QED
    BY <1>3, <2>1, <2>2 DEF Body
<1>. QED
  BY <1>1, <1>2, <1>3 DEF BodiesLeft

\* A sequence that starts with a known frame.
LEMMA HeadOfFrames ==
  ASSUME NEW S, NEW a \in S, NEW u \in Seq(S), NEW s, s = <<a>> \o u
  PROVE  s \in Seq(S) /\ s # <<>> /\ Head(s) = a /\ Tail(s) = u
  OBVIOUS

LEMMA BodyFollows ==
  ASSUME NEW id, NEW m \in Nat, m > 0, NEW s, BodiesLeft(id, m, s)
  PROVE  s # <<>> /\ Head(s).t = "body"
<1>1. m = 0 <=> s = <<>>
  BY BodiesLeftFacts
<1>. QED
  BY <1>1, BodiesLeftFacts

\* The frames s are those of a whole message, without and with an estimated header.
IsExactMessage(s, k, id, n) ==
  s # <<>> /\ Head(s) = Header(k, id, n, FALSE) /\ BodiesLeft(id, n, Tail(s))
IsEstimatedMessage(s, k, id, n, estimate) ==
  s # <<>> /\ Head(s) = Header(k, id, estimate, TRUE) /\ IsExactMessage(Tail(s), k, id, n)

\* A message starts with its estimated header, if it has one, and with its exact
\* header otherwise; the body follows.
LEMMA FramesOfFacts ==
  ASSUME NEW k, NEW id, NEW n \in Nat \ {0}, NEW estimate \in {0, n, n + 1},
         NEW s, \/ s = FramesOf(k, id, n, estimate, TRUE) /\ n > 1
                \/ s = FramesOf(k, id, n, estimate, FALSE)
  PROVE  \/ IsExactMessage(s, k, id, n)
         \/ estimate \in {n, n + 1} /\ IsEstimatedMessage(s, k, id, n, estimate)
<1>0. PICK split \in BOOLEAN : (split => n > 1) /\ s = FramesOf(k, id, n, estimate, split)
  <2>1. CASE s = FramesOf(k, id, n, estimate, TRUE) /\ n > 1
    BY <2>1
  <2>2. CASE s = FramesOf(k, id, n, estimate, FALSE)
    BY <2>2
  <2>. QED
    BY <2>1, <2>2
<1> DEFINE exact  == Header(k, id, n, FALSE)
           first  == Header(k, id, estimate, TRUE)
           bodies == IF split THEN <<Body(id, 1), Body(id, n - 1)>> ELSE <<Body(id, n)>>
           S      == {first, exact, Body(id, 1), Body(id, n - 1), Body(id, n)}
<1>1. bodies \in Seq(S) /\ BodiesLeft(id, n, bodies)
  <2>1. CASE split
    BY <1>0, <2>1 DEF BodiesLeft
  <2>2. CASE ~split
    BY <2>2 DEF BodiesLeft
  <2>. QED
    BY <2>1, <2>2
<1>2. first \in S /\ exact \in S
  OBVIOUS
<1>3. s = ((IF estimate = 0 THEN <<>> ELSE <<first>>) \o <<exact>>) \o bodies
  BY <1>0 DEF FramesOf
<1> HIDE DEF exact, first, bodies, S
<1> DEFINE t == <<exact>> \o bodies
<1>4. t \in Seq(S) /\ t # <<>> /\ Head(t) = exact /\ Tail(t) = bodies
  BY <1>1, <1>2, HeadOfFrames
<1> HIDE DEF t
<1>5. CASE estimate = 0
  <2>1. s = (<<>> \o <<exact>>) \o bodies
    BY <1>3, <1>5
  <2>2. <<>> \o <<exact>> = <<exact>>
    OBVIOUS
  <2>3. s = t
    BY <2>1, <2>2 DEF t
  <2>. QED
    BY <1>1, <1>4, <2>3 DEF exact, IsExactMessage
<1>6. CASE estimate # 0
  <2>1. s = (<<first>> \o <<exact>>) \o bodies
    BY <1>3, <1>6
  <2>2. s = <<first>> \o t
    BY <1>1, <1>2, <2>1, ConcatAssociative DEF t
  <2>3. s # <<>> /\ Head(s) = first /\ Tail(s) = t
    BY <1>2, <1>4, <2>2, HeadOfFrames
  <2>. QED
    BY <1>1, <1>4, <1>6, <2>3 DEF exact, first, IsExactMessage, IsEstimatedMessage
<1>. QED
  BY <1>5, <1>6

\* Units are appended to what was collected; the first unit stays the first.
LEMMA CollectedFacts ==
  ASSUME NEW S, NEW old \in Seq(S), NEW units \in Seq(S), units # <<>>,
         NEW all, all = old \o units
  PROVE  /\ all \in Seq(S) /\ all # <<>> /\ Len(all) = Len(old) + Len(units)
         /\ all[1] = IF old = <<>> THEN units[1] ELSE old[1]
<1>1. Len(units) > 0 /\ (old = <<>> <=> Len(old) = 0)
  OBVIOUS
<1>2. all \in Seq(S) /\ Len(all) = Len(old) + Len(units)
  OBVIOUS
<1>3. all[1] = IF old = <<>> THEN units[1] ELSE old[1]
  BY <1>1, <1>2
<1>. QED
  BY <1>1, <1>2, <1>3

\* A header of the message being sent, as the listener reads it.
LEMMA OwnHeaderFacts ==
  ASSUME NEW n, NEW h, h = ExactHeader(n) \/ h = Estimate(n)
  PROVE  /\ h # NoHeader /\ EightBytes(h) /\ IsBytes(h) /\ Parsed(h) = h /\ h.t = "header"
         /\ h.kind = message.kind /\ h.id = message.id /\ h.len = n /\ Units(h) = <<0>>
         /\ h = ExactHeader(n) => ~h.estimated
         /\ h = Estimate(n) => h.estimated
  BY DEF ExactHeader, Estimate, Header, NoHeader, EightBytes, IsBytes, Parsed, Units

\* While nothing is being sent, the listener waits for a header.
LEMMA IdleFacts ==
  ASSUME StreamInv, sending = <<>>
  PROVE  header = NoHeader /\ AtBodies(0) /\ BodiesNext
<1>1. PICK m \in Nat : AtBodies(m)
  BY DEF StreamInv, PlaceInv, AtExact, AtEstimate
<1>2. m = 0
  BY <1>1 DEF AtBodies, BodiesLeft
<1>. QED
  BY <1>1, <1>2 DEF AtBodies, BodiesNext

(***************************************************************************)
(* The Miniserver starts a message.                                        *)
(***************************************************************************)
\* A message that did not arrive is counted now, and one that will not is owed
\* from here on: what is left in the body was owed before.
LEMMA StartsMessageStep ==
  ASSUME StreamInv, StartsMessage
  PROVE  StreamInv'
<1>1. /\ sending = <<>> /\ header = NoHeader /\ header' = header /\ body' = body
      /\ garbled' = garbled /\ strays' = strays
      /\ damaged' = damaged + (IF message.arrived THEN 0 ELSE 1)
  <2>1. sending = <<>> /\ header' = header /\ body' = body
    BY DEF StartsMessage
  <2>2. garbled' = garbled /\ strays' = strays
    BY DEF StartsMessage
  <2>3. damaged' = damaged + (IF message.arrived THEN 0 ELSE 1)
    BY DEF StartsMessage
  <2>. QED
    BY <2>1, <2>2, <2>3, IdleFacts
<1>. USE DEF StreamInv
<1> DEFINE Chooses(k, n, split, estimate) ==
             /\ split => n > 1
             /\ message' = [id |-> message.id + 1, kind |-> k, arrived |-> k \notin Parseable]
             /\ sending' = FramesOf(k, message.id + 1, n, estimate, split)
<1>a. PICK k \in Kinds, n \in 1..MaxUnits, split \in BOOLEAN :
        \E estimate \in {0, n, n + 1} : Chooses(k, n, split, estimate)
  BY Zenon DEF StartsMessage
<1>2. PICK estimate \in {0, n, n + 1} : Chooses(k, n, split, estimate)
  BY <1>a
<1>3. n \in Nat \ {0}
  BY FrameStreamAssumption DEF FrameStreamAssumption
<1>4. /\ message'.id = message.id + 1 /\ message'.kind = k
      /\ message'.arrived = (k \notin Parseable)
  BY <1>2
<1>5. /\ StreamTypeOK'
      /\ Foreign' /\ body' \in Seq(0..message'.id)
  <2>1. message.id \in Nat /\ body \in Seq(0..message.id)
    BY DEF StreamTypeOK, PlaceInv
  <2>2. body \in Seq(0..(message.id + 1))
    BY <2>1, SeqMonotonic
  <2>3. body # <<>> => body[1] \in 0..message.id
    BY <2>1
  <2>. QED
    BY <1>1, <1>2, <1>4, <2>1, <2>2, <2>3 DEF StreamTypeOK, Foreign
<1>6. /\ AtExact(n)' \/ AtEstimate(n)'
      /\ sending' # <<>> /\ Head(sending').t = "header"
  <2> DEFINE id == message.id + 1
  <2>1. /\ \/ sending' = FramesOf(k, id, n, estimate, TRUE) /\ n > 1
           \/ sending' = FramesOf(k, id, n, estimate, FALSE)
        /\ message'.id = id
    <3>1. CASE split
      BY <1>2, <1>4, <3>1
    <3>2. CASE ~split
      BY <1>2, <1>4, <3>2
    <3>. QED
      BY <3>1, <3>2
  <2> HIDE DEF id
  <2>2. \/ IsExactMessage(sending', k, id, n)
        \/ estimate \in {n, n + 1} /\ IsEstimatedMessage(sending', k, id, n, estimate)
    BY <1>3, <2>1, FramesOfFacts
  <2>3. ExactHeader(n)' = Header(k, id, n, FALSE) /\ Estimate(estimate)' = Header(k, id, estimate, TRUE)
    BY <1>4, <2>1 DEF ExactHeader, Estimate
  <2>4. header' = NoHeader /\ n > 0 /\ Foreign'
    BY <1>1, <1>3, <1>5
  <2>5. CASE IsExactMessage(sending', k, id, n)
    BY <2>1, <2>3, <2>4, <2>5 DEF IsExactMessage, AtExact, Header
  <2>6. CASE estimate \in {n, n + 1} /\ IsEstimatedMessage(sending', k, id, n, estimate)
    <3>1. sending' # <<>> /\ Head(sending').t = "header"
      BY <2>6 DEF Header, IsEstimatedMessage
    <3>2. AtEstimate(n)'
      BY <2>1, <2>3, <2>4, <2>6 DEF AtEstimate, IsEstimatedMessage, IsExactMessage
    <3>. QED
      BY <3>1, <3>2
  <2>. QED
    BY <2>2, <2>5, <2>6
<1>7. PlaceInv'
  BY <1>1, <1>3, <1>4, <1>5, <1>6 DEF PlaceInv, Parseable, BodyCarriers, Kinds
<1>8. ~BodiesNext' /\ (Dirty' <=> body # <<>>) /\ (Dirty <=> body # <<>>)
  BY <1>1, <1>6 DEF BodiesNext, Dirty
<1>9. /\ Doomed <=> ~message.arrived
      /\ NextDoomed <=> body # <<>>
      /\ Doomed' <=> k \in Parseable /\ body # <<>>
      /\ NextDoomed' <=> body # <<>> /\ k \notin BodyCarriers
  BY <1>1, <1>4, <1>6, <1>8 DEF BodiesNext, Doomed, NextDoomed
<1>10. ~(Doomed' /\ NextDoomed')
  BY <1>9 DEF Parseable, BodyCarriers, Kinds
<1>11. DebtInv'
  BY <1>1, <1>8, <1>9, <1>10 DEF DebtInv, StreamTypeOK, AsNumber
<1>. QED
  BY <1>5, <1>7, <1>11

(***************************************************************************)
(* The listener takes a frame of a message.                                *)
(***************************************************************************)
\* What all the steps of the listener have in common: when the debt does not grow,
\* the bounds stay.
LEMMA DebtStep ==
  ASSUME StreamTypeOK, DebtInv, damaged' = damaged, strays' = strays,
         Doomed' => Doomed, NextDoomed' => NextDoomed,
         \/ garbled' = garbled /\ (Dirty' => Dirty)
         \/ garbled' \in {garbled, garbled + 1} /\ Dirty /\ ~Dirty'
  PROVE  DebtInv'
  BY DEF DebtInv, StreamTypeOK, AsNumber

\* While no header has been taken, only a header is.
LEMMA WaitingFacts ==
  ASSUME header = NoHeader, NEW f, Receive(f)
  PROVE  /\ TakesHeader(f) /\ body' = body /\ message' = message /\ garbled' = garbled
         /\ header' = IF EightBytes(f) /\ Parsed(f).kind \in BodyCarriers THEN Parsed(f) ELSE NoHeader
<1>1. TakesHeader(f)
  BY DEF Receive, TakesExactHeader, AwaitsExact, DropsHeader, Collects
<1>. QED
  BY <1>1 DEF TakesHeader, Takes

\* The estimated header is taken for the header of the message.
LEMMA EstimateStep ==
  ASSUME StreamInv, SendsFrame, NEW m \in Nat, AtEstimate(m)
  PROVE  StreamInv'
<1>. USE DEF StreamInv
<1>1. /\ header = NoHeader /\ Foreign /\ m > 0
      /\ sending # <<>> /\ Tail(sending) # <<>>
      /\ Head(Tail(sending)) = ExactHeader(m)
      /\ BodiesLeft(message.id, m, Tail(Tail(sending)))
  BY DEF AtEstimate
<1>2. PICK n \in {m, m + 1} : Head(sending) = Estimate(n)
  BY DEF AtEstimate
<1> DEFINE f == Head(sending)
<1>3. /\ Receive(f) /\ sending' = Tail(sending) /\ damaged' = damaged /\ strays' = strays
  BY DEF SendsFrame
<1>4. /\ body' = body /\ message' = message /\ garbled' = garbled
      /\ header' = IF message.kind \in BodyCarriers THEN Estimate(n) ELSE NoHeader
  <2>1. EightBytes(f) /\ Parsed(f) = f /\ f.kind = message.kind
    BY <1>2, OwnHeaderFacts
  <2>. QED
    BY <1>1, <1>2, <1>3, <2>1, WaitingFacts
<1>5. AtExact(m)'
  BY <1>1, <1>2, <1>3, <1>4 DEF AtExact, Estimate, ExactHeader, Foreign
<1>6. ~BodiesNext /\ ~BodiesNext'
  BY <1>1, <1>2, <1>3, <1>4, OwnHeaderFacts DEF BodiesNext
<1>7. (Dirty <=> body # <<>>) /\ (Dirty' <=> body # <<>>)
  BY <1>1, <1>4, OwnHeaderFacts DEF Dirty
<1>8. StreamTypeOK'
  BY <1>3, <1>4 DEF StreamTypeOK
<1>9. PlaceInv'
  BY <1>4, <1>5, <1>7 DEF PlaceInv
<1>10. Doomed' => Doomed
  BY <1>1, <1>3, <1>4, <1>6, <1>7 DEF Doomed
<1>11. NextDoomed' => NextDoomed
  BY <1>1, <1>4, <1>6, OwnHeaderFacts DEF NextDoomed
<1>. QED
  BY <1>3, <1>4, <1>7, <1>8, <1>9, <1>10, <1>11, DebtStep

\* The exact header comes when none was taken.
LEMMA ExactStepWaiting ==
  ASSUME StreamInv, SendsFrame, NEW m \in Nat, AtExact(m), header = NoHeader
  PROVE  StreamInv'
<1>. USE DEF StreamInv
<1>1. /\ Foreign /\ m > 0 /\ sending # <<>> /\ Head(sending) = ExactHeader(m)
      /\ BodiesLeft(message.id, m, Tail(sending))
  BY DEF AtExact
<1> DEFINE f == Head(sending)
<1>2. /\ Receive(f) /\ sending' = Tail(sending) /\ damaged' = damaged /\ strays' = strays
  BY DEF SendsFrame
<1>3. /\ body' = body /\ message' = message /\ garbled' = garbled
      /\ header' = IF message.kind \in BodyCarriers THEN ExactHeader(m) ELSE NoHeader
  BY <1>1, <1>2, WaitingFacts, OwnHeaderFacts
<1>4. sending' # <<>>
  BY <1>1, <1>2, BodyFollows
<1>5. AtBodies(m)'
  <2>1. Len(body) \in Nat
    BY DEF StreamTypeOK
  <2>2. CASE message.kind \in BodyCarriers
    <3>1. header' = ExactHeader(m)' /\ m \in Nat \ {0} /\ m <= Len(body') + m
      BY <1>1, <1>3, <2>1, <2>2 DEF ExactHeader
    <3>. QED
      BY <1>1, <1>2, <1>3, <2>2, <3>1 DEF AtBodies
  <2>3. CASE message.kind \notin BodyCarriers
    BY <1>1, <1>2, <1>3, <2>3 DEF AtBodies
  <2>. QED
    BY <2>2, <2>3
<1>6. ~BodiesNext
  BY <1>1, OwnHeaderFacts DEF BodiesNext
<1>7. (Dirty <=> body # <<>>) /\ (Dirty' <=> body # <<>>)
  BY <1>1, <1>3, OwnHeaderFacts DEF Dirty, Foreign
<1>8. StreamTypeOK'
  BY <1>2, <1>3 DEF StreamTypeOK
<1>9. PlaceInv'
  <2>1. Dirty' \/ body' = <<>>
    BY <1>3, <1>7
  <2>. QED
    BY <1>3, <1>5, <2>1 DEF PlaceInv
<1>10. Doomed' => Doomed
  <2>1. CASE message.kind \in BodyCarriers
    BY <1>3, <1>4, <1>7, <2>1, OwnHeaderFacts DEF Doomed
  <2>2. CASE message.kind \notin BodyCarriers
    BY <1>3, <2>2 DEF Doomed, PlaceInv
  <2>. QED
    BY <2>1, <2>2
<1>11. NextDoomed' => NextDoomed
  BY <1>3, OwnHeaderFacts DEF NextDoomed
<1>. QED
  BY <1>2, <1>3, <1>7, <1>8, <1>9, <1>10, <1>11, DebtStep

\* The exact header comes after the estimated one, and replaces it.
LEMMA ExactStepReplacing ==
  ASSUME StreamInv, SendsFrame, NEW m \in Nat, AtExact(m), header # NoHeader, body = <<>>
  PROVE  StreamInv'
<1>. USE DEF StreamInv
<1>1. /\ m > 0 /\ sending # <<>> /\ Head(sending) = ExactHeader(m)
      /\ BodiesLeft(message.id, m, Tail(sending)) /\ message.kind \in BodyCarriers
  BY DEF AtExact
<1> DEFINE f == Head(sending)
<1>2. /\ Receive(f) /\ sending' = Tail(sending) /\ damaged' = damaged /\ strays' = strays
  BY DEF SendsFrame
<1>3. /\ EightBytes(f) /\ IsBytes(f) /\ Parsed(f) = f /\ f.kind = message.kind
  BY <1>1, OwnHeaderFacts
<1>4. header.estimated
  BY OwnHeaderFacts DEF AtExact
<1>5. TakesExactHeader(f)
  BY <1>2, <1>3, <1>4 DEF Receive, TakesHeader, AwaitsExact, DropsHeader, Collects
<1>6. /\ body' = body /\ message' = message /\ garbled' = garbled
      /\ header' = ExactHeader(m)
  BY <1>1, <1>3, <1>5 DEF TakesExactHeader, Takes
<1>7. sending' # <<>>
  BY <1>1, <1>2, BodyFollows
<1>8. AtBodies(m)'
  <2>1. header' = ExactHeader(m)' /\ m \in Nat \ {0} /\ m <= Len(body') + m
    BY <1>1, <1>6 DEF ExactHeader
  <2>. QED
    BY <1>1, <1>2, <1>6, <2>1 DEF AtBodies
<1>9. ~Dirty' /\ ~Doomed' /\ ~NextDoomed'
  BY <1>1, <1>6, <1>7, OwnHeaderFacts DEF Dirty, Doomed, NextDoomed
<1>10. StreamTypeOK'
  BY <1>2, <1>6 DEF StreamTypeOK
<1>11. PlaceInv'
  BY <1>6, <1>8 DEF PlaceInv
<1>. QED
  BY <1>2, <1>6, <1>9, <1>10, <1>11, DebtStep

\* Units are collected by the header that was taken: either it needs more, or the
\* message is handed on.
LEMMA CollectsFacts ==
  ASSUME StreamTypeOK, NEW f, NEW units \in Seq(Nat), units # <<>>, Units(f) = units,
         header # NoHeader, NEW n \in Nat \ {0}, header.len = n, Collects(f),
         NEW all, all = body \o units
  PROVE  \/ /\ Len(all) < n /\ body' = all
            /\ header' = header /\ message' = message /\ garbled' = garbled
         \/ /\ Len(all) >= n /\ body' = <<>> /\ header' = NoHeader
            /\ HandedOn(Intact(header, SubSeq(all, 1, n)))
<1>1. Len(all) \in Nat
  BY DEF StreamTypeOK
<1>2. CASE Len(all) < n
  BY <1>2 DEF Collects
<1>3. CASE ~(Len(all) < n)
  BY <1>1, <1>3 DEF Collects, ClearBody
<1>. QED
  BY <1>2, <1>3

\* What is handed on is the message as it was sent, or counts as garbled at most.
LEMMA HandedOnFacts ==
  ASSUME StreamTypeOK, NEW intact \in BOOLEAN, HandedOn(intact)
  PROVE  /\ message'.id = message.id /\ message'.kind = message.kind
         /\ message' \in [id : Nat, kind : Kinds \cup {"none"}, arrived : BOOLEAN]
         /\ intact => message'.arrived /\ garbled' = garbled
         /\ ~intact => message' = message /\ garbled' \in {garbled, garbled + 1}
  BY DEF HandedOn, StreamTypeOK

\* The exact header is taken for units, because some were collected before: the
\* message is spoilt, but the body is one unit closer to being cleared.
LEMMA ExactStepCollecting ==
  ASSUME StreamInv, SendsFrame, NEW m \in Nat, AtExact(m), header # NoHeader, body # <<>>
  PROVE  StreamInv'
<1>. USE DEF StreamInv
<1>1. /\ m > 0 /\ sending # <<>> /\ Head(sending) = ExactHeader(m) /\ Foreign
      /\ BodiesLeft(message.id, m, Tail(sending)) /\ message.kind \in BodyCarriers
  BY DEF AtExact
<1>2. PICK n \in {m, m + 1} : header = Estimate(n)
  BY DEF AtExact
<1> DEFINE f == Head(sending)
           all == body \o <<0>>
<1>3. /\ Receive(f) /\ sending' = Tail(sending) /\ damaged' = damaged /\ strays' = strays
  BY DEF SendsFrame
<1>4. /\ EightBytes(f) /\ IsBytes(f) /\ Units(f) = <<0>>
  BY <1>1, OwnHeaderFacts
<1>5. header.estimated /\ header.len = n /\ n \in Nat \ {0}
  BY <1>1, <1>2, OwnHeaderFacts
<1>6. Collects(f)
  BY <1>3, <1>4 DEF Receive, TakesHeader, TakesExactHeader, AwaitsExact, DropsHeader
<1>7. /\ all \in Seq(Nat) /\ all # <<>> /\ Len(all) = Len(body) + 1 /\ all[1] = body[1]
      /\ all \in Seq(0..message.id)
  <2>1. message.id \in Nat /\ body \in Seq(Nat) /\ body \in Seq(0..message.id)
    BY DEF StreamTypeOK, PlaceInv
  <2>2. <<0>> \in Seq(Nat) /\ <<0>> \in Seq(0..message.id) /\ <<0>> # <<>> /\ Len(<<0>>) = 1
    BY <2>1
  <2>. QED
    BY <2>1, <2>2, CollectedFacts
<1>8. Dirty /\ (Doomed <=> ~message.arrived)
  BY <1>1, <1>5 DEF Dirty, Doomed
<1>9. sending' # <<>> /\ BodiesNext'
  BY <1>1, <1>3, BodyFollows DEF BodiesNext
<1> HIDE DEF all
<1>10. \/ /\ Len(all) < n /\ body' = all
          /\ header' = header /\ message' = message /\ garbled' = garbled
       \/ /\ body' = <<>> /\ header' = NoHeader
          /\ HandedOn(Intact(header, SubSeq(all, 1, n)))
  <2>1. <<0>> \in Seq(Nat) /\ <<0>> # <<>>
    OBVIOUS
  <2>. QED
    BY <1>4, <1>5, <1>6, <2>1, CollectsFacts DEF all
<1>11. CASE /\ Len(all) < n /\ body' = all
            /\ header' = header /\ message' = message /\ garbled' = garbled
  <2>1. header' = Estimate(n)' /\ Foreign' /\ body' # <<>> /\ n <= Len(body') + m
    BY <1>1, <1>2, <1>5, <1>7, <1>11 DEF Estimate, Foreign, StreamTypeOK
  <2>2. AtBodies(m)'
    BY <1>1, <1>3, <1>5, <1>11, <2>1 DEF AtBodies
  <2>3. Dirty' /\ (Doomed' => ~message.arrived) /\ ~NextDoomed'
    BY <1>5, <1>11, <2>1 DEF Dirty, Doomed, NextDoomed
  <2>4. StreamTypeOK'
    BY <1>3, <1>7, <1>11 DEF StreamTypeOK
  <2>5. body' \in Seq(0..message'.id)
    BY <1>7, <1>11
  <2>6. PlaceInv'
    BY <1>11, <2>2, <2>3, <2>5 DEF PlaceInv
  <2>. QED
    BY <1>3, <1>8, <1>11, <2>3, <2>4, <2>6, DebtStep
<1>12. CASE /\ body' = <<>> /\ header' = NoHeader
            /\ HandedOn(Intact(header, SubSeq(all, 1, n)))
  <2>1. Intact(header, SubSeq(all, 1, n)) = FALSE
    BY <1>5 DEF Intact
  <2>2. message' = message /\ garbled' \in {garbled, garbled + 1}
    BY <1>12, <2>1, HandedOnFacts
  <2>3. AtBodies(m)'
    BY <1>1, <1>3, <1>12, <2>2 DEF AtBodies
  <2>4. ~Dirty' /\ (Doomed' => ~message.arrived) /\ ~NextDoomed'
    BY <1>12, <2>2 DEF Dirty, Doomed, NextDoomed
  <2>5. StreamTypeOK'
    BY <1>3, <1>12, <2>2 DEF StreamTypeOK
  <2>6. PlaceInv'
    BY <1>12, <2>2, <2>3 DEF PlaceInv
  <2>. QED
    BY <1>3, <1>8, <2>2, <2>4, <2>5, <2>6, DebtStep
<1>. QED
  BY <1>10, <1>11, <1>12

\* A frame of the body comes when its header was dropped, was none that carries a
\* body, or was used up: the frame is ignored.
LEMMA BodyStepWaiting ==
  ASSUME StreamInv, SendsFrame, NEW m \in Nat, AtBodies(m), header = NoHeader
  PROVE  StreamInv'
<1>. USE DEF StreamInv
<1>1. BodiesLeft(message.id, m, sending) /\ sending # <<>>
  BY DEF AtBodies, SendsFrame
<1> DEFINE f == Head(sending)
<1>2. PICK k \in 1..m : f = Body(message.id, k) /\ BodiesLeft(message.id, m - k, Tail(sending))
  BY <1>1, BodiesLeftFacts
<1>3. /\ Receive(f) /\ sending' = Tail(sending) /\ damaged' = damaged /\ strays' = strays
  BY DEF SendsFrame
<1>4. Parsed(f).kind \notin BodyCarriers
  BY <1>2 DEF Parsed, Body, Alone, Header, BodyCarriers, Kinds
<1>5. body' = body /\ message' = message /\ garbled' = garbled /\ header' = NoHeader
  BY <1>3, <1>4, WaitingFacts
<1>6. m - k \in Nat /\ AtBodies(m - k)'
  BY <1>2, <1>3, <1>5 DEF AtBodies
<1>7. BodiesNext
  BY <1>2 DEF BodiesNext, Body
<1>8. /\ (Dirty <=> body # <<>>) /\ (Dirty' <=> body # <<>>)
      /\ (Doomed <=> ~message.arrived) /\ (Doomed' => ~message.arrived)
      /\ (NextDoomed' => NextDoomed)
  BY <1>1, <1>5, <1>7 DEF Dirty, Doomed, NextDoomed
<1>9. StreamTypeOK'
  BY <1>3, <1>5 DEF StreamTypeOK
<1>10. PlaceInv'
  BY <1>5, <1>6 DEF PlaceInv
<1>. QED
  BY <1>3, <1>5, <1>8, <1>9, <1>10, DebtStep

\* A frame of the body is collected.
LEMMA BodyStepCollecting ==
  ASSUME StreamInv, SendsFrame, NEW m \in Nat, AtBodies(m), header # NoHeader
  PROVE  StreamInv'
<1>. USE DEF StreamInv
<1>1. BodiesLeft(message.id, m, sending) /\ sending # <<>> /\ message.kind \in BodyCarriers
  BY DEF AtBodies, SendsFrame
<1> DEFINE f == Head(sending)
<1>2. PICK k \in 1..m : f = Body(message.id, k) /\ BodiesLeft(message.id, m - k, Tail(sending))
  BY <1>1, BodiesLeftFacts
<1>3. PICK n \in Nat \ {0} :
        /\ n <= Len(body) + m
        /\ header = ExactHeader(n) \/ (header = Estimate(n) /\ body # <<>> /\ Foreign)
  BY DEF AtBodies
<1>4. /\ Receive(f) /\ sending' = Tail(sending) /\ damaged' = damaged /\ strays' = strays
  BY DEF SendsFrame
<1>5. header.len = n /\ header.id = message.id /\ (header.estimated => body # <<>>)
  BY <1>3, OwnHeaderFacts
<1>6. PICK units \in Seq({message.id}) : units = Units(f) /\ units # <<>> /\ Len(units) = k
  <2>1. Units(f) = [i \in 1..k |-> message.id]
    BY <1>2 DEF Body, Units
  <2>. QED
    BY <2>1
<1>7. PICK all : all = body \o units
  OBVIOUS
<1>8. Collects(f)
  BY <1>2, <1>4, <1>5 DEF Body, IsBytes, Receive, TakesHeader, TakesExactHeader, AwaitsExact, DropsHeader
<1>9. /\ all \in Seq(Nat) /\ all # <<>> /\ Len(all) = Len(body) + k
      /\ all[1] = IF body = <<>> THEN message.id ELSE body[1]
      /\ all \in Seq(0..message.id) /\ units \in Seq(Nat)
  <2>1. units[1] = message.id
    BY <1>6
  <2>2. message.id \in Nat /\ body \in Seq(Nat) /\ body \in Seq(0..message.id)
    BY DEF StreamTypeOK, PlaceInv
  <2>3. units \in Seq(Nat) /\ units \in Seq(0..message.id)
    BY <1>6, <2>2, SeqMonotonic
  <2>4. /\ all \in Seq(Nat) /\ all # <<>> /\ Len(all) = Len(body) + Len(units)
        /\ all[1] = IF body = <<>> THEN units[1] ELSE body[1]
    BY <1>6, <1>7, <2>2, <2>3, CollectedFacts
  <2>5. all \in Seq(0..message.id)
    BY <1>6, <1>7, <2>2, <2>3, CollectedFacts
  <2>. QED
    BY <1>6, <2>1, <2>3, <2>4, <2>5
<1>10. ~Dirty => ~header.estimated /\ all \in Seq({message.id})
  <2>1. ~Dirty => body \in Seq({message.id})
    BY DEF PlaceInv
  <2>2. ~Dirty => ~header.estimated
    BY <1>5 DEF Dirty
  <2>. QED
    BY <1>6, <1>7, <2>1, <2>2, CollectedFacts
<1>11. \/ /\ Len(all) < n /\ body' = all
          /\ header' = header /\ message' = message /\ garbled' = garbled
       \/ /\ Len(all) >= n /\ body' = <<>> /\ header' = NoHeader
          /\ HandedOn(Intact(header, SubSeq(all, 1, n)))
  BY <1>5, <1>6, <1>7, <1>8, <1>9, CollectsFacts
<1>12. m - k \in Nat /\ BodiesLeft(message.id, m - k, sending')
  BY <1>2, <1>4
<1>13. ASSUME Len(all) < n, body' = all,
              header' = header, message' = message, garbled' = garbled
       PROVE  StreamInv'
  <2>1. m - k > 0 /\ n <= Len(body') + (m - k)
    BY <1>3, <1>9, <1>13 DEF StreamTypeOK
  <2>2. sending' # <<>>
    BY <1>12, <2>1, BodyFollows
  <2>3. AtBodies(m - k)'
    <3>1. CASE header = ExactHeader(n)
      <4>1. header' = ExactHeader(n)'
        BY <1>13, <3>1 DEF ExactHeader
      <4>. QED
        BY <1>1, <1>12, <1>13, <2>1, <4>1 DEF AtBodies
    <3>2. CASE header = Estimate(n) /\ body # <<>> /\ Foreign
      <4>1. header' = Estimate(n)' /\ body' # <<>> /\ Foreign'
        BY <1>9, <1>13, <3>2 DEF Estimate, Foreign
      <4>. QED
        BY <1>1, <1>12, <1>13, <2>1, <4>1 DEF AtBodies
    <3>. QED
      BY <1>3, <3>1, <3>2
  <2>4. Dirty <=> Dirty'
    BY <1>5, <1>9, <1>13 DEF Dirty
  <2>5. (Doomed' => Doomed) /\ ~NextDoomed'
    BY <1>13, <2>2, <2>4 DEF Doomed, NextDoomed
  <2>6. StreamTypeOK'
    BY <1>4, <1>9, <1>13 DEF StreamTypeOK
  <2>7. body' \in Seq(0..message'.id)
    BY <1>9, <1>13
  <2>8. PlaceInv'
    BY <1>10, <1>12, <1>13, <2>3, <2>4, <2>7 DEF PlaceInv
  <2>. QED
    BY <1>4, <1>13, <2>4, <2>5, <2>6, <2>8, DebtStep
<1>14. ASSUME Len(all) >= n, body' = <<>>, header' = NoHeader,
              HandedOn(Intact(header, SubSeq(all, 1, n)))
       PROVE  StreamInv'
  <2> DEFINE intact == Intact(header, SubSeq(all, 1, n))
  <2>1. intact \in BOOLEAN
    BY DEF Intact
  <2>2. ~Dirty => intact
    <3>1. SubSeq(all, 1, n) \in Seq(Nat) /\ Len(SubSeq(all, 1, n)) = n
          /\ \A i \in 1..n : SubSeq(all, 1, n)[i] = all[i]
      BY <1>3, <1>9, <1>14
    <3>2. /\ DOMAIN SubSeq(all, 1, n) = 1..n
          /\ ~Dirty => \A i \in 1..n : all[i] = message.id
      BY <1>3, <1>9, <1>10, <1>14, <3>1
    <3>. QED
      BY <1>5, <1>10, <3>1, <3>2 DEF Intact
  <2> HIDE DEF intact
  <2>3. /\ message'.id = message.id /\ message'.kind = message.kind
        /\ message' \in [id : Nat, kind : Kinds \cup {"none"}, arrived : BOOLEAN]
        /\ intact => message'.arrived /\ garbled' = garbled
        /\ ~intact => message' = message /\ garbled' \in {garbled, garbled + 1}
    BY <1>14, <2>1, HandedOnFacts DEF intact
  <2>4. AtBodies(m - k)'
    BY <1>12, <1>14, <2>3 DEF AtBodies
  <2>5. ~Dirty' /\ ~NextDoomed'
    BY <1>14 DEF Dirty, NextDoomed
  <2>6. Doomed' => Doomed /\ ~intact
    BY <1>14, <2>2, <2>3 DEF Doomed
  <2>7. \/ garbled' = garbled /\ (Dirty' => Dirty)
        \/ garbled' \in {garbled, garbled + 1} /\ Dirty /\ ~Dirty'
    BY <2>1, <2>2, <2>3, <2>5
  <2>8. StreamTypeOK'
    BY <1>4, <1>14, <2>1, <2>3 DEF StreamTypeOK
  <2>9. PlaceInv'
    BY <1>1, <1>12, <1>14, <2>3, <2>4 DEF PlaceInv
  <2>. QED
    BY <1>4, <2>5, <2>6, <2>7, <2>8, <2>9, DebtStep
<1>. QED
  BY <1>11, <1>13, <1>14

LEMMA SendsFrameStep ==
  ASSUME StreamInv, SendsFrame
  PROVE  StreamInv'
<1>1. PICK m \in Nat : AtBodies(m) \/ AtExact(m) \/ AtEstimate(m)
  BY DEF StreamInv, PlaceInv
<1>2. CASE AtBodies(m)
  BY <1>2, BodyStepWaiting, BodyStepCollecting
<1>3. CASE AtExact(m)
  BY <1>3, ExactStepWaiting, ExactStepReplacing, ExactStepCollecting
<1>4. CASE AtEstimate(m)
  BY <1>4, EstimateStep
<1>. QED
  BY <1>1, <1>2, <1>3, <1>4

(***************************************************************************)
(* Frames that are no part of a message.                                   *)
(***************************************************************************)
\* A header that stands alone comes between two messages, where it leaves nothing.
LEMMA SendsAloneStep ==
  ASSUME StreamInv, SendsAlone
  PROVE  StreamInv'
<1>1. sending = <<>> /\ header = NoHeader
  BY IdleFacts DEF SendsAlone
<1>2. PICK k \in {"keepalive", "outOfService", "unlisted"} : Receive(Alone(k))
  BY DEF SendsAlone
<1>3. sending' = sending /\ damaged' = damaged /\ strays' = strays
  BY DEF SendsAlone, senderVars
<1>4. Parsed(Alone(k)).kind \notin BodyCarriers
  BY DEF Parsed, Alone, Header, BodyCarriers, Kinds
<1>5. body' = body /\ message' = message /\ garbled' = garbled /\ header' = header
  BY <1>1, <1>2, <1>4, WaitingFacts
<1>. QED
  BY <1>3, <1>5 DEF StreamInv, StreamTypeOK, PlaceInv, AtBodies, AtExact, AtEstimate, ExactHeader,
     Estimate, Foreign, DebtInv, Doomed, NextDoomed, Dirty, BodiesNext

\* A text frame makes the listener forget the header: it may cost the message that
\* is being sent and, for what is left in the body, the next one.
LEMMA StraysTextStep ==
  ASSUME StreamInv, StraysText
  PROVE  StreamInv'
<1>. USE DEF StreamInv
<1>1. Receive(Text) /\ strays' = strays + 1 /\ sending' = sending /\ damaged' = damaged
  BY DEF StraysText
<1>2. ~IsBytes(Text) /\ ~EightBytes(Text)
  BY DEF Text, IsBytes, EightBytes
<1>3. header' = NoHeader /\ body' = body /\ message' = message /\ garbled' = garbled
  BY <1>1, <1>2 DEF Receive, TakesHeader, TakesExactHeader, AwaitsExact, DropsHeader, Collects
<1>4. StreamTypeOK'
  BY <1>1, <1>3 DEF StreamTypeOK
<1>5. PlaceInv'
  <2>1. PICK m \in Nat : AtBodies(m) \/ AtExact(m) \/ AtEstimate(m)
    BY DEF PlaceInv
  <2>2. AtBodies(m)' \/ AtExact(m)' \/ AtEstimate(m)'
    BY <1>1, <1>3, <2>1 DEF AtBodies, AtExact, AtEstimate, ExactHeader, Estimate, Foreign
  <2>. QED
    BY <1>3, <2>2 DEF PlaceInv
<1>6. DebtInv'
  BY <1>1, <1>3 DEF DebtInv, StreamTypeOK, AsNumber
<1>. QED
  BY <1>4, <1>5, <1>6

(***************************************************************************)
(* The invariant of a session.                                             *)
(***************************************************************************)
\* Nothing is sent, collected or owed: the start of a session, and the time between
\* two of them.
Blank ==
  /\ sending = <<>> /\ damaged = 0 /\ strays = 0
  /\ header = NoHeader /\ body = <<>> /\ message = NoMessage /\ garbled = 0

LEMMA BlankInv == Blank => StreamInv
<1>. SUFFICES ASSUME Blank PROVE StreamInv
  OBVIOUS
<1>. USE DEF Blank, NoMessage
<1>1. StreamTypeOK
  BY DEF StreamTypeOK
<1>2. AtBodies(0)
  BY DEF AtBodies, BodiesLeft
<1>3. PlaceInv
  BY <1>2 DEF PlaceInv
<1>4. ~Doomed /\ ~NextDoomed /\ ~Dirty
  BY DEF Doomed, NextDoomed, Dirty
<1>5. DebtInv
  BY <1>4 DEF DebtInv, AsNumber
<1>. QED
  BY <1>1, <1>3, <1>5 DEF StreamInv

\* Steps that are not the stream's leave the invariant alone.
LEMMA StreamInvFrame ==
  ASSUME StreamInv, UNCHANGED <<senderVars, streamVars>>
  PROVE  StreamInv'
  BY DEF StreamInv, StreamTypeOK, PlaceInv, AtBodies, AtExact, AtEstimate, ExactHeader,
     Estimate, Foreign, DebtInv, Doomed, NextDoomed, Dirty, BodiesNext, senderVars, streamVars

LEMMA StreamNextStep ==
  ASSUME StreamInv, StreamNext
  PROVE  StreamInv'
<1>1. CASE StartsMessage
  BY <1>1, StartsMessageStep
<1>2. CASE SendsFrame
  BY <1>2, SendsFrameStep
<1>3. CASE SendsAlone
  BY <1>3, SendsAloneStep
<1>4. CASE StraysText
  BY <1>4, StraysTextStep
<1>5. CASE SocketEnds \/ Tick
  BY <1>5, StreamInvFrame DEF SocketEnds, Tick
<1>. QED
  BY <1>1, <1>2, <1>3, <1>4, <1>5 DEF StreamNext

(***************************************************************************)
(* The three parts.                                                        *)
(***************************************************************************)
\* Bootstrap: a rejection is not there before the bootstrap has failed.
BootInv ==
  /\ request \in 1..4
  /\ rejections \in 0..1
  /\ outcome = "none" => rejections = 0
  /\ request = 4 => rejections = 0
  /\ rejections = 1 /\ request # 3 => Classified(outcome) = "unauthorised"

\* FrameStream: the clock of keep_alive() shows the silence, and the next look at
\* it comes in time.
ClockInv ==
  /\ silent \in Nat /\ lastRx \in Nat /\ wake \in 1..Period
  /\ phase = "listening" => lastRx = silent
  /\ phase = "listening" /\ ended = "no" => silent + wake <= ReadTimeout + Period
  /\ silent <= ReadTimeout + Period
  /\ ended = "silent" => silent > ReadTimeout

\* SaltChain: the Miniserver expects the salt in use, and has seen it no more often
\* than it was counted, but for the command that introduced it.
SaltInv ==
  /\ salt \in Salts /\ used \in 0..MaxUses /\ encrypted \in Nat
  /\ accepts \in {NoSalt, salt}
  /\ accepts = salt => encrypted <= used + 1
  /\ accepts = NoSalt => encrypted = 0
  /\ ~refused

IInv == BootInv /\ ClockInv /\ SaltInv

(***************************************************************************)
(* The bootstrap.                                                          *)
(***************************************************************************)
\* Three requests, and the key is the last.
LEMMA ThreeRequests ==
  /\ Len(Requests) = 3 /\ Done = 4 /\ DOMAIN Requests = 1..3
  /\ \A i \in 1..3 : Requests[i] = "publicKey" <=> i = 3
  BY DEF Requests, Done

\* A 401 is raised as what run() takes for a rejection, and not tried again.
LEMMA RejectionIsTold ==
  /\ Raised("401") = "LoxoneUnauthorisedError"
  /\ "LoxoneUnauthorisedError" \notin GetRetries
  /\ Classified("LoxoneUnauthorisedError") = "unauthorised"
  BY DEF Raised, GetRetries, OSErrors, LoxoneErrors, Classified

\* An answer other than a rejection counts as none.
LEMMA GetKeepsBootInv ==
  ASSUME BootInv, NEW a \in Answers, Get(a)
  PROVE  BootInv'
<1>1. request \in 1..3 /\ outcome = "none" /\ rejections = 0
  BY ThreeRequests DEF Get, BootInv
<1>2. CASE a = "401"
  <2>1. rejections' = 1
    BY <1>1, <1>2 DEF Get
  <2>2. Fails("LoxoneUnauthorisedError")
    BY <1>2, RejectionIsTold DEF Get
  <2>3. request' = request
    BY <2>2 DEF Fails
  <2>4. outcome' = IF request = 3 THEN "RuntimeError" ELSE "LoxoneUnauthorisedError"
    BY <1>1, <2>2, ThreeRequests DEF Fails
  <2> QED
    BY <1>1, <2>1, <2>3, <2>4, RejectionIsTold DEF BootInv
<1>3. CASE a # "401"
  <2>1. rejections' = 0
    BY <1>1, <1>3 DEF Get
  <2>2. request' \in 1..4
    <3>1. request' \in {request, request + 1, Done}
      BY DEF Get, Accepted, Fails
    <3> QED
      BY <1>1, <3>1, ThreeRequests
  <2> QED
    BY <2>1, <2>2 DEF BootInv
<1> QED
  BY <1>2, <1>3

\* A bootstrap begins without a rejection.
LEMMA StartKeepsBootInv ==
  ASSUME StartBootstrap
  PROVE  BootInv'
  BY DEF StartBootstrap, BootInv

(***************************************************************************)
(* The clocks.                                                             *)
(***************************************************************************)
\* A session starts with clocks at zero.
LEMMA StartKeepsClockInv ==
  ASSUME StartStream
  PROVE  ClockInv'
  BY FrameStreamAssumption DEF FrameStreamAssumption, StartStream, ClockStarts, ClockInv

\* Whatever a frame does to the listener, it resets the clock, and does not end
\* the session for silence.
LEMMA ReceiveKeepsClockInv ==
  ASSUME ClockInv, phase = "listening", ended = "no", phase' = phase,
         NEW f, Receive(f)
  PROVE  ClockInv'
<1>1. lastRx' = 0 /\ silent' = 0 /\ wake' = wake
  BY DEF Receive
<1>2. ended' # "silent"
  BY DEF Receive, TakesHeader, TakesExactHeader, DropsHeader, Collects, Takes
<1> QED
  BY <1>1, <1>2, FrameStreamAssumption DEF FrameStreamAssumption, ClockInv

\* Time passes: either keep_alive() sleeps on, or it looks and finds the silence
\* it would have to wait another period for.
LEMMA TickKeepsClockInv ==
  ASSUME ClockInv, phase = "listening", ended = "no", phase' = phase, Tick
  PROVE  ClockInv'
<1> USE FrameStreamAssumption DEF FrameStreamAssumption
<1>1. silent' = silent + 1 /\ lastRx' = silent'
  BY DEF Tick, ClockInv
<1>2. CASE wake > 1
  <2>1. wake' = wake - 1 /\ ended' = ended
    BY <1>2 DEF Tick, ClockInv
  <2> QED
    BY <1>1, <1>2, <2>1 DEF ClockInv
<1>3. CASE wake = 1
  <2>1. wake' = Period /\ ended' = IF silent + 1 > ReadTimeout THEN "silent" ELSE ended
    BY <1>1, <1>3 DEF Tick
  <2>2. silent + 1 <= ReadTimeout + Period
    BY <1>3 DEF ClockInv
  <2> QED
    BY <1>1, <1>3, <2>1, <2>2 DEF ClockInv
<1> QED
  BY <1>2, <1>3 DEF ClockInv

\* Every step of a session.
LEMMA StreamKeepsClockInv ==
  ASSUME ClockInv, phase = "listening", phase' = phase, StreamNext
  PROVE  ClockInv'
<1>1. ended = "no"
  BY DEF StreamNext
<1>2. CASE StartsMessage
  BY <1>2 DEF StartsMessage, clockVars, ClockInv
<1>3. CASE SendsFrame
  BY <1>1, <1>3, ReceiveKeepsClockInv DEF SendsFrame
<1>4. CASE SendsAlone
  BY <1>1, <1>4, ReceiveKeepsClockInv DEF SendsAlone
<1>5. CASE StraysText
  BY <1>1, <1>5, ReceiveKeepsClockInv DEF StraysText
<1>6. CASE SocketEnds
  BY <1>1, <1>6 DEF SocketEnds, clockVars, ClockInv
<1>7. CASE Tick
  BY <1>1, <1>7, TickKeepsClockInv
<1> QED
  BY <1>2, <1>3, <1>4, <1>5, <1>6, <1>7 DEF StreamNext

(***************************************************************************)
(* The salts.                                                              *)
(***************************************************************************)
\* A new salt is another one.
LEMMA NextSaltDiffers ==
  \A s \in Salts : NextSalt(s) \in Salts /\ NextSalt(s) # s /\ NextSalt(s) # NoSalt
  BY DEF Salts, NextSalt, NoSalt

\* A session begins with a salt the Miniserver has not seen.
LEMMA StartKeepsSaltInv ==
  ASSUME SaltInv, StartSalt
  PROVE  SaltInv'
  BY NextSaltDiffers, SaltChainAssumption
     DEF SaltChainAssumption, SaltInv, StartSalt

\* A command either uses the salt once more, or announces the next one.
LEMMA SendKeepsSaltInv ==
  ASSUME SaltInv, SendEncrypted
  PROVE  SaltInv'
<1> USE SaltChainAssumption DEF SaltChainAssumption
<1>1. ~refused'
  BY DEF SendEncrypted, Seen, Announced, Command, SaltInv
<1>2. CASE NewSaltNeeded
  <2>1. /\ salt' = NextSalt(salt) /\ used' = 0 /\ accepts' = NextSalt(salt)
        /\ encrypted' = IF NextSalt(salt) = accepts THEN encrypted + 1 ELSE 1
    BY <1>2 DEF SendEncrypted, Seen, Announced, Command
  <2>2. encrypted' = 1
    BY <2>1, NextSaltDiffers DEF SaltInv
  <2> QED
    BY <1>1, <2>1, <2>2, NextSaltDiffers DEF SaltInv
<1>3. CASE ~NewSaltNeeded
  <2>1. /\ salt' = salt /\ used' = used + 1 /\ accepts' = salt
        /\ encrypted' = IF salt = accepts THEN encrypted + 1 ELSE 1
    BY <1>3 DEF SendEncrypted, Seen, Announced, Command
  <2>2. used + 1 <= MaxUses
    BY <1>3 DEF NewSaltNeeded, SaltInv
  <2>3. salt # NoSalt
    BY DEF SaltInv, Salts, NoSalt
  <2> QED
    BY <1>1, <2>1, <2>2, <2>3 DEF SaltInv
<1> QED
  BY <1>2, <1>3

(***************************************************************************)
(* The connection.                                                         *)
(***************************************************************************)
\* The connection starts in the invariant.
LEMMA InitInvariant == Init => IInv
  BY FrameStreamAssumption, SaltChainAssumption
     DEF FrameStreamAssumption, SaltChainAssumption, Init, InitBootstrap, InitStream, InitSalt,
         IInv, BootInv, ClockInv, SaltInv, Salts, NoSalt

\* Every step keeps it: a part is left alone, takes a step of its own, or starts
\* again.
LEMMA StepInvariant == IInv /\ [Next]_vars => IInv'
<1> SUFFICES ASSUME BootInv, ClockInv, SaltInv, [Next]_vars
             PROVE  BootInv' /\ ClockInv' /\ SaltInv'
  BY DEF IInv
<1>a. ASSUME UNCHANGED bootVars PROVE BootInv'
  BY <1>a DEF bootVars, BootInv
<1>b. ASSUME UNCHANGED saltVars PROVE SaltInv'
  BY <1>b DEF saltVars, SaltInv
<1>c. ASSUME UNCHANGED frameVars, phase' = "listening" => phase = "listening" PROVE ClockInv'
  BY <1>c DEF frameVars, clockVars, ClockInv
<1>1. CASE Requesting
  <2>1. BootInv'
    BY <1>1, GetKeepsBootInv DEF Requesting, BootstrapStep
  <2> QED
    BY <1>1, <1>b, <1>c, <2>1 DEF Requesting
<1>2. CASE SetupEnds
  BY <1>2, <1>a, <1>b, <1>c, StartKeepsSaltInv DEF SetupEnds
<1>3. CASE SetupAgain
  BY <1>3, <1>b, <1>c, StartKeepsBootInv DEF SetupAgain
<1>4. CASE Connects
  BY <1>4, <1>a, <1>b, <1>c, StartKeepsClockInv DEF Connects
<1>5. CASE OpenEnds
  <2>1. phase' # "listening"
    BY <1>5 DEF OpenEnds
  <2> QED
    BY <1>5, <2>1, <1>a, <1>b, <1>c, StartKeepsSaltInv DEF OpenEnds
<1>6. CASE Streams
  BY <1>6, <1>a, <1>b, StreamKeepsClockInv DEF Streams
<1>7. CASE Encrypts
  BY <1>7, <1>a, <1>c, SendKeepsSaltInv DEF Encrypts
<1>8. CASE SaltGrowsOld
  <2>1. SaltInv'
    BY <1>8 DEF SaltGrowsOld, SaltAges, SaltInv
  <2> QED
    BY <1>8, <1>a, <1>c, <2>1 DEF SaltGrowsOld
<1>9. CASE SessionEnds
  <2>1. phase' # "listening" /\ silent' = 0 /\ ended' = "no" /\ lastRx' = lastRx /\ wake' = wake
    BY <1>9 DEF SessionEnds
  <2>2. ClockInv'
    BY <2>1, FrameStreamAssumption DEF FrameStreamAssumption, ClockInv
  <2> QED
    BY <1>9, <1>a, <1>b, <2>2 DEF SessionEnds
<1>10. CASE BackoffOver
  BY <1>10, <1>b, <1>c, StartKeepsBootInv DEF BackoffOver
<1>11. CASE UNCHANGED vars
  BY <1>11, <1>a, <1>b, <1>c DEF vars
<1> QED
  BY <1>1, <1>2, <1>3, <1>4, <1>5, <1>6, <1>7, <1>8, <1>9, <1>10, <1>11 DEF Next

\* The invariant is one of the specification.
LEMMA Invariant == Spec => []IInv
  BY InitInvariant, StepInvariant, PTL DEF Spec

(***************************************************************************)
(* The stream.                                                             *)
(***************************************************************************)
LEMMA InitStreamInvariant == Init => StreamInv
  BY BlankInv DEF Init, InitStream, Blank

\* A session starts and ends with a blank stream; in between the listener takes
\* its turns, and everything else leaves the stream alone.
LEMMA StepStreamInvariant == StreamInv /\ [Next]_vars => StreamInv'
<1> SUFFICES ASSUME StreamInv, [Next]_vars PROVE StreamInv'
  OBVIOUS
<1>a. ASSUME UNCHANGED frameVars PROVE StreamInv'
  BY <1>a, StreamInvFrame DEF frameVars
<1>b. ASSUME Blank' PROVE StreamInv'
  BY <1>b, BlankInv, PTL
<1>1. CASE Requesting \/ SetupEnds \/ SetupAgain \/ OpenEnds \/ Encrypts \/ SaltGrowsOld \/ BackoffOver
  BY <1>1, <1>a DEF Requesting, SetupEnds, SetupAgain, OpenEnds, Encrypts, SaltGrowsOld, BackoffOver
<1>2. CASE Connects
  <2>1. StartStream => Blank'
    BY DEF StartStream, Blank
  <2> QED
    BY <1>2, <1>a, <1>b, <2>1 DEF Connects
<1>3. CASE Streams
  BY <1>3, StreamNextStep DEF Streams
<1>4. CASE SessionEnds
  <2>1. Blank'
    BY <1>4 DEF SessionEnds, Blank
  <2> QED
    BY <1>b, <2>1
<1>5. CASE UNCHANGED vars
  BY <1>5, <1>a DEF vars
<1> QED
  BY <1>1, <1>2, <1>3, <1>4, <1>5 DEF Next

\* RejectionEndsBootstrap, for every number of attempts: _get_with_retry() never
\* repeats a request that was answered with 401, and open() ends with it.
THEOREM RejectedOnce == Spec => []RejectionEndsBootstrap
<1>1. IInv => RejectionEndsBootstrap
  <2> SUFFICES ASSUME BootInv PROVE RejectionEndsBootstrap
    BY DEF IInv
  <2>1. rejections = 1 => request \in 1..3 /\ outcome # "none"
    BY DEF BootInv
  <2> QED
    BY <2>1, ThreeRequests DEF BootInv, RejectionEndsBootstrap
<1> QED
  BY <1>1, Invariant, PTL

\* SilenceIsNoticed, for every period and timeout: keep_alive() ends a session no
\* later than one period after WEBSOCKET_READ_TIMEOUT, and none before it.
THEOREM WatchdogIsTimely == Spec => []SilenceIsNoticed
<1>1. IInv => SilenceIsNoticed
  BY DEF IInv, ClockInv, SilenceIsNoticed
<1> QED
  BY <1>1, Invariant, PTL

\* SaltChainUnbroken, for every use count: each encrypted command continues the
\* chain of salts, and no salt is used more than MaxUses + 1 times.
THEOREM ChainOfSalts == Spec => []SaltChainUnbroken
<1>1. IInv => SaltChainUnbroken
  BY SaltChainAssumption DEF SaltChainAssumption, IInv, SaltInv, SaltChainUnbroken
<1> QED
  BY <1>1, Invariant, PTL

\* DamageIsBounded, for every length of a message, every way to cut it into frames,
\* and any number of text frames: each of them costs the listener at most the
\* message it interrupts and the one after it, and makes it hand on at most one
\* message that nobody sent.
THEOREM DamageStaysBounded == Spec => []DamageIsBounded
<1>1. Spec => []StreamInv
  BY InitStreamInvariant, StepStreamInvariant, PTL DEF Spec
<1> QED
  BY <1>1, StreamInvBounds, PTL
=============================================================================
