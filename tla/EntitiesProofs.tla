--------------------------- MODULE EntitiesProofs ---------------------------
(***************************************************************************)
(* What holds of Entities for every number of changes, calls, lost         *)
(* connections and reloads and every order the states are delivered in.    *)
(*                                                                         *)
(* A control with services: the invariant is DisplayInv, and what its      *)
(* steps come to for one kind or the other is DisplayFacts'.  An entity    *)
(* that has seen all states and whose commands were computed from them     *)
(* comes to show what it was asked for, because nobody else changed a      *)
(* state meanwhile and every command was executed.                         *)
(*                                                                         *)
(* An NFC reader and a doorbell fire for what happened, and once.          *)
(* An entity that would fire for the next new value watches: its base line *)
(* is set, or its bell is known to be silent.  It watches only while the   *)
(* connection is up.  The value it would fire for is due; what makes the   *)
(* argument is that a due event was heard, because it came after the base  *)
(* line, and is later than every event that was fired.                     *)
(*                                                                         *)
(* Every kind shows what it would show after a start: a fresh entity that  *)
(* is given the states in turn has seen all of them (ReplaySees, of the    *)
(* fold that AfterStart is), so has the entity once everything has         *)
(* arrived, and two entities that have seen the same look the same.        *)
(***************************************************************************)
EXTENDS DisplayFacts, QueueFacts, FiniteSetTheorems

(***************************************************************************)
(* A control with services.                                                *)
(***************************************************************************)
LEMMA DisplayKind ==
  ASSUME NEW k \in DisplayKinds
  PROVE  /\ StartsWell(k) /\ HandlesWell(k) /\ SendsWell(k) /\ ExecutesWell(k) /\ AnswersWell(k)
         /\ ValuesWell(k) /\ FlipsWell(k) /\ (Flips(k) => OneState(k))
         /\ k \notin SensorKinds /\ k \notin EventKinds /\ k # "MessageCenter"
BY KindsDisplayWell, KindsHaveValues, KindsFlipWell, FlipsOneState, Families DEF DisplaysWell

LEMMA StreamsAre ==
  ASSUME NEW k \in DisplayKinds
  PROVE  /\ PlatformStreams(k) = Streams(k) \ {"jLocked"}
         /\ HasLock(k) <=> "jLocked" \in Streams(k)
         /\ "answer" \notin Streams(k)
<1>1. "jLocked" \notin PlatformStreams(k) /\ "answer" \notin PlatformStreams(k)
  <2>1. CASE k \in CoverKinds
    BY <2>1, GateIs, WindowIs, JalousieIs DEF CoverKinds
  <2>2. CASE k \in ClimateKinds
    BY <2>2, ClimateFamily DEF ClimateStreams, ClimateKinds, IsV2
  <2>3. CASE k \in LightKinds
    BY <2>3, LightIs, LightStreamsAre DEF LightKinds
  <2>4. CASE k \in OutputKinds
    BY <2>4, OutputFamily DEF OutputStreams, OutputKinds, PickerKinds
  <2>5. CASE k \in SwitchKinds
    BY <2>5, SwitchFamily DEF SwitchStreams, SwitchKinds, OptimisticKinds
  <2>. QED
    BY <2>1, <2>2, <2>3, <2>4, <2>5 DEF DisplayKinds
<1>. QED
  BY <1>1 DEF Streams

LEMMA OrdersAre ==
  ASSUME NEW k, NEW q \in Orders(k)
  PROVE  q \in Seq(CommandsOf(k)) /\ Len(q) <= 2
<1>1. \A S : <<>> \in Seq(S) /\ (\A c \in S : <<c>> \in Seq(S)) /\ \A c, d \in S : <<c, d>> \in Seq(S)
  OBVIOUS
<1>2. CASE q = <<>>
  BY <1>1, <1>2
<1>3. CASE \E c \in CommandsOf(k) : q = <<c>>
  BY <1>1, <1>3
<1>4. CASE \E c \in CommandsOf(k) \X CommandsOf(k) : q = <<c[1], c[2]>>
  <2>1. PICK c \in CommandsOf(k) \X CommandsOf(k) : q = <<c[1], c[2]>>
    BY <1>4
  <2>2. c[1] \in CommandsOf(k) /\ c[2] \in CommandsOf(k)
    BY <2>1
  <2>3. q \in Seq(CommandsOf(k))
    BY <1>1, <2>1, <2>2
  <2>. QED
    BY <2>1, <2>3
<1>. QED
  BY <1>2, <1>3, <1>4 DEF Orders

\* Of at most two commands, to execute the first and then the rest is to execute all.
LEMMA DoneFirst ==
  ASSUME NEW k, NEW a, NEW S, NEW q \in Seq(S), q # <<>>, Len(q) <= 2
  PROVE  Done(k, Executed(k, a, Head(q)), Tail(q)) = Done(k, a, q)
<1>. DEFINE p == Tail(q)
<1>1. p \in Seq(S) /\ Head(q) = q[1] /\ Len(p) = Len(q) - 1 /\ Len(q) >= 1
  BY TailEffect
<1>2. \A i \in DOMAIN p : p[i] = q[i + 1]
  BY TailEffect
<1>3. Len(q) \in Nat /\ Len(p) \in Nat /\ DOMAIN p = 1 .. Len(p) /\ (p # <<>> => Len(p) # 0) /\ (p = <<>> => Len(p) = 0)
  <2>1. Len(q) \in Nat
    BY LenProperties
  <2>2. Len(p) \in Nat /\ DOMAIN p = 1 .. Len(p)
    BY <1>1, LenProperties
  <2>3. (p # <<>> => Len(p) # 0) /\ (p = <<>> => Len(p) = 0)
    BY <1>1, EmptySeq
  <2>. QED
    BY <2>1, <2>2, <2>3
<1>. HIDE DEF p
<1>4. CASE Len(q) = 1
  <2>1. p = <<>>
    BY <1>1, <1>3, <1>4
  <2>2. Done(k, Executed(k, a, q[1]), <<>>) = Executed(k, a, q[1]) /\ Done(k, a, q) = Executed(k, a, q[1])
    BY <1>4 DEF Done
  <2>. QED
    BY <1>1, <2>1, <2>2 DEF p
<1>5. CASE Len(q) = 2
  <2>1. p # <<>> /\ Len(p) = 1 /\ p[1] = q[2]
    BY <1>1, <1>2, <1>3, <1>5
  <2>2. Done(k, Executed(k, a, q[1]), p) = Executed(k, Executed(k, a, q[1]), q[2])
    BY <2>1 DEF Done
  <2>3. Done(k, a, q) = Executed(k, Executed(k, a, q[1]), q[2])
    BY <1>5 DEF Done
  <2>. QED
    BY <1>1, <2>2, <2>3 DEF p
<1>. QED
  BY <1>1, <1>3, <1>4, <1>5

LEMMA DisplayInit == Init => DisplayInv
<1>. SUFFICES ASSUME Init PROVE DisplayInv
  OBVIOUS
<1>1. /\ kind \in Kinds /\ asked = {} /\ wire = {} /\ outbox = <<>> /\ ~connected /\ entity = Fresh(kind)
  BY DEF Init
<1>2. CASE kind \in DisplayKinds
  <2>. DEFINE first(s) == CHOOSE v \in Values(kind, s) : s = "overrideReason" => v = 0
  <2>1. actual = [s \in Streams(kind) |-> first(s)]
    BY <1>2, DisplayKind DEF Init, IsSensor
  <2>2. \A s \in Streams(kind) : first(s) \in StatesOf(kind, s) /\ (s = "overrideReason" => first(s) = 0)
    BY <1>2, DisplayKind DEF ValuesWell
  <2>. HIDE DEF first
  <2>3. IsV2(kind) => V2States(actual)
    <3>1. SUFFICES ASSUME IsV2(kind) PROVE "overrideReason" \in Streams(kind)
      BY <2>1, <2>2 DEF V2States
    <3>. QED
      BY <3>1, V2Is DEF RoomKinds, RoomStreams, IsV2
  <2>4. Held(kind, actual)
    BY <2>1, <2>2, <2>3 DEF Held, ClimateStates
  <2>5. outbox \in Seq(CommandsOf(kind))
    BY <1>1, EmptySeq
  <2>6. entity \in EntitiesOf(kind)
    BY <1>1, <1>2, DisplayKind DEF StartsWell
  <2>. QED
    BY <1>1, <1>2, <2>4, <2>5, <2>6 DEF DisplayInv, DisplayTypes, MirrorInv, AskedInv
<1>3. CASE kind \notin DisplayKinds
  BY <1>1, <1>3 DEF DisplayInv
<1>. QED
  BY <1>2, <1>3

\* What is not on the wire when the states have changed to b is seen, of a switch and a
\* picker if what it was told has no effect unless its one state is on the wire.
LEMMA StillSeen ==
  ASSUME kind \in DisplayKinds, DisplayTypes, MirrorInv, connected,
         NEW b, NEW w, wire \subseteq w, Differing(actual, b) \subseteq w,
         Flips(kind) /\ MainStream(kind) \notin w => Idle
  PROVE  /\ \A s \in PlatformStreams(kind) \ w : Seen(kind, entity, s, b[s])
         /\ HasLock(kind) /\ "jLocked" \notin w => lock = b["jLocked"]
<1>1. \A s \in Streams(kind) : s \notin w => s \notin wire /\ b[s] = actual[s]
  BY DEF Differing
<1>2. HasLock(kind) /\ "jLocked" \notin w => lock = b["jLocked"]
  BY <1>1, StreamsAre DEF MirrorInv
<1>3. ASSUME NEW s \in PlatformStreams(kind), s \notin w PROVE Seen(kind, entity, s, b[s])
  <2>1. s \notin wire /\ b[s] = actual[s]
    BY <1>1, <1>3, StreamsAre
  <2>2. CASE Flips(kind) /\ s # MainStream(kind)
    BY <2>2, DisplayKind DEF OneState
  <2>3. CASE ~Flips(kind) \/ s = MainStream(kind)
    <3>1. Flips(kind) => Idle
      BY <1>3, <2>3
    <3>. QED
      BY <2>1, <3>1 DEF MirrorInv
  <2>. QED
    BY <2>2, <2>3
<1>. QED
  BY <1>2, <1>3

\* A state changes: it goes on the wire, and nothing that was asked for is awaited.
LEMMA DisplayChange ==
  ASSUME kind \in DisplayKinds, DisplayInv, Change
  PROVE  DisplayInv'
<1>. USE DEF DisplayInv
<1>1. /\ kind' = kind /\ entity' = entity /\ outbox' = outbox /\ lock' = lock /\ connected' = connected
      /\ astray' = astray /\ asked' = {}
      /\ wire' = IF connected THEN wire \cup Differing(actual, actual') ELSE {}
      /\ kind \in ClimateKinds => ClimateStates(kind, actual')
  BY DEF Change
<1>2. PICK s \in Streams(kind) : \E v \in Values(kind, s) : actual' = [actual EXCEPT ![s] = v]
  <2>1. ~IsSensor /\ DOMAIN actual = Streams(kind)
    BY DisplayKind DEF IsSensor, DisplayTypes, Held
  <2>2. actual' \in UNION {{[actual EXCEPT ![t] = x] : x \in Values(kind, t)} : t \in DOMAIN actual}
    BY <2>1 DEF Change
  <2>. QED
    BY <2>1, <2>2
<1>3. Held(kind, actual')
  BY <1>1, <1>2, DisplayKind DEF DisplayTypes, Held, ValuesWell
<1>4. DisplayTypes'
  BY <1>1, <1>3 DEF DisplayTypes, Differing
<1>5. MirrorInv'
  <2>1. SUFFICES ASSUME connected, Flips(kind) => Idle'
        PROVE  /\ \A t \in PlatformStreams(kind) \ wire' : Seen(kind, entity, t, actual'[t])
               /\ HasLock(kind) /\ "jLocked" \notin wire' => lock = actual'["jLocked"]
    <3>1. connected /\ HasLock(kind) /\ "jLocked" \notin wire' => lock = actual'["jLocked"]
      BY <1>1, StreamsAre DEF MirrorInv, Differing
    <3>. QED
      BY <1>1, <2>1, <3>1 DEF MirrorInv
  <2>2. ASSUME Flips(kind), MainStream(kind) \notin wire' PROVE Idle
    <3>1. actual'[MainStream(kind)] = actual[MainStream(kind)]
      BY <1>1, <2>1, <2>2, DisplayKind, StreamsAre DEF OneState, Differing
    <3>2. ~astray /\ \A i \in DOMAIN outbox : NoEffect(kind, actual', outbox[i])
      BY <1>1, <2>1, <2>2 DEF Idle
    <3>3. \A i \in DOMAIN outbox : outbox[i] \in CommandsOf(kind)
      BY RangeInSet DEF DisplayTypes
    <3>4. \A i \in DOMAIN outbox : NoEffect(kind, actual, outbox[i])
      BY <1>3, <2>2, <3>1, <3>2, <3>3, DisplayKind DEF OneState, DisplayTypes
    <3>. QED
      BY <3>2, <3>4 DEF Idle
  <2>3. wire \subseteq wire' /\ Differing(actual, actual') \subseteq wire'
    BY <1>1, <2>1
  <2>. QED
    BY <2>1, <2>2, <2>3, StillSeen
<1>6. AskedInv'
  BY <1>1 DEF AskedInv
<1>. QED
  BY <1>1, <1>4, <1>5, <1>6

\* A value is delivered: the entity has seen it, and what it had seen before.
LEMMA DisplayDeliver ==
  ASSUME kind \in DisplayKinds, DisplayInv, NEW s, Deliver(s)
  PROVE  DisplayInv'
<1>. USE DEF DisplayInv
<1>1. /\ kind' = kind /\ actual' = actual /\ connected' = connected /\ asked' = asked /\ outbox' = outbox
      /\ (astray' <=> astray) /\ connected /\ s \in wire /\ wire' = wire \ {s}
  BY DisplayKind DEF Deliver
<1>2. IF s = "jLocked" THEN lock' = actual[s] /\ entity' = entity
      ELSE entity' = Handled(kind, entity, s, actual[s]) /\ lock' = lock
  BY DEF Deliver, OnLockState
<1>3. Idle' <=> Idle
  BY <1>1 DEF Idle
<1>4. s \in Streams(kind) /\ actual[s] \in StatesOf(kind, s)
  BY <1>1 DEF DisplayTypes, Held
<1>5. entity' \in EntitiesOf(kind)
  <2>1. CASE s = "jLocked"
    BY <1>2, <2>1 DEF DisplayTypes
  <2>2. CASE s # "jLocked"
    BY <1>2, <1>4, <2>2, DisplayKind, StreamsAre DEF HandlesWell, DisplayTypes
  <2>. QED
    BY <2>1, <2>2
<1>6. DisplayTypes'
  BY <1>1, <1>5 DEF DisplayTypes
<1>7. MirrorInv'
  <2>1. ASSUME Flips(kind) => Idle, NEW t \in PlatformStreams(kind), t \notin wire'
        PROVE  Seen(kind, entity', t, actual[t])
    <3>1. t # s => Seen(kind, entity, t, actual[t])
      BY <1>1, <2>1 DEF MirrorInv
    <3>2. CASE s = "jLocked"
      BY <1>2, <2>1, <3>1, <3>2, StreamsAre
    <3>3. CASE s # "jLocked"
      <4>1. s \in PlatformStreams(kind) /\ entity' = Handled(kind, entity, s, actual[s])
        BY <1>2, <1>4, <3>3, StreamsAre
      <4>2. t = s => Seen(kind, entity', t, actual[t])
        BY <1>4, <4>1, DisplayKind DEF HandlesWell, DisplayTypes
      <4>3. t # s => Seen(kind, entity', t, actual[t])
        BY <1>4, <2>1, <3>1, <4>1, DisplayKind DEF HandlesWell, DisplayTypes
      <4>. QED
        BY <4>2, <4>3
    <3>. QED
      BY <3>2, <3>3
  <2>2. HasLock(kind) /\ "jLocked" \notin wire' => lock' = actual["jLocked"]
    BY <1>1, <1>2 DEF MirrorInv
  <2>. QED
    BY <1>1, <1>3, <2>1, <2>2 DEF MirrorInv
<1>8. AskedInv'
  <2>1. lock = 0 /\ actual["jLocked"] = 0 => lock' = 0
    BY <1>2
  <2>. QED
    BY <1>1, <2>1 DEF AskedInv
<1>. QED
  BY <1>1, <1>6, <1>7, <1>8

\* A service is called: what it sends is on its way, and what it shows at once is no
\* more than what its commands, if they have no effect, say it is.
LEMMA DisplayCall ==
  ASSUME kind \in DisplayKinds, DisplayInv, NEW r \in Requests(kind), Call(r)
  PROVE  DisplayInv'
<1>. USE DEF DisplayInv
<1>. DEFINE q == Commands(kind, entity, r)
<1>1. /\ kind' = kind /\ actual' = actual /\ connected' = connected /\ wire' = wire /\ lock' = lock
      /\ connected /\ (lock = 0 \/ ToOther(r)) /\ Offers(r) /\ entity' = Optimistic(r, q)
  BY DEF Call, Available
<1>8. PICK taken \in Taken(q) :
        /\ outbox' = outbox \o taken
        /\ asked' = IF Settled /\ ~astray /\ ~Drops(kind, entity, r) /\ taken = q THEN {r} ELSE {}
        /\ astray' = (astray \/ (RunsAhead /\ taken # q))
  BY DEF Call
<1>2. entity' = FlippedTo(kind, entity, r)
  <2>1. kind \in SwitchKinds => kind \notin PickerKinds
    BY Families DEF OutputKinds
  <2>. QED
    BY <1>1, <2>1, Zenon DEF Optimistic, FlippedTo
<1>3. q \in Seq(CommandsOf(kind)) /\ Len(q) <= 2
  BY DisplayKind, OrdersAre DEF SendsWell, DisplayTypes
<1>. HIDE DEF q
<1>9. taken \in Seq(CommandsOf(kind))
  <2>1. \A i \in DOMAIN q : q[i] \in CommandsOf(kind)
    BY <1>3, RangeInSet
  <2>2. <<>> \in Seq(CommandsOf(kind)) /\ \A c \in CommandsOf(kind) : <<c>> \in Seq(CommandsOf(kind))
    OBVIOUS
  <2>. QED
    BY <1>3, <2>1, <2>2 DEF Taken
<1>4. /\ outbox' \in Seq(CommandsOf(kind))
      /\ \A i \in DOMAIN outbox : i \in DOMAIN outbox' /\ outbox'[i] = outbox[i]
      /\ \A i \in DOMAIN taken : \E j \in DOMAIN outbox' : outbox'[j] = taken[i]
  <2>1. /\ outbox' \in Seq(CommandsOf(kind)) /\ Len(outbox') = Len(outbox) + Len(taken)
        /\ \A i \in 1 .. Len(outbox) + Len(taken) :
             outbox'[i] = IF i <= Len(outbox) THEN outbox[i] ELSE taken[i - Len(outbox)]
    BY <1>8, <1>9, ConcatProperties DEF DisplayTypes
  <2>2. /\ DOMAIN outbox = 1 .. Len(outbox) /\ DOMAIN taken = 1 .. Len(taken)
        /\ DOMAIN outbox' = 1 .. Len(outbox) + Len(taken)
        /\ Len(outbox) \in Nat /\ Len(taken) \in Nat
    BY <1>9, <2>1, LenProperties DEF DisplayTypes
  <2>3. ASSUME NEW i \in DOMAIN taken PROVE \E j \in DOMAIN outbox' : outbox'[j] = taken[i]
    <3>1. Len(outbox) + i \in 1 .. Len(outbox) + Len(taken) /\ outbox'[Len(outbox) + i] = taken[i]
      BY <2>1, <2>2, <2>3
    <3>. QED
      BY <2>2, <3>1
  <2>. QED
    BY <2>1, <2>2, <2>3
<1>5. DisplayTypes'
  BY <1>1, <1>2, <1>4, DisplayKind DEF DisplayTypes, FlipsWell
<1>6. MirrorInv'
  <2>1. ASSUME Flips(kind) => Idle', NEW s \in PlatformStreams(kind), s \notin wire
        PROVE  Seen(kind, entity', s, actual[s])
    <3>1. CASE ~Flips(kind)
      BY <1>1, <1>2, <2>1, <3>1, DisplayKind DEF FlipsWell, DisplayTypes, MirrorInv
    <3>2. CASE Flips(kind)
      <4>1. ~astray /\ taken = q /\ \A i \in DOMAIN outbox' : NoEffect(kind, actual, outbox'[i])
        BY <1>1, <1>8, <2>1, <3>2 DEF Idle, Flips, RunsAhead
      <4>2. Idle /\ \A i \in DOMAIN q : NoEffect(kind, actual, q[i])
        BY <1>4, <4>1 DEF Idle
      <4>3. Seen(kind, entity, s, actual[s])
        BY <1>1, <2>1, <4>2 DEF MirrorInv
      <4>. QED
        BY <1>2, <2>1, <4>2, <4>3, DisplayKind DEF FlipsWell, DisplayTypes, q
    <3>. QED
      BY <3>1, <3>2
  <2>. QED
    BY <1>1, <2>1 DEF MirrorInv
<1>7. AskedInv'
  <2>. SUFFICES ASSUME asked' # {} PROVE AskedInv'
    BY DEF AskedInv
  <2>1. Settled /\ ~astray /\ ~Drops(kind, entity, r) /\ taken = q /\ asked' = {r} /\ ~astray'
    BY <1>8
  <2>2. outbox = <<>> /\ wire = {}
    BY <2>1 DEF Settled
  <2>3. outbox' = q
    BY <1>3, <1>8, <2>1, <2>2, ConcatEmptySeq
  <2>4. AllSeen(kind, entity, actual)
    <3>1. DOMAIN outbox = {}
      BY <2>2
    <3>. QED
      BY <1>1, <2>1, <2>2, <3>1 DEF MirrorInv, Idle, AllSeen
  <2>5. Offered(kind, entity, r)
    BY <1>1, <2>1 DEF Offered, Offers
  <2>6. Answered(kind, Done(kind, actual, q), r)
    BY <2>4, <2>5, DisplayKind DEF AnswersWell, DisplayTypes, q
  <2>7. kind \in PickerKinds => lock = 0 /\ actual["jLocked"] = 0
    <3>1. kind \in PickerKinds => HasLock(kind) /\ kind \notin LightKinds
      BY Families DEF HasLock, OutputKinds
    <3>. QED
      BY <1>1, <2>2, <3>1 DEF MirrorInv, ToOther
  <2>. QED
    BY <1>1, <1>3, <2>1, <2>3, <2>6, <2>7 DEF AskedInv
<1>. QED
  BY <1>1, <1>5, <1>6, <1>7

\* A locked control refuses the call; what a picker took for the state is astray.
LEMMA DisplayCallLocked ==
  ASSUME kind \in DisplayKinds, DisplayInv, NEW r \in Requests(kind), CallLocked(r)
  PROVE  DisplayInv'
<1>. USE DEF DisplayInv
<1>1. /\ kind' = kind /\ actual' = actual /\ connected' = connected /\ wire' = wire /\ lock' = lock
      /\ outbox' = outbox /\ asked' = asked /\ lock = 1 /\ connected
      /\ entity' = IF kind \in PickerKinds THEN PickerFlipped(kind, entity, r) ELSE entity
      /\ astray' = (astray \/ entity' # entity)
  BY DEF CallLocked, Available
<1>2. entity' \in EntitiesOf(kind)
  <2>1. kind \in PickerKinds => entity' = FlippedTo(kind, entity, r)
    BY <1>1, Families DEF FlippedTo, OutputKinds
  <2>. QED
    BY <1>1, <2>1, DisplayKind DEF FlipsWell, DisplayTypes
<1>3. DisplayTypes'
  BY <1>1, <1>2 DEF DisplayTypes
<1>4. (Flips(kind) => Idle') => entity' = entity /\ (Flips(kind) => Idle)
  BY <1>1 DEF Idle, Flips
<1>5. MirrorInv'
  BY <1>1, <1>4 DEF MirrorInv
<1>6. AskedInv'
  <2>1. asked # {} => kind \notin PickerKinds
    BY <1>1 DEF AskedInv
  <2>2. asked # {} => ~astray'
    BY <1>1, <2>1 DEF AskedInv
  <2>. QED
    BY <1>1, <2>1, <2>2 DEF AskedInv
<1>. QED
  BY <1>1, <1>3, <1>5, <1>6

\* A command is executed: what it changed goes on the wire, and the commands that are
\* left come to what all of them came to.
LEMMA DisplayExecute ==
  ASSUME kind \in DisplayKinds, DisplayInv, Execute
  PROVE  DisplayInv'
<1>. USE DEF DisplayInv
<1>1. /\ kind' = kind /\ entity' = entity /\ lock' = lock /\ connected' = connected /\ connected
      /\ outbox # <<>> /\ outbox' = Tail(outbox)
  BY DEF Execute
<1>2. /\ outbox' \in Seq(CommandsOf(kind)) /\ Head(outbox) \in CommandsOf(kind)
      /\ Head(outbox) = outbox[1] /\ Len(outbox') = Len(outbox) - 1 /\ Len(outbox) \in Nat
      /\ \A i \in DOMAIN outbox' : i \in Nat /\ i + 1 \in DOMAIN outbox /\ outbox'[i] = outbox[i + 1]
      /\ \A i \in DOMAIN outbox' : outbox'[i] \in CommandsOf(kind)
  BY <1>1, TailEffect, RangeInSet, LenProperties DEF DisplayTypes
<1>5. \/ asked' = {} /\ astray' = (astray \/ RunsAhead) /\ actual' = actual /\ wire' = wire
      \/ /\ actual' = Executed(kind, actual, Head(outbox)) /\ asked' = asked /\ astray' = astray
         /\ wire' = wire \cup Differing(actual, actual')
  BY DisplayKind DEF Execute
<1>3. CASE asked' = {} /\ astray' = (astray \/ RunsAhead) /\ actual' = actual /\ wire' = wire
  <2>2. DisplayTypes' /\ AskedInv'
    BY <1>1, <1>2, <1>3 DEF DisplayTypes, AskedInv
  <2>3. MirrorInv'
    <3>1. Flips(kind) => ~Idle'
      BY <1>3 DEF Flips, RunsAhead, Idle
    <3>. QED
      BY <1>1, <1>3, <3>1 DEF MirrorInv
  <2>. QED
    BY <1>1, <2>2, <2>3
<1>4. CASE /\ actual' = Executed(kind, actual, Head(outbox)) /\ asked' = asked /\ astray' = astray
           /\ wire' = wire \cup Differing(actual, actual')
  <2>1. /\ actual' = Executed(kind, actual, Head(outbox)) /\ asked' = asked /\ astray' = astray
        /\ wire' = wire \cup Differing(actual, actual')
    BY <1>4
  <2>2. Held(kind, actual')
    BY <1>2, <2>1, DisplayKind DEF ExecutesWell, DisplayTypes
  <2>3. DisplayTypes'
    BY <1>1, <1>2, <2>1, <2>2 DEF DisplayTypes, Differing
  <2>4. MirrorInv'
    <3>1. ASSUME Flips(kind), MainStream(kind) \notin wire', Idle' PROVE Idle
      <4>1. actual'[MainStream(kind)] = actual[MainStream(kind)]
        BY <2>1, <3>1, DisplayKind, StreamsAre DEF OneState, Differing
      <4>2. NoEffect(kind, actual, outbox[1])
        BY <1>2, <2>1, <4>1 DEF NoEffect
      <4>3. ~astray /\ \A i \in DOMAIN outbox' : NoEffect(kind, actual', outbox'[i])
        BY <1>1, <2>1, <3>1 DEF Idle
      <4>4. \A i \in DOMAIN outbox' : NoEffect(kind, actual, outbox'[i])
        BY <1>2, <2>2, <3>1, <4>1, <4>3, DisplayKind DEF OneState, DisplayTypes
      <4>5. ASSUME NEW i \in DOMAIN outbox PROVE NoEffect(kind, actual, outbox[i])
        <5>1. DOMAIN outbox = 1 .. Len(outbox) /\ DOMAIN outbox' = 1 .. Len(outbox')
          BY <1>2, LenProperties DEF DisplayTypes
        <5>2. CASE i = 1
          BY <4>2, <5>2
        <5>3. CASE i # 1
          <6>1. i - 1 \in DOMAIN outbox' /\ (i - 1) + 1 = i
            BY <1>2, <4>5, <5>1, <5>3
          <6>. QED
            BY <1>2, <4>4, <6>1
        <5>. QED
          BY <5>2, <5>3
      <4>. QED
        BY <4>3, <4>5 DEF Idle
    <3>2. SUFFICES ASSUME Flips(kind) => Idle'
          PROVE  /\ \A t \in PlatformStreams(kind) \ wire' : Seen(kind, entity, t, actual'[t])
                 /\ HasLock(kind) /\ "jLocked" \notin wire' => lock = actual'["jLocked"]
      <4>1. HasLock(kind) /\ "jLocked" \notin wire' => lock = actual'["jLocked"]
        BY <1>1, <2>1, StreamsAre DEF MirrorInv, Differing
      <4>. QED
        BY <1>1, <3>2, <4>1 DEF MirrorInv
    <3>3. wire \subseteq wire' /\ Differing(actual, actual') \subseteq wire'
      BY <2>1
    <3>. QED
      BY <1>1, <3>1, <3>2, <3>3, StillSeen
  <2>5. AskedInv'
    <3>. SUFFICES ASSUME asked # {} PROVE AskedInv'
      BY <2>1 DEF AskedInv
    <3>1. Done(kind, actual', outbox') = Done(kind, actual, outbox) /\ Len(outbox') <= 2
      BY <1>1, <1>2, <2>1, DoneFirst DEF AskedInv, DisplayTypes
    <3>2. kind \in PickerKinds => actual'["jLocked"] = actual["jLocked"]
      BY <1>2, <2>1, PickerKeepsLock DEF DisplayTypes
    <3>. QED
      BY <1>1, <2>1, <3>1, <3>2 DEF AskedInv
  <2>. QED
    BY <1>1, <2>3, <2>4, <2>5
<1>. QED
  BY <1>3, <1>4, <1>5

\* A session ends or the integration is reloaded: what was asked for is awaited only if
\* nothing was lost.
LEMMA DisplayLost ==
  ASSUME kind \in DisplayKinds, DisplayInv, Drop \/ Reload
  PROVE  DisplayInv'
<1>. USE DEF DisplayInv
<1>1. PICK kept \in {outbox, <<>>} :
        /\ outbox' = kept /\ asked' = IF kept = outbox /\ wire = {} THEN asked ELSE {}
        /\ astray' = (astray \/ (RunsAhead /\ (kept # outbox \/ "answer" \in wire)))
  BY DEF Drop, Reload, Lost
<1>2. /\ kind' = kind /\ actual' = actual /\ ~connected' /\ wire' = {}
      /\ entity' = entity \/ entity' = Fresh(kind)
      /\ lock' = lock \/ lock' = 0
  BY DisplayKind DEF Drop, Reload, Lost, IsSensor
<1>3. DisplayTypes'
  <2>1. outbox' \in Seq(CommandsOf(kind))
    BY <1>1, EmptySeq DEF DisplayTypes
  <2>2. entity' \in EntitiesOf(kind)
    BY <1>2, DisplayKind DEF StartsWell, DisplayTypes
  <2>. QED
    BY <1>2, <2>1, <2>2 DEF DisplayTypes
<1>4. MirrorInv'
  BY <1>2 DEF MirrorInv
<1>5. AskedInv'
  <2>. SUFFICES ASSUME asked' # {} PROVE AskedInv'
    BY DEF AskedInv
  <2>1. kept = outbox /\ wire = {} /\ asked' = asked
    BY <1>1
  <2>2. outbox' = outbox /\ (astray' <=> astray)
    BY <1>1, <2>1
  <2>3. lock = 0 => lock' = 0
    BY <1>2
  <2>. QED
    BY <1>2, <2>1, <2>2, <2>3 DEF AskedInv
<1>. QED
  BY <1>2, <1>3, <1>4, <1>5

\* A session is up: every state is on the wire.
LEMMA DisplayConnect ==
  ASSUME kind \in DisplayKinds, DisplayInv, Connect
  PROVE  DisplayInv'
<1>. USE DEF DisplayInv
<1>1. /\ kind' = kind /\ actual' = actual /\ outbox' = outbox /\ entity' = entity /\ lock' = lock
      /\ asked' = asked /\ wire' = Streams(kind) /\ ~astray'
  BY DisplayKind DEF Connect
<1>2. DisplayTypes'
  BY <1>1 DEF DisplayTypes
<1>3. MirrorInv'
  <2>1. PlatformStreams(kind) \ wire' = {} /\ (HasLock(kind) => "jLocked" \in wire')
    BY <1>1, StreamsAre
  <2>. QED
    BY <1>1, <2>1 DEF MirrorInv
<1>4. AskedInv'
  BY <1>1 DEF AskedInv
<1>. QED
  BY <1>1, <1>2, <1>3, <1>4

LEMMA DisplayStutter == ASSUME DisplayInv, UNCHANGED vars PROVE DisplayInv'
<1>1. /\ kind' = kind /\ actual' = actual /\ wire' = wire /\ outbox' = outbox /\ entity' = entity
      /\ lock' = lock /\ connected' = connected /\ asked' = asked /\ astray' = astray
  BY DEF vars, ghosts
<1>. QED
  BY <1>1 DEF DisplayInv, DisplayTypes, MirrorInv, AskedInv, Idle

\* A sensor is asked for nothing.
LEMMA NothingAsked ==
  ASSUME kind \notin DisplayKinds, DisplayInv, Next
  PROVE  DisplayInv'
<1>1. kind \in Kinds /\ asked = {}
  BY DEF DisplayInv
<1>2. Requests(kind) = {}
  <2>1. kind \in SensorKinds /\ kind \notin CoverKinds /\ kind \notin ClimateKinds /\ kind \notin LightKinds
        /\ kind \notin OutputKinds /\ kind \notin SwitchKinds
    BY <1>1, EntitiesAssumption DEF DisplayKinds
  <2>. QED
    BY <2>1 DEF Requests
<1>3. kind' = kind /\ asked' = {}
  <2>1. CASE Change
    BY <2>1 DEF Change
  <2>2. CASE Execute
    BY <1>1, <2>2 DEF Execute
  <2>3. CASE Drop \/ Reload
    BY <1>1, <2>3 DEF Drop, Reload, Lost
  <2>4. CASE Connect
    BY <1>1, <2>4 DEF Connect
  <2>5. ASSUME NEW s, Deliver(s) PROVE kind' = kind /\ asked' = {}
    BY <1>1, <2>5 DEF Deliver
  <2>. QED
    BY <1>2, <2>1, <2>2, <2>3, <2>4, <2>5 DEF Next
<1>. QED
  BY <1>1, <1>3 DEF DisplayInv

LEMMA DisplayStep == DisplayInv /\ [Next]_vars => DisplayInv'
<1>. SUFFICES ASSUME DisplayInv, [Next]_vars PROVE DisplayInv'
  OBVIOUS
<1>1. CASE UNCHANGED vars
  BY <1>1, DisplayStutter
<1>2. CASE Next /\ kind \notin DisplayKinds
  BY <1>2, NothingAsked
<1>3. CASE Next /\ kind \in DisplayKinds
  <2>1. CASE Change
    BY <1>3, <2>1, DisplayChange
  <2>2. CASE Execute
    BY <1>3, <2>2, DisplayExecute
  <2>3. CASE Drop \/ Reload
    BY <1>3, <2>3, DisplayLost
  <2>4. CASE Connect
    BY <1>3, <2>4, DisplayConnect
  <2>5. ASSUME NEW s \in Streams(kind) \cup {"answer"}, Deliver(s) PROVE DisplayInv'
    BY <1>3, <2>5, DisplayDeliver
  <2>6. ASSUME NEW r \in Requests(kind), Call(r) PROVE DisplayInv'
    BY <1>3, <2>6, DisplayCall
  <2>7. ASSUME NEW r \in Requests(kind), CallLocked(r) PROVE DisplayInv'
    BY <1>3, <2>7, DisplayCallLocked
  <2>. QED
    BY <1>3, <2>1, <2>2, <2>3, <2>4, <2>5, <2>6, <2>7 DEF Next
<1>. QED
  BY <1>1, <1>2, <1>3

\* While the connection is up, every entity of a control with services has seen the states
\* of the control that are not on their way (LoxoneEntity's cache is never stale), and the
\* call that is awaited is being carried out.
THEOREM StatesAreMirrored == Spec => []DisplayInv
BY DisplayInit, DisplayStep, PTL DEF Spec

LEMMA AskedFollows == DisplayInv => AskedIsShown
<1>. SUFFICES ASSUME DisplayInv, Settled, NEW r \in asked
              PROVE  Shown(kind, entity, r) \/ (Rescaled /\ (kind \in LightKinds => r[1] = "brightness"))
  BY DEF AskedIsShown
<1>1. kind \in DisplayKinds /\ DisplayTypes /\ MirrorInv /\ AskedInv
  BY DEF DisplayInv
<1>2. connected /\ wire = {} /\ outbox = <<>> /\ DOMAIN outbox = {}
  BY DEF Settled
<1>3. /\ \E x \in Requests(kind) : asked = {x} /\ Answered(kind, Done(kind, actual, outbox), x)
      /\ ~astray
  BY <1>1 DEF AskedInv
<1>4. r \in Requests(kind) /\ Answered(kind, actual, r)
  BY <1>2, <1>3, DoneNone
<1>5. AllSeen(kind, entity, actual)
  BY <1>1, <1>2, <1>3 DEF MirrorInv, Idle, AllSeen
<1>6. Shown(kind, entity, r) \/ Unscaled(kind, entity, r)
  BY <1>1, <1>4, <1>5 DEF Answered, DisplayTypes
<1>. QED
  BY <1>6 DEF Unscaled, Rescaled

\* AskedIsShown: what a service was asked for on an up-to-date display (_send() of the
\* platforms, and their event_handler for the answer) is what is shown in the end.
THEOREM CallsAreShown == Spec => []AskedIsShown
BY StatesAreMirrored, AskedFollows, PTL

(***************************************************************************)
(* An NFC reader and a doorbell.                                           *)
(***************************************************************************)
Readers == [user : SUBSET {1, 2}, date : SUBSET Nat, baseline : BOOLEAN, fires : BOOLEAN]
Bells   == [ringing : SUBSET {0, 1}, fires : BOOLEAN]

EventTypes ==
  /\ kind = "Nfc" => actual \in [lastuser : {1, 2}, historyDate : Nat] /\ entity \in Readers
  /\ kind = "Doorbell" => actual \in [bell : {0, 1}, rings : Nat] /\ entity \in Bells
  /\ wire \subseteq SensorStreams(kind)

Watching == IF kind = "Nfc" THEN entity.baseline ELSE entity.ringing = {0}
Due      == IF kind = "Nfc" THEN entity.date # {actual.historyDate} ELSE actual.bell = 1
ThisOne  == SensorEvent(kind, actual)

WatchInv ==
  Watching => /\ connected
              /\ Due => ThisOne \in heard /\ \A i \in DOMAIN fired : fired[i] < ThisOne

FiredInv == fired \in Seq(Nat) /\ \A i \in DOMAIN fired : fired[i] <= ThisOne

EventInv ==
  IF kind \in EventKinds THEN EventTypes /\ WatchInv /\ FiredInv /\ EventsAreAccesses
                         ELSE fired = <<>>

(***************************************************************************)
(* What the general entity is for these two.                               *)
(***************************************************************************)
LEMMA IsEventKind ==
  ASSUME NEW k \in EventKinds
  PROVE  /\ k \in SensorKinds /\ k # "MessageCenter"
         /\ k \notin CoverKinds \cup ClimateKinds \cup LightKinds \cup OutputKinds \cup SwitchKinds
         /\ ~HasLock(k)
BY DEF EventKinds, SensorKinds, CoverKinds, ClimateKinds, LightKinds, OutputKinds, PickerKinds, SwitchKinds,
       OptimisticKinds, HasLock

LEMMA EventEntity ==
  ASSUME NEW k \in EventKinds
  PROVE  /\ Streams(k) = SensorStreams(k) /\ Fresh(k) = SensorFresh(k) /\ Requests(k) = {}
         /\ "jLocked" \notin SensorStreams(k)
<1>1. Streams(k) = PlatformStreams(k)
  BY IsEventKind DEF Streams
<1>2. PlatformStreams(k) = SensorStreams(k)
  BY IsEventKind DEF PlatformStreams
<1>3. Fresh(k) = SensorFresh(k)
  BY IsEventKind DEF Fresh
<1>4. Requests(k) = {}
  BY IsEventKind DEF Requests
<1>5. "jLocked" \notin SensorStreams(k)
  BY DEF SensorStreams, EventKinds
<1>. QED
  BY <1>1, <1>2, <1>3, <1>4, <1>5

LEMMA EventHandled ==
  ASSUME NEW k \in EventKinds, NEW e, NEW s, NEW v
  PROVE  Handled(k, e, s, v) = IF k = "Nfc" THEN NfcOn(e, s, v) ELSE DoorbellOn(e, v)
<1>1. Handled(k, e, s, v) = SensorOn(k, e, s, v)
  BY IsEventKind DEF Handled
<1>2. SensorOn(k, e, s, v) = IF k = "Nfc" THEN NfcOn(e, s, v) ELSE DoorbellOn(e, v)
  BY DEF SensorOn, EventKinds
<1>. QED
  BY <1>1, <1>2

LEMMA EventExecuted ==
  ASSUME NEW k \in EventKinds, NEW a, NEW c
  PROVE  Executed(k, a, c) = a
BY IsEventKind DEF Executed

\* What the two kinds start with, and what a lost connection leaves of them.
LEMMA EventFresh ==
  /\ SensorFresh("Nfc") = [user |-> {}, date |-> {}, baseline |-> FALSE, fires |-> FALSE]
  /\ SensorFresh("Doorbell") = [ringing |-> {}, fires |-> FALSE]
  /\ SensorStreams("Nfc") = {"lastuser", "historyDate"} /\ SensorStreams("Doorbell") = {"bell"}
BY DEF SensorFresh, SensorStreams

LEMMA FreshReader == SensorFresh("Nfc") \in Readers /\ ~SensorFresh("Nfc").baseline
<1>. DEFINE fresh == [user |-> {}, date |-> {}, baseline |-> FALSE, fires |-> FALSE]
<1>1. SensorFresh("Nfc") = fresh
  BY EventFresh
<1>2. fresh \in Readers
  BY DEF Readers
<1>3. ~fresh.baseline
  OBVIOUS
<1>. QED
  BY Zenon, <1>1, <1>2, <1>3

LEMMA FreshBell == SensorFresh("Doorbell") \in Bells /\ SensorFresh("Doorbell").ringing # {0}
<1>. DEFINE fresh == [ringing |-> {}, fires |-> FALSE]
<1>1. SensorFresh("Doorbell") = fresh
  BY EventFresh
<1>2. fresh \in Bells
  BY DEF Bells
<1>3. fresh.ringing # {0}
  OBVIOUS
<1>. QED
  BY Zenon, <1>1, <1>2, <1>3

LEMMA EventDisconnected ==
  ASSUME NEW e
  PROVE  /\ SensorDisconnected("Nfc", e) = NfcDisconnected(e)
         /\ SensorDisconnected("Doorbell", e) = SensorFresh("Doorbell")
BY DEF SensorDisconnected

LEMMA EventReloaded ==
  ASSUME NEW k \in EventKinds, NEW e
  PROVE  SensorReloaded(k, e) = SensorFresh(k)
BY IsEventKind DEF SensorReloaded

(***************************************************************************)
(* Their steps.                                                            *)
(***************************************************************************)
\* Somebody holds a tag to the reader or presses the bell: what happens is later than
\* every event that was fired, and it is heard if the connection is up.
LEMMA ChangeStep ==
  ASSUME kind \in EventKinds, EventInv, Change
  PROVE  EventInv'
<1>. USE DEF EventInv, EventKinds
<1>1. /\ kind' = kind /\ entity' = entity /\ connected' = connected /\ fired' = fired
      /\ actual' \in SensorChanges(kind, actual)
      /\ wire' = IF connected THEN wire \cup Differing(actual, actual') ELSE {}
      /\ heard' = IF connected THEN heard \cup ({SensorEvent(kind, actual')} \ {SensorEvent(kind, actual)})
                               ELSE heard
  BY IsEventKind DEF Change, IsSensor
<1>2. wire' \subseteq SensorStreams(kind)
  BY <1>1, EventEntity DEF EventTypes, Differing
<1>3. CASE kind = "Nfc"
  <2>1. PICK u \in {1, 2} : actual' = [actual EXCEPT !["lastuser"] = u, !["historyDate"] = @ + 1]
    BY <1>1, <1>3 DEF SensorChanges
  <2>2. EventTypes'
    <3>1. actual \in [lastuser : {1, 2}, historyDate : Nat]
      BY <1>3 DEF EventTypes
    <3>2. actual' \in [lastuser : {1, 2}, historyDate : Nat]
      BY <2>1, <3>1
    <3>. QED
      BY <1>1, <1>2, <1>3, <3>2 DEF EventTypes
  <2>3. ThisOne' = ThisOne + 1 /\ ThisOne \in Nat
    BY <1>1, <1>3, <2>1 DEF EventTypes, ThisOne, SensorEvent
  <2>4. \A i \in DOMAIN fired : fired[i] \in Nat /\ fired[i] < ThisOne'
    BY <2>3, RangeInSet DEF FiredInv
  <2>5. connected => ThisOne' \in heard'
    BY <1>1, <2>3 DEF ThisOne
  <2>6. WatchInv' /\ FiredInv' /\ EventsAreAccesses'
    BY <1>1, <1>3, <2>3, <2>4, <2>5 DEF WatchInv, FiredInv, Watching, EventsAreAccesses
  <2>. QED
    BY <1>1, <2>2, <2>6
<1>4. CASE kind = "Doorbell"
  <2>1. actual' = [bell |-> 1 - actual["bell"], rings |-> actual["rings"] + 1 - actual["bell"]]
    BY <1>1, <1>4 DEF SensorChanges
  <2>2. EventTypes'
    BY <1>1, <1>2, <1>4, <2>1 DEF EventTypes
  <2>3. ThisOne' = ThisOne + 1 - actual.bell /\ ThisOne \in Nat /\ actual.bell \in {0, 1}
    BY <1>1, <1>4, <2>1 DEF EventTypes, ThisOne, SensorEvent
  <2>4. \A i \in DOMAIN fired : fired[i] \in Nat /\ fired[i] <= ThisOne'
                                /\ (actual'.bell = 1 => fired[i] < ThisOne')
    BY <2>1, <2>3, RangeInSet DEF FiredInv
  <2>5. connected /\ actual'.bell = 1 => ThisOne' \in heard'
    BY <1>1, <2>1, <2>3 DEF ThisOne
  <2>6. WatchInv' /\ FiredInv' /\ EventsAreAccesses'
    BY <1>1, <1>4, <2>3, <2>4, <2>5 DEF WatchInv, FiredInv, Watching, Due, EventsAreAccesses
  <2>. QED
    BY <1>1, <2>2, <2>6
<1>. QED
  BY <1>3, <1>4

\* An event that is fired was due, to an entity that watches.
LEMMA FiresOne ==
  ASSUME EventInv, kind \in EventKinds, kind' = kind, actual' = actual, heard' = heard,
         fired' = fired \/ (Watching /\ Due /\ fired' = Append(fired, ThisOne)),
         ThisOne \in Nat
  PROVE  FiredInv' /\ EventsAreAccesses'
<1>. USE DEF EventInv
<1>1. CASE fired' = fired
  BY <1>1 DEF FiredInv, EventsAreAccesses, ThisOne
<1>2. CASE Watching /\ Due /\ fired' = Append(fired, ThisOne)
  <2>1. fired \in Seq(Nat) /\ ThisOne' = ThisOne
    BY DEF FiredInv, ThisOne
  <2>2. /\ fired' \in Seq(Nat) /\ DOMAIN fired = 1..Len(fired) /\ Len(fired) \in Nat
        /\ DOMAIN fired' = 1..(Len(fired) + 1)
        /\ \A i \in DOMAIN fired : fired'[i] = fired[i] /\ fired[i] \in Nat
        /\ fired'[Len(fired) + 1] = ThisOne
    BY <1>2, <2>1, AppendEffect, RangeInSet
  <2>3. ThisOne \in heard /\ \A i \in DOMAIN fired : fired[i] < ThisOne
    BY <1>2 DEF WatchInv
  <2>4. \A i \in DOMAIN fired' : fired'[i] <= ThisOne'
    BY <2>1, <2>2, <2>3
  <2>5. FiredInv'
    BY <2>2, <2>4 DEF FiredInv
  <2>6. \A i \in DOMAIN fired' : fired'[i] \in heard'
    BY <2>2, <2>3 DEF EventsAreAccesses
  <2>7. ASSUME NEW i \in DOMAIN fired', NEW j \in DOMAIN fired', i < j
        PROVE  fired'[i] < fired'[j]
    <3>1. i \in DOMAIN fired
      BY <2>2, <2>7
    <3>2. CASE j \in DOMAIN fired
      BY <2>2, <2>7, <3>1, <3>2 DEF EventsAreAccesses
    <3>3. CASE j = Len(fired) + 1
      BY <2>2, <2>3, <3>1, <3>3
    <3>. QED
      BY <2>2, <3>2, <3>3
  <2>. QED
    BY <2>5, <2>6, <2>7 DEF EventsAreAccesses
<1>. QED
  BY <1>1, <1>2

\* A value arrives: the entity fires if it watches and the event is due, which it is
\* not any more after that.
LEMMA DeliverStep ==
  ASSUME kind \in EventKinds, EventInv, NEW s, Deliver(s)
  PROVE  EventInv'
<1>. USE DEF EventInv, EventKinds
<1>1. /\ s \in wire /\ s \in SensorStreams(kind) /\ s # "jLocked" /\ connected
  BY EventEntity DEF Deliver, EventTypes
<1>2. /\ kind' = kind /\ actual' = actual /\ connected' = connected /\ heard' = heard
      /\ wire' = wire \ {s}
      /\ entity' = Handled(kind, entity, s, actual[s])
      /\ fired' = IF entity'.fires THEN Append(fired, ThisOne) ELSE fired
  BY <1>1 DEF Deliver, ThisOne
<1>3. wire' \subseteq SensorStreams(kind)
  BY <1>2 DEF EventTypes
<1>4. CASE kind = "Nfc"
  <2>1. s \in {"lastuser", "historyDate"}
    BY <1>1, <1>4, EventFresh
  <2>2. entity' = NfcOn(entity, s, actual[s])
    BY <1>2, <1>4, EventHandled
  <2>3. ThisOne = actual.historyDate /\ ThisOne \in Nat
    BY <1>4 DEF ThisOne, SensorEvent, EventTypes
  <2>4. CASE s = "lastuser"
    <3>1. entity' = [entity EXCEPT !.user = {actual.lastuser}, !.fires = FALSE]
      BY <2>2, <2>4 DEF NfcOn
    <3>2. ~entity'.fires /\ entity'.baseline = entity.baseline /\ entity'.date = entity.date
      BY <1>4, <3>1 DEF EventTypes
    <3>3. fired' = fired
      BY <1>2, <3>2
    <3>4. entity \in Readers /\ actual \in [lastuser : {1, 2}, historyDate : Nat]
      BY <1>4 DEF EventTypes
    <3>5. entity' \in Readers
      BY <3>1, <3>4 DEF Readers
    <3>6. EventTypes'
      BY <1>2, <1>4, <1>3, <3>4, <3>5 DEF EventTypes
    <3>7. WatchInv'
      BY <1>2, <1>4, <3>2, <3>3 DEF WatchInv, Watching, Due, ThisOne
    <3>. QED
      BY <1>2, <2>3, <3>3, <3>6, <3>7, FiresOne
  <2>5. CASE s = "historyDate" /\ entity.date = {actual.historyDate}
    <3>1. entity' = [entity EXCEPT !.fires = FALSE]
      BY <2>2, <2>5 DEF NfcOn
    <3>2. ~entity'.fires /\ entity'.date = {actual.historyDate}
      BY <1>4, <2>5, <3>1 DEF EventTypes
    <3>3. fired' = fired
      BY <1>2, <3>2
    <3>4. entity \in Readers /\ actual \in [lastuser : {1, 2}, historyDate : Nat]
      BY <1>4 DEF EventTypes
    <3>5. entity' \in Readers
      BY <3>1, <3>4 DEF Readers
    <3>6. EventTypes'
      BY <1>2, <1>4, <1>3, <3>4, <3>5 DEF EventTypes
    <3>7. WatchInv'
      BY <1>1, <1>2, <1>4, <3>2 DEF WatchInv, Due
    <3>. QED
      BY <1>2, <2>3, <3>3, <3>6, <3>7, FiresOne
  <2>6. CASE s = "historyDate" /\ entity.date # {actual.historyDate}
    <3>1. entity' = [entity EXCEPT !.date = {actual.historyDate}, !.baseline = TRUE, !.fires = entity.baseline]
      BY <2>2, <2>6 DEF NfcOn
    <3>2. entity'.date = {actual.historyDate} /\ entity'.fires = entity.baseline
      BY <1>4, <3>1 DEF EventTypes
    <3>3. fired' = fired \/ (Watching /\ Due /\ fired' = Append(fired, ThisOne))
      BY <1>2, <1>4, <2>6, <3>2 DEF Watching, Due
    <3>4. entity \in Readers /\ actual \in [lastuser : {1, 2}, historyDate : Nat]
      BY <1>4 DEF EventTypes
    <3>5. entity' \in Readers
      BY <3>1, <3>4 DEF Readers
    <3>6. EventTypes'
      BY <1>2, <1>4, <1>3, <3>4, <3>5 DEF EventTypes
    <3>7. WatchInv'
      BY <1>1, <1>2, <1>4, <3>2 DEF WatchInv, Due
    <3>. QED
      BY <1>2, <2>3, <3>3, <3>6, <3>7, FiresOne
  <2>. QED
    BY <2>1, <2>4, <2>5, <2>6
<1>5. CASE kind = "Doorbell"
  <2>1. s = "bell" /\ entity' = DoorbellOn(entity, actual.bell)
    BY <1>1, <1>2, <1>5, EventFresh, EventHandled
  <2>2. ThisOne = actual.rings /\ ThisOne \in Nat /\ actual.bell \in {0, 1} /\ entity \in Bells
    BY <1>5 DEF ThisOne, SensorEvent, EventTypes
  <2>3. entity'.ringing = {actual.bell} /\ entity' \in Bells
    BY <2>1, <2>2 DEF DoorbellOn, Bells
  <2>4. entity'.fires <=> actual.bell = 1 /\ entity.ringing = {0}
    BY Zenon, <2>1 DEF DoorbellOn
  <2>5. fired' = fired \/ (Watching /\ Due /\ fired' = Append(fired, ThisOne))
    BY <1>2, <1>5, <2>4 DEF Watching, Due
  <2>6. EventTypes'
    BY <1>2, <1>5, <1>3, <2>3 DEF EventTypes
  <2>7. actual.bell = 1 => entity'.ringing # {0}
    BY <2>3
  <2>8. Due' => ~Watching'
    BY <1>2, <1>5, <2>7 DEF Watching, Due
  <2>9. WatchInv'
    BY <1>1, <1>2, <2>8 DEF WatchInv
  <2>. QED
    BY <1>2, <2>2, <2>5, <2>6, <2>9, FiresOne
<1>. QED
  BY <1>4, <1>5

\* A step that fires nothing and hears nothing, of an entity that stays as it is and
\* connected, or does not watch any more.
LEMMA NothingHappens ==
  ASSUME kind \in EventKinds, EventInv, EventTypes', UNCHANGED <<kind, actual, heard, fired>>,
         (entity' = entity /\ (connected => connected')) \/ ~Watching'
  PROVE  EventInv'
  BY DEF EventInv, WatchInv, FiredInv, EventsAreAccesses, Watching, Due, ThisOne

\* The connection is lost or the integration is reloaded: nobody watches.
LEMMA LostStep ==
  ASSUME kind \in EventKinds, EventInv, Drop \/ Reload
  PROVE  EventInv'
<1>. USE DEF EventInv, EventKinds
<1>1. UNCHANGED <<kind, actual, heard, fired>> /\ wire' = {}
  BY DEF Drop, Reload, Lost
<1>2. CASE kind = "Nfc"
  <2>1. entity' = NfcDisconnected(entity) \/ entity' = SensorFresh("Nfc")
    BY <1>2, IsEventKind, EventDisconnected, EventReloaded DEF Drop, Reload, IsSensor
  <2>2. entity \in Readers
    BY <1>2 DEF EventTypes
  <2>3. entity' \in Readers /\ ~entity'.baseline
    BY <2>1, <2>2, FreshReader DEF NfcDisconnected, Readers
  <2>4. EventTypes'
    BY <1>1, <1>2, <2>3 DEF EventTypes
  <2>5. ~Watching'
    BY <1>1, <1>2, <2>3 DEF Watching
  <2>. QED
    BY <1>1, <2>4, <2>5, NothingHappens
<1>3. CASE kind = "Doorbell"
  <2>1. entity' = SensorFresh("Doorbell")
    BY <1>3, IsEventKind, EventDisconnected, EventReloaded DEF Drop, Reload, IsSensor
  <2>2. EventTypes'
    BY <1>1, <1>3, <2>1, FreshBell DEF EventTypes
  <2>3. ~Watching'
    BY <1>1, <1>3, <2>1, FreshBell DEF Watching
  <2>. QED
    BY <1>1, <2>2, <2>3, NothingHappens
<1>. QED
  BY <1>2, <1>3

\* The other steps: a session that is up is sent the states again, and there is no
\* service and no command for these entities.
LEMMA OtherStep ==
  ASSUME kind \in EventKinds, EventInv, Connect \/ Execute \/ UNCHANGED vars
  PROVE  EventInv'
<1>. USE DEF EventInv
<1>1. CASE Connect
  <2>1. EventTypes'
    BY <1>1, EventEntity DEF Connect, EventTypes
  <2>2. UNCHANGED <<kind, actual, heard, fired>> /\ entity' = entity /\ (connected => connected')
    BY <1>1 DEF Connect
  <2>. QED
    BY <2>1, <2>2, NothingHappens
<1>2. CASE Execute
  <2>1. /\ UNCHANGED <<kind, entity, heard, fired, connected>> /\ actual' = actual
        /\ wire' \subseteq wire \cup Differing(actual, actual')
    BY <1>2, EventExecuted, IsEventKind DEF Execute
  <2>2. Differing(actual, actual') = {}
    BY <2>1 DEF Differing
  <2>3. EventTypes'
    BY <2>1, <2>2 DEF EventTypes
  <2>4. UNCHANGED <<kind, actual, heard, fired>> /\ entity' = entity /\ (connected => connected')
    BY <2>1
  <2>. QED
    BY <2>3, <2>4, NothingHappens
<1>3. CASE UNCHANGED vars
  <2>1. EventTypes'
    BY <1>3 DEF vars, EventTypes
  <2>2. UNCHANGED <<kind, actual, heard, fired>> /\ entity' = entity /\ (connected => connected')
    BY <1>3 DEF vars, ghosts
  <2>. QED
    BY <2>1, <2>2, NothingHappens
<1>. QED
  BY <1>1, <1>2, <1>3

(***************************************************************************)
(* What they fire for, for every run.                                      *)
(***************************************************************************)
\* At the start nothing was heard, and the entity knows nothing.
LEMMA InitEventInvariant == Init => EventInv
<1>. SUFFICES ASSUME Init PROVE EventInv
  OBVIOUS
<1>1. fired = <<>> /\ wire = {} /\ heard = {}
  BY DEF Init
<1>2. fired \in Seq(Nat) /\ DOMAIN fired = {}
  BY <1>1
<1>3. ASSUME kind \in EventKinds PROVE EventTypes /\ ~Watching
  <2>1. actual = SensorInitially(kind) /\ entity = SensorFresh(kind)
    BY <1>3, IsEventKind, EventEntity DEF Init, IsSensor
  <2>2. CASE kind = "Nfc"
    <3>1. actual = [lastuser |-> 1, historyDate |-> 1]
      BY <2>1, <2>2 DEF SensorInitially
    <3>2. actual \in [lastuser : {1, 2}, historyDate : Nat] /\ entity \in Readers /\ ~entity.baseline
      BY <2>1, <2>2, <3>1, FreshReader
    <3>3. EventTypes
      BY <1>1, <2>2, <3>2 DEF EventTypes
    <3>. QED
      BY <2>2, <3>2, <3>3 DEF Watching
  <2>3. CASE kind = "Doorbell"
    <3>1. actual = [bell |-> 0, rings |-> 0]
      BY <2>1, <2>3 DEF SensorInitially
    <3>2. actual \in [bell : {0, 1}, rings : Nat] /\ entity \in Bells /\ entity.ringing # {0}
      BY <2>1, <2>3, <3>1, FreshBell
    <3>3. EventTypes
      BY <1>1, <2>3, <3>2 DEF EventTypes
    <3>. QED
      BY <2>3, <3>2, <3>3 DEF Watching
  <2>. QED
    BY <1>3, <2>2, <2>3 DEF EventKinds
<1>. QED
  BY <1>1, <1>2, <1>3 DEF EventInv, WatchInv, FiredInv, EventsAreAccesses

LEMMA StepEventInvariant == EventInv /\ [Next]_vars => EventInv'
<1>. SUFFICES ASSUME EventInv, [Next]_vars PROVE EventInv'
  OBVIOUS
<1>1. kind' = kind
  BY DEF Next, Change, Execute, Drop, Reload, Lost, Connect, Deliver, Call, CallLocked, vars
<1>2. CASE kind \in EventKinds
  <2>1. Requests(kind) = {}
    BY <1>2, EventEntity
  <2>. QED
    BY <1>2, <2>1, ChangeStep, DeliverStep, LostStep, OtherStep DEF Next
<1>3. CASE kind \notin EventKinds
  <2>1. fired' = fired
    BY <1>3 DEF Next, Change, Execute, Drop, Reload, Lost, Connect, Deliver, Call, CallLocked, vars, ghosts
  <2>. QED
    BY <1>1, <1>3, <2>1 DEF EventInv
<1>. QED
  BY <1>2, <1>3

\* EventsAreAccesses, for any number of accesses, rings, lost connections and
\* reloads: an NFC reader and a doorbell never fire for what a new session repeats,
\* nor twice, nor in the wrong order.
THEOREM EventsAreHeard == Spec => []EventsAreAccesses
<1>1. EventInv => EventsAreAccesses
  <2>1. fired = <<>> => EventsAreAccesses
    BY DEF EventsAreAccesses
  <2>. QED
    BY <2>1 DEF EventInv
<1>. QED
  BY <1>1, InitEventInvariant, StepEventInvariant, PTL DEF Spec

(***************************************************************************)
(* What a start comes to show.  A fold over a finite set is the value at   *)
(* the set of a function on its subsets, which handles one element after   *)
(* those that are left; that there is one has to be proved.                *)
(***************************************************************************)
Pick(S) == CHOOSE s \in S : TRUE

Layer(k, a, base, f, S) ==
  IF S = {} THEN base ELSE Handled(k, f[S \ {Pick(S)}], Pick(S), a[Pick(S)])

Layers(k, a, base, f, D) == f = [s \in D |-> Layer(k, a, base, f, s)]

Replayed(k, a, base, S) ==
  LET handle(s, e) == Handled(k, e, s, a[s]) IN FoldSet(handle, base, S)

LEMMA FoldIs ==
  ASSUME NEW k, NEW a, NEW base, NEW S
  PROVE  Replayed(k, a, base, S) = (CHOOSE f : Layers(k, a, base, f, SUBSET S))[S]
BY DEF Replayed, FoldSet, MapThenFoldSet, Layers, Layer, Pick

Smaller(S, n) == {s \in SUBSET S : Cardinality(s) <= n}

LEMMA SubsetsAre ==
  ASSUME NEW S, IsFiniteSet(S), NEW s \in SUBSET S
  PROVE  /\ Cardinality(s) \in Nat /\ Cardinality(s) <= Cardinality(S)
         /\ Cardinality(s) = 0 <=> s = {}
         /\ s # {} => /\ Pick(s) \in s /\ s \ {Pick(s)} \in SUBSET S
                      /\ Cardinality(s \ {Pick(s)}) = Cardinality(s) - 1
<1>1. IsFiniteSet(s) /\ Cardinality(s) <= Cardinality(S)
  BY FS_Subset
<1>2. Cardinality(s) \in Nat /\ (Cardinality(s) = 0 <=> s = {})
  BY <1>1, FS_CardinalityType, FS_EmptySet
<1>3. s # {} => Pick(s) \in s
  BY DEF Pick
<1>4. s # {} => Cardinality(s \ {Pick(s)}) = Cardinality(s) - 1
  BY <1>1, <1>3, FS_RemoveElement
<1>. QED
  BY <1>1, <1>2, <1>3, <1>4

LEMMA LayersExist ==
  ASSUME NEW k, NEW a, NEW base, NEW S, IsFiniteSet(S)
  PROVE  \E f : Layers(k, a, base, f, SUBSET S)
<1>. DEFINE Bad == {n \in Nat : ~\E f : Layers(k, a, base, f, Smaller(S, n))}
<1>1. Bad = {}
  <2>. SUFFICES ASSUME Bad # {} PROVE FALSE
    OBVIOUS
  <2>1. PICK n \in Bad : \A m \in Bad : n <= m
    BY Smallest
  <2>2. n \in Nat /\ ~\E f : Layers(k, a, base, f, Smaller(S, n))
    BY <2>1
  <2>3. CASE n = 0
    <3>. DEFINE f == [s \in Smaller(S, 0) |-> base]
    <3>1. ASSUME NEW s \in Smaller(S, 0) PROVE s = {}
      <4>1. s \in SUBSET S /\ Cardinality(s) <= 0
        BY <3>1 DEF Smaller
      <4>2. Cardinality(s) \in Nat /\ (Cardinality(s) = 0 <=> s = {})
        BY <4>1, SubsetsAre
      <4>. QED
        BY <4>1, <4>2
    <3>2. Layers(k, a, base, f, Smaller(S, 0))
      BY <3>1 DEF Layers, Layer
    <3>. QED
      BY <2>2, <2>3, <3>2
  <2>4. CASE n # 0
    <3>1. n - 1 \in Nat /\ n - 1 \notin Bad
      BY <2>1, <2>2, <2>4
    <3>2. PICK g : Layers(k, a, base, g, Smaller(S, n - 1))
      BY <3>1
    <3>. DEFINE f == [s \in Smaller(S, n) |-> Layer(k, a, base, g, s)]
    <3>3. ASSUME NEW s \in Smaller(S, n) PROVE Layer(k, a, base, g, s) = Layer(k, a, base, f, s)
      <4>1. CASE s = {}
        BY <4>1 DEF Layer
      <4>2. CASE s # {}
        <5>. DEFINE t == s \ {Pick(s)}
        <5>1. s \in SUBSET S /\ Cardinality(s) <= n
          BY <3>3 DEF Smaller
        <5>2. t \in SUBSET S /\ Cardinality(t) = Cardinality(s) - 1 /\ Cardinality(s) \in Nat
          BY <4>2, <5>1, SubsetsAre
        <5>3. t \in Smaller(S, n - 1) /\ t \in Smaller(S, n)
          BY <2>2, <5>1, <5>2 DEF Smaller
        <5>4. f[t] = Layer(k, a, base, g, t)
          BY <5>3
        <5>5. g[t] = Layer(k, a, base, g, t)
          BY <3>2, <5>3 DEF Layers
        <5>. QED
          BY <4>2, <5>4, <5>5 DEF Layer
      <4>. QED
        BY <4>1, <4>2
    <3>4. Layers(k, a, base, f, Smaller(S, n))
      BY <3>3 DEF Layers
    <3>. QED
      BY <2>2, <3>4
  <2>. QED
    BY <2>3, <2>4
<1>2. Cardinality(S) \in Nat
  BY FS_CardinalityType
<1>3. PICK f : Layers(k, a, base, f, Smaller(S, Cardinality(S)))
  BY <1>1, <1>2
<1>4. Smaller(S, Cardinality(S)) = SUBSET S
  BY SubsetsAre DEF Smaller
<1>. QED
  BY <1>3, <1>4

Replays(k, a, base, S, f) ==
  Replayed(k, a, base, S) = f[S] /\ \A s \in SUBSET S : f[s] = Layer(k, a, base, f, s)

LEMMA ReplayIs ==
  ASSUME NEW k, NEW a, NEW base, NEW S, IsFiniteSet(S)
  PROVE  \E f : Replays(k, a, base, S, f)
<1>. DEFINE f == CHOOSE g : Layers(k, a, base, g, SUBSET S)
<1>1. Layers(k, a, base, f, SUBSET S)
  BY LayersExist
<1>2. Replayed(k, a, base, S) = f[S]
  BY FoldIs
<1>. HIDE DEF f
<1>3. \A s \in SUBSET S : f[s] = Layer(k, a, base, f, s)
  BY <1>1 DEF Layers
<1>. QED
  BY <1>2, <1>3 DEF Replays

LEMMA ReplayNone ==
  ASSUME NEW k, NEW a, NEW base
  PROVE  Replayed(k, a, base, {}) = base
<1>1. IsFiniteSet({})
  BY FS_EmptySet
<1>0. PICK f : Replays(k, a, base, {}, f)
  BY <1>1, ReplayIs
<1>2. Replayed(k, a, base, {}) = f[{}] /\ \A s \in SUBSET {} : f[s] = Layer(k, a, base, f, s)
  BY <1>0 DEF Replays
<1>3. {} \in SUBSET {}
  OBVIOUS
<1>. QED
  BY <1>2, <1>3 DEF Layer

LEMMA ReplayOne ==
  ASSUME NEW k, NEW a, NEW base, NEW x
  PROVE  Replayed(k, a, base, {x}) = Handled(k, base, x, a[x])
<1>1. IsFiniteSet({x})
  BY FS_Singleton
<1>0. PICK f : Replays(k, a, base, {x}, f)
  BY <1>1, ReplayIs
<1>2. Replayed(k, a, base, {x}) = f[{x}] /\ \A s \in SUBSET {x} : f[s] = Layer(k, a, base, f, s)
  BY <1>0 DEF Replays
<1>3. f[{}] = base
  BY <1>2 DEF Layer
<1>4. Pick({x}) = x /\ {x} \ {x} = {}
  BY DEF Pick
<1>5. f[{x}] = Handled(k, f[{x} \ {x}], x, a[x])
  BY <1>2, <1>4 DEF Layer
<1>. QED
  BY <1>2, <1>3, <1>4, <1>5

\* Handling keeps to E and keeps what is seen, G: in the end all is seen.
LEMMA ReplaySees ==
  ASSUME NEW k, NEW a, NEW base, NEW S, IsFiniteSet(S), NEW E, NEW G,
         base \in E, NEW T, S \subseteq T,
         \A e \in E, s \in S : /\ Handled(k, e, s, a[s]) \in E
                               /\ <<s, Handled(k, e, s, a[s])>> \in G
                               /\ \A t \in T : <<t, e>> \in G => <<t, Handled(k, e, s, a[s])>> \in G
  PROVE  /\ Replayed(k, a, base, S) \in E
         /\ \A t \in T : t \in S \/ <<t, base>> \in G => <<t, Replayed(k, a, base, S)>> \in G
<1>0. PICK f : Replays(k, a, base, S, f)
  BY ReplayIs
<1>1. Replayed(k, a, base, S) = f[S] /\ \A s \in SUBSET S : f[s] = Layer(k, a, base, f, s)
  BY <1>0 DEF Replays
<1>. DEFINE Good(s) == f[s] \in E /\ \A t \in T : t \in s \/ <<t, base>> \in G => <<t, f[s]>> \in G
            Bad == {n \in Nat : \E s \in SUBSET S : Cardinality(s) = n /\ ~Good(s)}
<1>2. Bad = {}
  <2>. SUFFICES ASSUME Bad # {} PROVE FALSE
    OBVIOUS
  <2>1. PICK n \in Bad : \A m \in Bad : n <= m
    BY Smallest
  <2>2. PICK s \in SUBSET S : Cardinality(s) = n /\ ~Good(s)
    BY <2>1
  <2>3. CASE s = {}
    <3>1. f[s] = base
      BY <1>1, <2>3 DEF Layer
    <3>. QED
      BY <2>2, <2>3, <3>1
  <2>4. CASE s # {}
    <3>. DEFINE x == Pick(s)
                t == s \ {x}
    <3>1. x \in s /\ t \in SUBSET S /\ Cardinality(t) = n - 1 /\ n \in Nat /\ n # 0
      BY <2>2, <2>4, SubsetsAre
    <3>2. n - 1 \in Nat /\ n - 1 \notin Bad
      BY <2>1, <3>1
    <3>3. Good(t)
      BY <3>1, <3>2
    <3>4. f[s] = Handled(k, f[t], x, a[x])
      BY <1>1, <2>4 DEF Layer
    <3>5. x \in S /\ \A y : y \in s <=> (y \in t \/ y = x)
      BY <3>1
    <3>. HIDE DEF x, t, Bad
    <3>6. f[s] \in E /\ <<x, f[s]>> \in G /\ \A y \in T : <<y, f[t]>> \in G => <<y, f[s]>> \in G
      BY <3>3, <3>4, <3>5
    <3>7. Good(s)
      BY <3>3, <3>5, <3>6
    <3>. QED
      BY <2>2, <3>7
  <2>. QED
    BY <2>3, <2>4
<1>3. Cardinality(S) \in Nat
  BY FS_CardinalityType
<1>4. Good(S)
  BY <1>2, <1>3
<1>. QED
  BY <1>1, <1>4

(***************************************************************************)
(* What a start comes to.                                                  *)
(***************************************************************************)
LEMMA SevenAreFinite ==
  ASSUME NEW S, NEW t, NEW u, NEW v, NEW w, NEW x, NEW y, NEW z, S \subseteq {t, u, v, w, x, y, z}
  PROVE  IsFiniteSet(S)
<1>1. IsFiniteSet({u}) /\ IsFiniteSet({v}) /\ IsFiniteSet({w}) /\ IsFiniteSet({x}) /\ IsFiniteSet({y}) /\ IsFiniteSet({z})
  BY FS_Singleton
<1>2. IsFiniteSet({u} \cup {v}) /\ IsFiniteSet({w} \cup {x}) /\ IsFiniteSet({y} \cup {z})
  BY <1>1, FS_Union
<1>3. IsFiniteSet(({u} \cup {v}) \cup ({w} \cup {x}))
  BY <1>2, FS_Union
<1>4. IsFiniteSet((({u} \cup {v}) \cup ({w} \cup {x})) \cup ({y} \cup {z}))
  BY <1>2, <1>3, FS_Union
<1>5. IsFiniteSet({t} \cup ((({u} \cup {v}) \cup ({w} \cup {x})) \cup ({y} \cup {z})))
  BY <1>4, FS_Singleton, FS_Union
<1>6. S \subseteq {t} \cup ((({u} \cup {v}) \cup ({w} \cup {x})) \cup ({y} \cup {z}))
  OBVIOUS
<1>. QED
  BY <1>5, <1>6, FS_Subset

LEMMA StreamsAreFinite ==
  ASSUME NEW k \in DisplayKinds
  PROVE  IsFiniteSet(PlatformStreams(k))
<1>1. CASE k \in CoverKinds
  <2>1. PlatformStreams(k) \subseteq {"position", "active", "direction", "targetPosition", "position", "position", "position"}
        \/ PlatformStreams(k) \subseteq {"position", "shadePosition", "up", "down", "autoActive", "position", "position"}
    BY <1>1, GateIs, WindowIs, JalousieIs DEF CoverKinds
  <2>. QED
    BY <2>1, SevenAreFinite
<1>2. CASE k \in ClimateKinds
  <2>1. \/ PlatformStreams(k) \subseteq {"operatingMode", "activeMode", "overrideReason", "setpoints",
                                      "tempTarget", "tempTarget", "tempTarget"}
        \/ PlatformStreams(k) \subseteq {"mode", "serviceMode", "status", "targetTemperature", "mode", "mode", "mode"}
    BY <1>2, V2Is, V1Is, AcIs DEF ClimateKinds, RoomKinds, RoomStreams
  <2>. QED
    BY <2>1, SevenAreFinite
<1>3. CASE k \in LightKinds
  <2>1. PlatformStreams(k) \subseteq {"activeMoods", "moodList", "circuit1", "circuit2", "min", "max", "master"}
    BY <1>3, LightIs, LightStreamsAre DEF LightKinds
  <2>. QED
    BY <2>1, SevenAreFinite
<1>4. CASE k \in OutputKinds
  <2>1. \/ PlatformStreams(k) \subseteq {"min", "max", "position", "color", "value", "activeOutput", "min"}
        \/ PlatformStreams(k) \subseteq {"mode", "speed", "mode", "mode", "mode", "mode", "mode"}
        \/ PlatformStreams(k) \subseteq {"playState", "active", "mute", "volume", "source", "sourceList", "metadata"}
    BY <1>4, DimmerIs, PickerIs, FanIs, ZoneIs, RadioIs, SelectorIs DEF OutputKinds
  <2>. QED
    BY <2>1, SevenAreFinite
<1>5. CASE k \in SwitchKinds
  <2>1. \/ PlatformStreams(k) \subseteq {"active", "deactivationDelay", "overrideEntries", "muted",
                                      "deactivationDelayTotal", "muted", "muted"}
        \/ PlatformStreams(k) \subseteq {"armed", "disabledMove", "armedDelay", "armedAt", "level", "level", "level"}
    BY <1>5, SwitchIs, AlarmIs DEF SwitchKinds, PlainSwitches
  <2>. QED
    BY <2>1, SevenAreFinite
<1>. QED
  BY <1>1, <1>2, <1>3, <1>4, <1>5 DEF DisplayKinds

\* A fresh entity with the states a in turn, what has a scale last.
Scaled(k) == {"position", "master"} \cap PlatformStreams(k)

Started(k, a) ==
  Replayed(k, a, Replayed(k, a, Fresh(k), PlatformStreams(k) \ Scaled(k)), Scaled(k))

LEMMA AfterStartIs ==
  AfterStart = IF kind = "MessageCenter" THEN Handled(kind, Started(kind, actual), "answer", actual["answer"])
               ELSE Started(kind, actual)
BY DEF AfterStart, Started, Replayed, Scaled

\* The range came first, so the brightness is on the scale there is.
LEMMA LastIsUnscaled ==
  ASSUME NEW k \in ScaledKinds, k # "Light", NEW e \in EntitiesOf(k), NEW a, Held(k, a)
  PROVE  \E s \in PlatformStreams(k) : Scaled(k) = {s} /\ ~Handled(k, e, s, a[s]).rescaled
<1>1. CASE k = "Dimmer"
  <2>1. Scaled(k) = {"position"} /\ "position" \in PlatformStreams(k)
    BY <1>1, DimmerIs DEF Scaled
  <2>2. Handled(k, e, "position", a["position"]) = DimmerOn(e, "position", a["position"]) /\ e \in Dimmers
    BY <1>1, DimmerIs
  <2>3. ~Handled(k, e, "position", a["position"]).rescaled
    BY <2>2 DEF DimmerOn, ScaleOn, Dimmers
  <2>. QED
    BY <2>1, <2>3
<1>2. CASE k = "MasterLight"
  <2>. DEFINE f == Received(e, "master", a["master"])
  <2>1. Scaled(k) = {"master"} /\ k \in LightKinds /\ "master" \in LightStreams(k) /\ "master" \in PlatformStreams(k)
    BY <1>2, LightIs, LightStreamsAre DEF Scaled, LightKinds
  <2>2. e \in LightsOf /\ NoOthers(k, e)
    BY <2>1, LightIs
  <2>3. a["master"] \in StatesOf(k, "master")
    BY <2>1 DEF Held, Streams
  <2>4. f \in LightsOf /\ NoOthers(k, f)
    BY <2>1, <2>2, <2>3, LightReceives
  <2>5. ScaleOn(e, "position", a["master"]) = [e EXCEPT !.level = {Brightness(e, a["master"])}, !.rescaled = FALSE]
    BY Zenon DEF ScaleOn
  <2>6. ~f.rescaled
    <3>1. f = [ScaleOn(e, "position", a["master"]) EXCEPT !.master = {a["master"]}]
      BY Zenon DEF Received
    <3>2. ~[[e EXCEPT !.level = {Brightness(e, a["master"])}, !.rescaled = FALSE]
               EXCEPT !.master = {a["master"]}].rescaled
      BY <2>2 DEF LightsOf
    <3>. QED
      BY <2>5, <3>1, <3>2, Zenon
  <2>7. Handled(k, e, "master", a["master"]) = Derived(f)
    <3>1. \A s, v : LightOn(e, s, v) = Derived(Received(e, s, v))
      BY Zenon DEF LightOn, Received
    <3>2. Handled(k, e, "master", a["master"]) = LightOn(e, "master", a["master"])
      BY <2>1, LightIs
    <3>. QED
      BY <3>1, <3>2
  <2>8. Derived(f).rescaled = f.rescaled
    BY <2>1, <2>4, DerivedIs
  <2>. QED
    BY <2>1, <2>6, <2>7, <2>8
<1>. QED
  BY <1>1, <1>2 DEF ScaledKinds, LightKinds

LEMMA StartSees ==
  ASSUME NEW k \in DisplayKinds, NEW a, Held(k, a)
  PROVE  /\ Started(k, a) \in EntitiesOf(k) /\ AllSeen(k, Started(k, a), a)
         /\ k \in ScaledKinds => ~Started(k, a).rescaled
<1>. DEFINE T == PlatformStreams(k)
            E == EntitiesOf(k)
            last == Scaled(k)
            first == Replayed(k, a, Fresh(k), T \ last)
            G == {p \in T \X E : Seen(k, p[2], p[1], a[p[1]])}
<1>1. last \subseteq T /\ IsFiniteSet(T \ last) /\ IsFiniteSet(last)
  <2>1. last \subseteq T
    BY DEF Scaled
  <2>. QED
    BY <2>1, StreamsAreFinite, FS_Subset
<1>2. \A t \in T, e \in E : <<t, e>> \in G <=> Seen(k, e, t, a[t])
  OBVIOUS
<1>3. \A s \in T : a[s] \in StatesOf(k, s)
  BY StreamsAre DEF Held
<1>4. ASSUME NEW e \in E, NEW s \in T
      PROVE  /\ Handled(k, e, s, a[s]) \in E
             /\ <<s, Handled(k, e, s, a[s])>> \in G
             /\ \A t \in T : <<t, e>> \in G => <<t, Handled(k, e, s, a[s])>> \in G
  <2>1. /\ Handled(k, e, s, a[s]) \in E
        /\ Seen(k, Handled(k, e, s, a[s]), s, a[s])
        /\ \A t \in T : t # s /\ Seen(k, e, t, a[t]) => Seen(k, Handled(k, e, s, a[s]), t, a[t])
    BY <1>3, DisplayKind DEF HandlesWell
  <2>. QED
    BY <1>2, <2>1
<1>5. Fresh(k) \in E
  BY DisplayKind DEF StartsWell
<1>6. Started(k, a) = Replayed(k, a, first, last)
  BY DEF Started
<1>. HIDE DEF T, E, G, first, last
<1>7. first \in E /\ \A t \in T : t \in T \ last => <<t, first>> \in G
  <2>. DEFINE rest == T \ last
  <2>1. rest \subseteq T /\ IsFiniteSet(rest) /\ first = Replayed(k, a, Fresh(k), rest)
    BY <1>1 DEF first
  <2>. HIDE DEF rest
  <2>2. first \in E /\ \A t \in T : t \in rest \/ <<t, Fresh(k)>> \in G => <<t, first>> \in G
    BY <1>4, <1>5, <2>1, ReplaySees
  <2>. QED
    BY <2>2 DEF rest
<1>8. Started(k, a) \in E /\ \A t \in T : t \in last \/ <<t, first>> \in G => <<t, Started(k, a)>> \in G
  <2>1. \A s \in last : s \in T
    BY <1>1
  <2>. QED
    BY <1>1, <1>4, <1>6, <1>7, <2>1, ReplaySees
<1>9. \A t \in T : Seen(k, Started(k, a), t, a[t])
  BY <1>2, <1>7, <1>8
<1>10. ASSUME k \in ScaledKinds PROVE ~Started(k, a).rescaled
  <2>1. CASE k = "Light"
    <3>1. k \in LightKinds /\ "master" \notin LightStreams(k)
      BY <2>1, LightStreamsAre DEF LightKinds
    <3>2. NoOthers(k, Started(k, a))
      BY <1>8, <3>1, LightIs DEF E
    <3>. QED
      BY <3>1, <3>2 DEF NoOthers
  <2>2. CASE k # "Light"
    <3>1. first \in EntitiesOf(k)
      BY <1>7 DEF E
    <3>2. PICK s \in PlatformStreams(k) : last = {s} /\ ~Handled(k, first, s, a[s]).rescaled
      BY <1>10, <2>2, <3>1, LastIsUnscaled DEF last
    <3>3. Started(k, a) = Handled(k, first, s, a[s])
      BY <1>6, <3>2, ReplayOne
    <3>. QED
      BY <3>2, <3>3
  <2>. QED
    BY <2>1, <2>2
<1>. QED
  BY <1>8, <1>9, <1>10 DEF AllSeen, T, E

\* A control with services: an entity that has seen all states looks like one that was
\* just started.
LEMMA DisplayIsFresh ==
  ASSUME kind \in DisplayKinds, DisplayInv
  PROVE  ShowsWhatAStartWouldShow
<1>. SUFFICES ASSUME Settled, ~astray
     PROVE  Display(entity) = Display(AfterStart) /\ (HasLock(kind) => lock = actual["jLocked"])
  BY DEF ShowsWhatAStartWouldShow
<1>1. DisplayTypes /\ MirrorInv /\ connected /\ wire = {} /\ outbox = <<>>
  BY DEF DisplayInv, Settled
<1>2. Idle
  BY <1>1 DEF Idle
<1>3. AllSeen(kind, entity, actual) /\ (HasLock(kind) => lock = actual["jLocked"])
  BY <1>1, <1>2 DEF MirrorInv, AllSeen
<1>4. kind \in ScaledKinds /\ ~Rescaled => ~entity.rescaled /\ ~Started(kind, actual).rescaled
  BY <1>1, StartSees DEF Rescaled, DisplayTypes
<1>5. Presented(kind, entity, actual, Rescaled) = Presented(kind, Started(kind, actual), actual, Rescaled)
  BY <1>1, <1>3, <1>4, StartSees, KindsShowWell DEF ShowsWell, DisplayTypes
<1>6. AfterStart = Started(kind, actual)
  BY DisplayKind, AfterStartIs
<1>7. \A e : Display(e) = Presented(kind, e, actual, Rescaled)
  <2>1. kind \notin SensorKinds
    BY DisplayKind
  <2>. QED
    BY <2>1 DEF Display, Presented, LevelHidden, TitleHidden, IsSensor
<1>. QED
  BY <1>3, <1>5, <1>6, <1>7

(***************************************************************************)
(* Sensors.                                                                *)
(***************************************************************************)
LEMMA SensorKind ==
  ASSUME NEW k \in SensorKinds
  PROVE  /\ k \notin CoverKinds \cup ClimateKinds \cup LightKinds \cup OutputKinds \cup SwitchKinds
         /\ ~HasLock(k)
         /\ Streams(k) = SensorStreams(k) /\ PlatformStreams(k) = SensorStreams(k)
         /\ Fresh(k) = SensorFresh(k) /\ Requests(k) = {}
         /\ \A e, s, v : Handled(k, e, s, v) = SensorOn(k, e, s, v)
         /\ \A a, c : Executed(k, a, c) = a
<1>1. k \notin CoverKinds \cup ClimateKinds \cup LightKinds \cup OutputKinds \cup SwitchKinds
  BY DEF EventKinds, SensorKinds, CoverKinds, ClimateKinds, LightKinds, OutputKinds, PickerKinds, SwitchKinds,
         OptimisticKinds
<1>2. ~HasLock(k)
  BY DEF EventKinds, SensorKinds, HasLock, CoverKinds, ClimateKinds, LightKinds, OutputKinds, PickerKinds
<1>3. PlatformStreams(k) = SensorStreams(k)
  BY <1>1 DEF PlatformStreams
<1>4. Streams(k) = SensorStreams(k)
  BY <1>2, <1>3 DEF Streams
<1>5. Fresh(k) = SensorFresh(k)
  BY <1>1 DEF Fresh
<1>6. Requests(k) = {}
  BY <1>1 DEF Requests
<1>7. \A e, s, v : Handled(k, e, s, v) = SensorOn(k, e, s, v)
  BY <1>1 DEF Handled
<1>8. \A a, c : Executed(k, a, c) = a
  BY <1>1 DEF Executed
<1>. QED
  BY <1>1, <1>2, <1>3, <1>4, <1>5, <1>6, <1>7, <1>8

LEMMA SensorStreamsAre ==
  /\ SensorStreams("Nfc") = {"lastuser", "historyDate"} /\ SensorStreams("Doorbell") = {"bell"}
  /\ SensorStreams("Contact") = {"windowStates"} /\ SensorStreams("ClimateController") = {"controls"}
  /\ SensorStreams("MessageCenter") = {"changed"}
BY DEF SensorStreams

LEMMA SensorHandled ==
  /\ \A e, s, v : SensorOn("Nfc", e, s, v) = NfcOn(e, s, v)
  /\ \A e, s, v : SensorOn("Contact", e, s, v) = ContactOn(v)
  /\ \A e, s, v : SensorOn("ClimateController", e, s, v) = ControllerOn(e, v)
  /\ \A e, s, v : SensorOn("MessageCenter", e, s, v) = CenterOn(e, s, v)
BY DEF SensorOn

LEMMA SensorSeenIs ==
  /\ \A e, s, v : SensorSeen("Nfc", e, s, v) <=> (s = "lastuser" => e.user = {v})
  /\ \A e, s, v : SensorSeen("Doorbell", e, s, v)
  /\ \A e, s, v : SensorSeen("Contact", e, s, v) <=> e = ContactOn(v)
  /\ \A e, s, v : SensorSeen("ClimateController", e, s, v) <=> e = ControllerOn(e, v)
  /\ \A e, s, v : SensorSeen("MessageCenter", e, s, v) <=> e.changed = {v}
BY DEF SensorSeen

LEMMA NfcSees ==
  ASSUME NEW e \in Readers, NEW v
  PROVE  /\ NfcOn(e, "lastuser", v).user = {v}
         /\ NfcOn(e, "historyDate", v).user = e.user
BY DEF NfcOn, Readers

LEMMA ControllerSees ==
  ASSUME NEW e, NEW f, NEW v
  PROVE  ControllerOn(e, v) = ControllerOn(f, v)
BY DEF ControllerOn

(***************************************************************************)
(* The streams a sensor sees.                                              *)
(***************************************************************************)
\* A state changes: it goes on the wire.
LEMMA SeenChange ==
  ASSUME kind \in SensorKinds, SeenInv, Change
  PROVE  SeenInv'
<1>1. /\ kind' = kind /\ entity' = entity /\ connected' = connected
      /\ wire' = IF connected THEN wire \cup Differing(actual, actual') ELSE {}
  BY DEF Change
<1>2. Differing(actual, actual') = {s \in SensorStreams(kind) : actual[s] # actual'[s]}
  BY SensorKind DEF Differing
<1>. QED
  BY <1>1, <1>2 DEF SeenInv

\* A value is delivered; a reader, which has two streams, keeps what it saw of the other.
LEMMA SeenDeliver ==
  ASSUME kind \in SensorKinds, SeenInv, NEW s, Deliver(s),
         kind = "Nfc" => entity \in Readers,
         kind = "MessageCenter" => CenterTypes
  PROVE  SeenInv'
<1>1. /\ kind' = kind /\ actual' = actual /\ connected' = connected /\ connected /\ s \in wire /\ wire' = wire \ {s}
  BY DEF Deliver
<1>2. s # "jLocked"
  BY <1>1, SensorStreamsAre DEF SeenInv, SensorKinds, EventKinds
<1>3. entity' = SensorOn(kind, entity, s, actual[s])
  BY <1>1, <1>2, SensorKind DEF Deliver
<1>4. ASSUME NEW t \in SensorStreams(kind), t \notin wire' PROVE SensorSeen(kind, entity', t, actual[t])
  <2>1. t # s => SensorSeen(kind, entity, t, actual[t])
    BY <1>1, <1>4 DEF SeenInv
  <2>2. CASE kind = "Nfc"
    <3>1. s \in {"lastuser", "historyDate"} /\ t \in {"lastuser", "historyDate"}
      BY <1>1, <1>4, <2>2, SensorStreamsAre DEF SeenInv
    <3>2. entity' = NfcOn(entity, s, actual[s])
      BY <1>3, <2>2, SensorHandled
    <3>3. t = "lastuser" => entity'.user = {actual[t]}
      <4>1. CASE s = "lastuser"
        BY <1>1, <1>4, <2>1, <2>2, <3>1, <3>2, <4>1, NfcSees
      <4>2. CASE s = "historyDate"
        BY <2>1, <2>2, <3>2, <4>2, NfcSees, SensorSeenIs
      <4>. QED
        BY <3>1, <4>1, <4>2
    <3>. QED
      BY <2>2, <3>3, SensorSeenIs
  <2>3. CASE kind = "Doorbell"
    BY <2>3, SensorSeenIs
  <2>4. CASE kind = "Contact"
    <3>1. s = t
      BY <1>1, <1>4, <2>4, SensorStreamsAre DEF SeenInv
    <3>. QED
      BY <1>3, <2>4, <3>1, SensorHandled, SensorSeenIs
  <2>5. CASE kind = "ClimateController"
    <3>1. s = t
      BY <1>1, <1>4, <2>5, SensorStreamsAre DEF SeenInv
    <3>2. entity' = ControllerOn(entity, actual[t])
      BY <1>3, <2>5, <3>1, SensorHandled
    <3>. QED
      BY <2>5, <3>2, ControllerSees, SensorSeenIs
  <2>6. CASE kind = "MessageCenter"
    <3>. USE <2>6
    <3>1. t = "changed" /\ s \in {"changed", "answer"} /\ entity \in Centers
      BY <1>1, <1>4, SensorStreamsAre DEF SeenInv, CenterTypes
    <3>2. entity' = CenterOn(entity, s, actual[s])
      BY <1>3, SensorHandled
    <3>3. CASE s = "answer"
      <4>1. entity'.changed = entity.changed
        BY <3>1, <3>2, <3>3 DEF CenterOn, Centers
      <4>. QED
        BY <2>1, <3>1, <3>3, <4>1, SensorSeenIs
    <3>4. CASE s = "changed" /\ \A c \in entity.changed : actual[s] > c
      <4>1. entity'.changed = {actual[t]}
        BY <3>1, <3>2, <3>4 DEF CenterOn, Centers
      <4>. QED
        BY <4>1, SensorSeenIs
    <3>5. CASE s = "changed" /\ ~\A c \in entity.changed : actual[s] > c
      <4>1. entity'.changed = entity.changed
        BY <3>1, <3>2, <3>5 DEF CenterOn, Centers
      <4>2. PICK c \in entity.changed : ~(actual["changed"] > c)
        BY <3>5
      <4>3. c \in Int /\ actual["changed"] \in Int /\ c <= actual["changed"] /\ \A d \in entity.changed : d = c
        BY <3>1, <4>2 DEF CenterTypes, Centers
      <4>4. entity.changed = {actual["changed"]}
        BY <4>2, <4>3
      <4>. QED
        BY <3>1, <4>1, <4>4, SensorSeenIs
    <3>. QED
      BY <3>1, <3>3, <3>4, <3>5
  <2>. QED
    BY <2>2, <2>3, <2>4, <2>5, <2>6 DEF SensorKinds, EventKinds
<1>. QED
  BY <1>1, <1>4 DEF SeenInv

\* No other step delivers, and a session that comes up has every state on the wire.
LEMMA SeenOther ==
  ASSUME kind \in SensorKinds, SeenInv, Execute \/ Drop \/ Reload \/ Connect \/ UNCHANGED vars
  PROVE  SeenInv'
<1>1. CASE Execute
  <2>1. actual' = actual
    BY <1>1, SensorKind DEF Execute
  <2>2. Differing(actual, actual') = {}
    BY <2>1 DEF Differing
  <2>3. /\ kind' = kind /\ entity' = entity /\ connected' = connected
        /\ wire' = wire \/ wire' = wire \cup (IF kind = "MessageCenter" THEN {"answer"} ELSE {})
    BY <1>1, <2>2 DEF Execute
  <2>. QED
    BY <2>1, <2>3 DEF SeenInv
<1>2. CASE Drop \/ Reload
  <2>1. kind' = kind /\ wire' = {} /\ connected' = FALSE
    BY <1>2 DEF Drop, Reload, Lost
  <2>. QED
    BY <2>1 DEF SeenInv
<1>3. CASE Connect
  <2>1. kind' = kind /\ wire' = SensorStreams(kind)
    BY <1>3, SensorKind DEF Connect
  <2>. QED
    BY <2>1 DEF SeenInv
<1>4. CASE UNCHANGED vars
  BY <1>4 DEF vars, SeenInv
<1>. QED
  BY <1>1, <1>2, <1>3, <1>4

(***************************************************************************)
(* The message center.                                                     *)
(***************************************************************************)
\* The counter moves, and what was seen of it is older.
LEMMA CenterChange ==
  ASSUME kind = "MessageCenter", CenterTypes, CenterInv, Change
  PROVE  CenterTypes' /\ CenterInv'
<1>1. /\ entity' = entity /\ outbox' = outbox /\ connected' = connected /\ (~connected => wire' = {})
      /\ actual' \in SensorChanges(kind, actual)
  BY DEF Change, IsSensor, SensorKinds
<1>2. PICK S \in SUBSET Entries : actual' = [actual EXCEPT !["changed"] = @ + 1, !["answer"] = S]
  BY <1>1 DEF SensorChanges
<1>3. actual \in [changed : Int, answer : SUBSET Entries] /\ entity \in Centers
  BY DEF CenterTypes
<1>4. actual' \in [changed : Int, answer : SUBSET Entries] /\ actual'["changed"] = actual["changed"] + 1
  BY <1>2, <1>3
<1>5. \A c \in entity.changed : c \in Int /\ c < actual'["changed"]
  BY <1>3, <1>4 DEF CenterTypes, Centers
<1>6. CenterTypes'
  BY <1>1, <1>3, <1>4, <1>5 DEF CenterTypes
<1>7. entity'.changed # {actual'["changed"]}
  BY <1>1, <1>4, <1>5
<1>. QED
  BY <1>6, <1>7 DEF CenterInv

\* A counter that moved forward makes the entity fetch the entries; the answer makes
\* the issues those of the entries.
LEMMA CenterDeliver ==
  ASSUME kind = "MessageCenter", SeenInv, CenterTypes, CenterInv, NEW s, Deliver(s)
  PROVE  CenterTypes' /\ CenterInv'
<1>1. /\ kind \in SensorKinds /\ s \in {"changed", "answer"}
  BY SensorStreamsAre DEF SeenInv, Deliver, SensorKinds
<1>2. /\ actual' = actual /\ connected' = connected /\ connected /\ wire' = wire \ {s}
      /\ entity' = CenterOn(entity, s, actual[s])
      /\ IF entity'.fetch
           THEN \E taken \in Taken(<<<<"getEntries", 2>>>>) : outbox' = outbox \o taken /\ astray' = (taken = <<>>)
           ELSE UNCHANGED <<outbox, astray>>
  <2>1. s # "jLocked"
    BY <1>1
  <2>2. Handled(kind, entity, s, actual[s]) = CenterOn(entity, s, actual[s])
    BY <1>1, SensorKind, SensorHandled
  <2>3. /\ actual' = actual /\ connected' = connected /\ connected /\ wire' = wire \ {s}
        /\ entity' = Handled(kind, entity, s, actual[s])
    BY <2>1, Zenon DEF Deliver
  <2>4. IF entity'.fetch
          THEN \E taken \in Taken(<<<<"getEntries", 2>>>>) : outbox' = outbox \o taken /\ astray' = (taken = <<>>)
          ELSE UNCHANGED <<outbox, astray>>
    BY Zenon DEF Deliver
  <2>. QED
    BY <2>2, <2>3, <2>4, Zenon
<1>3. /\ actual \in [changed : Int, answer : SUBSET Entries] /\ entity \in Centers
      /\ outbox \in Seq({<<"getEntries", 2>>})
      /\ \A c, d \in entity.changed : c = d /\ c <= actual["changed"]
  BY DEF CenterTypes
<1>4. outbox' \in Seq({<<"getEntries", 2>>}) /\ (entity'.fetch => outbox' # <<>> \/ astray')
  <2>. DEFINE fetch == <<"getEntries", 2>>
  <2>1. Taken(<<fetch>>) \subseteq {<<fetch>>, <<>>}
    BY DEF Taken
  <2>. HIDE DEF fetch
  <2>2. outbox \o <<>> \in Seq({fetch}) /\ outbox \o <<fetch>> \in Seq({fetch}) /\ outbox \o <<fetch>> # <<>>
    BY <1>3 DEF fetch
  <2>. QED
    BY <1>2, <1>3, <2>1, <2>2 DEF fetch
<1>5. CASE s = "answer"
  <2>1. entity' = [entity EXCEPT !.count = Cardinality(actual["answer"]), !.issues = actual["answer"], !.fetch = FALSE]
    BY <1>2, <1>5 DEF CenterOn
  <2>2. Cardinality(actual["answer"]) \in Counts /\ actual["answer"] \in SUBSET Entries
    BY <1>3 DEF Counts
  <2>3. /\ entity' \in Centers /\ entity'.changed = entity.changed
        /\ entity'.issues = actual["answer"] /\ entity'.count = Cardinality(actual["answer"])
    BY <1>3, <2>1, <2>2 DEF Centers
  <2>. QED
    BY <1>2, <1>3, <1>4, <2>3 DEF CenterTypes, CenterInv
<1>6. CASE s = "changed" /\ \A c \in entity.changed : actual["changed"] > c
  <2>1. entity' = [entity EXCEPT !.changed = {actual["changed"]}, !.fetch = TRUE]
    BY <1>2, <1>6 DEF CenterOn
  <2>2. entity' \in Centers /\ entity'.fetch /\ entity'.changed = {actual["changed"]}
    BY <1>3, <2>1 DEF Centers
  <2>. QED
    BY <1>2, <1>3, <1>4, <2>2 DEF CenterTypes, CenterInv
<1>7. CASE s = "changed" /\ ~\A c \in entity.changed : actual["changed"] > c
  <2>1. entity' = [entity EXCEPT !.fetch = FALSE]
    BY <1>2, <1>7 DEF CenterOn
  <2>2. /\ entity' \in Centers /\ ~entity'.fetch /\ entity'.changed = entity.changed
        /\ entity'.issues = entity.issues /\ entity'.count = entity.count
    BY <1>3, <2>1 DEF Centers
  <2>3. outbox' = outbox /\ (astray' <=> astray) /\ ("answer" \in wire => "answer" \in wire')
    BY <1>2, <1>7, <2>2
  <2>. QED
    BY <1>2, <1>3, <2>2, <2>3 DEF CenterTypes, CenterInv
<1>. QED
  BY <1>1, <1>5, <1>6, <1>7

\* The command is executed, and the answer is on its way.
LEMMA CenterExecute ==
  ASSUME kind = "MessageCenter", CenterTypes, CenterInv, Execute
  PROVE  CenterTypes' /\ CenterInv'
<1>1. "jLocked" \notin DOMAIN actual
  BY DEF CenterTypes
<1>2. /\ actual' = actual /\ entity' = entity /\ connected' = connected /\ connected /\ "answer" \in wire'
      /\ outbox # <<>> /\ outbox' = Tail(outbox)
  BY <1>1, SensorKind DEF Execute, SensorKinds
<1>3. outbox' \in Seq({<<"getEntries", 2>>})
  BY <1>2, TailEffect DEF CenterTypes
<1>. QED
  BY <1>2, <1>3 DEF CenterTypes, CenterInv

LEMMA FreshCenter == SensorFresh("MessageCenter") \in Centers /\ SensorFresh("MessageCenter").changed = {}
<1>. DEFINE fresh == [changed |-> {}, count |-> 0, issues |-> {}, fetch |-> FALSE]
<1>1. SensorFresh("MessageCenter") = fresh
  BY DEF SensorFresh
<1>2. fresh \in Centers
  BY DEF Centers, Counts
<1>3. fresh.changed = {}
  OBVIOUS
<1>. QED
  BY Zenon, <1>1, <1>2, <1>3

\* The connection is lost: so is the command, or the answer, unless the command waits
\* for the next session.
LEMMA CenterLost ==
  ASSUME kind = "MessageCenter", CenterTypes, CenterInv, Drop \/ Reload
  PROVE  CenterTypes' /\ CenterInv'
<1>1. PICK kept \in {outbox, <<>>} : Lost(kept)
  BY DEF Drop, Reload
<1>2. /\ actual' = actual /\ wire' = {} /\ outbox' = kept
      /\ (astray' <=> (astray \/ kept # outbox \/ "answer" \in wire))
  BY <1>1 DEF Lost, RunsAhead
<1>3. outbox' \in Seq({<<"getEntries", 2>>})
  <2>1. CASE kept = outbox
    BY <1>2, <2>1 DEF CenterTypes
  <2>2. CASE kept = <<>>
    BY <1>2, <2>2, EmptySeq
  <2>. QED
    BY <1>1, <2>1, <2>2
<1>4. CASE Drop
  <2>1. entity' = entity
    BY <1>4 DEF Drop, IsSensor, SensorKinds, SensorDisconnected
  <2>. QED
    BY <1>2, <1>3, <2>1 DEF CenterTypes, CenterInv
<1>5. CASE Reload
  <2>1. entity' = [SensorFresh("MessageCenter") EXCEPT !.issues = entity.issues]
    BY <1>5 DEF Reload, IsSensor, SensorKinds, SensorReloaded
  <2>4. entity' \in Centers /\ entity'.changed = {}
    BY <2>1, FreshCenter DEF Centers, CenterTypes
  <2>. QED
    BY <1>2, <1>3, <2>4 DEF CenterTypes, CenterInv
<1>. QED
  BY <1>4, <1>5

LEMMA CenterConnect ==
  ASSUME kind = "MessageCenter", CenterTypes, CenterInv, Connect
  PROVE  CenterTypes' /\ CenterInv'
<1>1. /\ actual' = actual /\ entity' = entity /\ outbox' = outbox /\ connected' /\ wire = {}
      /\ (astray' <=> astray)
  BY DEF Connect, CenterTypes
<1>. QED
  BY <1>1 DEF CenterTypes, CenterInv

(***************************************************************************)
(* What is shown, for every run.                                           *)
(***************************************************************************)
LEMMA SensorInit == Init => SensorInv
<1>. SUFFICES ASSUME Init, kind \in SensorKinds PROVE SensorInv
  BY DEF SensorInv
<1>1. wire = {} /\ ~connected /\ outbox = <<>> /\ actual = SensorInitially(kind) /\ entity = SensorFresh(kind)
  BY SensorKind DEF Init, IsSensor
<1>2. ASSUME kind = "MessageCenter" PROVE CenterTypes /\ CenterInv
  <2>1. actual = [changed |-> 1, answer |-> {}] /\ entity = [changed |-> {}, count |-> 0, issues |-> {}, fetch |-> FALSE]
    BY <1>1, <1>2 DEF SensorInitially, SensorFresh
  <2>2. actual \in [changed : Int, answer : SUBSET Entries]
    BY <2>1
  <2>3. entity \in Centers /\ entity.changed = {}
    BY <2>1 DEF Centers, Counts
  <2>4. outbox \in Seq({<<"getEntries", 2>>})
    BY <1>1, EmptySeq
  <2>. QED
    BY <1>1, <2>2, <2>3, <2>4 DEF CenterTypes, CenterInv
<1>. QED
  BY <1>1, <1>2 DEF SensorInv, SeenInv

LEMMA SensorStep == SensorInv /\ EventInv /\ [Next]_vars => SensorInv'
<1>. SUFFICES ASSUME SensorInv, EventInv, [Next]_vars, kind' \in SensorKinds PROVE SensorInv'
  BY DEF SensorInv
<1>1. kind' = kind
  BY DEF Next, Change, Execute, Drop, Reload, Lost, Connect, Deliver, Call, CallLocked, vars
<1>2. SeenInv /\ (kind = "MessageCenter" => CenterTypes /\ CenterInv) /\ kind \in SensorKinds
  BY <1>1 DEF SensorInv, SeenInv
<1>3. kind = "Nfc" => entity \in Readers
  BY DEF EventInv, EventTypes, EventKinds
<1>4. \/ Change \/ Execute \/ Drop \/ Reload \/ Connect \/ UNCHANGED vars
      \/ \E s : Deliver(s)
  BY <1>2, SensorKind DEF Next
<1>5. SeenInv'
  BY <1>2, <1>3, <1>4, SeenChange, SeenDeliver, SeenOther
<1>6. ASSUME kind = "MessageCenter" PROVE CenterTypes' /\ CenterInv'
  <2>1. CASE UNCHANGED vars
    BY <1>2, <1>6, <2>1 DEF vars, ghosts, CenterTypes, CenterInv
  <2>. QED
    BY <1>2, <1>4, <1>6, <2>1, CenterChange, CenterExecute, CenterLost, CenterConnect, CenterDeliver
<1>. QED
  BY <1>1, <1>5, <1>6 DEF SensorInv, SeenInv

\* What a sensor that has seen all states shows is what one that was just started shows.
LEMMA SensorIsFresh ==
  ASSUME kind \in SensorKinds, SensorInv, EventInv
  PROVE  ShowsWhatAStartWouldShow
<1>. SUFFICES ASSUME Settled, ~astray PROVE SensorShows(kind, entity) = SensorShows(kind, AfterStart)
  <2>1. ~HasLock(kind) /\ IsSensor /\ kind \notin ScaledKinds /\ kind # "Zone" /\ kind \notin PickerKinds
    BY SensorKind DEF IsSensor, ScaledKinds, OutputKinds
  <2>2. \A e : Display(e) = SensorShows(kind, e)
    BY <2>1 DEF Display
  <2>. QED
    BY <2>1, <2>2 DEF ShowsWhatAStartWouldShow
<1>1. connected /\ wire = {} /\ outbox = <<>>
  BY DEF Settled
<1>2. \A s \in SensorStreams(kind) : SensorSeen(kind, entity, s, actual[s])
  BY <1>1 DEF SensorInv, SeenInv
<1>. DEFINE T == SensorStreams(kind)
            fresh == SensorFresh(kind)
            start == Started(kind, actual)
<1>3. start = Replayed(kind, actual, fresh, T)
  <2>1. Scaled(kind) = {} /\ PlatformStreams(kind) \ {} = T
    BY SensorKind, SensorStreamsAre DEF SensorKinds, EventKinds, Scaled
  <2>2. start = Replayed(kind, actual, Replayed(kind, actual, fresh, T), {})
    BY <2>1, SensorKind DEF Started
  <2>. QED
    BY <2>2, ReplayNone
<1>. HIDE DEF start
<1>4. CASE kind = "Nfc"
  <2>. DEFINE G == {p \in T \X Readers : p[1] = "lastuser" => p[2].user = {actual["lastuser"]}}
  <2>1. fresh \in Readers /\ T = {"lastuser", "historyDate"} /\ IsFiniteSet(T)
    BY <1>4, FreshReader, SensorStreamsAre, SevenAreFinite
  <2>2. ASSUME NEW e \in Readers, NEW s \in T
        PROVE  /\ Handled(kind, e, s, actual[s]) \in Readers
               /\ <<s, Handled(kind, e, s, actual[s])>> \in G
               /\ \A t \in T : <<t, e>> \in G => <<t, Handled(kind, e, s, actual[s])>> \in G
    <3>1. Handled(kind, e, s, actual[s]) = NfcOn(e, s, actual[s])
      BY <1>4, SensorKind, SensorHandled
    <3>2. NfcOn(e, s, actual[s]) \in Readers
      <4>1. actual \in [lastuser : {1, 2}, historyDate : Nat]
        BY <1>4 DEF EventInv, EventTypes, EventKinds
      <4>. QED
        BY <2>1, <4>1 DEF NfcOn, Readers
    <3>3. s = "lastuser" => NfcOn(e, s, actual[s]).user = {actual["lastuser"]}
      BY NfcSees
    <3>4. s = "historyDate" => NfcOn(e, s, actual[s]).user = e.user
      BY NfcSees
    <3>. QED
      BY <2>1, <3>1, <3>2, <3>3, <3>4
  <2>3. \A e : <<"lastuser", e>> \in G => e.user = {actual["lastuser"]}
    OBVIOUS
  <2>. HIDE DEF G, fresh, T
  <2>4. \A t \in T : t \in T \/ <<t, fresh>> \in G => <<t, start>> \in G
    <3>1. \A e \in Readers, s \in T : /\ Handled(kind, e, s, actual[s]) \in Readers
                                      /\ <<s, Handled(kind, e, s, actual[s])>> \in G
                                      /\ \A t \in T : <<t, e>> \in G => <<t, Handled(kind, e, s, actual[s])>> \in G
      BY <2>2
    <3>2. T \subseteq T
      OBVIOUS
    <3>3. /\ Replayed(kind, actual, fresh, T) \in Readers
          /\ \A t \in T : t \in T \/ <<t, fresh>> \in G => <<t, Replayed(kind, actual, fresh, T)>> \in G
      <4>1. fresh \in Readers /\ IsFiniteSet(T)
        BY <2>1
      <4>. QED
        BY <3>1, <3>2, <4>1, ReplaySees
    <3>. QED
      BY <1>3, <3>3
  <2>5. start.user = {actual["lastuser"]}
    BY <2>1, <2>3, <2>4
  <2>6. entity.user = {actual["lastuser"]}
    BY <1>2, <1>4, <2>1, SensorSeenIs DEF T
  <2>7. AfterStart = start
    BY <1>4, AfterStartIs DEF start
  <2>. QED
    BY <1>4, <2>5, <2>6, <2>7 DEF SensorShows
<1>5. CASE kind = "Doorbell"
  BY <1>5 DEF SensorShows
<1>6. ASSUME NEW x, T = {x} PROVE start = SensorOn(kind, fresh, x, actual[x])
  BY <1>3, <1>6, ReplayOne, SensorKind
<1>7. CASE kind = "Contact"
  <2>1. T = {"windowStates"}
    BY <1>7, SensorStreamsAre
  <2>2. start = ContactOn(actual["windowStates"])
    BY <1>6, <1>7, <2>1, SensorHandled
  <2>3. entity = ContactOn(actual["windowStates"])
    BY <1>2, <1>7, <2>1, SensorSeenIs
  <2>4. AfterStart = start
    BY <1>7, AfterStartIs DEF start
  <2>. QED
    BY <2>2, <2>3, <2>4
<1>8. CASE kind = "ClimateController"
  <2>1. T = {"controls"}
    BY <1>8, SensorStreamsAre
  <2>2. start = ControllerOn(fresh, actual["controls"])
    BY <1>6, <1>8, <2>1, SensorHandled
  <2>3. entity = ControllerOn(entity, actual["controls"])
    BY <1>2, <1>8, <2>1, SensorSeenIs
  <2>4. AfterStart = start
    BY <1>8, AfterStartIs DEF start
  <2>. QED
    BY <2>2, <2>3, <2>4, ControllerSees
<1>9. CASE kind = "MessageCenter"
  <2>1. T = {"changed"}
    BY <1>9, SensorStreamsAre
  <2>2. start = CenterOn(fresh, "changed", actual["changed"])
    BY <1>6, <1>9, <2>1, SensorHandled
  <2>3. AfterStart = CenterOn(start, "answer", actual["answer"])
    BY <1>9, AfterStartIs, SensorKind, SensorHandled DEF start
  <2>4. fresh \in Centers
    BY <1>9, FreshCenter
  <2>5. start \in [changed : {{actual["changed"]}, fresh.changed}, count : Counts, issues : SUBSET Entries, fetch : BOOLEAN]
    BY <2>2, <2>4 DEF CenterOn, Centers
  <2>6. AfterStart.count = Cardinality(actual["answer"]) /\ AfterStart.issues = actual["answer"]
    BY <2>3, <2>5 DEF CenterOn
  <2>7. entity.changed = {actual["changed"]}
    BY <1>2, <1>9, <2>1, SensorSeenIs
  <2>8. entity.count = Cardinality(actual["answer"]) /\ entity.issues = actual["answer"]
    BY <1>1, <1>9, <2>7 DEF SensorInv, CenterInv
  <2>. QED
    BY <1>9, <2>6, <2>8 DEF SensorShows
<1>. QED
  BY <1>4, <1>5, <1>7, <1>8, <1>9 DEF SensorKinds, EventKinds

\* ShowsWhatAStartWouldShow, of every kind and for any number of changes, calls, lost
\* connections and reloads: what an entity shows once everything has arrived depends on
\* the states its control has, not on the order they came in nor on what was lost.
THEOREM DisplaysAreFresh == Spec => []ShowsWhatAStartWouldShow
<1>1. DisplayInv /\ EventInv /\ SensorInv => ShowsWhatAStartWouldShow
  <2>1. SUFFICES ASSUME DisplayInv, EventInv, SensorInv PROVE ShowsWhatAStartWouldShow
    OBVIOUS
  <2>2. kind \in DisplayKinds \/ kind \in SensorKinds
    BY <2>1, EntitiesAssumption DEF DisplayInv, DisplayKinds
  <2>. QED
    BY <2>1, <2>2, DisplayIsFresh, SensorIsFresh
<1>. QED
  BY <1>1, StatesAreMirrored, InitEventInvariant, StepEventInvariant, SensorInit, SensorStep, PTL DEF Spec
=============================================================================
