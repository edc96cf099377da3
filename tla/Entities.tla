------------------------------ MODULE Entities ------------------------------
(***************************************************************************)
(* One control of the Miniserver and its entity (LoxoneEntity in           *)
(* __init__.py, the fan-out of the coordinator): the control's states      *)
(* change, their values are delivered one stream at a time, services turn  *)
(* into commands, the connection drops and comes back, and the integration *)
(* is reloaded.  The kind of the control is chosen at the start; what is   *)
(* particular to it is in the platform modules.                            *)
(*                                                                         *)
(* A value is put on the wire as it is when it is delivered: of two        *)
(* changes of one stream the entity may see the second alone.  How a       *)
(* command travels is CommandChannel's subject; here it is executed in     *)
(* order, or refused because the message queue is full, or lost with the   *)
(* connection.                                                             *)
(***************************************************************************)
EXTENDS Covers, Climates, Lights, Outputs, Switches, Sensors, FiniteSetsExt

CONSTANTS Kinds,     \* the kinds of control of this instance
          Events,    \* changes by others, service calls, lost connections and reloads,
                     \* together: a bound of the model
          Calls      \* service calls among them: a bound of the model

ASSUME EntitiesAssumption ==
  /\ Kinds \subseteq CoverKinds \cup ClimateKinds \cup LightKinds \cup OutputKinds \cup SwitchKinds \cup SensorKinds
  /\ Events \in Nat /\ Calls \in Nat

VARIABLES
  kind,       \* the control's
  actual,     \* its states, at the Miniserver
  wire,       \* streams with a value that is not delivered
  outbox,     \* commands that are not executed
  entity,     \* the platform's entity
  lock,       \* _control_lock, of a control that has one
  connected,  \* coordinator.connected
  asked,      \* the service call the display is to show, if any
  astray,     \* what a platform showed or remembered before it was done was refused,
              \* ignored or lost, and nothing made up for it
  heard,      \* accesses and rings while the connection was up
  fired,      \* the events, by the access or the ring they are for
  events,     \* what is left of them
  calls       \* and of the service calls

bounds == <<events, calls>>

ghosts == <<asked, astray, heard, fired>>
vars == <<kind, actual, wire, outbox, entity, lock, connected, ghosts, bounds>>

IsSensor == kind \in SensorKinds
HasLock(k) ==
  k \in CoverKinds \cup ClimateKinds \cup LightKinds \cup OutputKinds \cup {"Switch", "TimedSwitch", "Alarm"}

PlatformStreams(k) ==
  CASE k \in CoverKinds   -> CoverStreams(k)
    [] k \in ClimateKinds -> ClimateStreams(k)
    [] k \in LightKinds   -> LightStreams(k)
    [] k \in OutputKinds  -> OutputStreams(k)
    [] k \in SwitchKinds  -> SwitchStreams(k)
    [] k \in SensorKinds  -> SensorStreams(k)

\* async_added_to_hass(): the platform's streams, and the lock of a control.
Streams(k) == PlatformStreams(k) \cup (IF HasLock(k) THEN {"jLocked"} ELSE {})

Values(k, s) ==
  IF s = "jLocked" THEN {0, 1}
  ELSE CASE k \in CoverKinds   -> CoverValues(s)
         [] k \in ClimateKinds -> ClimateValues(k, s)
         [] k \in LightKinds   -> LightValues(s)
         [] k \in OutputKinds  -> OutputValues(k, s)
         [] OTHER              -> SwitchValues(s)

Fresh(k) ==
  CASE k \in CoverKinds   -> CoverFresh(k)
    [] k \in ClimateKinds -> ClimateFresh(k)
    [] k \in LightKinds   -> LightFresh
    [] k \in OutputKinds  -> OutputFresh(k)
    [] k \in SwitchKinds  -> SwitchFresh(k)
    [] k \in SensorKinds  -> SensorFresh(k)

\* _on_scoped_state_value(): the platform's event_handler with one stream.
Handled(k, e, s, v) ==
  CASE k \in CoverKinds   -> CoverOn(k, e, s, v)
    [] k \in ClimateKinds -> ClimateOn(k, e, s, v)
    [] k \in LightKinds   -> LightOn(e, s, v)
    [] k \in OutputKinds  -> OutputOn(k, e, s, v)
    [] k \in SwitchKinds  -> SwitchOn(k, e, s, v)
    [] k \in SensorKinds  -> SensorOn(k, e, s, v)

Requests(k) ==
  CASE k \in CoverKinds   -> CoverRequests(k)
    [] k \in ClimateKinds -> ClimateRequests(k)
    [] k \in LightKinds   -> LightRequests(k)
    [] k \in OutputKinds  -> OutputRequests(k)
    [] k \in SwitchKinds  -> SwitchRequests(k)
    [] k \in SensorKinds  -> {}

Commands(k, e, r) ==
  CASE k \in CoverKinds   -> CoverCommands(k, e, r)
    [] k \in ClimateKinds -> ClimateCommands(k, e, r)
    [] k \in LightKinds   -> LightCommands(e, r)
    [] k \in OutputKinds  -> OutputCommands(k, e, r)
    [] k \in SwitchKinds  -> SwitchAsks(k, e, r)

Executed(k, a, c) ==
  CASE k \in CoverKinds   -> CoverExecutes(k, a, c)
    [] k \in ClimateKinds -> ClimateExecutes(k, a, c)
    [] k \in LightKinds   -> LightExecutes(a, c)
    [] k \in OutputKinds  -> OutputExecutes(k, a, c)
    [] k \in SwitchKinds  -> SwitchExecutes(k, a, c)
    [] k \in SensorKinds  -> a

Shown(k, e, r) ==
  CASE k \in CoverKinds   -> CoverShows(e, r)
    [] k \in ClimateKinds -> ClimateShows(k, e, r)
    [] k \in LightKinds   -> LightShows(e, r)
    [] k \in OutputKinds  -> OutputShows(k, e, r)
    [] k \in SwitchKinds  -> SwitchShows(k, e, r)

\* available: a value was seen, where the platform waits for one, and the session
\* is live.
Available == connected /\ ("available" \in DOMAIN entity => entity.available)

\* supported_features, and the range Home Assistant checks a number against.
Offers(r) ==
  /\ kind \in ClimateKinds => ClimateOffers(kind, entity, r)
  /\ kind \in OutputKinds => OutputOffers(kind, entity, r)

\* What a platform takes for the state as soon as it is asked for it.
Optimistic(r, commands) ==
  CASE kind \in SwitchKinds -> Flipped(kind, entity, r, commands)
    [] kind \in PickerKinds -> PickerFlipped(kind, entity, r)
    [] OTHER                -> entity

\* Calls that are offered and answered by nothing at all.
Drops(k, e, r) ==
  \/ k \in ClimateKinds /\ ClimateDrops(k, e, r)
  \/ k \in OutputKinds /\ OutputDrops(k, e, r)

\* Commands that do not go to the control itself, which alone _send() looks at: the
\* brightness of a light controller goes to its master.
ToOther(r) == kind \in LightKinds /\ r[1] = "brightness"

\* Platforms that show or remember something before it is done: a switch and a picker
\* what they were told, a message center the counter it fetched the entries for.
RunsAhead == kind \in OptimisticKinds \cup PickerKinds \cup {"MessageCenter"}

\* What the message queue of a live connection takes of the commands: put_nowait()
\* refuses the rest in the background task that was to send them, and nobody is told.
Taken(commands) == {commands, <<>>} \cup {<<commands[i]>> : i \in DOMAIN commands}

\* Everything that was sent, either way, has arrived.
Settled == connected /\ wire = {} /\ outbox = <<>>

----------------------------------------------------------------------------
\* Home Assistant starts: the entity knows nothing and the session is not up.  No
\* override runs.
Init ==
  /\ kind \in Kinds
  /\ actual = IF IsSensor THEN SensorInitially(kind)
              ELSE [s \in Streams(kind) |-> CHOOSE v \in Values(kind, s) : s = "overrideReason" => v = 0]
  /\ wire = {} /\ outbox = <<>> /\ connected = FALSE
  /\ entity = Fresh(kind) /\ lock = 0
  /\ asked = {} /\ astray = FALSE /\ heard = {} /\ fired = <<>>
  /\ events = Events /\ calls = Calls

Differing(a, b) == {s \in Streams(kind) : a[s] # b[s]}

\* Somebody else changes a state of the control: the Miniserver's own logic,
\* another client, the hand of its owner.  The states of a sensor change together.
Change ==
  /\ events > 0 /\ events' = events - 1
  /\ \E a \in IF IsSensor THEN SensorChanges(kind, actual)
              ELSE UNION {{[actual EXCEPT ![s] = v] : v \in Values(kind, s)} : s \in DOMAIN actual} :
       /\ a # actual
       /\ kind \in ClimateKinds => ClimateStates(kind, a)
       /\ actual' = a
       /\ wire' = IF connected THEN wire \cup Differing(actual, a) ELSE {}
  /\ asked' = {}
  /\ heard' = IF kind \in EventKinds /\ connected THEN heard \cup
                  ({SensorEvent(kind, actual')} \ {SensorEvent(kind, actual)}) ELSE heard
  /\ UNCHANGED <<kind, outbox, entity, lock, connected, astray, fired, calls>>

\* _on_lock_state(): what is shown, and what _send() looks at.
OnLockState(v) == lock' = v /\ UNCHANGED entity

\* handle_message(), for one stream: the entity, then, of a message center whose
\* counter moved, the command that fetches the entries, if there is room for it.
Deliver(s) ==
  /\ connected /\ s \in wire
  /\ wire' = wire \ {s}
  /\ IF s = "jLocked" THEN OnLockState(actual[s])
     ELSE entity' = Handled(kind, entity, s, actual[s]) /\ UNCHANGED lock
  /\ fired' = IF kind \in EventKinds /\ entity'.fires THEN Append(fired, SensorEvent(kind, actual)) ELSE fired
  /\ IF kind = "MessageCenter" /\ entity'.fetch
       THEN \E taken \in Taken(<<<<"getEntries", 2>>>>) : outbox' = outbox \o taken /\ astray' = (taken = <<>>)
       ELSE UNCHANGED <<outbox, astray>>
  /\ UNCHANGED <<kind, actual, connected, asked, heard, bounds>>

\* A service call: Home Assistant passes it on to an entity that is available and
\* offers what is asked.  The display is to show what was asked if it was up to
\* date, unless the call is one of those that are dropped or the queue was full; also
\* if the platform found that nothing had to be sent.
Call(r) ==
  /\ Available /\ Offers(r) /\ events > 0 /\ calls > 0
  /\ events' = events - 1 /\ calls' = calls - 1
  /\ lock = 0 \/ ToOther(r)
  /\ LET commands == Commands(kind, entity, r)
     IN \E taken \in Taken(commands) :
          /\ outbox' = outbox \o taken
          /\ entity' = Optimistic(r, commands)
          /\ asked' = IF Settled /\ ~astray /\ ~Drops(kind, entity, r) /\ taken = commands THEN {r} ELSE {}
          /\ astray' = (astray \/ (RunsAhead /\ taken # commands))
  /\ UNCHANGED <<kind, actual, wire, lock, connected, heard, fired>>

\* A control that is known to be locked refuses the call: _send() raises.  A colour
\* picker has taken what was asked for the state by then.
CallLocked(r) ==
  /\ Available /\ Offers(r) /\ events > 0 /\ calls > 0
  /\ events' = events - 1 /\ calls' = calls - 1
  /\ lock = 1 /\ ~ToOther(r)
  /\ entity' = IF kind \in PickerKinds THEN PickerFlipped(kind, entity, r) ELSE entity
  /\ astray' = (astray \/ entity' # entity)
  /\ UNCHANGED <<kind, actual, wire, outbox, lock, connected, asked, heard, fired>>

\* The Miniserver executes a command and publishes what it changed.  A locked
\* control ignores it, and may ignore one to its master.
Execute ==
  /\ connected /\ outbox # <<>>
  /\ outbox' = Tail(outbox)
  /\ LET locked == "jLocked" \in DOMAIN actual /\ actual["jLocked"] = 1
     IN \/ /\ locked
           /\ asked' = {} /\ astray' = (astray \/ RunsAhead)
           /\ UNCHANGED <<actual, wire>>
        \/ /\ locked => Head(outbox)[1] = "master"
           /\ actual' = Executed(kind, actual, Head(outbox))
           /\ wire' = wire \cup Differing(actual, actual')
                           \cup (IF kind = "MessageCenter" THEN {"answer"} ELSE {})
           /\ UNCHANGED <<asked, astray>>
  /\ UNCHANGED <<kind, entity, lock, connected, heard, fired, bounds>>

\* set_connected(False): what was on its way to the entity is lost, and what was on
\* its way to the Miniserver may be.
Lost(kept) ==
  /\ events > 0 /\ events' = events - 1
  /\ outbox' = kept
  /\ wire' = {} /\ connected' = FALSE
  /\ asked' = IF kept = outbox /\ wire = {} THEN asked ELSE {}
  /\ astray' = (astray \/ (RunsAhead /\ (kept # outbox \/ "answer" \in wire)))
  /\ UNCHANGED <<kind, actual, heard, fired, calls>>

Drop ==
  /\ connected
  /\ \E kept \in {outbox, <<>>} : Lost(kept)
  /\ entity' = IF IsSensor THEN SensorDisconnected(kind, entity) ELSE entity
  /\ UNCHANGED lock

\* The integration is reloaded: new entities, and the commands are cancelled.
Reload ==
  /\ Lost(<<>>)
  /\ entity' = IF IsSensor THEN SensorReloaded(kind, entity) ELSE Fresh(kind)
  /\ lock' = 0

\* A session is up: the Miniserver publishes every state.  That makes up for what
\* a switch or a picker was told in vain, but not for entries that were fetched in vain.
Connect ==
  /\ ~connected /\ connected' = TRUE
  /\ wire' = Streams(kind)
  /\ astray' = (astray /\ kind = "MessageCenter")
  /\ UNCHANGED <<kind, actual, outbox, entity, lock, asked, heard, fired, bounds>>

Next ==
  \/ Change \/ Execute \/ Drop \/ Reload \/ Connect
  \/ \E s \in Streams(kind) \cup {"answer"} : Deliver(s)
  \/ \E r \in Requests(kind) : Call(r) \/ CallLocked(r)

Spec == Init /\ [][Next]_vars

----------------------------------------------------------------------------
\* What a start of Home Assistant would come to show of a control: a fresh entity
\* with every state in turn (a dimmer and a master with their range first), and of a
\* message center with the entries it fetches.
AfterStart ==
  LET handle(s, e) == Handled(kind, e, s, actual[s])
      last   == {"position", "master"} \cap PlatformStreams(kind)
      dumped == FoldSet(handle, FoldSet(handle, Fresh(kind), PlatformStreams(kind) \ last), last)
  IN IF kind = "MessageCenter" THEN Handled(kind, dumped, "answer", actual["answer"]) ELSE dumped

\* The brightness of a dimmer, or of the master of a light controller, whose position
\* came before its range, or whose range was changed, is on another scale until the
\* position changes.
ScaledKinds == {"Dimmer"} \cup LightKinds
Rescaled == kind \in ScaledKinds /\ entity.rescaled

\* What is shown, without what may depend on the past: such a brightness, and the
\* title of a zone whose metadata has none, which is the one of before or the first
\* source there was.
Display(e) ==
  CASE IsSensor            -> SensorShows(kind, e)
    [] kind \in ScaledKinds -> [e EXCEPT !.level = IF Rescaled THEN {} ELSE @, !.rescaled = FALSE]
    [] kind = "Zone"       -> [e EXCEPT !.title = IF actual["metadata"] = Untitled THEN {} ELSE @]
    [] kind \in PickerKinds -> PickerDisplay(e)
    [] OTHER               -> e

\* Once everything has arrived, an entity shows what it would show if Home
\* Assistant had just been started: the display depends on the states the control
\* has, not on the order they came in, on the ones it had, on what was lost with a
\* connection, or on what a switch was told before the Miniserver did it.  The
\* exceptions: two displayed values that Display leaves out, and what ran ahead of a
\* command that was refused, ignored or lost (astray), until something makes up for it.
ShowsWhatAStartWouldShow ==
  Settled /\ ~astray =>
    /\ Display(entity) = Display(AfterStart)
    /\ HasLock(kind) => lock = actual["jLocked"]

\* A service call on an up-to-date display, executed and not overtaken by anything,
\* is what the entity shows in the end: the commands a service sends, the guards
\* that send none, the order of several, and the handler's reading of the states
\* they change belong together.  The exceptions: the four calls that are dropped
\* (Drops), and a brightness on a scale of before.
AskedIsShown ==
  Settled => \A r \in asked :
    Shown(kind, entity, r) \/ (Rescaled /\ (kind \in LightKinds => r[1] = "brightness"))

\* An NFC event is for an access and a ring event for a ring, for one that happened
\* while the connection was up, and for each at most once: neither the value a new
\* session repeats nor an access nobody listened to opens a door.
EventsAreAccesses ==
  /\ \A i \in DOMAIN fired : fired[i] \in heard
  /\ \A i, j \in DOMAIN fired : i < j => fired[i] < fired[j]
=============================================================================
