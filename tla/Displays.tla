------------------------------ MODULE Displays ------------------------------
(***************************************************************************)
(* What an entity has to do with the states of its control, at every       *)
(* moment: the part of the arguments for AskedIsShown and for              *)
(* ShowsWhatAStartWouldShow that is an invariant.                          *)
(*                                                                         *)
(* An entity has seen a value when its fields are what the platform's      *)
(* handler makes of it.  While the connection is up it has seen every      *)
(* state that is not on the wire; a switch and a colour picker, which      *)
(* show what they were told, only if what they told has no effect any      *)
(* more.  The issues of a message center are those of the entries, unless  *)
(* something that would make them so is still to come, or was lost.        *)
(***************************************************************************)
EXTENDS Entities

DisplayKinds == CoverKinds \cup ClimateKinds \cup LightKinds \cup OutputKinds \cup SwitchKinds

(***************************************************************************)
(* The types of the entities.                                              *)
(***************************************************************************)
Gates ==
  [position : SUBSET Int, closed : BOOLEAN, direction : Int, up : {0}, down : {0},
   tilt : {{}}, target : {{}}, auto : {0}]
Windows ==
  [position : SUBSET Int, closed : BOOLEAN, direction : Int, up : {0}, down : {0},
   tilt : {{}}, target : SUBSET Int, auto : {0}]
Jalousies ==
  [position : SUBSET Int, closed : BOOLEAN, direction : {0}, up : Int, down : Int,
   tilt : SUBSET Int, target : {{}}, auto : Int]

SetPoints ==
  [comfort : Int, comfortCool : Int, frostProtect : Int, heatProtect : Int, absentMin : Int, absentMax : Int]
RoomsV2 ==
  [op : -1 .. 5, active : {0, 1, 2, 3, 4, 14, Dynamic}, fixedAt : Int, overridden : BOOLEAN,
   setpoints : SUBSET SetPoints, target : SUBSET Int]
RoomsV1 == [mode : SUBSET Int, service : SUBSET Int]
Acs     == [on : BOOLEAN, mode : SUBSET Int, target : SUBSET Int]

LightsOf ==
  [moods : SUBSET (SUBSET Int), moodList : Seq(Int), master : SUBSET Int,
   circuits : [Circuits -> SUBSET Int], low : SUBSET {0, 1}, high : SUBSET {1, Full},
   level : SUBSET Int, rescaled : BOOLEAN, on : SUBSET BOOLEAN, available : BOOLEAN]

\* What a controller does not have it never hears of.
NoOthers(k, e) ==
  /\ \A c \in Circuits \ LightStreams(k) : e.circuits[c] = {}
  /\ "master" \notin LightStreams(k) =>
       e.master = {} /\ e.low = {} /\ e.high = {} /\ e.level = {} /\ ~e.rescaled

Dimmers   ==
  [low : SUBSET {0, 1}, high : SUBSET {1, Full}, level : SUBSET Int, rescaled : BOOLEAN, available : BOOLEAN]
Pickers   ==
  [mode : {"unknown", "temp", "hsv"}, hue : SUBSET Int, kelvin : SUBSET Int, level : SUBSET Int,
   available : BOOLEAN]
Fans      == [mode : SUBSET {Low, AutoProfile}, speed : SUBSET Int]
Zones     ==
  [playState : Int, active : SUBSET Int, mute : SUBSET Int, volume : Int, source : SUBSET Int,
   sourceList : SUBSET Int, title : SUBSET Int]
Radios    == [option : SUBSET Options]
Selectors == [value : SUBSET Int, low : Int, high : Int, available : BOOLEAN]

Switched == [on : SUBSET BOOLEAN, available : BOOLEAN]
Alarms   == [armed : Int, still : Int, delay : SUBSET Int, armedAt : Int, level : Int, available : {TRUE}]

EntitiesOf(k) ==
  CASE k = "Gate"          -> Gates
    [] k = "Window"        -> Windows
    [] k = "Jalousie"      -> Jalousies
    [] IsV2(k)             -> RoomsV2
    [] k = "RoomV1"        -> RoomsV1
    [] k = "AcControl"     -> Acs
    [] k \in LightKinds    -> {e \in LightsOf : e.on = IsOn(e) /\ NoOthers(k, e)}
    [] k = "Dimmer"        -> Dimmers
    [] k \in PickerKinds   -> Pickers
    [] k = "Fan"           -> Fans
    [] k = "Zone"          -> Zones
    [] k = "Radio"         -> Radios
    [] k = "ValueSelector" -> Selectors
    [] k = "Alarm"         -> Alarms
    [] OTHER               -> Switched

(***************************************************************************)
(* The states, those included that only commands bring about, and the      *)
(* commands.                                                               *)
(***************************************************************************)
\* A tunable white has one colour that is not a temperature: it is off.
ColoursOf(k) == {Black} \cup ((IF k = "RgbPicker" THEN {"temp", "hsv"} ELSE {"temp"}) \X Int \X Int)

StatesOf(k, s) ==
  CASE s \in {"operatingMode", "activeMode", "overrideReason", "min", "max"} -> Values(k, s)
    [] s = "setpoints"   -> SetPoints
    [] s = "activeMoods" -> SUBSET Int
    [] s = "moodList"    -> Seq(Int)
    [] s = "color"       -> ColoursOf(k)
    [] s = "sourceList"  -> SUBSET Int
    [] k = "Fan" /\ s = "mode" -> {Low, AutoProfile}
    [] OTHER             -> Int

Held(k, a) ==
  /\ DOMAIN a = Streams(k)
  /\ \A s \in Streams(k) : a[s] \in StatesOf(k, s)
  /\ k \in ClimateKinds => ClimateStates(k, a)

CommandsOf(k) ==
  CASE k \in CoverKinds ->
         {"open", "close", "fullopen", "fullclose", "FullUp", "FullDown", "stop",
          "manualPosition", "moveToPosition", "manualLamelle", "auto", "NoAuto"} \X Int
    [] IsV2(k) ->
         ({"setOperatingMode"} \X (-1 .. 5)) \cup ({"override"} \X {0, 1, 2})
           \cup ({"override"} \X {Dynamic + t : t \in Temperatures})
           \cup ({"stopOverride", "setManualTemperature", "setComfortModeTemp", "setAbsentMaxTemperature",
                  "setAbsentMinTemperature", "setComfortTemperatureCool", "setComfortTemperature",
                  "setecoplusmaxtemperature", "setecoplusmintemperature"} \X Int)
    [] k = "RoomV1"        -> {"service", "mode"} \X Int
    [] k = "AcControl"     -> {"setTarget", "on", "off", "setMode"} \X Int
    [] k \in LightKinds    -> {"changeTo", "plus", "master"} \X Int
    [] k = "Dimmer"        -> {"On", "Off", "set"} \X Int
    [] k \in PickerKinds   -> ({"setBrightness"} \X Int) \cup ColoursOf(k)
    [] k = "Fan"           -> ({"setMode"} \X {Low, AutoProfile}) \cup ({"setTimer"} \X Int \X {Low, AutoProfile})
    [] k = "Zone"          -> {"play", "pause", "power", "mute", "volume", "source"} \X Int
    [] k = "Radio"         -> {"reset", "output"} \X Int
    [] k = "ValueSelector" -> {"value"} \X Int
    [] k = "Switch"        -> {"On", "Off"} \X Int
    [] k = "TimedSwitch"   -> {"off", "pulse"} \X Int
    [] k = "Override"      -> {"override", "stopOverride"} \X Int
    [] k = "Mute"          -> {"mute"} \X Int
    [] k = "Alarm"         -> {"off", "delayedon"} \X Int

\* What a service sends: at most two commands.
Orders(k) ==
  {<<>>} \cup {<<c>> : c \in CommandsOf(k)} \cup {<<c[1], c[2]>> : c \in CommandsOf(k) \X CommandsOf(k)}

(***************************************************************************)
(* An entity has seen value v of stream s.                                 *)
(***************************************************************************)
GateSeen(e, s, v) ==
  /\ s = "position" => e.position = {v} /\ (e.closed <=> v = 0)
  /\ s = "active"   => e.direction = v
WindowSeen(e, s, v) ==
  /\ s = "position"       => e.position = {v} /\ (e.closed <=> v = 0)
  /\ s = "direction"      => e.direction = v
  /\ s = "targetPosition" => e.target = {v}
JalousieSeen(e, s, v) ==
  /\ s = "position"      => e.position = {Inverted(v)} /\ (e.closed <=> Inverted(v) = 0)
  /\ s = "shadePosition" => e.tilt = {Inverted(v)}
  /\ s = "up"            => e.up = v
  /\ s = "down"          => e.down = v
  /\ s = "autoActive"    => e.auto = v

V2Seen(e, s, v) ==
  /\ s = "operatingMode"  => e.op = v
  /\ s = "activeMode"     => e.active = (IF v >= Dynamic THEN Dynamic ELSE v)
                             /\ e.fixedAt = (IF v >= Dynamic THEN v - Dynamic ELSE 0)
  /\ s = "overrideReason" => (e.overridden <=> v > 0)
  /\ s = "setpoints"      => e.setpoints = {v}
  /\ s = "tempTarget"     => e.target = {v}
V1Seen(e, s, v) ==
  /\ s = "mode"        => e.mode = {v}
  /\ s = "serviceMode" => e.service = {v}
AcSeen(e, s, v) ==
  /\ s = "status"            => (e.on <=> v # 0)
  /\ s = "mode"              => e.mode = {v}
  /\ s = "targetTemperature" => e.target = {v}

\* A dimmer, or the master of a light controller, whose range was changed does not
\* show its position until the next one.
LightSeen(e, s, v) ==
  /\ s = "activeMoods" => e.moods = {v}
  /\ s = "moodList"    => e.moodList = v
  /\ s \in Circuits    => e.circuits[s] = {v} /\ e.available
  /\ s = "min"         => e.low = {v}
  /\ s = "max"         => e.high = {v}
  /\ s = "master"      => e.master = {v} /\ (e.rescaled \/ e.level = {Brightness(e, v)})

DimmerSeen(e, s, v) ==
  /\ s = "min"      => e.low = {v}
  /\ s = "max"      => e.high = {v}
  /\ s = "position" => e.rescaled \/ e.level = {Brightness(e, v)}
  /\ e.available
\* A tunable white that is off keeps its temperature.
PickerSeen(k, e, v) ==
  /\ e.level = {v[3]} /\ e.available
  /\ v[1] = "temp" => e.mode = "temp" /\ e.kelvin = {v[2]}
  /\ v[1] = "hsv" /\ k = "RgbPicker" => e.mode = "hsv" /\ e.hue = {v[2]}
FanSeen(e, s, v) ==
  /\ s = "mode"  => e.mode = {v}
  /\ s = "speed" => e.speed = {v}
ZoneSeen(e, s, v) ==
  /\ s = "playState"  => e.playState = v
  /\ s = "active"     => e.active = {v}
  /\ s = "mute"       => e.mute = {v}
  /\ s = "volume"     => e.volume = v
  /\ s = "source"     => e.source = {v}
  /\ s = "sourceList" => e.sourceList = v
  /\ s = "metadata" /\ v # Untitled => e.title = {v}
SelectorSeen(e, s, v) ==
  /\ s = "min"   => e.low = v
  /\ s = "max"   => e.high = v
  /\ s = "value" => e.value = {v} /\ e.available

SwitchSeen(e, s, v) == s # "deactivationDelayTotal" => e.on = {v # 0} /\ e.available
AlarmSeen(e, s, v) ==
  /\ s = "armed"        => e.armed = v
  /\ s = "disabledMove" => e.still = v
  /\ s = "armedDelay"   => e.delay = {v}
  /\ s = "armedAt"      => e.armedAt = v
  /\ s = "level"        => e.level = v

Seen(k, e, s, v) ==
  CASE k = "Gate"          -> GateSeen(e, s, v)
    [] k = "Window"        -> WindowSeen(e, s, v)
    [] k = "Jalousie"      -> JalousieSeen(e, s, v)
    [] IsV2(k)             -> V2Seen(e, s, v)
    [] k = "RoomV1"        -> V1Seen(e, s, v)
    [] k = "AcControl"     -> AcSeen(e, s, v)
    [] k \in LightKinds    -> LightSeen(e, s, v)
    [] k = "Dimmer"        -> DimmerSeen(e, s, v)
    [] k \in PickerKinds   -> PickerSeen(k, e, v)
    [] k = "Fan"           -> FanSeen(e, s, v)
    [] k = "Zone"          -> ZoneSeen(e, s, v)
    [] k = "Radio"         -> e.option = {v} \cap Options
    [] k = "ValueSelector" -> SelectorSeen(e, s, v)
    [] k = "Alarm"         -> AlarmSeen(e, s, v)
    [] OTHER               -> SwitchSeen(e, s, v)

(***************************************************************************)
(* The invariant.                                                          *)
(***************************************************************************)
\* Kinds that show what they were told, and the one state they show.
Flips(k) == k \in OptimisticKinds \cup PickerKinds

MainStream(k) ==
  CASE k = "Switch"      -> "active"
    [] k = "TimedSwitch" -> "deactivationDelay"
    [] k = "Override"    -> "overrideEntries"
    [] OTHER             -> "color"

\* A command that does not change what is shown.
NoEffect(k, a, c) == Executed(k, a, c)[MainStream(k)] = a[MainStream(k)]

Idle == ~astray /\ \A i \in DOMAIN outbox : NoEffect(kind, actual, outbox[i])

DisplayTypes ==
  /\ entity \in EntitiesOf(kind)
  /\ Held(kind, actual)
  /\ wire \subseteq Streams(kind)
  /\ outbox \in Seq(CommandsOf(kind))

MirrorInv ==
  connected =>
    /\ (Flips(kind) => Idle) => \A s \in PlatformStreams(kind) \ wire : Seen(kind, entity, s, actual[s])
    /\ HasLock(kind) /\ "jLocked" \notin wire => lock = actual["jLocked"]

\* What the states come to when every command is executed; of at most two.
Done(k, a, q) ==
  IF q = <<>> THEN a
  ELSE IF Len(q) = 1 THEN Executed(k, a, q[1])
  ELSE Executed(k, Executed(k, a, q[1]), q[2])

\* The entity has seen all of the states a.
AllSeen(k, e, a) == \A s \in PlatformStreams(k) : Seen(k, e, s, a[s])

\* Whatever has seen all of the states a shows what r asked for, a brightness only on
\* the scale there is.
Unscaled(k, e, r) == k \in ScaledKinds /\ e.rescaled /\ (k \in LightKinds => r[1] = "brightness")

Answered(k, a, r) ==
  \A e \in EntitiesOf(k) : AllSeen(k, e, a) => Shown(k, e, r) \/ Unscaled(k, e, r)

\* The call the display is to show is on its way, or was executed, and nothing makes
\* a colour picker take another colour for the state.
AskedInv ==
  asked # {} =>
    /\ \E r \in Requests(kind) : asked = {r} /\ Answered(kind, Done(kind, actual, outbox), r)
    /\ Len(outbox) <= 2 /\ ~astray
    /\ kind \in PickerKinds => lock = 0 /\ actual["jLocked"] = 0

DisplayInv ==
  /\ kind \in Kinds
  /\ IF kind \in DisplayKinds THEN DisplayTypes /\ MirrorInv /\ AskedInv ELSE asked = {}

(***************************************************************************)
(* Sensors.                                                                *)
(***************************************************************************)
SensorSeen(k, e, s, v) ==
  CASE k = "Nfc"               -> s = "lastuser" => e.user = {v}
    [] k = "Contact"           -> e = ContactOn(v)
    [] k = "ClimateController" -> e = ControllerOn(e, v)
    [] k = "MessageCenter"     -> e.changed = {v}
    [] OTHER                   -> TRUE

\* Before a counter is seen there is none; one that is seen is not from the future.
Counts  == {Cardinality(S) : S \in SUBSET Entries} \cup {0}
Centers == [changed : SUBSET Int, count : Counts, issues : SUBSET Entries, fetch : BOOLEAN]

CenterTypes ==
  /\ actual \in [changed : Int, answer : SUBSET Entries] /\ entity \in Centers
  /\ \A c, d \in entity.changed : c = d /\ c <= actual["changed"]
  /\ outbox \in Seq({<<"getEntries", 2>>})
  /\ ~connected => wire = {}

\* The issues are those of the entries, or a newer counter is still to be seen, or the
\* entries are on their way, or what was on its way is lost.
CenterInv ==
  \/ entity.issues = actual["answer"] /\ entity.count = Cardinality(actual["answer"])
  \/ entity.changed # {actual["changed"]} \/ outbox # <<>> \/ "answer" \in wire \/ astray

SeenInv ==
  /\ wire \subseteq SensorStreams(kind) \cup (IF kind = "MessageCenter" THEN {"answer"} ELSE {})
  /\ connected => \A s \in SensorStreams(kind) \ wire : SensorSeen(kind, entity, s, actual[s])

SensorInv ==
  kind \in SensorKinds => SeenInv /\ (kind = "MessageCenter" => CenterTypes /\ CenterInv)
=============================================================================
