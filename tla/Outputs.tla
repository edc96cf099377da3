------------------------------ MODULE Outputs -------------------------------
(***************************************************************************)
(* Controls that are set to a level, a colour, a mode or an option: the    *)
(* dimmer (lights/dimmer.py), the two colour pickers                       *)
(* (lights/colorpickers.py), the ventilation (fan.py), the audio zone      *)
(* (media_player.py), the radio buttons (select.py) and the value selector *)
(* (number.py).                                                            *)
(*                                                                         *)
(* Positions, brightness, speed and volume share one scale, 0 to Full of   *)
(* the covers.  The artist, album and favourites of an audio zone,         *)
(* transitions between the states of a colour other than its value, and    *)
(* calls that combine several arguments are left out.                      *)
(***************************************************************************)
EXTENDS Covers

PickerKinds == {"TunableWhite", "RgbPicker"}
OutputKinds == PickerKinds \cup {"Dimmer", "Fan", "Zone", "Radio", "ValueSelector"}

Levels == 1 .. Full

AtLeast(a, b) == IF a >= b THEN a ELSE b
AtMost(a, b) == IF a <= b THEN a ELSE b

\* A set of no value is a state that was not received; the value, or the default.
Or(received, default) == IF received = {} THEN default ELSE CHOOSE v \in received : TRUE

(***************************************************************************)
(* The dimmer.  Its range arrives as two states of its own.                *)
(***************************************************************************)
DimmerFresh == [low |-> {}, high |-> {}, level |-> {}, rescaled |-> FALSE, available |-> FALSE]

\* lox_to_hass_range(), and lox_to_hass() without a range.
Brightness(e, position) ==
  LET low == Or(e.low, 0) high == Or(e.high, Full)
  IN IF e.low = {} \/ e.high = {} THEN position
     ELSE IF high <= low THEN (IF position >= low THEN Full ELSE 0)
     ELSE IF position <= low THEN 0
     ELSE AtMost(Full, AtLeast(1, ((position - low) * Full) \div (high - low)))

\* hass_to_lox_range(), and hass_to_lox() without a range: brightness 1 is the low
\* end, Full the high one.
Position(e, brightness) ==
  LET low == Or(e.low, 0) high == Or(e.high, Full)
  IN IF e.low = {} \/ e.high = {} THEN brightness
     ELSE IF high <= low THEN high
     ELSE AtLeast(1, low + (((brightness - 1) * (high - low)) \div AtLeast(1, Full - 1)))

\* A new range does not scale the brightness anew; rescaled says that it should.
\* (event_handler of a dimmer, and of a light controller for its master)
ScaleOn(e, s, v) ==
  CASE s = "min"      -> [e EXCEPT !.low = {v}, !.rescaled = @ \/ (e.level # {} /\ e.low # {v})]
    [] s = "max"      -> [e EXCEPT !.high = {v}, !.rescaled = @ \/ (e.level # {} /\ e.high # {v})]
    [] s = "position" -> [e EXCEPT !.level = {Brightness(e, v)}, !.rescaled = FALSE]

DimmerOn(e, s, v) == ScaleOn([e EXCEPT !.available = TRUE], s, v)

DimmerCommands(e, r) ==
  CASE r[1] = "on"    -> <<<<"On", 0>>>>
    [] r[1] = "off"   -> <<<<"Off", 0>>>>
    [] r[1] = "level" -> <<<<"set", Position(e, r[2])>>>>

DimmerExecutes(a, c) ==
  [a EXCEPT !["position"] = CASE c[1] = "On" -> a["max"] [] c[1] = "Off" -> 0 [] c[1] = "set" -> c[2]]

\* The lowest brightness is the low end of the range, which reads as off.
DimmerShows(e, r) ==
  CASE r[1] = "on"    -> e.level \ {0} # {}
    [] r[1] = "off"   -> e.level = {0}
    [] r[1] = "level" -> (r[2] = Full => e.level = {Full}) /\ (r[2] > 1 => e.level \ {0} # {})

(***************************************************************************)
(* The colour pickers.  A colour is <<"hsv", hue, level>> or               *)
(* <<"temp", kelvin, level>>.                                              *)
(***************************************************************************)
Hues == {1, 2}
Kelvins == {1, 2}
DefaultKelvin == 2
Black == <<"hsv", 0, 0>>

PickerFresh == [mode |-> "unknown", hue |-> {}, kelvin |-> {}, level |-> {}, available |-> FALSE]

\* event_handler: a tunable white reports hsv for one thing, being off; a colour
\* temperature makes an RGB picker forget its hue.
PickerOn(kind, e, v) ==
  LET seen == [e EXCEPT !.level = {v[3]}, !.available = TRUE]
  IN IF v[1] = "temp"
       THEN [seen EXCEPT !.mode = "temp", !.kelvin = {v[2]}, !.hue = {}]
     ELSE IF kind = "RgbPicker" THEN [seen EXCEPT !.mode = "hsv", !.hue = {v[2]}]
     ELSE seen

\* The brightness that goes with a colour: the last one that is not zero, or full.
LevelOr(e) == Or(e.level \ {0}, Full)

\* plan_temp_turn_on()
WhiteCommand(e, r) ==
  CASE r[1] = "on"     -> <<"setBrightness", LevelOr(e)>>
    [] r[1] = "level"  -> <<"temp", Or(e.kelvin, DefaultKelvin), r[2]>>
    [] r[1] = "kelvin" -> <<"temp", r[2], LevelOr(e)>>

\* plan_turn_on(): what is asked for, or the colour that is known, or the level alone.
RgbCommand(e, r) ==
  LET level == IF r[1] = "level" THEN r[2] ELSE LevelOr(e)
  IN CASE r[1] = "hue"                         -> <<"hsv", r[2], level>>
       [] r[1] = "kelvin"                      -> <<"temp", r[2], level>>
       [] r[1] \in {"on", "level"} ->
            IF e.mode = "hsv" /\ e.hue # {} THEN <<"hsv", Or(e.hue, 0), level>>
            ELSE IF e.mode = "temp" /\ e.kelvin # {} THEN <<"temp", Or(e.kelvin, 0), level>>
            ELSE <<"setBrightness", level>>

PickerCommands(kind, e, r) ==
  IF r[1] = "off" THEN <<<<"setBrightness", 0>>>>
  ELSE <<IF kind = "RgbPicker" THEN RgbCommand(e, r) ELSE WhiteCommand(e, r)>>

\* async_turn_on(): what was asked for is taken for the state before it is sent, and
\* stays if sending it is refused.
PickerFlipped(kind, e, r) ==
  CASE r[1] = "level"  -> [e EXCEPT !.level = {r[2]}]
    [] r[1] = "kelvin" -> [e EXCEPT !.kelvin = {r[2]}, !.mode = IF kind = "RgbPicker" THEN "temp" ELSE @]
    [] r[1] = "hue"    -> [e EXCEPT !.hue = {r[2]}, !.mode = "hsv"]
    [] OTHER           -> e

PickerExecutes(kind, a, c) ==
  LET old == a["color"]
      new == IF c[1] # "setBrightness" THEN c
             ELSE IF kind = "RgbPicker" THEN <<old[1], old[2], c[2]>>
             ELSE IF c[2] = 0 THEN Black ELSE <<"temp", AtLeast(1, old[2]), c[2]>>
  IN [a EXCEPT !["color"] = new]

\* Home Assistant shows the colour of a light that is on, and of its mode.
PickerDisplay(e) ==
  IF e.level \ {0} = {} THEN <<e.available>>
  ELSE <<e.available, e.level, e.mode, IF e.mode = "hsv" THEN e.hue ELSE e.kelvin>>

PickerShows(e, r) ==
  CASE r[1] = "off"    -> e.level = {0}
    [] r[1] = "on"     -> e.level \ {0} # {}
    [] r[1] = "level"  -> e.level = {r[2]}
    [] r[1] = "kelvin" -> e.mode = "temp" /\ e.kelvin = {r[2]} /\ e.level \ {0} # {}
    [] r[1] = "hue"    -> e.mode = "hsv" /\ e.hue = {r[2]} /\ e.level \ {0} # {}

(***************************************************************************)
(* The ventilation: a profile and a speed.                                 *)
(***************************************************************************)
Low == 2
AutoProfile == 5

\* Mutation: the profiles start one too late, and a speed is not sent with the lowest.
SpeedButLowest(e, x) == {<<"setTimer", x, p>> : p \in e.mode \cap 3 .. 6}

\* A speed is set together with the profile that is shown; without one it is not.
SpeedCommands(e, x) == {<<"setTimer", x, p>> : p \in e.mode \cap 2 .. 6}

\* async_turn_on() without a speed or a profile sends nothing.
FanCommands(e, r) ==
  LET speed(x) == IF SpeedCommands(e, x) = {} THEN <<>> ELSE <<Or(SpeedCommands(e, x), <<>>)>>
  IN CASE r[1] = "preset" -> <<<<"setMode", r[2]>>>>
       [] r[1] = "speed"  -> speed(r[2])
       [] r[1] = "on"     -> <<>>
       [] r[1] = "off"    -> IF e.speed \ {0} = {} THEN <<>> ELSE <<<<"setMode", AutoProfile>>>> \o speed(0)

FanExecutes(a, c) ==
  IF c[1] = "setMode" THEN [a EXCEPT !["mode"] = c[2], !["speed"] = 1]
  ELSE [a EXCEPT !["mode"] = c[3], !["speed"] = c[2]]

FanShows(e, r) ==
  CASE r[1] = "preset" -> e.mode = {r[2]}
    [] r[1] = "speed"  -> e.speed = {r[2]}
    [] r[1] = "on"     -> e.speed \ {0} # {}
    [] r[1] = "off"    -> e.speed = {0}

(***************************************************************************)
(* The audio zone.  Play states: -1 off, 0 idle, 1 paused, 2 playing.  A   *)
(* source is its name; the metadata is the title in it, or Untitled.       *)
(***************************************************************************)
Untitled == 0

ZoneFresh ==
  [playState |-> -1, active |-> {}, mute |-> {}, volume |-> 0, source |-> {}, sourceList |-> {}, title |-> {}]

\* event_handler: the first source is the title until there is one in the metadata,
\* and metadata without a title leaves the one there is.
ZoneOn(e, s, v) ==
  CASE s = "playState"  -> [e EXCEPT !.playState = v]
    [] s = "active"     -> [e EXCEPT !.active = {v}]
    [] s = "mute"       -> [e EXCEPT !.mute = {v}]
    [] s = "volume"     -> [e EXCEPT !.volume = v]
    [] s = "source"     -> [e EXCEPT !.source = {v}, !.title = IF @ = {} THEN {v} ELSE @]
    [] s = "sourceList" -> [e EXCEPT !.sourceList = v]
    [] s = "metadata"   -> [e EXCEPT !.title = IF v = Untitled THEN @ ELSE {v}]

\* state: a zone without power is off, whatever it plays.
ZoneState(e) == IF e.active = {0} THEN -1 ELSE e.playState

\* An unknown source is not selected; without a list every source is tried.
ZoneCommands(e, r) ==
  CASE r[1] = "source" -> IF e.sourceList = {} \/ r[2] \in e.sourceList THEN <<<<"source", r[2]>>>> ELSE <<>>
    [] r[1] = "stop"   -> <<<<"pause", 0>>>>
    [] OTHER           -> <<r>>

ZoneExecutes(a, c) ==
  CASE c[1] = "play"   -> [a EXCEPT !["playState"] = 2, !["active"] = 1]
    [] c[1] = "pause"  -> [a EXCEPT !["playState"] = IF @ = 2 THEN 1 ELSE @]
    [] c[1] = "power"  -> [a EXCEPT !["active"] = c[2], !["playState"] = IF c[2] = 1 THEN AtLeast(0, @) ELSE -1]
    [] OTHER           -> [a EXCEPT ![c[1]] = c[2]]

ZoneShows(e, r) ==
  CASE r[1] = "play"              -> ZoneState(e) = 2
    [] r[1] \in {"pause", "stop"} -> ZoneState(e) # 2
    [] r[1] = "power"             -> (ZoneState(e) # -1) = (r[2] = 1)
    [] r[1] = "mute"              -> (e.mute = {1}) = (r[2] = 1)
    [] r[1] = "volume"            -> e.volume = r[2]
    [] r[1] = "source"            -> e.source = {r[2]}

(***************************************************************************)
(* The radio buttons and the value selector.                               *)
(***************************************************************************)
\* build_option_maps(): output 0 is an option if the block has an "all off".
Options == {0, 1, 2}

RadioOn(e, v) == [option |-> {v} \cap Options]

RadioCommands(r) == IF r[2] = 0 THEN <<<<"reset", 0>>>> ELSE <<<<"output", r[2]>>>>

SelectorFresh == [value |-> {}, low |-> 0, high |-> Full, available |-> FALSE]

SelectorOn(e, s, v) ==
  CASE s = "min"   -> [e EXCEPT !.low = v]
    [] s = "max"   -> [e EXCEPT !.high = v]
    [] s = "value" -> [e EXCEPT !.value = {v}, !.available = TRUE]

(***************************************************************************)
(* The platforms.                                                          *)
(***************************************************************************)
OutputStreams(kind) ==
  CASE kind = "Dimmer"        -> {"min", "max", "position"}
    [] kind \in PickerKinds   -> {"color"}
    [] kind = "Fan"           -> {"mode", "speed"}
    [] kind = "Zone"          -> {"playState", "active", "mute", "volume", "source", "sourceList", "metadata"}
    [] kind = "Radio"         -> {"activeOutput"}
    [] kind = "ValueSelector" -> {"min", "max", "value"}

OutputValues(kind, s) ==
  CASE s = "min"          -> {0, 1}
    [] s = "max"          -> {1, Full}
    [] s = "position"     -> Positions
    [] s = "value"        -> Positions
    [] s = "color"        -> {Black} \cup ({"temp"} \X Kelvins \X Levels)
                               \cup (IF kind = "RgbPicker" THEN {"hsv"} \X Hues \X Positions ELSE {})
    [] s = "mode"         -> {Low, AutoProfile}
    [] s \in {"speed", "volume"} -> Positions
    [] s = "playState"    -> {-1, 0, 1, 2}
    [] s \in {"active", "mute"}  -> {0, 1}
    [] s = "source"       -> {1, 2}
    [] s = "sourceList"   -> {{1, 2}, {1}, {}}
    [] s = "metadata"     -> {Untitled, 3}
    [] s = "activeOutput" -> Options \cup {3}

OutputFresh(kind) ==
  CASE kind = "Dimmer"        -> DimmerFresh
    [] kind \in PickerKinds   -> PickerFresh
    [] kind = "Fan"           -> [mode |-> {}, speed |-> {}]
    [] kind = "Zone"          -> ZoneFresh
    [] kind = "Radio"         -> [option |-> {}]
    [] kind = "ValueSelector" -> SelectorFresh

OutputOn(kind, e, s, v) ==
  CASE kind = "Dimmer"        -> DimmerOn(e, s, v)
    [] kind \in PickerKinds   -> PickerOn(kind, e, v)
    [] kind = "Fan"           -> [e EXCEPT ![s] = {v}]
    [] kind = "Zone"          -> ZoneOn(e, s, v)
    [] kind = "Radio"         -> RadioOn(e, v)
    [] kind = "ValueSelector" -> SelectorOn(e, s, v)

OutputRequests(kind) ==
  LET onOff == {"on", "off"} \X {0}
  IN CASE kind = "Dimmer"       -> onOff \cup ({"level"} \X Levels)
       [] kind = "TunableWhite" -> onOff \cup ({"level"} \X Levels) \cup ({"kelvin"} \X Kelvins)
       [] kind = "RgbPicker"    -> onOff \cup ({"level"} \X Levels) \cup ({"kelvin"} \X Kelvins) \cup ({"hue"} \X Hues)
       [] kind = "Fan"          -> onOff \cup ({"preset"} \X {Low, AutoProfile}) \cup ({"speed"} \X Levels)
       [] kind = "Zone"         -> ({"play", "pause", "stop"} \X {0}) \cup ({"power", "mute"} \X {0, 1})
                                     \cup ({"volume"} \X Positions) \cup ({"source"} \X {1, 2})
       [] kind = "Radio"         -> {"option"} \X Options
       [] kind = "ValueSelector" -> {"value"} \X Positions

\* Home Assistant refuses a number outside the range the entity has.
OutputOffers(kind, e, r) == kind = "ValueSelector" => e.low <= r[2] /\ r[2] <= e.high

\* Offered, and nothing is sent for it: a source that is not on the list, and
\* switching on a ventilation that stands.
OutputDrops(kind, e, r) ==
  \/ kind = "Zone" /\ r[1] = "source" /\ e.sourceList # {} /\ r[2] \notin e.sourceList
  \/ kind = "Fan" /\ r[1] = "on" /\ e.speed \ {0} = {}

OutputCommands(kind, e, r) ==
  CASE kind = "Dimmer"        -> DimmerCommands(e, r)
    [] kind \in PickerKinds   -> PickerCommands(kind, e, r)
    [] kind = "Fan"           -> FanCommands(e, r)
    [] kind = "Zone"          -> ZoneCommands(e, r)
    [] kind = "Radio"         -> RadioCommands(r)
    [] kind = "ValueSelector" -> <<r>>

\* The Miniserver.
OutputExecutes(kind, a, c) ==
  CASE kind = "Dimmer"        -> DimmerExecutes(a, c)
    [] kind \in PickerKinds   -> PickerExecutes(kind, a, c)
    [] kind = "Fan"           -> FanExecutes(a, c)
    [] kind = "Zone"          -> ZoneExecutes(a, c)
    [] kind = "Radio"         -> [a EXCEPT !["activeOutput"] = c[2]]
    [] kind = "ValueSelector" -> [a EXCEPT !["value"] = AtLeast(a["min"], AtMost(a["max"], c[2]))]

OutputShows(kind, e, r) ==
  CASE kind = "Dimmer"        -> DimmerShows(e, r)
    [] kind \in PickerKinds   -> PickerShows(e, r)
    [] kind = "Fan"           -> FanShows(e, r)
    [] kind = "Zone"          -> ZoneShows(e, r)
    [] kind = "Radio"         -> e.option = {r[2]}
    [] kind = "ValueSelector" -> e.value = {r[2]}
=============================================================================
