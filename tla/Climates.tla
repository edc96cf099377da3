------------------------------ MODULE Climates ------------------------------
(***************************************************************************)
(* The climate platform (climate.py): the room controllers of both         *)
(* generations and the air conditioner.  "RoomV2" can hold a range of      *)
(* temperatures (it can heat and cool), "RoomV2Single" cannot, and         *)
(* "RoomV2Comfort" could, but is configured to one comfort temperature.    *)
(*                                                                         *)
(* Temperatures are whole half degrees.  The six set points of a room      *)
(* controller are cached alike and read together: they travel as one       *)
(* value here.  Fan and swing modes, capabilities, units and the current   *)
(* temperature are left out, as is hvac_action.                            *)
(***************************************************************************)
EXTENDS Integers, Sequences

CONSTANT Temperatures   \* what a user may set: from min_temp on, which is above zero

ASSUME ClimatesAssumption == Temperatures \subseteq Nat \ {0} /\ Temperatures # {}

ClimateKinds == {"RoomV2", "RoomV2Single", "RoomV2Comfort", "RoomV1", "AcControl"}

(***************************************************************************)
(* The room controller V2.  Operating modes: -1 off, 0 to 2 automatic, 3   *)
(* to 5 manual, each heating and cooling, heating, cooling.  Active modes: *)
(* 0 economy, 1 comfort, 2 building protection, 3 manual, 4 off, 14 fixed, *)
(* and from 112 on fixed at the temperature that is added to it.           *)
(***************************************************************************)
Automatic == {0, 1, 2}
Dual == {0, 3}
Dynamic == 112

\* _range_possible: it can heat and cool.
RangePossible(kind) == kind \in {"RoomV2", "RoomV2Comfort"}

V2Fresh == [op |-> -1, active |-> 4, fixedAt |-> 0, overridden |-> FALSE,
            setpoints |-> {}, target |-> {}]

\* OperatingMode.from_mode(), ActiveState.from_raw(): an unknown code keeps the mode.
V2On(e, s, v) ==
  CASE s = "operatingMode"  -> IF v \in -1 .. 5 THEN [e EXCEPT !.op = v] ELSE e
    [] s = "activeMode"     -> IF v >= Dynamic THEN [e EXCEPT !.active = Dynamic, !.fixedAt = v - Dynamic]
                               ELSE IF v \in {0, 1, 2, 3, 4, 14} THEN [e EXCEPT !.active = v, !.fixedAt = 0]
                               ELSE e
    [] s = "overrideReason" -> [e EXCEPT !.overridden = v > 0]
    [] s = "setpoints"      -> [e EXCEPT !.setpoints = {v}]
    [] s = "tempTarget"     -> [e EXCEPT !.target = {v}]

V2HvacMode(e) ==
  IF e.op \in Automatic /\ ~e.overridden THEN "auto"
  ELSE CASE e.op = -1       -> "off"
         [] e.op \in {1, 4} -> "heat"
         [] e.op \in {2, 5} -> "cool"
         [] e.op \in {0, 3} -> "heat_cool"

\* native_target_temperature, _high and _low; a set of no value is None.
V2Target(e) ==
  IF e.active = Dynamic THEN {e.fixedAt}
  ELSE IF e.target \ {0} # {} THEN e.target ELSE {p.comfort : p \in e.setpoints}

V2High(e) ==
  CASE e.op \in Dual /\ e.active = 1 -> {p.comfortCool : p \in e.setpoints}
    [] e.op \in Dual /\ e.active = 0 -> {p.comfortCool + p.absentMax : p \in e.setpoints}
    [] e.op \in Dual /\ e.active = 2 -> {p.heatProtect : p \in e.setpoints}
    [] OTHER -> {}

V2Low(e) ==
  CASE e.op \in Dual /\ e.active = 1 -> {p.comfort : p \in e.setpoints}
    [] e.op \in Dual /\ e.active = 0 -> {p.comfort - p.absentMin : p \in e.setpoints}
    [] e.op \in Dual /\ e.active = 2 -> {p.frostProtect : p \in e.setpoints}
    [] OTHER -> {}

Larger(a, b) == IF a >= b THEN a ELSE b

\* One command, unless the value it would set is the one that is set.
Unless(same, command) == IF same THEN <<>> ELSE <<command>>

\* plan_set_temperature(), the two ends of a range.
HighCommands(e, p, x) ==
  CASE e.active = 0 -> LET offset == Larger(x - p.comfortCool, 1)
                       IN Unless(offset = p.absentMax, <<"setAbsentMaxTemperature", offset>>)
    [] e.active = 1 -> Unless(x = p.comfortCool, <<"setComfortTemperatureCool", x>>)
    [] e.active = 2 -> Unless(x = p.heatProtect, <<"setecoplusmaxtemperature", x>>)
    [] OTHER        -> <<>>

LowCommands(e, p, x) ==
  CASE e.active = 0 -> LET offset == Larger(p.comfort - x, 1)
                       IN Unless(offset = p.absentMin, <<"setAbsentMinTemperature", offset>>)
    [] e.active = 1 -> Unless(x = p.comfort, <<"setComfortTemperature", x>>)
    [] e.active = 2 -> Unless(x = p.frostProtect, <<"setecoplusmintemperature", x>>)
    [] OTHER        -> <<>>

\* plan_set_temperature() reads the modes and the set points the entity shows.
PlanSetTemperature(e, rangePossible, r) ==
  LET isFixed  == e.active \in {Dynamic, 14}
      isManual == e.active = 3 \/ e.op \in {4, 5} \/ (e.op = 3 /\ ~rangePossible)
      p == CHOOSE q \in e.setpoints : TRUE
  IN IF isFixed \/ isManual
       THEN IF r[1] # "temperature" THEN <<>>
            ELSE IF e.active = Dynamic THEN <<<<"override", Dynamic + r[2]>>>>
            ELSE <<<<"setManualTemperature", r[2]>>>>
       ELSE IF rangePossible /\ e.op \in Dual
       THEN IF e.setpoints = {}  THEN <<>>
            ELSE IF r[1] = "high" THEN HighCommands(e, p, r[2])
            ELSE IF r[1] = "low"  THEN LowCommands(e, p, r[2])
            ELSE <<>>
       ELSE IF r[1] = "temperature" THEN <<<<"setComfortModeTemp", r[2]>>>> ELSE <<>>

\* async_set_hvac_mode(): an override is ended first where one can be running.
V2Mode(m) == CASE m = "off" -> -1 [] m = "auto" -> 0 [] m = "heat_cool" -> 3 [] m = "heat" -> 4 [] m = "cool" -> 5

V2HvacCommands(e, m) ==
  (IF e.op \in Automatic \cup {3} /\ e.overridden THEN <<<<"stopOverride", 0>>>> ELSE <<>>)
    \o <<<<"setOperatingMode", V2Mode(m)>>>>

\* async_set_preset_mode() and schedule_preset_commands().
V2PresetCommands(e, r) ==
  IF r[1] = "override" THEN <<<<"override", r[2]>>>>
  ELSE IF e.overridden THEN <<<<"stopOverride", 0>>>>
  ELSE <<<<"setOperatingMode", 0>>>>

V2Commands(kind, e, r) ==
  CASE r[1] = "hvac" -> V2HvacCommands(e, r[2])
    [] r[1] \in {"temperature", "high", "low"} -> PlanSetTemperature(e, RangePossible(kind), r)
    [] r[1] \in {"override", "schedule"} -> V2PresetCommands(e, r)

\* supported_features: off, a room controller can only be turned on; a range is
\* offered in the dual modes, unless there is one comfort temperature, and a single
\* temperature otherwise.
V2Offers(kind, e, r) ==
  LET range == RangePossible(kind) /\ kind # "RoomV2Comfort" /\ e.op \in Dual /\ e.active \notin {Dynamic, 14}
  IN CASE r[1] = "hvac"            -> TRUE
       [] r[1] = "temperature"     -> e.op # -1 /\ ~range
       [] r[1] \in {"high", "low"} -> range
       [] OTHER                    -> e.op # -1

\* Offered, and no command is planned for it: an end of the range while the room is
\* set by hand or off, and the one comfort temperature in a dual mode, where only the
\* ends of a range are looked for.
V2Drops(kind, e, r) ==
  \/ r[1] \in {"high", "low"} /\ e.active \in {3, 4}
  \/ kind = "RoomV2Comfort" /\ r[1] = "temperature" /\ e.op \in Dual /\ e.active \notin {Dynamic, 14, 3}

\* The Miniserver: an override runs in an automatic mode or in manual heating and
\* cooling, the modes the service looks for one in.
V2States(a) == a["overrideReason"] = 1 => a["operatingMode"] \in Automatic \cup {3}

V2Executes(a, c) ==
  LET point(name) == [a EXCEPT !["setpoints"] = [a["setpoints"] EXCEPT ![name] = c[2]]]
  IN CASE c[1] = "setOperatingMode" ->
            [a EXCEPT !["operatingMode"] = c[2],
                      !["overrideReason"] = IF c[2] \in Automatic \cup {3} THEN @ ELSE 0]
       [] c[1] = "stopOverride" -> [a EXCEPT !["overrideReason"] = 0]
       [] c[1] = "override"     ->
            [a EXCEPT !["activeMode"] = c[2],
                      !["overrideReason"] = IF a["operatingMode"] \in Automatic \cup {3} THEN 1 ELSE 0]
       [] c[1] \in {"setManualTemperature", "setComfortModeTemp"} -> [a EXCEPT !["tempTarget"] = c[2]]
       [] c[1] = "setAbsentMaxTemperature"   -> point("absentMax")
       [] c[1] = "setAbsentMinTemperature"   -> point("absentMin")
       [] c[1] = "setComfortTemperatureCool" -> point("comfortCool")
       [] c[1] = "setComfortTemperature"     -> point("comfort")
       [] c[1] = "setecoplusmaxtemperature"  -> point("heatProtect")
       [] c[1] = "setecoplusmintemperature"  -> point("frostProtect")

\* An economy range is at least half a degree wider than the comfort range.
V2Shows(e, r) ==
  CASE r[1] = "hvac"        -> V2HvacMode(e) = r[2]
    [] r[1] = "temperature" -> V2Target(e) = {r[2]}
    [] r[1] = "high"        -> V2High(e) = {IF e.active = 0 THEN Larger(r[2], p.comfortCool + 1) ELSE r[2]
                                            : p \in e.setpoints}
    [] r[1] = "low"         -> V2Low(e) = {IF e.active = 0 THEN -Larger(-r[2], 1 - p.comfort) ELSE r[2]
                                           : p \in e.setpoints}
    [] r[1] = "override"    -> e.active = r[2] /\ (e.op \in Automatic => e.overridden)
    [] r[1] = "schedule"    -> ~e.overridden

(***************************************************************************)
(* The room controller V1: no off mode, but service mode 1 is off.         *)
(***************************************************************************)
V1Fresh == [mode |-> {}, service |-> {}]

V1On(e, s, v) == IF s = "mode" THEN [e EXCEPT !.mode = {v}] ELSE [e EXCEPT !.service = {v}]

V1HvacMode(e) ==
  IF e.service = {1} \/ e.mode = {}      THEN "off"
  ELSE IF e.mode \subseteq {0, 1, 2}      THEN "auto"
  ELSE IF e.mode \subseteq {3, 5}         THEN "heat"
  ELSE                                        "cool"

\* Any mode but off first leaves service mode 1.
V1Commands(e, m) ==
  IF m = "off" THEN <<<<"service", 1>>>>
  ELSE (IF e.service = {1} THEN <<<<"service", 0>>>> ELSE <<>>)
         \o <<<<"mode", CASE m = "auto" -> 0 [] m = "heat" -> 3 [] m = "cool" -> 4>>>>

V1Executes(a, c) ==
  IF c[1] = "service" THEN [a EXCEPT !["serviceMode"] = c[2]] ELSE [a EXCEPT !["mode"] = c[2]]

(***************************************************************************)
(* The air conditioner.                                                    *)
(***************************************************************************)
AcFresh == [on |-> FALSE, mode |-> {}, target |-> {}]

AcOn(e, s, v) ==
  CASE s = "status"            -> [e EXCEPT !.on = v # 0]
    [] s = "mode"              -> [e EXCEPT !.mode = {v}]
    [] s = "targetTemperature" -> [e EXCEPT !.target = {v}]

AcHvacMode(e) ==
  IF ~e.on THEN "off"
  ELSE CASE e.mode = {2} -> "heat"
         [] e.mode = {3} -> "cool"
         [] e.mode = {4} -> "dry"
         [] e.mode = {5} -> "fan_only"
         [] OTHER        -> "auto"

AcMode(m) ==
  CASE m = "heat" -> 2 [] m = "cool" -> 3 [] m = "dry" -> 4 [] m = "fan_only" -> 5 [] OTHER -> 1

AcCommands(r) ==
  IF r[1] = "temperature" THEN <<<<"setTarget", r[2]>>>>
  ELSE IF r[2] = "off" THEN <<<<"off", 0>>>>
  ELSE <<<<"on", 0>>, <<"setMode", AcMode(r[2])>>>>

AcExecutes(a, c) ==
  CASE c[1] = "setTarget" -> [a EXCEPT !["targetTemperature"] = c[2]]
    [] c[1] = "on"        -> [a EXCEPT !["status"] = 1]
    [] c[1] = "off"       -> [a EXCEPT !["status"] = 0]
    [] c[1] = "setMode"   -> [a EXCEPT !["mode"] = c[2]]

(***************************************************************************)
(* The platform.                                                           *)
(***************************************************************************)
IsV2(kind) == kind \in {"RoomV2", "RoomV2Single", "RoomV2Comfort"}

ClimateStreams(kind) ==
  CASE IsV2(kind)         -> {"operatingMode", "activeMode", "overrideReason", "setpoints", "tempTarget"}
    [] kind = "RoomV1"    -> {"mode", "serviceMode"}
    [] kind = "AcControl" -> {"status", "mode", "targetTemperature"}

\* A Miniserver of its time: values its structure file documents.
ClimateValues(kind, s) ==
  CASE s = "operatingMode"  -> -1 .. 5
    [] s = "activeMode"     -> {1, 0, 2, 3, 4, 14} \cup {Dynamic + t : t \in Temperatures}
    [] s \in {"overrideReason", "serviceMode", "status"} -> {0, 1}
    [] s = "setpoints"      -> {[comfort |-> 42, comfortCool |-> 50, frostProtect |-> 14,
                                 heatProtect |-> 70, absentMin |-> 4, absentMax |-> 4]}
    [] s \in {"tempTarget", "targetTemperature"} -> Temperatures
    [] s = "mode"           -> IF kind = "RoomV1" THEN 0 .. 6 ELSE 1 .. 5

ClimateFresh(kind) ==
  CASE IsV2(kind) -> V2Fresh [] kind = "RoomV1" -> V1Fresh [] kind = "AcControl" -> AcFresh

ClimateOn(kind, e, s, v) ==
  CASE IsV2(kind) -> V2On(e, s, v) [] kind = "RoomV1" -> V1On(e, s, v) [] kind = "AcControl" -> AcOn(e, s, v)

ClimateStates(kind, a) == IsV2(kind) => V2States(a)

ClimateOffers(kind, e, r) == IsV2(kind) => V2Offers(kind, e, r)

ClimateDrops(kind, e, r) == IsV2(kind) /\ V2Drops(kind, e, r)

ClimateRequests(kind) ==
  CASE IsV2(kind) ->
         ({"hvac"} \X {"off", "auto", "heat", "cool"}) \cup ({"temperature"} \X Temperatures)
           \cup ({"override"} \X {0, 1, 2}) \cup {<<"schedule", 0>>}
           \cup (IF RangePossible(kind) THEN {<<"hvac", "heat_cool">>} ELSE {})
           \cup (IF kind = "RoomV2" THEN {"high", "low"} \X Temperatures ELSE {})
    [] kind = "RoomV1" -> {"hvac"} \X {"off", "auto", "heat", "cool"}
    [] kind = "AcControl" ->
         ({"hvac"} \X {"off", "auto", "heat", "cool", "dry", "fan_only"}) \cup ({"temperature"} \X Temperatures)

ClimateCommands(kind, e, r) ==
  CASE IsV2(kind) -> V2Commands(kind, e, r)
    [] kind = "RoomV1" -> V1Commands(e, r[2])
    [] kind = "AcControl" -> AcCommands(r)

ClimateExecutes(kind, a, c) ==
  CASE IsV2(kind) -> V2Executes(a, c) [] kind = "RoomV1" -> V1Executes(a, c) [] kind = "AcControl" -> AcExecutes(a, c)

ClimateShows(kind, e, r) ==
  CASE IsV2(kind) -> V2Shows(e, r)
    [] kind = "RoomV1" -> V1HvacMode(e) = r[2]
    [] kind = "AcControl" -> IF r[1] = "hvac" THEN AcHvacMode(e) = r[2] ELSE e.target = {r[2]}
=============================================================================
