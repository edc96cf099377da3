------------------------------ MODULE Switches ------------------------------
(***************************************************************************)
(* Switches that show what they were told before the Miniserver has done   *)
(* it (switch.py: LoxoneSwitch, LoxoneTimedSwitch, the comfort override),  *)
(* one that waits for the echo (the mute of an intercom), and the alarm    *)
(* panel (alarm_control_panel.py).                                         *)
(***************************************************************************)
EXTENDS Integers, Sequences

OptimisticKinds == {"Switch", "TimedSwitch", "Override"}
SwitchKinds == OptimisticKinds \cup {"Mute", "Alarm"}

SwitchStreams(kind) ==
  CASE kind = "Switch"      -> {"active"}
    [] kind = "TimedSwitch" -> {"deactivationDelay", "deactivationDelayTotal"}
    [] kind = "Override"    -> {"overrideEntries"}
    [] kind = "Mute"        -> {"muted"}
    [] kind = "Alarm"       -> {"armed", "disabledMove", "armedDelay", "armedAt", "level"}

\* The delay left, the time it ends, the number of override entries, the alarm's level; or 0 and 1.
SwitchValues(s) == IF s = "deactivationDelayTotal" THEN {2} ELSE {0, 1}

\* Unknown is a set of no value.  All but the override and the panel are
\* unavailable until their first value.
SwitchFresh(kind) ==
  IF kind = "Alarm"
    THEN [armed |-> 0, still |-> 0, delay |-> {}, armedAt |-> 0, level |-> 0, available |-> TRUE]
    ELSE [on |-> IF kind = "Override" THEN {FALSE} ELSE {}, available |-> kind = "Override"]

AlarmOn(e, s, v) ==
  CASE s = "armed"        -> [e EXCEPT !.armed = v]
    [] s = "disabledMove" -> [e EXCEPT !.still = v]
    [] s = "armedDelay"   -> [e EXCEPT !.delay = {v}]
    [] s = "armedAt"      -> [e EXCEPT !.armedAt = v]
    [] s = "level"        -> [e EXCEPT !.level = v]

SwitchOn(kind, e, s, v) ==
  IF kind = "Alarm" THEN AlarmOn(e, s, v)
  ELSE [e EXCEPT !.on = IF s = "deactivationDelayTotal" THEN @ ELSE {v # 0}, !.available = TRUE]

AlarmState(e) ==
  IF e.level >= 1             THEN "triggered"
  ELSE IF e.delay \ {0} # {} \/ e.armedAt # 0 THEN "arming"
  ELSE IF e.armed = 0         THEN "disarmed"
  ELSE IF e.still # 0         THEN "armed_home"
  ELSE                             "armed_away"

SwitchRequests(kind) ==
  IF kind = "Alarm" THEN {"disarmed", "armed_home", "armed_away"} \X {0} ELSE {"on", "off"} \X {0}

\* _do_turn_on() and _do_turn_off(): what is sent, and what is shown at once.
SwitchCommands(kind, e, r) ==
  LET isOn == e.on = {TRUE}
      wanted == r[1] = "on"
  IN CASE kind = "Switch"      -> IF isOn = wanted THEN <<>> ELSE <<<<IF wanted THEN "On" ELSE "Off", 0>>>>
       [] kind = "TimedSwitch" -> IF ~wanted THEN <<<<"off", 0>>>> ELSE IF isOn THEN <<>> ELSE <<<<"pulse", 0>>>>
       [] kind = "Override"    -> IF wanted THEN <<<<"override", 1>>>> ELSE <<<<"stopOverride", 0>>>>
       [] kind = "Mute"        -> <<<<"mute", IF wanted THEN 1 ELSE 0>>>>

\* alarm_arm_value(): the argument is the movement sensors, and 0 is without them.
Movement(state) == IF state = "armed_home" THEN 0 ELSE 1

AlarmCommands(r) ==
  IF r[1] = "disarmed" THEN <<<<"off", 0>>>> ELSE <<<<"delayedon", Movement(r[1])>>>>

SwitchAsks(kind, e, r) == IF kind = "Alarm" THEN AlarmCommands(r) ELSE SwitchCommands(kind, e, r)

\* The optimistic flip: after a command was sent, and without one no change.
Flipped(kind, e, r, commands) ==
  IF kind \in OptimisticKinds /\ commands # <<>> THEN [e EXCEPT !.on = {r[1] = "on"}] ELSE e

\* The Miniserver, its exit delay over: neither a delay nor a time to arm at is left.
SwitchExecutes(kind, a, c) ==
  CASE c[1] = "On"           -> [a EXCEPT !["active"] = 1]
    [] c[1] = "Off"          -> [a EXCEPT !["active"] = 0]
    [] c[1] = "pulse"        -> [a EXCEPT !["deactivationDelay"] = 1]
    [] c[1] = "off"          -> IF kind = "Alarm" THEN [a EXCEPT !["armed"] = 0, !["armedDelay"] = 0, !["armedAt"] = 0,
                                                     !["level"] = 0]
                                ELSE [a EXCEPT !["deactivationDelay"] = 0]
    [] c[1] = "override"     -> [a EXCEPT !["overrideEntries"] = 1]
    [] c[1] = "stopOverride" -> [a EXCEPT !["overrideEntries"] = 0]
    [] c[1] = "mute"         -> [a EXCEPT !["muted"] = c[2]]
    [] c[1] = "delayedon"    -> [a EXCEPT !["armed"] = 1, !["armedDelay"] = 0, !["armedAt"] = 0,
                                       !["disabledMove"] = 1 - c[2]]

SwitchShows(kind, e, r) ==
  IF kind = "Alarm" THEN AlarmState(e) = r[1] \/ AlarmState(e) = "triggered" ELSE e.on = {r[1] = "on"}
=============================================================================
