------------------------------- MODULE Lights -------------------------------
(***************************************************************************)
(* The light controller (lights/lightcontroller.py): its moods, its master *)
(* dimmer and its circuits, of which it shows whether there is light, and  *)
(* how much the master gives.  Moods are ids; an empty list of active      *)
(* moods is manual mode.  The level of a circuit is 0 or 1; the master,    *)
(* which "MasterLight" has and "Light" has not, has the scale of a dimmer. *)
(***************************************************************************)
EXTENDS Outputs, Sequences

LightKinds == {"Light", "MasterLight"}

Off == 0
OtherOff == 778
AllOn == 777
Evening == 5
OffMoods == {Off, OtherOff}

Circuits == {"circuit1", "circuit2"}

LightStreams(kind) ==
  {"activeMoods", "moodList"} \cup (IF kind = "Light" THEN Circuits ELSE {"circuit1", "min", "max", "master"})

LightValues(s) ==
  CASE s = "activeMoods" -> {{Evening}, {AllOn}, {Off}, {OtherOff}, {Off, Evening}, {}}
    [] s = "moodList"    -> {<<OtherOff, Evening, AllOn>>, <<OtherOff, Evening>>, <<OtherOff>>}
    [] s = "min"         -> {0, 1}
    [] s = "max"         -> {1, Full}
    [] s = "master"      -> Positions
    [] OTHER             -> {0, 1}

\* A set of no value is a state that was not received.
LightFresh ==
  [moods |-> {}, moodList |-> <<>>, master |-> {}, circuits |-> [c \in Circuits |-> {}],
   low |-> {}, high |-> {}, level |-> {}, rescaled |-> FALSE, on |-> {}, available |-> FALSE]

\* lcv2_is_on(): the moods decide, in manual mode the circuits, and without any
\* circuit known the master.
IsOn(e) ==
  LET active == UNION e.moods
      known  == UNION {e.circuits[c] : c \in Circuits}
  IN IF e.moods = {}                THEN {}
     ELSE IF active \ OffMoods # {} THEN {TRUE}
     ELSE IF active # {}            THEN {FALSE}
     ELSE IF known # {}             THEN {1 \in known}
     ELSE                                {m > 0 : m \in e.master}

\* The tail of event_handler: is_on anew after every update; available from the
\* first thing known on, the range of the master included.
Derived(e) ==
  LET on == IsOn(e)
  IN [e EXCEPT !.on = on,
               !.available = \/ @ \/ on # {} \/ (e.low # {} /\ e.high # {})
                              \/ \E c \in Circuits : e.circuits[c] # {}]

LightOn(e, s, v) ==
  Derived(CASE s = "activeMoods" -> [e EXCEPT !.moods = {v}]
            [] s = "moodList"    -> [e EXCEPT !.moodList = v]
            [] s \in {"min", "max"} -> ScaleOn(e, s, v)
            [] s = "master"      -> [ScaleOn(e, "position", v) EXCEPT !.master = {v}]
            [] OTHER             -> [e EXCEPT !.circuits[s] = {v}])

LightRequests(kind) ==
  {<<"on", 0>>, <<"off", 0>>} \cup ({"effect"} \X {Evening, AllOn})
    \cup (IF kind = "MasterLight" THEN {"brightness"} \X Levels ELSE {})

\* lcv2_plain_turn_on_command(): all on, or the first mood that is not off, or
\* the next one.
PlainTurnOn(moodList) ==
  LET lit == {i \in DOMAIN moodList : moodList[i] \notin OffMoods}
  IN IF \E i \in DOMAIN moodList : moodList[i] = AllOn THEN <<"changeTo", AllOn>>
     ELSE IF lit # {} THEN <<"changeTo", moodList[CHOOSE i \in lit : \A j \in lit : i <= j]>>
     ELSE <<"plus", 0>>

\* async_turn_on(), got_effect() and async_turn_off(): a controller that is on is
\* not switched on again, one of unknown state is.  A brightness goes to the master.
LightCommands(e, r) ==
  CASE r[1] = "on"         -> IF e.on = {TRUE} THEN <<>> ELSE <<PlainTurnOn(e.moodList)>>
    [] r[1] = "off"        -> <<<<"changeTo", Off>>>>
    [] r[1] = "brightness" -> <<<<"master", Position(e, r[2])>>>>
    [] r[1] = "effect"     -> IF \E i \in DOMAIN e.moodList : e.moodList[i] = r[2]
                                THEN <<<<"changeTo", r[2]>>>> ELSE <<<<"plus", 0>>>>

\* The Miniserver: a mood sets every circuit; moving the master clears the moods.
Lit(a, level, position, moods) ==
  [s \in DOMAIN a |-> IF s \in Circuits       THEN level
                      ELSE IF s = "master"      THEN position
                      ELSE IF s = "activeMoods" THEN moods ELSE a[s]]

LightExecutes(a, c) ==
  LET full == IF "max" \in DOMAIN a THEN a["max"] ELSE 1
  IN CASE c[1] = "changeTo" -> IF c[2] \in OffMoods THEN Lit(a, 0, 0, {c[2]}) ELSE Lit(a, 1, full, {c[2]})
       [] c[1] = "plus"     -> Lit(a, 1, full, {Evening})
       [] c[1] = "master"   -> Lit(a, IF c[2] > 0 THEN 1 ELSE 0, c[2], {})

LightShows(e, r) ==
  CASE r[1] = "on"     -> e.on = {TRUE}
    [] r[1] = "off"    -> e.on = {FALSE}
    [] r[1] = "brightness" -> e.on = {TRUE} /\ (r[2] = Full => e.level = {Full})
    [] r[1] = "effect" -> e.on = {TRUE} /\ (r[2] \in {e.moodList[i] : i \in DOMAIN e.moodList}
                                              => e.moods = {{r[2]}})
=============================================================================
