------------------------------- MODULE Covers -------------------------------
(***************************************************************************)
(* The cover platform (cover.py): gates, windows and blinds.  For each     *)
(* kind: its state streams, the entity before its first value, its         *)
(* event_handler, the commands its services send, and whether the entity   *)
(* shows what a service was asked for.                                     *)
(*                                                                         *)
(* A position is a whole number of steps, of which Full is the last.  The  *)
(* jitter manualLamelle adds is far below a step and is left out, and so   *)
(* are the automatic text and the device classes.                          *)
(***************************************************************************)
EXTENDS Integers, Sequences

CONSTANT Full   \* the last position

ASSUME CoversAssumption == Full \in Nat \ {0}

CoverKinds == {"Gate", "Window", "Jalousie"}
Positions == 0 .. Full

\* map_range(x, 0, 100, 100, 0): the Miniserver counts a blind's way down.
Inverted(x) == Full - x

CoverStreams(kind) ==
  CASE kind = "Gate"     -> {"position", "active"}
    [] kind = "Window"   -> {"position", "direction", "targetPosition"}
    [] kind = "Jalousie" -> {"position", "shadePosition", "up", "down", "autoActive"}

CoverValues(s) ==
  CASE s \in {"position", "shadePosition", "targetPosition"} -> Positions
    [] s \in {"active", "direction"} -> {0, -1, 1}
    [] s \in {"up", "down", "autoActive"} -> {0, 1}

\* __init__: a gate and a window without a position, a blind at position 0; all
\* of them closed.
CoverFresh(kind) ==
  [position  |-> IF kind = "Jalousie" THEN {0} ELSE {},
   closed    |-> TRUE,
   direction |-> 0,
   up        |-> 0,
   down      |-> 0,
   tilt      |-> {},
   target    |-> {},
   auto      |-> 0]

GateOn(e, s, v) ==
  IF s = "position" THEN [e EXCEPT !.position = {v}, !.closed = v = 0]
  ELSE [e EXCEPT !.direction = v]

WindowOn(e, s, v) ==
  CASE s = "position"  -> [e EXCEPT !.position = {v}, !.closed = v = 0]
    [] s = "direction" -> [e EXCEPT !.direction = v]
    [] OTHER           -> [e EXCEPT !.target = {v}]

JalousieOn(e, s, v) ==
  CASE s = "position"      -> [e EXCEPT !.position = {Inverted(v)}, !.closed = Inverted(v) = 0]
    [] s = "shadePosition" -> [e EXCEPT !.tilt = {Inverted(v)}]
    [] s = "up"            -> [e EXCEPT !.up = v]
    [] s = "down"          -> [e EXCEPT !.down = v]
    [] s = "autoActive"    -> [e EXCEPT !.auto = v]

CoverOn(kind, e, s, v) ==
  CASE kind = "Gate"     -> GateOn(e, s, v)
    [] kind = "Window"   -> WindowOn(e, s, v)
    [] kind = "Jalousie" -> JalousieOn(e, s, v)

CoverRequests(kind) ==
  {<<"open", 0>>, <<"close", 0>>, <<"stop", 0>>} \cup ({"position"} \X Positions) \cup
  (IF kind = "Jalousie" THEN ({"tilt"} \X Positions) \cup {<<"automation", 0>>, <<"automation", 1>>}
                        ELSE {})

\* Opening an open gate or blind sends nothing, and neither does closing a closed
\* one; a window is always told.
GateCommands(e, r) ==
  CASE r[1] = "open"  -> IF e.position = {Full} THEN <<>> ELSE <<<<"open", 0>>>>
    [] r[1] = "close" -> IF e.position = {0} THEN <<>> ELSE <<<<"close", 0>>>>
    [] r[1] = "stop"  -> <<<<"stop", 0>>>>
    [] OTHER          -> <<<<"manualPosition", r[2]>>>>

WindowCommands(e, r) ==
  CASE r[1] = "open"  -> <<<<"fullopen", 0>>>>
    [] r[1] = "close" -> <<<<"fullclose", 0>>>>
    [] r[1] = "stop"  -> <<<<"stop", 0>>>>
    [] OTHER          -> <<<<"moveToPosition", r[2]>>>>

JalousieCommands(e, r) ==
  CASE r[1] = "open"       -> IF e.position = {Full} THEN <<>> ELSE <<<<"FullUp", 0>>>>
    [] r[1] = "close"      -> IF e.position = {0} THEN <<>> ELSE <<<<"FullDown", 0>>>>
    [] r[1] = "stop"       -> <<<<"stop", 0>>>>
    [] r[1] = "position"   -> <<<<"manualPosition", Inverted(r[2])>>>>
    [] r[1] = "tilt"       -> <<<<"manualLamelle", Inverted(r[2])>>>>
    [] r[1] = "automation" -> <<<<IF r[2] = 1 THEN "auto" ELSE "NoAuto", 0>>>>

CoverCommands(kind, e, r) ==
  CASE kind = "Gate"     -> GateCommands(e, r)
    [] kind = "Window"   -> WindowCommands(e, r)
    [] kind = "Jalousie" -> JalousieCommands(e, r)

\* The Miniserver: the movement a command starts has ended.
CoverExecutes(kind, a, c) ==
  LET stopped == [s \in DOMAIN a |-> IF s \in {"active", "direction", "up", "down"} THEN 0 ELSE a[s]]
      at(x)   == [stopped EXCEPT !["position"] = x]
  IN CASE c[1] \in {"open", "fullopen"}   -> at(Full)
       [] c[1] \in {"close", "fullclose"} -> at(0)
       [] c[1] = "FullUp"         -> at(0)
       [] c[1] = "FullDown"       -> at(Full)
       [] c[1] = "stop"           -> stopped
       [] c[1] \in {"manualPosition", "moveToPosition"} -> at(c[2])
       [] c[1] = "manualLamelle"  -> [stopped EXCEPT !["shadePosition"] = c[2]]
       [] c[1] = "auto"           -> [a EXCEPT !["autoActive"] = 1]
       [] c[1] = "NoAuto"         -> [a EXCEPT !["autoActive"] = 0]

\* is_opening and is_closing: of a blind, the two outputs as they are.
IsMoving(e) == e.direction # 0 \/ e.up = 1 \/ e.down = 1

CoverShows(e, r) ==
  CASE r[1] = "open"       -> e.position = {Full} /\ ~e.closed
    [] r[1] = "close"      -> e.position = {0} /\ e.closed
    [] r[1] = "stop"       -> ~IsMoving(e)
    [] r[1] = "position"   -> e.position = {r[2]} /\ e.closed = (r[2] = 0)
    [] r[1] = "tilt"       -> e.tilt = {r[2]}
    [] r[1] = "automation" -> e.auto = r[2]
=============================================================================
