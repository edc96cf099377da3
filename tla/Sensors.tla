------------------------------ MODULE Sensors -------------------------------
(***************************************************************************)
(* The sensors that do more than show a value: the NFC reader (sensor.py)  *)
(* and the doorbell (event.py), which fire an event for an access or a     *)
(* ring; the contact of a window monitor (window_monitor.py), one field of *)
(* a shared list; the climate controller (sensor.py), which tells every    *)
(* room its demand; and the message center, which fetches its entries when *)
(* a counter moved and keeps an issue for each of them.                    *)
(***************************************************************************)
EXTENDS Integers, FiniteSets

CONSTANTS Rooms,     \* the rooms of the climate controller
          Entries    \* the entries the message center may have

EventKinds == {"Nfc", "Doorbell"}
SensorKinds == EventKinds \cup {"Contact", "ClimateController", "MessageCenter"}

\* A contact's field of the list, as the set of its bits: none is offline.  The list
\* may end before the field.
Missing == {"missing"}
Fields == {Missing, {}, {"closed"}, {"tilted"}, {"open"}, {"closed", "locked"}, {"unlocked"}}

\* The streams the Miniserver repeats to a new session.  The answer to
\* getEntries is not one of them.
SensorStreams(kind) ==
  CASE kind = "Nfc"               -> {"lastuser", "historyDate"}
    [] kind = "Doorbell"          -> {"bell"}
    [] kind = "Contact"           -> {"windowStates"}
    [] kind = "ClimateController" -> {"controls"}
    [] kind = "MessageCenter"     -> {"changed"}

SensorInitially(kind) ==
  CASE kind = "Nfc"               -> [lastuser |-> 1, historyDate |-> 1]
    [] kind = "Doorbell"          -> [bell |-> 0, rings |-> 0]
    [] kind = "Contact"           -> [windowStates |-> {"closed"}]
    [] kind = "ClimateController" -> [controls |-> [r \in Rooms |-> 0]]
    [] kind = "MessageCenter"     -> [changed |-> 1, answer |-> {}]

\* Somebody holds a tag to the reader, presses the bell or lets go of it; a window
\* is moved, locked, or lost; a room's demand changes; entries come and go, and the
\* counter moves.
SensorChanges(kind, a) ==
  CASE kind = "Nfc" -> {[a EXCEPT !["lastuser"] = u, !["historyDate"] = @ + 1] : u \in {1, 2}}
    [] kind = "Doorbell" -> {[bell |-> 1 - a["bell"], rings |-> a["rings"] + 1 - a["bell"]]}
    [] kind = "Contact" -> {[windowStates |-> v] : v \in Fields}
    [] kind = "ClimateController" -> {[a EXCEPT !["controls"] = [@ EXCEPT ![r] = d]] : r \in Rooms, d \in {-1, 0, 1}}
    [] kind = "MessageCenter" -> {[a EXCEPT !["changed"] = @ + 1, !["answer"] = S] : S \in SUBSET Entries}

SensorFresh(kind) ==
  CASE kind = "Nfc" -> [user |-> {}, date |-> {}, baseline |-> FALSE, fires |-> FALSE]
    [] kind = "Doorbell" -> [ringing |-> {}, fires |-> FALSE]
    [] kind = "Contact" -> [seen |-> FALSE, present |-> TRUE, value |-> {}]
    [] kind = "ClimateController" -> [heat |-> 0, cool |-> 0, demand |-> [r \in Rooms |-> {}]]
    [] kind = "MessageCenter" -> [changed |-> {}, count |-> 0, issues |-> {}, fetch |-> FALSE]

\* The first new date after a start or a lost connection is the base line; a date
\* that is not new is nothing.
NfcOn(e, s, v) ==
  IF s = "lastuser"     THEN [e EXCEPT !.user = {v}, !.fires = FALSE]
  ELSE IF e.date = {v}  THEN [e EXCEPT !.fires = FALSE]
  ELSE                       [e EXCEPT !.date = {v}, !.baseline = TRUE, !.fires = e.baseline]

\* Mutation: the base line of the first start is kept.
NfcKeepsBaseline(e) == [e EXCEPT !.fires = FALSE]

\* _on_connection_state(): a reconnect repeats the last access.
NfcDisconnected(e) == [e EXCEPT !.baseline = FALSE, !.fires = FALSE]

\* The first value of a session is the base line; a ring is a rise after it.
DoorbellOn(e, v) == [ringing |-> {v}, fires |-> v = 1 /\ e.ringing = {0}]

SensorDisconnected(kind, e) ==
  CASE kind = "Nfc" -> NfcDisconnected(e) [] kind = "Doorbell" -> SensorFresh(kind) [] OTHER -> e

\* The access or the ring a sensor fires for.
SensorEvent(kind, a) == IF kind = "Nfc" THEN a["historyDate"] ELSE a["rings"]

ContactOn(v) == [seen |-> TRUE, present |-> v # Missing, value |-> v \ Missing]

\* available, window_position() and window_unlocked(): offline is unavailable, and a
\* window that is not closed is not locked.
ContactShows(e) ==
  [available |-> e.seen => e.present /\ e.value # {},
   position  |-> IF "open" \in e.value        THEN "open"
                 ELSE IF "tilted" \in e.value THEN "tilted"
                 ELSE IF e.value # {}         THEN "closed"
                 ELSE                              "unknown",
   unlocked  |-> IF "unlocked" \in e.value    THEN {TRUE}
                 ELSE IF "locked" \in e.value THEN {FALSE}
                 ELSE IF e.value \cap {"open", "tilted"} # {} THEN {TRUE} ELSE {}]

\* Mutation: rooms are counted on top of the last message's.
ControllerCountsOn(e, v) ==
  [heat   |-> e.heat + Cardinality({r \in Rooms : v[r] = 1}),
   cool   |-> e.cool + Cardinality({r \in Rooms : v[r] = -1}),
   demand |-> [r \in Rooms |-> {v[r]}]]

ControllerOn(e, v) ==
  [heat   |-> Cardinality({r \in Rooms : v[r] = 1}),
   cool   |-> Cardinality({r \in Rooms : v[r] = -1}),
   demand |-> [r \in Rooms |-> {v[r]}]]

\* _maybe_request_entries() for a counter that moved forward, _process_entries()
\* for an answer: an issue for every active entry, and no other one.
CenterOn(e, s, v) ==
  IF s = "changed"
    THEN IF \A c \in e.changed : v > c THEN [e EXCEPT !.changed = {v}, !.fetch = TRUE]
                                       ELSE [e EXCEPT !.fetch = FALSE]
    ELSE [e EXCEPT !.count = Cardinality(v), !.issues = v, !.fetch = FALSE]

SensorOn(kind, e, s, v) ==
  CASE kind = "Nfc"               -> NfcOn(e, s, v)
    [] kind = "Doorbell"          -> DoorbellOn(e, v)
    [] kind = "Contact"           -> ContactOn(v)
    [] kind = "ClimateController" -> ControllerOn(e, v)
    [] kind = "MessageCenter"     -> CenterOn(e, s, v)

\* What outlives a reload of the integration: the issues are persistent.
SensorReloaded(kind, e) ==
  IF kind = "MessageCenter" THEN [SensorFresh(kind) EXCEPT !.issues = e.issues] ELSE SensorFresh(kind)

\* What is shown, without what an entity only remembers.
SensorShows(kind, e) ==
  CASE kind = "Nfc" -> e.user
    [] kind = "Doorbell" -> {}
    [] kind = "Contact" -> ContactShows(e)
    [] kind = "ClimateController" -> e
    [] kind = "MessageCenter" -> [count |-> e.count, issues |-> e.issues]
=============================================================================
