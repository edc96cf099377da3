---------------------------- MODULE ConfigEntry ----------------------------
(***************************************************************************)
(* The life of the config entries of the integration (__init__.py,         *)
(* coordinator.py, config_flow.py): migration, setup with its bounded      *)
(* retry of 401 answers, the session task and its three exits, reloads,    *)
(* unloading, and the reauth and user flows.                               *)
(*                                                                         *)
(* Home Assistant is the scheduler: it holds one lock per entry, so setup, *)
(* unload and reload of one entry never overlap, while two entries         *)
(* interleave at every await.  The session is seen from the outside: it    *)
(* connects, drops, is rejected or crashes (SessionSupervisor has the      *)
(* inside).  What users and Miniservers do is counted against a budget.    *)
(***************************************************************************)
EXTENDS Naturals, FiniteSets

CONSTANTS Entries,      \* the entry ids
          Legacy,       \* the entries that were created by an older version
          Renewing,     \* the entries whose Miniserver hands out new tokens
          Uuids,        \* the uuids of the structure files
          Known,        \* coordinator.known_uuids of each entry
          MaxAttempts,  \* AUTH_RETRY_MAX_ATTEMPTS
          Window,       \* AUTH_RETRY_MIN_ELAPSED_SECONDS, in ticks
          Events        \* what may happen from the outside: a bound of the model

ASSUME ConfigEntryAssumption ==
  /\ Legacy \subseteq Entries /\ Renewing \subseteq Entries
  /\ Known \in [Entries -> SUBSET Uuids]
  /\ \A e, f \in Entries : e # f => Known[e] \cap Known[f] = {}
  /\ MaxAttempts \in Nat \ {0} /\ Window \in Nat /\ Events \in Nat

VARIABLES
  ha,        \* the state of the entry in Home Assistant
  stored,    \* its version and the keys of its options and data
  conf,      \* the part of it that a user edits: credentials and options
  token,     \* the stored token
  handles,   \* the LoxoneConnections of the entry that are not closed
  orphans,   \* those of them that an unload gave up
  session,   \* run_loxone_session()
  connected, \* coordinator.connected
  using,     \* the configuration the coordinator and the platforms were built from
  snapshot,  \* coordinator.entry_config_snapshot
  tracker,   \* the 401 bookkeeping in hass.data
  authIssue, \* the auth_failed repair issue
  reauth,    \* a reauth flow waits for the user
  flow,      \* the credentials a form is testing
  reload,    \* async_schedule_reload() has been called
  services,  \* the domain services are registered
  outbox,    \* commands of users that are being sent
  server,    \* the Miniserver: "up", "booting" (401 to all) or "down"
  secret,    \* the credentials it accepts
  events     \* outside events left

coordVars == <<handles, orphans, session, connected, using, snapshot>>
authVars  == <<tracker, authIssue, reauth>>
entryVars == <<ha, stored, conf, token>>
worldVars == <<server, secret, events>>
vars == <<entryVars, coordVars, authVars, flow, reload, services, outbox, worldVars>>

Creds == {"old", "new"}
Confs == [creds : Creds, options : BOOLEAN]
NoFlow == "none"

\* setup(): async_forward_entry_setups() is awaited in state "platforms", with
\* the update listener registered and the session not yet started.
Resting   == {"absent", "not_loaded", "retry", "auth_error", "removed"}
Unloading == {"reloading", "removing"}
Working   == {"loaded", "failed_unload"} \cup Unloading
States    == Resting \cup Working \cup {"setup", "platforms"}

(***************************************************************************)
(* Stored entries and their migration.                                     *)
(***************************************************************************)
ConnectionKeys == {"host", "port", "username", "password", "verify_ssl"}
Preferences == {"generate_groups", "generate_scenes", "generate_scenes_delay",
                "generate_lightcontroller_subcontrols", "alarm_code_format"}
Keys == ConnectionKeys \cup Preferences

\* What version v (below 5) had written: everything in the options.
Written(v) ==
  [version |-> v,
   data    |-> {},
   options |-> (ConnectionKeys \ {"verify_ssl"}) \cup {"generate_scenes"}
     \cup (IF v >= 2 THEN {"generate_lightcontroller_subcontrols"} ELSE {})
     \cup (IF v >= 3 THEN {"generate_scenes_delay"} ELSE {})
     \cup (IF v >= 4 THEN {"verify_ssl"} ELSE {})]

\* Mutation: the connection keys are copied to the data, not moved.
MigratedByCopy(s) ==
  [version |-> 5, data |-> s.data \cup ConnectionKeys,
   options |-> s.options \cup {"generate_scenes_delay", "verify_ssl"}]

\* async_migrate_entry(): the four steps in one update of the entry.
Migrated(s) ==
  LET upTo2 == IF s.version = 1 THEN {"generate_lightcontroller_subcontrols"} ELSE {}
      upTo3 == IF s.version <= 2 THEN {"generate_scenes_delay"} ELSE {}
      upTo4 == IF s.version <= 3 THEN {"verify_ssl"} ELSE {}
      options == s.options \cup upTo2 \cup upTo3 \cup upTo4
  IN  IF s.version > 4 THEN s
      ELSE [version |-> 5, data |-> s.data \cup ConnectionKeys,
            options |-> options \ ConnectionKeys]

\* Mutation: the token keys are part of the snapshot.
SnapshotWithToken(c, t) == <<c.creds, c.options, t>>
\* Mutation: only the credentials are.
SnapshotOfCredentials(c, t) == <<c.creds, FALSE>>

\* _entry_config_snapshot(): the options, and the data without the token keys.
Snapshot(c, t) == <<c.creds, c.options>>
NoSnapshot == <<>>

\* _entry_updated(): every update of an entry with a listener comes here.
Listening(e) == ha[e] \in Working \cup {"platforms"}
EntryUpdated(e, c, t) ==
  /\ conf' = [conf EXCEPT ![e] = c] /\ token' = [token EXCEPT ![e] = t]
  /\ IF Listening(e) /\ Snapshot(c, t) # snapshot[e]
     THEN /\ snapshot' = [snapshot EXCEPT ![e] = Snapshot(c, t)]
          /\ reload' = [reload EXCEPT ![e] = TRUE]
     ELSE UNCHANGED <<snapshot, reload>>

Init ==
  /\ ha = [e \in Entries |-> IF e \in Legacy THEN "not_loaded" ELSE "absent"]
  /\ \E v \in 1..4 : stored = [e \in Entries |-> Written(IF e \in Legacy THEN v ELSE 4)]
  /\ conf = [e \in Entries |-> [creds |-> "old", options |-> FALSE]]
  /\ token = [e \in Entries |-> 0]
  /\ handles = [e \in Entries |-> 0] /\ orphans = handles /\ session = [e \in Entries |-> "none"]
  /\ using = conf /\ connected = [e \in Entries |-> FALSE] /\ snapshot = [e \in Entries |-> NoSnapshot]
  /\ tracker = [e \in Entries |-> [count |-> 0, age |-> 0]]
  /\ authIssue = [e \in Entries |-> FALSE] /\ reauth = [e \in Entries |-> FALSE]
  /\ flow = [e \in Entries |-> NoFlow] /\ reload = [e \in Entries |-> FALSE]
  /\ services = TRUE /\ outbox = {}
  /\ server = [e \in Entries |-> "up"] /\ secret = [e \in Entries |-> "old"]
  /\ events = Events

(***************************************************************************)
(* Setup.                                                                  *)
(***************************************************************************)
Migrate(e) ==
  /\ ha[e] = "not_loaded" /\ stored[e].version < 5
  /\ stored' = [stored EXCEPT ![e] = Migrated(stored[e])]
  /\ UNCHANGED <<ha, conf, token, coordVars, authVars, flow, reload, services, outbox, worldVars>>

\* async_setup_entry() up to the bootstrap of the new connection; a retry is
\* due when Home Assistant's timer says so, which a scheduled reload cancels.
BeginSetup(e) ==
  /\ ha[e] = "not_loaded" \/ (ha[e] = "retry" /\ ~reload[e])
  /\ stored[e].version = 5
  /\ ha' = [ha EXCEPT ![e] = "setup"]
  /\ handles' = [handles EXCEPT ![e] = @ + 1]
  /\ connected' = [connected EXCEPT ![e] = FALSE]
  /\ using' = [using EXCEPT ![e].creds = conf[e].creds]
  /\ snapshot' = [snapshot EXCEPT ![e] = NoSnapshot]
  /\ UNCHANGED <<orphans, stored, conf, token, session, authVars, flow, reload, services, outbox, worldVars>>

\* What a bootstrap with credentials c may end with.  A booting Miniserver may
\* also answer the last request with a 401, which open() wraps in an error of
\* another kind.
Outcomes(e, c) ==
  CASE server[e] = "down"    -> {"unavailable"}
    [] server[e] = "booting" -> {"unauthorised", "unavailable"}
    [] server[e] = "up"      -> {IF c = secret[e] THEN "ok" ELSE "unauthorised"}

\* Mutation: the bookkeeping lives on the coordinator, which is new in every setup.
RecordedOnCoordinator(t) == [count |-> 1, age |-> 0]

\* _record_auth_failure(); both fields saturate where they are compared.
Recorded(t) ==
  [t EXCEPT !.count = IF @ < MaxAttempts THEN @ + 1 ELSE @]

\* _clear_auth_failure().
Cleared == [count |-> 0, age |-> 0]

\* _should_escalate_auth_failure().
Escalates(t) == t.count >= MaxAttempts /\ t.age >= Window

\* Mutation: the connection of a failed setup stays open.
KeepFailedSetup(e) == handles' = handles

\* The finally branch: the handle of a failed setup is closed.
CloseFailedSetup(e) == handles' = [handles EXCEPT ![e] = @ - 1]

SetupUnavailable(e) ==
  /\ ha[e] = "setup" /\ "unavailable" \in Outcomes(e, using[e].creds)
  /\ ha' = [ha EXCEPT ![e] = "retry"]
  /\ CloseFailedSetup(e)
  /\ UNCHANGED <<orphans, stored, conf, token, session, connected, using, snapshot, authVars, flow,
                 reload, services, outbox, worldVars>>

SetupUnauthorised(e) ==
  /\ ha[e] = "setup" /\ "unauthorised" \in Outcomes(e, using[e].creds)
  /\ tracker' = [tracker EXCEPT ![e] = Recorded(@)]
  /\ LET escalates == Escalates(Recorded(tracker[e]))
     IN  /\ ha' = [ha EXCEPT ![e] = IF escalates THEN "auth_error" ELSE "retry"]
         /\ authIssue' = [authIssue EXCEPT ![e] = @ \/ escalates]
         /\ reauth' = [reauth EXCEPT ![e] = @ \/ escalates]
  /\ CloseFailedSetup(e)
  /\ UNCHANGED <<orphans, stored, conf, token, session, connected, using, snapshot, flow, reload,
                 services, outbox, worldVars>>

\* Mutation: the issue outlives the reauth.
KeepIssue(e) == authIssue' = authIssue

\* _async_clear_auth_failure_issue()
ClearIssue(e) == authIssue' = [authIssue EXCEPT ![e] = FALSE]

\* The bootstrap succeeded: the bookkeeping of failures is dropped, then the
\* baseline is taken and the update listener registered.
SetupSucceeds(e) ==
  /\ ha[e] = "setup" /\ "ok" \in Outcomes(e, using[e].creds)
  /\ ha' = [ha EXCEPT ![e] = "platforms"]
  /\ tracker' = [tracker EXCEPT ![e] = Cleared]
  /\ ClearIssue(e)
  /\ using' = [using EXCEPT ![e].options = conf[e].options]
  /\ snapshot' = [snapshot EXCEPT ![e] = Snapshot(conf[e], token[e])]
  /\ UNCHANGED <<stored, conf, token, handles, orphans, session, connected, reauth, flow,
                 reload, services, outbox, worldVars>>

\* The platforms are set up: the session task starts.
PlatformsReady(e) ==
  /\ ha[e] = "platforms"
  /\ ha' = [ha EXCEPT ![e] = "loaded"]
  /\ session' = [session EXCEPT ![e] = "live"]
  /\ UNCHANGED <<stored, conf, token, handles, orphans, connected, using, snapshot, authVars, flow,
                 reload, services, outbox, worldVars>>

(***************************************************************************)
(* The session task.                                                       *)
(***************************************************************************)
\* Mutation: a lost session is not reported.
SetConnectedOnly(e, up) == connected' = [connected EXCEPT ![e] = @ \/ up]

\* set_connected_state()
SetConnected(e, up) == connected' = [connected EXCEPT ![e] = up]

\* A login succeeds; the Miniserver may hand out a new token, which
\* _on_token_changed() stores at once.
Login(e) ==
  /\ session[e] = "live" /\ ~connected[e]
  /\ server[e] = "up" /\ using[e].creds = secret[e]
  /\ SetConnected(e, TRUE)
  /\ \E t \in {token[e]} \cup (IF e \in Renewing THEN {1 - token[e]} ELSE {}) :
       EntryUpdated(e, conf[e], t)
  /\ UNCHANGED <<using, ha, stored, handles, orphans, session, authVars, flow, services, outbox, worldVars>>

\* The websocket dies; run() reconnects in place.
Drop(e) ==
  /\ session[e] = "live" /\ connected[e] /\ events > 0
  /\ SetConnected(e, FALSE)
  /\ server' = [server EXCEPT ![e] = "down"] /\ events' = events - 1
  /\ UNCHANGED <<entryVars, handles, orphans, session, using, snapshot, authVars, flow, reload,
                 services, outbox, secret>>

\* run() raises LoxoneUnauthorisedError at a reconnect.
Rejected(e) ==
  /\ session[e] = "live" /\ ~connected[e]
  /\ "unauthorised" \in Outcomes(e, using[e].creds)
  /\ SetConnected(e, FALSE)
  /\ authIssue' = [authIssue EXCEPT ![e] = TRUE]
  /\ reauth' = [reauth EXCEPT ![e] = TRUE]
  /\ session' = [session EXCEPT ![e] = "ended"]
  /\ UNCHANGED <<entryVars, handles, orphans, using, snapshot, tracker, flow, reload, services, outbox, worldVars>>

\* run() raises anything else: thirty seconds later the entry is reloaded.
Crashes(e) ==
  /\ session[e] = "live" /\ events > 0
  /\ SetConnected(e, FALSE)
  /\ session' = [session EXCEPT ![e] = "crashed"]
  /\ events' = events - 1
  /\ UNCHANGED <<entryVars, handles, orphans, using, snapshot, authVars, flow, reload, services, outbox,
                 server, secret>>

\* Mutation: the crash is logged and nothing else.
ForgottenCrash(e) ==
  /\ session[e] = "crashed"
  /\ session' = [session EXCEPT ![e] = "ended"]
  /\ UNCHANGED <<entryVars, handles, orphans, connected, using, snapshot, authVars, flow, reload, services, outbox, worldVars>>

ReloadAfterCrash(e) ==
  /\ session[e] = "crashed"
  /\ session' = [session EXCEPT ![e] = "ended"]
  /\ reload' = [reload EXCEPT ![e] = TRUE]
  /\ UNCHANGED <<entryVars, handles, orphans, connected, using, snapshot, authVars, flow, services, outbox, worldVars>>

(***************************************************************************)
(* Reload, unload, removal.                                                *)
(***************************************************************************)
\* async_reload() of an entry that is not loaded: setup is due at once.  An
\* entry whose unload failed needs a restart of Home Assistant.
ReloadUnloaded(e) ==
  /\ reload[e] /\ ha[e] \in Resting \cup {"failed_unload"}
  /\ reload' = [reload EXCEPT ![e] = FALSE]
  /\ ha' = [ha EXCEPT ![e] = IF @ \in {"retry", "auth_error"} THEN "not_loaded" ELSE @]
  /\ UNCHANGED <<stored, conf, token, coordVars, authVars, flow, services, outbox, worldVars>>

\* async_unload_entry() up to the platforms.  When they cannot be unloaded the
\* entry keeps everything.
UnloadPlatforms(e) ==
  /\ ha[e] = "loaded"
  /\ \/ /\ reload[e]
        /\ ha' = [ha EXCEPT ![e] = "reloading"]
        /\ UNCHANGED <<reload, events>>
     \/ /\ reload[e] /\ events > 0
        /\ ha' = [ha EXCEPT ![e] = "failed_unload"]
        /\ reload' = [reload EXCEPT ![e] = FALSE] /\ events' = events - 1
     \/ /\ events > 0
        /\ ha' = [ha EXCEPT ![e] = "removing"]
        /\ events' = events - 1 /\ UNCHANGED reload
  /\ UNCHANGED <<stored, conf, token, coordVars, authVars, flow, services, outbox, server, secret>>

\* Then the session task is cancelled and awaited, whatever it is doing.  A run()
\* that is inside its recovery close leaves the latch of close() set behind it,
\* and the connection as it was ("abandoned", see SessionSupervisor!Abandons).
StopSession(e) ==
  /\ ha[e] \in Unloading /\ session[e] \in {"live", "crashed", "ended"}
  /\ \E left \in {"none"} \cup (IF session[e] = "live" THEN {"abandoned"} ELSE {}) :
       session' = [session EXCEPT ![e] = left]
  /\ UNCHANGED <<entryVars, handles, orphans, connected, using, snapshot, authVars, flow,
                 reload, services, outbox, worldVars>>

\* async_cleanup() closes the connection, unless the latch is set: close() then
\* returns at once and the coordinator lets the connection go.
CleansUp(e) ==
  IF session[e] = "abandoned"
    THEN orphans' = [orphans EXCEPT ![e] = @ + 1] /\ UNCHANGED handles
    ELSE handles' = [handles EXCEPT ![e] = @ - 1] /\ UNCHANGED orphans

\* The rest: the bookkeeping goes, the domain services with the last entry, the
\* coordinator, and Home Assistant cancels the tasks of the entry.
LastLoaded(e) == \A f \in Entries \ {e} : ha[f] # "loaded"
FinishUnload(e) ==
  /\ ha[e] \in Unloading /\ session[e] \in {"none", "abandoned"}
  /\ CleansUp(e)
  /\ session' = [session EXCEPT ![e] = "none"]
  /\ connected' = [connected EXCEPT ![e] = FALSE]
  /\ tracker' = [tracker EXCEPT ![e] = Cleared]
  /\ services' = (services /\ ~LastLoaded(e))
  /\ outbox' = {c \in outbox : c[1] # e}
  /\ ha' = [ha EXCEPT ![e] = IF @ = "removing" THEN "removed" ELSE "not_loaded"]
  /\ reload' = [reload EXCEPT ![e] = FALSE]
  /\ reauth' = [reauth EXCEPT ![e] = @ /\ ha[e] = "reloading"]
  /\ snapshot' = [snapshot EXCEPT ![e] = NoSnapshot]
  /\ UNCHANGED <<using, stored, conf, token, authIssue, flow, worldVars>>

\* An entry that is not loaded is removed without async_unload_entry().
RemoveUnloaded(e) ==
  /\ ha[e] \in {"retry", "auth_error"} /\ events > 0
  /\ ha' = [ha EXCEPT ![e] = "removed"]
  /\ reload' = [reload EXCEPT ![e] = FALSE] /\ reauth' = [reauth EXCEPT ![e] = FALSE]
  /\ events' = events - 1
  /\ UNCHANGED <<stored, conf, token, coordVars, tracker, authIssue, flow, services,
                 outbox, server, secret>>

(***************************************************************************)
(* The forms.                                                              *)
(***************************************************************************)
\* The user or reauth form is submitted: test_loxone_connection() bootstraps a
\* connection of its own.
SubmitForm(e) ==
  /\ flow[e] = NoFlow /\ (ha[e] = "absent" \/ reauth[e])
  /\ \E c \in Creds : flow' = [flow EXCEPT ![e] = c]
  /\ handles' = [handles EXCEPT ![e] = @ + 1]
  /\ UNCHANGED <<orphans, entryVars, session, connected, using, snapshot, authVars, reload, services, outbox, worldVars>>

\* The connection of the test is closed whatever it ended with.
CloseTest(e) == handles' = [handles EXCEPT ![e] = @ - 1] /\ flow' = [flow EXCEPT ![e] = NoFlow]

FormRefused(e) ==
  /\ flow[e] # NoFlow /\ (Outcomes(e, flow[e]) # {"ok"} \/ ha[e] = "removed")
  /\ CloseTest(e)
  /\ UNCHANGED <<orphans, entryVars, session, connected, using, snapshot, authVars, reload, services, outbox, worldVars>>

\* async_step_user(): the entry is created and set up.
FormCreates(e) ==
  /\ flow[e] # NoFlow /\ Outcomes(e, flow[e]) = {"ok"} /\ ha[e] = "absent"
  /\ CloseTest(e)
  /\ ha' = [ha EXCEPT ![e] = "not_loaded"]
  /\ stored' = [stored EXCEPT ![e] = [version |-> 5, data |-> ConnectionKeys, options |-> Preferences]]
  /\ conf' = [conf EXCEPT ![e].creds = flow[e]]
  /\ UNCHANGED <<orphans, token, session, connected, using, snapshot, authVars, reload, services, outbox, worldVars>>

\* async_step_reauth_confirm(): verified credentials update and reload the entry.
FormReauthenticates(e) ==
  /\ flow[e] # NoFlow /\ Outcomes(e, flow[e]) = {"ok"} /\ ha[e] \notin {"absent", "removed"}
  /\ CloseTest(e)
  /\ conf' = [conf EXCEPT ![e].creds = flow[e]]
  /\ snapshot' = [snapshot EXCEPT ![e] =
       IF Listening(e) THEN Snapshot([conf[e] EXCEPT !.creds = flow[e]], token[e]) ELSE @]
  /\ reload' = [reload EXCEPT ![e] = TRUE]
  /\ reauth' = [reauth EXCEPT ![e] = FALSE]
  /\ UNCHANGED <<orphans, using, ha, stored, token, session, connected, tracker, authIssue, services, outbox, worldVars>>

\* The options form saves preferences only.
SaveOptions(e) ==
  /\ ha[e] \notin {"absent", "removed"} /\ stored[e].version = 5 /\ events > 0
  /\ stored' = [stored EXCEPT ![e].options = @ \cup Preferences]
  /\ EntryUpdated(e, [conf[e] EXCEPT !.options = ~@], token[e])
  /\ events' = events - 1
  /\ UNCHANGED <<using, ha, handles, orphans, session, connected, authVars, flow, services, outbox, server, secret>>

(***************************************************************************)
(* Commands of users.                                                      *)
(***************************************************************************)
\* Mutation: every loaded entry sends every command.
SendsAnything(e, u) == ha[e] \in Working

\* loxone_send(): a bus event reaches the listener of every loaded entry.
SendsOnBus(e, u) == ha[e] \in Working /\ u \in Known[e]
BusCommand(u) ==
  /\ outbox = {} /\ events > 0
  /\ outbox' = {c \in Entries \X {u} : SendsOnBus(c[1], u)}
  /\ events' = events - 1
  /\ UNCHANGED <<entryVars, coordVars, authVars, flow, reload, services, server, secret>>

\* _resolve_outbound_target(): a service call goes to the entry with the uuid.
ServiceCommand(u) ==
  /\ services /\ outbox = {} /\ events > 0
  /\ \E e \in Entries :
       /\ Listening(e) /\ u \in Known[e]
       /\ outbox' = {<<e, u>>}
  /\ events' = events - 1
  /\ UNCHANGED <<entryVars, coordVars, authVars, flow, reload, services, server, secret>>

CommandSent ==
  /\ outbox # {}
  /\ \E c \in outbox : outbox' = outbox \ {c}
  /\ UNCHANGED <<entryVars, coordVars, authVars, flow, reload, services, worldVars>>

(***************************************************************************)
(* The world.                                                              *)
(***************************************************************************)
Tick ==
  /\ \E e \in Entries : tracker[e].count > 0 /\ tracker[e].age < Window
  /\ tracker' = [e \in Entries |->
       IF tracker[e].count > 0 /\ tracker[e].age < Window
       THEN [tracker[e] EXCEPT !.age = @ + 1] ELSE tracker[e]]
  /\ UNCHANGED <<entryVars, coordVars, authIssue, reauth, flow, reload, services, outbox, worldVars>>

\* A Miniserver that is not in a session goes down; a reboot always passes
\* through the state in which it answers 401.
GoesDown(e) ==
  /\ server[e] = "up" /\ ~connected[e] /\ events > 0
  /\ server' = [server EXCEPT ![e] = "down"] /\ events' = events - 1
  /\ UNCHANGED <<entryVars, coordVars, authVars, flow, reload, services, outbox, secret>>

Boots(e) ==
  /\ server[e] # "up"
  /\ server' = [server EXCEPT ![e] = IF @ = "down" THEN "booting" ELSE "up"]
  /\ UNCHANGED <<entryVars, coordVars, authVars, flow, reload, services, outbox, secret, events>>

PasswordChanged(e) ==
  /\ events > 0 /\ secret[e] = "old"
  /\ secret' = [secret EXCEPT ![e] = "new"] /\ events' = events - 1
  /\ UNCHANGED <<entryVars, coordVars, authVars, flow, reload, services, outbox, server>>

SetupStep(e) == Migrate(e) \/ BeginSetup(e) \/ SetupUnavailable(e) \/ SetupUnauthorised(e)
                \/ SetupSucceeds(e) \/ PlatformsReady(e)
SessionStep(e) == Login(e) \/ Rejected(e) \/ ReloadAfterCrash(e)
UnloadStep(e) == ReloadUnloaded(e) \/ UnloadPlatforms(e) \/ StopSession(e) \/ FinishUnload(e)
FormStep(e) == FormRefused(e) \/ FormCreates(e) \/ FormReauthenticates(e)

Next ==
  \/ \E e \in Entries :
       \/ SetupStep(e) \/ SessionStep(e) \/ UnloadStep(e) \/ RemoveUnloaded(e)
       \/ SubmitForm(e) \/ FormStep(e) \/ SaveOptions(e)
       \/ Drop(e) \/ Crashes(e) \/ GoesDown(e) \/ Boots(e) \/ PasswordChanged(e)
  \/ \E u \in Uuids : BusCommand(u) \/ ServiceCommand(u)
  \/ CommandSent \/ Tick

\* Home Assistant's retry timer and tasks, the session and the forms run on;
\* users and Miniservers owe nothing, except that time passes.
Fairness ==
  /\ WF_vars(Tick)
  /\ \A e \in Entries : WF_vars(SetupStep(e)) /\ WF_vars(SessionStep(e))
                        /\ WF_vars(UnloadStep(e)) /\ WF_vars(FormStep(e))

Spec == Init /\ [][Next]_vars /\ Fairness

(***************************************************************************)
(* Properties.                                                             *)
(***************************************************************************)
StoredEntry == [version : 1..5, options : SUBSET Keys, data : SUBSET Keys]
TypeOK ==
  /\ ha \in [Entries -> States] /\ stored \in [Entries -> StoredEntry]
  /\ conf \in [Entries -> Confs] /\ token \in [Entries -> {0, 1}]
  /\ handles \in [Entries -> Nat] /\ orphans \in [Entries -> Nat]
  /\ session \in [Entries -> {"none", "live", "crashed", "ended", "abandoned"}]
  /\ connected \in [Entries -> BOOLEAN] /\ using \in [Entries -> Confs]
  /\ snapshot \in [Entries -> {NoSnapshot} \cup (Creds \X BOOLEAN)]
  /\ tracker \in [Entries -> [count : 0..MaxAttempts, age : 0..Window]]
  /\ authIssue \in [Entries -> BOOLEAN] /\ reauth \in [Entries -> BOOLEAN]
  /\ flow \in [Entries -> Creds \cup {NoFlow}] /\ reload \in [Entries -> BOOLEAN]
  /\ services \in BOOLEAN /\ outbox \subseteq Entries \X Uuids
  /\ server \in [Entries -> {"up", "booting", "down"}] /\ secret \in [Entries -> Creds]
  /\ events \in 0..Events

\* No connection is left open but the ones an unload gives up because it meets the
\* latch of a recovery close (unload_leak): outside of a setup and of a loaded entry
\* there is only that of a form under test, and there are never two of either
\* (the finally of async_setup_entry, async_cleanup, test_loxone_connection).
Holds(b) == IF b THEN 1 ELSE 0
NoLeakedConnection ==
  \A e \in Entries :
    handles[e] = Holds(ha[e] \notin Resting) + Holds(flow[e] # NoFlow) + orphans[e]

\* The session task runs only while its entry is loaded or being unloaded, and
\* entities are available only while it runs: both error exits report the loss, and
\* the one exit that does not, a cancellation, comes when the platforms are gone.
AvailableOnlyInSession ==
  \A e \in Entries : /\ session[e] # "none" => ha[e] \in Working
                     /\ connected[e] => session[e] = "live" \/ ha[e] \in Unloading

\* A loaded entry whose session has ended does not stay dead in silence: a
\* reauth flow waits for the user, or a reload is on its way.
DeadSessionIsHandled ==
  \A e \in Entries : ha[e] = "loaded" /\ session[e] # "live"
                       => session[e] = "crashed" \/ reauth[e] \/ reload[e]

\* The repair issue is shown from the rejection until the next successful setup:
\* a session that runs has none.
IssueMeansRejected ==
  \A e \in Entries : authIssue[e] => session[e] \notin {"live", "crashed"}

\* A loaded entry without a reload on its way runs with what is stored: no
\* change made by a form, at whatever point of the setup, is missed.
ConfigurationInUse ==
  \A e \in Entries : ha[e] = "loaded" /\ ~reload[e] => using[e] = conf[e]

\* Once migrated, the credentials are in the data and nowhere in the options,
\* where the options form would show them, and no option is lost.
CredentialsInDataOnly ==
  \A e \in Entries : stored[e].version = 5
    => /\ ConnectionKeys \subseteq stored[e].data
       /\ stored[e].options \cap ConnectionKeys = {}
       /\ "generate_scenes" \in stored[e].options

\* A command of a user is under way to the Miniserver that knows its uuid, once,
\* and never past the unload of its entry.
CommandReachesOwner ==
  \A c \in outbox : c[2] \in Known[c[1]] /\ ha[c[1]] \notin Resting
                    /\ \A d \in outbox : d[2] = c[2] => d = c

\* With the Miniserver up, an entry ends up connected or asks the user for
\* credentials: wrong ones are not retried in silence for ever, and a 401 of a
\* booting Miniserver does not end the retries.
Settles ==
  \A e \in Entries : <>[](server[e] = "up")
    => <>[](connected[e] \/ reauth[e] \/ ha[e] \in {"absent", "removed", "failed_unload"})

\* Reloads come to an end: a reload leads to a login, a login to a new token,
\* a token to an update of the entry, and that must not reload it again.
NoReloadLoop == \A e \in Entries : <>[](~reload[e])
=============================================================================
