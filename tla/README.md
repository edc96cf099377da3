# A TLA+ verification of PyLoxone

PyLoxone connects Home Assistant to Loxone Miniservers: one websocket per config
entry, over which a Miniserver reports the states of its controls and receives
commands. Three things in it are hard: the asyncio machinery of a connection (a
supervisor that redials, sessions of five concurrent tasks, a close that three
callers may start, a token that is presented, refused, refreshed and stored); the
life of the config entries, which Home Assistant sets up, retries, reloads and
removes at moments of its own choosing; and the entities, which put a picture of a
control together from states that arrive one by one, in any order, and lose some
with every connection. This directory models those parts in TLA+, checks the models
with TLC, and proves what matters most with TLAPS.

Paths below are relative to `custom_components/loxone`; `connection.py`,
`loxone_http_client.py`, `loxone_token.py` and `message.py` are in its
`pyloxone_api`. `PROJECT.json` maps each definition to the lines it models, and
lists the runs, hazards and theorems.

## 1. Inventory

### Components

| component | state it keeps | operations | modelled |
|---|---|---|---|
| session supervisor (`run()`, `start_listening()`, `close()`, `_close_and_reset()` in connection.py) | the session task, `connection`, `_closed`, `_shutdown_event`, `_reconnect_event`, `_websocket_deferred`, `_pending_task` | dial, supervise, recover, back off, close, be cancelled | yes: `SessionSupervisor` |
| command channel (`_message_queue`, `_process_message()`, `_secured_queue`) | the queue and its unfinished tasks, the secured commands that wait for a salt | `send_websocket_command()`, `send_secured_websocket_command()`, the writer, the `getvisusalt` replies, the drops at the start of a session, the drain of a close | yes: `CommandChannel` |
| authentication and token (`_websocket_event()`, `check_refresh_token()`, loxone_token.py) | `_token`, `_key`, `_authenticated_event`, `_key_update_event`, `_refresh_failures`; the token in the config entry | key exchange, login with token or password, refresh, reset, storing | yes: `Authentication` |
| config entry life cycle (`__init__.py`, coordinator.py) | the state of the entry, the counter of 401 answers, repair issue, reauth, snapshot, connection | set up, retry, escalate, reauthenticate, reload, unload, remove; stop is in the supervisor | yes: `ConfigEntry` |
| config flow and migration (config_flow.py, `async_migrate_entry()`) | a form, the connection it tests with, the version of the entry | user, reauth and options forms; four migrations | yes: `ConfigEntry` |
| domain services and registry clean-up (`__init__.py`) | the registration of the services | route a command to the entry that knows the uuid | partly: `ConfigEntry`; groups, areas, firmware issue and clean-up are not |
| HTTP bootstrap (`open()`, `_get_with_retry()`, loxone_http_client.py) | the request and its attempt | three bounded GETs, the mapping of status and transport errors | yes: `Bootstrap` |
| frame stream and keep-alive (`_do_start_listening()`, `keep_alive()`) | the pending header, the partial body, `_last_rx` | pair headers with bodies, notice silence | yes: `FrameStream` |
| message parsing (message.py) | none | decode headers and tables | partly: headers and dispatch in `FrameStream`; tables are abstracted |
| salt rotation and encryption | salt, use count, time stamp | rotate, announce, encrypt | yes: `SaltChain`; ciphers are library calls |
| coordinator and fan-out (coordinator.py) | `connected`, the callbacks of entities | `handle_message()`, `set_connected_state()`, cleanup, the token callback | partly: `Entities`, with the callbacks in `SessionSupervisor` and `Authentication`; the public bus event is not |
| entity base and helpers (`LoxoneEntity`, helpers.py) | the control's lock, availability | subscribe, handle a state, `_send()`, brightness and range conversions | partly: `Entities`, `Outputs` |
| cover platform (cover.py) | position, direction, tilt, automatic | gates, windows, blinds | partly: `Covers`; automatic text and quick shade are not |
| climate platform (climate.py) | modes, set points, override | three controllers | partly: `Climates`, with and without a single comfort temperature; fan and swing modes, `hvac_action` are not |
| lights (lights/) | moods and circuits, the master's brightness, position and range, colour | light controller, dimmer, two colour pickers | partly: `Lights`, `Outputs` |
| switches, fans, selects, numbers | the optimistic state | switch, timed switch, override, mute, ventilation, radio, value selector | partly: `Switches`, `Outputs` |
| alarm control panel | armed, disarmed move, both delays, level | arm, disarm | partly: `Switches`; codes are not |
| media player (media_player.py) | play state, volume, source, title | audio zone | partly: `Outputs`; artist, album and favourites are not |
| sensors and binary sensors | last access, list of window states, demands, entries | events, issues | partly: `Sensors`; those that show one value are not |
| buttons, texts, scenes, intercoms; discovery; command line; diagnostics | none | | no, see section 7 |

### Interactions

* `async_setup_entry()` creates a coordinator, whose `_async_setup()` creates a
  `LoxoneConnection` with the stored token and bootstraps it; `run_loxone_session()`
  then awaits `run()` in a background task of the entry. Its three exits (cancelled,
  unauthorised, anything else) end in nothing, a reauth flow or a reload.
* `run()` creates a session task per pass and waits for it and for
  `_authenticated_event`. The session creates listener, writer, keep-alive,
  refresh loop and reconnect task, and fails when the first of them does.
* The listener calls `_websocket_event()`, which queues the next request of a
  handshake, sets events that other tasks wait for, and hands states to
  `coordinator.handle_message()`, which hands each to the entities of that uuid.
* The connection calls back: `on_state` flips the entities' availability, the
  token callback writes the entry. Neither suspends. A write of the entry calls
  `_entry_updated()`, which compares a snapshot and may schedule a reload.
* Entities send commands by a bus event that every loaded entry hears, and that the
  one that knows the uuid puts on its command channel.
* The stop handler and `async_unload_entry()` close the connection from tasks of
  their own, while any of the above is suspended anywhere.

### What is hard here

Interleaving (a teardown that lands between two awaits of a recovery; a form that is
saved in the middle of a setup), flags that are read after an await and reset by
somebody else, messages that survive the session they belong to, replies paired with
requests by nothing but their order, late replies, lost sockets at every step,
bounded retries in three layers, restarts between a change of the token and its
storing, states of one control that arrive in any order, displays that run ahead of
the Miniserver, values that a new session repeats. Every such place is a hazard in
`PROJECT.json`, at its line, with the properties that watch over it.

### What makes each component correct

* Supervisor: one socket at a time and none between sessions; entities available
  exactly in logged-in sessions; rejected credentials final, every other end
  followed by a dial or a visible failure; a teardown always completes.
* Channel: each command at most once, in order; nothing stale, expired or cleared
  is ever sent; the count `join()` relies on is exact; the writer does not stop.
* Authentication: a visible login is a usable one; the entry never lags behind;
  a refused token is never presented again; logins heal; tokens are refreshed.
* Config entry: no connection outlives what opened it; a dead session is not silent;
  a form's change is not missed; credentials stay in the data; commands reach the
  Miniserver that knows them; entries settle and do not reload for ever.
* Wire: the listener resynchronises; silence is noticed, and only silence; salts
  form a chain; a rejected password is not presented again by a retry.
* Entities: what an entity shows is what it would show after a start of Home
  Assistant; what a service asked for is shown in the end; an event stands for an
  access that happened.

## 2. Modules and how they correspond to the code

| module | contents |
|---|---|
| `SessionSupervisor` | `run()`, the session task, `close()` and the owners that tear down |
| `AvailabilityContract` | what a reader of the coordinator may rely on: offline, dialling, online, ended |
| `CommandChannel` | the message queue, its writer, the secured queue and its salts, over many sessions |
| `CommandLedger` | what a caller may rely on: a command is pending, then sent once or gone |
| `Authentication` | handshake, refresh loop, token, stored token, restarts |
| `ConfigEntry`, `MCConfigEntry` | migration, setup, forms, reloads, removal and command routing of several entries; its instance |
| `Bootstrap`, `FrameStream`, `SaltChain` | three parts of a connection: HTTP requests, received frames, encrypted commands |
| `Wire` | their composition: one connection over many sessions |
| `Covers`, `Climates`, `Lights`, `Outputs`, `Switches`, `Sensors` | twenty-seven kinds of control: streams, event handlers, commands, what the Miniserver does with them |
| `Entities` | one control of any of these kinds and its entity: deliveries, services, lost connections, reloads |
| `SessionSupervisorProofs`, `CommandChannelProofs`, `AuthenticationProofs`, `ConfigEntryProofs`, `WireProofs`, `EntitiesProofs` | the theorems |
| `Displays` | the vocabulary of the entities' invariants: types, what an entity has seen, what a call comes to, the message center's issues |
| `DisplayFacts` | what each kind of control contributes to the invariant, and that two entities that have seen the same look the same, kind by kind |
| `QueueFacts` | lemmas about FIFO queues shared by the proofs |

An action is what one asyncio task executes between two suspension points, so the
interleavings of TLC are the interleavings of the event loop.

**SessionSupervisor.** `runPc` is where `run()` is suspended (waiting for its
session, settling in a recovery close, backing off, cancelled, done); `sessPc` the
same for the session task, from the dial to the unwinding of its workers; and
`closePc` says for each caller at which await of `close()` it stands, since two
callers can be inside at once. `RunStartsPass`, `RunSeesAuthentication`,
`RunSeesSessionEnd`, `RunRecovers` and `RunCancelled` are the sections of `run()`;
`CloseReaches` and the stages are `close()`, whose waits are skipped when there is
nothing to wait for; `Stop`, `Unload` and `UnloadCloses` are the owners. What
happens inside a session is reduced to how it ends. `connected` is the
coordinator's flag, `open` the sockets that are really open.

**CommandChannel.** Commands are numbers in the order of the calls. `PutNowait` is the
bounded queue, `TakeNext` and `SendCompletes` the writer, `SaltReply` and `SaltRejected`
the `getvisusalt` branch, `SessionStarts` the drop of stale commands (of the message
queue: the parameters in the secured queue stay), `RecoveryClose` and `Close` the two
ways to clear the secured queue. A send fails, or its outcome is unknown, at any time.

**Authentication.** `requests` holds what the Miniserver has yet to answer, as the
single listener meets it; each reply action is one branch of `_websocket_event()`.
`DelayOver`, `Schedules`, `RequestsKey`, `KeyArrives` and `KeyTimesOut` are the
suspension points of `check_refresh_token()`. A token has an identity and what is
left of its life; hashes become which key and which token they are made of.
`persisted` is the entry, `Restart` a new process with a clean stop or without.

**ConfigEntry.** `ha` is the state Home Assistant keeps of an entry, with the awaits of
setup ("setup", "platforms") and unload ("reloading", "removing") as states of their
own, since another entry or a form may run there; steps of one entry are exclusive, as
Home Assistant holds a lock per entry. `SetupUnavailable`, `SetupUnauthorised`,
`SetupSucceeds` are the outcomes of `_async_setup()`, with `Recorded` and `Escalates`
for the bounded retry of 401 answers; `Login`, `Rejected`, `Crashes` and
`ReloadAfterCrash` are `run_loxone_session()` from the outside; `EntryUpdated` is the
update listener with its snapshot; `UnloadPlatforms`, `StopSession` and `FinishUnload`
are `async_unload_entry()` up to the platforms, the cancelled session task, and the
rest. A session that is cancelled inside its recovery close is "abandoned" (`Abandons`
in `SessionSupervisor`): the `close()` that `CleansUp` makes then meets the latch and
closes nothing, as the run `unload_leak` shows in detail. `handles` counts the
connections of an entry that are not closed, `orphans` those of them that such an unload
gave up. `Migrated` is `async_migrate_entry()` on the sets of keys; `using` is the
configuration a session was built from.

**Bootstrap.** `Get` is one answer in `_get_with_retry()`. `Raised` maps statuses and
transport errors to exceptions as loxone_http_client.py does, `GetRetries` and
`Classified` are the two except clauses they meet on their way to `run()`, with
Python's class hierarchy as sets.

**FrameStream.** `TakesHeader`, `TakesExactHeader`, `DropsHeader` and `Collects` are
the four branches of the listener's loop; `FramesOf` is what a message looks like on
the wire. Units of a body carry the number of the message they belong to, so that a
garbled message can be told from a whole one. `Tick` is time, and what
`keep_alive()` does when it wakes up.

**SaltChain.** `SendEncrypted` is one encrypted command; `Command` says which salts it
names, `Seen` what the Miniserver makes of it.

**Wire** starts these parts when `run()` does: a bootstrap by the coordinator or by
`start_listening()`, a dial, a session, a back-off.

**Entities.** `actual` is what the Miniserver has, `wire` the states that are to be
delivered, `entity` what the platform's object has. `Deliver` is the fan-out of one
state to the `event_handler` of its entity, in any order; a value is read when it is
delivered, so that changes coalesce. `Call` is a service call that Home Assistant lets
through (the entity is available and offers the feature), `Commands` what the platform
sends for it, `Taken` what the message queue of a live connection has room for (the
rest is refused in a background task, `__init__.py`:1489, and nobody is told), `Executed`
what the Miniserver does with a command. `_send()` refuses a command to a locked
control, but looks at the control itself only: the brightness of a light controller
goes to its master (`ToOther`), which may or may not act on it. `Drops` names the calls
a platform answers by nothing. `astray` marks that a platform showed or remembered
something ahead of a command that was refused, ignored or lost, until something makes up
for it. `Drop`, `Reload`
and `Connect` are the life of the connection; a new session repeats every state. The
platform modules give each kind of control its streams (`...Streams`), handler
(`...On`), commands (`...Commands`), and what it shows (`...Shows`); the
Miniserver's side (`...Executes`) is external, read off the commands and the states
the code expects back.

The modules meet at their edges. The supervisor knows the session by its outcomes, the
channel by when it starts, loses its socket and is cancelled, the authentication by
its requests, the entry by its exits, an entity by the loss and return of
availability. At its edges each allows for more than the others do: any outcome of a
session, any socket loss, at any time. What one module lets go wrong another has as a
step of its own: a `close()` that meets its latch is an "abandoned" session of
`ConfigEntry`, a full queue of `CommandChannel` is `Taken` in `Entities`. This is by
reading and not a theorem: only the refinements and compositions named next are checked.
`AvailabilityContract` and `CommandLedger` are refined by `SessionSupervisor`
(`Status` is the mapping) and `CommandChannel` (`Entry`). `Wire` composes its three
parts explicitly, and `Entities` its six platforms.

### What the models assume

Of the wire: a body frame of eight bytes does not begin with the byte 3 (such a frame
is taken for a header after an estimated one); bodies are not empty; the frames of one
message arrive within a tick; sending one command is one step of the event loop.

Of the entities: of two changes of a state the second alone may be delivered; a move is
over when its command is executed; an override of a room controller runs only in its
automatic modes; the six set points of a controller travel together, and a range is
moved one end at a time; the states of a sensor change together; a fan is turned on with
a preset, with a percentage or with neither, not with both; a Miniserver that arms
clears `armedDelay` and `armedAt` when the exit delay is over; brightness, volume, speed
and position share one scale; a tunable white reports a colour of its own only when it
is off. Mode codes the code does not know and values that do not parse are left out. A
call counts as `asked` only when the display was up to date, the platform did not drop
it (`Drops`) and the message queue took all its commands.

## 3. Runs

| run | bounds | states | shows |
|---|---|---|---|
| `supervisor` | two sockets, stop and unload | 5 218 | all safety and liveness of the supervisor, and that it implements the contract |
| `unload_leak` | unload only | | violation: an unload can leave the websocket open |
| `stop_lost` | stop only | | violation: a stop can be undone by the recovery |
| `commands` | two plain and two secured commands, queue of two | 288 774 | order, at-most-once, drops, salts, timeouts, accounting, progress, and that the channel implements the ledger |
| `mispair` | two secured commands | | violation: a salt reply can release another command |
| `drain` | two plain commands | | violation: `close()` leaves commands behind on a live socket |
| `authentication` | three tokens, two keys, threshold two, three faults | 110 172 | usable logins, the stored token, refused tokens, healing, refreshes |
| `refresh_hang` | no faults | | violation: the refresh loop can go round without suspending |
| `token_erased` | two faults | | violation: a stop can store the empty token |
| `entry` | two entries (one of each older version in turn, whose Miniserver hands out new tokens, and one added by a user), one uuid each, two 401 answers over one tick, three outside events | 692 599 | no connection leaks but one that an unload gives up at the latch (`orphans`), no dead session is silent, no change is missed, credentials and commands stay where they belong, entries settle |
| `wire` | three tries, three messages of up to two units, one foreign frame, a period of two and a timeout of five ticks, two uses of a salt, four messages and commands in a session | 2 853 612 | resynchronisation, silence, the chain of salts, rejections |
| `entities` | twenty-seven kinds of control, positions 0 to 2, two temperatures, rooms and entries, three changes or breaks, one call | 3 986 163 | displays do not depend on order or history, calls are shown, events are accesses |

Why the bounds are enough. Two sockets are one more than the code may hold, so a
leak shows as a second one. Every variable of the supervisor is finite by itself,
so its run has no bound on time, on the number of sessions or on faults. Two
commands of each kind are the least that can overtake each other or be paired
wrongly, and with a queue of two the queue is full while a third waits; the
channel's sessions are unbounded. Three faults are enough for a refused token, a
lost refresh and a restart in one behaviour; three tokens for an old, a refused
and a new one; a threshold of two has a failure that is forgiven and one that is
not (the code's is three). A key may repeat only as a fault, because the refresh
loop treats a repeated key as a failure.

Two entries are what routing, the shared services and a lock per entry need. Three
outside events let a password change, an options form and a crash (or a removal, a
failed unload, a lost connection) fall into one life of an entry; every step that is
not from the outside is unbounded. Two answers 401 and a window of one tick have a
retry that is quiet, one that has the count and not the time, and an escalation (the
code's are five, and five minutes). One entry that renews its token is enough to see a
reload that a token would cause.

In `wire` a foreign frame can hit any of three messages of any framing, and the two
after it show the recovery; that several frames do not add up to more is proved
(section 5). Sessions and bootstraps are unbounded; a period shorter than the timeout is
what the code has. In `entities` three events make a change, a break and a change, or
three changes of one state or of several; with the one call they make every pair of a
display that is behind and something that happens to it. Three
positions are two ends and a middle.

Symmetry is not used: some runs check liveness, and in `entities` the values are
distinguished by the code.

Every property of a passing run is broken by a mutant: a variant of one
definition, beside it in its module and marked `Mutation`, that stands for a
plausible slip in the code. TLC finds the violation when it replaces the
definition.

`CHECK_DEADLOCK FALSE` is set where the system may really stop: a closed channel
with no calls left, rejected credentials, a stopped event loop, an entry removed, a
control nobody touches any more. The supervisor's runs and `wire` leave it on, since
commands can always be queued and a connection always redials.

### What the violations say

* `unload_leak` (connection.py:1986). `close()` sets its one-shot latch first and
  closes the socket last. An unload that cancels `run()` while its recovery close
  waits in between leaves the latch set, and the close of `async_cleanup()`
  returns at once: the websocket stays open, against the docstring of
  `async_unload_entry()`.
* `stop_lost` (connection.py:1202). A stop during a recovery close returns at once
  for the same reason; `_close_and_reset()` then clears the latch, and `run()`
  dials again after the stop.
* `mispair` (connection.py:2108). Secured parameters are queued before their salt
  request is. A request that is refused by a full queue, or dropped at the start
  of a session, leaves parameters that the next reply releases, which is the
  failure the comment at 2249 says FIFO pairing prevents.
* `drain` (connection.py:2005). The shutdown event, on which the writer ends, is
  set before `close()` waits for the writer to drain the queue.
* `refresh_hang` (connection.py:1288). A token reply without `validUntil` stores a
  date of 0, with which `seconds_to_expire()` raises; the loop continues to a
  `wait()` on an event that is already set, which does not suspend.
* `token_erased` (`__init__.py`:811). "persist a token only if we actually hold
  one" tests a dict that is never empty.

### What else the models show, or reading for them did

None of these is a run of its own: most are nowhere stated otherwise, and the rest is
settled by reading. They are the behaviour the models follow, or leave out by name.

* Rejections. `open()` wraps the error of its third request in `RuntimeError`, so a 401
  there is a bug and not a rejection; a 403 is Python's `PermissionError`, an `OSError`,
  and is retried. The counter of 401 answers is cleared by a success only, where the
  docstring at `__init__.py`:696 says "consecutive"; it outlives an entry that is
  removed while it waits for a retry.
* An unlisted message identifier raises `ValueError`, which ends the session as a bug.
  The first text frame in a body costs that message and the next.
* A salt encrypts `SALT_MAX_USE_COUNT` commands and the one that introduced it.
* The back-off is never reset by a login, and its float overflows at the 1025th outage
  (connection.py:1184).
* The domain services go with the last unload and do not come back with the reload
  that unload may be part of. Reauthentication does not compare serial numbers.
* After a reconnect the NFC reader takes its baseline from a change, so that the first
  access after an unchanged date is swallowed (sensor.py:763). The message center
  remembers a counter before its entries have arrived (2048): entries whose command was
  refused by a full queue, or lost with the connection, are not fetched again (`astray`).
* A switch whose command a full queue refused on a live connection shows what it was
  told until its state changes or a new session repeats it: the command is put in a
  background task after the display was flipped (`__init__.py`:1489-1493).
* A dimmer's position that arrives before its range is not scaled again when the range
  does (lights/dimmer.py:133), and neither is the brightness of a light controller's
  master (lights/lightcontroller.py:441-444): `Rescaled`. helpers.py:324 is not the
  inverse its docstring claims, at brightness 1.
* The title of a zone is the first source it ever had, or the title before, as long as
  the metadata has none (media_player.py:331-337, 350).
* Four calls are offered and send nothing (`Drops`): a range of temperatures in a manual
  mode, a single set point in a dual mode of a controller with a single comfort
  temperature (both climate.py:266), `turn_on` of a fan that stands still, without a
  percentage or a preset (fan.py:323), and a source the zone does not know
  (media_player.py:484).
* Secured parameters younger than their timeout survive the start of a session that
  drops their salt request; the next reply releases them, or others in their place
  (`mispair`). The timeout is looked at when a reply pops a command
  (connection.py:897); one that was released in time may wait for room in a full queue,
  or for the writer, beyond it.
* A colour picker takes what it was asked for as its state before `_send()` refuses it
  on a locked control (lights/colorpickers.py:182). A ventilation overrides a preset
  with the mode it still had (fan.py:340). A zone's volume is truncated, not rounded
  (media_player.py:448).

## 4. Fairness

The event loop resumes a task whose wait is over, so every step of `run()`, of a
pending `close()`, of a cancelled session and of the writer is weakly fair. A dial
is fair because each of its requests has a timeout and a bounded number of
retries. In `Authentication` the replies are fair: a Miniserver that stays silent
trips the watchdog of `keep_alive()`, which is a lost socket and counts as a
fault; and a websocket that never logs in is closed by the Miniserver. Time passes
(`DelayOver`, the end of a sleep), but no fairness makes tokens age, faults
happen, owners act, calls be made or sockets fail. `KeyTimesOut` is fair only
where nothing went wrong in it, that is when no reply is on its way.

`LoginHeals` is conditional on tokens that carry a text and a date. Without that
the code does not heal: an empty token is stored before it is noticed, and later
logins trip over it until its date has passed.

In `ConfigEntry` the steps of Home Assistant (retry timer, setup, unload, reload), of the
session task and of a submitted form are weakly fair, and so is the clock. What users
and Miniservers do is not: `Settles` is stated for a Miniserver that stays up, and
holds although the user may never answer the reauth flow. `wire` and `entities` check
safety only: that a session ends is the watchdog's bound (`SilenceIsNoticed`), and
what is shown is stated of moments at which everything has arrived.

## 5. Proofs

The theorems hold for every value of the constants: any set of sockets and either owner,
any number of commands and any capacity, any tokens, keys, threshold and number of
faults, any entries, uuids and number of events, any number of tries, any period,
timeout and use count, any number of messages, units and text frames, any scale of
positions, any temperatures, any number of changes, calls and breaks. The assumptions
are those the modules name (`SupervisorAssumption`, `ChannelAssumption`,
`AuthenticationAssumption`, `ConfigEntryAssumption`, `BootstrapAssumption`,
`FrameStreamAssumption`, `SaltChainAssumption`, `CoversAssumption`,
`ClimatesAssumption`, `EntitiesAssumption`): markers such as `NoSocket` differ from the
values, the queue holds at least one message, thresholds and periods are positive,
entries know different uuids (Home Assistant's entity registry requires that as well,
since the uuid is an entity's unique id; and the config flow refuses a second entry for
a Miniserver whose serial number it has), and a temperature a user may set is above
zero, since `native_target_temperature` takes a zero for no temperature at all
(climate.py:880; the controllers' `min_temp` is 5 or 7, climate.py:683 and 635).

**SessionSupervisorProofs.** `AtMostOneSocket` is not inductive: a dial could open
a second socket if the first were forgotten. `IInv` adds which phases of `run()`,
of its session and of the two closers exclude each other (`PhaseInv`, `CloseInv`),
what a pass finds when it begins (`FreshInv`), and that an open socket is the
referenced one until the supervisor is done (`SocketInv`). Proved: type
correctness, `AtMostOneSocket`, `NoSocketBetweenSessions`,
`AvailableOnlyWhenAuthenticated`, `FreshSessionUndisturbed`, the action property
`RejectionIsFinal`, and the safety half of the refinement of
`AvailabilityContract`, step by step.

**CommandChannelProofs.** `IInv` puts the places a command passes through in one order
(calls not made, secured queue, waiting put, message queue, message being sent, wire)
and says that a command never meets a later one of its kind ahead of it; every property
about order and about what never comes back follows. Proved: type correctness,
`TaskAccounting`, `InOrderAtMostOnce`, `StaleNeverFires` (what a session start dropped,
or waited past its timeout, is in none of those places any more),
`ClearedNeverReleased`, `SentUnderItsSalt`, and the refinement of `CommandLedger`
(`ImplementsLedger`). `SentUnderItsSalt` is about the secured commands a reply has
released: while they wait for room in the queue, in the queue or in the writer's hands,
they are among those the salt replies of this very session released (`hashed`), because
the end of a session cancels the listener with the put it waits in and ends the writer,
and the start of one drops what is in the queue. For the refinement each step of the
channel is first told by the places it moves commands between (`Moves`). A step that
makes no call, sends nothing and puts nothing where it was not in transit before can
only lose commands (`LosesOnly`); a step that calls or sends changes the entry of one
command (`ChangesOne`), and the invariant shows that the entry was new, or pending,
before.

**AuthenticationProofs.** That a visible login is usable could be spoiled by a
token reply in the middle of a login, or by an acceptance that arrives after its
token was reset. `IInv` says why neither happens: until the login is through
(`updates`), the listener has at most one request to answer and the refresh loop
waits (`LoginInv`); afterwards only the refresh loop asks (`LoggedInInv`); what is
presented is a token, and what is held was not refused (`TokenInv`). Proved: type
correctness, `AuthenticatedSessionIsUsable`, `EntryHoldsTokenInUse`,
`RefusedTokenNotPresented`.

**ConfigEntryProofs.** Three strengthenings carry the rest. `SessionInv`: the repair
issue excludes a running session because every way into one passes `SetupSucceeds`,
which takes it down, so it must also be absent in "platforms" (`IssueInv`). `ConfInv`:
a change is not missed because, from the moment the listener is registered, its
baseline is what is stored (`BaselineInv`), and the configuration in use is that
baseline or a reload is on its way (`UsingInv`); before that moment the options are
read late enough and the credentials are those the bootstrap was tried with.
`OutboxInv`: a command in flight belongs to an entry that knows its uuid, and entries
know different ones. `NoLeakedConnection` counts: a setup, a loaded entry and a form each
hold one connection, and what is open beyond these is an orphan of an abandoned
session. Proved: type
correctness, `NoLeakedConnection`,
`AvailableOnlyInSession`, `DeadSessionIsHandled`, `IssueMeansRejected`,
`ConfigurationInUse`, `CredentialsInDataOnly`, `CommandReachesOwner`.

**WireProofs.** One invariant for each part. `ClockInv`: in a session `_last_rx` is as
old as the silence, and the silence and what is left of the watchdog's sleep do not add
up to more than timeout and period. `SaltInv`: the Miniserver expects the salt in use,
or none yet, and has seen it at most once more than it was counted. `BootInv`: a
bootstrap that goes on has seen no rejection. Proved: `SilenceIsNoticed`,
`SaltChainUnbroken`, `RejectionEndsBootstrap` and `DamageIsBounded`. The last counts
what was lost, and a text frame that falls into a body costs a message that has not
begun yet. `StreamInv` therefore counts debts: with the damage done it bounds the
messages that are bound to be damaged, the one being sent (`Doomed`) and the next
(`NextDoomed`), and with the garbled ones the one that would be (`Dirty`). Which those
are follows from how the listener's state agrees with the frames still to come
(`PlaceInv`: the stream is before an estimated header, before the exact one, or within
the bodies). The step that carries it is that units left behind make the next message
complete too early and never too late, so that the listener waits for a header again
when that message is over. There is one lemma for each place and state of the listener a
frame can meet.

**EntitiesProofs**, for a control with services. `AskedIsShown` speaks of one moment,
and what makes it true is spread over a call, its commands, the states they change and
their deliveries. `DisplayInv` has three parts. `DisplayTypes`. `MirrorInv`: while the
connection is up, an entity has seen every state that is not on the wire, where having
seen a value means that its fields are what the handler makes of it (`Seen`). A switch
or a colour picker shows what it was told, so for these it holds once no command under
way changes what is shown, and nothing they told was refused, lost or ignored (`Idle`).
`AskedInv`: while a call is to be shown, its commands are all still to come or were all
executed, and whatever has seen the states they come to (`Done`) shows what was asked
(`Answered`). When everything has arrived the two meet. What remains is one contract
for each kind, in **DisplayFacts**: a fresh entity is well typed (`StartsWell`); a
handler makes its entity see the value and forget no other (`HandlesWell`); a service
sends at most two commands (`SendsWell`); commands lead from states to states
(`ExecutesWell`); the commands an up-to-date entity sends for a service lead to states
that answer it (`AnswersWell`); the Miniserver's values are of their types
(`ValuesWell`); and an entity that runs ahead of its control shows what its commands
will bring about (`FlipsWell`, `OneState`). The twenty-two kinds meet them for different
reasons: a light is on by its circuits, its master or its moods, in this order; a room
controller sends two commands whose order matters; a dimmer's brightness is scaled to a
position and back, and is zero exactly if the position is.

`ShowsWhatAStartWouldShow`, for every kind. It compares an entity with `AfterStart`, a
fresh entity that is given the states of its control one after the other, in an order
`CHOOSE` picks. The argument is that both have seen the same. The entity has, once
everything has arrived, by `MirrorInv`; the fresh one has, because a handler makes its
entity see the value and forget no other, whichever order they come in (`ReplaySees`);
and two entities that have seen the same states look the same (`ShowsWell`), but for
the title of a zone whose metadata has none and a brightness on a scale of before
(`Display`). The fresh entity takes the state with a scale last, so that its own
brightness is never one of these (`LastIsUnscaled`). What a
fold over the streams computes is an induction, and the rules of induction that take a
predicate are out of the provers' reach. So it is done by hand: `FoldSet` is defined by
a function on the subsets of the streams, `LayersExist` shows that there is one, by the
least cardinality up to which there is none, and `ReplaySees` goes through the subsets
in the same way. For the five sensors the same argument rests on `SensorInv`. The
message center needs more than what it has seen: its issues are an answer it asked for.
`CenterInv` says that they are those of the entries unless a newer counter, a request or
an answer is still under way, or one was refused or lost (`astray`): the counter is remembered
before the answer has come, so the loss is made up for only when it moves again.

For the NFC reader and the doorbell, `EventsAreAccesses`: an entity that would fire for
a new value (`Watching`) does so only while connected, and what it would fire for was
heard and is later than all it has fired (`WatchInv`). That is why a lost connection has
to clear the base line: a reader that kept it would be watching when a new session
repeats the last access.

Only model-checked: everything under fairness (`EveryEndIsHandled`,
`UnloadCompletes`, `QueueKeepsMoving`, `LoginHeals`, `ExpiringTokenIsRefreshed`,
`Settles`, `NoReloadLoop`, the liveness half of `ImplementsContract`), because the
prover does not reason about `ENABLED`. Every safety property of a passing run, an
invariant or a property of steps, is a theorem.

## 6. Plan

Done: 1. `SessionSupervisor` with `AvailabilityContract`; 2. `CommandChannel` with
`CommandLedger`; 3. `Authentication`; 4. `ConfigEntry`; 5. `Bootstrap`, `FrameStream`,
`SaltChain` and `Wire`; 6. `Entities` and its platforms; 7. the proofs of 1 to 5, with the
refinement of `CommandLedger` and the bound on damage; 8. the proofs in 6 about events,
about calls and about what is shown, kind by kind. What could be added, in order of worth:

9. In `Entities`: hvac actions and fan modes, the presence switch, two controls that
   share a state.
10. Automatic groups and area synchronisation, as an abstract registry whose
    contents after any sequence of reloads are those of one setup.

## 7. Not modelled, and why

* Cryptography (AES, RSA, HMAC) and HTTP are library calls; what matters here is
  which key, salt and token something is made of, and how a request ends.
* The contents of the binary tables (text, value, day timer, weather): `struct` and
  JSON decoding without state, tested by its own unit tests on recorded bytes.
* Number formatting, units, icons, device classes, device-registry names, structure
  file lookups: tables without state.
* Buttons, texts, scenes and intercoms send one command per call and keep no state
  that a later step depends on. Sensors that show one value, and the switches and
  features that section 1 lists as left out, repeat a pattern that is modelled.
* Automatic groups, area synchronisation, the firmware issue and registry clean-up are
  single calls into Home Assistant whose effects are outside this code. The entities a
  window monitor creates for its locks are left out with them.
* Discovery (one broadcast and a bounded wait), the command line, diagnostics and
  system health are I/O or read-only.
* Times are abstracted to order, or to ticks where a period meets a timeout. The length
  of a back-off or of a refresh delay is not modelled.
* The lost and restored log lines, counters of diagnostics, and the text of errors.
