# TLA+ models of Find My Device

This directory is kept beside the code of *harbour-find-my-device*, an app for Sailfish OS
that finds, rings, locks and photographs a lost phone. It holds TLA+ modules translated from
the Python and QML sources, TLC runs that check them on small instances, and proofs, checked
by TLAPS, that hold for every value of the constants.

Paths are relative to the repository; `api.py` is `qml/utilities/api.py`, `mqtt_client.py` is
`qml/utilities/mqtt_client.py`, `runtime.py` and the other files of `fmd` are in
`qml/utilities/fmd/`, and the daemons' files are in `daemon-rpm/src/`.

## 1. The system

Four kinds of processes run on one phone.

| Process | Code | Runs | Threads |
|---|---|---|---|
| app | `qml/`, `api.py` | while the window is open, sandboxed | PyOtherSide worker, command worker, paho's network thread, timers, one thread per refresh, save or MQTT restart |
| command daemon | `daemon_cmd.py` | always, systemd restarts it | GLib main loop, a command worker per phase, paho's network thread, repair and handover threads |
| GPS daemon | `daemon_gps.py` | always, systemd restarts it | main loop, heartbeat |
| privileged service | `priv_service.py` | as root, started by a path unit when its spool is not empty | one |

They share one SQLite file (settings, device list, positions, codes, and the small key-value
table of `runtime.py`: settings generation, heartbeats, wishes), where every call is a
transaction of its own; ConnMan's switch of mobile data with a record and a lock file; the
spool directory; and a broker, at which the app and each daemon have clients of their own.

### Components

| Component | State | Operations | Hard part | What makes it correct | Where |
|---|---|---|---|---|---|
| Sending commands (`api.py` 900-1117, 1321-1405) | command queue, parked commands, ack timers, ringing flags and timers | tap, send, park, flush, ack, refusal, two timers, edit and removal of a device | timers that run after their cancellation, acks that come before their timer is armed | the STOP button has a live timer, only the newest command flags a device, every command is settled | `UiCommands` |
| Foreground polling (`api.py` 809-894, 1125-1144) | current timer, chain generation, failure episode | start, stop, tick, re-arm | a fix lasts 100 s, saves stop and start the chain meanwhile | one chain, that goes on if it is not stopped | `ForegroundGps` |
| Own position (`api.py` 612-803, 1260-1355; `GpsSource.qml`; `daemon_gps.py` 140-280; `daemon_cmd.py` 198-253) | row, retained message, pending positions, request number, wish | ask QML, answer, store, publish, keep, flush, wish | late answers, failed publishes, three processes that publish | no position or wish lost, answers to their request, newest goes out | `Location` |
| Settings (`api.py` 183-219; `runtime.py` 48-185; loops of the daemons) | settings table, generation, heartbeats | save, announce, read, report | three processes, two transactions per bump, an extra heartbeat thread | "running" is never shown for older settings | `SettingsSync` |
| MQTT wrapper (`mqtt_client.py`) | client, subscriptions, confirmations, health check | connect, disconnect, close, repair, subscribe, publish, callbacks | several threads repair at once, callbacks of a client that is torn down | one client alive until `close()`, every topic asked for, deafness is found | `MqttClient` |
| Command daemon (`daemon_cmd.py`) | phase, worker, its queue, executor's client, photos | phase begin and end, accept, execute, ack, upload, retry, restart | the worker is abandoned after five seconds and runs beside the next | accepted is executed, acks go out, photos get uploaded while WebDAV is set | `CmdDaemon` |
| Mobile data (`mobiledata_control.py`) | ConnMan's AutoConnect, record, flock | session, recovery | crashes between any two steps, the user at the same switch | nothing left on, nobody's connection cut | `MobileData`, `MobileDataLoan` |
| MQTT listener (`api.py` 318-532, 1260-1405) | client, its topics, restart threads | start, restart, edit, rename, remove, position, ack, handover check | restarts overlap with edits and with network threads nobody waits for | one client but for a revived one, which hears the devices there are | `UiListener`, `DeviceStore` |
| Device store (`devices.py`, `gpsstore.py`, `db.py`) | devices, positions | add, rename, remove, flag, store | late messages, two processes at the first start | a row comes to be without a device in one way only | `DeviceStore`, own row in `Location` |
| Privileged spool (`priv_client.py`, `priv_service.py`, path unit) | request files | queue, claim, act, remove | a kill between claim and removal | at most once, no endless restarts; a request is served while the path unit is active | `PrivSpool`, `PrivSpoolOnce` |
| SMS sending (`sms_sender.py`) | one message at ofono | send, watch by signals and polls | answers late or missing | what is reported is what happened | `PrivSpool` |
| GPS command, location switch (`daemon_cmd.py` 358-485, 188-195; `location_control.py`) | two configuration files, the worker's place | check, switch on, fix, reply | the user and the root service at the same switch | a command ends | `GpsCommand` |
| Codes and tokens (`sms_command_listener.py`, `tokens.py`; `daemon_cmd.py` 906-1002) | secret, backup codes, PIN, the listener's white list | authorize, consume, renew, rebuild | two looks at a database that the app changes | codes are good, and used once | `RemoteAuth` |
| Ringing (`ring_control.py`) | player slots, timer, state file | ring, stop, timer | unlocked slots, two processes read the file | a ring ends, and has its button | `RingControl`, `DeviceActions` |
| Camera (`camera_capture.py`) | pipeline, main loop, photo | capture, callbacks, upload | callbacks before the loop runs | the capture ends, the camera is let go | `CameraCapture`, `DeviceActions`; uploads in `CmdDaemon` |
| Lock, notifications, GPS reader | none that lasts | D-Bus calls | time limits | - | steps that work or fail |

`PROJECT.json` lists all of them with their status, QML pages, packaging, vendored and example
code included.

### How they interact

* *App to daemons*: `save_settings` writes the table and a thread bumps the generation; the
  daemons poll it, leave what they do, and echo it in their heartbeats, which the Settings page
  compares. Wishes (publish my position, switch location on) are rows the command daemon polls.
* *App to another phone*: commands and acks over the broker. The app's `on_connected` callback
  flushes what was parked while it was offline.
* *App to QML*: `requestGpsFix` is a signal, `qml_fix_result` a call back; both are one-way.
* *Command daemon inside*: callbacks (MQTT, SMS) authorize and enqueue, the worker executes and
  acks through the executor's client, the watchdog on the main loop repairs and retries.
* *Both daemons*: mobile data sessions, one at a time by a lock file.

## 2. Modules

Each definition in `PROJECT.json`'s `map` names the lines it stands for.

**MobileData** (`mobiledata_control.py`, with the threads of both daemons that call it).
`autoConnect` is ConnMan's switch per SIM, `owned` the record file, `lock` the flock; `byFmd`
is history: on because a daemon switched it on. One action per step between which a crash
matters: take the lock or find it busy, recover, check, write the record, switch on, use,
switch off, clear the record, unlock. `Crash` and `Reboot` end processes, `UserSwitch` is the
user. Calls fail with `BusFaults` (with or without effect) and `DiskFaults`.
**MobileDataLoan** is the abstract promise, a loan that one holder at a time takes and gives
back; `ImplementsLoan` is the refinement (`loan` is what is on by us, `holder` the lock's).

**SettingsSync** (`runtime.py`, `save_settings`, the loops of both daemons, the heartbeat
thread). Settings are a version number; a daemon's report is the generation, the state and
(history) the version it was built from. `SaveWrite`, `SaveReturn` and `ApplyStep` are the app,
`ReadGen`, `ReadSettings`, `Beat`, `LeaveServe` a loop, `ThreadCopy` and `ThreadWrite` the
heartbeat thread of the GPS daemon, `BeatAgain` the watchdog of the command daemon.

**ForegroundGps** (polling in `api.py`). A timer is armed, at a place in its tick, or free;
`gen` and `timer` are `_fg_gps_gen` and `_fg_gps_timer`. The settings apply threads run one at
a time, as `_settings_apply_lock` has them.

**MqttClient** (the command daemon's wrapper, its owner, publishers, watchdog and paho's
threads). Teardown and rebuild are split where another thread can look: the lock, taking the
client, clearing, unbinding, joining, the check of `_closed`, making and starting the new one.
The callbacks are split at each hold of `_subs_lock` and each flag. paho, the broker and the
network are external: CONNACK, SUBACK, echo, loss, and misfortunes of five kinds.

**CmdDaemon** (`daemon_cmd.py`). The main thread goes through a phase (begin, connect, bind
the executor, watchdog ticks, stop the worker, join for five seconds, unbind, close), workers
take jobs and go through command, ack, upload and retry jobs; abandoned ones go on. The MQTT
client is only "subscribed or not" here, and its `close()` is final. That is a simplification:
in MqttClient a late repair can revive a closed client (section 6). `webdav` is whether the
settings name a server; every save may change it, and a retry that finds it unset puts the photos
off (`daemon_cmd.py` 585-589).

**UiCommands** (commands and acks in `api.py`). A tap is a number that is also the token of
its timers; timers are armed, due (started, perhaps waiting for `_pending_lock` while it is
cancelled) or gone. `flight` follows a command to the device.

**Location** (see the table above). Positions are numbered as they are obtained. `gps` is the
place in `tick`; `loop`, `jobs` and `worker` the command daemon; `lock` and `pc` the app's
threads under `_fix_lock`; `asked` and `answers` the two one-way channels to QML. A failed
publish may have reached the broker all the same. What is handed to paho without waiting is
`outgoing`. The mobile data lock between the two daemons is left out, so they interleave more
than in the code; a job the idle command daemon would run on its main loop is a job of the
worker.

**PrivSpool** (`priv_client.py`, `priv_service.py`, `sms_sender.py` as root). `file` is the name a
request has: a temporary file, `.json` (queued), `.work` (claimed) or gone; `thread` is the place
of the client that queues it, `run` the place of the service. Each file operation is a step; a
rename may fail on either side, a client die, the service be killed, the device restart.
`SendMessage` hands the message to ofono, which sends or drops it in its own time; `seen` is what
signals and polls brought the service. `starts` counts the starts of the service in systemd's
interval and `watching` is whether the path unit is active: neither unit sets
`StartLimitIntervalSec`, so the default limit, `StartBurst`, applies, and a start beyond it fails
both for good (`StartLimitHit`) unless the interval is over (`IntervalPasses`).
**PrivSpoolOnce** is the abstract promise: refused is never carried out, accepted is carried out
once or dropped, and only what could not be claimed may come twice; `ImplementsOnce` is the
refinement (a request's fate is read off its file, its client and its count).
**GpsCommand** composes the spool with its clients: the worker at GPS and DELETE commands, the
main loop at the app's wish, ofono, and the user at the location switch, whose two files are
`conf`. It is built from the actions of PrivSpool's clients and service, so that the theorems of
PrivSpoolProofs carry over to it.

**RemoteAuth** (SMS and MQTT authorization). A code is a kind, the version of what it was made
from, and a time step; versions grow when the app renews something, and DELETE sets them to 0.
An SMS is handled in steps that end at the two transactions and at the submission; the listener's
white list is a snapshot of its phase.

**DeviceStore** has the rows of devices and positions and the transactions on them; **UiListener**
adds who calls them: the worker, restart threads that follow each other on `_settings_apply_lock`
(retire, connect, read the devices, subscribe), network threads that may be in the middle of a
message when their client goes, the handover check, and the two processes of a first start.
`Closed` has both ends of a `close()`: the client is gone, or a late repair makes it run again
(`revived`), beside its successor and with its topics.

**RingControl** (ring, stop_current, timers and the state file), **CameraCapture** (a worker in
`capture_to_file`, the main thread's callbacks, the pipeline's threads) and **DeviceActions**,
which composes the two under the executor's `_do_ring`, `_do_stop_ring` and `_do_camera`, on the
current worker and an abandoned one.

**MCMobileData** gives MobileData its actors, **MCGpsCommand** the requests of its commands,
**MCRemoteAuth** its telephone numbers. `*Proofs` modules hold the theorems of the
module they are named after. Two hold those of several, which share no state:
**RemoteCommandProofs** follows a remote command (UiCommands, RemoteAuth, DeviceActions with
RingControl and CameraCapture), **AppProofs** has the app's threads beside it (UiListener with
DeviceStore, ForegroundGps). PrivSpoolProofs is also about GpsCommand.

## 3. Runs

| Run | Instance | Checks | Distinct states |
|---|---|---|---|
| MobileData_faults | 2 daemons, 3 threads, 2 SIMs, faults on, 1 crash | `NotUnderFeet` | 192 000 |
| MobileData_live | 2 daemons, 2 threads, 2 SIMs, no faults, 2 crashes | `LeftOnIsRecorded` `LeftOnEndsOff` `ImplementsLoan` | 18 000 |
| SettingsSync_all | either daemon, 3 saves, 1 exit of the app, 1 crash | `NoFalseConfirmation` `SavesGetApplied` | 1 125 000 |
| ForegroundGps_all | 4 timers alive at once, 2 saves, 1 turn of the daemon, faults | `OneChain` `PollingGoesOn` `HandsOver` | 323 000 |
| MqttClient_all | 2 topics, 2 clients, owner, publisher, watchdog, 2 misfortunes | `NoOrphan` `EveryTopicAsked` `HearsAgain` | 620 000 |
| CmdDaemon_all | a RING and a CAMERA command, 2 phases, 2 faults | `AcksGoOut` `AcceptedIsExecuted` `PhotosGetUploaded` | 513 000 |
| UiCommands_all | 3 taps | `StopButtonBacked` `OnlyNewestFlags` `SentIsSettled` | 392 000 |
| Location_all | 2 threads, 2 positions, 2 requests, 1 fault, 1 death | `FixAnswersRequest` `AppForgetsNothing` `OnlyStaleWipes` `NewestFirst` `TakenIsDelivered` | 2 051 000 |
| GpsCommand_all | a GPS command by SMS, a DELETE, the app's wish, 1 turn of the switch, 1 fault, a start limit of 1 | `ReportIsTrue` `ImplementsOnce` `CommandEnds` `SpoolComesToRest` | 526 000 |
| RemoteAuth_all | 2 SMS, an MQTT command that may wipe, 3 time steps, a renewal, a save, a death of the daemon | `AcceptedCodesWereGood` `CodesBuyCommands` `ListIsCurrent` `TokensExpire` | 503 000 |
| UiListener_all | 2 ids, 2 clients, 2 restart threads, 2 edits, 1 fault | `RowsHaveDevices` `HearsItsDevices` `GreyedForReason` `HearsAgain` | 1 594 000 |
| DeviceActions_all | 2 workers, 2 rings, 3 commands | `RingIsShown` `RingEnds` `StopStops` `CaptureEnds` | 276 000 |

Beside these runs there are eleven configurations for one claim each that the repository makes of
its program and that the code does not keep: a `.cfg` of the name in the table, for the same module.
TLC ends each with a counterexample (section 6); they are kept out of `PROJECT.json`, whose runs pass.

| Configuration | Instance | Claim | Where it is made |
|---|---|---|---|
| MobileData_retry | as MobileData_live, failing D-Bus calls, no crash | `LeftOnIsRecorded` | `mobiledata_control.py` 251 |
| MobileData_user | as MobileData_live, no crash | `UsersIsLeftOn` | `mobiledata_control.py` 21-22 |
| SettingsSync_exit | 2 saves, 1 exit of the app | `EverySaveShown` | `runtime.py` 8 |
| ForegroundGps_stop | 2 saves, no fault | `PollsWhenAlone` | `api.py` 1137-1139 |
| ForegroundGps_banner | the same | `NoStaleBanner` | `api.py` 834-836 |
| MqttClient_close | 1 misfortune | `ClosedForGood` | `mqtt_client.py` 387-390 |
| UiCommands_flag | 1 tap | `FlaggedIsSilent` | `api.py` 1107 |
| Location_wish | as Location_all | `WishIsKept` | `runtime.py` 216-217 |
| GpsCommand_limit | as GpsCommand_all, a start limit of 5 | `QueuedIsTakenUp` | `docs/TECHNICAL-INFOS.md` 156 |
| UiListener_unpair | as UiListener_all | `RemovedIsForgotten` | `devices.py` 188 |
| DeviceActions_ring | as DeviceActions_all | `EveryRingEnds` | `ring_control.py` 5-6 |

*Why these bounds.* Every property is about two of something: two sessions of which one is
interrupted, two saves of which one is announced late, a retired tick and a new chain, an old
and a new client, an abandoned worker and its successor, an earlier and a later tap, an old
and a new position, a request left by a killed service and the next, a code and its renewal, the
timer of one ring and the next ring. The bounds allow two and add the fault that comes between
them. Taps have three, since a third can meet the timers of both others, and so have saves: two
that announce the same generation do no harm, since both were written before, but a third can
be announced before the second of them sets the generation back. Counts of faults are bounds of the
model, named in CONSTANTS. GpsCommand_all has a start limit of one: since the interval may be over at
any time between two starts, every number of starts is possible below it, and the limit can be hit
from every state in which a larger one could be. For the invariants that are proved (section 5) no bound matters.
Symmetry is used in MobileData_faults alone, between the command daemon's two workers.

*Deadlock* is checked for MobileData and MqttClient (where `Finished` is the end of a closed
client). The others may stop: the bounded taps, saves, positions and commands run out. In
DeviceActions photos are taken before rings: the two share no state, so their interleaving adds
states and no behaviour. Restart threads and clients of UiListener are identities that are used
again once they are free, so their number bounds what exists at once and not how often.

Every property has a mutant: a plausible bug in one mapped definition (a dropped guard, a
forgotten reset, a swapped order) under which TLC finds the property violated. The mutants are
beside the definitions they mutate and are not part of any next-state relation.

## 4. Fairness

Only what runs by itself is fair, and weakly: threads go on, timers run out (`threading.Timer`,
GLib), locks and D-Bus calls return (all have time limits), systemd or the boot starts daemons
(`Restart=on-failure`), the loop goes on to its next cycle. Users, faults, crashes and arrivals
have no fairness. Two assumptions are about the world: a lost network comes back, and the
broker answers on a connection that stays up (MqttClient). `UiCommands` assumes neither. In
CmdDaemon time passes (`RetryDue`); in Location only the GPS daemon's cycle and the network are
fair, since `TakenIsDelivered` speaks of nothing else. In GpsCommand the daemon's threads and the
service go on (systemd starts it while the spool is not empty and the path unit has not failed), and a
device that was told to reboot does; that the interval of the start limit passes is not assumed;
ofono and the user are not fair, the service's waits have limits. RemoteAuth has
safety properties only, and no fairness. In UiListener the restart threads (`connect` has a time limit,
the join of a network thread too), the handlers, the worker, and the handover check, which runs
when the user looks at the map or sends a command; in DeviceActions the threads, the callbacks and
the minute of a ring. The camera's pipeline is not fair: it may never answer. The GPS daemon
publishes until the broker confirms; faults are bounded, so that the last attempt meets a network.

## 5. Proofs

All are for every value of the constants that meets the named assumptions, which say that the
bounds are naturals and that threads, clients and the none-values differ.

* **MobileDataProofs** - types; `Exclusion`; with the record reliable (`RecordReliable`, no
  failing disk) `RecordComplete`, by the invariant that what is on by us is what the record
  names, with the exceptions between two steps of the holder; `NeverMistaken` also without
  failing D-Bus calls; `WindowKeepsItsData`; and `Refinement`: each step is a step of the loan or a
  stutter, under the same assumption.
* **SettingsSyncProofs** - one invariant relates every copy of a report (heartbeat row, the
  loop's, the thread's, the thread's copy) to the generation at its time; from it
  `Confirmation`, `ShownSaved` and `BumpsCount`. `NoFalseConfirmation` is not inductive, since
  a copy on its way to the row must already be true.
* **AppProofs**, ForegroundGps - the generation makes retired timers harmless: a timer of the
  current generation is the one in `timer`, and all others are of earlier ones. `NoSecondChain`,
  `StopIsFinal`, `ChainStaysAlive`.
* **AppProofs**, UiListener - types. `PositionsHaveDevices`: `Topical` says what a client may
  have (topics only while it is alive, none if its connect failed or before the devices are read,
  and a message in hand only of a topic it has, unless it was revived); when nothing restarts,
  `HearsItsDevices` makes these the topics of the devices there are, so that a message then is of
  such a device. The transactions on both tables, by the lemmas of DeviceStore, never part a
  position from its device. What is left is a position handled during a restart or on a client nobody waits for,
  which `RowsHaveDevices` names. `GreyOnlyForReason` by `GreyBecause`: flags
  are of devices there are, a flag without a reason belongs to the device whose edit is about to
  clear it, and what an acknowledgement under way will set has its reason already.
  `ListenerHears` is about the end of all restarts and not inductive. `OneRestarts` says who
  holds the lock and whose client is in hand, so that only the client that is there or being
  retired is alive, and those that a late repair has revived (`ThreadOfClient`); `HearsOrDue`, that a listener, or a list that is about to
  be subscribed, is up to date or a restart is due that has not read the devices yet.
* **MqttClientProofs** - `Ownership` (who holds the reconnect lock, and which thread has taken
  which client) gives `NoClientEscapes`; `Sessions` (a confirmation belongs to the current
  connection, and a callback in progress to a client that is alive) gives
  `ConfirmationsAreGrants`; `Asking` (flag before snapshot, record before look) gives
  `NoTopicIsForgotten`.
* **CmdDaemonProofs** - types; `UploadFlagAgrees`: flag, queue and running job of a phase
  change in the same steps; `AcksArePublished`. A worker that was not abandoned is the current
  phase's (`Discipline`), so that the executor has the client from its binding to the worker's
  end, and each timely command waits before the sentinel, is in hand, or is acked
  (`AllHandled`); when the worker reaches the sentinel only the last is left.
* **RemoteCommandProofs**, UiCommands - each entry in `_ring_timers` and `_pending_acks` names a
  timer that is not gone; `ButtonIsBacked`, `StaleTimersAreHarmless`.
* **RemoteCommandProofs**, RemoteAuth - types, with the count of renewals that bounds the
  versions (`RenewalsCounted`) and that of saves which bounds the generation
  (`BumpsFollowSaves`). `ListStaysCurrent`: the generation only grows until a DELETE, so that a
  phase that was left behind never catches up. `CodesAreSpentOnce` and `OnlyGoodCodesPass` by
  `PaidIsGone` (what bought a command is neither spare nor of a batch still to come) and
  `CodeInHand` (a code that the database still has was good when its handler began).
  `LateCommandsAreRefused` by `TokenOfItsTime`.
* **RemoteCommandProofs**, DeviceActions - types. `RingsAreShown` and `StopRingSilences` by
  `RingInv`: players and timers are of rings that were started (`OfStarted`), and, until rings
  get entangled, one ring is started at a time and its slot is empty (`OneIsStarted`), a timer's
  thread runs once (`TimersFireOnce`), whoever is about to empty the slot has silenced what was
  in it, and what a STOP_RING found plays only as long as it is in the slot (`StopReaches`), and
  what plays unshown is about to be shown or silenced (`ShownOrAboutTo`). `CameraIsLetGo` by
  `CameraInUse`: the camera is open only between a worker's opening and its return.
* **LocationProofs** - types part by part; `NewestGoesOut` by `HoldsNewest` (what the daemon
  has in hand, and what it keeps, is the newest it took, but for the moment between taking and
  storing); `WishesAreKept` (a wish is lost by
  a stale one's consumption only); `FixesAnswerTheirRequest` by `AskInv` (one thread has the lock,
  no answer under way is numbered beyond the last request, and a position under the number
  waited for was taken after the thread asked); `AppKeepsWhatItOwes` by `OwedInv` (what is owed
  besides the pending position is in the hands of the thread with the lock).
* **PrivSpoolProofs** - types; `OnceEach` and `Refinement`. `AtMostOnce` says nothing of files,
  and from it alone an action that serves a request cannot be told from one that serves it
  again. The invariant `Held` adds what a file's name says: a request whose file has its final
  name has not been carried out unless it could not be claimed, what the service holds is
  claimed, and what a starting service throws away are claimed files. The refinement maps each
  step to one of PrivSpoolOnce by the fate that these names give a request. These theorems are
  about `SpoolSpec`, whose clients do what they like. They carry over to GpsCommand: its
  worker's place tells which command it has in hand (`JobHeld`), so that each request has one
  command, and each step of Next is one of SpoolNext or leaves the spool alone (a lemma,
  `SpecUsesSpool`), whence `CommandsAreServedOnce`. `ReportsAreTrue` by `ReportHeld`: a service that
  waits for ofono has reported nothing yet, and has seen no final state but the message's own;
  `RepliesAreReportedTrue` carries it over to the commands.

Proved, so that no run repeats them: the types of these modules (`TypeOK`),
`WindowsExclusive`, `NotMistaken`, `ShownIsSaved`, `EveryBumpCounts`, `StoppedIsQuiet`,
`TimerIsAlive`, `ConfirmedIsGranted`, `OneUploadJob`, `AtMostOnce`, and the camera's half of
`CaptureEnds` that is a safety property (`CameraIsLetGo`).

Only model-checked: all liveness (`LeftOnEndsOff`, `SavesGetApplied`, `PollingGoesOn`,
`HandsOver`, `HearsAgain`, `AcceptedIsExecuted`, `PhotosGetUploaded`, `SentIsSettled`,
`TakenIsDelivered`, `CommandEnds`, `SpoolComesToRest`, `RingEnds`, `CaptureEnds`), which is out
of the prover's reach. Every invariant and every action property that a passing run
checks is proved.

## 6. Where the code differs from what it says

What comments, docstrings and documents of the repository claim, and a configuration of section 3
refutes:

* MobileData_retry: a record that was kept for a retry ("Keep the record; the next session or daemon
  start retries", `mobiledata_control.py` 251) is overwritten by a session on another SIM (295), so
  that the first connection stays on. It takes a failing D-Bus call.
* MobileData_user: the user may switch mobile data on between the check and the write of
  AutoConnect (285, 296); the session then switches the user's connection off ("a connection the user
  turned on is never touched", 21-22).
* SettingsSync_exit: closing the app between writing the settings and bumping the generation loses the
  announcement (`api.py` 204-219; "the UI bumps a counter after every settings save", `runtime.py`
  8): a serving command daemon keeps the old settings and is shown as running.
* ForegroundGps_stop: a tick that has found the daemon in charge, and is overtaken by a save that
  starts the polling, stops it (`api.py` 868-869; "the running app polls GPS itself so the location
  keeps being published", 1138-1139).
* ForegroundGps_banner: a stop during a fix clears the banner before the fix fails; the tick then puts
  its banner up and nobody takes it down (834-836).
* MqttClient_close: a repair that has passed the check of `_closed` (`mqtt_client.py` 287) when `close()`
  begins makes a client after `close()` has looked for one ("Permanently shut this client down",
  387-390).
* UiCommands_flag: an ack that is handled before the worker has armed its timeout (`api.py` 983) is
  forgotten, and the device is flagged as not responding a minute later, although it answered
  ("Fired when no ack arrived in time", 1107).
* Location_wish: a fresh wish for a publication (`api.py` 803) that is written while a stale one is
  being consumed is wiped with it ("True (and clear the flag) if a fresh publish request is pending",
  `runtime.py` 216-221).
* GpsCommand_limit: the path unit starts the service again as long as any file is in the spool, the
  service removes requests only, and systemd's default limit of five starts in ten seconds holds for
  both units. A temporary file that a client left when it died (`priv_client.py` 88-99) makes them
  fail, and no later request is taken up before the device boots ("started by a `.path` unit whenever
  the spool is non-empty", `docs/TECHNICAL-INFOS.md` 156).
* UiListener_unpair: `_on_remote_location` stores a position without a look at the devices (`api.py`
  1362, `gpsstore.py` 26). One that comes in while a removal restarts the listener leaves a row of a
  device that is gone ("delete its devices row and its gpsdata rows", `devices.py` 188).
* DeviceActions_ring: two rings that are started at once, by a worker and an abandoned one, or a timer's
  thread that empties the slot (`ring_control.py` 232) after a new ring has put its player there,
  leave a player that loops in no slot: neither a STOP_RING nor a timer finds it, against "bounded
  to ~60 seconds and stopped cleanly" (5-6).

The properties of the passing runs, and the theorems, leave these cases out where they would fail for
them, each by a condition that its comment names: `exits` of `ShownIsSaved`; `raised` of ForegroundGps;
the missing D-Bus faults of MobileData_live; `webdav` of `PhotosGetUploaded` (no upload while a save has
unset the server); the one step that `OnlyStaleWipes` allows; `watching` of `CommandEnds` and
`SpoolComesToRest`, and `Leftover` of the latter; `StoresLate` of `RowsHaveDevices`; `revived` and
`failed` of `HearsItsDevices`; `entangled` and, for `RingIsShown`, `unshown` of RingControl.

Reached by the models as well:

* UiListener: the topics of a listener are recorded only if its `connect` was dispatched
  (`api.py` 1307). The daemon records them in any case, since otherwise "a single failed dispatch
  left the wish list empty for good" (`daemon_cmd.py` 941-945). A client of the app whose first
  `connect` failed and which a later publish repairs (`Revive`) is subscribed to nothing (`failed`).
* ForegroundGps: a database error in `_background_daemon_owns_gps` ends the chain with
  `_fg_gps_timer` set, so a start does nothing.
* CmdDaemon: an abandoned worker and its successor execute commands side by side, so a later
  command may run before an earlier one (`daemon_cmd.py` 676).
* MqttClient: `_refresh_connected` may overwrite a newer CONNACK's flag (519-529), and the
  health check's clock may be started on a beat already answered (451-453); both are repaired
  by one reconnect.
* UiCommands: a parked STOP_RING may be flushed after a newer RING was published; a command
  parked after its reconnect's flush waits for another reconnect. The same holds for the
  pending position in Location (`api.py` 787-793).
* Location: the row and the retained message can go back to an older position, when two
  processes store or publish in the other order, or one publishes what it kept from earlier; a
  position flushed without waiting is lost when the client is replaced before the broker has
  it.
* RemoteAuth: a code that a daemon consumed before it died is lost; an MQTT command that the broker
  delivers twice within the window of its token is carried out twice.

## 7. Not modelled

Cryptography, payloads, topics, texts, coordinates and file formats (data without influence on
the control modelled). LOCK beyond one step, the ring preview (which nothing calls), the migration of
an old schema, the QR code, the list of tones, the check of a bundled package: they share no state
with the rest, or keep none. GStreamer, D-Bus peers, geoclue, paho, systemd beyond its restarts and
start limit, and the broker beyond what its clients see (external). Exceptions of the database outside ForegroundGps (for
example in `feature_enabled`, `daemon_cmd.py` 317, or in a cycle of the GPS daemon, `daemon_gps.py`
274-280, 306) and the GPS daemon's drop of a position when MQTT is off (180-182). QML pages other than `GpsSource.qml`. Grace times
and back-off of the watchdog: a defect is repaired when its grace time has passed.

## 8. Plan

Done, in this order: MobileData, SettingsSync, ForegroundGps, MqttClient, CmdDaemon, UiCommands,
Location, PrivSpool with GpsCommand, RemoteAuth, DeviceStore with UiListener, RingControl and
CameraCapture with DeviceActions. Worth doing next:

1. A composition of CmdDaemon with a closing client that may be revived (MqttClient_close).
2. The GPS command's own publishing (`daemon_cmd.py` 469-475, 645-656) as a fourth publisher of
   Location.
3. Proofs: the steps of a daemon towards `AcceptedIsExecuted` and `PhotosGetUploaded` that do
   not need fairness (what is accepted is never dropped without a trace), and lemmas that relate
   the two copies of a listener's topics (UiListener, MqttClient).

## 9. Running

    tlc -workers 2 -config Location_all.cfg Location.tla
    tlc -workers 2 -config MobileData_live.cfg MCMobileData.tla
    tlapm LocationProofs.tla

A run's module is the part of its name before the underscore, with `MC` before it for MobileData,
GpsCommand and RemoteAuth. Each run ends within five minutes on two cores; Location_all is the longest.
