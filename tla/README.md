# Formal models of smart-air

TLA+ specifications of smart-air: an ESP32-S3 air monitor (`src/firmware`), a
Fastify server over PostgreSQL, Redis and EMQX (`src/server`) and a Flutter app
(`src/app`). The models are translated from the code. Where the documents and the
code disagree, the code is what is modelled, and the disagreement is a run of its
own (see *Findings*).

Run a model with `tlc -workers 2 -config MCCommandPath_safety.cfg MCCommandPath`,
and check the proofs with `tlapm CommandQueueProofs.tla`, and so for each module whose name ends in `Proofs`.

## The system

| Part | State it keeps | Operations | Talks to |
| --- | --- | --- | --- |
| **Command queue** (`services/commands.js`, `jobs/command-timeout.js`) | `commands` rows, a PostgreSQL advisory lock per device | enqueue, flush, revert, sweep | bridge, event log |
| **MQTT bridge** (`plugins/mqtt.js`, `services/mqtt-handlers.js`) | one persistent session, unacknowledged publishes | publish with a timer; status, telemetry, response, shadow and OTA handlers; manual acknowledgement | EMQX, every service |
| **Shadow** (`services/shadow.js`, `routes/shadow.js`) | `device_shadows` rows, a versioned Redis copy, in-flight reads | report, set desired, read | bridge, Redis |
| **Provisioning** (`routes/devices.js`, `services/emqx.js`, `services/device-cleanup.js`) | `devices` rows, EMQX users, cleanup jobs | register, delete, retry | EMQX's HTTP API |
| **Authentication** (`routes/auth.js`) | refresh tokens and reuse markers | login, refresh, logout | app |
| **Realtime events** (`services/realtime-events.js`, `plugins/realtime.js`) | `realtime_events` rows, SSE clients | append, notify, replay, retain | app |
| **Device command handling** (`sa_mqtt/mqtt.c`, `sysload/sysload.c`) | cache of 20 tracked commands, calibration queue of 2 | receive, execute, defer, acknowledge | EMQX |
| **Relays and mode** (`relay.c`, `device_mode.c`) | relay levels, mode, both in NVS | set, force off, roll back | commands, shadow |
| **Sensor task** (`sensor_task.c`) | a gate, one unsent payload per stream | measure, publish, keep for later | shadow, mode |
| **Flash lock and factory reset** (`config.c`, `factory_reset.c`) | a flag and a lock for every access to NVS | begin, end, erase | all writers, MQTT client |
| **OTA** (`ota/ota.c`) | a queue of one message, two application slots, which of them boots | trigger, download, verify, switch, validate | server, display |
| **Boot, local configuration** (`sysload.c`, `httpd.c`, `config.c`) | the boot stage, a failure counter in RTC memory, the MQTT secret in NVS | start a stage, restart, safe mode; store the secret | all tasks |
| **Wi-Fi, BLE provisioning** (`wifi.c`, `ble_prov.c`) | two event groups with counts of their users, a reconnect budget, credentials in RAM and NVS | connect, deinit, provision, save | boot, app, access point |
| **MQTT client** (`sa_mqtt/mqtt.c`) | `s_client` with a count of its users, reassembly buffers, registered handlers | start, subscribe, announce, route, publish, stop | EMQX, every task |
| **Display** (`display_service.c`) | `s_state` under a lock, widgets, the panel | start with a time limit, set, render, flush | boot, mode, sensors, OTA |
| **Status LED, buzzer** (`led.c`, `buzzer.c`) | the state to show; a queue of steps | set, blink; queue a pattern, play | boot, MQTT, reset button, relays |
| **App** (`app/lib`) | tokens, event stream, optimistic device state | refresh, stream, command | server |

What is hard in it, part by part, with the properties that make it correct:

* *Command queue.* Requests, flushes, answers and sweeps interleave at every await.
  A publish can time out after it was delivered, the process can die anywhere. Commands
  must go out in order, end once, and end as the event log says.
* *Device command handling.* The MQTT task and the calibration task share the cache; QoS 1
  and the server's retries repeat commands. A repeat must not run again; a
  command in progress must not lose its entry.
* *Shadow.* A load and a write cross on their way to Redis, and loads are shared: who reads must see
  the writes that were answered.
* *Provisioning.* Two systems without a common transaction: no user left for a device that was deleted or
  never registered, and none taken from one that is.
* *Authentication.* Refreshes overlap and are retried: a session keeps one token, is not lost to a retry, and
  a reuse is noticed.
* *Realtime events.* A client sees every event once and in order across reconnections.
* *Relays and mode.* What is switched, stored and reported must agree after any
  failed write or restart, and no relay may be on while the mode is off.
* *Flash lock and factory reset.* Writers of four tasks meet a reset that erases what they
  write, and that waits for one of them to stop.
* *OTA, boot.* Whatever fails, an unverified image must not boot and an image that never
  became ready must not boot for ever; the secret that arrives over HTTP must be used.
* *Wi-Fi, BLE provisioning.* Five tasks share event groups that one of them deletes and
  buffers without a lock; the boot waits without a time limit; a restart may come between two
  writes of the flash.
* *MQTT client.* `mqtt_stop` destroys what publishers and the event handler use; a device must
  not say it is online before it can hear, and must not stay offline after a refusal.
* *Display.* A start that is given up while its task goes on; messages whose time races the next
  update; widgets that remember older views.
* *Status LED, buzzer.* Sets, blinks and writes interleave, and the last one set must be shown;
  two tasks beep at once and patterns must neither mix nor be cut.
* *App.* One refresh at a time; the stream resumes where it stopped.

`PROJECT.json` lists these hazards at their lines, with the property that covers each
or the reason why none does yet.

## The modules

| Module | Models |
| --- | --- |
| `CommandLifecycle` | The abstract promise: a row is pending or sent until it reaches one final state, and only that state is announced. |
| `CommandQueue` | `commands.js`, `command-timeout.js`, the bridge's publish and acknowledgement, the status and response handlers; refines `CommandLifecycle`. |
| `CommandDevice` | The firmware's command handler, its cache, the calibration task, and what factory resets and restarts do to them. |
| `CommandPath` | `CommandQueue` and `CommandDevice` joined by the broker. |
| `CommandQueueProofs`, `CommandPathProofs` | Theorems about `CommandQueue` and about `CommandPath`. |
| `CommandDeviceProofs`, `MCCommandDeviceProofs` | Theorems about `CommandDevice`, and about the two cases of its run. |
| `RelayPanel` | The abstract promise of relays and mode: relays move one at a time and only in mode on; the mode goes off, or comes back off, only with every relay off. |
| `DeviceControl` | `relay.c`, `device_mode.c`, `config.c`'s lock, `factory_reset.c`, `sensor_task.c`, and the handlers of `sysload.c` that call them; refines `RelayPanel`. |
| `DeviceControlProofs` | Theorems about `DeviceControl`. |
| `FirmwareBoot` | The life of the firmware across restarts: boot stages, failure counter, safe mode, the secret over HTTP, the update task and the boot slots. |
| `WifiStation` | `wifi.c`: the station shared by its caller, the event loop and the factory reset. |
| `BleProvisioning` | Extends `WifiStation` by `ble_prov.c`, the boot stages up to Wi-Fi and the reset that may come in each of them. |
| `BleProvisioningProofs` | Theorems about `BleProvisioning`. |
| `MqttClient` | `mqtt.c` apart from commands: client handle, connection, subscriptions, reassembly, routing, `mqtt_stop`. |
| `DisplayService` | `display_service.c`, and what the update task reports to it. |
| `StatusLed` | `led.c` with those who set it, among them the button's task of `factory_reset.c`. |
| `Buzzer` | `buzzer.c` with the tasks that beep. |
| `AuthSession` | `auth.js`'s refresh tokens of one user: login, refresh, reuse, logout, expiry and the sweeps. |
| `DeviceRegistration` | One device id between `devices` and EMQX: registration, deletion, `device-cleanup.js` and its retry job. |
| `DeviceShadow` | `shadow.js`: a row, its copy in Redis, joined loads; the calls that read, set what is desired and report. |
| `MCServerServices` | One instance of each of the server's services, for one run (below). |
| `ServerServicesProofs` | Theorems about `AuthSession`, `DeviceRegistration`, `DeviceShadow` and `MCServerServices`. |
| `MCFirmwareServices` | One instance of each of the services that share no state with another, for one run (below). |
| `FirmwareServicesProofs` | Theorems about `FirmwareBoot`, `MqttClient`, `DisplayService`, `StatusLed`, `Buzzer` and `MCFirmwareServices`. |
| other `MC...` | Instances for TLC: symmetry, constraints, several sets of constants at once. |

How they compose: `CommandPath` joins `CommandQueue` and `CommandDevice`; `BleProvisioning`
extends `WifiStation`; `DeviceControl` joins relays, mode, flash lock, sensor task and reset.
What another module models in detail is a step here: the Wi-Fi stage of `FirmwareBoot` is
`BleProvisioning`; a command in `MqttClient` is `CommandDevice`; `mqtt_stop` in `CommandDevice`,
`DeviceControl` and `StatusLed` is `MqttClient`.

### CommandQueue

One device, whose commands are numbered by `created_at`; devices share no row and no
lock. Every SQL statement outside a transaction, and every transaction, is one
action; what Node does between two awaits belongs to the action before it.

| In the model | In the code |
| --- | --- |
| `status`, `aged` | `commands.status`; whether `created_at` and `sent_at` are past their deadlines |
| `ended` | `command.updated` events of final statuses (their idempotency key makes them a set) |
| `request[c]` | where the `sendCommand` of `c` is |
| `flusher[f]` | where a `flushPending` call is: those started by requests (`Worker`), and the one the status handler awaits (`Bridge`) |
| `lock` | holder of `pg_try_advisory_lock` |
| `handler` | where `handleMessage` is with the head of `inbound` |
| `ready`, `outbox` | `mqttIsReady()`, and publishes without a PUBACK |
| `published` | an observer: what the broker has received |

`Enqueue`, `AnnounceEnqueued` and `StartFlush` are `sendCommand`; `Lock`,
`FlushEmpty`, `FlushExpired`, `Dispatch`, `Publish`, `PublishDone`, `Revert`,
`AnnounceRequeued` and `Unlock` are the loop of `flushPending`; `PromoteResponse`,
`SettleResponse`, `IgnoreResponse` and `AnnounceVerdict` are `handleResponse`; `Sweep` is
the job. Failures, each spending one of `MaxFaults`: a throwing statement (`RequestFails`,
`FlushRollsBack`, `RevertFails`, `ResponseFails`), a publish timer (`PublishTimesOut`), a
lost PostgreSQL session (`SessionLost`), a lost connection, a lost PUBACK and a
crash of the API process. One timeout is free: the bridge's client hands packets to
`handleMessage` one at a time, so the PUBACK of the publish that `handleStatus` itself awaits
may wait behind that very handler.

Left out: the retries of EMQX within a connection, message contents, events of the open
statuses. Deadlines pass at any time after they start (they are not measured), older rows
first.

### CommandDevice

| In the model | In the code |
| --- | --- |
| `rx` | where the MQTT event handler is with a command message |
| `tracked`, `since` | `s_tracked_commands`: the state of each entry; generations, as the set of commands written to the cache after each |
| `queue`, `worker` | `s_calibration_queue` and `calibration_task` |
| `reset` | where `factory_reset_run` is |
| `runs`, `told` | observers: executions, and responses handed to the client |

Each critical section on the cache is an action. `Receive` is the handler's lookup,
`Claim` its first write; `Execute` and `Refuse` run or reject a command in the handler;
`Defer` and `QueueFull` are `queue_calibration_request`; `AckRx`/`ReplyRx` and
`AckWorker`/`ReplyWorker` are the two halves of `mqtt_publish_command_ack_internal`, the
cache and then the outbox. Generations are compared, never counted: their wrap after 2^32
writes is not modelled. A factory reset stops the client in the order of `mqtt_stop`.

### CommandPath

Adds `wire` (the device's clean session: messages for an absent device are dropped),
`replies` (the outbox of the device's client, in RAM) and `effects` (commands ever
executed). Factory resets are left to `CommandDevice`.

### DeviceControl

| In the model | In the code |
| --- | --- |
| `device` | which faults may strike, whether a sensor answered at boot, and whether its one clock never goes back (`steady`): chosen at the start, for good |
| `phase` | the boot stage, the running device, or safe mode |
| `mode`, `state`, `gpio`, `nvs` | `s_mode_on`, `s_state`, the pins, the keys in flash |
| `flag`, `lock` | `s_factory_reset_in_progress`, `s_nvs_write_lock` and who holds it |
| `task` | where the boot stage or the MQTT event handler is, and its locals: the relay in hand, its previous state, `first_err` (`failed`), and the error of forcing the relays off (`stuck`) |
| `task.job` | what is left of the message being served: a command names one key, a patch of `shadow/get_response` may name several |
| `reset`, `mqtt` | where `factory_reset_run` is; how far `mqtt_stop` has come |
| `sensor`, `sensors` | where `sensor_task_fn` is, with the payloads it keeps; its gate |
| `clock`, `reported` | `time(NULL)`; the shadow the server keeps |
| `missed`, `outdated` | observers: since the last connection a report of a relay or of the mode was lost, or the server refused one as older than what it has |

`RelaySet`, `Rollback`, `RelayDelta` and `ForceChannel` are `relay.c`; `ModeOn`,
`ModeOff`, `ForcedOff`, `ReportOff` and `ReportOn` are `device_mode_set`. Each save
is three steps, `GuardWrite` (the flag), `TakeLock` (the lock, the flag again) and `Write`,
and `Saved` says what its caller does with the outcome. A failed commit may have
stored the value. `Reset...` are the steps of `factory_reset_run`, with `mqtt_stop`'s
three parts. The sensor task reads its gate, measures while anything may happen, then
publishes to two topics.

Two clocks stamp the reports. The sensor task takes the DS3231's time, if it can read it (`SensorTime`), everything else
`time(NULL)`, which is set at boot from the DS3231 or the time of the build, then by SNTP if it answers, and by
`set_time` (`Tick`). On a device that is not `steady` both may show any second at any time. A `steady` device has no
DS3231, found the network's time at every boot, and no `set_time` turns it back; SNTP is stopped after the boot's
synchronisation (`sysload.c:250`).

Abstracted: a report is merged by the server when it is sent (a connected client
delivers in order), under the server's own rule about `ts`; a client that cannot send
loses the report, where the real one may keep it in its outbox until it reconnects and
reports everything anyway; `esp_mqtt_client_stop` is taken to wait for the end of the
handler, as ESP-IDF documents. Left out: display, buzzer and LED; the values measured;
malformed messages, which change no state. `relay_init` reads and drives all relays in
one step, before any other task looks at them.

### FirmwareBoot

| In the model | In the code |
| --- | --- |
| `stage`, `failures` | where `sysload_init` is; `s_boot_failure_count` |
| `stored`, `secret`, `post` | the MQTT secret in NVS, the boot's copy of it, and `config_post_handler` between its look and its store |
| `image`, `bootSlot`, `fresh`, `running` | the two application slots, what `otadata` says of them, and the slot that runs |
| `queue`, `ota`, `message` | `s_ota_queue` and `ota_task_fn` |
| `build` | what ESP-IDF was configured to do: roll back or not, keep the counter over a restart or not |
| `trial`, `unrestarted` | observers: boots of an unproven image; a stored secret whose restart could not be started |

`BootLoader` is ESP-IDF's; `StageDone`, `StageFails` and `BootError` are the stages with
`reboot_after_boot_error`; `Commit` is `ota_validate_and_commit`. `Secrets` are told apart by their
length only: `config_get_mqtt_creds` has 64 bytes, `config_set_mqtt_config` stores more.
`BootAssumption` says of the updates only that one without a digest, or with the digest of what it
downloads, is an image built for this device: whoever publishes updates owes that.

### WifiStation and BleProvisioning

Each has an event group with a count of its users: `group`, `users`, `bits` are `s_wifi_eg`,
`eg`, `egUsers`, `egBits` are `s_prov_eg`. `events` are what the driver has posted and the event
loop has not handled. `task`, `host`, `boot`, `reset` are the places of `prov_task`, the NimBLE
host, `sysload_init` and `factory_reset_run`; `buffer` is `s_ssid`/`s_password`, which the host
overwrites at any time; `flash` is the namespace `wifi_prov`, written key by key (`Save`), as the code
does. `PowerLoss` restarts the device at any step. NimBLE and the Wi-Fi driver are taken to call back in
the order of what happened. `BleAssumption`: `prov_chr_access` refuses an empty SSID, and what the
station is configured with is what a phone wrote.

### MqttClient

`handle` and `users` are `s_client` and `s_client_users`; `client`, `connected`, `asked` are the
esp-mqtt object below them; `pc`, `held`, `todo`, `message`, `rx` are the event handler; `link`,
`subscribed`, `refused`, `will` and `status` are the broker's side. The library runs the handler
under its own lock, and publishers wait for it (`Unlocked`).

### DisplayService, StatusLed, Buzzer

`DisplayService` keeps what a view would show as a record (`widgets`), changed as the code
changes its widgets, and compares it with `Wanted`, the picture the state asks for. Time is
counted in the units of the initialisation's time limit and of the messages' time. `StatusLed`
separates a set (`state`, `on`), the notification, what the task has read (`colour`) and what is
shown. In `Buzzer` a step carries the pattern it belongs to, an observer of what the code queues.

### AuthSession, DeviceRegistration, DeviceShadow

Each follows a request from one statement, or one call to another system, to the next; what
Node does between two awaits belongs to the step before it.

| In the model | In the code |
| --- | --- |
| `rows`, `marker`, `expired` | `refresh_tokens`, `refresh_token_reuse_markers` with the five seconds of grace, `expires_at` of both |
| `asked`, `next`, `seen`, `holds` | a transaction: the token it was given, the successor it has inserted, the rows its `DELETE` found when it started, its row locks |
| `session`, `ended`, `known` | observers: which tokens succeed one another; what a logout or a reuse ended; tokens clients may hold |
| `device`, `user`, `rules`, `job` | the `devices` row; the broker's user, named by whose secret it has, and its rules; `external_cleanup_jobs` |
| `row`, `cache`, `leader` | `device_shadows`, the copy in Redis, `inflightShadowReads` |
| `start`, `got`, `floor`, `acked` | a call: the `NOW()` of its statement, the shadow it has; observers: the writes answered before it came, and in all |

`AuthSession` gives PostgreSQL's READ COMMITTED what the code relies on: a statement sees what was committed when
it started, waits for locked rows and leaves out those that are gone. In `DeviceRegistration` a call to
EMQX that timed out may have been done; registrations, deletions and the retry job start whenever they like, also
while others are on their way. Three observers follow who acts on an old look: `behind` are those who looked for
the row, or armed the job, while or before another request was on its way; `taken` the registrations whose user or rules
one of them took; `dropped` says that one of them removed the last job. A shadow's
contents are the number of writes merged into it, its version the time of the last one. Left out:
the checks of passwords and of rights, which refuse before anything changes; the deletion of the copy with its device;
the publication of `shadow/get_response`.

## The runs

| Run | Question | Instance |
| --- | --- | --- |
| `path_safety` | Does every interleaving of the queue keep the lifecycle's promise, one verdict per command, commands in order; and does done mean executed, end to end? | two cases: the queue alone with 2 commands, 2 request flushes and the bridge's, 1 failure; and joined with the device: 1 command, 1 failure on either side |
| `path_answer` | Is every delivered command answered, and every one the device took across a reconnection? | 2 commands, 1 deferred, and a device that stays; or 1 command and a device that leaves or restarts once |
| `device` | Does a command run once and get one answer; does eviction take only what is finished and old? | two cases: 3 commands (2 deferred), 2 failures, factory resets; and 4 commands without failures; cache 3, queue 1 |
| `control_safety` | Do relays and mode keep `RelayPanel`'s promise, the flash its lock, an off mode its relays off; do flash and shadow agree with the board between two jobs? | 2 relays; four devices: a sensor and two seconds; a sensor, two seconds and clocks that differ and are set; a sensor and lost reports; failing flash and erasure |
| `boot_provisioning` | Is an event group never used after its deletion, the flash complete when it says so, the phone told the truth, and does nobody wait for ever? | 2 networks, 1 accepted; 3 writes, 1 lost link, 1 reconnection |
| `server_services` | Does every command end and every flush give the lock back; does a session keep one token; does a device keep its user, and no user stay without one; are reads of a shadow fresh? | below |
| `firmware_services` | Does each service keep its safety properties and, under its tasks' fairness, get done what it promises? | below |
| `queue_wakeup`, `path_offline`, `control_hang`, `boot_stored`, `boot_loop` | Findings, below | 2 commands; 1 command; 1 relay; as `boot_provisioning`; 1 update, no chance failure |

`case` and `service`. Some runs ask their question of several instances: a variable that never
changes says which one, and only that one takes steps. A behaviour of the run is a
behaviour of one instance, so an invariant or a temporal formula over the variables of an instance means
what it means there. `MCFirmwareServices` holds the boot (3 failures to safe mode, 2
updates out of good, faulty and wrong images, 2 faults), the MQTT client (3 faults, 1 message, 1 publisher), the
display (2 updates, changes and faults in all), the LED, the buzzer (2 callers,
patterns of 1 and 5 steps, the code's queue of 8, 2 failures in a row), and `DeviceControl`
with one relay, whose flash, pins and erasure may fail, for the liveness of a reset.
`MCServerServices` holds the queue (1 command, 2 failures, sessions may die), the sessions (3 tokens, 2
requests, any of which may fail), the registration (3 requests and the retry job, 2 failures or restarts) and the
shadow (3 calls, 1 failure). The
fairness conditions of different instances are joined under one `WF` where at most one of the joined actions
can be enabled in a behaviour.

Why these bounds are enough to be interesting: two commands are the least that can
overtake each other, and commands meet only through the order of the queue and the
lock; two flushes are the least that contend for the lock, and the bridge's is a third;
one failure reaches every single error path at every point, and a second one the failure of the
repair itself. A cache of 3 with a queue of 1 is the smallest one in
which a waiting, a running and a finished command compete for a slot (the
code's 20 and 2 satisfy the same assumption, `CacheSize > QueueLen + 1`); four
commands overflow it. `MaxInbound` and `MaxWire` bound what waits at the broker.
Two relays are the least for which the order of forcing and a patch that fails half-way
matter; two seconds are the least in which a report can be old, new or of the same second. The
faults of `DeviceControl` are not counted but named (its variable `device`): each may strike every time.
`control_safety` leaves out a failing `gpio_set_level` (it fails only for an
invalid pin; the proofs of the other properties allow it). After a failed save the code itself
returns an error and leaves flash or shadow behind, so `IdleIsDurable` and the relays of
`ReportsAreTrue` are not asked of the device with a failing flash. Factory resets of
the others, and in the case of the run `device` with four commands, are cut off (`OneQuestionEach`,
`BeforeReset`); the theorems about `DeviceControl` and `CommandDevice` include them.
Three tokens are a login with two exchanges, or two sessions and an exchange. Three requests are a
registration, a deletion and a registration again; two failures the call and its repair. `FewAtOnce` has the requests, which
are alike, begin in one order; the retry job runs beside them at any time. A first request may meet both failures; two may overlap
and meet one; of all three two overlap where nothing fails, or none where one call does. It keeps requests from beginning and
calls from failing, which no fairness asks for. The theorem about `SecretIsValid` has no such bound.
Of the shadow's three calls one loads, one joins or reads the copy, and one writes.
`ReadsAreFresh` speaks of the time while Redis works and writes commit in the order of their versions;
`SecretIsValid` leaves out the registrations whose user was `taken`, `OrphanIsRemoved` a job that was `dropped`, and
`ReportsAreTrue`, on a device that is not `steady`, the time after a report was `outdated`: beyond, the code does not keep
them (*Other disagreements*).
Lost sessions are excluded from `path_safety` on purpose: when PostgreSQL drops the session that
holds the lock, a second loop may start beside the first one and `FifoOnWire` fails. The other
properties of the queue hold with lost sessions too: they are proved.
Two networks are the least in which a phone can overwrite one by another; three writes are
two credentials and one change of mind. Three faults reach a refused subscription, then a failed
reconnection, then one more during `mqtt_stop`. A limit of 3 boot failures is one more than two
restarts; two updates are the least in which one meets the other's message or slot.
`Bounds` caps the sum of the display's counters at 2, and asks for none of them where the display did not start:
states beyond are not explored, which hides longer stories and invents none.

Symmetry is used in safety runs only: request flushes among themselves, and
commands of one kind among themselves (the device orders commands by arrival). Calls of the shadow and tokens are
numbered as they come instead.

`CHECK_DEADLOCK FALSE` is set where the system may stop: the path runs, once every
command has ended and nobody issues another; the control runs, in safe mode or in the hang
described below; the boot and the services, the server's among them, when every bounded event has happened.

### Fairness

`FairSpec` of `CommandQueue`: Node runs each continuation it has scheduled (weak fairness
per request, flush and handler), the interval job fires forever (`Sweep`), a connected client
transmits and reconnects, and time passes. Users, the device and failures owe nothing.
`PromptSpec` and `PromptPathSpec` drop time: they speak of the minutes before any
deadline, where a command's fate depends on the protocol alone.
On the device's side of `PromptPathSpec`, FreeRTOS runs the client's task and the calibration
task, a device that is away comes back and its outbox is sent. `DeviceSends` is strongly
fair because the bound `MaxInbound` disables it again and again. `CommandDevice` alone has
no fairness: its properties are safety.

`DeviceRegistration`: a request that has begun goes on, time passes, and the retry job comes again and
again, waiting for nobody. `AuthSession` and `DeviceShadow` have no fairness: their properties are safety.

`DeviceControl`: FreeRTOS runs the boot, the event handler and the reset, every other
writer gives the lock back, and the lock's waiting list reaches the reset however often
others take the lock (strong fairness of `ResetLocks`). Messages, sensor rounds, faults and time
owe nothing.

The other firmware modules: weak fairness of each task, since FreeRTOS runs a task that is
ready and every one of them blocks in its loop. Of the library below a task only what the
code relies on is fair: esp-mqtt reconnects, the broker publishes a will, a timer expires, a
restart boots. Phones, buttons, messages, access points, faults and losses of power owe
nothing. Only the buzzer's mutex needs strong fairness (`Takes`): FreeRTOS gives it to
the first that waits, whoever else keeps coming back.

### Findings

* `EnqueuedIsPublished` (`queue_wakeup`): a lost wakeup between "queue empty" and unlock.
* `OfflineIsDelivered` (`path_offline`): commands for an offline device are published
  at once to nobody and marked sent, so there is nothing to flush when it returns.
* `ResetEnds` (`control_hang`): the handler waits for the flash lock held by a factory
  reset, which waits for the handler's task to end. `ResetEndsUnlessAwaited`
  (`firmware_services`) shows that this is the only way a reset can hang.
* `SavedIsWhatConnected` (`boot_stored`): `prov_task` stores whatever the phone wrote last, not
  what it connected with.
* `BootSettles` (`boot_loop`): the failure counter lies in `RTC_DATA_ATTR` memory, which ESP-IDF
  loads anew after `esp_restart`; the limit is never reached and a failing boot restarts for
  ever. `CountedBootSettles` (in `BootsEnd`, `firmware_services`) shows that the logic holds with a counter that is kept.

### Other disagreements

More were met while modelling. They have no run of their own. For those of the first list the
formula that TLC refutes is given.

* *A verdict that is never announced* (`mqtt-handlers.js:307-330`). The row is updated
  before its event is written; if the event fails, the redelivered answer is treated as a
  duplicate. `docs/ARCHITECTURE_SERVER.md:368` says `handleResponse()` then creates
  `command.updated`. In `CommandQueue`, under `FairSpec` with one fault:
  `status[c] \in {"done", "error"} ~> ended[c] = {status[c]}`.
* *An answer that is dropped* (`mqtt-handlers.js:299-332`). A publish times out after its
  delivery, and its revert commits between `handleResponse`'s two updates: the answer of an
  executed command is acknowledged without a trace. In `CommandPath`, under
  `PromptPathSpec` with one fault:
  `(\E i \in DOMAIN inbound : inbound[i].cmd = c) ~> status[c] \in Terminal`.
* *A forced off that is not saved* (`relay.c:323`). A failed save is not retried when the mode
  is set off again, since `s_state` is off already, and the flash keeps the relay on;
  `docs/ARCHITECTURE_FIRMWARE.md:436` says each relay is saved as off. (A restart still
  forces it off, which `OffMeansOff` shows.) In `DeviceControl` with failing
  saves: `phase = "run" /\ task.pc = "idle" /\ ~mode => nvs.relay = AllOff`.
* *A late report* (`sensor_task.c:210`). The sensor task passes its gate, the mode goes off,
  and its report of mode on comes after; the server accepts it within the same second.
  `docs/ARCHITECTURE_FIRMWARE.md:410` calls the sensor's reports gated. In `DeviceControl`
  with a sensor: `phase = "run" /\ task.pc = "idle" /\ mqtt = "up" /\ ~missed /\ ~outdated /\ ~mode => ~reported.mode`.
* *A report that is refused* (`relay.c:139`). Reports of relays and of the mode carry `time(NULL)`, the sensor's the
  DS3231's time (`sensor_task.c:248-284`). Where that is a second ahead, a relay that is switched right after a round of
  the sensor task is reported with an older `ts`, and the server drops the report (`shadow.js:230-237`): nothing failed, and the shadow
  shows the relay as it was, until the next report that names it. `docs/API_REFERENCE.md:601` says "older reports are ignored
  so out-of-order MQTT delivery cannot overwrite newer state"; this one is the newer state. `set_time` to an earlier time
  does the same without a DS3231. In `DeviceControl` with a device that is not `steady`:
  `ReportsAreTrue` without `outdated => Steady`.
* *A logout that is not everywhere* (`auth.js:17`). Its `DELETE` sees the tokens there when it starts; a refresh that
  holds one of them commits the successor meanwhile, which stays. `docs/API_REFERENCE.md:252` says "logout
  everywhere". In `AuthSession`:
  `[][\A r \in Request : pc[r] = "logout" /\ Deleted(r) => \A t \in rows' : session[t] \notin Sessions(seen[r])]_vars`.
* *A device without its user* (`device-cleanup.js:89`). A cleanup looks for the row, a registration inserts it, and the
  cleanup then deletes that registration's user. Of two registrations at one time the second is refused by EMQX and
  cleans up so. But requests one after another are enough: the retry job takes up the job a registration
  has armed a minute before, or one of an earlier failure, while the registration is about to insert.
  `device-cleanup-guard.test.js:6` has the user kept when the row exists. In `DeviceRegistration`, without any fault:
  `device # Nobody => user = device`.
* *A user without its device* (`device-cleanup.js:113`, `devices.js:160`). Whoever ends removes the cleanup job, also one that
  another request has come to rely on: a retry job that had looked before removes the job a new registration
  has armed, or a registration that ends the job of a deletion that came in between. If the server restarts before that request
  is through, nothing removes the user. `docs/API_REFERENCE.md:491` has the job armed "so that an orphan credential has a way to
  be cleaned up if the process crashes halfway" (in Vietnamese). In `DeviceRegistration` with one fault:
  `OrphanIsRemoved` without `dropped`.

Seen in the source while its model was written, and part of the model as the code has it:

* *A will that is not published* (`mqtt.c:451`, `mqtt.c:672`). A forced reconnection sends a DISCONNECT, upon
  which the broker drops the will: a device that does not come back stays shown online.
  `OfflineIsShown` (in `StatusSettles`) exempts it (`forced`).
* *Fragmented messages* (`mqtt.c:159`). `mqtt_pending_rx_append` refuses an event without a topic, and esp-mqtt names the
  topic in the first fragment only: a message longer than the client's buffer is never put together. A message is
  taken or dropped as a whole here.
* *A slow duplicate* (`auth.js:44`). A refresh that waits longer than the grace period for the exchange it repeats is
  taken for a reuse and ends all sessions; `docs/API_REFERENCE.md:236` has the loser of a race refused only.
  `Commit` lets the grace be over at once.
* *A copy behind its row* (`shadow.js:126-133`, `shadow.js:19`). A failed Redis write deletes the copy, but a load that
  had read the older row may then store it, and the `DEL` may fail as well; of two upserts the one that
  commits last may have the older version. `docs/API_REFERENCE.md:600`: "a failed write clears the key so stale Redis state
  cannot outrun Postgres". `sound` marks both in `DeviceShadow`.
* *A target that was checked against the past* (`routes/shadow.js:77`). `PUT desired` validates a relay against the
  mode it read; another PUT turns the mode off before its upsert.
* *A refusal on the screen* (`ota.c:268`). `ota_trigger` reports "busy" after it has found the queue
  full; if the running update has ended meanwhile, the update screen comes back and nothing ends it
  but the message's time and the next update (`stray` in `PanelSettles`).
* *Given up, still running* (`display_service.c:1131`). A start that takes longer than its limit is abandoned and
  its buffers and semaphore are freed, while `display_task` goes on using them. `HeadlessIsSafe` shows that
  nothing else leads there.
* *Relays that are not drawn* (`display_service.c`). The display keeps the relays' state and has no widget for it.
* *A stale LED* (`factory_reset.c`). A cancelled hold puts back the state it had read before; what MQTT has set
  meanwhile is lost until its next event. During a hold MQTT's events cover the red blink.
  "Solid red: point of no return" (`factory_reset.c:56`) is covered by the yellow of the disconnection that
  the reset itself causes. `LED_STATE_OTA` is never set.
* *A beep that goes on* (`buzzer.c`). A failed switch-off is logged; the buzzer sounds until the next pattern (`stuck`).

## The proofs

`CommandQueueProofs` proves for every value of the constants:

* `TypeCorrect`: `Spec => []TypeOK`;
* `VerdictsAgree`: `Spec => []VerdictMatchesRow`;
* `FinalStays`: `Spec => FinalIsFinal`, no step moves a finished command (no run of its own: it
  follows from the refinement, which a run checks);
* `QueueImplementsLifecycle`: `Spec => Lifecycle!Spec`;
* `FifoAlways`: `Spec => []FifoOnWire`, where PostgreSQL keeps its sessions (`~SessionsMayDie`).

They follow from one inductive invariant, `Inv`. `VerdictMatchesRow` alone is not
inductive: `AnnounceVerdict` writes the status named by the message, so the induction
must know that a handler about to announce holds an answer equal to the row
(`HandlerInv`), which nothing may change meanwhile. `FlusherInv` says that a flush past
its dispatch works for a real command; `OutboxInv` and `BridgeInv` say that a publish's
owner awaits exactly that publish and that only the status handler starts the bridge's
flush, so a PUBACK moves no other flush. The refinement needs one lemma per step
(`LifecycleStep`): every action maps to one step of the lifecycle or to a stutter.
Assumptions used: `QueueAssumption` and `NoFlusherAssumption`.

`FifoOnWire` alone says nothing of a command that left its row but not yet the bridge. `FifoInv` adds that only the
holder of the lock is past it (`LockInv`), that rows are inserted in order (`PrefixInv`), and that whatever precedes a command
on its way to the broker is there already or has left the queue for good (`OrderInv`): with the lock a revert cannot
put a command back behind one that a second loop has taken.

`CommandPathProofs` proves, for any number of commands, flushes, losses and restarts:

* `PathDoneMeansExecuted` and, for the run's instances, `DoneMeansExecutedAlways`: `[]DeviceDoneMeansExecuted`;
* `RepeatsRunOnceAlways`: `PathSpec => []RepeatsRunOnce`, where the cache has room for every command.

A step of the path is a step of `CommandQueue` and a step of `CommandDevice`, or a stutter of either (`PathIsQueue`,
`PathIsDevice`), so what their proofs say holds here and is cited. `PathInv` adds what travels: wherever the device says
"done" - in its handler, its calibration task, its cache, at the broker or in the row - the command
was executed. Assumptions used: `QueueAssumption`, `PathAssumption`.

`DeviceControlProofs` proves, for any number of relays, any set of faults and any clock:

* `ControlTypeOK`: `Spec => []TypeOK`;
* `ControlWritesAreExclusive`: `Spec => WritesAreExclusive`, only the holder of the lock changes the
  flash (proved only);
* `ControlErasedStaysErased`: `Spec => []ErasedStaysErased`;
* `ControlImplementsPanel`: `Spec => Panel!Spec`, failing pins included: it speaks of `s_state`;
* `ControlOffMeansOff`: `Spec => []OffMeansOff`, provided no device has a pin that fails;
* `ControlIdleIsDurable`: `Spec => []IdleIsDurable`, and `ControlReportsAreTrue`: `Spec => []ReportsAreTrue`; what these
  two ask of the device's faults is part of the properties.

Their inductive invariant, also called `Inv`, says what the handler knows between two steps: in which
mode it is (`ModeInv`), that the relays before the one in hand are off while they are
forced off (`ForceInv`), that an off mode has every relay off (`OffInv`), and who holds the
lock where (`LockInv`). `OffInv` alone is not inductive: a relay could be switched between
the forcing and `s_mode_on = false`, had `ModeInv` not tied both to one task. `KeptInv` adds
that the flash differs from the board in what the handler is about to save at most, and that nothing is ever rolled back while
the flash works and no reset has raised its flag (`FlagInv`). `ShownInv` says the same of the server's shadow: it lacks at
most the relay of the command in hand, or nothing can be said while relays are forced off, which then
succeeds (`StuckInv`) and is reported; unless a report was missed or refused. That none is refused where one clock that never
goes back stamps all of them is `ClockInv`. The
refinement needs no lemma per action but one (`RelayMoves`): only three actions move a relay while
the device runs, each by one relay in mode on; `OffInv` gives the rest. Assumption used:
`ControlAssumption`.

`CommandDeviceProofs` proves, for any number of commands, any size of the cache, any length of the calibration queue
shorter than it by two, any faults and any factory resets:

* `RunsOnceAlways`: `Spec => []RunsOnce`, and `OneAnswerAlways`: `Spec => []OneAnswer`;
* `RunningIsTrackedAlways`: `Spec => []RunningIsTracked`;
* `DedupeWindowAlways`: `Spec => []DedupeWindow`;
* `DeviceTypeOK`: `Spec => []TypeOK`;

and `MCCommandDeviceProofs`, for the two cases the run checks, `CaseRunsOnceAlways` and `CaseCacheHoldsAlways`.

With room in the cache nothing is evicted (`NoEviction`, by cardinalities). `Inv` ties a command's entry to
where the command is while the client lives: claimed, dispatched, in the queue once, with the calibration task,
or about to be answered with what the entry says (`EntryInv`, `PlaceInv`, `RunInv`). `RunsOnce` alone is not
inductive: it must be known that what is pending waits in one place, and what waits has not run. `mqtt_stop`
clears the cache, which ends `Inv`'s second half, until a restart establishes it anew.

Where the cache may be full, `CacheInv` takes `Inv`'s place. The generations order the entries (`AgeInv`), so there is an
oldest (`OldestExists`, by the least number of entries that are not newer). Among the pending ones this order is that of the
line: first the commands whose calibration a beginning reset made give up, which stay pending and wait for nothing, then the one
that runs, those in the queue, the one being handled (`LineInv`). What waits or runs is one more than the queue holds, at most
(`FewWait`), fewer than the cache; hence when every entry is pending, the oldest is one that was given up, and its loss harms
nothing (`Evicts`). It is `DeviceAssumption`'s `CacheSize > QueueLen + 1` that this needs: in the
firmware 20 and 2 (`mqtt.c:83`, `sysload.c:56`). For `DedupeWindow` (`ClaimWindow`): all other entries of a full cache are newer than the
evicted one or pending. Assumptions used: `DeviceAssumption`, and `CaseAssumption` for the run's cases.

`ServerServicesProofs` proves of each of the server's services, for any number of tokens, requests, calls,
failures and restarts, and then of their composition `MCServerServices`, where the run checks them:

* `SessionsHoldAlways` (`AuthSessionsHold`, `AuthReuseIsNoticed`): `Spec => []SessionsHold`;
* `SecretIsValidAlways` (`RegistrationSecretIsValid`): `Spec => []SecretIsValid`;
* `ReadsAreFreshAlways` (`ShadowReadsAreFresh`): `Spec => []ReadsAreFresh`;
* `ServicesTypeOK`: `Spec => []TypeOK`, the queue's included.

*Sessions.* `AuthInv` adds who has locked what: a locked row is there and is locked once, an exchange holds its
token's row (`LockInv`); the successor of an exchange that is not committed is known to nobody
(`SuccessorInv`); and what a `DELETE` may take was seen when its sessions had ended (`SeenInv`). Assumption
used: `SessionAssumption`.

*Registration.* Requests and the retry job overlap as they like; the property leaves out a registration whose user was taken
by somebody who had looked before (see *Other disagreements*). `RegistrationInv` says of the rest what remains true:
somebody who is not `behind` is on his way beside no other request (`AloneInv`), whoever is about to remove the user without being
`behind` does so while there is no row (`AheadInv`), and the user and the rules a registration has
made are still its own when it inserts, unless they were taken (`OwnInv`, `RulesInv`). The broker's refusal of a second user
(`Create`) is what `OwnInv` rests on. Assumption used: `RegistrationAssumption`.

*Shadow.* While Redis works and writes are committed in order, versions order every copy of
the row as their contents are ordered (`OrderInv`), so that the comparison in `SHADOW_CACHE_SET_SCRIPT` keeps the
newer; a copy in Redis has every write that was answered; while there is none, so has whoever is about to
put one there; and a load has what those who wait for it must see (`CacheInv`). The last needs that a call which missed
cannot join a load older than what it must see: it missed because the copy was not there. Assumption used:
`ShadowAssumption`.

*Composition.* A step of `MCServerServices` is a step of the service that runs and a stutter of each other, so its
behaviours are behaviours of every service (`ServicesAssumption` has the constants' assumptions).

`FirmwareServicesProofs` proves of `FirmwareBoot`, `MqttClient`, `DisplayService`, `StatusLed` and `Buzzer`, for any builds,
updates, faults, messages, publishers, callers and patterns, and then of `MCFirmwareServices`, where the run checks them:

* `BootsOnlyProvenAlways`: `Spec => []BootsOnlyProven`;
* `ClientOutlivesUsersAlways`: `Spec => []ClientOutlivesUsers`;
* `HeadlessIsSafeAlways`: `Spec => []HeadlessIsSafe`;
* `ResetBlinkMeansHoldAlways`: `Spec => []ResetBlinkMeansHold`;
* `PatternsWholeAlways` and `ServicesTypeOK`: `[]PatternsWhole` and `[]TypeOK`, of every instance;
* `OnlineIsReadyAlways`: `Spec => OnlineIsReady`, and `UpdateIsShownAlways`: `Spec => UpdateIsShown`, which say what a step may do;
* `DrawnIsWantedAlways`: `Spec => Display!DrawnIsWanted`, what is drawn is what was asked for, whatever the widgets held (proved
  only; the run's `PanelSettles` needs it), provided that "ready" is the last phase of the boot (`ReadyIsLast`, `sysload.c:1111`).

*Boot.* `BootInv` says that what runs is what was to boot until an update has ended (`ImagesInv`), that while an image
is not committed the other slot holds one that was, so that a rollback finds it (`RollbackInv`), and when an
unproven image may run at all (`TrialInv`).

*MQTT client.* `ClientInv` says that `s_client_users` counts the publishers between their two sections and the event
handler's, and how far `mqtt_stop` has come: it took the handle away first, so nobody comes in once it waits, and it
destroys the client only when the count was zero and the handler's task had ended. For `OnlineIsReady`, `ReadyInv`: whoever is
to handle messages is registered before the start (`KnownInv`), while the handler subscribes each topic is with
the broker, refused or still to do (`LinkedInv`), and what is routed is a message's own topic or one freed meanwhile (`RoutedInv`).

*Display.* `StartInv` says who has what of the start: only `display_service_init` takes `s_init_done` and frees it, and
it comes back without a screen only when `display_task` is gone, or when the time limit has passed (`TimeInv`).
The pictures of the task need no more than that its state is one a setter makes (`ScreenInv`). For `UpdateIsShown`, `ShowInv`:
the update that runs is on the screen with its stage, only a failed one has an error that ends it, and the time a failure has
been there and the time it has left make the whole. For `DrawnIsWanted`, `WidgetInv`: while the device boots the ground is
light, which `render_boot_phase` does not set; only after "ready" can it be dark, and no phase follows that one.

*LED.* `HoldInv` says that the button's task blinks only during a hold, and that what it puts back after a
cancelled one is never the blink itself.

*Buzzer.* `BuzzerInv` says that the end of the queue is how far its sender came and that there is room for the rest
(`SenderInv`), which `buzzer_prepare_queue_locked` establishes and only the player changes, in its favour.

*Composition.* As for the server's services. Assumption used: `FirmwareAssumption`, which has the
assumptions of all of them.

`BleProvisioningProofs` proves, for any credentials, any budget of reconnections and any number of writes, lost links,
resets and losses of power:

* `ProvisioningTypeOK`: `Spec => []TypeOK`;
* `EventGroupsHoldAlways`: `Spec => []EventGroupsHold`;
* `DoneIsCompleteAlways`: `Spec => []DoneIsComplete`;
* `NeverDeafAlways`: `Spec => []NeverDeaf`.

Its `Inv` has two halves. The station's (`WifiInv`) counts its users (`UsersInv`) and says that the event posted
last tells whether the link is up (`LinkInv`), so that whoever has handled all of them knows; nothing else of the
firmware is needed, since each of its steps is one of the station's (`StationMoves`). Provisioning's says who holds its
group (`EgInv`), that `prov_task` works only while the boot waits for it (`TaskInv`) and connects in nobody's way
(`CallInv`), that it is woken for two credentials which can be overwritten but not taken away (`BufferInv`), and how far
`save_credentials` has come while it holds the lock that an erasure would need (`SaveInv`, `LockInv`). `DoneIsComplete` alone is
not inductive: the flag is stored without a look at the other two keys. Assumptions used: `WifiAssumption` and `BleAssumption`.

Model-checked only: all liveness properties, and with `ResetEndsUnlessAwaited` the part of it that says what a step may
never do. Every other property of the passing runs is stated by a theorem. Liveness under fairness and `ENABLED` are outside what
the installed provers do; so is induction over data, hence no recursive definition is proved
about, and no module here declares a `RECURSIVE` operator.

## Not modelled

* *Realtime events* (`plugins/realtime.js`): ids are taken before commits, a live event is sent during a replay and moves
  the mark that the rest of the replay is compared with, and a replay ends at its limit. "Every event once, in
  order" fails in each of these ways in the source; what is left holds only where events commit one by one, after the replay.
* *What the server does around the modelled routes*: registration of users and passwords, access tokens (no state
  backs them), renaming and listing devices, the bridge's own user at EMQX.
* *Homes, telemetry and OTA routes, the server's shell*: single statements, start-up and configuration.
* *Drivers* (`adc_bus`, `i2c_bus`, `gm702b`, `gm102b`, `sht3x`, `ds3231`, `ili9225`): register-level input and
  output, in part third-party, without a protocol between tasks. A call to one fails or not in the modules above.
* *The app*: its token refresh and its event stream are clients of `AuthSession`'s protocol and of the event log; its screens are user
  interface.
* *Server, in modelled parts*: two `INSERT`s of commands that commit in another order than their `created_at`
  (`commands.js:5`); a handler that throws stops its client's packets until it reconnects (`mqtt.js:178-181`), where the model
  redelivers at once, which has more behaviours; a `releaseFlushLock` that throws while its session lives keeps the lock and
  a client of the pool (`commands.js:73-75`, `180-184`): the model loses lock and session together.
* *Firmware, in modelled parts*: an answer whose publish fails in the client's own memory (`mqtt.c:366-369`) or expires in
  esp-mqtt's outbox; the restart by `ESP_ERROR_CHECK` in the middle of a stage, which is not counted (`sysload.c:712`,
  `917`, `1066`). `WifiStation` takes two short sections without a call in between as one step each: the check of `s_initialized`
  with the clearing of the bits (`wifi.c:299-306`), and giving up with clearing and disconnecting (`wifi.c:147-156`).
* *In modelled parts*: conversions of payloads (a message parses or does not), the values measured, fonts, colours and
  positions on the display, the contents of an image (good, faulty, wrong, partial).

## Plan

1. The safety each liveness property rests on, proved: who can wait for whom (`NobodyWaitsForEver`, `CallersReturn`), and that a
   step of another task never takes back what a wait needs.
2. The part of `ResetEndsUnlessAwaited` about steps: nobody passes `device_reset_is_in_progress` while the flag is up.
