---------------------------- MODULE DeviceControl ----------------------------
(* The device's control state: three relays, the on/off mode, their copies in
   flash, and the factory reset that erases them.  Four tasks meet here.

     task    runs the boot stages, then the MQTT event handler that serves
             relay_set, device_mode and shadow/get_response one at a time
     reset   factory_reset_run(), in the button's own task
     sensor  sensor_task_fn(), which publishes telemetry and shadow reports
     other   any other writer of the flash guarded by config.c's lock

   A job is what the MQTT handler was asked to do: a mode and a setting per
   relay, each "keep" where the message does not name it.  A command names one
   key; a shadow patch (sync) may name several, the mode first.              *)
EXTENDS Naturals

CONSTANTS
    Channels,   \* RELAY_CHANNEL_COUNT
    Devices,    \* the devices considered: which of FaultKind may happen to one;
                \* fitted, whether a sensor answered at boot, so that sensor_task
                \* runs; and steady, whether its one clock never goes back: it has
                \* no DS3231, finds the network time at every boot, and no
                \* set_time moves it
    MaxClock    \* bound: the highest second a clock shows

FaultKind == {"nvs", "gpio", "publish", "power", "erase"}

ASSUME ControlAssumption ==
    /\ Channels \in Nat \ {0} /\ MaxClock \in Nat
    /\ Devices \subseteq [faults : SUBSET FaultKind, fitted : BOOLEAN, steady : BOOLEAN]

Channel == 1..Channels
AllOff  == [c \in Channel |-> FALSE]
Setting == {"on", "off", "keep"}
Clock   == 0..MaxClock
Job     == [sync : BOOLEAN, mode : Setting, relay : [Channel -> Setting]]

VARIABLES
    device,     \* the one of Devices this is: it never changes
    phase,      \* "relays", "mode": boot stages; "run"; "safe": boot gave up
    mode, state, gpio,      \* s_mode_on, s_state, the pins
    nvs,        \* what a restart reads back
    flag, lock, \* s_factory_reset_in_progress, s_nvs_write_lock
    reset,      \* where factory_reset_run is
    mqtt,       \* "none"; "up"; "stopping": s_client taken away; "ending": told
                \* to stop, its task not gone yet
    task,       \* [pc, at, ch, prev, stuck, failed, job]: stuck is the error
                \* of forcing the relays off, failed is first_err
    answer,     \* how the last job ended
    sensors, sensor,        \* s_enabled; [pc, ts, unsent, late]
    telemetry,  \* the last telemetry published
    clock,      \* time(NULL)
    reported,   \* the shadow the server keeps
    missed,     \* observer: whether a report of a relay or of the mode was lost
                \* since the last connection
    outdated    \* observer: or refused there as older than what is stored

boardVars  == <<mode, state, gpio>>
guardVars  == <<flag, lock, reset>>
reportVars == <<telemetry, reported, missed, outdated>>
controlVars ==
    <<phase, mode, state, gpio, nvs, flag, lock, reset, mqtt, task, answer,
      sensors, sensor, telemetry, clock, reported, missed, outdated>>
vars == <<device, controlVars>>

Faults == device.faults
Fitted == device.fitted
Steady == device.steady

NoJob == [sync |-> FALSE, mode |-> "keep", relay |-> [c \in Channel |-> "keep"]]
Idle  == [pc |-> "idle", at |-> "none", ch |-> 1, prev |-> FALSE,
          stuck |-> FALSE, failed |-> FALSE, job |-> NoJob]
Asleep == [pc |-> "asleep", ts |-> 0, unsent |-> {}, late |-> 0]

(* nvs_flash_erase leaves no key, and load_mode reads a missing mode as on *)
Erased == [mode |-> TRUE, relay |-> AllOff]

TaskState ==
    [pc : {"idle", "next", "force", "off", "report", "guard", "take", "write",
           "delta", "rollback", "stopped"},
     at : {"none", "relay", "undo", "force", "boot", "modeoff", "modeon"},
     ch : 1..(Channels + 1), prev : BOOLEAN, stuck : BOOLEAN, failed : BOOLEAN,
     job : Job]

SensorState ==
    [pc : {"asleep", "measured", "sent"}, ts : Clock,
     unsent : SUBSET {"telemetry", "shadow"}, late : Clock]

TypeOK ==
    /\ device \in Devices
    /\ phase \in {"relays", "mode", "run", "safe"}
    /\ mode \in BOOLEAN /\ state \in [Channel -> BOOLEAN]
    /\ gpio \in [Channel -> BOOLEAN]
    /\ nvs \in [mode : BOOLEAN, relay : [Channel -> BOOLEAN]]
    /\ flag \in BOOLEAN /\ lock \in {"free", "task", "reset", "other"}
    /\ reset \in {"no", "lock", "stop", "users", "join", "erase", "restart"}
    /\ mqtt \in {"none", "up", "stopping", "ending"}
    /\ task \in TaskState
    /\ answer \in {"none", "ok", "error"}
    /\ sensors \in BOOLEAN
    /\ sensor \in SensorState
    /\ telemetry \in {"none", "values", "final"}
    /\ clock \in Clock
    /\ reported \in [mode : BOOLEAN, relay : [Channel -> BOOLEAN], ts : Clock]
    /\ missed \in BOOLEAN /\ outdated \in BOOLEAN

Init ==
    /\ device \in Devices
    /\ phase = "relays" /\ mode = TRUE /\ state = AllOff /\ gpio = AllOff
    /\ nvs = Erased /\ flag = FALSE /\ lock = "free" /\ reset = "no"
    /\ mqtt = "none" /\ task = Idle /\ answer = "none"
    /\ sensors = TRUE /\ sensor = Asleep /\ telemetry = "none"
    /\ clock = 0 /\ reported = [mode |-> TRUE, relay |-> AllOff, ts |-> 0]
    /\ missed = TRUE /\ outdated = FALSE

-----------------------------------------------------------------------------
(* Shared steps *)

(* RAM after a restart; the pins float low *)
Restart(p) ==
    /\ phase' = p /\ mode' = TRUE /\ state' = AllOff /\ gpio' = AllOff
    /\ flag' = FALSE /\ lock' = "free" /\ reset' = "no" /\ mqtt' = "none"
    /\ task' = Idle /\ answer' = "none" /\ sensors' = TRUE /\ sensor' = Asleep
    /\ missed' = TRUE /\ UNCHANGED <<telemetry, clock, reported, outdated>>

\* Faulty variant of Merge: a report of the same second is stale.
MergeNewer(m, r, ts) ==
    IF ts > reported.ts THEN [mode |-> m, relay |-> r, ts |-> ts] ELSE reported

(* A shadow report merges into the stored one unless its ts is older; ts is what
   normalizeShadowReportTs makes of it *)
Merge(m, r, ts) ==
    IF ts >= reported.ts THEN [mode |-> m, relay |-> r, ts |-> ts] ELSE reported

Deliverable   == mqtt = "up"
Undeliverable == mqtt # "up" \/ "publish" \in Faults

Report(m, r, ts) ==
    /\ Deliverable
    /\ reported' = Merge(m, r, ts) /\ UNCHANGED missed
    /\ outdated' = (outdated \/ ts < reported.ts)

Unreported == Undeliverable /\ missed' = TRUE /\ UNCHANGED <<reported, outdated>>

Goto(pc) == task' = [task EXCEPT !.pc = pc]

Save(at) == task' = [task EXCEPT !.pc = "guard", !.at = at]

(* The job goes on with its next key, or its caller is told of an error *)
KeyDone(job) == [Idle EXCEPT !.pc = "next", !.job = job]

Answered(a) == task' = Idle /\ answer' = a

(* An off mode skips the relay keys of its own patch *)
AfterMode == IF mode THEN [task.job EXCEPT !.mode = "keep"] ELSE NoJob

EndModeKey(failed) ==
    IF failed THEN Answered("error")
              ELSE task' = KeyDone(AfterMode) /\ UNCHANGED answer

-----------------------------------------------------------------------------
(* Boot: init_runtime_control_stage *)

RelayInit ==
    /\ phase = "relays"
    /\ phase' = "mode" /\ state' = nvs.relay /\ gpio' = nvs.relay
    /\ UNCHANGED <<mode, nvs, guardVars, mqtt, task, answer, sensors, sensor,
                   reportVars, clock>>

(* device_mode_init; an off mode first forces the restored relays off *)
ModeInit ==
    /\ phase = "mode" /\ task.pc = "idle"
    /\ mode' = nvs.mode /\ sensors' = nvs.mode
    /\ IF nvs.mode
       THEN phase' = "run" /\ mqtt' = "up" /\ UNCHANGED task
       ELSE task' = [Idle EXCEPT !.pc = "force", !.at = "boot"]
            /\ UNCHANGED <<phase, mqtt>>
    /\ UNCHANGED <<state, gpio, nvs, guardVars, answer, sensor, reportVars, clock>>

BootForced ==
    /\ task.pc = "force" /\ task.at = "boot" /\ task.ch > Channels
    /\ ~task.stuck
    /\ phase' = "run" /\ mqtt' = "up" /\ task' = Idle
    /\ UNCHANGED <<boardVars, nvs, guardVars, answer, sensors, sensor,
                   reportVars, clock>>

(* reboot_after_boot_error: restart, or stay in safe mode at the retry limit *)
BootFails ==
    /\ \/ phase = "relays" /\ "nvs" \in Faults
       \/ phase = "mode" /\ task.pc = "idle" /\ "nvs" \in Faults
       \/ task.pc = "force" /\ task.at = "boot" /\ task.ch > Channels /\ task.stuck
    /\ \/ Restart("relays")
       \/ /\ phase' = "safe" /\ task' = [Idle EXCEPT !.pc = "stopped"]
          /\ UNCHANGED <<boardVars, guardVars, mqtt, answer, sensors, sensor,
                         reportVars, clock>>
    /\ UNCHANGED nvs

PowerCycle == "power" \in Faults /\ Restart("relays") /\ UNCHANGED nvs

-----------------------------------------------------------------------------
(* The MQTT event handler *)

Named(job) == {c \in Channel : job.relay[c] # "keep"}

IsCommand(job) ==
    \/ job.mode # "keep" /\ Named(job) = {}
    \/ job.mode = "keep" /\ \E c \in Channel : Named(job) = {c}

(* A message arrives, until the client is told to stop *)
Dispatch(job) ==
    /\ phase = "run" /\ mqtt \in {"up", "stopping"} /\ task.pc = "idle"
    /\ job.sync \/ IsCommand(job)
    /\ task' = KeyDone(job) /\ answer' = "none"
    /\ UNCHANGED <<phase, boardVars, nvs, guardVars, mqtt, sensors, sensor,
                   reportVars, clock>>

JobDone ==
    /\ task.pc = "next" /\ task.job.mode = "keep" /\ Named(task.job) = {}
    /\ Answered("ok")
    /\ UNCHANGED <<phase, boardVars, nvs, guardVars, mqtt, sensors, sensor,
                   reportVars, clock>>

(* CONNECTED: device_mode_publish_current_shadow *)
Connected ==
    /\ phase = "run" /\ task.pc = "idle" /\ Deliverable
    /\ reported' = Merge(mode, IF mode THEN state ELSE AllOff, clock)
    /\ missed' = FALSE /\ outdated' = (clock < reported.ts)
    /\ UNCHANGED <<phase, boardVars, nvs, guardVars, mqtt, task, answer,
                   sensors, sensor, telemetry, clock>>

(* device_mode_set, the mode it already has *)
ModeAlready ==
    /\ task.pc = "next" /\ task.job.mode = (IF mode THEN "on" ELSE "off")
    /\ task' = KeyDone(AfterMode)
    /\ UNCHANGED <<phase, boardVars, nvs, guardVars, mqtt, answer, sensors,
                   sensor, reportVars, clock>>

(* device_mode_set(true) *)
ModeOn ==
    /\ task.pc = "next" /\ task.job.mode = "on" /\ ~mode
    /\ mode' = TRUE /\ sensors' = TRUE /\ Save("modeon")
    /\ UNCHANGED <<phase, state, gpio, nvs, guardVars, mqtt, answer, sensor,
                   reportVars, clock>>

\* Faulty variant of ModeOff: the forcing starts at the second relay.
ModeOffFromSecond ==
    /\ task.pc = "next" /\ task.job.mode = "off" /\ mode
    /\ task' = [task EXCEPT !.pc = "force", !.at = "force", !.ch = 2]
    /\ UNCHANGED <<phase, boardVars, nvs, guardVars, mqtt, answer, sensors,
                   sensor, reportVars, clock>>

(* publish_final_null_telemetry *)
FinalTelemetry == Deliverable /\ telemetry' = "final"

(* device_mode_set(false): the final null telemetry comes first *)
ModeOff ==
    /\ task.pc = "next" /\ task.job.mode = "off" /\ mode
    /\ \/ FinalTelemetry
          /\ task' = [task EXCEPT !.pc = "force", !.at = "force", !.ch = 1]
       \/ Undeliverable /\ UNCHANGED telemetry
          /\ task' = [task EXCEPT !.pc = "force", !.at = "force", !.ch = 1,
                                  !.failed = TRUE]
    /\ UNCHANGED <<phase, boardVars, nvs, guardVars, mqtt, answer, sensors,
                   sensor, clock, reported, missed, outdated>>

\* Faulty variant of ForceChannel: a relay already off skips the next one too.
ForceChannelSkips ==
    /\ task.pc = "force" /\ task.ch <= Channels
    /\ state' = [state EXCEPT ![task.ch] = FALSE]
    /\ gpio' = [gpio EXCEPT ![task.ch] = FALSE]
    /\ task' = IF state[task.ch] THEN [task EXCEPT !.pc = "guard"]
                                 ELSE [task EXCEPT !.ch = @ + 2]
    /\ UNCHANGED <<phase, mode, nvs, guardVars, mqtt, answer, sensors, sensor,
                   reportVars, clock>>

(* relay_force_all_off_common, one channel: only a relay whose s_state is on is
   driven and saved, and an error stops nothing *)
ForceChannel ==
    /\ task.pc = "force" /\ task.ch <= Channels
    /\ IF state[task.ch]
       THEN /\ state' = [state EXCEPT ![task.ch] = FALSE]
            /\ \/ gpio' = [gpio EXCEPT ![task.ch] = FALSE] /\ Goto("guard")
               \/ /\ "gpio" \in Faults /\ UNCHANGED gpio
                  /\ task' = [task EXCEPT !.pc = "guard", !.stuck = TRUE]
       ELSE /\ task' = [task EXCEPT !.ch = @ + 1] /\ UNCHANGED <<state, gpio>>
    /\ UNCHANGED <<phase, mode, nvs, guardVars, mqtt, answer, sensors, sensor,
                   reportVars, clock>>

(* Every relay is off: s_mode_on and the sensor gate follow, or the error is
   returned and the mode stays on *)
ForcedOff ==
    /\ task.pc = "force" /\ task.at = "force" /\ task.ch > Channels
    /\ IF task.stuck
       THEN Answered("error") /\ UNCHANGED <<mode, sensors>>
       ELSE mode' = FALSE /\ sensors' = FALSE /\ Goto("off") /\ UNCHANGED answer
    /\ UNCHANGED <<phase, state, gpio, nvs, guardVars, mqtt, sensor, reportVars,
                   clock>>

\* Faulty variant of ReportOff: the mode is never saved.
ReportOffUnsaved ==
    /\ task.pc = "off"
    /\ \/ Report(FALSE, AllOff, clock) /\ EndModeKey(task.failed)
       \/ Unreported /\ EndModeKey(TRUE)
    /\ UNCHANGED <<phase, boardVars, nvs, guardVars, mqtt, sensors, sensor,
                   telemetry, clock>>

ReportOff ==
    /\ task.pc = "off"
    /\ \/ Report(FALSE, AllOff, clock) /\ Save("modeoff")
       \/ Unreported /\ task' = [task EXCEPT !.pc = "guard", !.at = "modeoff",
                                             !.failed = TRUE]
    /\ UNCHANGED <<phase, boardVars, nvs, guardVars, mqtt, answer, sensors,
                   sensor, telemetry, clock>>

\* Faulty variant of ReportOn: nothing is published.
ReportOnSilent ==
    /\ task.pc = "report"
    /\ EndModeKey(task.failed)
    /\ UNCHANGED <<phase, boardVars, nvs, guardVars, mqtt, sensors, sensor,
                   reportVars, clock>>

ReportOn ==
    /\ task.pc = "report"
    /\ \/ Report(TRUE, state, clock) /\ EndModeKey(task.failed)
       \/ Unreported /\ EndModeKey(TRUE)
    /\ UNCHANGED <<phase, boardVars, nvs, guardVars, mqtt, sensors, sensor,
                   telemetry, clock>>

(* relay_set, for the least channel the job still names *)
Turn(c) ==
    /\ task.pc = "next" /\ task.job.mode = "keep"
    /\ c \in Named(task.job) /\ \A d \in Named(task.job) : c <= d

RelayDone(c) == KeyDone([task.job EXCEPT !.relay[c] = "keep"])

(* The mode is off: a command is refused, a patch's key is skipped *)
RelayWhileOff(c) ==
    /\ Turn(c) /\ ~mode
    /\ IF task.job.sync THEN task' = RelayDone(c) /\ UNCHANGED answer
                        ELSE Answered("error")
    /\ UNCHANGED <<phase, boardVars, nvs, guardVars, mqtt, sensors, sensor,
                   reportVars, clock>>

RelayAlready(c) ==
    /\ Turn(c) /\ mode /\ state[c] = (task.job.relay[c] = "on")
    /\ task' = RelayDone(c)
    /\ UNCHANGED <<phase, boardVars, nvs, guardVars, mqtt, answer, sensors,
                   sensor, reportVars, clock>>

\* Faulty variant of RelaySet: the mode is not looked at.
RelaySetAnyMode(c) ==
    /\ Turn(c) /\ state[c] # (task.job.relay[c] = "on")
    /\ state' = [state EXCEPT ![c] = ~@]
    /\ gpio' = [gpio EXCEPT ![c] = ~state[c]]
    /\ task' = [task EXCEPT !.pc = "guard", !.at = "relay", !.ch = c,
                            !.prev = state[c]]
    /\ UNCHANGED <<phase, mode, nvs, guardVars, mqtt, answer, sensors, sensor,
                   reportVars, clock>>

RelaySet(c) ==
    /\ Turn(c) /\ mode /\ state[c] # (task.job.relay[c] = "on")
    /\ \/ /\ state' = [state EXCEPT ![c] = ~@]
          /\ gpio' = [gpio EXCEPT ![c] = ~state[c]]
          /\ task' = [task EXCEPT !.pc = "guard", !.at = "relay", !.ch = c,
                                  !.prev = state[c]]
          /\ UNCHANGED answer
       \/ "gpio" \in Faults /\ Answered("error") /\ UNCHANGED <<state, gpio>>
    /\ UNCHANGED <<phase, mode, nvs, guardVars, mqtt, sensors, sensor,
                   reportVars, clock>>

(* relay_publish_delta names the mode "on"; its failure is only logged *)
RelayDelta ==
    /\ task.pc = "delta"
    /\ \/ Report(TRUE, [reported.relay EXCEPT ![task.ch] = state[task.ch]], clock)
       \/ Unreported
    /\ task' = RelayDone(task.ch)
    /\ UNCHANGED <<phase, boardVars, nvs, guardVars, mqtt, answer, sensors,
                   sensor, telemetry, clock>>

(* relay_rollback_state: the pin, then s_state, then the flash again *)
Rollback ==
    /\ task.pc = "rollback"
    /\ \/ /\ gpio' = [gpio EXCEPT ![task.ch] = task.prev]
          /\ state' = [state EXCEPT ![task.ch] = task.prev]
          /\ Save("undo") /\ UNCHANGED answer
       \/ "gpio" \in Faults /\ Answered("error") /\ UNCHANGED <<state, gpio>>
    /\ UNCHANGED <<phase, mode, nvs, guardVars, mqtt, sensors, sensor,
                   reportVars, clock>>

-----------------------------------------------------------------------------
(* Writing one key to flash: relay_persist_state_value, persist_mode *)

Written ==
    IF task.at \in {"modeoff", "modeon"}
    THEN [nvs EXCEPT !.mode = mode]
    ELSE [nvs EXCEPT !.relay[task.ch] = state[task.ch]]

(* What the writer does with the outcome *)
Saved(failed) ==
    \/ /\ task.at = "relay"
       /\ Goto(IF failed THEN "rollback" ELSE "delta") /\ UNCHANGED answer
    \/ task.at = "undo" /\ Answered("error")
    \/ /\ task.at \in {"force", "boot"}
       /\ task' = [task EXCEPT !.pc = "force", !.ch = @ + 1,
                               !.stuck = @ \/ failed]
       /\ UNCHANGED answer
    \/ task.at = "modeoff" /\ EndModeKey(task.failed \/ failed)
    \/ /\ task.at = "modeon"
       /\ task' = [task EXCEPT !.pc = "report", !.failed = @ \/ failed]
       /\ UNCHANGED answer

\* Faulty variant of GuardWrite: the flag is looked at only under the lock.
GuardWriteLate ==
    /\ task.pc = "guard"
    /\ Goto("take")
    /\ UNCHANGED <<phase, boardVars, nvs, guardVars, mqtt, answer, sensors,
                   sensor, reportVars, clock>>

(* config_nvs_write_begin: the flag, the lock, the flag again *)
GuardWrite ==
    /\ task.pc = "guard"
    /\ IF flag THEN Saved(TRUE) ELSE Goto("take") /\ UNCHANGED answer
    /\ UNCHANGED <<phase, boardVars, nvs, guardVars, mqtt, sensors, sensor,
                   reportVars, clock>>

TakeLock ==
    /\ task.pc = "take" /\ lock = "free"
    /\ IF flag THEN Saved(TRUE) /\ UNCHANGED lock
               ELSE lock' = "task" /\ Goto("write") /\ UNCHANGED answer
    /\ UNCHANGED <<phase, boardVars, nvs, flag, reset, mqtt, sensors, sensor,
                   reportVars, clock>>

(* A failed commit may have stored the value all the same *)
Write ==
    /\ task.pc = "write"
    /\ lock' = "free"
    /\ \/ nvs' = Written /\ Saved(FALSE)
       \/ "nvs" \in Faults /\ nvs' \in {nvs, Written} /\ Saved(TRUE)
    /\ UNCHANGED <<phase, boardVars, flag, reset, mqtt, sensors, sensor,
                   reportVars, clock>>

(* Another writer holds the lock for a while *)
OtherTakes ==
    /\ lock = "free" /\ ~flag
    /\ lock' = "other"
    /\ UNCHANGED <<phase, boardVars, nvs, flag, reset, mqtt, task, answer,
                   sensors, sensor, reportVars, clock>>

OtherGives ==
    /\ lock = "other"
    /\ lock' = "free"
    /\ UNCHANGED <<phase, boardVars, nvs, flag, reset, mqtt, task, answer,
                   sensors, sensor, reportVars, clock>>

-----------------------------------------------------------------------------
(* factory_reset_run *)

ResetBegins ==
    /\ reset = "no"
    /\ flag' = TRUE /\ reset' = "lock"
    /\ UNCHANGED <<phase, boardVars, nvs, lock, mqtt, task, answer, sensors,
                   sensor, reportVars, clock>>

(* The lock, the sensor gate, Wi-Fi *)
ResetLocks ==
    /\ reset = "lock" /\ lock = "free"
    /\ lock' = "reset" /\ reset' = "stop" /\ sensors' = FALSE
    /\ UNCHANGED <<phase, boardVars, nvs, flag, mqtt, task, answer, sensor,
                   reportVars, clock>>

(* mqtt_stop takes s_client away, tells the client to stop, and waits for the
   client's task to end *)
ResetTakesClient ==
    /\ reset = "stop"
    /\ IF mqtt = "none"
       THEN reset' = "erase" /\ UNCHANGED mqtt
       ELSE reset' = "users" /\ mqtt' = "stopping"
    /\ UNCHANGED <<phase, boardVars, nvs, flag, lock, task, answer, sensors,
                   sensor, reportVars, clock>>

ResetStopsClient ==
    /\ reset = "users"
    /\ reset' = "join" /\ mqtt' = "ending"
    /\ UNCHANGED <<phase, boardVars, nvs, flag, lock, task, answer, sensors,
                   sensor, reportVars, clock>>

ResetJoins ==
    /\ reset = "join" /\ task.pc = "idle"
    /\ mqtt' = "none" /\ reset' = "erase"
    /\ UNCHANGED <<phase, boardVars, nvs, flag, lock, task, answer, sensors,
                   sensor, reportVars, clock>>

\* Faulty variant of ResetErases: the guard is given back before the restart.
ResetErasesUnguarded ==
    /\ reset = "erase"
    /\ nvs' = Erased /\ reset' = "restart" /\ flag' = FALSE /\ lock' = "free"
    /\ UNCHANGED <<phase, boardVars, mqtt, task, answer, sensors, sensor,
                   reportVars, clock>>

ResetErases ==
    /\ reset = "erase"
    /\ \/ nvs' = Erased /\ reset' = "restart" /\ UNCHANGED <<flag, lock>>
       \/ /\ "erase" \in Faults /\ nvs' \in {nvs, Erased}
          /\ reset' = "no" /\ flag' = FALSE /\ lock' = "free"
    /\ UNCHANGED <<phase, boardVars, mqtt, task, answer, sensors, sensor,
                   reportVars, clock>>

ResetRestarts == reset = "restart" /\ Restart("relays") /\ UNCHANGED nvs

-----------------------------------------------------------------------------
(* sensor_task_fn: the gate is read once per round, before a measurement that
   takes seconds; what it then publishes says mode "on" *)

(* publish_payload_now, of the streams wanted: those it sends *)
Sends(wanted, sent) ==
    /\ sent \subseteq wanted
    /\ sent # {} => ~flag /\ Deliverable
    /\ sent # wanted => flag \/ Undeliverable

Show(sent, ts) ==
    /\ telemetry' = IF "telemetry" \in sent THEN "values" ELSE telemetry
    /\ reported' = IF "shadow" \in sent THEN Merge(TRUE, reported.relay, ts)
                                        ELSE reported

(* The DS3231's time, which may be any; without one, time(NULL) *)
SensorTime == IF Steady THEN {clock} ELSE Clock

(* A round starts: what the last rounds could not send, then the measurement *)
SensorMeasures ==
    /\ Fitted /\ phase = "run" /\ sensors /\ sensor.pc = "asleep"
    /\ \E sent \in SUBSET sensor.unsent, ts \in SensorTime :
          /\ Sends(sensor.unsent, sent) /\ Show(sent, sensor.late)
          /\ sensor' = [sensor EXCEPT !.pc = "measured", !.ts = ts,
                                      !.unsent = @ \ sent]
    /\ UNCHANGED <<phase, boardVars, nvs, guardVars, mqtt, task, answer, sensors,
                   clock, missed, outdated>>

SensorTelemetry ==
    /\ sensor.pc = "measured"
    /\ \E sent \in SUBSET {"telemetry"} :
          /\ Sends({"telemetry"}, sent) /\ Show(sent, sensor.ts)
          /\ sensor' = [sensor EXCEPT !.pc = "sent",
                                      !.unsent = @ \cup ({"telemetry"} \ sent)]
    /\ UNCHANGED <<phase, boardVars, nvs, guardVars, mqtt, task, answer, sensors,
                   clock, missed, outdated>>

SensorShadow ==
    /\ sensor.pc = "sent"
    /\ \E sent \in SUBSET {"shadow"} :
          /\ Sends({"shadow"}, sent) /\ Show(sent, sensor.ts)
          /\ sensor' = [sensor EXCEPT !.pc = "asleep",
                                      !.unsent = @ \cup ({"shadow"} \ sent),
                                      !.late = IF sent = {} THEN sensor.ts ELSE @]
    /\ UNCHANGED <<phase, boardVars, nvs, guardVars, mqtt, task, answer, sensors,
                   clock, missed, outdated>>

(* A second passes; or the clock is set, by set_time, by SNTP, or, after a restart,
   from the DS3231 or the time of the build *)
Tick ==
    /\ \/ clock < MaxClock /\ clock' = clock + 1
       \/ ~Steady /\ clock' \in Clock
    /\ UNCHANGED <<phase, boardVars, nvs, guardVars, mqtt, task, answer, sensors,
                   sensor, reportVars>>

-----------------------------------------------------------------------------
RelayKey ==
    \E c \in Channel : RelayWhileOff(c) \/ RelayAlready(c) \/ RelaySet(c)

Boot == RelayInit \/ ModeInit \/ BootForced \/ BootFails

(* A step of the boot stages or of the handler, whichever runs *)
TaskSteps ==
    \/ JobDone \/ ModeAlready \/ ModeOn \/ ModeOff \/ ForceChannel \/ ForcedOff
    \/ ReportOff \/ ReportOn \/ RelayKey \/ RelayDelta \/ Rollback
    \/ GuardWrite \/ TakeLock \/ Write

ResetSteps ==
    \/ ResetLocks \/ ResetTakesClient \/ ResetStopsClient \/ ResetJoins
    \/ ResetErases \/ ResetRestarts

Sensor == SensorMeasures \/ SensorTelemetry \/ SensorShadow

Step ==
    \/ Boot \/ PowerCycle \/ (\E job \in Job : Dispatch(job)) \/ Connected
    \/ TaskSteps \/ OtherTakes \/ OtherGives \/ ResetBegins \/ ResetSteps
    \/ Sensor \/ Tick

Next == Step /\ device' = device

Spec == Init /\ [][Next]_vars

(* Every FreeRTOS task that can run does, and every other writer lets go *)
FairSpec ==
    /\ Spec /\ WF_controlVars(Boot) /\ WF_controlVars(TaskSteps)
    /\ WF_controlVars(OtherGives) /\ SF_controlVars(ResetLocks)
    /\ WF_controlVars(ResetSteps)

-----------------------------------------------------------------------------
(* Properties *)

(* While the device runs with its mode off, no relay is energised: relay_set
   refuses, and device_mode_set drops every relay before s_mode_on
   (docs/ARCHITECTURE_FIRMWARE.md, "off") *)
OffMeansOff == phase = "run" /\ ~mode => gpio = AllOff

(* What a restart would bring back *)
Restored == [mode |-> nvs.mode, relay |-> IF nvs.mode THEN nvs.relay ELSE AllOff]

(* Between two jobs of a device whose flash works and that is not being reset,
   a power cut changes neither the mode nor a relay: relay_set and
   device_mode_set save what they change *)
IdleIsDurable ==
    /\ Faults \cap {"nvs", "erase"} = {}
    /\ phase = "run" /\ task.pc = "idle" /\ mqtt = "up" /\ reset = "no"
    => Restored = [mode |-> mode, relay |-> state]

(* Once the handler has nothing left to do, and unless a publish was lost since
   the last connection, the server's shadow never shows the mode off behind a
   device that is on, and shows every relay as it is, if neither flash nor pin
   fails (relay_publish_delta, publish_mode_off_shadow, sensor_task.c).  Where
   two clocks stamp the reports, or one is set, a report may also be lost as
   older than what the server has (shadow.js); where one clock does, none is *)
ReportsAreTrue ==
    /\ phase = "run" /\ task.pc = "idle" /\ mqtt = "up"
    /\ ~missed /\ (outdated => Steady)
    =>
        /\ ~reported.mode => ~mode
        /\ reset = "no" /\ Faults \subseteq {"power", "publish"}
           => reported.relay = state

(* Nobody writes the flash between its erasure and the restart that follows *)
ErasedStaysErased == reset = "restart" => nvs = Erased

(* The flash is written by the holder of config.c's lock alone *)
WritesAreExclusive ==
    [][nvs' # nvs => \/ lock = "task" /\ task.pc = "write"
                     \/ lock = "reset" /\ reset = "erase"]_controlVars

(* A reset that has raised its flag ends, by a restart or by giving up, unless
   the handler had already passed its first look at the flag: nobody passes it
   later *)
ResetEndsUnlessAwaited ==
    /\ [][flag /\ task'.pc = "take" => task.pc = "take"]_controlVars
    /\ []<>(reset = "no" \/ task.pc = "take")

(* docs/ARCHITECTURE_FIRMWARE.md, "Reset sequence": guard, stop MQTT, erase,
   reboot: a factory reset that has begun ends *)
ResetEnds == reset = "lock" ~> reset = "no"

(* The relays and the mode as RelayPanel sees them: nothing before the boot is
   over *)
Panel == INSTANCE RelayPanel WITH
    up     <- phase = "run",
    on     <- phase = "run" /\ mode,
    relays <- IF phase = "run" THEN state ELSE AllOff

ImplementsPanel == Panel!Spec
=============================================================================
