---------------------------- MODULE FirmwareBoot ----------------------------
(***************************************************************************)
(* The life of the firmware across restarts: the stages of sysload_init    *)
(* with their failure counter in RTC memory and the safe mode behind it    *)
(* (src/firmware/components/core/sysload/sysload.c), the MQTT secret that  *)
(* arrives once over local HTTP (general/httpd/httpd.c, config/config.c),  *)
(* and the update task that replaces the image that boots (ota/ota.c).     *)
(* BleProvisioning models the stages up to Wi-Fi in detail; here they are  *)
(* two steps.  Payloads and progress reports are left out.                 *)
(***************************************************************************)
EXTENDS Naturals, Sequences

CONSTANTS
    RetryLimit,   \* SYSLOAD_BOOT_FAILURE_RETRY_LIMIT
    Builds,       \* the builds in question, see Build
    Secrets,      \* secrets a client sends: short, long (64 bytes or more)
    Updates,      \* update messages: records of image and digest
    MaxUpdates,   \* bound: update messages that arrive
    MaxFaults     \* bound: calls that fail by chance, and losses of power

(***************************************************************************)
(* What the platform is built to do.  rollback:                            *)
(* CONFIG_BOOTLOADER_APP_ROLLBACK_ENABLE, off by default and not set by    *)
(* sdkconfig.defaults.  kept: esp_restart leaves s_boot_failure_count      *)
(* alone, as sysload.c counts on; ESP-IDF keeps RTC_DATA_ATTR memory       *)
(* through deep sleep and loads its initial value after any other reset.   *)
(***************************************************************************)
Build == [rollback : BOOLEAN, kept : BOOLEAN]

None == "none"
Whole == {"good", "faulty"}
Slot == {"a", "b"}
Other(s) == IF s = "a" THEN "b" ELSE "a"

\* Without a digest the image is taken at its word: it is then one that was
\* built for the device, and so is the image of a right digest.
BootAssumption ==
    /\ RetryLimit \in Nat \ {0} /\ Builds \subseteq Build
    /\ Secrets \subseteq {"short", "long"}
    /\ MaxUpdates \in Nat /\ MaxFaults \in Nat
    /\ \A m \in Updates :
          /\ m.image \in Whole \union {"wrong"}
          /\ m.digest \in {None, m.image} => m.image \in Whole

(***************************************************************************)
(* The stages that can fail are counted, except "wifi".  In a faulty image *)
(* the stage "control" always fails.                                       *)
(***************************************************************************)
After == [ early |-> "wifi", wifi |-> "config", http |-> "clock",
           control |-> "mqtt", mqtt |-> "ota", ota |-> "commit" ]
Settled == {"ready", "waiting", "safe"}
Running == DOMAIN After \union Settled \union {"config", "clock", "commit"}

VARIABLES
    build,     \* the build, which never changes
    stage,     \* where sysload_init is; "off" is the bootloader
    failures,  \* s_boot_failure_count
    faults,    \* chance failures so far
    ap,        \* the access point is in range
    stored,    \* the secret in NVS
    secret,    \* sysload_init's local copy
    post,      \* config_post_handler: idle, or the secret it is to store
    restarting,\* restart_task runs
    unrestarted, \* a secret was stored but restart_task not created
    image,     \* what each slot holds
    bootSlot,  \* the slot otadata selects
    fresh,     \* its state: new, pending or valid
    running,   \* the slot the running image was loaded from
    trial,     \* of bootSlot's image: 0 once ready, else 1 + its boots, up to 3
    queue,     \* s_ota_queue
    ota,       \* ota_task_fn: none, idle, loading, loaded, verified, done
    message,   \* the message it works on
    updates    \* update messages so far

bootVars == <<stage, failures, secret>>
configVars == <<stored, post, restarting, unrestarted>>
slotVars == <<image, bootSlot, fresh, running, trial>>
otaVars == <<queue, ota, message, updates>>
world == <<ap, build>>
vars == <<bootVars, configVars, slotVars, otaVars, faults, world>>

NoMessage == [image |-> "empty", digest |-> "empty"]

TypeOK ==
    /\ build \in Builds
    /\ stage \in Running \union {"off"}
    /\ failures \in Nat /\ faults \in 0..MaxFaults
    /\ ap \in BOOLEAN
    /\ stored \in {None, "short", "long"} /\ secret \in {None, "short"}
    /\ post \in {"idle", "short", "long"}
    /\ restarting \in BOOLEAN /\ unrestarted \in BOOLEAN
    /\ image \in [Slot -> Whole \union {"empty", "partial", "wrong"}]
    /\ bootSlot \in Slot /\ running \in Slot
    /\ fresh \in {"new", "pending", "valid"} /\ trial \in 0..3
    /\ Len(queue) <= 1
    /\ ota \in {"none", "idle", "loading", "loaded", "verified", "done"}
    /\ updates \in 0..MaxUpdates

Init ==
    /\ build \in Builds
    /\ stage = "off" /\ failures = 0 /\ secret = None
    /\ faults = 0 /\ ap \in BOOLEAN
    /\ stored = None /\ post = "idle" /\ restarting = FALSE
    /\ unrestarted = FALSE
    /\ image = [s \in Slot |-> IF s = "a" THEN "good" ELSE "empty"]
    /\ bootSlot = "a" /\ fresh = "valid" /\ running = "a" /\ trial = 0
    /\ queue = <<>> /\ ota = "none" /\ message = NoMessage /\ updates = 0

Fault == faults < MaxFaults /\ faults' = faults + 1
NoFault == UNCHANGED faults

\* esp_restart: RAM is lost, the flash is not, the counter as built.
Restart(count) ==
    /\ stage' = "off" /\ secret' = None
    /\ failures' = IF build.kept THEN count ELSE 0
    /\ post' = "idle" /\ restarting' = FALSE /\ unrestarted' = FALSE
    /\ queue' = <<>> /\ ota' = "none" /\ message' = NoMessage

(***************************************************************************)
(* The bootloader, and sysload_init.                                       *)
(***************************************************************************)
\* With rollback enabled, an image that restarts before it was committed is
\* abandoned for the other slot's, and a new one becomes pending.
BootLoader ==
    /\ stage = "off" /\ stage' = "early"
    /\ LET slot == IF build.rollback /\ fresh = "pending" THEN Other(bootSlot)
                   ELSE bootSlot IN
       /\ bootSlot' = slot /\ running' = slot
       /\ fresh' = IF slot # bootSlot THEN "valid"
                   ELSE IF build.rollback /\ fresh = "new" THEN "pending" ELSE fresh
       /\ trial' = IF slot # bootSlot THEN 0
                   ELSE IF trial \in {1, 2} THEN trial + 1 ELSE trial
    /\ UNCHANGED <<failures, secret, configVars, image, otaVars, faults, world>>

\* Faulty variant of BootError: no limit.
BootErrorUncounted ==
    /\ Restart(failures)
    /\ UNCHANGED <<stored, slotVars, updates, world>>

\* reboot_after_boot_error.
BootError ==
    /\ IF failures + 1 >= RetryLimit
       THEN /\ stage' = "safe" /\ failures' = failures + 1
            /\ UNCHANGED <<secret, post, restarting, unrestarted, queue, ota,
                           message>>
       ELSE Restart(failures + 1)
    /\ UNCHANGED <<stored, slotVars, updates, world>>

Fails(s) == s = "control" /\ image[running] = "faulty"

\* ota_task_start, on top of what the stage returns.
OtaStarted(s) == IF s = "ota" THEN "idle" ELSE ota

\* Faulty variant of StageDone: the image is committed whenever it gets an
\* address, before its stages have run.
StageDoneCommitting ==
    /\ stage \in DOMAIN After /\ ~Fails(stage)
    /\ stage = "wifi" => ap
    /\ stage' = After[stage]
    /\ ota' = OtaStarted(stage)
    /\ fresh' = IF stage = "wifi" THEN "valid" ELSE fresh
    /\ UNCHANGED <<failures, secret, configVars, image, bootSlot, running, trial,
                   queue, message, updates, faults, world>>

StageDone ==
    /\ stage \in DOMAIN After /\ ~Fails(stage)
    /\ stage = "wifi" => ap
    /\ stage' = After[stage]
    /\ ota' = OtaStarted(stage)
    /\ UNCHANGED <<failures, secret, configVars, slotVars, queue, message,
                   updates, faults, world>>

StageFails ==
    /\ stage \in DOMAIN After \ {"wifi"}
    /\ IF Fails(stage) THEN NoFault ELSE Fault
    /\ BootError

\* connect_wifi_stage: the restart of a device without Wi-Fi is not counted.
WifiFails ==
    /\ stage = "wifi" /\ ~ap
    /\ Restart(failures)
    /\ UNCHANGED <<stored, slotVars, updates, faults, world>>

\* config_get_mqtt_creds has a buffer of 64 bytes.
Readable(s) == s # "long"

\* A stored secret that cannot be read is a counted error.
LoadConfig ==
    /\ stage = "config"
    /\ \/ /\ Readable(stored) /\ secret' = stored /\ stage' = "http"
          /\ UNCHANGED <<failures, configVars, slotVars, otaVars, faults, world>>
       \/ ~Readable(stored) /\ NoFault /\ BootError

\* The clock is set, its failures only logged; without a secret the boot
\* ends here.
ClockSet ==
    /\ stage = "clock"
    /\ IF secret = None
       THEN stage' = "waiting" /\ failures' = 0
       ELSE stage' = "control" /\ UNCHANGED failures
    /\ UNCHANGED <<secret, configVars, slotVars, otaVars, faults, world>>

\* ota_validate_and_commit, whose failure is only logged, and the end.
Commit ==
    /\ stage = "commit" /\ stage' = "ready" /\ failures' = 0
    /\ \/ /\ fresh' = IF fresh = "pending" THEN "valid" ELSE fresh
          /\ trial' = IF bootSlot = running THEN 0 ELSE trial
          /\ NoFault
       \/ fresh = "pending" /\ Fault /\ UNCHANGED <<fresh, trial>>
    /\ UNCHANGED <<secret, configVars, image, bootSlot, running, otaVars, world>>

(***************************************************************************)
(* POST /api/config: one server task runs the handler from end to end.     *)
(***************************************************************************)
HttpUp == stage \in {"clock", "control", "mqtt", "ota", "commit"} \union Settled

\* The stored secret must be readable and empty.
PostChecked(s) ==
    /\ HttpUp /\ post = "idle" /\ stored = None
    /\ post' = s
    /\ UNCHANGED <<bootVars, stored, restarting, unrestarted, slotVars, otaVars,
                   faults, world>>

\* Faulty variant of PostStored: no restart.
PostStoredOnly ==
    /\ post # "idle" /\ post' = "idle"
    /\ stored' = post /\ NoFault
    /\ UNCHANGED <<bootVars, restarting, unrestarted, slotVars, otaVars, world>>

\* config_set_mqtt_config: a commit that fails has stored the secret all the
\* same, any other failure comes before that.
SetConfig(s, done) ==
    \/ stored' = s /\ done /\ NoFault
    \/ stored' = s /\ ~done /\ Fault
    \/ UNCHANGED stored /\ ~done /\ Fault

\* Then restart_task is created, or that fails as well.
PostStored ==
    /\ post # "idle" /\ post' = "idle"
    /\ \E done \in BOOLEAN :
          /\ SetConfig(post, done)
          /\ restarting' = (restarting \/ done)
          /\ unrestarted' = (unrestarted \/ (~done /\ stored' # None))
    /\ UNCHANGED <<bootVars, slotVars, otaVars, world>>

ConfigRestart ==
    /\ restarting /\ Restart(failures)
    /\ UNCHANGED <<stored, slotVars, updates, faults, world>>

(***************************************************************************)
(* Updates.                                                                *)
(***************************************************************************)
\* Faulty variant of Trigger: messages queue up.
TriggerQueued(m) ==
    /\ stage \in {"ota", "commit", "ready"} /\ updates < MaxUpdates
    /\ updates' = updates + 1
    /\ queue' = IF ota # "none" THEN Append(queue, m) ELSE queue
    /\ UNCHANGED <<bootVars, configVars, slotVars, ota, message, faults, world>>

\* ota_trigger: queued, or dropped when one is queued already.
Trigger(m) ==
    /\ stage \in {"ota", "commit", "ready"} /\ updates < MaxUpdates
    /\ updates' = updates + 1
    /\ queue' = IF ota # "none" /\ queue = <<>> THEN <<m>> ELSE queue
    /\ UNCHANGED <<bootVars, configVars, slotVars, ota, message, faults, world>>

\* esp_https_ota_begin erases the slot that is not running; it refuses while
\* the running image is pending.
OtaBegin ==
    /\ ota = "idle" /\ queue # <<>> /\ queue' = <<>>
    /\ IF fresh = "pending"
       THEN UNCHANGED <<ota, message, image>>
       ELSE /\ ota' = "loading" /\ message' = Head(queue)
            /\ image' = [image EXCEPT ![Other(running)] = "partial"]
    /\ UNCHANGED <<bootVars, configVars, bootSlot, fresh, running, trial,
                   updates, faults, world>>

OtaLoaded ==
    /\ ota = "loading" /\ ota' = "loaded"
    /\ image' = [image EXCEPT ![Other(running)] = message.image]
    /\ UNCHANGED <<bootVars, configVars, bootSlot, fresh, running, trial, queue,
                   message, updates, faults, world>>

\* A message without a digest is taken at its word.
DigestMatches == message.digest \in {None, message.image}

\* The download, the verification or esp_https_ota_finish fails: the task
\* reports it and waits for the next message.
OtaFails ==
    /\ ota \in {"loading", "loaded", "verified"} /\ ota' = "idle"
    /\ IF ota = "loaded" /\ ~DigestMatches THEN NoFault
       ELSE Fault
    /\ message' = NoMessage
    /\ UNCHANGED <<bootVars, configVars, slotVars, queue, updates, world>>

\* Faulty variant of OtaVerified: the digest is not compared.
OtaUnverified ==
    /\ ota = "loaded"
    /\ ota' = "verified"
    /\ UNCHANGED <<bootVars, configVars, slotVars, queue, message, updates,
                   faults, world>>

OtaVerified ==
    /\ ota = "loaded" /\ DigestMatches
    /\ ota' = "verified"
    /\ UNCHANGED <<bootVars, configVars, slotVars, queue, message, updates,
                   faults, world>>

\* Only esp_https_ota_finish moves the boot pointer.
OtaFinish ==
    /\ ota = "verified" /\ ota' = "done"
    /\ bootSlot' = Other(running) /\ fresh' = "new" /\ trial' = 1
    /\ UNCHANGED <<bootVars, configVars, image, running, queue, message, updates,
                   faults, world>>

OtaRestart ==
    /\ ota = "done" /\ Restart(failures)
    /\ UNCHANGED <<stored, slotVars, updates, faults, world>>

(***************************************************************************)
(* The environment.                                                        *)
(***************************************************************************)
\* A loss of power also clears the RTC counter.
PowerLoss ==
    /\ stage # "off" /\ Fault /\ Restart(0)
    /\ UNCHANGED <<stored, slotVars, updates, world>>

ApChanges ==
    /\ ap' = ~ap
    /\ UNCHANGED <<bootVars, configVars, slotVars, otaVars, faults, build>>

Boot == BootLoader \/ StageDone \/ StageFails \/ WifiFails \/ LoadConfig
        \/ ClockSet \/ Commit
Ota == OtaBegin \/ OtaLoaded \/ OtaFails \/ OtaVerified \/ OtaFinish
       \/ OtaRestart

Next ==
    \/ Boot \/ Ota \/ PostStored \/ ConfigRestart
    \/ \E s \in Secrets : PostChecked(s)
    \/ \E m \in Updates : Trigger(m)
    \/ PowerLoss \/ ApChanges

\* The tasks run; what arrives, and the access point, promise nothing.
Fairness ==
    WF_vars(Boot) /\ WF_vars(Ota) /\ WF_vars(PostStored) /\ WF_vars(ConfigRestart)

Spec == Init /\ [][Next]_vars /\ Fairness

(***************************************************************************)
(* Properties.                                                             *)
(***************************************************************************)

\* The image that runs, and the one that would boot next, are complete and
\* have the digest they were announced with, wherever an update stops.  And
\* where the bootloader rolls back, as docs/ARCHITECTURE_FIRMWARE.md:475 says,
\* an image that was not ready at its first boot does not boot again.
BootsOnlyProven ==
    /\ image[bootSlot] \in Whole
    /\ stage # "off" => image[running] \in Whole
    /\ build.rollback => trial <= 2

\* A device does not wait for ever for the secret it has stored, unless it
\* answered that it could not restart.
StoredSecretIsUsed ==
    []<>(stage = "waiting" /\ stored # None => unrestarted)

\* "boot retry limit reached, entering safe mode" (sysload.c:664): with the
\* access point in range for good, the boot comes to an end; even a faulty
\* image or an unreadable configuration does not restart for ever.
BootSettles == <>[]ap => []<>(stage \in Settled)

\* It does where a restart leaves the failure counter alone.
CountedBootSettles == <>[](build.kept /\ ap) => []<>(stage \in Settled)
=============================================================================
