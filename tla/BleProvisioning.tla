-------------------------- MODULE BleProvisioning --------------------------
(***************************************************************************)
(* The first minutes of a device: sysload_init up to a working Wi-Fi link  *)
(* (src/firmware/components/core/sysload/sysload.c), the BLE provisioning  *)
(* server it runs when the flash holds no credentials (general/ble_prov/   *)
(* ble_prov.c), and a factory reset whose button works in every phase.     *)
(* Five tasks share the station of WifiStation, the provisioning event     *)
(* group, two credential buffers without a lock, and the flash: the boot   *)
(* task, prov_task, the NimBLE host, the event loop and the reset task.    *)
(* A restart or a loss of power may come at any step.                      *)
(***************************************************************************)
EXTENDS WifiStation

CONSTANTS Ssids, Passwords,
          MaxWrites            \* bound: characteristic writes of one client

\* prov_chr_access refuses an empty SSID, and what is stored is what was written.
ASSUME BleAssumption ==
    Ssids \X Passwords \subseteq Credentials /\ None \notin Ssids \union Passwords
    /\ MaxWrites \in Nat

VARIABLES
    boot,      \* sysload_init: its stage
    creds,     \* its locals ssid and password
    flash,     \* NVS namespace wifi_prov
    lock,      \* s_nvs_write_lock: free, save or reset
    resetting, \* s_factory_reset_in_progress
    reset,     \* factory_reset_run: idle, waiting, running or erased
    eg,        \* s_prov_eg: none, open, taken or deleted
    egUsers,   \* s_prov_eg_users
    egBits,    \* its bits
    task,      \* prov_task: none, or its place
    handle,    \* s_prov_task_handle is set
    notified,  \* its notification count is not zero
    outcome,   \* its local err
    buffer,    \* s_ssid and s_password
    got,       \* s_got_ssid and s_got_pass
    host,      \* the NimBLE host task: off, syncing, idle, leaving, notify
    linked,    \* a client is connected: s_conn_handle
    advertising, \* off, on, or error: starting it failed (logged only)
    writes,    \* characteristic writes so far
    told       \* the status the client was notified of

bleVars == <<eg, egUsers, egBits, task, handle, notified, outcome, buffer, got,
             host, linked, advertising, writes, told>>
resetVars == <<lock, resetting, reset>>
vars == <<wifiVars, bleVars, resetVars, boot, creds, flash>>

Blank == [ssid |-> None, pass |-> None]
EmptyFlash == [ssid |-> None, pass |-> None, done |-> FALSE]
Pair(r) == <<r.ssid, r.pass>>

TypeOK ==
    /\ WifiTypeOK
    /\ boot \in {"init", "check", "prov", "drain", "load", "link", "connecting",
                 "failed", "up"}
    /\ creds \in [ssid : Ssids \union {None}, pass : Passwords \union {None}]
    /\ flash \in [ssid : Ssids \union {None}, pass : Passwords \union {None},
                  done : BOOLEAN]
    /\ lock \in {"free", "save", "reset"} /\ resetting \in BOOLEAN
    /\ reset \in {"idle", "waiting", "running", "erased"}
    /\ eg \in {"none", "open", "taken", "deleted"} /\ egUsers \in 0..2
    /\ egBits \subseteq {"done", "fail"}
    /\ task \in {"none", "await", "connect", "connecting", "begin", "ssid",
                 "pass", "flag", "commit", "notify", "signal", "set",
                 "release", "end"}
    /\ handle \in BOOLEAN /\ notified \in BOOLEAN
    /\ outcome \in {"none", "ok", "fail"}
    /\ buffer \in [ssid : Ssids \union {None}, pass : Passwords \union {None}]
    /\ got \subseteq {"ssid", "pass"}
    /\ host \in {"off", "syncing", "idle", "leaving", "notify"}
    /\ linked \in BOOLEAN /\ advertising \in {"off", "on", "error"}
    /\ writes \in 0..MaxWrites /\ told \in {"none", "ok", "fail"}

Init ==
    /\ WifiInit
    /\ boot = "init" /\ creds = Blank /\ flash = EmptyFlash
    /\ lock = "free" /\ resetting = FALSE /\ reset = "idle"
    /\ eg = "none" /\ egUsers = 0 /\ egBits = {}
    /\ task = "none" /\ handle = FALSE /\ notified = FALSE /\ outcome = "none"
    /\ buffer = Blank /\ got = {}
    /\ host = "off" /\ linked = FALSE /\ advertising = "off"
    /\ writes = 0 /\ told = "none"

\* esp_restart, a panic or a loss of power: the flash is all that stays.
Restart ==
    /\ WifiReset
    /\ boot' = "init" /\ creds' = Blank
    /\ lock' = "free" /\ resetting' = FALSE /\ reset' = "idle"
    /\ eg' = "none" /\ egUsers' = 0 /\ egBits' = {}
    /\ task' = "none" /\ handle' = FALSE /\ notified' = FALSE
    /\ outcome' = "none" /\ buffer' = Blank /\ got' = {}
    /\ host' = "off" /\ linked' = FALSE /\ advertising' = "off"
    /\ told' = "none"
    /\ UNCHANGED <<flash, writes>>

\* The handle of the provisioning event group, under s_prov_eg_lock.
EgAcquire ==
    egUsers' = egUsers + 1

EgRelease ==
    egUsers' = egUsers - 1

EgUnused ==
    egUsers = 0

(***************************************************************************)
(* The boot task.                                                          *)
(***************************************************************************)
Boot(from, to) == boot = from /\ boot' = to

BootWifi ==
    /\ Boot("init", "check") /\ StationUp
    /\ UNCHANGED <<bleVars, resetVars, creds, flash>>

BootProvisioned ==
    /\ flash.done /\ Boot("check", "load")
    /\ UNCHANGED <<wifiVars, bleVars, resetVars, creds, flash>>

\* ble_prov_start: the event group, the task, then NimBLE, which may fail;
\* cleanup_start_failure then leaves nothing behind.
ProvisioningStart ==
    /\ boot = "check" /\ ~flash.done
    /\ \/ /\ boot' = "prov" /\ eg' = "open" /\ host' = "syncing"
          /\ task' = "await" /\ handle' = TRUE
       \/ boot' = "failed" /\ UNCHANGED <<eg, host, task, handle>>
    /\ egBits' = {} /\ got' = {} /\ buffer' = Blank /\ linked' = FALSE
    /\ notified' = FALSE /\ outcome' = "none"
    /\ UNCHANGED <<wifiVars, resetVars, creds, flash, egUsers, advertising,
                   writes, told>>

\* The wait ends; ble_prov_stop stops the host once no callback runs.
ProvisioningStop ==
    /\ Boot("prov", "drain") /\ egBits # {} /\ host \in {"idle", "syncing"}
    /\ host' = "off" /\ advertising' = "off" /\ linked' = FALSE
    /\ eg' = "taken"
    /\ UNCHANGED <<wifiVars, resetVars, creds, flash, egUsers, egBits, task,
                   handle, notified, outcome, buffer, got, writes, told>>

\* Faulty variant: ble_prov_stop deletes the group without waiting for its users.
ProvisioningEndAtOnce ==
    /\ Boot("drain", IF "done" \in egBits THEN "load" ELSE "failed")
    /\ eg' = "deleted"
    /\ UNCHANGED <<wifiVars, resetVars, creds, flash, egUsers, egBits, task,
                   handle, notified, outcome, buffer, got, host, linked,
                   advertising, writes, told>>

ProvisioningEnd ==
    /\ Boot("drain", IF "done" \in egBits THEN "load" ELSE "failed")
    /\ EgUnused /\ eg' = "deleted"
    /\ UNCHANGED <<wifiVars, resetVars, creds, flash, egUsers, egBits, task,
                   handle, notified, outcome, buffer, got, host, linked,
                   advertising, writes, told>>

BootLoad ==
    /\ Boot("load", IF None \in {flash.ssid, flash.pass} THEN "failed"
                    ELSE "link")
    /\ creds' = [ssid |-> flash.ssid, pass |-> flash.pass]
    /\ UNCHANGED <<wifiVars, bleVars, resetVars, flash>>

\* connect_wifi_stage: nothing to do when provisioning left the link up.
BootLinked ==
    /\ Boot("link", "up") /\ IsConnected
    /\ UNCHANGED <<wifiVars, bleVars, resetVars, creds, flash>>

BootConnect ==
    /\ Boot("link", "connecting") /\ ~IsConnected /\ ConnectEnter
    /\ UNCHANGED <<bleVars, resetVars, creds, flash>>

BootConnected ==
    /\ call = "returned" /\ call' = "idle"
    /\ Boot("connecting", IF result = "ok" THEN "up" ELSE "failed")
    /\ UNCHANGED <<group, users, bits, retries, radio, station, losses, events,
                   handler, result, deinit, bleVars, resetVars, creds, flash>>

\* A failed stage reboots after a delay; the credentials are preserved.
BootFailed == boot = "failed" /\ Restart

(***************************************************************************)
(* prov_task.                                                              *)
(***************************************************************************)
Task(from, to) == task = from /\ task' = to

KeepAllButTask ==
    UNCHANGED <<wifiVars, resetVars, boot, creds, flash, eg, egBits, buffer, got,
                host, linked, advertising, writes>>

TaskWake ==
    /\ notified /\ Task("await", "connect") /\ notified' = FALSE
    /\ KeepAllButTask /\ UNCHANGED <<egUsers, handle, outcome, told>>

\* Faulty variant: the task that timed out deletes itself without setting FAIL.
TaskTimesOutSilently ==
    /\ ~notified /\ Task("await", "end") /\ outcome' = "fail"
    /\ KeepAllButTask /\ UNCHANGED <<egUsers, handle, notified, told>>

TaskTimesOut ==
    /\ ~notified /\ Task("await", "signal") /\ outcome' = "fail"
    /\ KeepAllButTask /\ UNCHANGED <<egUsers, handle, notified, told>>

TaskConnect ==
    /\ Task("connect", "connecting") /\ ConnectEnter
    /\ UNCHANGED <<resetVars, boot, creds, flash, eg, egUsers, egBits, handle,
                   notified, outcome, buffer, got, host, linked, advertising,
                   writes, told>>

TaskConnected ==
    /\ call = "returned" /\ call' = "idle"
    /\ Task("connecting", IF result = "ok" THEN "begin" ELSE "notify")
    /\ outcome' = IF result = "ok" THEN "ok" ELSE "fail"
    /\ UNCHANGED <<group, users, bits, retries, radio, station, losses, events,
                   handler, result, deinit, resetVars, boot, creds, flash, eg,
                   egUsers, egBits, handle, notified, buffer, got, host, linked,
                   advertising, writes, told>>

\* save_credentials, under config_nvs_write_begin: three keys and a commit,
\* each of which may fail; the buffers are read again here.
\* Faulty variant: the error of the save is only logged.
SaveFailsUnnoticed ==
    /\ task' = "notify" /\ UNCHANGED outcome
    /\ lock' = IF lock = "save" THEN "free" ELSE lock

SaveFails ==
    /\ task' = "notify" /\ outcome' = "fail"
    /\ lock' = IF lock = "save" THEN "free" ELSE lock

KeepAllButSave ==
    UNCHANGED <<wifiVars, resetting, reset, boot, creds, eg, egUsers, egBits,
                handle, notified, buffer, got, host, linked, advertising, writes,
                told>>

SaveBegin ==
    /\ task = "begin"
    /\ IF resetting THEN SaveFails
       ELSE lock = "free" /\ lock' = "save" /\ task' = "ssid"
            /\ UNCHANGED outcome
    /\ KeepAllButSave /\ UNCHANGED flash

SaveStep(from, to, value) ==
    /\ task = from
    /\ \/ flash' = value /\ task' = to /\ UNCHANGED <<lock, outcome>>
       \/ SaveFails /\ UNCHANGED flash
    /\ KeepAllButSave

\* Faulty variant: the flag is stored before the password.
SaveFlagFirst ==
    \/ SaveStep("ssid", "flag", [flash EXCEPT !.ssid = buffer.ssid])
    \/ SaveStep("flag", "pass", [flash EXCEPT !.done = TRUE])
    \/ SaveStep("pass", "commit", [flash EXCEPT !.pass = buffer.pass])

Save ==
    \/ SaveStep("ssid", "pass", [flash EXCEPT !.ssid = buffer.ssid])
    \/ SaveStep("pass", "flag", [flash EXCEPT !.pass = buffer.pass])
    \/ SaveStep("flag", "commit", [flash EXCEPT !.done = TRUE])

SaveEnd ==
    /\ task = "commit"
    /\ \/ task' = "notify" /\ lock' = "free" /\ UNCHANGED outcome
       \/ SaveFails
    /\ KeepAllButSave /\ UNCHANGED flash

\* Notify a client that is still there, then wait half a second.
TaskNotify ==
    /\ Task("notify", "signal")
    /\ told' = IF linked THEN outcome ELSE told
    /\ KeepAllButTask /\ UNCHANGED <<egUsers, handle, notified, outcome>>

TaskAcquire ==
    /\ task = "signal"
    /\ IF eg = "open" THEN EgAcquire /\ task' = "set"
       ELSE task' = "end" /\ UNCHANGED egUsers
    /\ KeepAllButTask /\ UNCHANGED <<handle, notified, outcome, told>>

TaskSet ==
    /\ Task("set", "release")
    /\ egBits' = egBits \union {IF outcome = "ok" THEN "done" ELSE "fail"}
    /\ UNCHANGED <<wifiVars, resetVars, boot, creds, flash, eg, egUsers, handle,
                   notified, outcome, buffer, got, host, linked, advertising,
                   writes, told>>

TaskRelease ==
    /\ Task("release", "end") /\ EgRelease
    /\ KeepAllButTask /\ UNCHANGED <<handle, notified, outcome, told>>

\* The buffers are zeroed, the handle cleared, the task gone.
TaskEnd ==
    /\ Task("end", "none")
    /\ buffer' = Blank /\ handle' = FALSE
    /\ UNCHANGED <<wifiVars, resetVars, boot, creds, flash, eg, egUsers, egBits,
                   notified, outcome, got, host, linked, advertising, writes,
                   told>>

(***************************************************************************)
(* The NimBLE host task and the phone.                                     *)
(***************************************************************************)
KeepAllButHost ==
    UNCHANGED <<wifiVars, resetVars, boot, creds, flash, eg, egBits, task, handle,
                outcome, told>>

\* start_advertise: its errors are logged, nothing retries.
Advertise == advertising' \in {"on", "error"}

OnSync ==
    /\ host = "syncing" /\ host' = "idle" /\ Advertise
    /\ KeepAllButHost
    /\ UNCHANGED <<egUsers, notified, buffer, got, linked, writes>>

ClientConnects ==
    /\ host = "idle" /\ advertising = "on" /\ ~linked
    /\ linked' = TRUE /\ advertising' = "off"
    /\ KeepAllButHost
    /\ UNCHANGED <<egUsers, notified, buffer, got, host, writes>>

\* BLE_GAP_EVENT_CONNECT with an error status: advertise again.
ClientFails ==
    /\ host = "idle" /\ advertising = "on" /\ ~linked /\ Advertise
    /\ KeepAllButHost
    /\ UNCHANGED <<egUsers, notified, buffer, got, host, linked, writes>>

ClientLeaves ==
    /\ host = "idle" /\ linked
    /\ linked' = FALSE
    /\ IF eg = "open" THEN EgAcquire /\ host' = "leaving"
       ELSE UNCHANGED <<egUsers, host>>
    /\ KeepAllButHost
    /\ UNCHANGED <<notified, buffer, got, advertising, writes>>

\* Faulty variant: a client that leaves is not followed by advertising.
ClientLeftForGood ==
    /\ host = "leaving" /\ host' = "idle" /\ EgRelease
    /\ KeepAllButHost
    /\ UNCHANGED <<notified, buffer, got, linked, advertising, writes>>

\* Advertise again unless provisioning has its result.
ClientLeft ==
    /\ host = "leaving" /\ host' = "idle" /\ EgRelease
    /\ IF egBits = {} THEN Advertise ELSE UNCHANGED advertising
    /\ KeepAllButHost /\ UNCHANGED <<notified, buffer, got, linked, writes>>

\* prov_chr_access: a characteristic is written.
ClientWrites(key, value) ==
    /\ host = "idle" /\ linked /\ writes < MaxWrites
    /\ writes' = writes + 1
    /\ buffer' = [buffer EXCEPT ![key] = value]
    /\ got' = got \union {key}
    /\ host' = IF got' = {"ssid", "pass"} /\ handle THEN "notify" ELSE "idle"
    /\ KeepAllButHost
    /\ UNCHANGED <<egUsers, notified, linked, advertising>>

HostNotify ==
    /\ host = "notify" /\ handle
    /\ notified' = TRUE /\ host' = "idle"
    /\ KeepAllButHost
    /\ UNCHANGED <<egUsers, buffer, got, linked, advertising, writes>>

\* The task ended between the check and xTaskNotifyGive: an assertion stops
\* the system, or the notification of a dead task is lost.
HostNotifyDead ==
    /\ host = "notify" /\ ~handle
    /\ \/ Restart
       \/ /\ host' = "idle" /\ KeepAllButHost
          /\ UNCHANGED <<egUsers, notified, buffer, got, linked, advertising,
                         writes>>

(***************************************************************************)
(* factory_reset_run.                                                      *)
(***************************************************************************)
KeepAllButReset == UNCHANGED <<bleVars, boot, creds>>

ResetBegin ==
    /\ reset = "idle" /\ reset' = "waiting" /\ resetting' = TRUE
    /\ KeepAllButReset /\ UNCHANGED <<wifiVars, lock, flash>>

ResetLock ==
    /\ reset = "waiting" /\ reset' = "running"
    /\ lock = "free" /\ lock' = "reset"
    /\ KeepAllButReset /\ UNCHANGED <<wifiVars, resetting, flash>>

ResetWifi ==
    /\ reset = "running" /\ Deinit
    /\ KeepAllButReset /\ UNCHANGED <<resetVars, flash>>

\* nvs_flash_erase; an error ends the reset and the device stays as it is.
ResetErase ==
    /\ reset = "running" /\ deinit = "done"
    /\ \/ /\ flash' = EmptyFlash /\ reset' = "erased"
          /\ UNCHANGED <<lock, resetting, wifiVars>>
       \/ /\ resetting' = FALSE /\ lock' = "free" /\ reset' = "idle"
          /\ deinit' = "idle"
          /\ UNCHANGED <<flash, group, users, bits, retries, radio, station,
                         losses, events, handler, call, result>>
    /\ KeepAllButReset

ResetRestart == reset = "erased" /\ Restart

PowerLoss == Restart

(***************************************************************************)
(* The specification.                                                      *)
(***************************************************************************)
Others == UNCHANGED <<bleVars, resetVars, boot, creds, flash>>

Connecting ==
    /\ \/ ConnectClear
       \/ ConnectStart(Pair(IF boot = "prov" THEN buffer ELSE creds))
       \/ ConnectAnswered
       \/ ConnectTimeout
    /\ Others

EventLoop == Handler /\ Others

Environment == (Joined \/ Refused \/ LinkLost) /\ Others

BootTask == BootWifi \/ BootProvisioned \/ ProvisioningStart
            \/ ProvisioningStop \/ ProvisioningEnd \/ BootLoad \/ BootLinked
            \/ BootConnect \/ BootConnected \/ BootFailed

ProvTask == TaskWake \/ TaskTimesOut \/ TaskConnect \/ TaskConnected
            \/ SaveBegin \/ Save \/ SaveEnd \/ TaskNotify \/ TaskAcquire
            \/ TaskSet \/ TaskRelease \/ TaskEnd

Host == OnSync \/ ClientLeft \/ HostNotify \/ HostNotifyDead

Phone == \/ ClientConnects \/ ClientFails \/ ClientLeaves
         \/ \E v \in Ssids : ClientWrites("ssid", v)
         \/ \E v \in Passwords : ClientWrites("pass", v)

ResetTask == ResetBegin \/ ResetLock \/ ResetWifi \/ ResetErase \/ ResetRestart

Next == BootTask \/ ProvTask \/ Connecting \/ EventLoop \/ Host \/ Phone
        \/ Environment \/ ResetTask \/ PowerLoss

\* Every task of the firmware runs; the phone, the access point, the button
\* and the power promise nothing.
Fairness ==
    /\ WF_vars(BootTask) /\ WF_vars(ProvTask) /\ WF_vars(Connecting)
    /\ WF_vars(EventLoop) /\ WF_vars(Host)
    /\ WF_vars(ResetLock \/ ResetWifi \/ ResetErase \/ ResetRestart)

Spec == Init /\ [][Next]_vars /\ Fairness

(***************************************************************************)
(* Properties.                                                             *)
(***************************************************************************)

\* An event group is deleted only when nobody holds it: that of Wi-Fi under
\* the handler and wifi_sta_connect, that of provisioning under prov_task and a
\* GAP callback (prov_event_group_wait_for_users).
NoHandleToDeleted ==
    /\ NoHandleToDeletedGroup
    /\ eg = "deleted" => task \notin {"set", "release"} /\ host # "leaving"

\* The flag that skips provisioning at the next boot is never stored without
\* both credentials, whatever fails or restarts in between (save_credentials
\* writes it last); and a client is told "ok" only once it is stored.
DoneIsComplete ==
    /\ flash.done => flash.ssid # None /\ flash.pass # None
    /\ told = "ok" /\ reset # "erased" => flash.done

\* While provisioning has no result and no client, the device advertises,
\* unless NimBLE itself refused to: it cannot become unreachable.
NeverDeaf ==
    boot = "prov" /\ host = "idle" /\ ~linked /\ egBits = {}
        => advertising # "off"

\* "Connects to Wi-Fi ... On success: saves credentials" (ble_prov.h): what
\* is stored is what was connected with.
SavedIsWhatConnected == flash.done => Pair(flash) \in Accepted

\* The waits without a time limit end: that for the result in ble_prov_start,
\* which the boot stands on, and those of a factory reset for the lock and for
\* the users of Wi-Fi.
NobodyWaitsForEver ==
    []<>(boot # "prov") /\ []<>(reset \in {"erased", "idle"})
=============================================================================
