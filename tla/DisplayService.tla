--------------------------- MODULE DisplayService ---------------------------
(***************************************************************************)
(* The display of the firmware                                             *)
(* (src/firmware/components/core/display_service/display_service.c): its   *)
(* start with a time limit, the state other tasks set under s_state_lock,  *)
(* the task that renders it to LVGL widgets and flushes them to the panel; *)
(* and the update task (ota/ota.c) as what it reports to the screen.       *)
(* Texts are named by what they tell, colours and layout are left out.     *)
(***************************************************************************)
EXTENDS Integers, Sequences, FiniteSets

CONSTANTS
    SelfTest,     \* SA_DISP_SELF_TEST
    HoldTime,     \* SA_DISP_SELF_TEST_HOLD_MS
    Base, Margin, \* DISPLAY_INIT_WAIT_BASE_MS, DISPLAY_INIT_WAIT_MARGIN_MS
    DriverTimes,  \* how long ili9225_init takes
    MessageTime,  \* DISPLAY_OTA_HOLD_US, in ticks
    Phases,       \* the phases of a boot, in the order sysload sets them
    Readings,     \* what the Wi-Fi driver answers: Down, Unknown, or dBm
    MaxUpdates,   \* bound: update messages
    MaxChanges,   \* bound: changes of mode, sensors, Wi-Fi, clock
    MaxFaults     \* bound: calls that fail

DisplayAssumption ==
    /\ SelfTest \in BOOLEAN
    /\ HoldTime \in Nat /\ Base \in Nat /\ Margin \in Nat
    /\ DriverTimes \subseteq Nat /\ MessageTime \in Nat \ {0}
    /\ Phases \in Seq(STRING) /\ Phases # <<>> /\ Phases[1] = "boot"
    /\ MaxUpdates \in Nat /\ MaxChanges \in Nat /\ MaxFaults \in Nat

Stage == {"idle", "starting", "downloading", "verifying", "rebooting", "failed"}
Error == {"none", "generic", "sha256", "busy"}
Cell == 1..4  \* temperature, humidity, CO, NO2

VARIABLES
    main,      \* display_service_init, in sysload's task
    task,      \* where display_task is
    spent,     \* how long it has been starting
    sem, buffers, timer, result, \* s_init_done, s_buf*, s_tick_timer, s_init_result
    misused,   \* a freed buffer or a deleted semaphore was used
    state,     \* s_state
    world,     \* what rendering asks elsewhere: Wi-Fi, and whether the clock is set
    widgets,   \* the LVGL objects
    flushed,   \* the panel shows the widgets
    ota,       \* the update task: idle, received, or the stage it has reported
    queue,     \* messages in s_ota_queue
    dropped,   \* ota_trigger found it full and has still to report that
    failedFor, \* ticks since the failure on the screen was reported
    stray,     \* "busy" was reported when there was nothing to be busy with
    updates, changes, faults

startVars == <<main, task, spent, sem, buffers, timer, result, misused>>
drawVars == <<widgets, flushed>>
otaVars == <<ota, queue, dropped, failedFor, stray, updates>>
vars == <<startVars, state, world, drawVars, otaVars, changes, faults>>

None == "none"
NoTime == -1
Down == 1     \* no station
Unknown == 0  \* connected, and its strength could not be read
NoUpdate == [active |-> FALSE, percent |-> 0, stage |-> "idle", error |-> "none",
             left |-> NoTime]

\* build_screen: what the widgets hold before the first rendering.
NewBootView == "booting"
NewOtaView == [stage |-> "starting", note |-> "power", percent |-> 0]
NewRuntimeView ==
    [ssid |-> FALSE, rssi |-> "unknown", bars |-> 0, clock |-> FALSE, cells |-> {}]
NewWidgets == [visible |-> {"boot", "runtime"}, ground |-> "light",
               boot |-> NewBootView, ota |-> NewOtaView, runtime |-> NewRuntimeView]

Init ==
    /\ main = "start" /\ task = "none" /\ spent = 0
    /\ sem = "none" /\ buffers = "none" /\ timer = FALSE /\ result = "fail"
    /\ misused = FALSE
    /\ state = [phase |-> 1, mode |-> None, sensor |-> {}, ota |-> NoUpdate]
    /\ world = [wifi |-> Down, clock |-> FALSE]
    /\ widgets = NewWidgets /\ flushed = FALSE
    /\ ota = "none" /\ queue = 0 /\ dropped = FALSE
    /\ failedFor = NoTime /\ stray = FALSE /\ updates = 0
    /\ changes = 0 /\ faults = 0

TypeOK ==
    /\ main \in {"start", "wait", "ok", "failed", "timeout"}
    /\ task \in {"none", "driver", "buffers", "timer", "self test", "build", "give",
                 "giving", "run", "draw", "flush", "deleted"}
    /\ sem \in {"none", "empty", "given", "deleted"}
    /\ buffers \in {"none", "some", "all", "freed"}
    /\ timer \in BOOLEAN /\ result \in {"fail", "ok"} /\ misused \in BOOLEAN
    /\ state.phase \in DOMAIN Phases /\ state.mode \in {None, "on", "off"}
    /\ state.sensor \subseteq Cell
    /\ state.ota.stage \in Stage /\ state.ota.error \in Error
    /\ state.ota.left \in NoTime..MessageTime
    /\ state.ota.error = "none" => state.ota.left = NoTime
    /\ ota \in (Stage \ {"failed"}) \union {"none", "received"}
    /\ queue \in 0..1
    /\ failedFor \in NoTime..MessageTime

Fault == faults < MaxFaults /\ faults' = faults + 1
NoFault == UNCHANGED faults

(***************************************************************************)
(* display_service_init and the start of display_task.                     *)
(***************************************************************************)
\* Faulty variant of InitWait: the self-test is not allowed for.
InitWaitBase ==
    Base + Margin

\* init_wait_ticks; the self-test holds four screens.
InitWait ==
    Base + (IF SelfTest THEN 4 * HoldTime ELSE 0) + Margin

\* The wait ends as soon as its time is over.
TimeIsUp == main = "wait" /\ spent > InitWait

StartTask ==
    /\ main = "start"
    /\ \/ main' = "wait" /\ task' = "driver" /\ sem' = "empty" /\ NoFault
       \/ main' = "failed" /\ UNCHANGED <<task, sem>> /\ Fault
    /\ UNCHANGED <<spent, buffers, timer, result, misused, state, world, drawVars,
                   otaVars, changes>>

\* init_runtime returns an error.
InitFails ==
    /\ task' = "give" /\ result' = "fail" /\ Fault

InitDriver ==
    /\ task = "driver"
    /\ \/ \E t \in DriverTimes : spent' = spent + t
          /\ task' = "buffers" /\ UNCHANGED result /\ NoFault
       \/ InitFails /\ UNCHANGED spent
    /\ UNCHANGED <<main, sem, buffers, timer, misused, state, world, drawVars,
                   otaVars, changes>>

\* One of three allocations may fail; what was allocated stays.
InitBuffers ==
    /\ task = "buffers" /\ ~TimeIsUp
    /\ \/ task' = "timer" /\ buffers' = "all" /\ UNCHANGED result /\ NoFault
       \/ InitFails /\ buffers' = "some"
    /\ UNCHANGED <<main, spent, sem, timer, misused, state, world, drawVars,
                   otaVars, changes>>

InitTimer ==
    /\ task = "timer" /\ ~TimeIsUp
    /\ \/ /\ task' = IF SelfTest THEN "self test" ELSE "build"
          /\ timer' = TRUE /\ UNCHANGED result /\ NoFault
       \/ InitFails /\ timer' \in BOOLEAN
    /\ UNCHANGED <<main, spent, sem, buffers, misused, state, world, drawVars,
                   otaVars, changes>>

\* Every flush needs the buffers.
BuffersFreed == buffers = "freed"

RunSelfTest ==
    /\ task = "self test" /\ ~TimeIsUp
    /\ spent' = spent + 4 * HoldTime
    /\ task' = "build" /\ misused' = (misused \/ BuffersFreed)
    /\ UNCHANGED <<main, sem, buffers, timer, result, state, world, drawVars,
                   otaVars, changes, faults>>

(***************************************************************************)
(* Rendering.                                                              *)
(***************************************************************************)
\* Faulty variant of Refreshed: only the message goes.
RefreshedMessage(u) ==
    IF u.error = "none" \/ u.left # 0 THEN u ELSE [u EXCEPT !.error = "none"]

\* clear_ota_runtime, and refresh_ota_state: a message whose time is over goes,
\* and its screen with it, unless an update is under way behind it.
Refreshed(u) ==
    IF u.error = "none" \/ u.left # 0 THEN u
    ELSE IF u.error = "busy" /\ u.active /\ u.stage # "failed"
         THEN [u EXCEPT !.error = "none", !.left = NoTime]
         ELSE NoUpdate

SignalLevel(dbm) == Cardinality({limit \in {-55, -67, -75, -85} : dbm >= limit})

\* What render_runtime makes of Wi-Fi: name, strength and bars.
Runtime(s, w) ==
    [ssid |-> w.wifi # Down,
     rssi |-> CASE w.wifi = Down -> "offline"
                [] w.wifi = Unknown -> "unknown"
                [] OTHER -> "known",
     bars |-> IF w.wifi \in {Down, Unknown} THEN 0 ELSE SignalLevel(w.wifi),
     clock |-> w.clock, cells |-> s.sensor]

\* ota_base_status, and the note below it with ota_error_text.
OtaNote(u) ==
    IF u.stage = "failed" THEN u.error
    ELSE IF u.error = "busy" THEN "busy" ELSE "power"

OtaView(u) == [stage |-> u.stage, note |-> OtaNote(u), percent |-> u.percent]

\* render_boot_phase: the text, the other views hidden.
DrawBoot(w, s) == [w EXCEPT !.visible = {"boot"}, !.boot = Phases[s.phase]]

DrawOta(w, s) ==
    [w EXCEPT !.visible = {"ota"}, !.ground = "light", !.ota = OtaView(s.ota)]

\* Faulty variant of DrawRuntime: the background stays as it was.
DrawRuntimeDark(w, s, v) ==
    IF s.mode = "off"
    THEN [w EXCEPT !.visible = {}, !.ground = "dark"]
    ELSE [w EXCEPT !.visible = {"runtime"}, !.runtime = Runtime(s, v)]

\* render_runtime: a device that is off has a dark screen.
DrawRuntime(w, s, v) ==
    IF s.mode = "off"
    THEN [w EXCEPT !.visible = {}, !.ground = "dark"]
    ELSE [w EXCEPT !.visible = {"runtime"}, !.ground = "light",
                   !.runtime = Runtime(s, v)]

\* render_screen from its snapshot on.
Drawn(w, s, v) ==
    IF s.ota.active THEN DrawOta(w, s)
    ELSE IF Phases[s.phase] = "ready" THEN DrawRuntime(w, s, v)
    ELSE DrawBoot(w, s)

\* What is to be seen of the widgets.
Picture(w) ==
    [w EXCEPT !.boot = IF "boot" \in w.visible THEN @ ELSE NewBootView,
              !.ota = IF "ota" \in w.visible THEN @ ELSE NewOtaView,
              !.runtime = IF "runtime" \in w.visible THEN @ ELSE NewRuntimeView]

\* build_screen and the first render_screen.
Build ==
    /\ task = "build" /\ ~TimeIsUp
    /\ widgets' = Drawn(NewWidgets, state, world)
    /\ task' = "give" /\ result' = "ok"
    /\ UNCHANGED <<main, spent, sem, buffers, timer, misused, state, world, flushed,
                   otaVars, changes, faults>>

\* Faulty variant of Give: display_task goes on when init_runtime has failed.
GiveAndRun ==
    \/ /\ task = "give" /\ ~TimeIsUp
       /\ task' = IF sem = "empty" THEN "giving" ELSE "run"
       /\ UNCHANGED <<sem, misused>>
    \/ /\ task = "giving" /\ ~TimeIsUp
       /\ task' = "run"
       /\ misused' = (misused \/ sem # "empty")
       /\ sem' = IF sem = "empty" THEN "given" ELSE sem

\* display_task looks whether s_init_done is there, then gives it.
Give ==
    \/ /\ task = "give" /\ ~TimeIsUp
       /\ IF sem = "empty" THEN task' = "giving"
          ELSE task' = IF result = "ok" THEN "run" ELSE "deleted"
       /\ UNCHANGED <<sem, misused>>
    \/ /\ task = "giving" /\ ~TimeIsUp
       /\ task' = IF result = "ok" THEN "run" ELSE "deleted"
       /\ misused' = (misused \/ sem # "empty")
       /\ sem' = IF sem = "empty" THEN "given" ELSE sem

GiveStep ==
    /\ Give
    /\ UNCHANGED <<main, spent, buffers, timer, result, state, world, drawVars,
                   otaVars, changes, faults>>

\* Faulty variant of Cleanup: the buffers are left.
CleanupTimer ==
    /\ timer' = FALSE /\ UNCHANGED buffers
    /\ sem' = IF sem = "none" THEN "none" ELSE "deleted"

\* cleanup_failed_init.
Cleanup ==
    /\ timer' = FALSE
    /\ buffers' = IF buffers = "none" THEN "none" ELSE "freed"
    /\ sem' = IF sem = "none" THEN "none" ELSE "deleted"

InitReturns ==
    /\ main = "wait"
    /\ \/ /\ sem = "given" /\ result = "ok"
          /\ main' = "ok" /\ sem' = "deleted" /\ UNCHANGED <<buffers, timer>>
       \/ sem = "given" /\ result = "fail" /\ main' = "failed" /\ Cleanup
       \/ TimeIsUp /\ main' = "timeout" /\ Cleanup
    /\ UNCHANGED <<task, spent, result, misused, state, world, drawVars, otaVars,
                   changes, faults>>

\* render_screen: refresh_ota_state, then, its lock released, snapshot_state and
\* the drawing.
Refresh ==
    /\ task = "run" /\ task' = "draw"
    /\ state' = [state EXCEPT !.ota = Refreshed(@)]
    /\ failedFor' = IF Refreshed(state.ota).stage = "failed" THEN failedFor
                  ELSE NoTime
    /\ UNCHANGED <<main, spent, sem, buffers, timer, result, misused, world,
                   drawVars, ota, queue, dropped, stray, updates, changes, faults>>

\* Wi-Fi and the clock are asked while drawing.
Draw ==
    /\ task = "draw" /\ task' = "flush"
    /\ widgets' = Drawn(widgets, state, world)
    /\ flushed' = (flushed /\ Picture(widgets') = Picture(widgets))
    /\ UNCHANGED <<main, spent, sem, buffers, timer, result, misused, state, world,
                   otaVars, changes, faults>>

\* lv_timer_handler with display_flush; a failed write is only logged.
Flush ==
    /\ task = "flush" /\ task' = "run"
    /\ misused' = (misused \/ BuffersFreed)
    /\ \/ flushed' = TRUE /\ NoFault
       \/ UNCHANGED flushed /\ Fault
    /\ UNCHANGED <<main, spent, sem, buffers, timer, result, state, world, widgets,
                   otaVars, changes>>

(***************************************************************************)
(* What the other tasks set; sysload goes on, with or without a display.   *)
(***************************************************************************)
Started == main \in {"ok", "failed", "timeout"}

SetPhase ==
    /\ Started
    /\ state.phase < Len(Phases) /\ state' = [state EXCEPT !.phase = @ + 1]
    /\ ota' = IF Phases[state'.phase] = "ready" THEN "idle" ELSE ota
    /\ UNCHANGED <<startVars, world, drawVars, queue, dropped, failedFor, stray,
                   updates, changes, faults>>

Change == Started /\ changes < MaxChanges /\ changes' = changes + 1

SetMode ==
    /\ Change /\ Phases[state.phase] \in {"mqtt", "ready"}
    /\ \E m \in {"on", "off"} : state' = [state EXCEPT !.mode = m]
    /\ UNCHANGED <<startVars, world, drawVars, otaVars, faults>>

SetSensors ==
    /\ Change /\ Phases[state.phase] = "ready"
    /\ \E cells \in {{}, {1, 2}, Cell} : state' = [state EXCEPT !.sensor = cells]
    /\ UNCHANGED <<startVars, world, drawVars, otaVars, faults>>

WorldChanges ==
    /\ Change /\ Phases[state.phase] = "ready"
    /\ \/ \E r \in Readings : world' = [world EXCEPT !.wifi = r]
       \/ ~world.clock /\ world' = [world EXCEPT !.clock = TRUE]
    /\ UNCHANGED <<startVars, state, drawVars, otaVars, faults>>

(***************************************************************************)
(* display_service_set_ota_state and the update task.                      *)
(***************************************************************************)
\* Faulty variant of Report: "busy" replaces whatever is shown.
ReportReplacing(u, stage, error, percent) ==
    [active |-> TRUE, percent |-> percent, stage |-> stage, error |-> error,
     left |-> IF error = "none" THEN NoTime ELSE MessageTime]

\* Faulty variant of Report: a message keeps the time of an earlier one.
ReportKeepingTime(u, stage, error, percent) ==
    IF error = "busy" /\ u.active /\ u.stage # "failed"
    THEN [u EXCEPT !.error = "busy", !.left = MessageTime]
    ELSE [active |-> TRUE, percent |-> percent, stage |-> stage, error |-> error,
          left |-> IF error = "none" THEN NoTime
                   ELSE IF u.left # NoTime THEN u.left ELSE MessageTime]

\* "busy" is only a note on the screen of a running update.
Report(u, stage, error, percent) ==
    IF error = "busy" /\ u.active /\ u.stage # "failed"
    THEN [u EXCEPT !.error = "busy", !.left = MessageTime]
    ELSE [active |-> TRUE, percent |-> percent, stage |-> stage, error |-> error,
          left |-> IF error = "none" THEN NoTime ELSE MessageTime]

Reported(stage, error, percent) ==
    /\ state' = [state EXCEPT !.ota = Report(@, stage, error, percent)]
    /\ failedFor' = IF stage = "failed" THEN 0
                    ELSE IF state'.ota.stage = "failed" THEN failedFor ELSE NoTime

otherOta == <<startVars, world, drawVars, changes>>

TriggerUpdate ==
    /\ ota # "none" /\ ~dropped /\ updates < MaxUpdates
    /\ updates' = updates + 1
    /\ IF queue = 0 THEN queue' = 1 /\ UNCHANGED dropped
       ELSE dropped' = TRUE /\ UNCHANGED queue
    /\ UNCHANGED <<otherOta, state, ota, failedFor, stray, faults>>

ReportBusy ==
    /\ dropped /\ dropped' = FALSE
    /\ Reported("starting", "busy", 0)
    /\ stray' = (stray \/ (ota = "idle" /\ queue = 0))
    /\ UNCHANGED <<otherOta, ota, queue, updates, faults>>

OtaReceives ==
    /\ ota = "idle" /\ queue = 1
    /\ queue' = 0 /\ ota' = "received"
    /\ UNCHANGED <<otherOta, state, dropped, failedFor, stray, updates, faults>>

OtaReports ==
    /\ \/ ota = "received" /\ ota' = "starting" /\ Reported("starting", "none", 0)
       \/ /\ ota \in {"starting", "downloading"} /\ state.ota.percent < 50
          /\ ota' = "downloading" /\ Reported("downloading", "none", 50)
       \/ /\ ota \in {"starting", "downloading"}
          /\ ota' = "verifying" /\ Reported("verifying", "none", 100)
       \/ /\ ota = "verifying"
          /\ ota' = "rebooting" /\ Reported("rebooting", "none", 100)
    /\ UNCHANGED <<otherOta, queue, dropped, stray, updates, faults>>

OtaFails ==
    /\ ota \in {"starting", "downloading", "verifying"} /\ ota' = "idle"
    /\ \/ Reported("failed", "generic", IF ota = "verifying" THEN 100 ELSE 0)
       \/ ota = "verifying" /\ Reported("failed", "sha256", 100)
    /\ UNCHANGED <<otherOta, queue, dropped, stray, updates, faults>>

\* Time passes for the message on the screen.
Tick ==
    /\ state.ota.left > 0
    /\ state' = [state EXCEPT !.ota.left = @ - 1]
    /\ failedFor' = IF failedFor \in 0..(MessageTime - 1) THEN failedFor + 1
                    ELSE failedFor
    /\ UNCHANGED <<otherOta, ota, queue, dropped, stray, updates, faults>>

Starting == InitDriver \/ InitBuffers \/ InitTimer \/ RunSelfTest \/ Build \/ GiveStep
Rendering == Refresh \/ Draw \/ Flush
Updating == OtaReceives \/ OtaReports \/ OtaFails

Next ==
    \/ StartTask \/ Starting \/ InitReturns \/ Rendering
    \/ SetPhase \/ SetMode \/ SetSensors \/ WorldChanges
    \/ TriggerUpdate \/ ReportBusy \/ Updating \/ Tick

\* Tasks run and time passes; what is set, and when, promises nothing.
Spec ==
    /\ Init /\ [][Next]_vars
    /\ WF_vars(StartTask) /\ WF_vars(Starting) /\ WF_vars(InitReturns)
    /\ WF_vars(Rendering) /\ WF_vars(ReportBusy) /\ WF_vars(Updating)
    /\ WF_vars(Tick)

(***************************************************************************)
(* Properties.                                                             *)
(***************************************************************************)

\* What the screen should show, from nothing: one view, or none on dark ground.
Wanted(s, w) ==
    LET view == CASE s.ota.active -> "ota"
                  [] ~s.ota.active /\ Phases[s.phase] # "ready" -> "boot"
                  [] ~s.ota.active /\ Phases[s.phase] = "ready" /\ s.mode = "off" -> None
                  [] OTHER -> "runtime"
    IN  [NewWidgets EXCEPT
            !.visible = {view} \ {None},
            !.ground = IF view = None THEN "dark" ELSE "light",
            !.boot = IF view = "boot" THEN Phases[s.phase] ELSE @,
            !.ota = IF view = "ota" THEN OtaView(s.ota) ELSE @,
            !.runtime = IF view = "runtime" THEN Runtime(s, w) ELSE @]

\* What display_task draws is what is wanted for the state and the world it has
\* read, whatever the widgets held before.
DrawnIsWanted ==
    [][task = "draw" /\ task' = "flush" => Picture(widgets') = Wanted(state, world)]_vars

\* While an update runs the screen is about it, and at its stage: neither a
\* refused second update nor the end of an older message's time takes it away.
\* A failed update stays for its whole time, or until the next.
UpdateIsShown ==
    [][/\ ota' \in {"starting", "downloading", "verifying", "rebooting"} =>
             state'.ota.active /\ state'.ota.stage = ota'
       /\ state.ota.stage = "failed" /\ ~state'.ota.active => failedFor = MessageTime]_vars

\* "Non-fatal by design: callers may continue booting headless if this returns
\* an error" (display_service.h:62): a display that could not be started leaves
\* nothing behind.  Freed buffers or semaphores are used only where
\* display_service_init had stopped waiting for the task that uses them, and
\* its time limit, which allows for the self-test, passes only with a driver
\* that takes longer than its share.
HeadlessIsSafe ==
    /\ main = "failed" => /\ buffers # "all" /\ buffers # "some" /\ ~timer
                          /\ task \in {"none", "deleted"} /\ result = "fail"
    /\ misused => main = "timeout"
    /\ main = "timeout" => spent > Base + (IF SelfTest THEN 4 * HoldTime ELSE 0)

\* Once things stay as they are the panel shows them, whatever writes to it
\* failed; and the update screen goes away when no update is left, unless a
\* refusal was reported after the update it collided with.
PanelSettles ==
    /\ <>[](main = "ok" => flushed /\ Picture(widgets) = Wanted(state, world))
    /\ []<>(main = "ok" /\ ota = "idle" /\ queue = 0 /\ ~stray => ~state.ota.active)
=============================================================================
