------------------------- MODULE MCFirmwareServices -------------------------
(***************************************************************************)
(* Small instances of the firmware's services: the boot with its updates,  *)
(* the MQTT client, the display, the status LED, the buzzer, and the       *)
(* factory reset beside relays and mode.  Their models share no state;     *)
(* service, which never changes, says which of them runs, and the others   *)
(* stay in their initial states.                                           *)
(***************************************************************************)
EXTENDS Integers

CONSTANTS
    \* FirmwareBoot
    RetryLimit, Builds, Secrets, Updates, MaxBootUpdates, MaxBootFaults,
    \* MqttClient
    Publisher, Types, MaxHandlers, MaxMqttFaults, MaxMessages,
    \* DisplayService
    SelfTest, HoldTime, Base, Margin, DriverTimes, MessageTime, Phases, Readings,
    MaxShown, MaxChanges, MaxDisplayFaults,
    \* StatusLed
    Feedback, Hold,
    \* Buzzer
    Caller, Patterns, Depth, MaxBuzzerFaults

VARIABLES
    service,
    \* FirmwareBoot
    build, stage, failures, bootFaults, ap, stored, secret, post, restarting,
    unrestarted, image, bootSlot, fresh, running, trial, bootQueue, bootOta,
    update, bootUpdates,
    \* MqttClient
    start, handlers, synced, handle, users, client, connected, asked, forced, pc,
    held, todo, message, rx, publishing, reset, wifi, wifiFailed, link,
    subscribed, refused, will, status, unsupported, faults, messages,
    \* DisplayService
    main, screenTask, spent, sem, buffers, timer, initResult, misused, state,
    world, widgets, flushed, ota, queue, dropped, failedFor, stray, updates,
    changes, displayFaults,
    \* StatusLed
    shows, ledMqtt, led, lit, notified, colour, shown, pressed, poll, polls,
    holding, saved,
    \* Buzzer
    holder, wanted, sent, steps, step, sound, bzFaults, stuck,
    \* DeviceControl
    phase, mode, relays, gpio, nvs, flag, lock, erase, mqtt, job, answer,
    sensors, sensor, telemetry, clock, reported, missed, outdated

Boot == INSTANCE FirmwareBoot WITH
    MaxUpdates <- MaxBootUpdates, MaxFaults <- MaxBootFaults,
    faults <- bootFaults, queue <- bootQueue, ota <- bootOta, message <- update,
    updates <- bootUpdates

Display == INSTANCE DisplayService WITH
    MaxUpdates <- MaxShown, MaxFaults <- MaxDisplayFaults,
    task <- screenTask, result <- initResult, faults <- displayFaults

Led == INSTANCE StatusLed WITH
    boot <- shows, mqtt <- ledMqtt, state <- led, on <- lit, held <- polls

Mqtt == INSTANCE MqttClient WITH MaxFaults <- MaxMqttFaults

Bz == INSTANCE Buzzer WITH
    MaxFaults <- MaxBuzzerFaults, lock <- holder, queue <- steps, faults <- bzFaults

\* A device without a sensor whose flash and pins may fail.
Device == [faults |-> {"nvs", "erase", "gpio"}, fitted |-> FALSE, steady |-> TRUE]

Control == INSTANCE DeviceControlProofs WITH
    Channels <- 1, Devices <- {Device}, device <- Device, MaxClock <- 0,
    state <- relays, reset <- erase, task <- job

ASSUME FirmwareAssumption ==
    /\ Boot!BootAssumption /\ Mqtt!ClientAssumption
    /\ Display!DisplayAssumption /\ Led!LedAssumption /\ Bz!BuzzerAssumption
    /\ {"handler", "button"} \subseteq Caller
    /\ "p1" \in Publisher /\ "relay_set" \in Types

(***************************************************************************)
(* The constants of the run.                                               *)
(***************************************************************************)
\* Of the boot: every build; a good update with and without its digest, one
\* whose image does not boot, one with another's digest.
AllBuilds == [rollback : BOOLEAN, kept : BOOLEAN]
FourUpdates == { [image |-> "good",   digest |-> "good"],
                 [image |-> "good",   digest |-> "none"],
                 [image |-> "faulty", digest |-> "faulty"],
                 [image |-> "wrong",  digest |-> "good"] }

\* Of the display: three of the boot phases, which are all set in one way; a
\* Wi-Fi strength that could not be read, and one of two bars.
ThreePhases == <<"boot", "mqtt", "ready">>
TwoReadings == {0, -70}

\* Of the buzzer: a relay, or all of them, and the mode (device_mode.c:44).
TwoPatterns == {<<TRUE>>, <<TRUE, FALSE, TRUE, FALSE, TRUE>>}

bootVars ==
    <<build, stage, failures, bootFaults, ap, stored, secret, post,
      restarting, unrestarted, image, bootSlot, fresh, running, trial,
      bootQueue, bootOta, update, bootUpdates>>
mqttVars ==
    <<start, handlers, synced, handle, users, client, connected, asked,
      forced, pc, held, todo, message, rx, publishing, reset, wifi,
      wifiFailed, link, subscribed, refused, will, status, unsupported,
      faults, messages>>
displayVars ==
    <<main, screenTask, spent, sem, buffers, timer, initResult, misused, state,
      world, widgets, flushed, ota, queue, dropped, failedFor, stray, updates,
      changes, displayFaults>>
ledVars ==
    <<shows, ledMqtt, led, lit, notified, colour, shown, pressed, poll, polls,
      holding, saved>>
buzzerVars == <<holder, wanted, sent, steps, step, sound, bzFaults, stuck>>
controlVars ==
    <<phase, mode, relays, gpio, nvs, flag, lock, erase, mqtt, job, answer,
      sensors, sensor, telemetry, clock, reported, missed, outdated>>
vars ==
    <<service, bootVars, mqttVars, displayVars, ledVars, buzzerVars,
      controlVars>>

\* The variables of the service that runs.
now ==
    CASE service = "boot" -> bootVars
      [] service = "mqtt" -> mqttVars
      [] service = "display" -> displayVars
      [] service = "led" -> ledVars
      [] service = "buzzer" -> buzzerVars
      [] service = "control" -> controlVars

Service == {"boot", "mqtt", "display", "led", "buzzer", "control"}

Init ==
    /\ service \in Service
    /\ Boot!Init /\ Mqtt!Init /\ Display!Init /\ Led!Init /\ Bz!Init
    /\ Control!Init
    /\ service # "boot" => ~ap /\ ~build.rollback /\ ~build.kept

BootStep(A) == service = "boot" /\ A /\ UNCHANGED service
MqttStep(A) == service = "mqtt" /\ A /\ UNCHANGED service
DisplayStep(A) == service = "display" /\ A /\ UNCHANGED service
LedStep(A) == service = "led" /\ A /\ UNCHANGED service
BuzzerStep(A) == service = "buzzer" /\ A /\ UNCHANGED service
ControlStep(A) == service = "control" /\ A /\ UNCHANGED service

Next ==
    /\ \/ BootStep(Boot!Next) \/ MqttStep(Mqtt!Next) \/ DisplayStep(Display!Next)
       \/ LedStep(Led!Next) \/ BuzzerStep(Bz!Next) \/ ControlStep(Control!Next)
    /\ service # "boot" => UNCHANGED bootVars
    /\ service # "mqtt" => UNCHANGED mqttVars
    /\ service # "display" => UNCHANGED displayVars
    /\ service # "led" => UNCHANGED ledVars
    /\ service # "buzzer" => UNCHANGED buzzerVars
    /\ service # "control" => UNCHANGED controlVars

\* The fairness each service states: of those joined here one at most is ever
\* enabled in a behaviour.
Fairness ==
    /\ WF_now(\/ BootStep(Boot!Boot)
              \/ MqttStep(Mqtt!Setup)
              \/ DisplayStep(Display!StartTask)
              \/ LedStep(Led!LedTask)
              \/ BuzzerStep(Bz!Task)
              \/ ControlStep(Control!Boot))
    /\ WF_now(\/ BootStep(Boot!Ota)
              \/ MqttStep(Mqtt!Handler)
              \/ DisplayStep(Display!Starting)
              \/ LedStep(Led!BlinkTimer)
              \/ BuzzerStep(Bz!Calls("handler"))
              \/ ControlStep(Control!TaskSteps))
    /\ WF_now(\/ BootStep(Boot!PostStored)
              \/ MqttStep(Mqtt!PublishWill)
              \/ DisplayStep(Display!InitReturns)
              \/ LedStep(Led!ButtonTask)
              \/ BuzzerStep(Bz!Calls("button"))
              \/ ControlStep(Control!OtherGives))
    /\ WF_now(\/ BootStep(Boot!ConfigRestart)
              \/ MqttStep(Mqtt!Register("relay_set"))
              \/ DisplayStep(Display!Rendering)
              \/ ControlStep(Control!ResetSteps))
    /\ WF_now(\/ MqttStep(Mqtt!RegisterSync)
              \/ DisplayStep(Display!ReportBusy))
    /\ WF_now(MqttStep(Mqtt!LibTask) \/ DisplayStep(Display!Updating))
    /\ WF_now(MqttStep(Mqtt!Stop) \/ DisplayStep(Display!Tick))
    /\ WF_now(MqttStep(Mqtt!PublishEnd("p1")))
    /\ SF_now(ControlStep(Control!ResetLocks) \/ BuzzerStep(Bz!Takes("handler")))
    /\ SF_now(BuzzerStep(Bz!Takes("button")))

Spec == Init /\ [][Next]_vars /\ Fairness

\* Two events in all of a display that has started: without one, or after a
\* time-out, nothing is set.
Bounds ==
    /\ updates + changes + displayFaults <= 2
    /\ main \in {"failed", "timeout"} => updates = 0 /\ changes = 0

(***************************************************************************)
(* The properties of the modules, by their names there.                    *)
(***************************************************************************)
\* The type invariants.
TypeOK ==
    CASE service = "boot" -> Boot!TypeOK
      [] service = "mqtt" -> Mqtt!TypeOK
      [] service = "display" -> Display!TypeOK
      [] service = "led" -> Led!TypeOK
      [] service = "buzzer" -> Bz!TypeOK
      [] service = "control" -> Control!TypeOK

\* Only images that were verified boot, and unproven ones only once.
BootsOnlyProven == Boot!BootsOnlyProven

\* A boot does not wait for a secret it has stored, and its restarts end where
\* its failures are counted.
BootsEnd == Boot!StoredSecretIsUsed /\ Boot!CountedBootSettles

\* Nobody uses the MQTT client that mqtt_stop destroyed.
ClientOutlivesUsers == Mqtt!ClientOutlivesUsers

\* A device that says online hears what it can handle.
OnlineIsReady == Mqtt!OnlineIsReady

\* A device whose connection lasts comes online, and one that lost its network
\* ends up offline at the broker.
StatusSettles == Mqtt!ComesOnline /\ Mqtt!OfflineIsShown

\* A display that did not start is not used.
HeadlessIsSafe == Display!HeadlessIsSafe

\* The update that runs is the one on the screen, its failure stays.
UpdateIsShown == Display!UpdateIsShown

\* A panel nothing changes ends up showing what is, without a past update.
PanelSettles == Display!PanelSettles

\* The LED shows the hold of the button only during one.
ResetBlinkMeansHold == Led!ResetBlinkMeansHold

\* The LED shows the last state set; only its own runs are meant, the others
\* never write it.
LastSetIsShown == <>[](service = "led") => Led!LastSetIsShown

\* The buzzer plays whole patterns.
PatternsWhole == Bz!PatternsWhole

\* Whoever beeps goes on.
CallersReturn == Bz!CallersReturn

\* A factory reset ends unless the task it waits for waits for it.
ResetEndsUnlessAwaited == Control!ResetEndsUnlessAwaited
=============================================================================
