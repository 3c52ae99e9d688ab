------------------------------ MODULE StatusLed -----------------------------
(***************************************************************************)
(* The status LED (src/firmware/components/general/led/led.c) and those    *)
(* who set it: the boot, the MQTT event handler, and the task that polls   *)
(* the factory reset button (factory_reset.c).  The last one saves the     *)
(* state it covers and puts it back when the button is let go.             *)
(***************************************************************************)
EXTENDS Naturals

CONSTANTS
    Feedback,  \* polls until the LED shows the hold: FEEDBACK_THRESHOLD_MS
    Hold       \* polls until the reset: SA_FACTORY_RESET_HOLD_MS

LedAssumption == Feedback \in Nat \ {0} /\ Hold \in Nat /\ Feedback < Hold

\* s_color_table: which states blink.
Blinking == {"boot", "ble", "wifi", "reset"}
Steady == {"online", "error"}

VARIABLES
    boot,      \* what sysload_init showed last, "mqtt" once Wi-Fi is up
    mqtt,      \* the MQTT client: down, up, or stopped for good
    state, on, \* s_state, s_led_on
    notified,  \* led_task has a notification
    colour,    \* what led_task is to write; None when it waits
    shown,     \* what the LED shows
    pressed,   \* the button
    poll,      \* factory_reset_task: where it is
    held,      \* its hold_ms, in polls
    holding,   \* its was_holding
    saved      \* its saved_state

ledVars == <<state, on, notified>>
writer == <<colour, shown>>
button == <<poll, held, holding, saved>>
vars == <<boot, mqtt, ledVars, writer, pressed, button>>

None == "none"

TypeOK ==
    /\ boot \in {"boot", "ble", "wifi", "error", "mqtt"}
    /\ mqtt \in {"down", "up", "stopped"}
    /\ state \in Blinking \union Steady
    /\ on \in BOOLEAN /\ notified \in BOOLEAN
    /\ colour \in Blinking \union Steady \union {None, "dark"}
    /\ shown \in Blinking \union Steady \union {"dark"}
    /\ pressed \in BOOLEAN
    /\ poll \in {"sleep", "feedback", "run", "resetting", "failed"}
    /\ held \in 0..Hold /\ holding \in BOOLEAN
    /\ saved \in Blinking \union Steady

\* led_init has blanked the LED and started the task and the timer (where it
\* fails the device aborts), and sysload_init has shown the first state.
Init ==
    /\ boot = "boot" /\ mqtt = "down"
    /\ state = "boot" /\ on = TRUE /\ notified = TRUE
    /\ colour = None /\ shown = "dark"
    /\ pressed = FALSE
    /\ poll = "sleep" /\ held = 0 /\ holding = FALSE /\ saved = "online"

\* led_set_state.
SetLed(s) == state' = s /\ on' = TRUE /\ notified' = TRUE

(***************************************************************************)
(* The LED.                                                                *)
(***************************************************************************)
\* led_task takes all its notifications, then reads under the lock.
LedReads ==
    /\ notified /\ colour = None
    /\ notified' = FALSE /\ colour' = IF on THEN state ELSE "dark"
    /\ UNCHANGED <<boot, mqtt, state, on, shown, pressed, button>>

LedWrites ==
    /\ colour # None
    /\ shown' = colour /\ colour' = None
    /\ UNCHANGED <<boot, mqtt, ledVars, pressed, button>>

\* Faulty variant of Toggled: every state blinks.
ToggledAlways ==
    ~on

\* Faulty variant of Toggled: the phase of an earlier state stays.
ToggledNever ==
    TRUE

\* blink_timer_cb, in its critical section.
Toggled ==
    IF state \in Blinking THEN ~on ELSE TRUE

\* Half a second is longer than led_task takes.
BlinkTimer ==
    /\ ~notified /\ colour = None
    /\ on' = Toggled /\ notified' = TRUE
    /\ UNCHANGED <<boot, mqtt, state, writer, pressed, button>>

(***************************************************************************)
(* The boot and MQTT.                                                      *)
(***************************************************************************)
NextShown == [ boot |-> {"ble", "wifi", "error"}, ble |-> {"wifi", "error"},
               wifi |-> {"wifi", "error"}, error |-> {}, mqtt |-> {} ]

\* The second "wifi" is that of a connection made; MQTT is next.
BootShows ==
    /\ \E s \in NextShown[boot] :
          SetLed(s) /\ boot' = IF boot = "wifi" /\ s = "wifi" THEN "mqtt" ELSE s
    /\ UNCHANGED <<mqtt, writer, pressed, button>>

Restart ==
    /\ boot' = "boot" /\ mqtt' = "down" /\ SetLed("boot")
    /\ colour' = None /\ shown' = "dark"
    /\ poll' = "sleep" /\ held' = 0 /\ holding' = FALSE /\ saved' = "online"
    /\ UNCHANGED pressed

BootRestarts == boot = "error" /\ Restart

\* MQTT_EVENT_CONNECTED and MQTT_EVENT_DISCONNECTED.
MqttEvent ==
    /\ boot = "mqtt"
    /\ \/ mqtt = "down" /\ mqtt' = "up" /\ SetLed("online")
       \/ mqtt = "up" /\ mqtt' = "down" /\ SetLed("wifi")
    /\ UNCHANGED <<boot, writer, pressed, button>>

(***************************************************************************)
(* factory_reset_task.                                                     *)
(***************************************************************************)
Press ==
    /\ pressed' = ~pressed
    /\ UNCHANGED <<boot, mqtt, ledVars, writer, button>>

Released ==
    /\ ~pressed /\ held' = 0 /\ holding' = FALSE
    /\ IF holding THEN SetLed(saved) ELSE UNCHANGED ledVars
    /\ UNCHANGED <<poll, saved>>

\* Faulty variant of Pressed: the state is saved at every poll.
PressedSaving ==
    /\ pressed /\ held' = held + 1
    /\ IF held' >= Feedback
       THEN saved' = state /\ holding' = TRUE /\ poll' = "feedback"
       ELSE poll' = "sleep" /\ UNCHANGED <<saved, holding>>
    /\ UNCHANGED ledVars

\* The state is read here and covered in a later step.
Pressed ==
    /\ pressed /\ held' = held + 1
    /\ IF held' >= Feedback /\ ~holding
       THEN saved' = state /\ holding' = TRUE /\ poll' = "feedback"
       ELSE /\ poll' = (IF held' >= Hold THEN "run" ELSE "sleep")
            /\ UNCHANGED <<saved, holding>>
    /\ UNCHANGED ledVars

Poll ==
    /\ poll = "sleep"
    /\ Released \/ Pressed
    /\ UNCHANGED <<boot, mqtt, writer, pressed>>

ShowHold ==
    /\ poll = "feedback" /\ SetLed("reset")
    /\ poll' = IF held >= Hold THEN "run" ELSE "sleep"
    /\ UNCHANGED <<boot, mqtt, writer, pressed, held, holding, saved>>

\* factory_reset_run: config_factory_reset_begin refuses, or the point of no
\* return is shown.
RunReset ==
    /\ poll = "run"
    /\ \/ poll' = "failed" /\ UNCHANGED ledVars
       \/ poll' = "resetting" /\ SetLed("error")
    /\ UNCHANGED <<boot, mqtt, writer, pressed, held, holding, saved>>

\* The flash is erased, or cannot be; MQTT is stopped by then.
ResetEnds ==
    /\ poll = "resetting"
    /\ \/ Restart
       \/ /\ poll' = "failed" /\ mqtt' = "stopped"
          /\ UNCHANGED <<boot, ledVars, writer, pressed, held, holding, saved>>

ResetFailed ==
    /\ poll = "failed" /\ poll' = "sleep" /\ SetLed("error")
    /\ held' = 0 /\ holding' = FALSE
    /\ UNCHANGED <<boot, mqtt, writer, pressed, saved>>

LedTask == LedReads \/ LedWrites
ButtonTask == Poll \/ ShowHold \/ RunReset \/ ResetEnds \/ ResetFailed

Next ==
    \/ LedTask \/ BlinkTimer \/ BootShows \/ BootRestarts \/ MqttEvent
    \/ Press \/ ButtonTask

Fairness == WF_vars(LedTask) /\ WF_vars(BlinkTimer) /\ WF_vars(ButtonTask)

Spec == Init /\ [][Next]_vars /\ Fairness

(***************************************************************************)
(* Properties.                                                             *)
(***************************************************************************)

\* "red blink - reset hold in progress, cancellable" (led.h:20): it is shown by
\* a hold only, and whatever cancels the hold takes it away; what is put back
\* is never the hold's own state.
ResetBlinkMeansHold == state = "reset" => holding

\* The state set last is the one shown, however sets, blinks and writes
\* interleave: a steady one for good, a blinking one, whose other half is dark,
\* again and again.
LastSetIsShown ==
    \/ []<><<state' # state>>_vars
    \/ /\ <>[](state \in Steady => shown = state)
       /\ []<>(shown = state) /\ []<>(state \in Blinking => shown = "dark")
=============================================================================
