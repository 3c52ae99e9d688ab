----------------------------- MODULE MqttClient -----------------------------
(***************************************************************************)
(* The life of the MQTT client of the firmware                             *)
(* (src/firmware/components/general/sa_mqtt/mqtt.c): the handle s_client   *)
(* and the count of its users, the task that sets the client up, the event *)
(* handler from the connection to the routing of messages, the tasks that  *)
(* publish, and the shutdown by a factory reset.  What a command does is   *)
(* modelled in CommandDevice.  Below the handle stand the esp-mqtt library *)
(* and the broker, modelled as the code relies on them.                    *)
(***************************************************************************)
EXTENDS Naturals, Sequences, FiniteSets

CONSTANTS
    Publisher,    \* tasks that call mqtt_publish: sensors, relays, updates
    Types,        \* command types the boot stages register
    MaxHandlers,  \* MAX_CMD_HANDLERS
    MaxFaults,    \* bound: lost links, refusals and calls that fail
    MaxMessages   \* bound: messages delivered to the device

ClientAssumption ==
    MaxHandlers \in Nat /\ MaxFaults \in Nat /\ MaxMessages \in Nat

\* The topics of mqtt_subscribe_required_topics, in its order.
RequiredTopics == <<"command", "shadow", "ota">>
Topic == {"command", "shadow", "ota"}

VARIABLES
    start,      \* the boot stages and mqtt_task, up to mqtt_start's return
    handlers,   \* s_cmd_handlers
    synced,     \* s_time_sync_cb and s_shadow_sync_cb are set
    handle,     \* s_client # NULL
    users,      \* s_client_users
    client,     \* the library's client object
    connected,  \* the library believes it is connected
    asked,      \* esp_mqtt_client_disconnect was called
    forced,     \* ... and that ended the last session
    pc, held,   \* the event handler, and how often it holds the client
    todo,       \* topics it has still to subscribe
    message,    \* the message it handles
    rx,         \* s_rx_topic and s_rx_payload
    publishing, \* publishers that hold the client
    reset,      \* factory_reset_run
    wifi,       \* the station is up
    wifiFailed, \* wifi_sta_deinit failed
    link, subscribed, refused, will, status, \* the broker's side, see Init
    unsupported,  \* a registered type, or shadow callback, was not found
    faults, messages

setup == <<start, handlers, synced>>
own == <<handle, users>>
event == <<pc, held, todo, message, rx>>
lib == <<client, connected, asked, forced>>
broker == <<link, subscribed, refused, will, status>>
shutdown == <<reset, wifi, wifiFailed>>
counters == <<faults, messages>>
vars == <<setup, own, event, lib, broker, shutdown, publishing, unsupported,
          counters>>

None == [topic |-> "none", type |-> "none"]
Message ==
    {[topic |-> "command", type |-> t] : t \in Types}
    \union {[topic |-> t, type |-> "none"] : t \in {"shadow", "ota", "large"}}

EventPc == {"idle", "connected", "subscribe", "online", "shadow", "reporting",
            "get", "release", "give up", "lost", "refused", "append", "route",
            "ack", "acking", "reset"}

TypeOK ==
    /\ start \in {"boot", "task", "made", "set", "done", "failed"}
    /\ Len(handlers) <= MaxHandlers
    /\ synced \in BOOLEAN /\ handle \in BOOLEAN /\ unsupported \in BOOLEAN
    /\ users \in Nat /\ held \in 0..2
    /\ client \in {"none", "made", "running", "stopped", "destroyed"}
    /\ connected \in BOOLEAN /\ asked \in BOOLEAN /\ forced \in BOOLEAN
    /\ pc \in EventPc /\ Len(todo) <= 3
    /\ message \in Message \union {None}
    /\ rx \in Topic \union {"empty", "freed"}
    /\ publishing \subseteq Publisher
    /\ reset \in {"no", "wifi", "take", "wait", "free", "stop", "destroy", "over"}
    /\ wifi \in BOOLEAN /\ wifiFailed \in BOOLEAN
    /\ link \in BOOLEAN /\ subscribed \subseteq Topic
    /\ refused \in BOOLEAN /\ will \in BOOLEAN
    /\ status \in {"none", "online", "offline"}
    /\ faults \in 0..MaxFaults /\ messages \in 0..MaxMessages

\* link: the broker has a session of the device; will: a session was lost and
\* its will is to be published; status: the retained status message.
Init ==
    /\ start = "boot" /\ handlers = <<>> /\ synced = FALSE
    /\ handle = FALSE /\ users = 0 /\ publishing = {}
    /\ client = "none" /\ connected = FALSE /\ asked = FALSE /\ forced = FALSE
    /\ pc = "idle" /\ held = 0 /\ todo = <<>> /\ message = None
    /\ rx = "empty"
    /\ reset = "no" /\ wifi = TRUE /\ wifiFailed = FALSE
    /\ link = FALSE /\ subscribed = {} /\ refused = FALSE
    /\ will = FALSE /\ status = "none"
    /\ unsupported = FALSE /\ faults = 0 /\ messages = 0

Fault == faults < MaxFaults /\ faults' = faults + 1 /\ UNCHANGED messages
NoFault == UNCHANGED counters

\* The library's own lock: its task holds it while the handler runs.
Unlocked == pc = "idle"

(***************************************************************************)
(* Boot: registration and mqtt_start with its task.                        *)
(***************************************************************************)
Registered == {handlers[i] : i \in DOMAIN handlers}

\* mqtt_register_command_handler; an error would restart the device.
Register(t) ==
    /\ start = "boot" /\ t \notin Registered
    /\ Len(handlers) < MaxHandlers
    /\ handlers' = Append(handlers, t)
    /\ UNCHANGED <<start, synced, own, event, lib, broker, shutdown, publishing,
                   unsupported, counters>>

RegisterSync ==
    /\ start = "boot" /\ Registered = Types /\ ~synced
    /\ synced' = TRUE
    /\ UNCHANGED <<start, handlers, own, event, lib, broker, shutdown, publishing,
                   unsupported, counters>>

\* Faulty variant of Start: the callbacks are registered afterwards.
StartEarly ==
    /\ start = "boot" /\ Registered = Types
    /\ start' = "task"
    /\ UNCHANGED <<handlers, synced, own, event, lib, broker, shutdown,
                   publishing, unsupported, counters>>

Start ==
    /\ start = "boot" /\ synced
    /\ start' = "task"
    /\ UNCHANGED <<handlers, synced, own, event, lib, broker, shutdown,
                   publishing, unsupported, counters>>

ClientInit ==
    /\ start = "task"
    /\ \/ start' = "made" /\ client' = "made" /\ NoFault
       \/ start' = "failed" /\ UNCHANGED client /\ Fault
    /\ UNCHANGED <<handlers, synced, own, event, connected, asked, forced,
                   broker, shutdown, publishing, unsupported>>

SetHandle ==
    /\ start = "made"
    /\ start' = "set" /\ handle' = TRUE
    /\ UNCHANGED <<handlers, synced, users, event, lib, broker, shutdown,
                   publishing, unsupported, counters>>

\* Registration of the handler and start; fail_client clears the handle and
\* destroys the client.
ClientStart ==
    /\ start = "set"
    /\ \/ start' = "done" /\ client' = "running" /\ UNCHANGED handle /\ NoFault
       \/ start' = "failed" /\ client' = "destroyed" /\ handle' = FALSE /\ Fault
    /\ UNCHANGED <<handlers, synced, users, event, connected, asked, forced,
                   broker, shutdown, publishing, unsupported>>

(***************************************************************************)
(* mqtt_client_acquire and mqtt_client_release.                            *)
(***************************************************************************)
Acquire == handle /\ users' = users + 1 /\ UNCHANGED handle
Release == users' = (IF users > 0 THEN users - 1 ELSE 0) /\ UNCHANGED handle

\* mqtt_publish of another task, which is created after mqtt_start.
PublishBegin(p) ==
    /\ start = "done" /\ p \notin publishing
    /\ Acquire
    /\ publishing' = publishing \union {p}
    /\ UNCHANGED <<setup, event, lib, broker, shutdown, unsupported, counters>>

PublishEnd(p) ==
    /\ p \in publishing /\ Unlocked
    /\ Release
    /\ publishing' = publishing \ {p}
    /\ UNCHANGED <<setup, event, lib, broker, shutdown, unsupported, counters>>

(***************************************************************************)
(* The library and the broker.                                             *)
(***************************************************************************)
\* The broker publishes the will of a lost session before it accepts another.
LibConnects ==
    /\ client = "running" /\ ~connected /\ Unlocked /\ wifi /\ ~will
    /\ connected' = TRUE /\ link' = TRUE /\ subscribed' = {} /\ refused' = FALSE
    /\ forced' = FALSE /\ pc' = "connected"
    /\ UNCHANGED <<setup, own, held, todo, message, rx, client, asked, will,
                   status, shutdown, publishing, unsupported, counters>>

\* The session ends without a DISCONNECT.
SessionLost == link' = FALSE /\ subscribed' = {} /\ will' = (will \/ link)

LinkLost ==
    /\ link /\ Fault /\ SessionLost
    /\ UNCHANGED <<setup, own, event, lib, refused, status, shutdown, publishing,
                   unsupported>>

PublishWill ==
    /\ will /\ will' = FALSE /\ status' = "offline"
    /\ UNCHANGED <<setup, own, event, lib, link, subscribed, refused, shutdown,
                   publishing, unsupported, counters>>

\* The library notices the lost link, or sends the DISCONNECT it was asked
\* for, upon which the broker drops the will.
LibDisconnects ==
    /\ client = "running" /\ connected /\ Unlocked
    /\ \/ ~link \/ asked
    /\ connected' = FALSE /\ asked' = FALSE /\ pc' = "lost"
    /\ forced' = link
    /\ link' = FALSE /\ subscribed' = {}
    /\ UNCHANGED <<setup, own, held, todo, message, rx, client, refused, will,
                   status, shutdown, publishing, unsupported, counters>>

\* A SUBACK that refuses a topic reaches the device.
SubackRefuses ==
    /\ client = "running" /\ connected /\ link /\ refused /\ Unlocked
    /\ refused' = FALSE /\ pc' = "refused"
    /\ UNCHANGED <<setup, own, held, todo, message, rx, lib, link, subscribed,
                   will, status, shutdown, publishing, unsupported, counters>>

Deliver(m) ==
    /\ client = "running" /\ connected /\ link /\ Unlocked
    /\ m.topic \in subscribed \/ (m.topic = "large" /\ subscribed # {})
    /\ messages < MaxMessages /\ messages' = messages + 1
    /\ message' = m /\ pc' = "append"
    /\ UNCHANGED <<setup, own, held, todo, rx, lib, broker, shutdown, publishing,
                   unsupported, faults>>

(***************************************************************************)
(* mqtt_event_handler, which the library's task runs.                      *)
(***************************************************************************)
others == <<setup, shutdown, publishing, unsupported>>

\* MQTT_EVENT_CONNECTED, ignored when the client is being stopped.
OnConnected ==
    /\ pc = "connected"
    /\ \/ /\ Acquire /\ held' = 1
          /\ pc' = "subscribe" /\ todo' = RequiredTopics
       \/ ~handle /\ pc' = "idle" /\ UNCHANGED <<own, held, todo>>
    /\ UNCHANGED <<message, rx, lib, broker, counters, others>>

\* One topic of mqtt_subscribe_required_topics: granted, refused, written to
\* a dead link, or not enqueued.
Subscribe ==
    /\ pc = "subscribe" /\ todo # <<>>
    /\ \/ /\ link /\ subscribed' = subscribed \union {Head(todo)}
          /\ todo' = Tail(todo)
          /\ NoFault /\ UNCHANGED <<pc, refused>>
       \/ /\ link /\ refused' = TRUE /\ Fault
          /\ todo' = Tail(todo) /\ UNCHANGED <<pc, subscribed>>
       \/ /\ ~link /\ todo' = Tail(todo)
          /\ NoFault /\ UNCHANGED <<pc, subscribed, refused>>
       \/ /\ IF link THEN Fault ELSE NoFault
          /\ pc' = "give up" /\ todo' = <<>> /\ UNCHANGED <<subscribed, refused>>
    /\ UNCHANGED <<own, held, message, rx, lib, link, will, status, others>>

Online == IF link THEN status' = "online" ELSE UNCHANGED status

\* Faulty variant of PublishOnline: the status goes out at once.
PublishOnlineFirst ==
    /\ pc = "subscribe" /\ Online
    /\ IF todo = <<>> THEN pc' = "shadow" ELSE UNCHANGED pc
    /\ UNCHANGED <<own, held, todo, message, rx, lib, link, subscribed, refused,
                   will, counters, others>>

\* The retained status, once the subscriptions are on their way.
PublishOnline ==
    /\ pc = "subscribe" /\ todo = <<>>
    /\ Online /\ pc' = "shadow"
    /\ UNCHANGED <<own, held, todo, message, rx, lib, link, subscribed, refused,
                   will, counters, others>>

\* Faulty variant of GiveUp: the failure is only logged.
GiveUpSilently ==
    /\ pc = "give up"
    /\ pc' = "idle" /\ Release /\ held' = held - 1
    /\ UNCHANGED <<todo, message, rx, lib, broker, counters, others>>

\* A forced reconnection after a subscription failed.
GiveUp ==
    /\ pc = "give up" /\ asked' = TRUE
    /\ pc' = "idle" /\ Release /\ held' = held - 1
    /\ UNCHANGED <<todo, message, rx, client, connected, forced, broker, counters,
                   others>>

\* device_mode_publish_current_shadow: mqtt_publish within the handler.
ReportShadow ==
    \/ /\ pc = "shadow"
       /\ \/ Acquire /\ held' = held + 1 /\ pc' = "reporting"
          \/ ~handle /\ pc' = "get" /\ UNCHANGED <<own, held>>
       /\ UNCHANGED <<todo, message, rx, lib, broker, counters, others>>
    \/ /\ pc = "reporting" /\ pc' = "get"
       /\ Release /\ held' = held - 1
       /\ UNCHANGED <<todo, message, rx, lib, broker, counters, others>>

\* mqtt_publish_shadow_get_request, then the release.
RequestShadow ==
    \/ /\ pc = "get" /\ pc' = "release"
       /\ UNCHANGED <<own, held, todo, message, rx, lib, broker, counters, others>>
    \/ /\ pc = "release" /\ pc' = "idle"
       /\ Release /\ held' = held - 1
       /\ UNCHANGED <<todo, message, rx, lib, broker, counters, others>>

OnDisconnected ==
    /\ pc = "lost" /\ pc' = "idle" /\ rx' = "empty"
    /\ UNCHANGED <<own, held, todo, message, lib, broker, counters, others>>

\* MQTT_EVENT_ERROR of a refused subscription: reconnect.
OnRefused ==
    /\ pc = "refused"
    /\ IF handle THEN Acquire /\ held' = held + 1 /\ pc' = "give up"
       ELSE pc' = "idle" /\ UNCHANGED <<own, held>>
    /\ UNCHANGED <<todo, message, rx, lib, broker, counters, others>>

\* mqtt_pending_rx_append: only known topics and small payloads are taken.
Taken(m) ==
    m.topic \in Topic

OnData ==
    /\ pc = "append"
    /\ \/ /\ Taken(message) /\ rx' = message.topic /\ pc' = "route" /\ NoFault
          /\ UNCHANGED message
       \/ /\ IF Taken(message) THEN Fault ELSE NoFault
          /\ rx' = "empty" /\ pc' = "idle" /\ message' = None
    /\ UNCHANGED <<own, held, todo, lib, broker, others>>

\* Routing by the topic in s_rx_topic; a freed one reads as anything.
RoutedAs == IF rx = "freed" THEN Topic ELSE {rx}

\* The type is looked up in s_cmd_handlers, "set_time" among them here.
Supported(topic, type) ==
    CASE topic = "command" -> type \in Registered /\ synced
      [] topic = "shadow" -> synced
      [] OTHER -> TRUE

Route ==
    /\ pc = "route"
    /\ \E topic \in RoutedAs :
          /\ pc' = IF topic = "command" THEN "ack" ELSE "reset"
          /\ unsupported' =
                (unsupported \/ (rx # "freed" /\ ~Supported(topic, message.type)))
    /\ UNCHANGED <<own, held, todo, message, rx, lib, broker, counters, setup,
                   shutdown, publishing>>

\* Faulty variant of Acknowledge: no release when the publish fails.
AcknowledgeLeaking ==
    \/ /\ pc = "ack"
       /\ \/ Acquire /\ held' = held + 1 /\ pc' = "acking"
          \/ ~handle /\ pc' = "reset" /\ UNCHANGED <<own, held>>
       /\ UNCHANGED <<todo, message, rx, lib, broker, counters, others>>
    \/ /\ pc = "acking" /\ pc' = "reset"
       /\ IF link THEN Release ELSE UNCHANGED own
       /\ held' = held - 1
       /\ UNCHANGED <<todo, message, rx, lib, broker, counters, others>>

\* mqtt_publish_command_ack_internal; it releases the client on every path.
Acknowledge ==
    \/ /\ pc = "ack"
       /\ \/ Acquire /\ held' = held + 1 /\ pc' = "acking"
          \/ ~handle /\ pc' = "reset" /\ UNCHANGED <<own, held>>
       /\ UNCHANGED <<todo, message, rx, lib, broker, counters, others>>
    \/ /\ pc = "acking" /\ pc' = "reset"
       /\ Release /\ held' = held - 1
       /\ UNCHANGED <<todo, message, rx, lib, broker, counters, others>>

DataDone ==
    /\ pc = "reset" /\ pc' = "idle"
    /\ rx' = "empty" /\ message' = None
    /\ UNCHANGED <<own, held, todo, lib, broker, counters, others>>

Handler ==
    \/ OnConnected \/ Subscribe \/ PublishOnline \/ GiveUp \/ ReportShadow
    \/ RequestShadow \/ OnDisconnected \/ OnRefused \/ OnData \/ Route
    \/ Acknowledge \/ DataDone

(***************************************************************************)
(* factory_reset_run and mqtt_stop.  Its task shares a core with mqtt_task *)
(* and has the lower priority: it does not run while the client is set up. *)
(***************************************************************************)
rest == <<setup, event, publishing, unsupported>>

\* Faulty variant of ResetWifi: Wi-Fi is left to the restart.
ResetWifiLater ==
    /\ reset = "no" /\ start \in {"boot", "done"} /\ reset' = "take"
    /\ UNCHANGED <<own, lib, wifi, wifiFailed, broker, counters, rest>>

\* wifi_sta_deinit comes first, and takes the link down without a DISCONNECT.
\* During the boot it also ends what waits for it (BleProvisioning).
ResetWifi ==
    /\ reset = "no" /\ start \in {"boot", "done"} /\ reset' = "take"
    /\ \/ wifi' = FALSE /\ UNCHANGED wifiFailed /\ SessionLost /\ NoFault
       \/ /\ wifiFailed' = TRUE /\ Fault
          /\ UNCHANGED <<wifi, link, subscribed, will>>
    /\ UNCHANGED <<own, lib, refused, status, rest>>

StopTakes ==
    /\ reset = "take" /\ start \in {"boot", "done", "failed"}
    /\ reset' = IF handle THEN "wait" ELSE "over"
    /\ handle' = FALSE
    /\ UNCHANGED <<users, lib, wifi, wifiFailed, broker, counters, rest>>

\* Faulty variant of StopWaits: nobody is waited for.
StopUnwaiting ==
    /\ reset = "wait" /\ reset' = "free"
    /\ UNCHANGED <<own, lib, wifi, wifiFailed, broker, counters, rest>>

\* mqtt_client_wait_for_users.
StopWaits ==
    /\ reset = "wait" /\ users = 0 /\ reset' = "free"
    /\ UNCHANGED <<own, lib, wifi, wifiFailed, broker, counters, rest>>

\* mqtt_pending_rx_reset frees the buffers, in use or not.
StopFrees ==
    /\ reset = "free" /\ reset' = "stop"
    /\ rx' = IF rx = "empty" THEN "empty" ELSE "freed"
    /\ UNCHANGED <<own, lib, pc, held, todo, message, wifi, wifiFailed, broker,
                   counters, setup, publishing, unsupported>>

\* esp_mqtt_client_stop: a DISCONNECT if the library is connected, and the end
\* of its task.
StopLib ==
    /\ reset = "stop" /\ Unlocked /\ reset' = "destroy"
    /\ client' = "stopped" /\ connected' = FALSE
    /\ IF connected THEN link' = FALSE /\ subscribed' = {}
       ELSE UNCHANGED <<link, subscribed>>
    /\ UNCHANGED <<own, asked, forced, wifi, wifiFailed, refused, will, status,
                   counters, rest>>

Destroy ==
    /\ reset = "destroy" /\ reset' = "over"
    /\ client' = "destroyed"
    /\ UNCHANGED <<own, connected, asked, forced, wifi, wifiFailed, broker, counters,
                   rest>>

Setup == Start \/ ClientInit \/ SetHandle \/ ClientStart
Stop == StopTakes \/ StopWaits \/ StopFrees \/ StopLib \/ Destroy

\* What the library's task does of itself.
LibTask == LibConnects \/ LibDisconnects \/ SubackRefuses

Next ==
    \/ \E t \in Types : Register(t)
    \/ RegisterSync \/ Setup
    \/ \E p \in Publisher : PublishBegin(p) \/ PublishEnd(p)
    \/ LibTask \/ LinkLost \/ PublishWill
    \/ \E m \in Message : Deliver(m)
    \/ Handler \/ ResetWifi \/ Stop

\* Tasks run, and one that may take the library's lock takes it.
Fairness ==
    /\ WF_vars(\E t \in Types : Register(t)) /\ WF_vars(RegisterSync)
    /\ WF_vars(Setup) /\ WF_vars(Handler) /\ WF_vars(PublishWill)
    /\ WF_vars(LibTask) /\ WF_vars(Stop) /\ \A p \in Publisher : WF_vars(PublishEnd(p))

Spec == Init /\ [][Next]_vars /\ Fairness

(***************************************************************************)
(* Properties.                                                             *)
(***************************************************************************)

\* s_client_users counts those who hold the client: one too many and mqtt_stop
\* waits for ever, one too few and it, or a failed start, destroys the client
\* under a publisher or the event handler.
ClientOutlivesUsers ==
    /\ users = Cardinality(publishing) + held
    /\ publishing # {} \/ held > 0 \/ pc # "idle" => client # "destroyed"

\* "subscribe inside CONNECTED so re-connects re-subscribe", "after
\* subscriptions are ready" (mqtt.c:448, 457), and "before mqtt_start to avoid
\* race: broker may deliver a queued set_time command immediately"
\* (sysload.c:1053): a device is announced only when the broker has, or has
\* refused, all its subscriptions in this session, and no message the
\* subscriptions bring finds what should handle it missing.
OnlineIsReady ==
    [][/\ status' = "online" /\ status # "online" => subscribed = Topic \/ refused
       /\ ~unsupported']_vars

\* "Disconnected; reconnecting automatically" (mqtt.c:481), "forcing
\* reconnect" (451, 672): once links, subscriptions and calls stop failing, a
\* started client is online with all its subscriptions for good, or stopped.
ComesOnline ==
    <>[](start = "done" =>
             (status = "online" /\ subscribed = Topic) \/ reset # "no")

\* "Publishes the offline LWT is handled automatically by the broker on
\* disconnect" (mqtt.h:132): after a factory reset the device is not shown
\* online, as Wi-Fi goes down before the client could say goodbye; unless that
\* fails, or the last session was given up by the device itself.
OfflineIsShown ==
    <>[](reset = "over" => status # "online" \/ wifiFailed \/ forced)

=============================================================================
