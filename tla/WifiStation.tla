---------------------------- MODULE WifiStation ----------------------------
(***************************************************************************)
(* The Wi-Fi station of the firmware (src/firmware/components/general/     *)
(* wifi/wifi.c): one event group with the bits CONNECTED and FAIL, a       *)
(* count of the tasks that hold its handle, and a reconnect budget, shared *)
(* by three tasks without a common lock: the task that calls               *)
(* wifi_sta_connect, the default event loop that runs wifi_event_handler,  *)
(* and the factory reset that calls wifi_sta_deinit.  The driver and the   *)
(* access point are the environment: they post events, in order, that the  *)
(* handler sees later.                                                     *)
(***************************************************************************)
EXTENDS Naturals, Sequences, FiniteSets

CONSTANTS Credentials,    \* pairs of SSID and password
          None,           \* no credentials
          Accepted,       \* those the access point in range accepts
          MaxReconnects,  \* WIFI_MAX_RECONNECT_ATTEMPTS, 10 in the code
          MaxLosses       \* bound: how often the access point drops the link

ASSUME WifiAssumption ==
    Accepted \subseteq Credentials /\ MaxReconnects \in Nat /\ MaxLosses \in Nat

VARIABLES
    group,    \* the event group: none, open (published), taken (s_wifi_eg
              \* is NULL again, the object alive) or deleted
    users,    \* s_wifi_eg_users
    bits,     \* the bits of the event group
    retries,  \* s_reconnect_count
    radio,    \* the driver: off, idle, joining or up
    station,  \* the credentials esp_wifi_set_config was given last
    losses,   \* links the access point dropped so far
    events,   \* events posted to the default loop and not handled yet
    handler,  \* the event loop's task: idle, or its place in the handler
    call,     \* the task in wifi_sta_connect: idle, or its place in it
    result,   \* what the last call returned
    deinit    \* wifi_sta_deinit: idle, taken, waiting or done

wifiVars == <<group, users, bits, retries, radio, station, losses, events, handler,
              call, result, deinit>>

Holding == {"entered", "cleared", "waiting"}

WifiTypeOK ==
    /\ group \in {"none", "open", "taken", "deleted"}
    /\ users \in 0..2
    /\ bits \subseteq {"connected", "fail"}
    /\ retries \in 0..MaxReconnects
    /\ radio \in {"off", "idle", "joining", "up"}
    /\ station \in Credentials \union {None}
    /\ losses \in 0..MaxLosses
    /\ events \in Seq({"disconnected", "got_ip"})
    /\ handler \in {"idle", "disconnected", "retry", "give_up", "got_ip",
                    "address"}
    /\ call \in {"idle", "returned"} \union Holding
    /\ result \in {"none", "ok", "fail", "timeout", "error"}
    /\ deinit \in {"idle", "taken", "waiting", "done"}

WifiInit ==
    /\ group = "none" /\ users = 0 /\ bits = {} /\ retries = 0
    /\ radio = "off" /\ station = None /\ losses = 0 /\ events = <<>>
    /\ handler = "idle" /\ call = "idle" /\ result = "none"
    /\ deinit = "idle"

\* After a restart; the bound on losses counts over all of them.
WifiReset ==
    /\ group' = "none" /\ users' = 0 /\ bits' = {} /\ retries' = 0
    /\ radio' = "off" /\ station' = None /\ events' = <<>>
    /\ handler' = "idle" /\ call' = "idle" /\ result' = "none"
    /\ deinit' = "idle"
    /\ UNCHANGED losses

Post(e) == events' = Append(events, e)

(***************************************************************************)
(* esp_wifi_connect, which may refuse, and esp_wifi_disconnect, which      *)
(* posts an event when there was something to end.                         *)
(***************************************************************************)
RadioConnect == radio' = IF radio = "idle" THEN "joining" ELSE radio

RadioDisconnect ==
    IF radio \in {"joining", "up"}
    THEN radio' = "idle" /\ Post("disconnected")
    ELSE UNCHANGED <<radio, events>>

\* wifi_sta_init: everything, or nothing after an error.
StationUp ==
    /\ group = "none"
    /\ group' = "open" /\ bits' = {} /\ radio' = "idle"
    /\ UNCHANGED <<users, retries, station, losses, events, handler, call,
                   result, deinit>>

(***************************************************************************)
(* The handle and the budget, each under s_state_lock.                     *)
(***************************************************************************)
Acquire ==
    users' = users + 1

Release ==
    users' = users - 1

NoUsers ==
    users = 0

\* wifi_reconnect_count_increment finds an attempt left, or returns 0.
AttemptLeft ==
    retries < MaxReconnects

ResetBudget ==
    retries' = 0

ExhaustBudget ==
    retries' = MaxReconnects

\* wifi_sta_is_connected.
IsConnected ==
    group = "open" /\ "connected" \in bits

(***************************************************************************)
(* wifi_sta_connect.                                                       *)
(***************************************************************************)
Return(r) ==
    call' = "returned" /\ result' = r /\ Release

ConnectEnter ==
    /\ call = "idle"
    /\ IF group = "open"
       THEN Acquire /\ call' = "entered" /\ UNCHANGED result
       ELSE call' = "returned" /\ result' = "error" /\ UNCHANGED users
    /\ UNCHANGED <<group, bits, retries, radio, station, losses, events, handler,
                   deinit>>

\* A fresh attempt: s_initialized is checked, the budget and the bits reset.
ConnectClear ==
    /\ call = "entered"
    /\ IF group = "open"
       THEN /\ ResetBudget /\ bits' = {} /\ call' = "cleared"
            /\ UNCHANGED <<users, result>>
       ELSE Return("error") /\ UNCHANGED <<retries, bits>>
    /\ UNCHANGED <<group, radio, station, losses, events, handler, deinit>>

\* esp_wifi_set_config and esp_wifi_connect: either may refuse.
ConnectStart(c) ==
    /\ call = "cleared"
    /\ \/ /\ station' = c /\ RadioConnect /\ call' = "waiting"
          /\ UNCHANGED <<users, result>>
       \/ Return("error") /\ station' \in {station, c} /\ UNCHANGED radio
    /\ UNCHANGED <<group, bits, retries, losses, events, handler, deinit>>

ConnectAnswered ==
    /\ call = "waiting" /\ bits # {}
    /\ Return(IF "connected" \in bits THEN "ok" ELSE "fail")
    /\ UNCHANGED <<group, bits, retries, radio, station, losses, events, handler,
                   deinit>>

\* The wait times out: wifi_abort_pending_connect.
ConnectTimeout ==
    /\ call = "waiting" /\ bits = {}
    /\ ExhaustBudget /\ bits' = {}
    /\ RadioDisconnect
    /\ Return("timeout")
    /\ UNCHANGED <<group, station, losses, handler, deinit>>

(***************************************************************************)
(* wifi_event_handler: it holds the handle from its first step to its last.*)
(***************************************************************************)
\* Faulty variant: a path through the handler keeps the handle.
HandlerKeepsHandle ==
    handler' = "idle" /\ UNCHANGED users

HandlerDone ==
    handler' = "idle" /\ Release

HandlerEnter ==
    /\ handler = "idle" /\ events # <<>>
    /\ deinit \in {"idle", "taken"}   \* still registered
    /\ events' = Tail(events)
    /\ IF group = "open"
       THEN Acquire /\ handler' = Head(events)
       ELSE UNCHANGED <<users, handler>>
    /\ UNCHANGED <<group, bits, retries, radio, station, losses, call, result, deinit>>

\* Faulty variant: the CONNECTED bit stays when the link is lost.
HandlerLostUnmarked ==
    /\ handler = "disconnected"
    /\ IF AttemptLeft
       THEN retries' = retries + 1 /\ handler' = "retry"
       ELSE handler' = "give_up" /\ UNCHANGED retries
    /\ UNCHANGED <<group, users, bits, radio, station, losses, events, call,
                   result, deinit>>

\* Faulty variant: reconnection is not bounded.
HandlerLostUnbounded ==
    /\ handler = "disconnected"
    /\ bits' = bits \ {"connected"}
    /\ retries' = retries + 1 /\ handler' = "retry"
    /\ UNCHANGED <<group, users, radio, station, losses, events, call, result,
                   deinit>>

HandlerLost ==
    /\ handler = "disconnected"
    /\ bits' = bits \ {"connected"}
    /\ IF AttemptLeft
       THEN retries' = retries + 1 /\ handler' = "retry"
       ELSE handler' = "give_up" /\ UNCHANGED retries
    /\ UNCHANGED <<group, users, radio, station, losses, events, call, result, deinit>>

\* The result of esp_wifi_connect is not looked at.
HandlerRetry ==
    /\ handler = "retry"
    /\ RadioConnect \/ UNCHANGED radio
    /\ HandlerDone
    /\ UNCHANGED <<group, bits, retries, station, losses, events, call, result,
                   deinit>>

HandlerGiveUp ==
    /\ handler = "give_up"
    /\ bits' = bits \union {"fail"}
    /\ HandlerDone
    /\ UNCHANGED <<group, retries, radio, station, losses, events, call, result, deinit>>

HandlerGotIp ==
    /\ handler = "got_ip"
    /\ ResetBudget /\ handler' = "address"
    /\ UNCHANGED <<group, users, bits, radio, station, losses, events, call, result,
                   deinit>>

HandlerAddress ==
    /\ handler = "address"
    /\ bits' = (bits \ {"fail"}) \union {"connected"}
    /\ HandlerDone
    /\ UNCHANGED <<group, retries, radio, station, losses, events, call, result, deinit>>

Handler == HandlerEnter \/ HandlerLost \/ HandlerRetry \/ HandlerGiveUp
           \/ HandlerGotIp \/ HandlerAddress

(***************************************************************************)
(* wifi_sta_deinit, called by the factory reset.                           *)
(***************************************************************************)
DeinitTake ==
    /\ deinit = "idle" /\ group = "open"
    /\ group' = "taken" /\ retries' = 0 /\ deinit' = "taken"
    /\ UNCHANGED <<users, bits, radio, station, losses, events, handler, call, result>>

\* Not initialised yet: nothing to do.
DeinitNothing ==
    /\ deinit = "idle" /\ group # "open"
    /\ deinit' = "done"
    /\ UNCHANGED <<group, users, bits, retries, radio, station, losses, events, handler,
                   call, result>>

\* The waiters are woken and the handlers unregistered.
DeinitWake ==
    /\ deinit = "taken"
    /\ bits' = bits \union {"fail"} /\ deinit' = "waiting"
    /\ UNCHANGED <<group, users, retries, radio, station, losses, events, handler, call,
                   result>>

\* Faulty variant: the event group is deleted under its users.
DeinitDeleteAtOnce ==
    /\ deinit = "waiting"
    /\ group' = "deleted" /\ bits' = {} /\ radio' = "off" /\ events' = <<>>
    /\ deinit' = "done"
    /\ UNCHANGED <<users, retries, station, losses, handler, call, result>>

\* wifi_event_group_wait_for_users has seen zero users.
DeinitDelete ==
    /\ deinit = "waiting" /\ NoUsers
    /\ group' = "deleted" /\ bits' = {} /\ radio' = "off" /\ events' = <<>>
    /\ deinit' = "done"
    /\ UNCHANGED <<users, retries, station, losses, handler, call, result>>

Deinit == DeinitTake \/ DeinitNothing \/ DeinitWake \/ DeinitDelete

(***************************************************************************)
(* The access point.                                                       *)
(***************************************************************************)
Joined ==
    /\ radio = "joining" /\ station \in Accepted
    /\ radio' = "up" /\ Post("got_ip")
    /\ UNCHANGED <<group, users, bits, retries, station, losses, handler, call, result,
                   deinit>>

Refused ==
    /\ radio = "joining"
    /\ radio' = "idle" /\ Post("disconnected")
    /\ UNCHANGED <<group, users, bits, retries, station, losses, handler, call, result,
                   deinit>>

LinkLost ==
    /\ radio = "up" /\ losses < MaxLosses
    /\ radio' = "idle" /\ losses' = losses + 1 /\ Post("disconnected")
    /\ UNCHANGED <<group, users, bits, retries, station, handler, call, result,
                   deinit>>

(***************************************************************************)
(* Properties.                                                             *)
(***************************************************************************)

\* No task holds the event group once wifi_sta_deinit has deleted it
\* (wifi_event_group_acquire, _release and _wait_for_users).
NoHandleToDeletedGroup ==
    group = "deleted" => handler = "idle" /\ call \notin Holding

\* When every posted event has been handled, the CONNECTED bit that
\* wifi_sta_is_connected reads is only set while the link is up: neither a
\* late GOT_IP nor an aborted attempt leaves it behind.
ConnectedMeansUp ==
    group = "open" /\ events = <<>> /\ handler = "idle" /\ "connected" \in bits
        => radio = "up"
=============================================================================
