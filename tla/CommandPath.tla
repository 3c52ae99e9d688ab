---------------------------- MODULE CommandPath ----------------------------
(***************************************************************************)
(* The whole path of a command: the server's CommandQueue and the          *)
(* firmware's CommandDevice, joined by the broker.                         *)
(*                                                                         *)
(* The bridge's session and the device's differ.  The device connects with *)
(* a clean session (mqtt_task leaves disable_clean_session unset), so what *)
(* the broker receives for a device that is not connected is delivered to  *)
(* nobody.  Responses wait in the device's own outbox and then at the      *)
(* broker for the bridge, which acknowledges them by hand.                 *)
(***************************************************************************)
EXTENDS CommandQueue

CONSTANTS
    Calibration, CacheSize, QueueLen,   \* as in CommandDevice
    MaxDeviceFaults,                    \* bound: CommandDevice's MaxFaults
    MaxWire                             \* bound: commands on the way to the device

ASSUME PathAssumption ==
    /\ Calibration \subseteq Command
    /\ QueueLen \in Nat \ {0}
    /\ CacheSize \in Nat /\ CacheSize > QueueLen + 1
    /\ MaxDeviceFaults \in Nat

VARIABLES
    connected, rx, tracked, since, queue, worker, reset, runs, told, deviceFaults,
    wire,       \* commands the broker is sending over the device's session
    replies,    \* responses in the outbox of the device's MQTT client
    effects     \* observer: commands that were ever executed

Device == INSTANCE CommandDevice WITH faults <- deviceFaults, MaxFaults <- MaxDeviceFaults

deviceVars == <<connected, rx, tracked, since, queue, worker, reset, runs, told,
                deviceFaults>>
pathVars   == <<vars, deviceVars, wire, replies, effects>>

PathInit ==
    /\ Init
    /\ Device!Init
    /\ wire = <<>>
    /\ replies = {}
    /\ effects = {}

-----------------------------------------------------------------------------
(* Steps of one side alone.                                                *)

ServerStep == ServerNext /\ UNCHANGED <<deviceVars, wire, replies, effects>>

TimePassesStep ==
    /\ \E c \in Command : Ages(c)
    /\ UNCHANGED <<deviceVars, wire, replies, effects>>

\* The handler and the calibration task; what they execute, they change.
DeviceStep ==
    /\ Device!Claim \/ Device!Execute \/ Device!Refuse \/ Device!Defer
         \/ Device!QueueFull \/ Device!AckRx
         \/ Device!Take \/ Device!Calibrate \/ Device!AckWorker
    /\ effects' = effects \cup {c \in Command : runs'[c] > runs[c]}
    /\ UNCHANGED <<vars, wire, replies>>

Reply(task) == replies' = replies \cup {[kind |-> task.status, cmd |-> task.cmd]}

DeviceReplies ==
    /\ \/ Device!ReplyRx /\ Reply(rx)
       \/ Device!ReplyWorker /\ Reply(worker)
    /\ UNCHANGED <<vars, wire, effects>>

\* Connected and subscribed, the device announces itself, and the server flushes.
DeviceConnects ==
    /\ Device!Connect
    /\ replies' = replies \cup {[kind |-> "online", cmd |-> NoCommand]}
    /\ UNCHANGED <<vars, wire, effects>>

DeviceDisconnects ==
    /\ Device!Disconnect
    /\ wire' = <<>>
    /\ UNCHANGED <<vars, replies, effects>>

DeviceRestarts ==
    /\ Device!PowerLoss
    /\ wire' = <<>>
    /\ replies' = {}
    /\ UNCHANGED <<vars, effects>>

-----------------------------------------------------------------------------
(* Steps of both sides.                                                    *)

\* The broker hands a command on at once, or drops it.
Forward(c) ==
    IF connected THEN Len(wire) < MaxWire /\ wire' = Append(wire, c)
                 ELSE UNCHANGED wire

BrokerForwards ==
    /\ Transmit \/ TransmitUnacknowledged
    /\ Forward(Sent.cmd)
    /\ UNCHANGED <<deviceVars, replies, effects>>

DeviceReceives ==
    /\ wire # <<>>
    /\ Device!Receive(Head(wire))
    /\ wire' = Tail(wire)
    /\ UNCHANGED <<vars, replies, effects>>

DeviceSends(m) ==
    /\ connected
    /\ m \in replies
    /\ DeviceMessage(m)
    /\ replies' = replies \ {m}
    /\ UNCHANGED <<deviceVars, wire, effects>>

DeviceProgress ==
    DeviceStep \/ DeviceReplies \/ DeviceReceives \/ \E m \in Message : DeviceSends(m)

PromptPathNext ==
    \/ ServerStep \/ BrokerForwards
    \/ DeviceProgress
    \/ DeviceConnects \/ DeviceDisconnects \/ DeviceRestarts

PathNext == PromptPathNext \/ TimePassesStep

PathSpec == PathInit /\ [][PathNext]_pathVars

(***************************************************************************)
(* Fairness: both programs run, the broker forwards, and a device out of   *)
(* reach comes back.  No deadline passes: these are a command's first      *)
(* minutes.                                                                *)
(***************************************************************************)
Quietly(A) == A /\ UNCHANGED <<deviceVars, wire, replies, effects>>

PathFairness ==
    /\ \A c \in Command : WF_pathVars(Quietly(RequestStep(c)))
    /\ \A f \in Flusher : WF_pathVars(Quietly(FlusherStep(f)))
    /\ WF_pathVars(Quietly(HandlerStep)) /\ WF_pathVars(Quietly(BridgeReady))
    /\ WF_pathVars(BrokerForwards)
    /\ WF_pathVars(DeviceStep) /\ WF_pathVars(DeviceReplies) /\ WF_pathVars(DeviceReceives)
    /\ SF_pathVars(\E m \in Message : DeviceSends(m))
    /\ WF_pathVars(DeviceConnects)

PromptPathSpec == PathInit /\ [][PromptPathNext]_pathVars /\ PathFairness

-----------------------------------------------------------------------------
(* Properties.                                                             *)

\* A command the server calls done was executed by the device, at least once,
\* whatever was repeated, lost or restarted on the way.
DoneMeansExecuted ==
    \A c \in Command : status[c] = "done" \/ "done" \in ended[c] => c \in effects

\* While the device keeps its memory, the server's repeated publishes of a
\* command do not execute it again.
RepeatsRunOnce == \A c \in Command : runs[c] <= 1

\* A command on its way to a device that stays connected is answered, and so is
\* one the device has taken, as long as it does not restart: no interleaving of
\* request, flush, task, response and reconnection loses it.
DeliveredIsAnswered ==
    LET answered(c) == status[c] \in {"done", "error"} IN
    \A c \in Command :
        /\ (\E i \in DOMAIN wire : wire[i] = c) ~> answered(c) \/ deviceFaults > 0
        /\ tracked[c] # "empty" ~> answered(c) \/ tracked[c] = "empty"

(* What the documents say and the code does not do.                        *)

\* "device offline: INSERT pending; when the device comes online, flushPending()
\* takes the pending commands and sends each one."
OfflineIsDelivered ==
    \A c \in Command : status[c] = "pending" /\ ~connected ~> tracked[c] # "empty"

=============================================================================
