---------------------------- MODULE CommandQueue ----------------------------
(***************************************************************************)
(* The server's command queue for one device: sendCommand, flushPending    *)
(* and revertSentCommand (services/commands.js), the response and status   *)
(* handlers (services/mqtt-handlers.js), the timeout sweep                 *)
(* (jobs/command-timeout.js) and the MQTT bridge's publish and manual      *)
(* acknowledgement (plugins/mqtt.js).                                      *)
(*                                                                         *)
(* Every statement or transaction that PostgreSQL commits on its own is    *)
(* one action, so that the steps of concurrent requests, flushes, inbound  *)
(* messages and sweeps interleave between any two awaits of the code.      *)
(*                                                                         *)
(* Commands are numbered in the order of created_at.                       *)
(***************************************************************************)
EXTENDS Integers, Sequences

CONSTANTS
    MaxCommands,    \* bound: commands the app issues to this device
    Worker,         \* flushPending calls that requests may have in progress
    Bridge,         \* the flushPending call of the (serial) status handler
    SessionsMayDie, \* whether PostgreSQL sessions may be lost
    MaxFaults,      \* bound: failures of the environment, of all kinds together
    MaxInbound      \* bound: messages from the device waiting at the bridge

ASSUME QueueAssumption ==
    /\ MaxCommands \in Nat
    /\ MaxFaults \in Nat
    /\ MaxInbound \in Nat
    /\ Bridge \notin Worker
    /\ SessionsMayDie \in BOOLEAN

Command == 1 .. MaxCommands
NoCommand == 0

Flusher == Worker \cup {Bridge}
NoFlusher == "unlocked"
ASSUME NoFlusherAssumption == NoFlusher \notin Flusher

Terminal == {"done", "error", "timeout"}
Status == {"absent", "pending", "sent"} \cup Terminal

\* What a device sends that concerns the queue: responses and its online status.
Message ==
    [kind : {"done", "error"}, cmd : Command]
        \cup [kind : {"online"}, cmd : {NoCommand}]

\* A QoS 1 publish, and the flush that awaits its PUBACK (if still one does).
Publication == [cmd : Command, by : Flusher \cup {NoFlusher}]

VARIABLES
    status,     \* commands.status of each command ("absent" before INSERT)
    aged,       \* the deadlines each row has passed, of created_at and sent_at
    ended,      \* final statuses announced by command.updated events
    request,    \* progress of the sendCommand call of each command
    flusher,    \* progress of each flushPending call
    lock,       \* holder of the device's advisory lock
    handler,    \* progress of the bridge's handleMessage
    ready,      \* mqttIsReady(): connected and subscribed
    outbox,     \* QoS 1 publishes the bridge's client has not had acknowledged
    published,  \* observer: commands the broker has received
    inbound,    \* QoS 1 messages the broker holds for the bridge
    faults      \* failures so far

vars == <<status, aged, ended, request, flusher, lock, handler,
          ready, outbox, published, inbound, faults>>

rowVars    == <<status, aged>>
bridgeVars == <<ready, outbox, published>>

FlusherPc == {"idle", "lock", "select", "publish", "await", "acked",
              "revert", "requeued", "unlock"}

Progress == [pc : FlusherPc, cmd : Command \cup {NoCommand}]

TypeOK ==
    /\ status \in [Command -> Status]
    /\ aged \in [Command -> SUBSET {"created", "sent"}]
    /\ ended \in [Command -> SUBSET Terminal]
    /\ request \in [Command -> {"none", "announce", "flush", "returned"}]
    /\ flusher \in [Flusher -> Progress]
    /\ lock \in Flusher \cup {NoFlusher}
    /\ handler \in {"idle", "settle", "announce", "flush"}
    /\ ready \in BOOLEAN
    /\ outbox \in Seq(Publication)
    /\ published \subseteq Command
    /\ inbound \in Seq(Message)
    /\ faults \in 0 .. MaxFaults

Idle == [pc |-> "idle", cmd |-> NoCommand]

Init ==
    /\ status = [c \in Command |-> "absent"]
    /\ aged = [c \in Command |-> {}]
    /\ ended = [c \in Command |-> {}]
    /\ request = [c \in Command |-> "none"]
    /\ flusher = [f \in Flusher |-> Idle]
    /\ lock = NoFlusher
    /\ handler = "idle"
    /\ ready = TRUE
    /\ outbox = <<>>
    /\ published = {}
    /\ inbound = <<>>
    /\ faults = 0

Fault == faults < MaxFaults /\ faults' = faults + 1

SetStatus(c, s) == status' = [status EXCEPT ![c] = s]

\* createRealtimeEvent of a final status.  Its key command.updated:<id>:<status>
\* makes the event unique, so the events of a command are a set; events of the
\* statuses pending and sent have no key and no reader here.
Announce(c, s) == ended' = [ended EXCEPT ![c] = @ \cup {s}]

Goto(f, pc) == flusher' = [flusher EXCEPT ![f].pc = pc]
Return(f)   == flusher' = [flusher EXCEPT ![f] = Idle]

-----------------------------------------------------------------------------
(* sendCommand: INSERT, then the 'pending' event, then a flush that the    *)
(* request does not wait for.                                              *)

Enqueue(c) ==
    /\ status[c] = "absent"
    /\ \A d \in Command : d < c => status[d] # "absent"
    /\ SetStatus(c, "pending")
    /\ request' = [request EXCEPT ![c] = "announce"]
    /\ UNCHANGED <<aged, ended, flusher, lock, handler, bridgeVars, inbound,
                   faults>>

AnnounceEnqueued(c) ==
    /\ request[c] = "announce"
    /\ request' = [request EXCEPT ![c] = IF ready THEN "flush" ELSE "returned"]
    /\ UNCHANGED <<rowVars, ended, flusher, lock, handler, bridgeVars,
                   inbound, faults>>

StartFlush(c, f) ==
    /\ request[c] = "flush"
    /\ flusher[f].pc = "idle"
    /\ Goto(f, "lock")
    /\ request' = [request EXCEPT ![c] = "returned"]
    /\ UNCHANGED <<rowVars, ended, lock, handler, bridgeVars, inbound,
                   faults>>

\* The event insert, or the pool's connect, throws: the row stays as it is.
RequestFails(c) ==
    /\ Fault
    /\ request[c] \in {"announce", "flush"}
    /\ request' = [request EXCEPT ![c] = "returned"]
    /\ UNCHANGED <<rowVars, ended, flusher, lock, handler, bridgeVars,
                   inbound>>

-----------------------------------------------------------------------------
(* flushPending: at most one loop per device, unless its session is lost.  *)

\* Faulty variant of Lock: the flush goes on without the lock.
LockIgnored(f) ==
    /\ flusher[f].pc = "lock"
    /\ lock' = f
    /\ Goto(f, "select")
    /\ UNCHANGED <<rowVars, ended, request, handler, bridgeVars, inbound,
                   faults>>

Lock(f) ==
    /\ flusher[f].pc = "lock"
    /\ IF lock = NoFlusher
         THEN lock' = f /\ Goto(f, "select")
         ELSE Return(f) /\ UNCHANGED lock
    /\ UNCHANGED <<rowVars, ended, request, handler, bridgeVars, inbound,
                   faults>>

Selecting(f) == flusher[f].pc = "select" /\ lock = f

Oldest(c) ==
    /\ status[c] = "pending"
    /\ \A d \in Command : status[d] = "pending" => c <= d

FlushEmpty(f) ==
    /\ Selecting(f)
    /\ \A c \in Command : status[c] # "pending"
    /\ Goto(f, "unlock")
    /\ UNCHANGED <<rowVars, ended, request, lock, handler, bridgeVars,
                   inbound, faults>>

\* Faulty variants of FlushExpired: a status outside the column's CHECK, and no
\* event for the row.
FlushExpiredMisnamed(f, c) ==
    /\ Selecting(f) /\ Oldest(c) /\ "created" \in aged[c]
    /\ SetStatus(c, "expired")
    /\ Announce(c, "timeout")
    /\ UNCHANGED <<aged, request, flusher, lock, handler, bridgeVars, inbound,
                   faults>>

FlushExpiredSilently(f, c) ==
    /\ Selecting(f) /\ Oldest(c) /\ "created" \in aged[c]
    /\ SetStatus(c, "timeout")
    /\ UNCHANGED <<aged, ended, request, flusher, lock, handler, bridgeVars,
                   inbound, faults>>

FlushExpired(f, c) ==
    /\ Selecting(f)
    /\ Oldest(c)
    /\ "created" \in aged[c]
    /\ SetStatus(c, "timeout")
    /\ Announce(c, "timeout")
    /\ UNCHANGED <<aged, request, flusher, lock, handler, bridgeVars, inbound,
                   faults>>

\* UPDATE ... SET sent, the 'sent' event and COMMIT: sent_at starts anew.
Dispatch(f, c) ==
    /\ Selecting(f)
    /\ Oldest(c)
    /\ "created" \notin aged[c]
    /\ SetStatus(c, "sent")
    /\ aged' = [aged EXCEPT ![c] = @ \ {"sent"}]
    /\ flusher' = [flusher EXCEPT ![f] = [pc |-> "publish", cmd |-> c]]
    /\ UNCHANGED <<ended, request, lock, handler, bridgeVars, inbound,
                   faults>>

\* Faulty variant of FlushRollsBack: the loop is left without its finally block.
FlushRollsBackHolding(f) ==
    /\ Fault
    /\ Selecting(f)
    /\ Return(f)
    /\ UNCHANGED <<rowVars, ended, request, lock, handler, bridgeVars,
                   inbound>>

\* The transaction fails and is rolled back.
FlushRollsBack(f) ==
    /\ Fault
    /\ Selecting(f)
    /\ Goto(f, "unlock")
    /\ UNCHANGED <<rowVars, ended, request, lock, handler, bridgeVars,
                   inbound>>

\* PostgreSQL frees the lock of a session that dies; the flush notices at its
\* next statement on that connection, and then only returns.
SessionLost(f) ==
    /\ SessionsMayDie
    /\ Fault
    /\ lock = f
    /\ lock' = NoFlusher
    /\ UNCHANGED <<rowVars, ended, request, flusher, handler, bridgeVars,
                   inbound>>

FlushOnLostSession(f) ==
    /\ flusher[f].pc \in {"select", "unlock"}
    /\ lock # f
    /\ Return(f)
    /\ UNCHANGED <<rowVars, ended, request, lock, handler, bridgeVars,
                   inbound, faults>>

Publish(f) ==
    /\ flusher[f].pc = "publish"
    /\ ready
    /\ outbox' = Append(outbox, [cmd |-> flusher[f].cmd, by |-> f])
    /\ Goto(f, "await")
    /\ UNCHANGED <<rowVars, ended, request, lock, handler, ready, published,
                   inbound, faults>>

PublishRejected(f) ==
    /\ flusher[f].pc = "publish"
    /\ ~ready
    /\ Goto(f, "revert")
    /\ UNCHANGED <<rowVars, ended, request, lock, handler, bridgeVars,
                   inbound, faults>>

PublishDone(f) ==
    /\ flusher[f].pc = "acked"
    /\ Goto(f, "select")
    /\ UNCHANGED <<rowVars, ended, request, lock, handler, bridgeVars,
                   inbound, faults>>

\* The timer rejects the promise; the client keeps the publish, and may already
\* have delivered it.  The bridge reads one packet at a time: the PUBACK of a
\* publish that the status handler itself awaits may be read only after that.
PublishTimesOut(f) ==
    /\ \/ flusher[f].pc \in {"await", "acked"} /\ Fault
       \/ flusher[f].pc = "acked" /\ f = Bridge /\ UNCHANGED faults
    /\ Goto(f, "revert")
    /\ outbox' = [i \in DOMAIN outbox |->
                    IF outbox[i].by = f THEN [outbox[i] EXCEPT !.by = NoFlusher]
                                        ELSE outbox[i]]
    /\ UNCHANGED <<rowVars, ended, request, lock, handler, ready, published,
                   inbound>>

Revert(f) ==
    /\ flusher[f].pc = "revert"
    /\ LET c == flusher[f].cmd IN
         IF status[c] = "sent"
           THEN /\ SetStatus(c, "pending")
                /\ aged' = [aged EXCEPT ![c] = @ \ {"sent"}]
                /\ Goto(f, "requeued")
           ELSE /\ UNCHANGED rowVars
                /\ Goto(f, "unlock")
    /\ UNCHANGED <<ended, request, lock, handler, bridgeVars, inbound,
                   faults>>

AnnounceRequeued(f) ==
    /\ flusher[f].pc = "requeued"
    /\ Goto(f, "unlock")
    /\ UNCHANGED <<rowVars, ended, request, lock, handler, bridgeVars,
                   inbound, faults>>

\* Either statement of revertSentCommand throws: logged, nothing is retried.
RevertFails(f) ==
    /\ Fault
    /\ flusher[f].pc \in {"revert", "requeued"}
    /\ Goto(f, "unlock")
    /\ UNCHANGED <<rowVars, ended, request, lock, handler, bridgeVars,
                   inbound>>

Unlock(f) ==
    /\ flusher[f].pc = "unlock"
    /\ lock = f
    /\ lock' = NoFlusher
    /\ Return(f)
    /\ UNCHANGED <<rowVars, ended, request, handler, bridgeVars, inbound,
                   faults>>

-----------------------------------------------------------------------------
(* The MQTT bridge.  The client sends its QoS 1 publishes in order and     *)
(* keeps each until the broker acknowledges it.                            *)

Sent == Head(outbox)

Transmit ==
    /\ outbox # <<>>
    /\ published' = published \cup {Sent.cmd}
    /\ outbox' = Tail(outbox)
    /\ flusher' = [f \in Flusher |-> IF f = Sent.by THEN [flusher[f] EXCEPT !.pc = "acked"]
                                                    ELSE flusher[f]]
    /\ UNCHANGED <<rowVars, ended, request, lock, handler, ready, inbound,
                   faults>>

\* The broker has the message but the connection drops before its PUBACK.
TransmitUnacknowledged ==
    /\ Fault
    /\ outbox # <<>>
    /\ published' = published \cup {Sent.cmd}
    /\ ready' = FALSE
    /\ UNCHANGED <<rowVars, ended, request, flusher, lock, handler, outbox,
                   inbound>>

BridgeDown ==
    /\ Fault
    /\ ready
    /\ ready' = FALSE
    /\ UNCHANGED <<rowVars, ended, request, flusher, lock, handler, outbox,
                   published, inbound>>

\* Reconnected and subscribed; nothing flushes the queue here.
BridgeReady ==
    /\ ~ready
    /\ ready' = TRUE
    /\ UNCHANGED <<rowVars, ended, request, flusher, lock, handler, outbox,
                   published, inbound, faults>>

\* The API process restarts: its calls, locks and in-memory publishes are gone.
ServerCrash ==
    /\ Fault
    /\ request' = [c \in Command |-> IF request[c] = "none" THEN "none" ELSE "returned"]
    /\ flusher' = [f \in Flusher |-> Idle]
    /\ lock' = NoFlusher
    /\ handler' = "idle"
    /\ ready' = FALSE
    /\ outbox' = <<>>
    /\ UNCHANGED <<rowVars, ended, published, inbound>>

-----------------------------------------------------------------------------
(* handleMessage: one inbound message at a time, acknowledged when its     *)
(* handler returns and redelivered when it throws.                         *)

Current == Head(inbound)
Acknowledge == inbound' = Tail(inbound) /\ handler' = "idle"

\* handleResponse, first UPDATE: a response may overtake its own dispatch.
PromoteResponse ==
    /\ handler = "idle"
    /\ inbound # <<>> /\ Current.kind \in {"done", "error"}
    /\ status' = [status EXCEPT ![Current.cmd] = IF @ = "pending" THEN "sent" ELSE @]
    /\ handler' = "settle"
    /\ UNCHANGED <<aged, ended, request, flusher, lock, bridgeVars, inbound,
                   faults>>

\* Faulty variant of SettleResponse: the UPDATE does not ask for status = 'sent'.
SettleAnyStatus ==
    /\ handler = "settle"
    /\ SetStatus(Current.cmd, Current.kind)
    /\ handler' = "announce"
    /\ UNCHANGED <<aged, ended, request, flusher, lock, bridgeVars, inbound,
                   faults>>

\* Second UPDATE: only a sent row takes the verdict.
SettleResponse ==
    /\ handler = "settle"
    /\ status[Current.cmd] = "sent"
    /\ SetStatus(Current.cmd, Current.kind)
    /\ handler' = "announce"
    /\ UNCHANGED <<aged, ended, request, flusher, lock, bridgeVars, inbound,
                   faults>>

\* No row was updated: duplicate, late or requeued, logged and acknowledged.
IgnoreResponse ==
    /\ handler = "settle"
    /\ status[Current.cmd] # "sent"
    /\ Acknowledge
    /\ UNCHANGED <<rowVars, ended, request, flusher, lock, bridgeVars,
                   faults>>

AnnounceVerdict ==
    /\ handler = "announce"
    /\ Announce(Current.cmd, Current.kind)
    /\ Acknowledge
    /\ UNCHANGED <<rowVars, request, flusher, lock, bridgeVars, faults>>

\* handleStatus awaits the flush it starts.
StatusOnline ==
    /\ handler = "idle"
    /\ inbound # <<>> /\ Current.kind = "online"
    /\ Goto(Bridge, "lock")
    /\ handler' = "flush"
    /\ UNCHANGED <<rowVars, ended, request, lock, bridgeVars, inbound,
                   faults>>

StatusFlushed ==
    /\ handler = "flush"
    /\ flusher[Bridge].pc = "idle"
    /\ Acknowledge
    /\ UNCHANGED <<rowVars, ended, request, flusher, lock, bridgeVars,
                   faults>>

\* A statement throws: the message is left unacknowledged and comes again.
ResponseFails ==
    /\ Fault
    /\ handler \in {"settle", "announce"}
    /\ handler' = "idle"
    /\ UNCHANGED <<rowVars, ended, request, flusher, lock, bridgeVars,
                   inbound>>

-----------------------------------------------------------------------------
(* The command timeout job: one transaction over all expired rows.         *)

\* Faulty variant of Expired: the sweep forgets rows that were never sent.
ExpiredIfSent(c) == status[c] = "sent" /\ "sent" \in aged[c]

Expired(c) ==
    \/ status[c] = "sent" /\ "sent" \in aged[c]
    \/ status[c] = "pending" /\ "created" \in aged[c]

Sweep ==
    LET S == {c \in Command : Expired(c)} IN
    /\ S # {}
    /\ status' = [c \in Command |-> IF c \in S THEN "timeout" ELSE status[c]]
    /\ ended' = [c \in Command |-> IF c \in S THEN ended[c] \cup {"timeout"} ELSE ended[c]]
    /\ UNCHANGED <<aged, request, flusher, lock, handler, bridgeVars, inbound,
                   faults>>

\* Time: COMMAND_PENDING_TIMEOUT_SECONDS since created_at, and
\* COMMAND_SENT_TIMEOUT_SECONDS since sent_at.
CreatedAges(c) ==
    /\ status[c] \in {"pending", "sent"}
    /\ "created" \notin aged[c]
    /\ \A d \in Command : d < c => status[d] \in Terminal \/ "created" \in aged[d]
    /\ aged' = [aged EXCEPT ![c] = @ \cup {"created"}]
    /\ UNCHANGED <<status, ended, request, flusher, lock, handler, bridgeVars,
                   inbound, faults>>

SentAges(c) ==
    /\ status[c] = "sent"
    /\ "sent" \notin aged[c]
    /\ aged' = [aged EXCEPT ![c] = @ \cup {"sent"}]
    /\ UNCHANGED <<status, ended, request, flusher, lock, handler, bridgeVars,
                   inbound, faults>>

-----------------------------------------------------------------------------
(* The device, as the queue sees it: it answers, once or many times, any   *)
(* command the broker has received, and comes and goes.                    *)

DeviceMessage(m) ==
    /\ Len(inbound) < MaxInbound
    /\ m.kind \in {"done", "error"} => m.cmd \in published
    /\ inbound' = Append(inbound, m)
    /\ UNCHANGED <<rowVars, ended, request, flusher, lock, handler,
                   bridgeVars, faults>>

RequestStep(c) ==
    AnnounceEnqueued(c) \/ \E f \in Worker : StartFlush(c, f)

FlusherStep(f) ==
    \/ Lock(f) \/ FlushEmpty(f) \/ FlushOnLostSession(f)
    \/ \E c \in Command : FlushExpired(f, c) \/ Dispatch(f, c)
    \/ Publish(f) \/ PublishRejected(f) \/ PublishDone(f)
    \/ Revert(f) \/ AnnounceRequeued(f) \/ Unlock(f)

FlusherFails(f) ==
    FlushRollsBack(f) \/ SessionLost(f) \/ PublishTimesOut(f) \/ RevertFails(f)

HandlerStep ==
    \/ PromoteResponse \/ SettleResponse \/ IgnoreResponse \/ AnnounceVerdict
    \/ StatusOnline \/ StatusFlushed

Ages(c) == CreatedAges(c) \/ SentAges(c)

\* The steps of the API process; transmission and the device are its surroundings.
ServerNext ==
    \/ \E c \in Command : Enqueue(c) \/ RequestStep(c) \/ RequestFails(c)
    \/ \E f \in Flusher : FlusherStep(f) \/ FlusherFails(f)
    \/ BridgeDown \/ BridgeReady \/ ServerCrash
    \/ HandlerStep \/ ResponseFails
    \/ Sweep

PromptNext ==
    \/ ServerNext
    \/ Transmit \/ TransmitUnacknowledged
    \/ \E m \in Message : DeviceMessage(m)

Next == PromptNext \/ \E c \in Command : Ages(c)

Spec == Init /\ [][Next]_vars

(***************************************************************************)
(* Fairness: Node runs every continuation it has scheduled, the interval   *)
(* job keeps firing, a connected client transmits and reconnects, and time *)
(* passes.  Users, the device and failures owe nothing.                    *)
(***************************************************************************)
ServerFairness ==
    /\ \A c \in Command : WF_vars(RequestStep(c))
    /\ \A f \in Flusher : WF_vars(FlusherStep(f))
    /\ WF_vars(HandlerStep)
    /\ WF_vars(Sweep)
    /\ WF_vars(Transmit) /\ WF_vars(BridgeReady)

TimePasses == \A c \in Command : WF_vars(CreatedAges(c)) /\ WF_vars(SentAges(c))

FairSpec == Spec /\ ServerFairness /\ TimePasses

\* The first minutes of every command: no deadline passes.
PromptSpec == Init /\ [][PromptNext]_vars /\ ServerFairness

-----------------------------------------------------------------------------
(* Safety.                                                                 *)

\* A final status announced by an event is the status of the row: whichever of
\* response, sweep and flush ends a command, the others announce nothing else.
VerdictMatchesRow == \A c \in Command : ended[c] \subseteq {status[c]}

\* done, error and timeout are final: no late answer, revert after a failed
\* publish, or sweep moves a finished command.
FinalIsFinal ==
    [][\A c \in Command : status[c] \in Terminal => status'[c] = status[c]]_status

\* Commands reach the broker in the order the app issued them: while the lock's
\* session lives, none overtakes an older command that is still to be sent.
FifoOnWire ==
    \A c \in published, d \in Command :
        d < c /\ status[d] = "pending" => d \in published

\* The queue implements the promise of CommandLifecycle.
Lifecycle == INSTANCE CommandLifecycle WITH state <- status, verdicts <- ended
ImplementsLifecycle == Lifecycle!Spec

(* Liveness.                                                               *)

\* No command stays open: one that no flush, answer or publish ends, times out.
EveryCommandEnds == \A c \in Command : status[c] = "pending" ~> status[c] \in Terminal

\* flushPending always gives the advisory lock back, so that one failed publish
\* does not stop a device's queue.
LockIsReleased == \A f \in Flusher : lock = f ~> lock # f

(* What the documents say and the code does not do.                        *)

\* "If the MQTT bridge is ready, flushPending() will take the lock, mark the
\* command sent, then publish it": a command whose request asked for a flush
\* reaches the broker.
EnqueuedIsPublished == \A c \in Command : request[c] = "flush" ~> c \in published

=============================================================================
