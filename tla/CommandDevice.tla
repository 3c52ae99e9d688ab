---------------------------- MODULE CommandDevice ----------------------------
(***************************************************************************)
(* The firmware's side of the command protocol: the MQTT event handler     *)
(* with its cache of tracked commands (sa_mqtt/mqtt.c), the calibration    *)
(* queue and task (sysload/sysload.c), and what a factory reset does to    *)
(* them (factory_reset/factory_reset.c).                                   *)
(*                                                                         *)
(* The event handler and the calibration task run concurrently; between    *)
(* them they share the cache, whose every access is one critical section   *)
(* and here one action.  Everything but the relays' and the calibration's  *)
(* own storage is in RAM, so a restart forgets all of it.                  *)
(***************************************************************************)
EXTENDS Integers, Sequences, FiniteSets

CONSTANTS
    Command,        \* commands the server may send
    Calibration,    \* those that run in the calibration task
    CacheSize,      \* MQTT_TRACKED_COMMANDS_MAX
    QueueLen,       \* CALIBRATION_TASK_QUEUE_LEN
    MaxFaults       \* bound: disconnections, power losses and failed resets

ASSUME DeviceAssumption ==
    /\ IsFiniteSet(Command)
    /\ Calibration \subseteq Command
    /\ QueueLen \in Nat \ {0}
    /\ CacheSize \in Nat /\ CacheSize > QueueLen + 1
    /\ MaxFaults \in Nat

VARIABLES
    connected,  \* the MQTT session is up and subscribed
    rx,         \* progress of the event handler with a command message
    tracked,    \* s_tracked_commands: the state of each entry
    since,      \* generations: the commands written to the cache after each one
    queue,      \* s_calibration_queue
    worker,     \* progress of calibration_task
    reset,      \* progress of factory_reset_run
    runs,       \* observer: executions of each command since boot (2: or more)
    told,       \* responses handed to the client's outbox since boot
    faults

vars == <<connected, rx, tracked, since, queue, worker, reset, runs, told, faults>>

cacheVars    == <<tracked, since>>
observerVars == <<runs, told>>

EntryState == {"empty", "pending", "done", "error"}
Verdict == {"done", "error"}

\* A task that works for a command: where it is, and the answer it will give.
Task(pc) == [pc : {"idle"}] \cup [pc : pc, cmd : Command, status : Verdict]
Idle == [pc |-> "idle"]

TypeOK ==
    /\ connected \in BOOLEAN
    /\ rx \in Task({"claim", "dispatch", "ack", "reply"})
    /\ tracked \in [Command -> EntryState]
    /\ since \in [Command -> SUBSET Command]
    /\ queue \in Seq(Calibration)
    /\ Len(queue) <= QueueLen
    /\ worker \in Task({"run", "ack", "reply"})
    /\ reset \in {"none", "begun", "detached", "cleared", "stopped", "failed"}
    /\ runs \in [Command -> 0 .. 2]
    /\ told \in [Command -> SUBSET Verdict]
    /\ faults \in 0 .. MaxFaults

Init ==
    /\ connected = FALSE
    /\ rx = Idle
    /\ tracked = [c \in Command |-> "empty"]
    /\ since = [c \in Command |-> {}]
    /\ queue = <<>>
    /\ worker = Idle
    /\ reset = "none"
    /\ runs = [c \in Command |-> 0]
    /\ told = [c \in Command |-> {}]
    /\ faults = 0

Fault == faults < MaxFaults /\ faults' = faults + 1

ClientUp  == reset \in {"none", "begun"}            \* s_client # NULL
Listening == reset \notin {"stopped", "failed"}     \* its task still runs
Resetting == reset \notin {"none", "failed"}        \* config_factory_reset_in_progress

-----------------------------------------------------------------------------
(* The cache of tracked commands.                                          *)

Entries == {c \in Command : tracked[c] # "empty"}

\* c's entry carries a smaller generation than d's.
Older(c, d) == d \in since[c]

OldestIn(S) == CHOOSE c \in S : \A d \in S \ {c} : Older(c, d)

\* Faulty variant of Victim: the oldest entry goes, pending or not.
VictimOldest == OldestIn(Entries)

\* The slot a new command takes over: that of the oldest finished command, or
\* of the oldest of all when every one is pending.
Victim ==
    LET finished == {c \in Entries : tracked[c] # "pending"} IN
    OldestIn(IF finished # {} THEN finished ELSE Entries)

\* Faulty variant of Evicted: the cache keeps one slot less than it has.
EvictedEarly(c) ==
    IF tracked[c] # "empty" \/ Cardinality(Entries) < CacheSize - 1 THEN {} ELSE {Victim}

Evicted(c) ==
    IF tracked[c] # "empty" \/ Cardinality(Entries) < CacheSize THEN {} ELSE {Victim}

\* mqtt_command_cache_set: every write gives the entry a new generation.
CacheSet(c, s) ==
    /\ tracked' = [d \in Command |->
                     CASE d = c -> s
                       [] d # c /\ d \in Evicted(c) -> "empty"
                       [] OTHER -> tracked[d]]
    /\ since' = [d \in Command |-> IF d = c THEN {} ELSE since[d] \cup {c}]

-----------------------------------------------------------------------------
(* MQTT_EVENT_DATA on the command topic.                                   *)

Run(c) == runs' = [runs EXCEPT ![c] = IF @ < 2 THEN @ + 1 ELSE @]

\* A command message arrives: any, in any order, as often as the server repeats
\* it.  The handler looks it up: a new one is claimed, one that is still running is
\* left to its task, and a finished one is answered again.
Receive(c) ==
    /\ connected /\ Listening
    /\ rx.pc = "idle"
    /\ rx' = CASE tracked[c] = "empty"   -> [pc |-> "claim", cmd |-> c, status |-> "error"]
               [] tracked[c] = "pending" -> Idle
               [] OTHER -> [pc |-> "ack", cmd |-> c, status |-> tracked[c]]
    /\ UNCHANGED <<connected, cacheVars, queue, worker, reset, observerVars,
                   faults>>

\* Faulty variant of Claim: the command is not recorded before it runs.
ClaimUnrecorded ==
    /\ rx.pc = "claim"
    /\ rx' = [rx EXCEPT !.pc = "dispatch"]
    /\ UNCHANGED <<connected, cacheVars, queue, worker, reset, observerVars, faults>>

\* Faulty variant of Claim: the entry is recorded as finished.
ClaimFinished ==
    /\ rx.pc = "claim"
    /\ CacheSet(rx.cmd, "done")
    /\ rx' = [rx EXCEPT !.pc = "dispatch"]
    /\ UNCHANGED <<connected, queue, worker, reset, observerVars, faults>>

Claim ==
    /\ rx.pc = "claim"
    /\ CacheSet(rx.cmd, "pending")
    /\ rx' = [rx EXCEPT !.pc = "dispatch"]
    /\ UNCHANGED <<connected, queue, worker, reset, observerVars, faults>>

\* A command that is not deferred runs in the handler; it may be refused (bad
\* arguments, unknown type) before it runs at all.
Execute ==
    /\ rx.pc = "dispatch" /\ rx.cmd \notin Calibration
    /\ \E status \in Verdict : rx' = [rx EXCEPT !.pc = "ack", !.status = status]
    /\ Run(rx.cmd)
    /\ UNCHANGED <<connected, cacheVars, queue, worker, reset, told, faults>>

Refuse ==
    /\ rx.pc = "dispatch" /\ rx.cmd \notin Calibration
    /\ rx' = [rx EXCEPT !.pc = "ack", !.status = "error"]
    /\ UNCHANGED <<connected, cacheVars, queue, worker, reset, observerVars,
                   faults>>

\* ESP_ERR_NOT_FINISHED: the calibration task will answer.
Defer ==
    /\ rx.pc = "dispatch" /\ rx.cmd \in Calibration
    /\ Len(queue) < QueueLen
    /\ queue' = Append(queue, rx.cmd)
    /\ rx' = Idle
    /\ UNCHANGED <<connected, cacheVars, worker, reset, observerVars, faults>>

\* Faulty variant of QueueFull: the rejected command's entry is dropped.
QueueFullForgotten ==
    /\ rx.pc = "dispatch" /\ rx.cmd \in Calibration
    /\ Len(queue) = QueueLen
    /\ tracked' = [tracked EXCEPT ![rx.cmd] = "empty"]
    /\ told' = [told EXCEPT ![rx.cmd] = @ \cup {"error"}]
    /\ rx' = Idle
    /\ UNCHANGED <<connected, since, queue, worker, reset, runs, faults>>

QueueFull ==
    /\ rx.pc = "dispatch" /\ rx.cmd \in Calibration
    /\ Len(queue) = QueueLen
    /\ rx' = [rx EXCEPT !.pc = "ack", !.status = "error"]
    /\ UNCHANGED <<connected, cacheVars, queue, worker, reset, observerVars,
                   faults>>

-----------------------------------------------------------------------------
(* mqtt_publish_command_ack: the cache first, then the outbox.             *)

\* The client keeps a QoS 1 message until the broker has it, or it expires; what
\* became of it is not modelled here.
Answer(task) == told' = [told EXCEPT ![task.cmd] = @ \cup {task.status}]

AckRx ==
    /\ rx.pc = "ack"
    /\ CacheSet(rx.cmd, rx.status)
    /\ rx' = [rx EXCEPT !.pc = "reply"]
    /\ UNCHANGED <<connected, queue, worker, reset, observerVars, faults>>

ReplyRx ==
    /\ rx.pc = "reply"
    /\ IF ClientUp THEN Answer(rx) ELSE UNCHANGED told
    /\ rx' = Idle
    /\ UNCHANGED <<connected, cacheVars, queue, worker, reset, runs, faults>>

-----------------------------------------------------------------------------
(* calibration_task.                                                       *)

Take ==
    /\ worker.pc = "idle"
    /\ queue # <<>>
    /\ worker' = [pc |-> "run", cmd |-> Head(queue), status |-> "error"]
    /\ queue' = Tail(queue)
    /\ Run(Head(queue))
    /\ UNCHANGED <<connected, rx, cacheVars, reset, told, faults>>

\* Faulty variant of Calibrate: the task never answers.
CalibrateUnanswered ==
    /\ worker.pc = "run"
    /\ worker' = Idle
    /\ UNCHANGED <<connected, rx, cacheVars, queue, reset, observerVars, faults>>

\* No answer is given during a factory reset.
Calibrate ==
    /\ worker.pc = "run"
    /\ \E status \in Verdict :
          worker' = IF Resetting THEN Idle
                    ELSE [worker EXCEPT !.pc = "ack", !.status = status]
    /\ UNCHANGED <<connected, rx, cacheVars, queue, reset, observerVars,
                   faults>>

AckWorker ==
    /\ worker.pc = "ack"
    /\ CacheSet(worker.cmd, worker.status)
    /\ worker' = [worker EXCEPT !.pc = "reply"]
    /\ UNCHANGED <<connected, rx, queue, reset, observerVars, faults>>

ReplyWorker ==
    /\ worker.pc = "reply"
    /\ IF ClientUp THEN Answer(worker) ELSE UNCHANGED told
    /\ worker' = Idle
    /\ UNCHANGED <<connected, rx, cacheVars, queue, reset, runs, faults>>

-----------------------------------------------------------------------------
(* The MQTT client and its broker.                                         *)

Connect ==
    /\ ~connected /\ ClientUp
    /\ connected' = TRUE
    /\ UNCHANGED <<rx, cacheVars, queue, worker, reset, observerVars, faults>>

\* A factory reset takes Wi-Fi down before it stops the client.
Disconnect ==
    /\ IF Resetting THEN UNCHANGED faults ELSE Fault
    /\ connected
    /\ connected' = FALSE
    /\ UNCHANGED <<rx, cacheVars, queue, worker, reset, observerVars>>

-----------------------------------------------------------------------------
(* factory_reset_run, and restarts.                                        *)

BeginReset ==
    /\ reset \in {"none", "failed"}
    /\ reset' = IF reset = "none" THEN "begun" ELSE "stopped"
    /\ UNCHANGED <<connected, rx, cacheVars, queue, worker, observerVars,
                   faults>>

\* mqtt_stop takes the client's handle, then clears the cache, then stops the
\* client's task: it may handle commands in between.
DetachClient ==
    /\ reset = "begun"
    /\ reset' = "detached"
    /\ UNCHANGED <<connected, rx, cacheVars, queue, worker, observerVars,
                   faults>>

ClearCache ==
    /\ reset = "detached"
    /\ reset' = "cleared"
    /\ tracked' = [c \in Command |-> "empty"]
    /\ since' = [c \in Command |-> {}]
    /\ UNCHANGED <<connected, rx, queue, worker, observerVars, faults>>

StopClient ==
    /\ reset = "cleared"
    /\ rx.pc = "idle"
    /\ reset' = "stopped"
    /\ connected' = FALSE
    /\ UNCHANGED <<rx, cacheVars, queue, worker, observerVars, faults>>

\* nvs_flash_erase fails: the guard is dropped, the client stays stopped.
ResetFails ==
    /\ Fault
    /\ reset = "stopped"
    /\ reset' = "failed"
    /\ UNCHANGED <<connected, rx, cacheVars, queue, worker, observerVars>>

Reboot ==
    /\ connected' = FALSE
    /\ rx' = Idle
    /\ tracked' = [c \in Command |-> "empty"]
    /\ since' = [c \in Command |-> {}]
    /\ queue' = <<>>
    /\ worker' = Idle
    /\ reset' = "none"
    /\ runs' = [c \in Command |-> 0]
    /\ told' = [c \in Command |-> {}]

ResetRestarts == reset = "stopped" /\ Reboot /\ UNCHANGED faults
PowerLoss     == Fault /\ Reboot

-----------------------------------------------------------------------------

RxStep == Claim \/ Execute \/ Refuse \/ Defer \/ QueueFull \/ AckRx \/ ReplyRx

WorkerStep == Take \/ Calibrate \/ AckWorker \/ ReplyWorker

ResetStep == DetachClient \/ ClearCache \/ StopClient

Next ==
    \/ \E c \in Command : Receive(c)
    \/ RxStep \/ WorkerStep
    \/ Connect \/ Disconnect
    \/ BeginReset \/ ResetStep \/ ResetFails \/ ResetRestarts \/ PowerLoss

Spec == Init /\ [][Next]_vars

-----------------------------------------------------------------------------
(* Properties.                                                             *)

InProgress ==
    {queue[i] : i \in DOMAIN queue}
        \cup {t.cmd : t \in {u \in {rx, worker} : u.pc \in {"dispatch", "run"}}}

\* Eviction never forgets a command that waits for its execution or is being
\* executed: its duplicate would run beside it.
RunningIsTracked ==
    ClientUp => \A c \in InProgress : tracked[c] = "pending"

\* A command that ran is forgotten only when CacheSize others have been written
\* to the cache since, or wait there for their execution: until then its
\* duplicate does not run again.
DedupeWindow ==
    ClientUp => \A c \in Command :
        runs[c] > 0 /\ tracked[c] = "empty" =>
            Cardinality(since[c] \cup {d \in Command : tracked[d] = "pending"}) >= CacheSize

\* While the cache holds every command, none runs twice before a restart or a
\* factory reset, whatever the server repeats.
RunsOnce ==
    ClientUp /\ Cardinality(Command) <= CacheSize => \A c \in Command : runs[c] <= 1

\* ... and none is answered both ways.
OneAnswer ==
    ClientUp /\ Cardinality(Command) <= CacheSize =>
        \A c \in Command : Cardinality(told[c]) <= 1

==============================================================================
