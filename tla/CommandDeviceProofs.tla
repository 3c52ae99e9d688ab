------------------------ MODULE CommandDeviceProofs ------------------------
(***************************************************************************)
(* Proofs about CommandDevice, for any number of commands, any size of the *)
(* cache, any length of the calibration queue, any faults and factory      *)
(* resets: what holds while the cache has room for every command, so that  *)
(* nothing is evicted, and what eviction keeps when it has not.            *)
(***************************************************************************)
EXTENDS CommandDevice, FiniteSetTheorems, WellFoundedInduction, TLAPS

Roomy == Cardinality(Command) <= CacheSize

\* While the client is there and it has room the cache is only added to.  What it says of a
\* command, against where the command is:

Queued(c) == \E i \in 1 .. Len(queue) : queue[i] = c
Handled(c, pcs) == rx.pc \in pcs /\ rx.cmd = c
Worked(c, pcs) == worker.pc \in pcs /\ worker.cmd = c

\* A command is in one place until its entry is finished, and its entry says so.
EntryInv ==
    \A c \in Command :
        /\ Handled(c, {"claim"}) => tracked[c] = "empty"
        /\ Handled(c, {"dispatch"}) => tracked[c] = "pending"
        /\ Handled(c, {"ack"}) => tracked[c] \in {"pending", rx.status}
        /\ Handled(c, {"reply"}) => tracked[c] = rx.status
        /\ Worked(c, {"run", "ack"}) => tracked[c] = "pending"
        /\ Worked(c, {"reply"}) => tracked[c] = worker.status
        /\ Queued(c) => tracked[c] = "pending"

PlaceInv ==
    /\ \A c \in Command :
           /\ Handled(c, {"dispatch", "ack"}) /\ tracked[c] = "pending" =>
                  ~Queued(c) /\ ~Worked(c, {"run", "ack"})
           /\ Worked(c, {"run", "ack"}) => ~Queued(c)
    /\ \A i, j \in 1 .. Len(queue) : queue[i] = queue[j] => i = j

\* It has not run before its turn, and was answered as its entry says.
RunInv ==
    \A c \in Command :
        /\ runs[c] <= 1
        /\ tracked[c] = "empty" \/ Queued(c) \/ Handled(c, {"dispatch"}) => runs[c] = 0
        /\ told[c] \subseteq {tracked[c]}

Good == EntryInv /\ PlaceInv /\ RunInv

\* DetachClient ends it, and only a restart brings the client back.
Inv == TypeOK /\ (ClientUp => Good)

-----------------------------------------------------------------------------
(***************************************************************************)
(* Types.                                                                  *)
(***************************************************************************)
LEMMA TaskFields ==
    ASSUME NEW pcs, NEW t \in Task(pcs), t.pc # "idle"
    PROVE  /\ t.cmd \in Command /\ t.status \in Verdict /\ t.pc \in pcs
           /\ t \in [pc : pcs, cmd : Command, status : Verdict]
  BY DEF Task

LEMMA CacheTypes ==
    ASSUME TypeOK, NEW c \in Command, NEW s \in EntryState, CacheSet(c, s)
    PROVE  tracked' \in [Command -> EntryState] /\ since' \in [Command -> SUBSET Command]
<1>1. tracked' \in [Command -> EntryState]
  BY DEF TypeOK, CacheSet, EntryState
<1>2. since' \in [Command -> SUBSET Command]
  BY DEF TypeOK, CacheSet
<1> QED BY <1>1, <1>2

LEMMA RunTypes ==
    ASSUME runs \in [Command -> 0 .. 2], NEW c \in Command, Run(c)
    PROVE  runs' \in [Command -> 0 .. 2]
<1>1. ASSUME NEW d \in Command PROVE runs'[d] \in 0 .. 2
  BY DEF Run
<1> QED BY <1>1 DEF Run

\* The variables but for connected, which is Boolean, and the cache.
DataTypeOK ==
    /\ rx \in Task({"claim", "dispatch", "ack", "reply"})
    /\ queue \in Seq(Calibration)
    /\ Len(queue) <= QueueLen
    /\ worker \in Task({"run", "ack", "reply"})
    /\ reset \in {"none", "begun", "detached", "cleared", "stopped", "failed"}
    /\ runs \in [Command -> 0 .. 2]
    /\ told \in [Command -> SUBSET Verdict]
    /\ faults \in 0 .. MaxFaults

CacheTypeOK ==
    /\ tracked \in [Command -> EntryState]
    /\ since \in [Command -> SUBSET Command]

LEMMA RxTypes ==
    ASSUME TypeOK, RxStep
    PROVE  DataTypeOK' /\ CacheTypeOK'
<1> USE DEF DataTypeOK, CacheTypeOK, TypeOK
<1>1. rx.cmd \in Command /\ rx.status \in Verdict
      /\ rx \in [pc : {"claim", "dispatch", "ack", "reply"}, cmd : Command, status : Verdict]
  BY TaskFields DEF RxStep, Claim, Execute, Refuse, Defer, QueueFull, AckRx, ReplyRx
<1>2. CASE Claim
  BY <1>1, <1>2, CacheTypes DEF Claim, Task, EntryState, observerVars
<1>3. CASE Execute
  <2>1. rx' \in Task({"claim", "dispatch", "ack", "reply"})
    BY <1>1, <1>3 DEF Execute, Task, Verdict
  <2>2. runs' \in [Command -> 0 .. 2]
    BY <1>1, <1>3, RunTypes DEF Execute
  <2> QED BY <1>3, <2>1, <2>2 DEF Execute, cacheVars
<1>4. CASE Refuse \/ QueueFull
  BY <1>1, <1>4 DEF Refuse, QueueFull, Task, Verdict, cacheVars, observerVars
<1>5. CASE Defer
  BY <1>1, <1>5, DeviceAssumption DEF Defer, Task, Idle, cacheVars, observerVars
<1>6. CASE AckRx
  BY <1>1, <1>6, CacheTypes DEF AckRx, Task, EntryState, Verdict, observerVars
<1>7. CASE ReplyRx
  BY <1>1, <1>7 DEF ReplyRx, Answer, Task, Idle, cacheVars
<1> QED BY <1>2, <1>3, <1>4, <1>5, <1>6, <1>7 DEF RxStep

LEMMA WorkerTypes ==
    ASSUME TypeOK, WorkerStep
    PROVE  DataTypeOK' /\ CacheTypeOK'
<1> USE DEF DataTypeOK, CacheTypeOK, TypeOK
<1>1. CASE Take
  <2>1. Head(queue) \in Command /\ Tail(queue) \in Seq(Calibration)
        /\ Len(Tail(queue)) <= QueueLen
    BY <1>1, DeviceAssumption DEF Take
  <2> QED BY <1>1, <2>1 DEF Take, Run, Task, Verdict, cacheVars
<1>2. ASSUME worker.pc # "idle"
      PROVE  /\ worker.cmd \in Command /\ worker.status \in Verdict
             /\ worker \in [pc : {"run", "ack", "reply"}, cmd : Command, status : Verdict]
  BY <1>2, TaskFields
<1>3. CASE Calibrate
  <2>1. PICK status \in Verdict :
            worker' = IF Resetting THEN Idle ELSE [worker EXCEPT !.pc = "ack", !.status = status]
    BY <1>3 DEF Calibrate
  <2>2. worker' \in Task({"run", "ack", "reply"})
    BY <1>2, <1>3, <2>1 DEF Calibrate, Task, Idle
  <2> QED BY <1>3, <2>2 DEF Calibrate, cacheVars, observerVars
<1>4. CASE AckWorker
  BY <1>2, <1>4, CacheTypes DEF AckWorker, Task, EntryState, Verdict, observerVars
<1>5. CASE ReplyWorker
  BY <1>2, <1>5 DEF ReplyWorker, Answer, Task, Idle, cacheVars
<1> QED BY <1>1, <1>3, <1>4, <1>5 DEF WorkerStep

LEMMA OtherTypes ==
    ASSUME TypeOK,
           \/ \E c \in Command : Receive(c)
           \/ Connect \/ Disconnect \/ BeginReset \/ ResetStep \/ ResetFails
           \/ ResetRestarts \/ PowerLoss \/ UNCHANGED vars
    PROVE  DataTypeOK' /\ CacheTypeOK'
<1> USE DeviceAssumption DEF DataTypeOK, CacheTypeOK, TypeOK, cacheVars, observerVars
<1>1. ASSUME NEW c \in Command, Receive(c) PROVE DataTypeOK' /\ CacheTypeOK'
  <2>1. tracked[c] \in EntryState
    OBVIOUS
  <2>2. rx' \in Task({"claim", "dispatch", "ack", "reply"})
    BY <1>1, <2>1 DEF Receive, Task, Idle, Verdict, EntryState
  <2> QED BY <1>1, <2>2 DEF Receive
<1>2. CASE Connect \/ Disconnect
  BY <1>2 DEF Connect, Disconnect, Fault
<1>3. CASE BeginReset \/ ResetFails
  BY <1>3 DEF BeginReset, ResetFails, Fault
<1>4. CASE ResetStep
  BY <1>4 DEF ResetStep, DetachClient, ClearCache, StopClient, EntryState
<1>5. CASE ResetRestarts \/ PowerLoss
  <2>1. Reboot /\ faults' \in 0 .. MaxFaults
    BY <1>5 DEF ResetRestarts, PowerLoss, Fault
  <2>2. queue' \in Seq(Calibration) /\ Len(queue') <= QueueLen
    BY <2>1 DEF Reboot
  <2>3. runs' \in [Command -> 0 .. 2] /\ told' \in [Command -> SUBSET Verdict]
    BY <2>1 DEF Reboot
  <2> QED BY <2>1, <2>2, <2>3 DEF Reboot, Task, Idle, EntryState
<1>6. CASE UNCHANGED vars
  BY <1>6 DEF vars
<1> QED BY <1>1, <1>2, <1>3, <1>4, <1>5, <1>6

LEMMA TypeStep == ASSUME TypeOK, [Next]_vars PROVE TypeOK'
<1>1. DataTypeOK' /\ CacheTypeOK'
  BY RxTypes, WorkerTypes, OtherTypes DEF Next
<1>2. connected' \in BOOLEAN
  <2>1. connected' = connected \/ connected' = TRUE \/ connected' = FALSE
    BY Zenon DEF Next, RxStep, WorkerStep, ResetStep, Receive, Claim, Execute, Refuse, Defer,
         QueueFull, AckRx, ReplyRx, Take, Calibrate, AckWorker, ReplyWorker, Connect,
         Disconnect, BeginReset, DetachClient, ClearCache, StopClient, ResetFails,
         ResetRestarts, PowerLoss, Reboot, vars
  <2> QED BY Zenon, <2>1 DEF TypeOK
<1> QED BY <1>1, <1>2 DEF DataTypeOK, CacheTypeOK, TypeOK

-----------------------------------------------------------------------------
(***************************************************************************)
(* One command, one run.                                                   *)
(***************************************************************************)
LEMMA NoEviction ==
    ASSUME Roomy, TypeOK, NEW c \in Command, NEW s, CacheSet(c, s)
    PROVE  tracked' = [tracked EXCEPT ![c] = s]
<1>1. ASSUME tracked[c] = "empty" PROVE Cardinality(Entries) < CacheSize
  <2>1. Entries \in SUBSET (Command \ {c})
    BY <1>1 DEF Entries
  <2>2. IsFiniteSet(Command \ {c}) /\ Cardinality(Command \ {c}) = Cardinality(Command) - 1
    BY DeviceAssumption, FS_RemoveElement
  <2>3. IsFiniteSet(Entries) /\ Cardinality(Entries) <= Cardinality(Command \ {c})
    BY <2>1, <2>2, FS_Subset
  <2>4. Cardinality(Entries) \in Nat /\ Cardinality(Command) \in Nat
    BY <2>3, DeviceAssumption, FS_CardinalityType
  <2> QED BY <2>2, <2>3, <2>4, DeviceAssumption DEF Roomy
<1>2. Evicted(c) = {}
  BY <1>1 DEF Evicted
<1> QED BY <1>2 DEF CacheSet, TypeOK

LEMMA QueueElements ==
    ASSUME TypeOK
    PROVE  /\ Len(queue) \in Nat
           /\ \A i \in 1 .. Len(queue) : queue[i] \in Command /\ queue[i] \in Calibration
  BY DeviceAssumption DEF TypeOK

LEMMA RxGood ==
    ASSUME Roomy, TypeOK, Good, ClientUp, RxStep
    PROVE  Good'
<1> USE DEF Handled, Worked, Queued, Verdict
<1>1. rx.cmd \in Command /\ rx.status \in Verdict
      /\ rx \in [pc : {"claim", "dispatch", "ack", "reply"}, cmd : Command, status : Verdict]
  BY TaskFields DEF RxStep, Claim, Execute, Refuse, Defer, QueueFull, AckRx, ReplyRx, TypeOK
<1>2. /\ tracked \in [Command -> {"empty", "pending", "done", "error"}]
      /\ runs \in [Command -> 0 .. 2] /\ told \in [Command -> SUBSET {"done", "error"}]
  BY DEF TypeOK, EntryState
<1>3. CASE Claim
  <2>1. tracked' = [tracked EXCEPT ![rx.cmd] = "pending"]
    BY <1>1, <1>3, NoEviction DEF Claim
  <2>2. rx' = [rx EXCEPT !.pc = "dispatch"] /\ UNCHANGED <<queue, worker, runs, told>>
        /\ rx.pc = "claim"
    BY <1>3 DEF Claim, observerVars
  <2>3. EntryInv'
    <3>1. rx'.pc = "dispatch" /\ rx'.cmd = rx.cmd
      BY <1>1, <2>2
    <3>2. tracked'[rx.cmd] = "pending" /\ tracked[rx.cmd] = "empty"
          /\ \A c \in Command : c # rx.cmd => tracked'[c] = tracked[c]
      BY <1>1, <1>2, <2>1, <2>2 DEF Good, EntryInv
    <3>3. ~Queued(rx.cmd) /\ ~Worked(rx.cmd, {"run", "ack", "reply"})
      BY <1>1, <3>2, TaskFields DEF Good, EntryInv, TypeOK
    <3> QED BY <1>1, <2>2, <3>1, <3>2, <3>3 DEF Good, EntryInv
  <2>4. PlaceInv'
    BY <1>1, <1>2, <2>1, <2>2 DEF Good, EntryInv, PlaceInv
  <2>5. RunInv'
    BY <1>1, <1>2, <2>1, <2>2 DEF Good, EntryInv, RunInv
  <2> QED BY <2>3, <2>4, <2>5 DEF Good
<1>4. CASE Execute
  <2>1. /\ rx.pc = "dispatch" /\ rx'.pc = "ack" /\ rx'.cmd = rx.cmd /\ rx'.status \in Verdict
        /\ UNCHANGED <<tracked, queue, worker, told>>
    BY <1>1, <1>4 DEF Execute, cacheVars
  <2>2. runs' = [runs EXCEPT ![rx.cmd] = 1]
    <3>1. runs[rx.cmd] = 0
      BY <1>1, <2>1 DEF Good, RunInv
    <3> QED BY <1>1, <1>2, <1>4, <3>1 DEF Execute, Run
  <2>3. EntryInv'
    BY <1>1, <2>1 DEF Good, EntryInv
  <2>4. PlaceInv'
    BY <1>1, <2>1 DEF Good, EntryInv, PlaceInv
  <2>5. RunInv'
    BY <1>1, <1>2, <2>1, <2>2 DEF Good, EntryInv, PlaceInv, RunInv
  <2> QED BY <2>3, <2>4, <2>5 DEF Good
<1>5. CASE Refuse \/ QueueFull
  <2>1. /\ rx.pc = "dispatch" /\ rx'.pc = "ack" /\ rx'.cmd = rx.cmd /\ rx'.status \in Verdict
        /\ UNCHANGED <<tracked, queue, worker, runs, told>>
    BY <1>1, <1>5 DEF Refuse, QueueFull, cacheVars, observerVars
  <2>2. EntryInv'
    BY <1>1, <2>1 DEF Good, EntryInv
  <2>3. PlaceInv'
    BY <1>1, <2>1 DEF Good, EntryInv, PlaceInv
  <2>4. RunInv'
    BY <1>1, <1>2, <2>1 DEF Good, RunInv
  <2> QED BY <2>2, <2>3, <2>4 DEF Good
<1>6. CASE Defer
  <2>1. /\ rx.pc = "dispatch" /\ rx'.pc = "idle" /\ queue' = Append(queue, rx.cmd)
        /\ UNCHANGED <<tracked, worker, runs, told>>
    BY <1>6 DEF Defer, Idle, cacheVars, observerVars
  <2>2. /\ Len(queue') = Len(queue) + 1 /\ Len(queue) \in Nat
        /\ \A i \in 1 .. Len(queue) : queue'[i] = queue[i]
        /\ queue'[Len(queue) + 1] = rx.cmd
    BY <2>1 DEF TypeOK
  <2>3. \A c \in Command : Queued(c)' <=> Queued(c) \/ c = rx.cmd
    BY <2>2
  <2>4. tracked[rx.cmd] = "pending" /\ ~Queued(rx.cmd) /\ ~Worked(rx.cmd, {"run", "ack"})
        /\ runs[rx.cmd] = 0
    BY <1>1, <2>1 DEF Good, EntryInv, PlaceInv, RunInv
  <2> HIDE DEF Queued
  <2>5. EntryInv'
    BY <2>1, <2>3, <2>4 DEF Good, EntryInv
  <2>6. \A c \in Command : Worked(c, {"run", "ack"})' => ~Queued(c)'
    BY <2>1, <2>3, <2>4 DEF Good, PlaceInv
  <2>7. \A i, j \in 1 .. Len(queue') : queue'[i] = queue'[j] => i = j
    BY <2>2, <2>4 DEF Good, PlaceInv, Queued
  <2>8. PlaceInv'
    BY <2>1, <2>6, <2>7 DEF PlaceInv
  <2>9. RunInv'
    BY <1>2, <2>1, <2>3, <2>4 DEF Good, RunInv
  <2> QED BY <2>5, <2>8, <2>9 DEF Good
<1>7. CASE AckRx
  <2>1. tracked' = [tracked EXCEPT ![rx.cmd] = rx.status]
    BY <1>1, <1>7, NoEviction DEF AckRx
  <2>2. rx' = [rx EXCEPT !.pc = "reply"] /\ UNCHANGED <<queue, worker, runs, told>>
        /\ rx.pc = "ack"
    BY <1>7 DEF AckRx, observerVars
  <2>3. tracked[rx.cmd] \in {"pending", rx.status}
    BY <1>1, <2>2 DEF Good, EntryInv
  <2>4. ~Queued(rx.cmd) /\ ~Worked(rx.cmd, {"run", "ack"})
    BY <1>1, <2>2, <2>3 DEF Good, EntryInv, PlaceInv
  <2>5. EntryInv'
    <3>1. rx'.pc = "reply" /\ rx'.cmd = rx.cmd /\ rx'.status = rx.status
      BY <1>1, <2>2
    <3>2. tracked'[rx.cmd] = rx.status
          /\ \A c \in Command : c # rx.cmd => tracked'[c] = tracked[c]
      BY <1>1, <1>2, <2>1
    <3>3. Worked(rx.cmd, {"reply"}) => worker.status = rx.status
      BY <1>1, <2>3, TaskFields DEF Good, EntryInv, TypeOK
    <3> QED BY <1>1, <2>2, <2>4, <3>1, <3>2, <3>3 DEF Good, EntryInv
  <2>6. PlaceInv'
    BY <1>1, <1>2, <2>1, <2>2, <2>4 DEF Good, PlaceInv
  <2>7. RunInv'
    BY <1>1, <1>2, <2>1, <2>2, <2>3, <2>4 DEF Good, RunInv
  <2> QED BY <2>5, <2>6, <2>7 DEF Good
<1>8. CASE ReplyRx
  <2>1. /\ rx.pc = "reply" /\ rx'.pc = "idle"
        /\ told' = [told EXCEPT ![rx.cmd] = @ \cup {rx.status}]
        /\ UNCHANGED <<tracked, queue, worker, runs>>
    BY <1>8 DEF ReplyRx, Answer, Idle, cacheVars
  <2>2. EntryInv' /\ PlaceInv'
    BY <2>1 DEF Good, EntryInv, PlaceInv
  <2>3. RunInv'
    BY <1>1, <1>2, <2>1 DEF Good, EntryInv, RunInv
  <2> QED BY <2>2, <2>3 DEF Good
<1> QED BY <1>3, <1>4, <1>5, <1>6, <1>7, <1>8 DEF RxStep

LEMMA WorkerGood ==
    ASSUME Roomy, TypeOK, Good, ClientUp, WorkerStep
    PROVE  Good'
<1> USE DEF Handled, Worked, Verdict
<1>1. /\ tracked \in [Command -> {"empty", "pending", "done", "error"}]
      /\ runs \in [Command -> 0 .. 2] /\ told \in [Command -> SUBSET {"done", "error"}]
  BY DEF TypeOK, EntryState
<1>2. ASSUME worker.pc # "idle"
      PROVE  /\ worker.cmd \in Command /\ worker.status \in Verdict
             /\ worker \in [pc : {"run", "ack", "reply"}, cmd : Command, status : Verdict]
  BY <1>2, TaskFields DEF TypeOK
<1>3. rx.pc # "idle" => rx.status \in Verdict
  BY TaskFields DEF TypeOK
<1>4. CASE Take
  <2>0. PICK h : h = Head(queue)
    OBVIOUS
  <2>1. /\ worker.pc = "idle" /\ queue' = Tail(queue) /\ Run(h)
        /\ worker' = [pc |-> "run", cmd |-> h, status |-> "error"]
        /\ UNCHANGED <<tracked, rx, told>>
    BY <1>4, <2>0 DEF Take, cacheVars
  <2>2. /\ Len(queue) \in Nat /\ Len(queue') = Len(queue) - 1 /\ 1 \in 1 .. Len(queue)
        /\ \A i \in 1 .. Len(queue') : i + 1 \in 1 .. Len(queue) /\ queue'[i] = queue[i + 1]
        /\ h = queue[1]
    BY <1>4, <2>0 DEF Take, TypeOK
  <2>3. h \in Command /\ Queued(h)
    BY <2>2, QueueElements DEF Queued
  <2>4. ~Queued(h)' /\ \A c \in Command : Queued(c)' => Queued(c)
    <3>1. \A i \in 1 .. Len(queue') : queue'[i] # h
      <4>1. ASSUME NEW i \in 1 .. Len(queue'), queue'[i] = h PROVE FALSE
        <5>1. queue[i + 1] = queue[1] /\ i + 1 \in 1 .. Len(queue) /\ i + 1 # 1
          BY <2>2, <4>1
        <5> QED BY <2>2, <5>1 DEF Good, PlaceInv
      <4> QED BY <4>1
    <3>2. ~Queued(h)'
      BY <3>1, <2>1 DEF Queued
    <3>3. ASSUME NEW c \in Command, Queued(c)' PROVE Queued(c)
      BY <2>2, <3>3 DEF Queued
    <3> QED BY <3>2, <3>3
  <2>5. tracked[h] = "pending" /\ runs[h] = 0
        /\ (Handled(h, {"dispatch", "ack"}) => FALSE)
    BY <2>3 DEF Good, EntryInv, PlaceInv, RunInv
  <2>6. runs' = [runs EXCEPT ![h] = 1]
    BY <1>1, <2>1, <2>3, <2>5 DEF Run
  <2>7. EntryInv'
    BY <2>1, <2>4, <2>5 DEF Good, EntryInv
  <2>8. \A i, j \in 1 .. Len(queue') : queue'[i] = queue'[j] => i = j
    BY <2>2 DEF Good, PlaceInv
  <2>9. PlaceInv'
    <3>1. ASSUME NEW c \in Command, Handled(c, {"dispatch", "ack"})', tracked'[c] = "pending"
          PROVE  ~Queued(c)' /\ ~Worked(c, {"run", "ack"})'
      <4>1. Handled(c, {"dispatch", "ack"}) /\ tracked[c] = "pending"
        BY <2>1, <3>1
      <4>2. c # h /\ ~Queued(c)
        BY <2>5, <4>1 DEF Good, PlaceInv
      <4> QED BY <2>1, <2>4, <4>2
    <3>2. ASSUME NEW c \in Command, Worked(c, {"run", "ack"})' PROVE ~Queued(c)'
      BY <2>1, <2>4, <3>2
    <3> QED BY <2>8, <3>1, <3>2 DEF PlaceInv
  <2>10. RunInv'
    <3>1. ASSUME NEW c \in Command PROVE runs'[c] <= 1 /\ told'[c] \subseteq {tracked'[c]}
      BY <1>1, <2>1, <2>3, <2>6, <3>1 DEF Good, RunInv
    <3>2. ASSUME NEW c \in Command,
                 tracked'[c] = "empty" \/ Queued(c)' \/ Handled(c, {"dispatch"})'
          PROVE  runs'[c] = 0
      <4>1. c # h
        BY <2>1, <2>4, <2>5, <3>2
      <4>2. tracked[c] = "empty" \/ Queued(c) \/ Handled(c, {"dispatch"})
        BY <2>1, <2>4, <3>2
      <4> QED BY <1>1, <2>6, <4>1, <4>2 DEF Good, RunInv
    <3> QED BY <3>1, <3>2 DEF RunInv
  <2> QED BY <2>7, <2>9, <2>10 DEF Good
<1>5. CASE Calibrate
  <2>1. /\ worker.pc = "run" /\ UNCHANGED <<rx, tracked, queue, runs, told>>
        /\ worker'.pc = "idle" \/ (worker'.pc = "ack" /\ worker'.cmd = worker.cmd)
    BY <1>2, <1>5 DEF Calibrate, Idle, cacheVars, observerVars
  <2>2. \A c \in Command : Queued(c)' <=> Queued(c)
    BY <2>1 DEF Queued
  <2>3. EntryInv'
    BY <2>1, <2>2 DEF Good, EntryInv
  <2>4. PlaceInv'
    BY <2>1, <2>2 DEF Good, PlaceInv
  <2>5. RunInv'
    BY <2>1, <2>2 DEF Good, RunInv
  <2> QED BY <2>3, <2>4, <2>5 DEF Good
<1>6. CASE AckWorker
  <2> DEFINE w == worker.cmd
  <2>1. /\ worker.pc = "ack" /\ w \in Command /\ worker.status \in Verdict
        /\ worker'.pc = "reply" /\ worker'.cmd = w /\ worker'.status = worker.status
        /\ UNCHANGED <<rx, queue, runs, told>>
    BY <1>2, <1>6 DEF AckWorker, observerVars
  <2>2. tracked' = [tracked EXCEPT ![w] = worker.status]
    BY <1>6, <2>1, NoEviction DEF AckWorker
  <2>3. /\ tracked[w] = "pending" /\ ~Queued(w)
        /\ ~Handled(w, {"claim", "dispatch", "ack", "reply"})
    BY <1>3, <2>1 DEF Good, EntryInv, PlaceInv
  <2>4. \A c \in Command : Queued(c)' <=> Queued(c)
    BY <2>1 DEF Queued
  <2>5. EntryInv'
    BY <1>1, <2>1, <2>2, <2>3, <2>4 DEF Good, EntryInv
  <2>6. PlaceInv'
    BY <1>1, <2>1, <2>2, <2>3, <2>4 DEF Good, PlaceInv
  <2>7. RunInv'
    BY <1>1, <2>1, <2>2, <2>3, <2>4 DEF Good, RunInv
  <2> QED BY <2>5, <2>6, <2>7 DEF Good
<1>7. CASE ReplyWorker
  <2>1. /\ worker.pc = "reply" /\ worker.cmd \in Command /\ worker'.pc = "idle"
        /\ told' = [told EXCEPT ![worker.cmd] = @ \cup {worker.status}]
        /\ UNCHANGED <<rx, tracked, queue, runs>>
    BY <1>2, <1>7 DEF ReplyWorker, Answer, Idle, cacheVars
  <2>2. \A c \in Command : Queued(c)' <=> Queued(c)
    BY <2>1 DEF Queued
  <2>3. EntryInv' /\ PlaceInv'
    BY <2>1, <2>2 DEF Good, EntryInv, PlaceInv
  <2>4. RunInv'
    BY <1>1, <2>1, <2>2 DEF Good, EntryInv, RunInv
  <2> QED BY <2>3, <2>4 DEF Good
<1> QED BY <1>4, <1>5, <1>6, <1>7 DEF WorkerStep

LEMMA ReceiveGood ==
    ASSUME TypeOK, Good, NEW c \in Command, Receive(c)
    PROVE  Good'
<1>1. /\ rx.pc = "idle" /\ UNCHANGED <<tracked, queue, worker, runs, told>>
      /\ \/ rx'.pc = "idle"
         \/ rx'.pc = "claim" /\ rx'.cmd = c /\ tracked[c] = "empty"
         \/ rx'.pc = "ack" /\ rx'.cmd = c /\ rx'.status = tracked[c] /\ tracked[c] # "pending"
  BY DEF Receive, Idle, cacheVars, observerVars
<1>2. \A d \in Command : Queued(d)' <=> Queued(d)
  BY <1>1 DEF Queued
<1>3. EntryInv'
  BY <1>1, <1>2 DEF Good, EntryInv, Handled, Worked
<1>4. PlaceInv'
  BY <1>1, <1>2 DEF Good, PlaceInv, Handled, Worked
<1>5. RunInv'
  BY <1>1, <1>2 DEF Good, RunInv, Handled
<1> QED BY <1>3, <1>4, <1>5 DEF Good

\* A device that has just started.
Booted ==
    /\ rx.pc = "idle" /\ worker.pc = "idle" /\ queue = <<>>
    /\ tracked = [c \in Command |-> "empty"]
    /\ runs = [c \in Command |-> 0] /\ told = [c \in Command |-> {}]

LEMMA BootGood == Booted => Good
  BY DEF Booted, Good, EntryInv, PlaceInv, RunInv, Handled, Worked, Queued

LEMMA InitInv == ASSUME Init PROVE TypeOK /\ Good
<1> USE DeviceAssumption
<1>1. connected \in BOOLEAN
  BY Zenon DEF Init
<1>2. Booted
  BY DEF Init, Booted, Idle
<1>3. TypeOK
  BY <1>1 DEF Init, TypeOK, Task, Idle, EntryState
<1> QED BY <1>2, <1>3, BootGood

LEMMA InvStep == ASSUME Roomy, Inv, [Next]_vars PROVE Inv'
<1>1. TypeOK /\ TypeOK'
  BY TypeStep DEF Inv
<1>2. SUFFICES ASSUME ClientUp' PROVE Good'
  BY <1>1 DEF Inv
<1>3. CASE ResetRestarts \/ PowerLoss
  <2>1. Booted'
    BY <1>3 DEF ResetRestarts, PowerLoss, Reboot, Booted, Idle
  <2> QED BY <2>1
       DEF Booted, Good, EntryInv, PlaceInv, RunInv, Handled, Worked, Queued
<1>4. CASE ResetStep \/ ResetFails
  BY <1>2, <1>4 DEF ResetStep, DetachClient, ClearCache, StopClient, ResetFails, ClientUp
<1>5. ASSUME NEW c \in Command, Receive(c) PROVE Good'
  <2>1. ClientUp
    BY <1>2, <1>5 DEF Receive, ClientUp
  <2> QED BY <1>5, <2>1, ReceiveGood DEF Inv
<1>6. CASE RxStep
  <2>1. ClientUp
    BY <1>2, <1>6 DEF RxStep, Claim, Execute, Refuse, Defer, QueueFull, AckRx, ReplyRx, ClientUp
  <2> QED BY <1>6, <2>1, RxGood DEF Inv
<1>7. CASE WorkerStep
  <2>1. ClientUp
    BY <1>2, <1>7 DEF WorkerStep, Take, Calibrate, AckWorker, ReplyWorker, ClientUp
  <2> QED BY <1>7, <2>1, WorkerGood DEF Inv
<1>8. CASE Connect \/ Disconnect \/ BeginReset \/ UNCHANGED vars
  <2>1. ClientUp
    BY <1>2, <1>8 DEF Connect, Disconnect, BeginReset, vars, ClientUp
  <2>2. UNCHANGED <<rx, tracked, queue, worker, runs, told>>
    BY <1>8 DEF Connect, Disconnect, BeginReset, vars, cacheVars, observerVars
  <2> QED BY <2>1, <2>2
       DEF Inv, Good, EntryInv, PlaceInv, RunInv, Handled, Worked, Queued
<1> QED BY <1>3, <1>4, <1>5, <1>6, <1>7, <1>8 DEF Next

LEMMA Invariance == ASSUME Roomy PROVE Spec => []Inv
<1>1. Init => Inv
  BY InitInv DEF Inv
<1>2. Inv /\ [Next]_vars => Inv'
  BY InvStep
<1> QED BY <1>1, <1>2, PTL DEF Spec

LEMMA GoodMeans == ASSUME Inv PROVE RunsOnce /\ OneAnswer
<1>1. RunsOnce
  BY DEF Inv, Good, RunInv, RunsOnce
<1>2. OneAnswer
  <2>1. SUFFICES ASSUME Good, NEW c \in Command PROVE Cardinality(told[c]) <= 1
    BY DEF Inv, OneAnswer
  <2>2. told[c] = {} \/ told[c] = {tracked[c]}
    BY <2>1 DEF Good, RunInv
  <2>3. Cardinality(told[c]) = 0 \/ Cardinality(told[c]) = 1
    BY Zenon, <2>2, FS_EmptySet, FS_Singleton
  <2> QED BY <2>3
<1> QED BY <1>1, <1>2

-----------------------------------------------------------------------------
(***************************************************************************)
(* A cache that may be full.                                               *)
(***************************************************************************)
Pending == {c \in Command : tracked[c] = "pending"}

\* What the cache says of a command, wherever the command is.
TrackInv ==
    \A c \in Command :
        /\ Handled(c, {"claim"}) => tracked[c] = "empty"
        /\ Handled(c, {"dispatch"}) => tracked[c] = "pending"
        /\ Handled(c, {"ack"}) => tracked[c] # "empty"
        /\ Worked(c, {"run", "ack"}) => tracked[c] = "pending"
        /\ Queued(c) => tracked[c] = "pending"

\* The generations order the entries.
AgeInv ==
    /\ \A c \in Command : c \notin since[c]
    /\ \A c, d \in Entries : c # d => Older(c, d) \/ Older(d, c)
    /\ \A c, d \in Entries : Older(c, d) => ~Older(d, c)
    /\ \A c, d, e \in Entries : Older(c, d) /\ Older(d, e) => Older(c, e)

\* A factory reset that has begun leaves a command it interrupted in the cache.
Abandoned(c) ==
    /\ tracked[c] = "pending"
    /\ ~Queued(c) /\ ~Worked(c, {"run", "ack"}) /\ ~Handled(c, {"dispatch", "ack"})

\* The abandoned commands were claimed first, then the one that runs, then those
\* that wait, then the one being handled.
LineInv ==
    /\ \A c, d \in Command :
          /\ Handled(d, {"dispatch"}) /\ tracked[c] = "pending" /\ c # d => Older(c, d)
          /\ (Worked(c, {"run", "ack"}) \/ Abandoned(c)) /\ Queued(d) => Older(c, d)
          /\ Abandoned(c) /\ Worked(d, {"run", "ack"}) => Older(c, d)
    /\ \A i, j \in 1 .. Len(queue) : i < j => Older(queue[i], queue[j])

\* DedupeWindow, for one command.
WindowOf(c) ==
    runs[c] > 0 /\ tracked[c] = "empty" => Cardinality(since[c] \cup Pending) >= CacheSize

WindowInv == \A c \in Command : WindowOf(c)

Held == TrackInv /\ PlaceInv /\ AgeInv /\ LineInv /\ WindowInv

CacheInv == TypeOK /\ (ClientUp => Held)

\* A finite set of commands that the generations order has an oldest one.
LEMMA OldestExists ==
    ASSUME DeviceAssumption, AgeInv, NEW S \in SUBSET Entries, S # {}
    PROVE  /\ OldestIn(S) \in S
           /\ \A d \in S \ {OldestIn(S)} : Older(OldestIn(S), d)
<1> DEFINE Left(c) == S \ since[c]
           Counts == {Cardinality(Left(c)) : c \in S}
           R == OpToRel(<, Nat)
<1>1. \A c \in Command : IsFiniteSet(Left(c)) /\ Cardinality(Left(c)) \in Nat
  <2>1. SUFFICES ASSUME NEW c \in Command
        PROVE  IsFiniteSet(Left(c)) /\ Cardinality(Left(c)) \in Nat
    OBVIOUS
  <2>2. IsFiniteSet(Command) /\ Left(c) \in SUBSET Command
    BY DEF DeviceAssumption, Entries
  <2>3. IsFiniteSet(Left(c))
    BY ONLY <2>2, FS_Subset
  <2> QED BY ONLY <2>3, FS_CardinalityType
<1>2. S \subseteq Command
  BY DEF Entries
<1>3. Counts \subseteq Nat /\ Counts # {}
  BY <1>1, <1>2
<1> HIDE DEF Counts
<1>4. PICK n \in Counts : \A m \in Counts : ~ (<<m, n>> \in R)
  BY ONLY <1>3, NatLessThanWellFounded, WFMin
<1>5. PICK c \in S : n = Cardinality(Left(c))
  BY DEF Counts
<1>6. \A d \in S : ~(Cardinality(Left(d)) < Cardinality(Left(c)))
  <2>1. SUFFICES ASSUME NEW d \in S PROVE ~(Cardinality(Left(d)) < Cardinality(Left(c)))
    OBVIOUS
  <2>2. Cardinality(Left(d)) \in Counts
    BY DEF Counts
  <2>3. ~(<<Cardinality(Left(d)), n>> \in R)
    BY <1>4, <2>2
  <2>4. Cardinality(Left(d)) \in Nat /\ n \in Nat
    BY <1>3, <2>2
  <2> HIDE DEF Left
  <2> QED BY ONLY <1>5, <2>3, <2>4 DEF OpToRel
<1>7. ASSUME NEW d \in S \ {c}, ~Older(c, d) PROVE FALSE
  <2>1. c \in since[d] /\ c \notin since[c]
    BY <1>2, <1>7 DEF AgeInv, Older
  <2>2. Left(d) \subseteq Left(c) \ {c}
    BY <2>1 DEF AgeInv, Older, Entries
  <2>3. c \in Left(c)
    BY <2>1
  <2>4. IsFiniteSet(Left(c)) /\ Cardinality(Left(c)) \in Nat /\ Cardinality(Left(d)) \in Nat
    BY <1>1, <1>2
  <2>5. ~(Cardinality(Left(d)) < Cardinality(Left(c)))
    BY <1>6
  <2> HIDE DEF Left
  <2>6. /\ IsFiniteSet(Left(c) \ {c})
        /\ Cardinality(Left(c) \ {c}) = Cardinality(Left(c)) - 1
    BY ONLY <2>3, <2>4, FS_RemoveElement
  <2>7. Cardinality(Left(d)) <= Cardinality(Left(c) \ {c})
    BY ONLY <2>2, <2>6, FS_Subset
  <2> QED BY ONLY <2>4, <2>5, <2>6, <2>7
<1>8. \E x \in S : \A d \in S \ {x} : Older(x, d)
  BY <1>7
<1> QED BY Zenon, <1>8 DEF OldestIn

LEMMA CacheTotal ==
    ASSUME TypeOK
    PROVE  /\ IsFiniteSet(Entries) /\ Cardinality(Entries) \in Nat
           /\ Entries \subseteq Command /\ Pending \subseteq Entries
<1>1. Entries \in SUBSET Command /\ Pending \subseteq Entries
  BY DEF Entries, Pending
<1>2. IsFiniteSet(Entries)
  BY <1>1, DeviceAssumption, FS_Subset
<1> QED BY <1>1, <1>2, FS_CardinalityType

\* The commands that wait for the calibration task or are with it.
Waiting == {c \in Command : Queued(c) \/ Worked(c, {"run", "ack"})}

LEMMA FewWait ==
    ASSUME TypeOK
    PROVE  IsFiniteSet(Waiting) /\ Cardinality(Waiting) <= QueueLen + 1
<1> DEFINE Line == {c \in Command : Queued(c)}
           At == [i \in 1 .. Len(queue) |-> queue[i]]
<1>1. Len(queue) \in Nat /\ Len(queue) <= QueueLen /\ QueueLen \in Nat
  BY DeviceAssumption DEF TypeOK
<1>2. IsFiniteSet(1 .. Len(queue)) /\ Cardinality(1 .. Len(queue)) = Len(queue)
  <2>1. 1 \in Int /\ Len(queue) \in Int
    BY <1>1
  <2>2. /\ IsFiniteSet(1 .. Len(queue))
        /\ Cardinality(1 .. Len(queue)) = IF 1 > Len(queue) THEN 0 ELSE Len(queue) - 1 + 1
    BY ONLY <2>1, FS_Interval
  <2> QED BY ONLY <1>1, <2>2
<1>3. At \in Surjection(1 .. Len(queue), Line)
  <2>1. \A i \in 1 .. Len(queue) : At[i] \in Line
    BY QueueElements DEF Queued
  <2>2. \A c \in Line : \E i \in 1 .. Len(queue) : At[i] = c
    BY DEF Queued
  <2> QED BY Zenon, <2>1, <2>2 DEF Surjection
<1>4. IsFiniteSet(Line) /\ Cardinality(Line) <= Len(queue)
  BY ONLY <1>2, <1>3, FS_Surjection
<1>5. Cardinality(Line) \in Nat
  BY ONLY <1>4, FS_CardinalityType
<1>6. /\ IsFiniteSet(Line \cup {worker.cmd})
      /\ Cardinality(Line \cup {worker.cmd}) <= Len(queue) + 1
  <2> HIDE DEF Line
  <2>1. /\ IsFiniteSet(Line \cup {worker.cmd})
        /\ Cardinality(Line \cup {worker.cmd}) =
             IF worker.cmd \in Line THEN Cardinality(Line) ELSE Cardinality(Line) + 1
    BY ONLY <1>4, FS_AddElement
  <2> QED BY ONLY <1>1, <1>4, <1>5, <2>1
<1>7. Waiting \in SUBSET (Line \cup {worker.cmd})
  BY DEF Waiting, Worked
<1>8. IsFiniteSet(Waiting) /\ Cardinality(Waiting) <= Cardinality(Line \cup {worker.cmd})
  BY ONLY <1>6, <1>7, FS_Subset
<1>9. Cardinality(Waiting) \in Nat /\ Cardinality(Line \cup {worker.cmd}) \in Nat
  BY ONLY <1>6, <1>8, FS_CardinalityType
<1> QED BY ONLY <1>1, <1>6, <1>8, <1>9

\* A command takes a slot: whose it takes neither waits nor runs, and the
\* others that are remembered came after it or are pending.
LEMMA Evicts ==
    ASSUME DeviceAssumption, TypeOK, TrackInv, PlaceInv, AgeInv, LineInv,
           rx.pc = "claim", Cardinality(Entries) >= CacheSize
    PROVE  /\ Victim \in Entries
           /\ ~Queued(Victim) /\ ~Worked(Victim, {"run", "ack"})
           /\ Entries \ {Victim} \subseteq since[Victim] \cup Pending
           /\ tracked[Victim] = "pending" => Entries = Pending
<1> DEFINE finished == {c \in Entries : tracked[c] # "pending"}
<1>1. Victim = OldestIn(IF finished # {} THEN finished ELSE Entries)
  BY DEF Victim
<1>2. IsFiniteSet(Entries) /\ Entries \subseteq Command /\ Pending \subseteq Entries
      /\ Cardinality(Entries) \in Nat
  BY CacheTotal
<1>3. CASE finished # {}
  <2>1. finished \in SUBSET Entries
    OBVIOUS
  <2>2. /\ Victim \in finished
        /\ \A d \in finished \ {Victim} : Older(Victim, d)
    BY <1>1, <1>3, <2>1, OldestExists
  <2>3. tracked[Victim] # "pending" /\ Victim \in Command
    BY <1>2, <2>2
  <2>4. ~Queued(Victim) /\ ~Worked(Victim, {"run", "ack"})
    BY <2>3 DEF TrackInv
  <2>5. Entries \ {Victim} \subseteq since[Victim] \cup Pending
    BY <1>2, <2>2 DEF Pending, Older
  <2> QED BY <2>2, <2>4, <2>5
<1>4. CASE finished = {}
  <2>1. Entries = Pending
    BY <1>2, <1>4 DEF Pending
  <2>2. Entries # {}
    BY <1>2, DeviceAssumption, FS_EmptySet
  <2>3. Victim \in Entries /\ \A d \in Entries \ {Victim} : Older(Victim, d)
    BY <1>1, <1>4, <2>2, OldestExists
  <2>4. Waiting \subseteq Entries
    BY DEF Waiting, TrackInv, Entries
  <2>5. Waiting # Entries
    <3>1. Cardinality(Waiting) <= QueueLen + 1
      BY FewWait
    <3> QED BY <1>2, <3>1, DeviceAssumption
  <2>6. PICK o \in Entries : o \notin Waiting
    BY <2>4, <2>5
  <2>7. Abandoned(o)
    BY <1>2, <2>1, <2>6 DEF Abandoned, Waiting, Pending, Handled
  <2>8. ASSUME Queued(Victim) \/ Worked(Victim, {"run", "ack"}) PROVE FALSE
    <3>1. Older(o, Victim)
      BY <1>2, <2>3, <2>7, <2>8 DEF LineInv
    <3>2. o # Victim
      BY <1>2, <2>6, <2>8 DEF Waiting
    <3> QED BY <2>3, <3>1, <3>2 DEF AgeInv
  <2> QED BY <2>1, <2>3, <2>8
<1> QED BY <1>3, <1>4

-----------------------------------------------------------------------------
\* Writing to an entry leaves the others alone.
LEMMA Rewrites ==
    ASSUME TypeOK, NEW c \in Command, NEW s, tracked[c] # "empty", CacheSet(c, s)
    PROVE  /\ tracked'[c] = s
           /\ \A d \in Command : d # c => tracked'[d] = tracked[d]
<1>1. Evicted(c) = {}
  BY DEF Evicted
<1> QED BY <1>1 DEF CacheSet

\* Every write makes its command the newest.
LEMMA Renews ==
    ASSUME TypeOK, NEW c \in Command, NEW s, CacheSet(c, s)
    PROVE  /\ since'[c] = {}
           /\ \A d \in Command : d # c => since'[d] = since[d] \cup {c}
           /\ since' \in [Command -> SUBSET Command]
  BY DEF CacheSet, TypeOK

LEMMA AgeStep ==
    ASSUME TypeOK, AgeInv, NEW c \in Command, NEW s \in EntryState, CacheSet(c, s)
    PROVE  AgeInv'
<1>1. /\ since'[c] = {}
      /\ \A d \in Command : d # c => since'[d] = since[d] \cup {c}
  BY Renews
<1>2. Entries' \subseteq Entries \cup {c}
  <2>1. \A d \in Command : d # c => tracked'[d] \in {tracked[d], "empty"}
    BY DEF CacheSet
  <2> QED BY <2>1 DEF Entries
<1>3. Entries \subseteq Command
  BY DEF Entries
<1>4. \A d \in Command : d \notin since'[d]
  BY <1>1 DEF AgeInv
<1>5. \A d, e \in Entries' : d # e => Older(d, e)' \/ Older(e, d)'
  BY <1>1, <1>2, <1>3 DEF AgeInv, Older
<1>6. \A d, e \in Entries' : Older(d, e)' => ~Older(e, d)'
  BY <1>1, <1>2, <1>3 DEF AgeInv, Older
<1>7. \A d, e, f \in Entries' : Older(d, e)' /\ Older(e, f)' => Older(d, f)'
  BY <1>1, <1>2, <1>3 DEF AgeInv, Older
<1> QED BY <1>4, <1>5, <1>6, <1>7 DEF AgeInv

LEMMA Bigger ==
    ASSUME NEW A, NEW B \in SUBSET Command, A \subseteq B, Cardinality(A) >= CacheSize
    PROVE  Cardinality(B) >= CacheSize
<1>1. IsFiniteSet(B)
  BY DeviceAssumption, FS_Subset
<1>2. IsFiniteSet(A) /\ Cardinality(A) <= Cardinality(B)
  BY ONLY <1>1, A \subseteq B, FS_Subset
<1>3. Cardinality(A) \in Nat /\ Cardinality(B) \in Nat /\ CacheSize \in Nat
  BY <1>1, <1>2, DeviceAssumption, FS_CardinalityType
<1> QED BY <1>2, <1>3

LEMMA FinishWindow ==
    ASSUME TypeOK, WindowInv, NEW c \in Command, NEW s \in Verdict, tracked[c] # "empty",
           CacheSet(c, s), runs' = runs
    PROVE  WindowInv'
<1>1. SUFFICES ASSUME NEW d \in Command, runs[d] > 0, tracked'[d] = "empty"
      PROVE  Cardinality(since'[d] \cup Pending') >= CacheSize
  BY DEF WindowInv, WindowOf
<1>2. /\ tracked'[c] = s
      /\ \A e \in Command : e # c => tracked'[e] = tracked[e]
  BY Rewrites
<1>3. d # c /\ tracked[d] = "empty"
  BY <1>1, <1>2 DEF Verdict
<1>4. since'[d] = since[d] \cup {c} /\ since'[d] \in SUBSET Command
  BY <1>3, Renews
<1>5. Pending \subseteq Pending' \cup {c} /\ Pending' \subseteq Command
  BY <1>2 DEF Pending
<1>6. Cardinality(since[d] \cup Pending) >= CacheSize
  BY <1>1, <1>3 DEF WindowInv, WindowOf
<1>7. since[d] \cup Pending \subseteq since'[d] \cup Pending'
  BY <1>4, <1>5
<1> HIDE DEF Pending
<1> QED BY <1>4, <1>5, <1>6, <1>7, Bigger

LEMMA ClaimTracks ==
    ASSUME TypeOK, TrackInv, PlaceInv, AgeInv, LineInv, Claim
    PROVE  /\ rx.cmd \in Command /\ tracked[rx.cmd] = "empty" /\ tracked'[rx.cmd] = "pending"
           /\ \E V \in SUBSET Entries :
                 /\ \A d \in Command \ {rx.cmd} :
                       tracked'[d] = IF d \in V THEN "empty" ELSE tracked[d]
                 /\ \A v \in V :
                       /\ Cardinality(Entries) >= CacheSize
                       /\ ~Queued(v) /\ ~Worked(v, {"run", "ack"})
                       /\ V = {v} /\ Entries \ V \subseteq since[v] \cup Pending
                       /\ tracked[v] = "pending" => Entries = Pending
<1>1. rx.pc = "claim" /\ rx.cmd \in Command /\ CacheSet(rx.cmd, "pending")
  BY TaskFields DEF Claim, TypeOK
<1>2. tracked[rx.cmd] = "empty"
  BY <1>1 DEF TrackInv, Handled
<1>3. tracked'[rx.cmd] = "pending"
  BY <1>1 DEF CacheSet
<1>4. \A d \in Command \ {rx.cmd} :
         tracked'[d] = IF d \in Evicted(rx.cmd) THEN "empty" ELSE tracked[d]
  BY <1>1 DEF CacheSet
<1>5. CASE Cardinality(Entries) < CacheSize
  <2>1. Evicted(rx.cmd) = {}
    BY <1>5 DEF Evicted
  <2> QED BY <1>1, <1>2, <1>3, <1>4, <2>1
<1>6. CASE ~(Cardinality(Entries) < CacheSize)
  <2>1. Evicted(rx.cmd) = {Victim}
    BY <1>2, <1>6 DEF Evicted
  <2>2. Cardinality(Entries) >= CacheSize
    BY <1>6, CacheTotal, DeviceAssumption
  <2>3. /\ Victim \in Entries
        /\ ~Queued(Victim) /\ ~Worked(Victim, {"run", "ack"})
        /\ Entries \ {Victim} \subseteq since[Victim] \cup Pending
        /\ tracked[Victim] = "pending" => Entries = Pending
    BY <1>1, <2>2, DeviceAssumption, Evicts
  <2> QED BY <1>1, <1>2, <1>3, <1>4, <2>1, <2>2, <2>3
<1> QED BY <1>5, <1>6

LEMMA ClaimWindow ==
    ASSUME TypeOK, Held, Claim
    PROVE  WindowInv'
<1> DEFINE c == rx.cmd
<1>1. /\ c \in Command /\ tracked[c] = "empty" /\ tracked'[c] = "pending"
      /\ CacheSet(c, "pending") /\ runs' = runs
  BY ClaimTracks DEF Claim, Held, observerVars
<1>2. PICK V \in SUBSET Entries :
          /\ \A d \in Command \ {c} : tracked'[d] = IF d \in V THEN "empty" ELSE tracked[d]
          /\ \A v \in V :
                /\ Cardinality(Entries) >= CacheSize
                /\ V = {v} /\ Entries \ V \subseteq since[v] \cup Pending
                /\ tracked[v] = "pending" => Entries = Pending
  BY Zenon, ClaimTracks DEF Held
<1>3. SUFFICES ASSUME NEW d \in Command, runs[d] > 0, tracked'[d] = "empty"
      PROVE  Cardinality(since'[d] \cup Pending') >= CacheSize
  BY <1>1 DEF WindowInv, WindowOf
<1>4. d # c
  BY <1>1, <1>3
<1>5. since'[d] = since[d] \cup {c} /\ since'[d] \in SUBSET Command
  BY <1>1, <1>4, Renews
<1>6. IsFiniteSet(Entries) /\ Cardinality(Entries) \in Nat /\ Entries \subseteq Command
      /\ c \notin Entries /\ Pending \subseteq Entries
  BY <1>1, CacheTotal DEF Entries
<1>7. Pending' \subseteq Command /\ c \in Pending' /\ Pending \ V \subseteq Pending'
  BY <1>1, <1>2, <1>4 DEF Pending
<1>8. ASSUME NEW v \in V, (Entries \ V) \cup {c} \subseteq since'[d] \cup Pending'
      PROVE  Cardinality(since'[d] \cup Pending') >= CacheSize
  <2>1. V = {v} /\ v \in Entries /\ Cardinality(Entries) >= CacheSize
    BY <1>2, <1>8
  <2>2. IsFiniteSet(Entries \ {v}) /\ Cardinality(Entries \ {v}) = Cardinality(Entries) - 1
    BY ONLY <1>6, <2>1, FS_RemoveElement
  <2>3. Cardinality((Entries \ {v}) \cup {c}) = Cardinality(Entries \ {v}) + 1
    BY ONLY <1>6, <2>2, FS_AddElement
  <2>4. Cardinality((Entries \ V) \cup {c}) >= CacheSize
    BY <1>6, <2>1, <2>2, <2>3
  <2> QED BY <1>5, <1>7, <1>8, <2>4, Bigger
<1>9. CASE d \in V
  <2>1. V = {d} /\ Entries \ V \subseteq since[d] \cup Pending
    BY <1>2, <1>9
  <2>2. (Entries \ V) \cup {c} \subseteq since'[d] \cup Pending'
    BY <1>5, <1>7, <2>1
  <2> QED BY <1>8, <1>9, <2>2
<1>10. CASE d \notin V
  <2>1. tracked[d] = "empty"
    BY <1>2, <1>3, <1>4, <1>10
  <2>2. Cardinality(since[d] \cup Pending) >= CacheSize
    BY <1>3, <2>1 DEF Held, WindowInv, WindowOf
  <2>3. CASE Pending \cap V = {}
    <3>1. since[d] \cup Pending \subseteq since'[d] \cup Pending'
      BY <1>5, <1>7, <2>3
    <3> QED BY <1>5, <1>7, <2>2, <3>1, Bigger
  <2>4. CASE Pending \cap V # {}
    <3>1. PICK v \in V : v \in Pending
      BY <2>4
    <3>2. V = {v} /\ Entries = Pending
      BY <1>2, <3>1 DEF Pending
    <3>3. (Entries \ V) \cup {c} \subseteq since'[d] \cup Pending'
      BY <1>7, <3>2
    <3> QED BY <1>8, <3>1, <3>3
  <2> QED BY <2>3, <2>4
<1> QED BY <1>9, <1>10

-----------------------------------------------------------------------------
LEMMA ClaimHeld ==
    ASSUME TypeOK, Held, Claim
    PROVE  Held'
<1> DEFINE c == rx.cmd
<1> USE DEF Handled, Worked
<1>1. /\ c \in Command /\ tracked[c] = "empty" /\ tracked'[c] = "pending"
      /\ rx.pc = "claim" /\ CacheSet(c, "pending") /\ UNCHANGED <<queue, worker>>
  BY ClaimTracks DEF Claim, Held
<1>2. rx'.pc = "dispatch" /\ rx'.cmd = c
  BY <1>1, TaskFields DEF Claim, TypeOK
<1>3. \A d \in Command \ {c} :
         \/ tracked'[d] = tracked[d]
         \/ tracked'[d] = "empty" /\ ~Queued(d) /\ ~Worked(d, {"run", "ack"})
  BY ClaimTracks DEF Held
<1>4. ~Queued(c) /\ ~Worked(c, {"run", "ack"})
  BY <1>1 DEF Held, TrackInv
<1>5. \A d \in Command : Queued(d)' <=> Queued(d)
  BY <1>1 DEF Queued
<1>6. \A d, e \in Command : d # c => (e \in since[d] => e \in since'[d]) /\ c \in since'[d]
  <2>1. \A d \in Command : d # c => since'[d] = since[d] \cup {c}
    BY <1>1, Renews
  <2> QED BY <2>1
<1>7. TrackInv'
  BY <1>1, <1>2, <1>3, <1>4, <1>5 DEF Held, TrackInv
<1>8. PlaceInv'
  BY <1>1, <1>2, <1>4, <1>5 DEF Held, PlaceInv
<1>9. AgeInv'
  BY <1>1, AgeStep DEF Held, EntryState
<1>10. LineInv'
  <2>1. \A d \in Command : Abandoned(d)' => Abandoned(d) /\ d # c
    BY <1>1, <1>2, <1>3, <1>5 DEF Abandoned
  <2>2. \A i \in 1 .. Len(queue) : queue[i] \in Command /\ queue[i] # c
    BY <1>4, QueueElements DEF Queued
  <2>3. ASSUME NEW i \in 1 .. Len(queue'), NEW j \in 1 .. Len(queue'), i < j
        PROVE  Older(queue[i], queue[j])'
    <3>1. Older(queue[i], queue[j])
      BY <1>1, <2>3 DEF Held, LineInv
    <3> QED BY <1>1, <1>6, <2>2, <2>3, <3>1 DEF Older
  <2>4. ASSUME NEW d \in Command, NEW e \in Command
        PROVE  /\ Handled(e, {"dispatch"})' /\ tracked'[d] = "pending" /\ d # e => Older(d, e)'
               /\ (Worked(d, {"run", "ack"})' \/ Abandoned(d)') /\ Queued(e)' => Older(d, e)'
               /\ Abandoned(d)' /\ Worked(e, {"run", "ack"})' => Older(d, e)'
    <3>1. Handled(e, {"dispatch"})' => e = c
      BY <1>2
    <3>2. (Worked(d, {"run", "ack"}) \/ Abandoned(d)) /\ Queued(e) => e \in since[d]
      BY DEF Held, LineInv, Older
    <3>3. Abandoned(d) /\ Worked(e, {"run", "ack"}) => e \in since[d]
      BY DEF Held, LineInv, Older
    <3> QED BY <1>1, <1>4, <1>5, <1>6, <2>1, <3>1, <3>2, <3>3 DEF Older
  <2> QED BY <1>1, <2>3, <2>4 DEF LineInv, Older
<1>11. WindowInv'
  BY ClaimWindow
<1> QED BY <1>7, <1>8, <1>9, <1>10, <1>11 DEF Held

\* A finished task writes its entry, which neither waits nor runs any more.
LEMMA FinishAge ==
    ASSUME TypeOK, AgeInv, WindowInv, NEW c \in Command, NEW s \in Verdict,
           tracked[c] # "empty", CacheSet(c, s), runs' = runs
    PROVE  /\ AgeInv' /\ WindowInv'
           /\ tracked'[c] = s /\ \A d \in Command : d # c => tracked'[d] = tracked[d]
           /\ \A d, e \in Command : d # c => (Older(d, e) => Older(d, e)')
<1>1. AgeInv' /\ WindowInv'
  BY AgeStep, FinishWindow DEF EntryState, Verdict
<1> QED BY <1>1, Rewrites, Renews DEF Older

LEMMA AckRxHeld ==
    ASSUME TypeOK, Held, AckRx
    PROVE  Held'
<1> DEFINE c == rx.cmd
<1> USE DEF Handled, Worked
<1>1. /\ c \in Command /\ rx.status \in Verdict /\ rx.pc = "ack"
      /\ CacheSet(c, rx.status) /\ UNCHANGED <<queue, worker, runs>>
  BY TaskFields DEF AckRx, TypeOK, observerVars
<1>2. rx'.pc = "reply" /\ rx'.cmd = c
  BY <1>1, TaskFields DEF AckRx, TypeOK
<1>3. tracked[c] # "empty"
  BY <1>1 DEF Held, TrackInv
<1>4. /\ AgeInv' /\ WindowInv'
      /\ tracked'[c] = rx.status /\ \A d \in Command : d # c => tracked'[d] = tracked[d]
      /\ \A d, e \in Command : d # c => (Older(d, e) => Older(d, e)')
  BY <1>1, <1>3, FinishAge DEF Held
<1>5. ~Queued(c) /\ ~Worked(c, {"run", "ack"})
  <2>1. CASE tracked[c] = "pending"
    BY <1>1, <2>1 DEF Held, PlaceInv
  <2>2. CASE tracked[c] # "pending"
    BY <1>1, <2>2 DEF Held, TrackInv
  <2> QED BY <2>1, <2>2
<1>6. \A d \in Command : Queued(d)' <=> Queued(d)
  BY <1>1 DEF Queued
<1>7. TrackInv'
  BY <1>1, <1>2, <1>4, <1>5, <1>6 DEF Held, TrackInv
<1>8. PlaceInv'
  BY <1>1, <1>2, <1>6 DEF Held, PlaceInv
<1>9. LineInv'
  <2>1. \A d \in Command : Abandoned(d)' => Abandoned(d) /\ d # c
    BY <1>1, <1>2, <1>4, <1>6 DEF Abandoned, Verdict
  <2>2. \A i \in 1 .. Len(queue) : queue[i] \in Command /\ queue[i] # c
    BY <1>5, QueueElements DEF Queued
  <2>3. ASSUME NEW i \in 1 .. Len(queue'), NEW j \in 1 .. Len(queue'), i < j
        PROVE  Older(queue[i], queue[j])'
    <3>1. Older(queue[i], queue[j])
      BY <1>1, <2>3 DEF Held, LineInv
    <3> QED BY <1>1, <1>4, <2>2, <2>3, <3>1 DEF Older
  <2>4. ASSUME NEW d \in Command, NEW e \in Command
        PROVE  /\ (Worked(d, {"run", "ack"})' \/ Abandoned(d)') /\ Queued(e)' => Older(d, e)'
               /\ Abandoned(d)' /\ Worked(e, {"run", "ack"})' => Older(d, e)'
    <3>1. /\ (Worked(d, {"run", "ack"}) \/ Abandoned(d)) /\ Queued(e) => Older(d, e)
          /\ Abandoned(d) /\ Worked(e, {"run", "ack"}) => Older(d, e)
      BY DEF Held, LineInv
    <3> QED BY <1>1, <1>4, <1>5, <1>6, <2>1, <3>1
  <2>5. \A d \in Command : ~Handled(d, {"dispatch"})'
    BY <1>2
  <2> QED BY <1>1, <2>3, <2>4, <2>5 DEF LineInv, Older
<1> QED BY <1>4, <1>7, <1>8, <1>9 DEF Held

\* What only the event handler does: the cache and the task stay as they are.
LEMMA AnswersHeld ==
    ASSUME TypeOK, Held, Execute \/ Refuse \/ QueueFull \/ ReplyRx
    PROVE  Held'
<1> USE DEF Handled, Worked
<1>0. rx.cmd \in Command
      /\ rx \in [pc : {"claim", "dispatch", "ack", "reply"}, cmd : Command, status : Verdict]
  BY TaskFields DEF Execute, Refuse, QueueFull, ReplyRx, TypeOK
<1>1. /\ rx.cmd \in Command /\ UNCHANGED <<tracked, since, queue, worker>>
      /\ \/ rx.pc = "dispatch" /\ rx'.pc = "ack" /\ rx'.cmd = rx.cmd
         \/ rx.pc = "reply" /\ rx'.pc = "idle"
  <2>1. UNCHANGED <<tracked, since, queue, worker>>
    BY DEF Execute, Refuse, QueueFull, ReplyRx, cacheVars
  <2>2. CASE ReplyRx
    BY <1>0, <2>1, <2>2 DEF ReplyRx, Idle
  <2>3. CASE Execute \/ Refuse \/ QueueFull
    BY <1>0, <2>1, <2>3 DEF Execute, Refuse, QueueFull
  <2> QED BY <2>2, <2>3
<1>2. \A d \in Command : Queued(d)' <=> Queued(d)
  BY <1>1 DEF Queued
<1>3. TrackInv' /\ PlaceInv'
  BY <1>1, <1>2 DEF Held, TrackInv, PlaceInv
<1>4. AgeInv'
  BY <1>1 DEF Held, AgeInv, Entries, Older
<1>5. LineInv'
  <2>1. \A d \in Command : Abandoned(d)' => Abandoned(d)
    BY <1>1, <1>2 DEF Abandoned
  <2>2. \A d \in Command : ~Handled(d, {"dispatch"})'
    BY <1>1
  <2> QED BY <1>1, <1>2, <2>1, <2>2 DEF Held, LineInv, Older
<1>6. WindowInv'
  <2>1. \A d \in Command : runs'[d] > 0 /\ tracked[d] = "empty" => runs[d] > 0
    <3>1. CASE rx.pc = "reply"
      BY <3>1 DEF Execute, Refuse, QueueFull, ReplyRx
    <3>2. CASE rx.pc = "dispatch"
      <4>1. tracked[rx.cmd] = "pending"
        BY <1>1, <3>2 DEF Held, TrackInv
      <4>2. runs' = runs \/ Run(rx.cmd)
        BY DEF Execute, Refuse, QueueFull, ReplyRx, observerVars
      <4> QED BY <1>1, <4>1, <4>2 DEF Run, TypeOK
    <3> QED BY <1>1, <3>1, <3>2
  <2> QED BY <1>1, <2>1 DEF Held, WindowInv, WindowOf, Pending
<1> QED BY <1>3, <1>4, <1>5, <1>6 DEF Held

LEMMA DeferHeld ==
    ASSUME TypeOK, Held, Defer
    PROVE  Held'
<1> DEFINE c == rx.cmd
<1> USE DEF Handled, Worked
<1>1. /\ c \in Command /\ rx.pc = "dispatch" /\ rx'.pc = "idle"
      /\ queue' = Append(queue, c) /\ UNCHANGED <<tracked, since, worker, runs>>
  BY TaskFields DEF Defer, TypeOK, Idle, cacheVars, observerVars
<1>2. /\ Len(queue') = Len(queue) + 1 /\ Len(queue) \in Nat
      /\ \A i \in 1 .. Len(queue) : queue'[i] = queue[i]
      /\ queue'[Len(queue) + 1] = c
  BY <1>1 DEF TypeOK
<1>3. \A d \in Command : Queued(d)' <=> Queued(d) \/ d = c
  BY <1>2 DEF Queued
<1>4. tracked[c] = "pending" /\ ~Queued(c) /\ ~Worked(c, {"run", "ack"})
  BY <1>1 DEF Held, TrackInv, PlaceInv
<1>5. TrackInv'
  BY <1>1, <1>3, <1>4 DEF Held, TrackInv
<1>6. PlaceInv'
  <2>1. \A i, j \in 1 .. Len(queue') : queue'[i] = queue'[j] => i = j
    BY <1>2, <1>4 DEF Held, PlaceInv, Queued
  <2>2. \A d \in Command : Worked(d, {"run", "ack"})' => ~Queued(d)'
    BY <1>1, <1>3, <1>4 DEF Held, PlaceInv
  <2> QED BY <1>1, <2>1, <2>2 DEF PlaceInv
<1>7. AgeInv' /\ WindowInv'
  BY <1>1 DEF Held, AgeInv, Entries, Older, WindowInv, WindowOf, Pending
<1>8. LineInv'
  <2>1. \A d \in Command : Abandoned(d)' => Abandoned(d) /\ d # c
    BY <1>1, <1>3 DEF Abandoned
  <2>2. \A d \in Command : tracked[d] = "pending" /\ d # c => c \in since[d]
    BY <1>1 DEF Held, LineInv, Older
  <2>3. ASSUME NEW i \in 1 .. Len(queue'), NEW j \in 1 .. Len(queue'), i < j
        PROVE  Older(queue[i], queue[j])'
    <3>1. i \in 1 .. Len(queue) /\ queue'[i] = queue[i]
      BY <1>2, <2>3
    <3>2. CASE j \in 1 .. Len(queue)
      BY <1>1, <1>2, <2>3, <3>1, <3>2 DEF Held, LineInv, Older
    <3>3. CASE j = Len(queue) + 1
      <4>1. queue[i] \in Command /\ tracked[queue[i]] = "pending" /\ queue[i] # c
        BY <1>4, <3>1, QueueElements DEF Held, TrackInv, Queued
      <4> QED BY <1>1, <1>2, <2>2, <3>1, <3>3, <4>1 DEF Older
    <3> QED BY <1>2, <2>3, <3>2, <3>3
  <2>4. ASSUME NEW d \in Command, NEW e \in Command
        PROVE  /\ (Worked(d, {"run", "ack"})' \/ Abandoned(d)') /\ Queued(e)' => Older(d, e)'
               /\ Abandoned(d)' /\ Worked(e, {"run", "ack"})' => Older(d, e)'
    <3>1. /\ (Worked(d, {"run", "ack"}) \/ Abandoned(d)) /\ Queued(e) => e \in since[d]
          /\ Abandoned(d) /\ Worked(e, {"run", "ack"}) => e \in since[d]
      BY DEF Held, LineInv, Older
    <3>2. Worked(d, {"run", "ack"}) => tracked[d] = "pending" /\ d # c
      BY <1>4 DEF Held, TrackInv
    <3>3. Abandoned(d)' => tracked[d] = "pending" /\ d # c
      BY <2>1 DEF Abandoned
    <3> QED BY <1>1, <1>3, <2>1, <2>2, <3>1, <3>2, <3>3 DEF Older
  <2>5. \A d \in Command : ~Handled(d, {"dispatch"})'
    BY <1>1
  <2> QED BY <2>3, <2>4, <2>5 DEF LineInv, Older
<1> QED BY <1>5, <1>6, <1>7, <1>8 DEF Held

LEMMA ReceiveHeld ==
    ASSUME TypeOK, Held, NEW c \in Command, Receive(c)
    PROVE  Held'
<1> USE DEF Handled, Worked
<1>1. /\ rx.pc = "idle" /\ UNCHANGED <<tracked, since, queue, worker, runs>>
      /\ \/ rx'.pc = "idle"
         \/ rx'.pc = "claim" /\ rx'.cmd = c /\ tracked[c] = "empty"
         \/ rx'.pc = "ack" /\ rx'.cmd = c /\ tracked[c] \notin {"empty", "pending"}
  BY DEF Receive, Idle, cacheVars, observerVars
<1>2. \A d \in Command : Queued(d)' <=> Queued(d)
  BY <1>1 DEF Queued
<1>3. TrackInv' /\ PlaceInv'
  BY <1>1, <1>2 DEF Held, TrackInv, PlaceInv
<1>4. AgeInv' /\ WindowInv'
  BY <1>1 DEF Held, AgeInv, Entries, Older, WindowInv, WindowOf, Pending
<1>5. LineInv'
  <2>1. \A d \in Command : Abandoned(d)' => Abandoned(d)
    BY <1>1, <1>2 DEF Abandoned
  <2>2. \A d \in Command : ~Handled(d, {"dispatch"})'
    BY <1>1
  <2> QED BY <1>1, <1>2, <2>1, <2>2 DEF Held, LineInv, Older
<1> QED BY <1>3, <1>4, <1>5 DEF Held

-----------------------------------------------------------------------------
LEMMA TakeHeld ==
    ASSUME TypeOK, Held, Take
    PROVE  Held'
<1> USE DEF Handled, Worked
<1>1. PICK h : h = Head(queue)
  OBVIOUS
<1>2. /\ worker.pc = "idle" /\ queue' = Tail(queue) /\ Run(h)
      /\ worker'.pc = "run" /\ worker'.cmd = h
      /\ UNCHANGED <<tracked, since, rx>>
  BY <1>1 DEF Take, cacheVars
<1>3. /\ Len(queue) \in Nat /\ Len(queue') = Len(queue) - 1 /\ 1 \in 1 .. Len(queue)
      /\ \A i \in 1 .. Len(queue') : i + 1 \in 1 .. Len(queue) /\ queue'[i] = queue[i + 1]
      /\ h = queue[1]
  BY <1>1 DEF Take, TypeOK
<1>4. h \in Command /\ Queued(h)
  BY <1>3, QueueElements DEF Queued
<1>5. \A i \in 1 .. Len(queue') : queue'[i] # h
  <2>1. ASSUME NEW i \in 1 .. Len(queue'), queue'[i] = h PROVE FALSE
    <3>1. queue[i + 1] = queue[1] /\ i + 1 \in 1 .. Len(queue) /\ i + 1 # 1
      BY <1>3, <2>1
    <3> QED BY <1>3, <3>1 DEF Held, PlaceInv
  <2> QED BY <2>1
<1>6. ~Queued(h)' /\ \A d \in Command : Queued(d)' => Queued(d)
  BY <1>3, <1>5 DEF Queued
<1>7. \A d \in Command : Queued(d) => Queued(d)' \/ d = h
  <2>1. SUFFICES ASSUME NEW i \in 1 .. Len(queue), queue[i] # h
        PROVE  \E j \in 1 .. Len(queue') : queue'[j] = queue[i]
    BY DEF Queued
  <2>2. i - 1 \in 1 .. Len(queue') /\ queue'[i - 1] = queue[i]
    BY <1>3, <2>1
  <2> QED BY <2>2
<1>8. /\ tracked[h] = "pending"
      /\ Handled(h, {"dispatch", "ack"}) => FALSE
  BY <1>4 DEF Held, TrackInv, PlaceInv
<1>9. TrackInv'
  BY <1>2, <1>6, <1>8 DEF Held, TrackInv
<1>10. PlaceInv'
  <2>1. \A i, j \in 1 .. Len(queue') : queue'[i] = queue'[j] => i = j
    BY <1>3 DEF Held, PlaceInv
  <2>2. \A d \in Command : Worked(d, {"run", "ack"})' => ~Queued(d)'
    BY <1>2, <1>6
  <2> QED BY <1>2, <1>6, <1>8, <2>1, <2>2 DEF Held, PlaceInv
<1>11. AgeInv'
  BY <1>2 DEF Held, AgeInv, Entries, Older
<1>12. LineInv'
  <2>1. \A d \in Command : Abandoned(d)' => Abandoned(d)
    BY <1>2, <1>7, <1>8 DEF Abandoned
  <2>2. ASSUME NEW i \in 1 .. Len(queue'), NEW j \in 1 .. Len(queue'), i < j
        PROVE  queue'[j] \in since[queue'[i]]
    <3>1. /\ i + 1 \in 1 .. Len(queue) /\ j + 1 \in 1 .. Len(queue) /\ i + 1 < j + 1
          /\ queue'[i] = queue[i + 1] /\ queue'[j] = queue[j + 1]
      BY <1>3, <2>2
    <3> QED BY <3>1 DEF Held, LineInv, Older
  <2>3. \A d \in Command : Queued(d)' => d \in since[h]
    <3>1. SUFFICES ASSUME NEW i \in 1 .. Len(queue') PROVE queue'[i] \in since[h]
      BY DEF Queued
    <3>2. i + 1 \in 1 .. Len(queue) /\ queue'[i] = queue[i + 1] /\ 1 < i + 1
      BY <1>3, <3>1
    <3> QED BY <1>3, <3>2 DEF Held, LineInv, Older
  <2>4. ASSUME NEW d \in Command, NEW e \in Command
        PROVE  /\ Handled(e, {"dispatch"})' /\ tracked'[d] = "pending" /\ d # e => Older(d, e)'
               /\ (Worked(d, {"run", "ack"})' \/ Abandoned(d)') /\ Queued(e)' => Older(d, e)'
               /\ Abandoned(d)' /\ Worked(e, {"run", "ack"})' => Older(d, e)'
    <3>1. /\ Handled(e, {"dispatch"}) /\ tracked[d] = "pending" /\ d # e => e \in since[d]
          /\ Abandoned(d) /\ Queued(e) => e \in since[d]
          /\ Abandoned(d) => (Queued(h) => h \in since[d])
      BY <1>4 DEF Held, LineInv, Older
    <3> QED BY <1>2, <1>4, <1>6, <2>1, <2>3, <3>1 DEF Older
  <2> QED BY <1>2, <2>2, <2>4 DEF LineInv, Older
<1>13. WindowInv'
  <2>1. \A d \in Command : runs'[d] > 0 /\ tracked[d] = "empty" => runs[d] > 0
    BY <1>2, <1>4, <1>8 DEF Run, TypeOK
  <2> QED BY <1>2, <2>1 DEF Held, WindowInv, WindowOf, Pending
<1> QED BY <1>9, <1>10, <1>11, <1>12, <1>13 DEF Held

\* The task answers, or a reset has begun and the command is abandoned.
LEMMA CalibrateHeld ==
    ASSUME TypeOK, Held, Calibrate
    PROVE  Held'
<1> USE DEF Handled, Worked
<1>1. worker.cmd \in Command
      /\ worker \in [pc : {"run", "ack", "reply"}, cmd : Command, status : Verdict]
  BY TaskFields DEF Calibrate, TypeOK
<1>2. /\ worker.pc = "run" /\ UNCHANGED <<rx, tracked, since, queue, runs>>
      /\ worker'.pc = "idle" \/ (worker'.pc = "ack" /\ worker'.cmd = worker.cmd)
  BY <1>1 DEF Calibrate, Idle, cacheVars, observerVars
<1>3. \A c \in Command : Queued(c)' <=> Queued(c)
  BY <1>2 DEF Queued
<1>4. TrackInv' /\ PlaceInv'
  BY <1>2, <1>3 DEF Held, TrackInv, PlaceInv
<1>5. AgeInv' /\ WindowInv'
  BY <1>2 DEF Held, AgeInv, Entries, Older, WindowInv, WindowOf, Pending
<1>6. LineInv'
  <2>1. \A d \in Command : Abandoned(d)' => Abandoned(d) \/ Worked(d, {"run", "ack"})
    BY <1>2, <1>3 DEF Abandoned
  <2>2. \A d \in Command : Worked(d, {"run", "ack"})' => Worked(d, {"run", "ack"})
    BY <1>2
  <2>3. \A d, e \in Command :
           Worked(e, {"run", "ack"})' => ~(Abandoned(d)' /\ Worked(d, {"run", "ack"}))
    BY <1>2 DEF Abandoned
  <2>4. ASSUME NEW d \in Command, NEW e \in Command
        PROVE  /\ Handled(e, {"dispatch"})' /\ tracked'[d] = "pending" /\ d # e => Older(d, e)'
               /\ (Worked(d, {"run", "ack"})' \/ Abandoned(d)') /\ Queued(e)' => Older(d, e)'
               /\ Abandoned(d)' /\ Worked(e, {"run", "ack"})' => Older(d, e)'
    <3>1. /\ Handled(e, {"dispatch"}) /\ tracked[d] = "pending" /\ d # e => e \in since[d]
          /\ (Worked(d, {"run", "ack"}) \/ Abandoned(d)) /\ Queued(e) => e \in since[d]
          /\ Abandoned(d) /\ Worked(e, {"run", "ack"}) => e \in since[d]
      BY DEF Held, LineInv, Older
    <3>2. Handled(e, {"dispatch"})' <=> Handled(e, {"dispatch"})
      BY <1>2
    <3> HIDE DEF Handled, Worked
    <3> QED BY <1>2, <1>3, <2>1, <2>2, <2>3, <3>1, <3>2 DEF Older
  <2> QED BY <1>2, <2>4 DEF Held, LineInv, Older
<1> QED BY <1>4, <1>5, <1>6 DEF Held

LEMMA AckWorkerHeld ==
    ASSUME TypeOK, Held, AckWorker
    PROVE  Held'
<1> DEFINE c == worker.cmd
<1> USE DEF Handled, Worked
<1>1. /\ c \in Command /\ worker.status \in Verdict /\ worker.pc = "ack"
      /\ CacheSet(c, worker.status) /\ UNCHANGED <<queue, rx, runs>>
  BY TaskFields DEF AckWorker, TypeOK, observerVars
<1>2. worker'.pc = "reply" /\ worker'.cmd = c
  BY <1>1, TaskFields DEF AckWorker, TypeOK
<1>3. tracked[c] = "pending" /\ ~Queued(c)
  BY <1>1 DEF Held, TrackInv, PlaceInv
<1>4. /\ AgeInv' /\ WindowInv'
      /\ tracked'[c] = worker.status
      /\ \A d \in Command : d # c => tracked'[d] = tracked[d]
      /\ \A d, e \in Command : d # c => (Older(d, e) => Older(d, e)')
  BY <1>1, <1>3, FinishAge DEF Held
<1>5. ~Handled(c, {"claim", "dispatch", "ack"})
  BY <1>1, <1>3 DEF Held, TrackInv, PlaceInv
<1>6. \A d \in Command : Queued(d)' <=> Queued(d)
  BY <1>1 DEF Queued
<1>7. TrackInv'
  BY <1>1, <1>2, <1>3, <1>4, <1>5, <1>6 DEF Held, TrackInv
<1>8. PlaceInv'
  BY <1>1, <1>2, <1>4, <1>5, <1>6 DEF Held, PlaceInv
<1>9. LineInv'
  <2>1. \A d \in Command : tracked'[d] = "pending" => tracked[d] = "pending" /\ d # c
    BY <1>1, <1>4 DEF Verdict
  <2>2. \A d \in Command : Abandoned(d)' => Abandoned(d) /\ d # c
    BY <1>1, <1>2, <1>6, <2>1 DEF Abandoned
  <2>3. \A i \in 1 .. Len(queue) : queue[i] \in Command /\ queue[i] # c
    BY <1>3, QueueElements DEF Queued
  <2>4. ASSUME NEW i \in 1 .. Len(queue'), NEW j \in 1 .. Len(queue'), i < j
        PROVE  Older(queue[i], queue[j])'
    <3>1. Older(queue[i], queue[j])
      BY <1>1, <2>4 DEF Held, LineInv
    <3> QED BY <1>1, <1>4, <2>3, <2>4, <3>1 DEF Older
  <2>5. ASSUME NEW d \in Command, NEW e \in Command
        PROVE  /\ Handled(e, {"dispatch"})' /\ tracked'[d] = "pending" /\ d # e => Older(d, e)'
               /\ Abandoned(d)' /\ Queued(e)' => Older(d, e)'
    <3>1. /\ Handled(e, {"dispatch"}) /\ tracked[d] = "pending" /\ d # e => Older(d, e)
          /\ Abandoned(d) /\ Queued(e) => Older(d, e)
      BY DEF Held, LineInv
    <3>2. Handled(e, {"dispatch"})' <=> Handled(e, {"dispatch"})
      BY <1>1
    <3> HIDE DEF Handled, Worked
    <3> QED BY <1>4, <1>6, <2>1, <2>2, <3>1, <3>2
  <2>6. \A d \in Command : ~Worked(d, {"run", "ack"})'
    BY <1>2
  <2> QED BY <1>1, <2>4, <2>5, <2>6 DEF LineInv, Older
<1> QED BY <1>4, <1>7, <1>8, <1>9 DEF Held

LEMMA ReplyWorkerHeld ==
    ASSUME TypeOK, Held, ReplyWorker
    PROVE  Held'
<1> USE DEF Handled, Worked
<1>1. /\ worker.pc = "reply" /\ worker'.pc = "idle"
      /\ UNCHANGED <<rx, tracked, since, queue, runs>>
  BY DEF ReplyWorker, Idle, cacheVars
<1>2. \A c \in Command : Queued(c)' <=> Queued(c)
  BY <1>1 DEF Queued
<1>3. TrackInv' /\ PlaceInv'
  BY <1>1, <1>2 DEF Held, TrackInv, PlaceInv
<1>4. AgeInv' /\ WindowInv'
  BY <1>1 DEF Held, AgeInv, Entries, Older, WindowInv, WindowOf, Pending
<1>5. LineInv'
  <2>1. \A d \in Command : Abandoned(d)' => Abandoned(d)
    BY <1>1, <1>2 DEF Abandoned
  <2>2. \A d \in Command : ~Worked(d, {"run", "ack"})'
    BY <1>1
  <2> QED BY <1>1, <1>2, <2>1, <2>2 DEF Held, LineInv, Older
<1> QED BY <1>3, <1>4, <1>5 DEF Held

LEMMA BootHeld == Booted /\ (\A c \in Command : since[c] = {}) => Held
<1> SUFFICES ASSUME Booted, \A c \in Command : since[c] = {} PROVE Held
  OBVIOUS
<1>1. TrackInv /\ PlaceInv
  BY DEF Booted, TrackInv, PlaceInv, Handled, Worked, Queued
<1>2. Entries = {}
  BY DEF Booted, Entries
<1>3. AgeInv
  BY <1>2 DEF AgeInv
<1>4. LineInv
  BY DEF Booted, LineInv, Handled, Worked, Queued, Abandoned
<1>5. WindowInv
  BY DEF Booted, WindowInv, WindowOf
<1> QED BY <1>1, <1>3, <1>4, <1>5 DEF Held

LEMMA RebootHeld == Booted' /\ (\A c \in Command : since'[c] = {}) => Held'
<1>1. (Booted /\ (\A c \in Command : since[c] = {}) => Held)'
  BY BootHeld, PTL
<1> QED BY <1>1

LEMMA CacheStep ==
    ASSUME CacheInv, [Next]_vars
    PROVE  CacheInv'
<1>1. TypeOK /\ TypeOK'
  BY TypeStep DEF CacheInv
<1>2. SUFFICES ASSUME ClientUp' PROVE Held'
  BY <1>1 DEF CacheInv
<1>3. CASE ResetRestarts \/ PowerLoss
  <2>1. Booted' /\ \A c \in Command : since'[c] = {}
    BY <1>3 DEF ResetRestarts, PowerLoss, Reboot, Booted, Idle
  <2> QED BY <2>1, RebootHeld
<1>4. CASE ResetStep \/ ResetFails
  BY <1>2, <1>4 DEF ResetStep, DetachClient, ClearCache, StopClient, ResetFails, ClientUp
<1>5. ASSUME NEW c \in Command, Receive(c) PROVE Held'
  <2>1. ClientUp
    BY <1>2, <1>5 DEF Receive, ClientUp
  <2> QED BY <1>1, <1>5, <2>1, ReceiveHeld DEF CacheInv
<1>6. CASE RxStep
  <2>1. ClientUp
    BY <1>2, <1>6 DEF RxStep, Claim, Execute, Refuse, Defer, QueueFull, AckRx, ReplyRx, ClientUp
  <2> QED BY <1>1, <1>6, <2>1, ClaimHeld, AckRxHeld, AnswersHeld, DeferHeld DEF CacheInv, RxStep
<1>7. CASE WorkerStep
  <2>1. ClientUp
    BY <1>2, <1>7 DEF WorkerStep, Take, Calibrate, AckWorker, ReplyWorker, ClientUp
  <2> QED BY <1>1, <1>7, <2>1, TakeHeld, CalibrateHeld, AckWorkerHeld, ReplyWorkerHeld
       DEF CacheInv, WorkerStep
<1>8. CASE Connect \/ Disconnect \/ BeginReset \/ UNCHANGED vars
  <2>1. ClientUp
    BY <1>2, <1>8 DEF Connect, Disconnect, BeginReset, vars, ClientUp
  <2>2. UNCHANGED <<rx, tracked, since, queue, worker, runs>>
    BY <1>8 DEF Connect, Disconnect, BeginReset, vars, cacheVars, observerVars
  <2>3. Held
    BY <2>1 DEF CacheInv
  <2>4. TrackInv' /\ PlaceInv'
    BY <2>2, <2>3 DEF Held, TrackInv, PlaceInv, Handled, Worked, Queued
  <2>5. AgeInv' /\ WindowInv'
    BY <2>2, <2>3 DEF Held, AgeInv, Entries, Older, WindowInv, WindowOf, Pending
  <2>6. LineInv'
    BY <2>2, <2>3 DEF Held, LineInv, Abandoned, Handled, Worked, Queued, Older
  <2> QED BY <2>4, <2>5, <2>6 DEF Held
<1> QED BY <1>3, <1>4, <1>5, <1>6, <1>7, <1>8 DEF Next

LEMMA CacheInit == ASSUME Init PROVE CacheInv
<1>1. Booted /\ \A c \in Command : since[c] = {}
  BY DEF Init, Booted, Idle
<1> QED BY <1>1, InitInv, BootHeld DEF CacheInv

LEMMA HeldMeans ==
    ASSUME CacheInv
    PROVE  RunningIsTracked /\ DedupeWindow
<1>1. RunningIsTracked
  <2>1. SUFFICES ASSUME TypeOK, Held, NEW c \in InProgress PROVE tracked[c] = "pending"
    BY DEF CacheInv, RunningIsTracked
  <2>2. CASE \E i \in DOMAIN queue : c = queue[i]
    <3>1. DOMAIN queue = 1 .. Len(queue)
      BY <2>1 DEF TypeOK
    <3>2. c \in Command /\ Queued(c)
      BY <2>1, <2>2, <3>1, QueueElements DEF Queued
    <3> QED BY <2>1, <3>2 DEF Held, TrackInv
  <2>3. CASE c = rx.cmd /\ rx.pc \in {"dispatch", "run"}
    <3>1. rx.pc = "dispatch" /\ c \in Command
      BY <2>1, <2>3, TaskFields DEF TypeOK
    <3> QED BY <2>1, <2>3, <3>1 DEF Held, TrackInv, Handled
  <2>4. CASE c = worker.cmd /\ worker.pc \in {"dispatch", "run"}
    <3>1. worker.pc = "run" /\ c \in Command
      BY <2>1, <2>4, TaskFields DEF TypeOK
    <3> QED BY <2>1, <2>4, <3>1 DEF Held, TrackInv, Worked
  <2> QED BY <2>1, <2>2, <2>3, <2>4 DEF InProgress
<1>2. DedupeWindow
  BY DEF CacheInv, Held, WindowInv, WindowOf, DedupeWindow, Pending
<1> QED BY <1>1, <1>2

-----------------------------------------------------------------------------
(***************************************************************************)
(* The theorems.                                                           *)
(***************************************************************************)

\* A command the cache has room to remember is executed once at most before
\* the device restarts or is reset, however often and in whatever order its
\* messages come, and wherever the calibration task stands (mqtt.c's tracked
\* commands).
THEOREM RunsOnceAlways == Spec => []RunsOnce
<1>1. CASE Roomy
  <2>1. Inv => RunsOnce
    BY GoodMeans
  <2> QED BY <1>1, <2>1, Invariance, PTL
<1>2. CASE ~Roomy
  <2>1. RunsOnce
    BY <1>2 DEF Roomy, RunsOnce
  <2> QED BY <2>1, PTL
<1> QED BY <1>1, <1>2

\* ... and is answered one way: every repetition gets the answer in its entry.
THEOREM OneAnswerAlways == Spec => []OneAnswer
<1>1. CASE Roomy
  <2>1. Inv => OneAnswer
    BY GoodMeans
  <2> QED BY <1>1, <2>1, Invariance, PTL
<1>2. CASE ~Roomy
  <2>1. OneAnswer
    BY <1>2 DEF Roomy, OneAnswer
  <2> QED BY <2>1, PTL
<1> QED BY <1>1, <1>2

\* What waits in the calibration queue, or runs, is in the cache as pending: no
\* eviction forgets it, however many commands come, whatever fails.
THEOREM RunningIsTrackedAlways == Spec => []RunningIsTracked
<1>1. Init => CacheInv
  BY CacheInit
<1>2. CacheInv /\ [Next]_vars => CacheInv'
  BY CacheStep
<1>3. CacheInv => RunningIsTracked
  BY HeldMeans
<1> QED BY <1>1, <1>2, <1>3, PTL DEF Spec

\* A command that ran is forgotten only when CacheSize others have been written
\* to the cache since, or wait there: until then its duplicate does not run.
THEOREM DedupeWindowAlways == Spec => []DedupeWindow
<1>1. Init => CacheInv
  BY CacheInit
<1>2. CacheInv /\ [Next]_vars => CacheInv'
  BY CacheStep
<1>3. CacheInv => DedupeWindow
  BY HeldMeans
<1> QED BY <1>1, <1>2, <1>3, PTL DEF Spec

\* The variables of the device keep their types, whatever the cache holds.
THEOREM DeviceTypeOK == Spec => []TypeOK
<1>1. Init => TypeOK
  BY InitInv
<1> QED BY <1>1, TypeStep, PTL DEF Spec
=============================================================================
