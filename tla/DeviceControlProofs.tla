------------------------ MODULE DeviceControlProofs ------------------------
(***************************************************************************)
(* Proofs about DeviceControl, for any number of relays.  TaskInv says     *)
(* what the boot stages and the handler know between two of their steps;   *)
(* without it an off mode could meet a relay that is still being written.  *)
(***************************************************************************)
EXTENDS DeviceControl, TLAPS

\* What the task is doing, and with which mode.
TaskInv ==
    /\ task.pc \in {"idle", "next", "stopped"} => task.at = "none"
    /\ task.pc = "force" => task.at \in {"force", "boot"}
    /\ task.pc \in {"guard", "take", "write"} => task.at # "none"
    /\ task.pc \in {"delta", "rollback"} => task.at = "relay"
    /\ task.pc = "off" => task.at = "force"
    /\ task.pc = "report" => task.at = "modeon"
    /\ task.pc = "next" => phase = "run"
    /\ phase = "relays" => task.pc = "idle"
    /\ phase = "mode" => task.pc = "idle" \/ task.at = "boot"

ModeInv ==
    /\ task.at \in {"relay", "undo"} => phase = "run" /\ mode /\ task.ch \in Channel
    /\ task.at = "force" /\ task.pc # "off" => phase = "run" /\ mode
    /\ task.at = "boot" => phase = "mode" /\ ~mode
    /\ task.pc = "off" \/ task.at = "modeoff" => phase = "run" /\ ~mode
    /\ task.at = "modeon" => phase = "run" /\ mode

\* The relays already forced off stay off.
ForceInv ==
    task.at \in {"force", "boot"} =>
        /\ \A c \in Channel : c < task.ch => ~state[c]
        /\ task.pc \in {"guard", "take", "write"} =>
              task.ch \in Channel /\ ~state[task.ch]

OffInv == phase = "run" /\ ~mode => state = AllOff

LockInv ==
    /\ lock = "task" <=> task.pc = "write"
    /\ lock = "reset" <=> reset \in {"stop", "users", "join", "erase", "restart"}

Inv == TypeOK /\ TaskInv /\ ModeInv /\ ForceInv /\ OffInv /\ LockInv

-----------------------------------------------------------------------------
LEMMA ConstantTypes ==
    /\ AllOff \in [Channel -> BOOLEAN]
    /\ Erased \in [mode : BOOLEAN, relay : [Channel -> BOOLEAN]]
    /\ NoJob \in Job /\ Idle \in TaskState /\ Asleep \in SensorState
    /\ 0 \in Clock
<1>1. 1 \in 1..(Channels + 1) /\ 0 \in Clock
  BY ControlAssumption DEF Clock
<1>2. NoJob \in Job
  BY DEF NoJob, Job, Setting
<1> QED BY <1>1, <1>2 DEF AllOff, Erased, Idle, Asleep, TaskState, SensorState

LEMMA InitInv == Init => Inv
<1> SUFFICES ASSUME Init PROVE Inv
  OBVIOUS
<1> USE ConstantTypes, ControlAssumption DEF Init
<1>1. TypeOK
  BY DEF TypeOK
<1>2. TaskInv /\ ModeInv /\ ForceInv /\ OffInv /\ LockInv
  BY DEF TaskInv, ModeInv, ForceInv, OffInv, LockInv, Idle
<1> QED BY <1>1, <1>2 DEF Inv

LEMMA RestartInv ==
    ASSUME Inv, NEW p \in {"relays"}, Restart(p), UNCHANGED <<nvs, device>>
    PROVE  Inv'
<1> USE ConstantTypes DEF Restart
<1>1. TypeOK'
  BY DEF Inv, TypeOK
<1>2. TaskInv' /\ ModeInv' /\ ForceInv' /\ OffInv' /\ LockInv'
  BY DEF TaskInv, ModeInv, ForceInv, OffInv, LockInv, Idle
<1> QED BY <1>1, <1>2 DEF Inv

LEMMA KeyDoneFacts ==
    ASSUME NEW job \in Job
    PROVE  /\ KeyDone(job) \in TaskState
           /\ KeyDone(job).pc = "next" /\ KeyDone(job).at = "none"
  BY ConstantTypes DEF KeyDone, Idle, TaskState

LEMMA AfterModeType == TypeOK => AfterMode \in Job
  BY ConstantTypes DEF TypeOK, AfterMode, TaskState, Job, Setting

LEMMA ReportType ==
    ASSUME TypeOK, NEW m \in BOOLEAN, NEW r \in [Channel -> BOOLEAN], NEW ts \in Clock,
           Report(m, r, ts) \/ Unreported
    PROVE  /\ reported' \in [mode : BOOLEAN, relay : [Channel -> BOOLEAN], ts : Clock]
           /\ missed' \in BOOLEAN /\ outdated' \in BOOLEAN
<1>1. Merge(m, r, ts) \in [mode : BOOLEAN, relay : [Channel -> BOOLEAN], ts : Clock]
  BY DEF TypeOK, Merge
<1> QED BY <1>1 DEF TypeOK, Report, Unreported

\* Steps that leave the board, the flash and the writer's lock alone.
LEMMA QuietStep ==
    ASSUME Inv, UNCHANGED <<phase, mode, state, lock, task>>,
           reset = reset' \/ (reset \notin {"stop", "users", "join", "erase", "restart"}
                             <=> reset' \notin {"stop", "users", "join", "erase", "restart"})
    PROVE  TaskInv' /\ ModeInv' /\ ForceInv' /\ OffInv' /\ LockInv'
  BY DEF Inv, TaskInv, ModeInv, ForceInv, OffInv, LockInv

LEMMA SavedType ==
    ASSUME TypeOK, TaskInv, ForceInv, NEW f \in BOOLEAN, Saved(f),
           task.pc \in {"guard", "take", "write"}, state' = state, UNCHANGED mode
    PROVE  task' \in TaskState /\ answer' \in {"none", "ok", "error"}
<1> USE ConstantTypes DEF TypeOK
<1>1. CASE task.at = "relay"
  BY <1>1 DEF Saved, Goto, TaskState
<1>2. CASE task.at = "undo"
  BY <1>2 DEF Saved, Answered
<1>3. CASE task.at \in {"force", "boot"}
  <2>1. task.ch + 1 \in 1..(Channels + 1)
    BY <1>3, ControlAssumption DEF ForceInv, Channel
  <2> QED BY <1>3, <2>1 DEF Saved, TaskState
<1>4. CASE task.at = "modeoff"
  <2>2. KeyDone(AfterMode) \in TaskState
    BY AfterModeType, KeyDoneFacts
  <2> QED BY <1>4, <2>2 DEF Saved, EndModeKey, Answered
<1>5. CASE task.at = "modeon"
  BY <1>5 DEF Saved, TaskState
<1> QED BY <1>1, <1>2, <1>3, <1>4, <1>5 DEF Saved

\* What the writer goes on to do, whatever the outcome.
LEMMA SavedInv ==
    ASSUME Inv, NEW f \in BOOLEAN, Saved(f), task.pc \in {"guard", "take", "write"},
           UNCHANGED <<phase, mode, state>>
    PROVE  TaskInv' /\ ModeInv' /\ ForceInv' /\ OffInv' /\ task'.pc # "write"
<1> USE DEF Inv, TypeOK
<1> task \in TaskState
  OBVIOUS
<1>0. OffInv'
  BY DEF OffInv
<1>1. CASE task.at = "relay"
  BY <1>0, <1>1 DEF Saved, Goto, TaskState, TaskInv, ModeInv, ForceInv
<1>2. CASE task.at = "undo"
  BY <1>0, <1>2 DEF Saved, Answered, Idle, TaskInv, ModeInv, ForceInv
<1>3. CASE task.at \in {"force", "boot"}
  <2>1. \A c \in Channel : c < task.ch + 1 => ~state[c]
    BY <1>3, ControlAssumption DEF ForceInv, Channel
  <2>2. task' = [task EXCEPT !.pc = "force", !.ch = @ + 1, !.stuck = @ \/ f]
    BY <1>3 DEF Saved
  <2>3. task'.pc = "force" /\ task'.at = task.at /\ task'.ch = task.ch + 1
    BY <2>2 DEF TaskState
  <2> QED BY <1>0, <1>3, <2>1, <2>3 DEF TaskInv, ModeInv, ForceInv
<1>4. CASE task.at = "modeoff"
  <2>1. task' = Idle \/ task' = KeyDone(AfterMode)
    BY <1>4 DEF Saved, EndModeKey, Answered
  <2>2. task'.at = "none" /\ task'.pc \in {"idle", "next"}
    BY <2>1, AfterModeType, KeyDoneFacts DEF Idle
  <2>3. phase = "run"
    BY <1>4 DEF ModeInv
  <2> QED BY <1>0, <2>2, <2>3 DEF TaskInv, ModeInv, ForceInv
<1>5. CASE task.at = "modeon"
  BY <1>0, <1>5 DEF Saved, TaskState, TaskInv, ModeInv, ForceInv
<1> QED BY <1>1, <1>2, <1>3, <1>4, <1>5 DEF Saved

LEMMA WriterStep ==
    ASSUME Inv, UNCHANGED device, GuardWrite \/ TakeLock \/ Write
    PROVE  Inv'
<1> USE DEF boardVars, guardVars, reportVars
<1>1. CASE GuardWrite
  <2>1. CASE flag
    <3>1. Saved(TRUE) /\ task.pc = "guard" /\ UNCHANGED <<phase, mode, state, lock, reset>>
      BY <1>1, <2>1 DEF GuardWrite
    <3>4. task' \in TaskState /\ answer' \in {"none", "ok", "error"}
      BY <3>1, SavedType DEF Inv
    <3>2. TypeOK'
      BY <1>1, <2>1, <3>4 DEF GuardWrite, Inv, TypeOK
    <3>3. TaskInv' /\ ModeInv' /\ ForceInv' /\ OffInv' /\ task'.pc # "write"
      BY <3>1, SavedInv
    <3> QED BY <3>1, <3>2, <3>3 DEF Inv, LockInv
  <2>2. CASE ~flag
    <3>1. task' = [task EXCEPT !.pc = "take"] /\ task.pc = "guard" /\ task \in TaskState
      BY <1>1, <2>2 DEF GuardWrite, Goto, Inv, TypeOK
    <3>2. task' \in TaskState /\ task'.pc = "take" /\ task'.at = task.at
          /\ task'.ch = task.ch
      BY <3>1 DEF TaskState
    <3>3. TypeOK'
      BY <1>1, <2>2, <3>2 DEF GuardWrite, Inv, TypeOK
    <3> QED BY <1>1, <3>1, <3>2, <3>3
            DEF GuardWrite, Inv, TaskInv, ModeInv, ForceInv, OffInv, LockInv
  <2> QED BY <2>1, <2>2 DEF Inv, TypeOK
<1>2. CASE TakeLock
  <2>1. CASE flag
    <3>1. Saved(TRUE) /\ task.pc = "take" /\ UNCHANGED <<phase, mode, state, lock, reset>>
      BY <1>2, <2>1 DEF TakeLock
    <3>4. task' \in TaskState /\ answer' \in {"none", "ok", "error"}
      BY <3>1, SavedType DEF Inv
    <3>2. TypeOK'
      BY <1>2, <2>1, <3>4 DEF TakeLock, Inv, TypeOK
    <3>3. TaskInv' /\ ModeInv' /\ ForceInv' /\ OffInv' /\ task'.pc # "write"
      BY <3>1, SavedInv
    <3> QED BY <3>1, <3>2, <3>3 DEF Inv, LockInv
  <2>2. CASE ~flag
    <3>1. task' = [task EXCEPT !.pc = "write"] /\ task.pc = "take" /\ task \in TaskState
      BY <1>2, <2>2 DEF TakeLock, Goto, Inv, TypeOK
    <3>2. task' \in TaskState /\ task'.pc = "write" /\ task'.at = task.at
          /\ task'.ch = task.ch
      BY <3>1 DEF TaskState
    <3>3. TypeOK'
      BY <1>2, <2>2, <3>2 DEF TakeLock, Inv, TypeOK
    <3> QED BY <1>2, <2>2, <3>1, <3>2, <3>3
            DEF TakeLock, Inv, TaskInv, ModeInv, ForceInv, OffInv, LockInv
  <2> QED BY <2>1, <2>2 DEF Inv, TypeOK
<1>3. CASE Write
  <2>1. PICK f \in BOOLEAN : Saved(f) /\ nvs' \in {nvs, Written}
    BY <1>3 DEF Write
  <2>2. Written \in [mode : BOOLEAN, relay : [Channel -> BOOLEAN]]
    BY DEF Written, Inv, TypeOK
  <2>3. TypeOK'
    BY <1>3, <2>1, <2>2, SavedType DEF Write, Inv, TypeOK
  <2>4. TaskInv' /\ ModeInv' /\ ForceInv' /\ OffInv' /\ task'.pc # "write"
    BY <1>3, <2>1, SavedInv DEF Write
  <2> QED BY <1>3, <2>3, <2>4 DEF Write, Inv, LockInv
<1> QED BY <1>1, <1>2, <1>3

LEMMA BootStep ==
    ASSUME Inv, UNCHANGED device, Boot
    PROVE  Inv'
<1> USE ConstantTypes, ControlAssumption DEF boardVars, guardVars, reportVars
<1>1. CASE RelayInit
  <2>1. TypeOK'
    BY <1>1 DEF RelayInit, Inv, TypeOK
  <2> QED BY <1>1, <2>1 DEF RelayInit, Inv, TaskInv, ModeInv, ForceInv, OffInv, LockInv
<1>2. CASE ModeInit
  <2>1. CASE nvs.mode
    <3>1. TypeOK'
      BY <1>2, <2>1 DEF ModeInit, Inv, TypeOK
    <3> QED BY <1>2, <2>1, <3>1 DEF ModeInit, Inv, TaskInv, ModeInv, ForceInv, OffInv, LockInv
  <2>2. CASE ~nvs.mode
    <3> DEFINE boot == [Idle EXCEPT !.pc = "force", !.at = "boot"]
    <3>1. boot \in TaskState /\ boot.pc = "force" /\ boot.at = "boot" /\ boot.ch = 1
      BY DEF Idle, TaskState
    <3>2. task' = boot /\ phase' = "mode" /\ mode' = FALSE /\ UNCHANGED <<state, lock, reset>>
          /\ task.pc = "idle"
      BY <1>2, <2>2 DEF ModeInit, Inv, TypeOK
    <3>3. TypeOK'
      BY <1>2, <2>2, <3>1, <3>2 DEF ModeInit, Inv, TypeOK
    <3> HIDE DEF boot
    <3>4. ForceInv'
      BY <3>1, <3>2 DEF ForceInv, Channel
    <3> QED BY <3>1, <3>2, <3>3, <3>4 DEF Inv, TaskInv, ModeInv, OffInv, LockInv
  <2> QED BY <2>1, <2>2 DEF Inv, TypeOK
<1>3. CASE BootForced
  <2>1. state = AllOff
    <3>1. \A c \in Channel : ~state[c]
      BY <1>3 DEF BootForced, Inv, TypeOK, TaskState, ForceInv, Channel
    <3> QED BY <3>1 DEF Inv, TypeOK, AllOff
  <2>2. TypeOK'
    BY <1>3 DEF BootForced, Inv, TypeOK
  <2> QED BY <1>3, <2>1, <2>2
          DEF BootForced, Idle, Inv, TaskInv, ModeInv, ForceInv, OffInv, LockInv
<1>4. CASE BootFails
  <2>1. CASE Restart("relays")
    BY <1>4, <2>1, RestartInv DEF BootFails
  <2>2. CASE phase' = "safe" /\ task' = [Idle EXCEPT !.pc = "stopped"]
             /\ UNCHANGED <<boardVars, guardVars, mqtt, answer, sensors, sensor,
                            reportVars, clock>>
    <3> DEFINE stopped == [Idle EXCEPT !.pc = "stopped"]
    <3>1. stopped \in TaskState /\ stopped.pc = "stopped" /\ stopped.at = "none"
      BY DEF Idle, TaskState
    <3>2. task' = stopped /\ phase' = "safe" /\ UNCHANGED <<state, mode, lock, reset, nvs>>
          /\ task.pc # "write"
      BY <1>4, <2>2 DEF BootFails, Inv, TaskInv
    <3>3. TypeOK'
      BY <2>2, <3>1, <3>2 DEF Inv, TypeOK
    <3> HIDE DEF stopped
    <3> QED BY <3>1, <3>2, <3>3 DEF Inv, TaskInv, ModeInv, ForceInv, OffInv, LockInv
  <2> QED BY <1>4, <2>1, <2>2 DEF BootFails
<1> QED BY <1>1, <1>2, <1>3, <1>4 DEF Boot

\* Steps that end a key or a job.
LEMMA KeyEnds ==
    ASSUME Inv, phase = "run", task.pc # "write", TypeOK',
           task' = Idle \/ \E job \in Job : task' = KeyDone(job),
           UNCHANGED <<phase, mode, state, lock, reset>>
    PROVE  Inv'
<1>1. task'.at = "none" /\ task'.pc \in {"idle", "next"}
  BY KeyDoneFacts DEF Idle
<1> QED BY <1>1 DEF Inv, TaskInv, ModeInv, ForceInv, OffInv, LockInv

LEMMA TurnFacts ==
    ASSUME Inv, NEW c \in Channel, Turn(c)
    PROVE  phase = "run" /\ task.pc # "write" /\ RelayDone(c) \in TaskState
           /\ \E job \in Job : RelayDone(c) = KeyDone(job)
<1>1. [task.job EXCEPT !.relay[c] = "keep"] \in Job
  BY DEF Inv, TypeOK, TaskState, Job, Setting
<1> QED BY <1>1, KeyDoneFacts DEF Turn, RelayDone, Inv, TaskInv

LEMMA ModeStep ==
    ASSUME Inv, UNCHANGED device,
           JobDone \/ ModeAlready \/ ModeOn \/ ModeOff \/ ReportOff \/ ReportOn
    PROVE  Inv'
<1> USE ConstantTypes, ControlAssumption DEF boardVars, guardVars, reportVars
<1>1. CASE JobDone
  <2>1. TypeOK'
    BY <1>1 DEF JobDone, Answered, Inv, TypeOK
  <2> QED BY <1>1, <2>1, KeyEnds DEF JobDone, Answered, Inv, TaskInv
<1>2. CASE ModeAlready
  <2>1. task' = KeyDone(AfterMode) /\ AfterMode \in Job /\ KeyDone(AfterMode) \in TaskState
    BY <1>2, AfterModeType, KeyDoneFacts DEF ModeAlready, Inv
  <2>2. TypeOK'
    BY <1>2, <2>1 DEF ModeAlready, Inv, TypeOK
  <2> QED BY <1>2, <2>1, <2>2, KeyEnds DEF ModeAlready, Inv, TaskInv
<1>3. CASE ModeOn
  <2>1. task \in TaskState /\ task.pc = "next" /\ phase = "run"
        /\ task' = [task EXCEPT !.pc = "guard", !.at = "modeon"]
    BY <1>3 DEF ModeOn, Save, Inv, TypeOK, TaskInv
  <2>2. task' \in TaskState /\ task'.pc = "guard" /\ task'.at = "modeon"
    BY <2>1 DEF TaskState
  <2>3. TypeOK'
    BY <1>3, <2>2 DEF ModeOn, Inv, TypeOK
  <2> QED BY <1>3, <2>1, <2>2, <2>3
          DEF ModeOn, Inv, TaskInv, ModeInv, ForceInv, OffInv, LockInv
<1>4. CASE ModeOff
  <2>1. task \in TaskState /\ task.pc = "next" /\ phase = "run"
    BY <1>4 DEF ModeOff, Inv, TypeOK, TaskInv
  <2>2. task' \in TaskState /\ task'.pc = "force" /\ task'.at = "force" /\ task'.ch = 1
    <3>1. 1 \in 1..(Channels + 1)
      OBVIOUS
    <3>2. CASE task' = [task EXCEPT !.pc = "force", !.at = "force", !.ch = 1]
      BY <2>1, <3>1, <3>2 DEF TaskState
    <3>3. CASE task' = [task EXCEPT !.pc = "force", !.at = "force", !.ch = 1,
                                    !.failed = TRUE]
      BY <2>1, <3>1, <3>3 DEF TaskState
    <3> QED BY <1>4, <3>2, <3>3 DEF ModeOff
  <2>3. TypeOK'
    BY <1>4, <2>2 DEF ModeOff, FinalTelemetry, Inv, TypeOK
  <2>4. ForceInv'
    BY <2>2 DEF ForceInv, Channel
  <2> QED BY <1>4, <2>1, <2>2, <2>3, <2>4
          DEF ModeOff, Inv, TaskInv, ModeInv, OffInv, LockInv
<1>5. CASE ReportOff
  <2>1. task \in TaskState /\ task.pc = "off" /\ phase = "run" /\ ~mode
    BY <1>5 DEF ReportOff, Inv, TypeOK, ModeInv
  <2>2. task' \in TaskState /\ task'.pc = "guard" /\ task'.at = "modeoff"
    BY <1>5, <2>1 DEF ReportOff, Save, TaskState
  <2>3. TypeOK'
    <3>1. Report(FALSE, AllOff, clock) \/ Unreported
      BY <1>5 DEF ReportOff
    <3>2. /\ reported' \in [mode : BOOLEAN, relay : [Channel -> BOOLEAN], ts : Clock]
          /\ missed' \in BOOLEAN /\ outdated' \in BOOLEAN
      BY <3>1, ReportType DEF Inv, TypeOK
    <3> QED BY <1>5, <2>2, <3>2 DEF ReportOff, Inv, TypeOK
  <2> QED BY <1>5, <2>1, <2>2, <2>3
          DEF ReportOff, Inv, TaskInv, ModeInv, ForceInv, OffInv, LockInv
<1>6. CASE ReportOn
  <2>1. task' = Idle \/ task' = KeyDone(AfterMode)
    BY <1>6 DEF ReportOn, EndModeKey, Answered
  <2>2. AfterMode \in Job /\ task' \in TaskState /\ answer' \in {"none", "ok", "error"}
    BY <1>6, <2>1, AfterModeType, KeyDoneFacts
    DEF ReportOn, EndModeKey, Answered, Inv, TypeOK
  <2>3. TypeOK'
    <3>1. Report(TRUE, state, clock) \/ Unreported
      BY <1>6 DEF ReportOn
    <3>2. /\ reported' \in [mode : BOOLEAN, relay : [Channel -> BOOLEAN], ts : Clock]
          /\ missed' \in BOOLEAN /\ outdated' \in BOOLEAN
      BY <3>1, ReportType DEF Inv, TypeOK
    <3> QED BY <1>6, <2>2, <3>2 DEF ReportOn, Inv, TypeOK
  <2>4. phase = "run" /\ task.pc # "write"
    BY <1>6 DEF ReportOn, Inv, TaskInv, ModeInv
  <2> QED BY <1>6, <2>1, <2>2, <2>3, <2>4, KeyEnds DEF ReportOn
<1> QED BY <1>1, <1>2, <1>3, <1>4, <1>5, <1>6

LEMMA ForceStep ==
    ASSUME Inv, UNCHANGED device, ForceChannel \/ ForcedOff
    PROVE  Inv'
<1> USE ConstantTypes, ControlAssumption DEF boardVars, guardVars, reportVars
<1> task \in TaskState /\ state \in [Channel -> BOOLEAN] /\ gpio \in [Channel -> BOOLEAN]
  BY DEF Inv, TypeOK
<1>1. CASE ForceChannel
  <2>0. task.pc = "force" /\ task.at \in {"force", "boot"} /\ task.ch \in Channel
    BY <1>1 DEF ForceChannel, Inv, TaskInv, TaskState, Channel
  <2>1. CASE state[task.ch]
    <3>1. task' \in TaskState /\ task'.pc = "guard" /\ task'.at = task.at
          /\ task'.ch = task.ch
      <4>1. CASE task' = [task EXCEPT !.pc = "guard"]
        BY <4>1 DEF TaskState
      <4>2. CASE task' = [task EXCEPT !.pc = "guard", !.stuck = TRUE]
        BY <4>2 DEF TaskState
      <4> QED BY <1>1, <2>1, <4>1, <4>2 DEF ForceChannel, Goto
    <3>2. /\ state' = [state EXCEPT ![task.ch] = FALSE]
          /\ state' \in [Channel -> BOOLEAN] /\ gpio' \in [Channel -> BOOLEAN]
      BY <1>1, <2>0, <2>1 DEF ForceChannel
    <3>3. TypeOK'
      BY <1>1, <3>1, <3>2 DEF ForceChannel, Inv, TypeOK
    <3>4. ForceInv'
      BY <2>0, <3>1, <3>2 DEF Inv, ForceInv
    <3>5. OffInv' /\ ModeInv' /\ TaskInv' /\ LockInv'
      BY <1>1, <2>0, <3>1 DEF ForceChannel, Inv, TaskInv, ModeInv, OffInv, LockInv
    <3> QED BY <3>3, <3>4, <3>5 DEF Inv
  <2>2. CASE ~state[task.ch]
    <3>1. task' = [task EXCEPT !.ch = @ + 1] /\ UNCHANGED <<state, gpio>>
      BY <1>1, <2>2 DEF ForceChannel
    <3>2. task' \in TaskState /\ task'.pc = "force" /\ task'.at = task.at
          /\ task'.ch = task.ch + 1
      <4>1. task.ch + 1 \in 1..(Channels + 1)
        BY <2>0 DEF Channel
      <4>2. task' = [task EXCEPT !.ch = task.ch + 1]
        BY <3>1
      <4>3. \A n \in 1..(Channels + 1) : [task EXCEPT !.ch = n] \in TaskState
        BY DEF TaskState
      <4>4. task' \in TaskState
        BY <4>1, <4>2, <4>3
      <4> QED BY <2>0, <4>2, <4>4 DEF TaskState
    <3>3. TypeOK'
      BY <1>1, <3>1, <3>2 DEF ForceChannel, Inv, TypeOK
    <3>4. ForceInv'
      BY <2>0, <2>2, <3>1, <3>2 DEF Inv, ForceInv, Channel
    <3>5. OffInv' /\ ModeInv' /\ TaskInv' /\ LockInv'
      BY <1>1, <2>0, <3>1, <3>2 DEF ForceChannel, Inv, TaskInv, ModeInv, OffInv, LockInv
    <3> QED BY <3>3, <3>4, <3>5 DEF Inv
  <2> QED BY <2>1, <2>2
<1>2. CASE ForcedOff
  <2>0. phase = "run" /\ mode /\ task.pc = "force" /\ task.at = "force"
        /\ state = AllOff
    <3>1. \A c \in Channel : ~state[c]
      BY <1>2 DEF ForcedOff, Inv, TaskState, ForceInv, Channel
    <3> QED BY <1>2, <3>1 DEF ForcedOff, Inv, ModeInv, AllOff
  <2>1. CASE task.stuck
    <3>1. TypeOK'
      BY <1>2, <2>1 DEF ForcedOff, Answered, Inv, TypeOK
    <3> QED BY <1>2, <2>0, <2>1, <3>1, KeyEnds DEF ForcedOff, Answered
  <2>2. CASE ~task.stuck
    <3>1. task' \in TaskState /\ task'.pc = "off" /\ task'.at = "force"
          /\ task'.ch = task.ch
      BY <1>2, <2>0, <2>2 DEF ForcedOff, Goto, TaskState
    <3>3. mode' = FALSE /\ sensors' = FALSE /\ UNCHANGED answer
      BY <1>2, <2>2 DEF ForcedOff
    <3>2. TypeOK'
      <4>1. UNCHANGED <<phase, state, gpio, nvs, flag, lock, reset, mqtt, sensor,
                        telemetry, reported, missed, outdated, clock>>
        BY <1>2 DEF ForcedOff
      <4>2. mode' \in BOOLEAN /\ sensors' \in BOOLEAN
        BY <3>3
      <4>3. answer' = answer
        BY <3>3
      <4> QED BY <3>1, <4>1, <4>2, <4>3 DEF Inv, TypeOK
    <3> QED BY <1>2, <2>0, <2>2, <3>1, <3>2
            DEF ForcedOff, Inv, TaskInv, ModeInv, ForceInv, OffInv, LockInv
  <2> QED BY <2>1, <2>2
<1> QED BY <1>1, <1>2

LEMMA RelayStep ==
    ASSUME Inv, UNCHANGED device, RelayKey \/ RelayDelta \/ Rollback
    PROVE  Inv'
<1> USE ConstantTypes, ControlAssumption DEF boardVars, guardVars, reportVars
<1> task \in TaskState /\ state \in [Channel -> BOOLEAN] /\ gpio \in [Channel -> BOOLEAN]
  BY DEF Inv, TypeOK
<1>1. ASSUME NEW c \in Channel, RelayWhileOff(c)
      PROVE  Inv'
  <2>1. Turn(c)
    BY <1>1 DEF RelayWhileOff
  <2>2. task' = RelayDone(c) \/ task' = Idle
    BY <1>1 DEF RelayWhileOff, Answered
  <2>3. answer' \in {"none", "ok", "error"}
    BY <1>1 DEF RelayWhileOff, Answered, Inv, TypeOK
  <2>4. TypeOK'
    BY <1>1, <2>1, <2>2, <2>3, TurnFacts DEF RelayWhileOff, Inv, TypeOK
  <2> QED BY <1>1, <2>1, <2>2, <2>4, TurnFacts, KeyEnds DEF RelayWhileOff
<1>2. ASSUME NEW c \in Channel, RelayAlready(c)
      PROVE  Inv'
  <2>1. Turn(c) /\ task' = RelayDone(c)
    BY <1>2 DEF RelayAlready
  <2>2. TypeOK'
    BY <1>2, <2>1, TurnFacts DEF RelayAlready, Inv, TypeOK
  <2> QED BY <1>2, <2>1, <2>2, TurnFacts, KeyEnds DEF RelayAlready
<1>3. ASSUME NEW c \in Channel, RelaySet(c)
      PROVE  Inv'
  <2>1. Turn(c) /\ mode /\ phase = "run" /\ task.pc = "next"
    BY <1>3, TurnFacts DEF RelaySet, Turn
  <2>2. CASE Answered("error") /\ UNCHANGED <<state, gpio>>
    <3>1. TypeOK'
      BY <1>3, <2>2 DEF RelaySet, Answered, Inv, TypeOK
    <3> QED BY <1>3, <2>1, <2>2, <3>1, KeyEnds DEF RelaySet, Answered
  <2>3. CASE /\ state' = [state EXCEPT ![c] = ~@]
             /\ gpio' = [gpio EXCEPT ![c] = ~state[c]]
             /\ task' = [task EXCEPT !.pc = "guard", !.at = "relay", !.ch = c,
                                     !.prev = state[c]]
             /\ UNCHANGED answer
    <3>1. c \in 1..(Channels + 1)
      BY DEF Channel
    <3>2. task' \in TaskState /\ task'.pc = "guard" /\ task'.at = "relay" /\ task'.ch = c
      BY <2>3, <3>1 DEF TaskState
    <3>3. state' \in [Channel -> BOOLEAN] /\ gpio' \in [Channel -> BOOLEAN]
      BY <2>3
    <3>4. TypeOK'
      BY <1>3, <2>3, <3>2, <3>3 DEF RelaySet, Inv, TypeOK
    <3> QED BY <1>3, <2>1, <3>2, <3>4
            DEF RelaySet, Inv, TaskInv, ModeInv, ForceInv, OffInv, LockInv
  <2> QED BY <1>3, <2>2, <2>3 DEF RelaySet
<1>4. CASE RelayDelta
  <2>1. task.pc = "delta" /\ task.at = "relay" /\ phase = "run" /\ task.ch \in Channel
    BY <1>4 DEF RelayDelta, Inv, TaskInv, ModeInv
  <2>2. [task.job EXCEPT !.relay[task.ch] = "keep"] \in Job
    BY DEF TaskState, Job, Setting
  <2>3. RelayDone(task.ch) \in TaskState /\ \E job \in Job : RelayDone(task.ch) = KeyDone(job)
    BY <2>2, KeyDoneFacts DEF RelayDone
  <2>4. /\ reported' \in [mode : BOOLEAN, relay : [Channel -> BOOLEAN], ts : Clock]
        /\ missed' \in BOOLEAN /\ outdated' \in BOOLEAN
    <3> DEFINE r == [reported.relay EXCEPT ![task.ch] = state[task.ch]]
    <3>1. r \in [Channel -> BOOLEAN]
      BY <2>1 DEF Inv, TypeOK
    <3>2. Report(TRUE, r, clock) \/ Unreported
      BY <1>4 DEF RelayDelta
    <3> HIDE DEF r
    <3> QED BY <3>1, <3>2, ReportType DEF Inv, TypeOK
  <2>5. TypeOK'
    BY <1>4, <2>3, <2>4 DEF RelayDelta, Inv, TypeOK
  <2> QED BY <1>4, <2>1, <2>3, <2>5, KeyEnds DEF RelayDelta
<1>5. CASE Rollback
  <2>1. task.pc = "rollback" /\ task.at = "relay" /\ phase = "run" /\ mode
        /\ task.ch \in Channel
    BY <1>5 DEF Rollback, Inv, TaskInv, ModeInv
  <2>2. CASE Answered("error") /\ UNCHANGED <<state, gpio>>
    <3>1. TypeOK'
      BY <1>5, <2>2 DEF Rollback, Answered, Inv, TypeOK
    <3> QED BY <1>5, <2>1, <2>2, <3>1, KeyEnds DEF Rollback, Answered
  <2>3. CASE /\ gpio' = [gpio EXCEPT ![task.ch] = task.prev]
             /\ state' = [state EXCEPT ![task.ch] = task.prev]
             /\ Save("undo") /\ UNCHANGED answer
    <3>2. task' \in TaskState /\ task'.pc = "guard" /\ task'.at = "undo"
          /\ task'.ch = task.ch
      BY <2>3 DEF Save, TaskState
    <3>3. state' \in [Channel -> BOOLEAN] /\ gpio' \in [Channel -> BOOLEAN]
      BY <2>3 DEF TaskState
    <3>4. TypeOK'
      BY <1>5, <2>3, <3>2, <3>3 DEF Rollback, Inv, TypeOK
    <3> QED BY <1>5, <2>1, <3>2, <3>4
            DEF Rollback, Inv, TaskInv, ModeInv, ForceInv, OffInv, LockInv
  <2> QED BY <1>5, <2>2, <2>3 DEF Rollback
<1> QED BY <1>1, <1>2, <1>3, <1>4, <1>5 DEF RelayKey

LEMMA DispatchStep ==
    ASSUME Inv, UNCHANGED device, NEW job \in Job, Dispatch(job)
    PROVE  Inv'
<1> USE DEF boardVars, guardVars, reportVars
<1>1. task' = KeyDone(job) /\ KeyDone(job) \in TaskState
  BY KeyDoneFacts DEF Dispatch
<1>2. TypeOK'
  BY <1>1 DEF Dispatch, Inv, TypeOK
<1> QED BY <1>1, <1>2, KeyEnds DEF Dispatch

LEMMA ResetStep ==
    ASSUME Inv, UNCHANGED device, ResetBegins \/ ResetSteps
    PROVE  Inv'
<1> USE DEF boardVars, guardVars, reportVars
<1>1. CASE ResetRestarts
  BY <1>1, RestartInv DEF ResetRestarts
<1>2. CASE ResetBegins \/ ResetLocks \/ ResetTakesClient \/ ResetStopsClient
           \/ ResetJoins \/ ResetErases
  <2>1. TypeOK'
    <3> USE ConstantTypes DEF Inv, TypeOK
    <3>1. CASE ResetBegins
      <4>1. flag' \in BOOLEAN
        BY <3>1 DEF ResetBegins
      <4> QED BY <3>1, <4>1 DEF ResetBegins
    <3>2. CASE ResetLocks
      <4>1. sensors' \in BOOLEAN
        BY <3>2 DEF ResetLocks
      <4> QED BY <3>2, <4>1 DEF ResetLocks
    <3>3. CASE ResetTakesClient
      BY <3>3 DEF ResetTakesClient
    <3>4. CASE ResetStopsClient
      BY <3>4 DEF ResetStopsClient
    <3>5. CASE ResetJoins
      BY <3>5 DEF ResetJoins
    <3>6. CASE ResetErases
      <4>1. flag' \in BOOLEAN /\ nvs' \in [mode : BOOLEAN, relay : [Channel -> BOOLEAN]]
        BY <3>6 DEF ResetErases
      <4> QED BY <3>6, <4>1 DEF ResetErases
    <3> QED BY <1>2, <3>1, <3>2, <3>3, <3>4, <3>5, <3>6
  <2>2. TaskInv' /\ ModeInv' /\ ForceInv' /\ OffInv' /\ LockInv'
    BY <1>2
    DEF ResetBegins, ResetLocks, ResetTakesClient, ResetStopsClient, ResetJoins,
        ResetErases, Inv, TaskInv, ModeInv, ForceInv, OffInv, LockInv
  <2> QED BY <2>1, <2>2 DEF Inv
<1> QED BY <1>1, <1>2 DEF ResetSteps

LEMMA ShowType ==
    ASSUME TypeOK, NEW sent, NEW ts \in Clock, Show(sent, ts)
    PROVE  /\ telemetry' \in {"none", "values", "final"}
           /\ reported' \in [mode : BOOLEAN, relay : [Channel -> BOOLEAN], ts : Clock]
<1>1. Merge(TRUE, reported.relay, ts)
        \in [mode : BOOLEAN, relay : [Channel -> BOOLEAN], ts : Clock]
  BY DEF TypeOK, Merge
<1> QED BY <1>1 DEF TypeOK, Show

LEMMA SensorStep ==
    ASSUME Inv, UNCHANGED device, Sensor
    PROVE  Inv'
<1> USE DEF boardVars, guardVars, reportVars
<1> TypeOK /\ sensor \in SensorState /\ clock \in Clock
  BY DEF Inv, TypeOK
<1>1. PICK sent \in SUBSET {"telemetry", "shadow"}, ts \in Clock :
           Show(sent, ts) /\ sensor' \in SensorState
  <2>1. CASE SensorMeasures
    <3>0. SensorTime \subseteq Clock
      BY DEF SensorTime
    <3>1. PICK sent \in SUBSET sensor.unsent, t \in SensorTime :
             /\ Show(sent, sensor.late)
             /\ sensor' = [sensor EXCEPT !.pc = "measured", !.ts = t,
                                         !.unsent = @ \ sent]
      BY <2>1 DEF SensorMeasures
    <3>2. /\ sensor.late \in Clock /\ sensor' \in SensorState
          /\ sent \in SUBSET {"telemetry", "shadow"}
      BY <3>0, <3>1 DEF SensorState
    <3> QED BY <3>1, <3>2
  <2>2. CASE SensorTelemetry
    <3>1. PICK sent \in SUBSET {"telemetry"} :
             /\ Show(sent, sensor.ts)
             /\ sensor' = [sensor EXCEPT !.pc = "sent",
                                         !.unsent = @ \cup ({"telemetry"} \ sent)]
      BY <2>2 DEF SensorTelemetry
    <3>2. sensor.ts \in Clock /\ sensor' \in SensorState
      BY <3>1 DEF SensorState
    <3> QED BY <3>1, <3>2
  <2>3. CASE SensorShadow
    <3>1. PICK sent \in SUBSET {"shadow"} :
             /\ Show(sent, sensor.ts)
             /\ sensor' = [sensor EXCEPT !.pc = "asleep",
                                         !.unsent = @ \cup ({"shadow"} \ sent),
                                         !.late = IF sent = {} THEN sensor.ts ELSE @]
      BY <2>3 DEF SensorShadow
    <3>2. sensor.ts \in Clock /\ sensor' \in SensorState
      BY <3>1 DEF SensorState
    <3> QED BY <3>1, <3>2
  <2> QED BY <2>1, <2>2, <2>3 DEF Sensor
<1>2. UNCHANGED <<phase, mode, state, gpio, nvs, flag, lock, reset, mqtt, task, answer,
                  sensors, clock, missed, outdated>>
  BY DEF Sensor, SensorMeasures, SensorTelemetry, SensorShadow
<1>3. /\ telemetry' \in {"none", "values", "final"}
      /\ reported' \in [mode : BOOLEAN, relay : [Channel -> BOOLEAN], ts : Clock]
  BY <1>1, ShowType
<1>4. TypeOK'
  BY <1>1, <1>2, <1>3 DEF TypeOK
<1> QED BY <1>2, <1>4, QuietStep DEF Inv

LEMMA OtherStep ==
    ASSUME Inv, UNCHANGED device, Connected \/ OtherTakes \/ OtherGives \/ Tick
    PROVE  Inv'
<1> USE DEF boardVars, guardVars, reportVars
<1>1. CASE Connected
  <2>1. reported' \in [mode : BOOLEAN, relay : [Channel -> BOOLEAN], ts : Clock]
    <3>1. (IF mode THEN state ELSE AllOff) \in [Channel -> BOOLEAN]
      BY ConstantTypes DEF Inv, TypeOK
    <3> QED BY <1>1, <3>1 DEF Connected, Merge, Inv, TypeOK
  <2>3. missed' \in BOOLEAN /\ outdated' \in BOOLEAN
    <3>1. missed' = FALSE /\ outdated' = (clock < reported.ts)
      BY <1>1 DEF Connected
    <3>2. (clock < reported.ts) \in BOOLEAN
      BY DEF Inv, TypeOK, Clock
    <3>3. outdated' \in BOOLEAN
      BY Zenon, <3>1, <3>2
    <3> QED BY <3>1, <3>3
  <2>2. TypeOK'
    BY <1>1, <2>1, <2>3 DEF Connected, Inv, TypeOK
  <2> QED BY <1>1, <2>2, QuietStep DEF Connected, Inv
<1>2. CASE OtherTakes \/ OtherGives
  <2>1. TypeOK'
    BY <1>2 DEF OtherTakes, OtherGives, Inv, TypeOK
  <2> QED BY <1>2, <2>1
          DEF OtherTakes, OtherGives, Inv, TaskInv, ModeInv, ForceInv, OffInv, LockInv
<1>3. CASE Tick
  <2>1. clock' \in Clock
    BY <1>3, ControlAssumption DEF Tick, Clock, Inv, TypeOK
  <2>2. TypeOK'
    BY <1>3, <2>1 DEF Tick, Inv, TypeOK
  <2> QED BY <1>3, <2>2, QuietStep DEF Tick, Inv
<1> QED BY <1>1, <1>2, <1>3

LEMMA StutterStep == Inv /\ UNCHANGED vars => Inv'
<1> SUFFICES ASSUME Inv, UNCHANGED vars PROVE Inv'
  OBVIOUS
<1>1. TypeOK'
  BY DEF vars, controlVars, Inv, TypeOK
<1> QED BY <1>1, QuietStep DEF vars, controlVars, Inv

\* A device keeps what it may suffer.
LEMMA OneDevice ==
    ASSUME [Next]_vars
    PROVE  [Step]_controlVars /\ UNCHANGED <<device, Faults, Fitted, Steady>>
  BY DEF Next, vars, Faults, Fitted, Steady

LEMMA InvStep == Inv /\ [Next]_vars => Inv'
<1> SUFFICES ASSUME Inv, [Next]_vars PROVE Inv'
  OBVIOUS
<1> UNCHANGED device /\ (Step \/ UNCHANGED vars)
  BY OneDevice DEF Next
<1>1. CASE TaskSteps
  BY <1>1, ModeStep, ForceStep, RelayStep, WriterStep DEF TaskSteps
<1>2. CASE PowerCycle
  BY <1>2, RestartInv DEF PowerCycle
<1> QED BY <1>1, <1>2, BootStep, DispatchStep, OtherStep, ResetStep, SensorStep,
           StutterStep DEF Step

LEMMA InvHolds == Spec => []Inv
  BY InitInv, InvStep, PTL DEF Spec

-----------------------------------------------------------------------------
(* TypeOK holds in every run: no step of any task leaves a variable outside
   its type, a relay index beyond the last relay included. *)
THEOREM ControlTypeOK == Spec => []TypeOK
<1>1. Inv => TypeOK
  BY DEF Inv
<1> QED BY <1>1, InvHolds, PTL

LEMMA FlashWriters ==
    ASSUME Inv, [Step]_controlVars, nvs' # nvs
    PROVE  \/ lock = "task" /\ task.pc = "write"
           \/ lock = "reset" /\ reset = "erase"
<1>1. CASE Write
  <2>1. task.pc = "write"
    BY <1>1 DEF Write
  <2> QED BY <2>1 DEF Inv, LockInv
<1>2. CASE ResetErases
  <2>1. reset = "erase"
    BY <1>2 DEF ResetErases
  <2> QED BY <2>1 DEF Inv, LockInv
<1>3. CASE ~Write /\ ~ResetErases
  BY <1>3
     DEF Step, Boot, PowerCycle, Dispatch, Connected, TaskSteps, OtherTakes,
          OtherGives, ResetBegins, ResetSteps, Sensor, Tick, RelayInit, ModeInit,
          BootForced, BootFails, JobDone, ModeAlready, ModeOn, ModeOff, ForceChannel,
          ForcedOff, ReportOff, ReportOn, RelayKey, RelayWhileOff, RelayAlready,
          RelaySet, RelayDelta, Rollback, GuardWrite, TakeLock, ResetLocks,
          ResetTakesClient, ResetStopsClient, ResetJoins, ResetRestarts,
          SensorMeasures, SensorTelemetry, SensorShadow, controlVars
<1> QED BY <1>1, <1>2, <1>3

(* WritesAreExclusive: the flash changes only in the hands of the holder of
   config.c's lock, the handler's write or the reset's erasure. *)
THEOREM ControlWritesAreExclusive == Spec => WritesAreExclusive
<1>1. Inv /\ [Next]_vars =>
        [nvs' # nvs => \/ lock = "task" /\ task.pc = "write"
                       \/ lock = "reset" /\ reset = "erase"]_controlVars
  BY OneDevice, FlashWriters
<1> QED BY <1>1, InvHolds, PTL DEF Spec, WritesAreExclusive

(* ErasedStaysErased: from the erasure to the restart nobody writes the flash,
   because the reset keeps the lock. *)
THEOREM ControlErasedStaysErased == Spec => []ErasedStaysErased
<1>1. Init => ErasedStaysErased
  BY DEF Init, ErasedStaysErased
<1>2. Inv /\ ErasedStaysErased /\ [Next]_vars => ErasedStaysErased'
  <2> SUFFICES ASSUME Inv, ErasedStaysErased, [Step]_controlVars, reset' = "restart"
               PROVE  nvs' = Erased
    BY OneDevice DEF ErasedStaysErased
  <2>1. CASE reset = "restart"
    BY <2>1, FlashWriters DEF ErasedStaysErased, Inv, LockInv
  <2>2. CASE ResetErases
    BY <2>2 DEF ResetErases
  <2>3. CASE reset # "restart" /\ ~ResetErases
    BY <2>3
    DEF Step, Boot, PowerCycle, Dispatch, Connected, TaskSteps, OtherTakes,
          OtherGives, ResetBegins, ResetSteps, Sensor, Tick, RelayInit, ModeInit,
          BootForced, BootFails, JobDone, ModeAlready, ModeOn, ModeOff, ForceChannel,
          ForcedOff, ReportOff, ReportOn, RelayKey, RelayWhileOff, RelayAlready,
          RelaySet, RelayDelta, Rollback, GuardWrite, TakeLock, ResetLocks,
          ResetTakesClient, ResetStopsClient, ResetJoins, ResetRestarts,
          SensorMeasures, SensorTelemetry, SensorShadow,
          Write, Restart, controlVars, guardVars
  <2> QED BY <2>1, <2>2, <2>3
<1> QED BY <1>1, <1>2, InvHolds, PTL DEF Spec

-----------------------------------------------------------------------------
\* Only three steps move a relay while the device runs, and none of them while
\* the mode is off.
LEMMA RelayMoves ==
    ASSUME Inv, [Step]_controlVars, phase = "run", phase' = "run", state' # state
    PROVE  /\ mode /\ mode' = mode
           /\ \E c \in Channel : state' = [state EXCEPT ![c] = ~@]
<1> state \in [Channel -> BOOLEAN] /\ task \in TaskState
  BY DEF Inv, TypeOK
<1>1. CASE ForceChannel
  <2>1. task.pc = "force" /\ task.at = "force" /\ mode
    BY <1>1 DEF ForceChannel, Inv, TaskInv, ModeInv
  <2>2. task.ch \in Channel
    BY <1>1 DEF ForceChannel, TaskState, Channel
  <2>3. state[task.ch] /\ state' = [state EXCEPT ![task.ch] = FALSE] /\ mode' = mode
    BY <1>1 DEF ForceChannel
  <2>4. state' = [state EXCEPT ![task.ch] = ~@]
    BY <2>2, <2>3
  <2> QED BY <2>1, <2>2, <2>3, <2>4
<1>2. CASE RelayKey
  <2>1. PICK c \in Channel : RelaySet(c)
    BY <1>2 DEF RelayKey, RelayWhileOff, RelayAlready, boardVars
  <2> QED BY <2>1 DEF RelaySet
<1>3. CASE Rollback
  <2>1. mode /\ task.ch \in Channel
    BY <1>3 DEF Rollback, Inv, TaskInv, ModeInv
  <2>2. state' = [state EXCEPT ![task.ch] = task.prev] /\ mode' = mode
    BY <1>3 DEF Rollback
  <2>3. task.prev \in BOOLEAN /\ state[task.ch] \in BOOLEAN
    BY <2>1 DEF TaskState
  <2>4. task.prev # state[task.ch]
    BY <2>1, <2>2, <2>3
  <2>5. state' = [state EXCEPT ![task.ch] = ~@]
    BY <2>1, <2>2, <2>3, <2>4
  <2> QED BY <2>1, <2>2, <2>5
<1>4. CASE ~ForceChannel /\ ~RelayKey /\ ~Rollback
  BY <1>4
     DEF Step, Boot, PowerCycle, Dispatch, Connected, TaskSteps, OtherTakes,
         OtherGives, ResetBegins, ResetSteps, Sensor, Tick, RelayInit, ModeInit,
         BootForced, BootFails, JobDone, ModeAlready, ModeOn, ModeOff, ForcedOff,
         ReportOff, ReportOn, RelayDelta, GuardWrite, TakeLock, Write, ResetLocks,
         ResetTakesClient, ResetStopsClient, ResetJoins, ResetErases, ResetRestarts,
         Restart, SensorMeasures, SensorTelemetry, SensorShadow, controlVars, boardVars
<1> QED BY <1>1, <1>2, <1>3, <1>4

\* A step of the detailed program is a step of the panel or a stutter.
LEMMA PanelStep ==
    ASSUME Inv, Inv', [Step]_controlVars
    PROVE  [Panel!Next]_(Panel!panelVars)
<1> USE DEF Panel!Next, Panel!panelVars, Panel!AllOff, Panel!Channel, AllOff, Channel
<1>1. CASE phase # "run" /\ phase' # "run"
  BY <1>1
<1>2. CASE phase # "run" /\ phase' = "run"
  <2>1. mode' \in BOOLEAN /\ state' \in [Channel -> BOOLEAN]
    BY DEF Inv, TypeOK
  <2>2. ~mode' => state' = AllOff
    BY <1>2 DEF Inv, OffInv
  <2>3. Panel!Start
    BY <1>2, <2>1, <2>2 DEF Panel!Start
  <2> QED BY <2>3
<1>3. CASE phase = "run" /\ phase' # "run"
  BY <1>3 DEF Panel!Stop
<1>4. CASE phase = "run" /\ phase' = "run"
  <2>1. CASE state' # state
    <3>1. PICK c \in Channel : state' = [state EXCEPT ![c] = ~@]
      BY <1>4, <2>1, RelayMoves
    <3>2. mode /\ mode' = mode
      BY <1>4, <2>1, RelayMoves
    <3>3. Panel!Switch(c)
      BY <1>4, <3>1, <3>2 DEF Panel!Switch
    <3> QED BY <3>3
  <2>2. CASE state' = state /\ mode' = mode
    BY <1>4, <2>2
  <2>3. CASE state' = state /\ mode /\ ~mode'
    <3>1. state = AllOff
      BY <1>4, <2>3 DEF Inv, OffInv
    <3>2. Panel!TurnOff
      BY <1>4, <2>3, <3>1 DEF Panel!TurnOff
    <3> QED BY <3>2
  <2>4. CASE state' = state /\ ~mode /\ mode'
    BY <1>4, <2>4 DEF Panel!TurnOn
  <2>5. mode \in BOOLEAN /\ mode' \in BOOLEAN
    BY DEF Inv, TypeOK
  <2> QED BY <2>1, <2>2, <2>3, <2>4, <2>5
<1> QED BY <1>1, <1>2, <1>3, <1>4

(* ImplementsPanel: whatever the boot, the handler, a reset or a fault does, the
   relays move one at a time and only while the mode is on, and the mode goes
   off, or comes back off after a restart, only with every relay off. *)
THEOREM ControlImplementsPanel == Spec => ImplementsPanel
<1>1. Init => Panel!Init
  BY DEF Init, Panel!Init, Panel!AllOff, Panel!Channel, AllOff, Channel
<1>2. Inv /\ Inv' /\ [Next]_vars => [Panel!Next]_(Panel!panelVars)
  BY OneDevice, PanelStep
<1> QED BY <1>1, <1>2, InvHolds, PTL DEF Spec, ImplementsPanel, Panel!Spec

-----------------------------------------------------------------------------
\* While no pin refuses to move, the pins are a copy of s_state.
PinInv == gpio = state

LEMMA PinStep ==
    ASSUME "gpio" \notin Faults, Inv, PinInv, [Step]_controlVars
    PROVE  PinInv'
<1> USE DEF PinInv
<1>1. CASE ForceChannel
  BY <1>1 DEF ForceChannel
<1>2. CASE RelayKey
  BY <1>2 DEF RelayKey, RelayWhileOff, RelayAlready, RelaySet, boardVars
<1>3. CASE Rollback
  BY <1>3 DEF Rollback
<1>4. CASE RelayInit \/ PowerCycle \/ BootFails \/ ResetRestarts
  BY <1>4 DEF RelayInit, PowerCycle, BootFails, ResetRestarts, Restart, boardVars
<1>5. CASE /\ ~ForceChannel /\ ~RelayKey /\ ~Rollback
           /\ ~(RelayInit \/ PowerCycle \/ BootFails \/ ResetRestarts)
  BY <1>5
     DEF Step, Boot, Dispatch, Connected, TaskSteps, OtherTakes,
         OtherGives, ResetBegins, ResetSteps, Sensor, Tick, ModeInit,
         BootForced, JobDone, ModeAlready, ModeOn, ModeOff, ForcedOff,
         ReportOff, ReportOn, RelayDelta, GuardWrite, TakeLock, Write, ResetLocks,
         ResetTakesClient, ResetStopsClient, ResetJoins, ResetErases, SensorMeasures,
         SensorTelemetry, SensorShadow, controlVars, boardVars
<1> QED BY <1>1, <1>2, <1>3, <1>4, <1>5

NoPinFails == \A d \in Devices : "gpio" \notin d.faults

LEMMA PinHolds ==
    ASSUME NoPinFails
    PROVE  Spec => []PinInv
<1>1. Init => PinInv
  BY DEF Init, PinInv
<1>2. Inv /\ PinInv /\ [Next]_vars => PinInv'
  <2> SUFFICES ASSUME Inv, PinInv, [Next]_vars
               PROVE  PinInv'
    OBVIOUS
  <2>1. "gpio" \notin Faults
    BY DEF NoPinFails, Faults, Inv, TypeOK
  <2> QED BY <2>1, OneDevice, PinStep
<1> QED BY <1>1, <1>2, InvHolds, PTL DEF Spec

(* OffMeansOff: as long as the GPIO driver does what it is told, a running
   device whose mode is off energises no relay, whatever the flash, the
   publisher or the power does. *)
THEOREM ControlOffMeansOff ==
    ASSUME \A d \in Devices : "gpio" \notin d.faults
    PROVE  Spec => []OffMeansOff
<1>1. Inv /\ PinInv => OffMeansOff
  BY DEF Inv, OffInv, PinInv, OffMeansOff
<1>2. NoPinFails
  BY DEF NoPinFails
<1> QED BY <1>1, <1>2, InvHolds, PinHolds, PTL

-----------------------------------------------------------------------------
(* The flash and the server's shadow, as the handler keeps them.            *)

\* What a step of the handler makes of the task's fields.
LEMMA GotoFields ==
    ASSUME TypeOK, NEW pc, Goto(pc)
    PROVE  /\ task'.pc = pc /\ task'.at = task.at /\ task'.ch = task.ch
           /\ task'.stuck = task.stuck
  BY DEF Goto, TypeOK, TaskState

LEMMA SaveFields ==
    ASSUME TypeOK, NEW at, Save(at)
    PROVE  /\ task'.pc = "guard" /\ task'.at = at /\ task'.ch = task.ch
           /\ task'.stuck = task.stuck
  BY DEF Save, TypeOK, TaskState

Ended == task'.at = "none" /\ task'.pc \in {"idle", "next"} /\ ~task'.stuck

LEMMA EndFields ==
    /\ \A a : Answered(a) => Ended
    /\ \A job \in Job : task' = KeyDone(job) => Ended
    /\ TypeOK => \A f \in BOOLEAN : EndModeKey(f) => Ended
<1>1. \A a : Answered(a) => Ended
  BY DEF Answered, Ended, Idle
<1>2. \A job \in Job : task' = KeyDone(job) => Ended
  BY DEF KeyDone, Ended, Idle
<1>3. TypeOK => \A f \in BOOLEAN : EndModeKey(f) => Ended
  BY <1>1, <1>2, AfterModeType DEF EndModeKey
<1> QED BY <1>1, <1>2, <1>3

LEMMA SavedFields ==
    ASSUME TypeOK, NEW f \in BOOLEAN, Saved(f)
    PROVE  /\ task.at # "none"
           /\ task.at = "relay" =>
                 /\ task'.pc = IF f THEN "rollback" ELSE "delta"
                 /\ task'.at = "relay" /\ task'.ch = task.ch /\ task'.stuck = task.stuck
           /\ task.at \in {"force", "boot"} =>
                 /\ task'.pc = "force" /\ task'.at = task.at
                 /\ ~f => task'.stuck = task.stuck
           /\ task.at \in {"undo", "modeoff"} => Ended
           /\ task.at = "modeon" =>
                 task'.pc = "report" /\ task'.at = "modeon" /\ task'.stuck = task.stuck
<1> task \in TaskState
  BY DEF TypeOK
<1>1. CASE task.at = "relay"
  BY <1>1, GotoFields DEF Saved
<1>2. CASE task.at = "undo"
  BY <1>2, EndFields DEF Saved
<1>3. CASE task.at \in {"force", "boot"}
  <2>1. task' = [task EXCEPT !.pc = "force", !.ch = @ + 1, !.stuck = @ \/ f]
    BY <1>3 DEF Saved
  <2>2. task'.pc = "force" /\ task'.at = task.at
    BY <2>1 DEF TaskState
  <2>3. task.stuck \in BOOLEAN /\ task'.stuck = (task.stuck \/ f)
    BY <2>1 DEF TaskState
  <2>4. ~f => task'.stuck = task.stuck
    BY <2>3
  <2> QED BY <1>3, <2>2, <2>4
<1>4. CASE task.at = "modeoff"
  <2>1. PICK g \in BOOLEAN : EndModeKey(g)
    BY <1>4 DEF Saved, TaskState
  <2> QED BY <1>4, <2>1, EndFields
<1>5. CASE task.at = "modeon"
  BY <1>5 DEF Saved, TaskState
<1> QED BY <1>1, <1>2, <1>3, <1>4, <1>5 DEF Saved

\* The flag is up exactly while a reset runs.
FlagInv == flag <=> reset # "no"

LEMMA FlagStep ==
    ASSUME FlagInv, [Step]_controlVars
    PROVE  FlagInv'
<1> USE DEF FlagInv
<1>1. CASE ResetBegins \/ ResetSteps
  BY <1>1
     DEF ResetBegins, ResetSteps, ResetLocks, ResetTakesClient, ResetStopsClient,
         ResetJoins, ResetErases, ResetRestarts, Restart
<1>2. CASE PowerCycle \/ BootFails
  BY <1>2 DEF PowerCycle, BootFails, Restart, guardVars
<1>3. CASE ~(ResetBegins \/ ResetSteps) /\ ~(PowerCycle \/ BootFails)
  <2>1. UNCHANGED <<flag, reset>>
    BY <1>3
    DEF Step, Boot, Dispatch, Connected, TaskSteps, OtherTakes,
         OtherGives, Sensor, Tick, RelayInit, ModeInit,
         BootForced, JobDone, ModeAlready, ModeOn, ModeOff, ForceChannel, ForcedOff,
         ReportOff, ReportOn, RelayKey, RelayWhileOff, RelayAlready, RelaySet, RelayDelta,
         Rollback, GuardWrite, TakeLock, Write, SensorMeasures,
         SensorTelemetry, SensorShadow, controlVars, guardVars
  <2> QED BY <2>1
<1> QED BY <1>1, <1>2, <1>3

\* Where an erasure never fails a reset ends in a restart.
LEMMA ResetOver ==
    ASSUME "erase" \notin Faults, [Step]_controlVars, reset # "no", reset' = "no"
    PROVE  Restart("relays")
  BY DEF Step, Boot, PowerCycle, Dispatch, Connected, TaskSteps, OtherTakes,
         OtherGives, ResetBegins, ResetSteps, Sensor, Tick, RelayInit, ModeInit,
         BootForced, BootFails, JobDone, ModeAlready, ModeOn, ModeOff, ForceChannel,
         ForcedOff, ReportOff, ReportOn, RelayKey, RelayWhileOff, RelayAlready,
         RelaySet, RelayDelta, Rollback, GuardWrite, TakeLock, Write, ResetLocks,
         ResetTakesClient, ResetStopsClient, ResetJoins, ResetErases, ResetRestarts,
         SensorMeasures, SensorTelemetry, SensorShadow, controlVars, guardVars

FlashWorks == Faults \cap {"nvs", "erase"} = {}

Writing == task.pc \in {"guard", "take", "write"}

\* The flash holds the relay, or the task is about to save it.
RelayKept(c) ==
    \/ nvs.relay[c] = state[c]
    \/ Writing /\ task.at \in {"relay", "force", "boot"} /\ task.ch = c

ModeKept ==
    \/ nvs.mode = mode
    \/ task.pc = "off"
    \/ Writing /\ task.at \in {"modeoff", "modeon"}

KeptInv ==
    FlashWorks /\ reset = "no" =>
        /\ task.pc # "rollback" /\ task.at # "undo"
        /\ phase \in {"mode", "run"} => \A c \in Channel : RelayKept(c)
        /\ phase = "run" \/ task.at = "boot" => ModeKept

LEMMA RestartKept == Restart("relays") => KeptInv'
  BY DEF Restart, KeptInv, Idle

\* Steps that leave board and flash alone, with nothing to save or to go on saving.
LEMMA QuietKept ==
    ASSUME Inv, KeptInv, reset = "no", UNCHANGED <<phase, mode, state, nvs, Faults>>,
           \/ Ended /\ ~Writing /\ task.pc # "off"
           \/ UNCHANGED task
    PROVE  KeptInv'
<1> USE DEF KeptInv, RelayKept, ModeKept, Writing, FlashWorks
<1>1. CASE Ended /\ ~Writing /\ task.pc # "off"
  BY <1>1 DEF Ended
<1>2. CASE UNCHANGED task
  BY <1>2
<1> QED BY <1>1, <1>2

LEMMA BootKept ==
    ASSUME Inv, KeptInv, FlashWorks, reset = "no", UNCHANGED Faults,
           RelayInit \/ ModeInit \/ BootForced
    PROVE  KeptInv'
<1> USE DEF KeptInv, RelayKept, ModeKept, Writing
<1>1. CASE RelayInit
  <2>1. task.pc = "idle" /\ task.at = "none"
    BY <1>1 DEF RelayInit, Inv, TaskInv
  <2> QED BY <1>1, <2>1 DEF RelayInit
<1>2. CASE ModeInit
  <2>1. task.at = "none" /\ task.pc = "idle"
    BY <1>2 DEF ModeInit, Inv, TaskInv
  <2>2. task'.pc # "rollback" /\ task'.at # "undo"
    BY <1>2, <2>1 DEF ModeInit, Idle
  <2> QED BY <1>2, <2>1, <2>2 DEF ModeInit
<1>3. CASE BootForced
  <2>1. task.pc = "force" /\ task.at = "boot" /\ phase = "mode"
    BY <1>3 DEF BootForced, Inv, ModeInv
  <2>2. \A c \in Channel : nvs.relay[c] = state[c]
    BY <2>1
  <2>3. nvs.mode = mode
    BY <2>1
  <2>4. task'.at = "none" /\ task'.pc = "idle"
    BY <1>3 DEF BootForced, Idle
  <2>5. UNCHANGED <<mode, state, nvs>>
    BY <1>3 DEF BootForced, boardVars
  <2> QED BY <2>2, <2>3, <2>4, <2>5
<1> QED BY <1>1, <1>2, <1>3

LEMMA ModeStepKept ==
    ASSUME Inv, KeptInv, FlashWorks, reset = "no", UNCHANGED Faults,
           \/ JobDone \/ ModeAlready \/ ModeOn \/ ModeOff \/ ForceChannel \/ ForcedOff
           \/ ReportOff \/ ReportOn
    PROVE  KeptInv'
<1> USE DEF KeptInv, RelayKept, ModeKept, Writing
<1> TypeOK /\ task \in TaskState
  BY DEF Inv, TypeOK
<1>1. CASE JobDone \/ ModeAlready \/ ReportOn
  <2>1. Ended
    BY <1>1, EndFields, AfterModeType
       DEF JobDone, ModeAlready, ReportOn, TaskState
  <2> QED BY <1>1, <2>1, QuietKept DEF JobDone, ModeAlready, ReportOn, boardVars, guardVars
<1>2. CASE ModeOn
  <2>1. task'.pc = "guard" /\ task'.at = "modeon"
    BY <1>2, SaveFields DEF ModeOn
  <2> QED BY <1>2, <2>1 DEF ModeOn, guardVars, Inv, TaskInv
<1>3. CASE ModeOff
  <2>1. task'.pc = "force" /\ task'.at = "force"
    BY <1>3 DEF ModeOff, TaskState
  <2>2. phase = "run"
    BY <1>3 DEF ModeOff, Inv, TaskInv
  <2> QED BY <1>3, <2>1, <2>2 DEF ModeOff, guardVars, boardVars
<1>4. CASE ForceChannel
  <2>1. task.pc = "force" /\ task.at \in {"force", "boot"} /\ task.ch \in Channel
    BY <1>4 DEF ForceChannel, Inv, TaskInv, TaskState, Channel
  <2>2. task'.at = task.at /\ task'.pc \in {"force", "guard"}
    BY <1>4, <2>1 DEF ForceChannel, Goto, TaskState
  <2>3. UNCHANGED <<phase, mode, nvs, reset>>
    BY <1>4 DEF ForceChannel, guardVars
  <2>4. \A c \in Channel : nvs.relay[c] = state[c]
    BY <2>1 DEF Inv, ModeInv
  <2>5. CASE state[task.ch]
    <3>1. task'.pc = "guard" /\ task'.ch = task.ch
      BY <1>4, <2>1, <2>5 DEF ForceChannel, Goto, TaskState
    <3>2. state' = [state EXCEPT ![task.ch] = FALSE]
      BY <1>4, <2>5 DEF ForceChannel
    <3>3. \A c \in Channel : c # task.ch => state'[c] = state[c]
      BY <3>2 DEF Inv, TypeOK
    <3>4. \A c \in Channel : RelayKept(c)'
      BY <2>1, <2>2, <2>3, <2>4, <3>1, <3>3
    <3> QED BY <2>1, <2>2, <2>3, <3>1, <3>4
  <2>6. CASE ~state[task.ch]
    <3>1. UNCHANGED state
      BY <1>4, <2>6 DEF ForceChannel
    <3> QED BY <2>1, <2>2, <2>3, <2>4, <3>1
  <2> QED BY <2>5, <2>6
<1>5. CASE ForcedOff
  <2>1. CASE task.stuck
    BY <1>5, <2>1, EndFields, QuietKept DEF ForcedOff, guardVars
  <2>2. CASE ~task.stuck
    <3>1. task'.pc = "off" /\ task'.at = "force"
      BY <1>5, <2>2, GotoFields DEF ForcedOff
    <3>2. phase = "run"
      BY <1>5 DEF ForcedOff, Inv, ModeInv
    <3> QED BY <1>5, <3>1, <3>2 DEF ForcedOff, guardVars
  <2> QED BY <2>1, <2>2
<1>6. CASE ReportOff
  <2>1. task'.pc = "guard" /\ task'.at = "modeoff"
    BY <1>6, SaveFields DEF ReportOff, TaskState
  <2>2. phase = "run"
    BY <1>6 DEF ReportOff, Inv, ModeInv
  <2> QED BY <1>6, <2>1, <2>2 DEF ReportOff, guardVars, boardVars
<1> QED BY <1>1, <1>2, <1>3, <1>4, <1>5, <1>6

LEMMA RelayStepKept ==
    ASSUME Inv, KeptInv, FlashWorks, reset = "no", UNCHANGED Faults,
           RelayKey \/ RelayDelta \/ Rollback
    PROVE  KeptInv'
<1> USE DEF KeptInv, RelayKept, ModeKept, Writing
<1> TypeOK /\ task \in TaskState /\ state \in [Channel -> BOOLEAN]
  BY DEF Inv, TypeOK
<1>1. ASSUME NEW c \in Channel, RelayWhileOff(c) \/ RelayAlready(c)
      PROVE  KeptInv'
  <2>1. Turn(c)
    BY <1>1 DEF RelayWhileOff, RelayAlready
  <2>2. Ended
    BY <1>1, <2>1, TurnFacts, EndFields DEF RelayWhileOff, RelayAlready
  <2> QED BY <1>1, <2>1, <2>2, QuietKept
          DEF RelayWhileOff, RelayAlready, boardVars, guardVars, Turn
<1>2. ASSUME NEW c \in Channel, RelaySet(c)
      PROVE  KeptInv'
  <2>1. task.pc = "next" /\ phase = "run" /\ task.at = "none"
    BY <1>2 DEF RelaySet, Turn, Inv, TaskInv
  <2>2. CASE Answered("error") /\ UNCHANGED <<state, gpio>>
    BY <1>2, <2>1, <2>2, EndFields, QuietKept DEF RelaySet, guardVars
  <2>3. CASE /\ state' = [state EXCEPT ![c] = ~@]
             /\ task' = [task EXCEPT !.pc = "guard", !.at = "relay", !.ch = c,
                                     !.prev = state[c]]
    <3>1. task'.pc = "guard" /\ task'.at = "relay" /\ task'.ch = c
      BY <2>3 DEF TaskState
    <3>2. \A d \in Channel : d # c => state'[d] = state[d]
      BY <2>3
    <3>3. UNCHANGED <<phase, mode, nvs, reset>>
      BY <1>2 DEF RelaySet, guardVars
    <3> QED BY <2>1, <3>1, <3>2, <3>3
  <2> QED BY <1>2, <2>2, <2>3 DEF RelaySet
<1>3. CASE RelayDelta
  <2>1. task.ch \in Channel
    BY <1>3 DEF RelayDelta, Inv, TaskInv, ModeInv
  <2>2. [task.job EXCEPT !.relay[task.ch] = "keep"] \in Job
    BY DEF TaskState, Job, Setting
  <2>3. Ended
    BY <1>3, <2>2, EndFields DEF RelayDelta, RelayDone
  <2> QED BY <1>3, <2>3, QuietKept DEF RelayDelta, boardVars, guardVars
<1>4. CASE Rollback
  BY <1>4 DEF Rollback
<1> QED BY <1>1, <1>2, <1>3, <1>4 DEF RelayKey

LEMMA WriterKept ==
    ASSUME Inv, KeptInv, FlagInv, FlashWorks, reset = "no", UNCHANGED Faults,
           GuardWrite \/ TakeLock \/ Write
    PROVE  KeptInv'
<1> USE DEF KeptInv, RelayKept, ModeKept, Writing
<1> TypeOK /\ task \in TaskState /\ state \in [Channel -> BOOLEAN] /\ ~flag
  BY DEF Inv, TypeOK, FlagInv
<1>1. CASE GuardWrite \/ TakeLock
  <2>1. /\ task'.pc \in {"take", "write"} /\ task'.at = task.at /\ task'.ch = task.ch
        /\ task.pc \in {"guard", "take"}
    BY <1>1, GotoFields DEF GuardWrite, TakeLock
  <2>2. UNCHANGED <<phase, mode, state, nvs, reset>>
    BY <1>1 DEF GuardWrite, TakeLock, boardVars, guardVars
  <2> QED BY <2>1, <2>2
<1>2. CASE Write
  <2>1. Saved(FALSE) /\ nvs' = Written /\ task.pc = "write"
    BY <1>2 DEF Write, FlashWorks
  <2>2. UNCHANGED <<phase, mode, state, reset>>
    BY <1>2 DEF Write, boardVars
  <2>3. /\ task.at \in {"relay", "force", "boot", "modeoff", "modeon"}
        /\ task'.pc \in {"delta", "force", "idle", "next", "report"} /\ task'.at # "undo"
        /\ task'.at = "boot" => task.at = "boot"
    BY <2>1, SavedFields DEF Ended, TaskState
  <2>4. nvs \in [mode : BOOLEAN, relay : [Channel -> BOOLEAN]]
    BY DEF TypeOK
  <2>5. CASE task.at \in {"modeoff", "modeon"}
    <3>1. nvs'.mode = mode /\ nvs'.relay = nvs.relay
      BY <2>1, <2>4, <2>5 DEF Written
    <3> QED BY <2>2, <2>3, <2>5, <3>1
  <2>6. CASE task.at \notin {"modeoff", "modeon"}
    <3>1. task.ch \in Channel
      BY <2>1, <2>3, <2>6 DEF Inv, ModeInv, ForceInv
    <3>2. nvs' = [nvs EXCEPT !.relay[task.ch] = state[task.ch]]
      BY <2>1, <2>6 DEF Written
    <3>3. nvs'.mode = nvs.mode
      BY <2>4, <3>2
    <3>4. \A c \in Channel :
             nvs'.relay[c] = IF c = task.ch THEN state[c] ELSE nvs.relay[c]
      BY <2>4, <3>1, <3>2
    <3>5. phase \in {"mode", "run"} => \A c \in Channel : nvs'.relay[c] = state[c]
      BY <3>4
    <3> QED BY <2>1, <2>2, <2>3, <2>6, <3>3, <3>5
  <2> QED BY <2>5, <2>6
<1> QED BY <1>1, <1>2

LEMMA KeptStep ==
    ASSUME Inv, KeptInv, FlagInv, [Step]_controlVars, UNCHANGED Faults
    PROVE  KeptInv'
<1>1. CASE ~FlashWorks \/ reset' # "no"
  BY <1>1 DEF KeptInv, FlashWorks
<1>2. CASE FlashWorks /\ reset' = "no" /\ reset # "no"
  <2>1. Restart("relays")
    BY <1>2, ResetOver DEF FlashWorks
  <2> QED BY <2>1, RestartKept
<1>3. CASE FlashWorks /\ reset' = "no" /\ reset = "no"
  <2>1. CASE RelayInit \/ ModeInit \/ BootForced
    BY <1>3, <2>1, BootKept
  <2>2. CASE BootFails
    <3>1. Restart("relays") \/ (phase' = "safe" /\ task' = [Idle EXCEPT !.pc = "stopped"])
      BY <2>2 DEF BootFails
    <3>2. [Idle EXCEPT !.pc = "stopped"].pc = "stopped"
          /\ [Idle EXCEPT !.pc = "stopped"].at = "none"
      BY DEF Idle
    <3> QED BY <3>1, <3>2, RestartKept DEF KeptInv
  <2>3. CASE PowerCycle
    BY <2>3, RestartKept DEF PowerCycle
  <2>4. CASE \E job \in Job : Dispatch(job)
    <3>1. PICK job \in Job : Dispatch(job)
      BY <2>4
    <3>2. Ended /\ ~Writing /\ task.pc # "off"
      BY <3>1, EndFields DEF Dispatch, Writing
    <3> QED BY <1>3, <3>1, <3>2, QuietKept DEF Dispatch, boardVars, guardVars
  <2>5. CASE Connected \/ OtherTakes \/ OtherGives \/ Sensor \/ Tick \/ UNCHANGED controlVars
    <3>1. UNCHANGED <<phase, mode, state, nvs, task>>
      BY <2>5 DEF Connected, OtherTakes, OtherGives, Sensor, SensorMeasures,
         SensorTelemetry, SensorShadow, Tick, controlVars, boardVars
    <3> QED BY <1>3, <3>1, QuietKept
  <2>6. CASE TaskSteps
    BY <1>3, <2>6, ModeStepKept, RelayStepKept, WriterKept DEF TaskSteps
  <2>7. ~ResetBegins /\ ~ResetSteps
    BY <1>3
    DEF ResetBegins, ResetSteps, ResetLocks, ResetTakesClient, ResetStopsClient,
        ResetJoins, ResetErases, ResetRestarts
  <2> QED BY <2>1, <2>2, <2>3, <2>4, <2>5, <2>6, <2>7 DEF Step, Boot
<1> QED BY <1>1, <1>2, <1>3

LEMMA FlagHolds == Spec => []FlagInv
<1>1. Init => FlagInv
  BY DEF Init, FlagInv
<1>2. FlagInv /\ [Next]_vars => FlagInv'
  BY OneDevice, FlagStep
<1> QED BY <1>1, <1>2, PTL DEF Spec

LEMMA KeptHolds == Spec => []KeptInv
<1>1. Init => KeptInv
  BY DEF Init, KeptInv, Idle
<1>2. Inv /\ KeptInv /\ FlagInv /\ [Next]_vars => KeptInv'
  BY OneDevice, KeptStep
<1> QED BY <1>1, <1>2, InvHolds, FlagHolds, PTL DEF Spec

(* IdleIsDurable: whatever a device whose flash works is told, and however often
   it loses power, between two jobs its flash holds the mode and the relays it
   shows: relay.c and device_mode.c save each before they answer. *)
THEOREM ControlIdleIsDurable == Spec => []IdleIsDurable
<1>1. Inv /\ KeptInv => IdleIsDurable
  <2> SUFFICES ASSUME Inv, KeptInv, FlashWorks,
                      phase = "run", task.pc = "idle", reset = "no"
               PROVE  Restored = [mode |-> mode, relay |-> state]
    BY DEF IdleIsDurable, FlashWorks
  <2>1. nvs.mode = mode /\ \A c \in Channel : nvs.relay[c] = state[c]
    BY DEF KeptInv, RelayKept, ModeKept, Writing
  <2>2. nvs.relay = state
    BY <2>1 DEF Inv, TypeOK
  <2>3. ~mode => state = AllOff
    BY DEF Inv, OffInv
  <2> QED BY <2>1, <2>2, <2>3 DEF Restored
<1> QED BY <1>1, InvHolds, KeptHolds, PTL

-----------------------------------------------------------------------------
\* Nothing that waits to be sent, and nothing sent, is of a second to come; no
\* report has been refused.
Timely ==
    /\ reported.ts <= clock /\ sensor.ts <= clock /\ sensor.late <= clock
    /\ ~outdated

ClockInv == Steady => Timely

\* What is reported now replaces what the server has, or the report is lost.
LEMMA ReportFields ==
    ASSUME TypeOK, NEW m \in BOOLEAN, NEW r, Report(m, r, clock) \/ Unreported
    PROVE  \/ missed' \/ outdated'
           \/ /\ reported'.mode = m /\ reported'.relay = r
              /\ UNCHANGED <<missed, outdated>>
<1>1. CASE Unreported
  BY <1>1 DEF Unreported
<1>2. CASE Report(m, r, clock) /\ ~(clock < reported.ts)
  <2>1. clock >= reported.ts
    BY <1>2 DEF TypeOK, Clock
  <2> QED BY <1>2, <2>1 DEF TypeOK, Report, Merge
<1>3. CASE Report(m, r, clock) /\ clock < reported.ts
  BY <1>3 DEF Report
<1> QED BY <1>1, <1>2, <1>3

LEMMA ReportTimely ==
    ASSUME TypeOK, Timely, UNCHANGED <<clock, sensor>>, NEW m, NEW r,
           Report(m, r, clock) \/ Unreported
    PROVE  Timely'
<1>1. /\ reported.ts \in Nat /\ clock \in Nat
      /\ clock >= reported.ts /\ ~(clock < reported.ts)
  BY DEF TypeOK, Timely, Clock
<1>2. CASE Unreported
  BY <1>2 DEF Unreported, Timely
<1>3. CASE Report(m, r, clock)
  <2>1. reported' = [mode |-> m, relay |-> r, ts |-> clock] /\ ~outdated'
    BY <1>1, <1>3 DEF Report, Merge, Timely
  <2> QED BY <1>1, <2>1 DEF Timely
<1> QED BY <1>2, <1>3

\* What the sensor's task sends may switch the mode on, and moves no relay.
LEMMA ShowFields ==
    ASSUME TypeOK, NEW sent, NEW ts \in Clock, Show(sent, ts)
    PROVE  /\ reported'.relay = reported.relay
           /\ ~reported'.mode => ~reported.mode
           /\ ts <= clock /\ reported.ts <= clock => reported'.ts <= clock
  BY DEF TypeOK, Show, Merge

LEMMA SensorFields ==
    ASSUME Inv, Sensor
    PROVE  /\ reported'.relay = reported.relay
           /\ ~reported'.mode => ~reported.mode
           /\ Steady /\ Timely => Timely'
           /\ UNCHANGED <<phase, mode, state, reset, mqtt, task, missed, outdated>>
<1> TypeOK /\ sensor \in SensorState /\ clock \in Clock
  BY DEF Inv, TypeOK
<1> sensor.ts \in Clock /\ sensor.late \in Clock /\ Clock \subseteq Nat
  BY DEF SensorState, Clock
<1>1. UNCHANGED <<phase, mode, state, reset, mqtt, task, missed, outdated, clock>>
  BY DEF Sensor, SensorMeasures, SensorTelemetry, SensorShadow, boardVars, guardVars
<1>2. CASE SensorMeasures
  <2>1. PICK sent \in SUBSET sensor.unsent, t \in SensorTime :
           /\ Show(sent, sensor.late)
           /\ sensor' = [sensor EXCEPT !.pc = "measured", !.ts = t,
                                       !.unsent = @ \ sent]
    BY <1>2 DEF SensorMeasures
  <2>2. sensor'.ts = t /\ sensor'.late = sensor.late
    BY <2>1 DEF SensorState
  <2>3. Steady => t = clock
    BY DEF SensorTime
  <2>4. Steady /\ Timely => clock <= clock /\ sensor.late <= clock
    BY DEF Timely
  <2> QED BY <1>1, <2>1, <2>2, <2>3, <2>4, ShowFields DEF Timely
<1>3. CASE SensorTelemetry
  <2>1. PICK sent : Show(sent, sensor.ts)
    BY <1>3 DEF SensorTelemetry
  <2>2. sensor'.ts = sensor.ts /\ sensor'.late = sensor.late
    BY <1>3 DEF SensorTelemetry, SensorState
  <2> QED BY <1>1, <2>1, <2>2, ShowFields DEF Timely
<1>4. CASE SensorShadow
  <2>1. PICK sent : /\ Show(sent, sensor.ts)
                    /\ sensor' = [sensor EXCEPT !.pc = "asleep",
                                     !.unsent = @ \cup ({"shadow"} \ sent),
                                     !.late = IF sent = {} THEN sensor.ts ELSE @]
    BY <1>4 DEF SensorShadow
  <2>2. sensor'.ts = sensor.ts /\ sensor'.late \in {sensor.ts, sensor.late}
    BY <2>1 DEF SensorState
  <2> QED BY <1>1, <2>1, <2>2, ShowFields DEF Timely
<1> QED BY <1>1, <1>2, <1>3, <1>4 DEF Sensor

LEMMA ClockStep ==
    ASSUME Inv, ClockInv, [Step]_controlVars, UNCHANGED Steady
    PROVE  ClockInv'
<1> SUFFICES ASSUME Timely, Steady
             PROVE  Timely'
  BY DEF ClockInv
<1> TypeOK /\ clock \in Nat
  BY DEF Inv, TypeOK, Clock
<1>1. CASE Sensor
  BY <1>1, SensorFields
<1>2. CASE Connected
  <2>1. reported.ts \in Nat /\ clock >= reported.ts /\ ~(clock < reported.ts)
    BY DEF TypeOK, Timely, Clock
  <2>2. reported'.ts = clock /\ ~outdated' /\ UNCHANGED <<clock, sensor>>
    BY <1>2, <2>1 DEF Connected, Merge
  <2> QED BY <2>1, <2>2 DEF Timely
<1>3. CASE ReportOff
  <2>1. Report(FALSE, AllOff, clock) \/ Unreported
    BY <1>3 DEF ReportOff
  <2>2. UNCHANGED <<clock, sensor>>
    BY <1>3 DEF ReportOff
  <2> QED BY <2>1, <2>2, ReportTimely
<1>4. CASE ReportOn
  <2>1. Report(TRUE, state, clock) \/ Unreported
    BY <1>4 DEF ReportOn
  <2>2. UNCHANGED <<clock, sensor>>
    BY <1>4 DEF ReportOn
  <2> QED BY <2>1, <2>2, ReportTimely
<1>5. CASE RelayDelta
  <2> DEFINE r == [reported.relay EXCEPT ![task.ch] = state[task.ch]]
  <2>1. Report(TRUE, r, clock) \/ Unreported
    BY <1>5 DEF RelayDelta
  <2>2. UNCHANGED <<clock, sensor>>
    BY <1>5 DEF RelayDelta
  <2> HIDE DEF r
  <2> QED BY <2>1, <2>2, ReportTimely
<1>6. CASE Tick
  <2>1. clock' = clock + 1 /\ UNCHANGED <<reported, sensor, outdated>>
    BY <1>6 DEF Tick, reportVars
  <2>2. reported.ts \in Nat /\ sensor.ts \in Nat /\ sensor.late \in Nat
    BY DEF Inv, TypeOK, SensorState, Clock
  <2> QED BY <2>1, <2>2 DEF Timely
<1>7. CASE PowerCycle \/ BootFails \/ ResetRestarts
  <2>1. UNCHANGED <<clock, reported, outdated>> /\ sensor' \in {sensor, Asleep}
    BY <1>7 DEF PowerCycle, BootFails, ResetRestarts, Restart, reportVars
  <2> QED BY <2>1 DEF Asleep, Timely
<1>8. CASE /\ ~(Sensor \/ Connected \/ ReportOff \/ ReportOn \/ RelayDelta \/ Tick)
           /\ ~(PowerCycle \/ BootFails \/ ResetRestarts)
  <2>1. UNCHANGED <<clock, reported, sensor, outdated>>
    BY <1>8
    DEF Step, Boot, Dispatch, TaskSteps, OtherTakes,
         OtherGives, ResetBegins, ResetSteps, RelayInit, ModeInit,
         BootForced, JobDone, ModeAlready, ModeOn, ModeOff, ForceChannel, ForcedOff,
         RelayKey, RelayWhileOff, RelayAlready, RelaySet,
         Rollback, GuardWrite, TakeLock, Write, ResetLocks,
         ResetTakesClient, ResetStopsClient, ResetJoins, ResetErases,
         controlVars, reportVars
  <2> QED BY <2>1 DEF Timely
<1> QED BY <1>1, <1>2, <1>3, <1>4, <1>5, <1>6, <1>7, <1>8

-----------------------------------------------------------------------------
\* Neither flash nor pin fails, and no erasure gives a reset up.
BoardWorks == Faults \subseteq {"power", "publish"}

StuckInv ==
    /\ task.at = "none" => ~task.stuck
    /\ BoardWorks /\ reset = "no" /\ task.at = "force" => ~task.stuck

Told == mqtt = "up" /\ ~missed /\ ~outdated

\* The server has every relay, but for the one a command is moving.
RelaysShown ==
    BoardWorks /\ reset = "no" /\ Told =>
        /\ task.at \in {"none", "modeoff", "modeon"} => reported.relay = state
        /\ task.at = "relay" =>
              \A c \in Channel : c = task.ch \/ reported.relay[c] = state[c]

OffShown == Told /\ ~reported.mode => ~mode \/ task.at = "modeon"

ShownInv == (phase # "run" => missed) /\ StuckInv /\ RelaysShown /\ OffShown

LEMMA RestartShown == Restart("relays") => ShownInv'
  BY DEF Restart, ShownInv, StuckInv, RelaysShown, OffShown, Told, Idle

\* Steps that move neither mode nor relay, while the server has all of them.
LEMMA QuietShown ==
    ASSUME ShownInv, BoardWorks /\ reset' = "no" => reset = "no",
           UNCHANGED <<phase, mode, state, missed, outdated, Faults>>,
           mqtt' = "up" => mqtt = "up",
           reported'.relay = reported.relay, ~reported'.mode => ~reported.mode,
           \/ Ended /\ task.at \in {"none", "modeoff"}
           \/ UNCHANGED task
    PROVE  ShownInv'
<1> USE DEF ShownInv, StuckInv, RelaysShown, OffShown, Told, BoardWorks
<1>1. CASE Ended /\ task.at \in {"none", "modeoff"}
  BY <1>1 DEF Ended
<1>2. CASE UNCHANGED task
  BY <1>2
<1> QED BY <1>1, <1>2

\* Steps with which the server is told, or misses, everything.
LEMMA ToldShown ==
    ASSUME ~task'.stuck, phase' = "run",
           \/ missed' \/ outdated'
           \/ reported'.relay = state' /\ (~reported'.mode => ~mode')
    PROVE  ShownInv'
  BY DEF ShownInv, StuckInv, RelaysShown, OffShown, Told

LEMMA BootShown ==
    ASSUME Inv, ShownInv, Boot
    PROVE  ShownInv'
<1>1. phase # "run"
  BY DEF Boot, RelayInit, ModeInit, BootForced, BootFails, Inv, ModeInv
<1>2. missed'
  BY <1>1 DEF ShownInv, Boot, RelayInit, ModeInit, BootForced, BootFails, Restart,
              reportVars
<1>3. task'.at = "boot" \/ (task'.at = "none" /\ ~task'.stuck)
  <2>1. CASE RelayInit
    BY <2>1 DEF RelayInit, Inv, TaskInv, ShownInv, StuckInv
  <2>2. CASE ModeInit
    <3>1. task.at = "none" /\ ~task.stuck
      BY <2>2 DEF ModeInit, Inv, TaskInv, ShownInv, StuckInv
    <3>2. [Idle EXCEPT !.pc = "force", !.at = "boot"].at = "boot"
      BY DEF Idle
    <3>3. CASE UNCHANGED task
      BY <3>1, <3>3
    <3>4. CASE task' = [Idle EXCEPT !.pc = "force", !.at = "boot"]
      BY Zenon, <3>2, <3>4
    <3> QED BY Zenon, <2>2, <3>3, <3>4 DEF ModeInit
  <2>3. CASE BootForced
    BY <2>3 DEF BootForced, Idle
  <2>4. CASE BootFails
    BY <2>4 DEF BootFails, Restart, Idle
  <2> QED BY <2>1, <2>2, <2>3, <2>4 DEF Boot
<1>4. task'.at = "none" => ~task'.stuck
  BY <1>3
<1>5. task'.at # "force"
  BY <1>3
<1> QED BY <1>2, <1>4, <1>5 DEF ShownInv, StuckInv, RelaysShown, OffShown, Told

LEMMA ModeStepShown ==
    ASSUME Inv, ShownInv,
           \/ JobDone \/ ModeAlready \/ ModeOn \/ ModeOff \/ ForceChannel \/ ForcedOff
           \/ ReportOff \/ ReportOn,
           UNCHANGED Faults
    PROVE  ShownInv'
<1> TypeOK /\ task \in TaskState /\ state \in [Channel -> BOOLEAN] /\ mode \in BOOLEAN
  BY DEF Inv, TypeOK
<1> USE DEF boardVars, guardVars, reportVars
<1>1. CASE JobDone \/ ModeAlready
  <2>1. task.at = "none"
    BY <1>1 DEF JobDone, ModeAlready, Inv, TaskInv
  <2>2. Ended
    BY <1>1, EndFields, AfterModeType DEF JobDone, ModeAlready
  <2> QED BY <1>1, <2>1, <2>2, QuietShown DEF JobDone, ModeAlready
<1>2. CASE ModeOn
  <2>1. task.at = "none" /\ task'.at = "modeon"
    BY <1>2, SaveFields DEF ModeOn, Inv, TaskInv
  <2>2. UNCHANGED <<phase, state, reset, mqtt, reported, missed, outdated>>
    BY <1>2 DEF ModeOn
  <2> QED BY <2>1, <2>2
          DEF ShownInv, StuckInv, RelaysShown, OffShown, Told, BoardWorks
<1>3. CASE ModeOff
  <2>1. task.at = "none" /\ ~task.stuck
    BY <1>3 DEF ModeOff, Inv, TaskInv, ShownInv, StuckInv
  <2>2. task'.at = "force" /\ task'.stuck = task.stuck
    BY <1>3 DEF ModeOff, TaskState
  <2>3. UNCHANGED <<phase, mode, mqtt, reported, missed, outdated>>
    BY <1>3 DEF ModeOff
  <2> QED BY <2>1, <2>2, <2>3 DEF ShownInv, StuckInv, RelaysShown, OffShown, Told
<1>4. CASE ForceChannel
  <2>1. task.at \in {"force", "boot"} /\ task'.at = task.at
    BY <1>4 DEF ForceChannel, Goto, Inv, TaskInv, TaskState
  <2>2. "gpio" \notin Faults => task'.stuck = task.stuck
    BY <1>4 DEF ForceChannel, Goto, TaskState
  <2>3. UNCHANGED <<phase, mode, reset, mqtt, reported, missed, outdated>>
    BY <1>4 DEF ForceChannel
  <2> QED BY <2>1, <2>2, <2>3
          DEF ShownInv, StuckInv, RelaysShown, OffShown, Told, BoardWorks
<1>5. CASE ForcedOff
  <2>1. CASE task.stuck
    <3>1. Ended /\ task.at = "force" /\ mode' = mode
      BY <1>5, <2>1, EndFields DEF ForcedOff
    <3>2. UNCHANGED <<phase, reset, mqtt, reported, missed, outdated>>
      BY <1>5 DEF ForcedOff
    <3>3. ~BoardWorks \/ reset # "no"
      BY <2>1, <3>1 DEF ShownInv, StuckInv
    <3> QED BY <3>1, <3>2, <3>3
            DEF ShownInv, StuckInv, RelaysShown, OffShown, Told, BoardWorks, Ended
  <2>2. CASE ~task.stuck
    <3>1. task'.at = "force" /\ ~task'.stuck /\ ~mode'
      BY <1>5, <2>2, GotoFields DEF ForcedOff
    <3>2. UNCHANGED <<phase, missed, outdated>>
      BY <1>5 DEF ForcedOff
    <3> QED BY <3>1, <3>2 DEF ShownInv, StuckInv, RelaysShown, OffShown, Told
  <2> QED BY <2>1, <2>2
<1>6. CASE ReportOff
  <2>1. phase = "run" /\ ~mode /\ state = AllOff
    BY <1>6 DEF ReportOff, Inv, ModeInv, OffInv
  <2>2. task'.at = "modeoff"
    BY <1>6, SaveFields DEF ReportOff, TaskState
  <2>3. AllOff \in [Channel -> BOOLEAN]
    BY ConstantTypes
  <2>4. Report(FALSE, AllOff, clock) \/ Unreported
    BY <1>6 DEF ReportOff
  <2>5. missed' \/ outdated' \/ reported'.relay = state
    BY <2>1, <2>4, ReportFields
  <2>6. UNCHANGED <<phase, mode, state>>
    BY <1>6 DEF ReportOff
  <2> QED BY <2>1, <2>2, <2>5, <2>6
          DEF ShownInv, StuckInv, RelaysShown, OffShown, Told
<1>7. CASE ReportOn
  <2>1. phase = "run"
    BY <1>7 DEF ReportOn, Inv, TaskInv, ModeInv
  <2>2. Ended
    BY <1>7, EndFields DEF ReportOn, TaskState
  <2>3. Report(TRUE, state, clock) \/ Unreported
    BY <1>7 DEF ReportOn
  <2>4. missed' \/ outdated' \/ (reported'.relay = state /\ reported'.mode)
    BY <2>3, ReportFields
  <2>5. UNCHANGED <<phase, mode, state>>
    BY <1>7 DEF ReportOn
  <2> QED BY <2>1, <2>2, <2>4, <2>5, ToldShown DEF Ended
<1> QED BY <1>1, <1>2, <1>3, <1>4, <1>5, <1>6, <1>7

LEMMA RelayStepShown ==
    ASSUME Inv, ShownInv, KeptInv, RelayKey \/ RelayDelta \/ Rollback,
           UNCHANGED Faults
    PROVE  ShownInv'
<1> TypeOK /\ task \in TaskState /\ state \in [Channel -> BOOLEAN]
  BY DEF Inv, TypeOK
<1> USE DEF boardVars, guardVars, reportVars
<1>1. ASSUME NEW c \in Channel, RelayWhileOff(c) \/ RelayAlready(c)
      PROVE  ShownInv'
  <2>1. Turn(c)
    BY <1>1 DEF RelayWhileOff, RelayAlready
  <2>2. Ended
    BY <1>1, <2>1, TurnFacts, EndFields DEF RelayWhileOff, RelayAlready
  <2>3. task.at = "none"
    BY <2>1 DEF Turn, Inv, TaskInv
  <2> QED BY <1>1, <2>2, <2>3, QuietShown DEF RelayWhileOff, RelayAlready
<1>2. ASSUME NEW c \in Channel, RelaySet(c)
      PROVE  ShownInv'
  <2>1. task.at = "none"
    BY <1>2 DEF RelaySet, Turn, Inv, TaskInv
  <2>2. CASE Answered("error") /\ UNCHANGED <<state, gpio>>
    <3>1. Ended
      BY <2>2, EndFields
    <3> QED BY <1>2, <2>1, <2>2, <3>1, QuietShown DEF RelaySet
  <2>3. CASE /\ state' = [state EXCEPT ![c] = ~@]
             /\ task' = [task EXCEPT !.pc = "guard", !.at = "relay", !.ch = c,
                                     !.prev = state[c]]
    <3>1. task'.at = "relay" /\ task'.ch = c
      BY <2>3 DEF TaskState
    <3>2. \A d \in Channel : d # c => state'[d] = state[d]
      BY <2>3
    <3>3. UNCHANGED <<phase, mode, reset, mqtt, reported, missed, outdated>>
      BY <1>2 DEF RelaySet
    <3> QED BY <2>1, <3>1, <3>2, <3>3
            DEF ShownInv, StuckInv, RelaysShown, OffShown, Told, BoardWorks
  <2> QED BY <1>2, <2>2, <2>3 DEF RelaySet
<1>3. CASE RelayDelta
  <2>1. task.ch \in Channel /\ task.at = "relay" /\ phase = "run"
    BY <1>3 DEF RelayDelta, Inv, TaskInv, ModeInv
  <2>2. [task.job EXCEPT !.relay[task.ch] = "keep"] \in Job
    BY DEF TaskState, Job, Setting
  <2>3. Ended
    BY <1>3, <2>2, EndFields DEF RelayDelta, RelayDone
  <2>4. UNCHANGED <<phase, mode, state, reset, mqtt>>
    BY <1>3 DEF RelayDelta
  <2> DEFINE r == [reported.relay EXCEPT ![task.ch] = state[task.ch]]
  <2>5. Report(TRUE, r, clock) \/ Unreported
    BY <1>3 DEF RelayDelta
  <2>6. reported.relay \in [Channel -> BOOLEAN]
    BY DEF TypeOK
  <2>7. RelaysShown /\ BoardWorks /\ reset = "no" /\ Told => r = state
    <3> SUFFICES ASSUME RelaysShown, BoardWorks, reset = "no", Told
                 PROVE  r = state
      OBVIOUS
    <3>1. \A c \in Channel : c = task.ch \/ reported.relay[c] = state[c]
      BY <2>1 DEF RelaysShown
    <3>2. r \in [Channel -> BOOLEAN] /\ \A c \in Channel : r[c] = state[c]
      BY <2>1, <2>6, <3>1
    <3> QED BY <3>2
  <2> HIDE DEF r
  <2>8. \/ missed' \/ outdated'
        \/ reported'.relay = r /\ reported'.mode /\ UNCHANGED <<missed, outdated>>
    BY <2>5, ReportFields
  <2>9. StuckInv' /\ (phase' # "run" => missed')
    BY <2>1, <2>3, <2>4 DEF StuckInv, Ended
  <2>10. OffShown'
    BY <2>8 DEF OffShown, Told
  <2>11. RelaysShown'
    BY <2>3, <2>4, <2>7, <2>8 DEF ShownInv, RelaysShown, Told, BoardWorks, Ended
  <2> QED BY <2>9, <2>10, <2>11 DEF ShownInv
<1>4. CASE Rollback
  <2>1. task.at = "relay" /\ phase = "run"
    BY <1>4 DEF Rollback, Inv, TaskInv, ModeInv
  <2>2. ~BoardWorks \/ reset # "no"
    BY <1>4 DEF Rollback, KeptInv, FlashWorks, BoardWorks
  <2>3. Ended \/ task'.at = "undo"
    BY <1>4, EndFields, SaveFields DEF Rollback
  <2>4. UNCHANGED <<phase, mode, reset, mqtt, reported, missed, outdated>>
    BY <1>4 DEF Rollback
  <2> QED BY <2>1, <2>2, <2>3, <2>4
          DEF ShownInv, StuckInv, RelaysShown, OffShown, Told, BoardWorks, Ended
<1> QED BY <1>1, <1>2, <1>3, <1>4 DEF RelayKey

LEMMA WriterShown ==
    ASSUME Inv, ShownInv, KeptInv, FlagInv, GuardWrite \/ TakeLock \/ Write,
           UNCHANGED Faults
    PROVE  ShownInv'
<1> TypeOK /\ task \in TaskState
  BY DEF Inv, TypeOK
<1>1. UNCHANGED <<phase, mode, state, reset, mqtt, reported, missed, outdated>>
  BY DEF GuardWrite, TakeLock, Write, boardVars, guardVars, reportVars
<1>2. CASE \E pc : Goto(pc)
  <2>1. task'.at = task.at /\ task'.ch = task.ch /\ task'.stuck = task.stuck
    BY <1>2, GotoFields
  <2> QED BY <1>1, <2>1
          DEF ShownInv, StuckInv, RelaysShown, OffShown, Told, BoardWorks
<1>3. CASE \E f \in BOOLEAN : Saved(f) /\ (BoardWorks /\ reset = "no" => ~f)
  <2>1. PICK f \in BOOLEAN : Saved(f) /\ (BoardWorks /\ reset = "no" => ~f)
    BY <1>3
  <2>2. CASE task.at = "relay"
    <3>1. task'.at = "relay" /\ task'.ch = task.ch
      BY <2>1, <2>2, SavedFields
    <3> QED BY <1>1, <2>2, <3>1
            DEF ShownInv, StuckInv, RelaysShown, OffShown, Told, BoardWorks
  <2>3. CASE task.at = "undo"
    <3>1. Ended
      BY <2>1, <2>3, SavedFields
    <3>2. ~BoardWorks \/ reset # "no"
      BY <2>3 DEF KeptInv, FlashWorks, BoardWorks
    <3> QED BY <1>1, <2>3, <3>1, <3>2
            DEF ShownInv, StuckInv, RelaysShown, OffShown, Told, BoardWorks, Ended
  <2>4. CASE task.at \in {"force", "boot"}
    <3>1. /\ task'.at = task.at
          /\ BoardWorks /\ reset = "no" => task'.stuck = task.stuck
      BY <2>1, <2>4, SavedFields
    <3> QED BY <1>1, <2>4, <3>1
            DEF ShownInv, StuckInv, RelaysShown, OffShown, Told, BoardWorks
  <2>5. CASE task.at = "modeoff"
    <3>1. Ended
      BY <2>1, <2>5, SavedFields
    <3> QED BY <1>1, <2>5, <3>1, QuietShown
  <2>6. CASE task.at = "modeon"
    <3>1. task'.at = "modeon"
      BY <2>1, <2>6, SavedFields
    <3> QED BY <1>1, <2>6, <3>1
            DEF ShownInv, StuckInv, RelaysShown, OffShown, Told, BoardWorks
  <2>7. task.at # "none"
    BY <2>1, SavedFields
  <2> QED BY <2>2, <2>3, <2>4, <2>5, <2>6, <2>7 DEF TaskState
<1>4. CASE Write
  BY <1>3, <1>4 DEF Write, BoardWorks
<1>5. CASE GuardWrite \/ TakeLock
  BY <1>2, <1>3, <1>5 DEF GuardWrite, TakeLock, FlagInv
<1> QED BY <1>4, <1>5

LEMMA ResetShown ==
    ASSUME ShownInv, ResetBegins \/ ResetSteps, UNCHANGED Faults
    PROVE  ShownInv'
<1> USE DEF boardVars, guardVars, reportVars
<1>1. CASE ResetRestarts
  BY <1>1, RestartShown DEF ResetRestarts
<1>2. CASE ~ResetRestarts
  <2>1. UNCHANGED <<phase, mode, state, task, reported, missed, outdated>>
        /\ (mqtt' = "up" => mqtt = "up")
    BY <1>2 DEF ResetBegins, ResetSteps, ResetLocks, ResetTakesClient,
                ResetStopsClient, ResetJoins, ResetErases
  <2>2. BoardWorks => reset' # "no"
    BY <1>2 DEF ResetBegins, ResetSteps, ResetLocks, ResetTakesClient,
                ResetStopsClient, ResetJoins, ResetErases, BoardWorks
  <2> QED BY <2>1, <2>2, QuietShown DEF BoardWorks
<1> QED BY <1>1, <1>2

LEMMA ShownStep ==
    ASSUME Inv, ShownInv, KeptInv, FlagInv, [Step]_controlVars,
           UNCHANGED Faults
    PROVE  ShownInv'
<1> TypeOK
  BY DEF Inv
<1>1. CASE PowerCycle
  BY <1>1, RestartShown DEF PowerCycle
<1>2. CASE \E job \in Job : Dispatch(job)
  <2>1. PICK job \in Job : Dispatch(job)
    BY <1>2
  <2>2. Ended /\ task.at = "none"
    BY <2>1, EndFields DEF Dispatch, Inv, TaskInv
  <2> QED BY <2>1, <2>2, QuietShown DEF Dispatch, boardVars, guardVars, reportVars
<1>3. CASE Connected
  <2>1. phase = "run" /\ task.at = "none" /\ UNCHANGED <<phase, mode, state, task>>
    BY <1>3 DEF Connected, Inv, TaskInv, boardVars
  <2>2. (IF mode THEN state ELSE AllOff) = state
    BY <2>1 DEF Inv, OffInv
  <2>3. reported' = Merge(mode, state, clock)
    BY <1>3, <2>2 DEF Connected
  <2>4. outdated' \/ (reported'.mode = mode /\ reported'.relay = state)
    <3>1. CASE clock < reported.ts
      BY <1>3, <3>1 DEF Connected
    <3>2. CASE ~(clock < reported.ts)
      <4>1. clock >= reported.ts
        BY <3>2 DEF TypeOK, Clock
      <4> QED BY <2>3, <4>1 DEF Merge
    <3> QED BY <3>1, <3>2
  <2>5. ~task'.stuck
    BY <2>1 DEF ShownInv, StuckInv
  <2> QED BY <2>1, <2>4, <2>5, ToldShown
<1>4. CASE OtherTakes \/ OtherGives \/ Tick \/ UNCHANGED controlVars
  <2>1. UNCHANGED <<phase, mode, state, reset, mqtt, task, reported, missed, outdated>>
    BY <1>4 DEF OtherTakes, OtherGives, Tick, controlVars, boardVars, guardVars, reportVars
  <2> QED BY <2>1, QuietShown
<1>5. CASE Sensor
  BY <1>5, SensorFields, QuietShown
<1>6. CASE TaskSteps
  BY <1>6, ModeStepShown, RelayStepShown, WriterShown DEF TaskSteps
<1> QED BY <1>1, <1>2, <1>3, <1>4, <1>5, <1>6, BootShown, ResetShown DEF Step

LEMMA ClockHolds == Spec => []ClockInv
<1>1. Init => ClockInv
  BY DEF Init, ClockInv, Timely, Asleep
<1>2. Inv /\ ClockInv /\ [Next]_vars => ClockInv'
  BY OneDevice, ClockStep
<1> QED BY <1>1, <1>2, InvHolds, PTL DEF Spec

LEMMA ShownHolds == Spec => []ShownInv
<1>1. Init => ShownInv
  BY DEF Init, ShownInv, StuckInv, RelaysShown, OffShown, Told, Idle
<1>2. Inv /\ ShownInv /\ KeptInv /\ FlagInv /\ [Next]_vars => ShownInv'
  BY OneDevice, ShownStep
<1> QED BY <1>1, <1>2, InvHolds, KeptHolds, FlagHolds, PTL DEF Spec

(* ReportsAreTrue: between two jobs, and unless a publish was lost since the last
   connection, the server never shows as off a device that is on, whatever fails
   and however late the sensor's reports come; and it shows every relay as it is,
   while no flash, pin or erasure fails.  Where one clock that never goes back
   stamps every report, this holds of every device; where the DS3231 stamps the
   sensor's reports, or the clock is set, it holds until the server refuses a
   report of a relay or of the mode as older than what it has. *)
THEOREM ControlReportsAreTrue == Spec => []ReportsAreTrue
<1>1. Inv /\ ShownInv /\ ClockInv => ReportsAreTrue
  <2> SUFFICES ASSUME Inv, ShownInv, task.pc = "idle", Told
               PROVE  /\ ~reported.mode => ~mode
                      /\ reset = "no" /\ BoardWorks => reported.relay = state
    BY DEF ReportsAreTrue, Told, BoardWorks, ClockInv, Timely
  <2>1. task.at = "none"
    BY DEF Inv, TaskInv
  <2> QED BY <2>1 DEF ShownInv, RelaysShown, OffShown
<1> QED BY <1>1, InvHolds, ShownHolds, ClockHolds, PTL
=============================================================================
