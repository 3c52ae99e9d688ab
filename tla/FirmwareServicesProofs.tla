------------------------ MODULE FirmwareServicesProofs ------------------------
(***************************************************************************)
(* Proofs about the firmware's services that share no state: FirmwareBoot, *)
(* MqttClient, DisplayService, StatusLed and Buzzer, each by itself and    *)
(* for every value of its constants, and then all of them, with            *)
(* DeviceControl, as MCFirmwareServices puts them together.                *)
(***************************************************************************)
EXTENDS MCFirmwareServices, Sequences, FiniteSets, FiniteSetTheorems, TLAPS

(***************************************************************************)
(* FirmwareBoot: what boots.                                               *)
(***************************************************************************)
BootStage == {"early", "wifi", "config", "http", "clock", "control", "mqtt", "ota",
              "commit", "ready", "waiting", "safe", "off"}

LEMMA StagesAre ==
    /\ Boot!Running \union {"off"} = BootStage
    /\ {"off", "commit", "ready"} \cap DOMAIN Boot!After = {}
    /\ \A s \in DOMAIN Boot!After : Boot!After[s] \in BootStage /\ Boot!After[s] # "off"
  BY DEF Boot!Running, Boot!After, Boot!Settled, BootStage

LEMMA OtherSlot ==
    \A s \in Boot!Slot : Boot!Other(s) \in Boot!Slot /\ Boot!Other(s) # s
      /\ Boot!Other(Boot!Other(s)) = s
  BY DEF Boot!Slot, Boot!Other

\* What the counters, the configuration and the messages range over.
BootRanges ==
    /\ build \in Builds
    /\ failures \in Nat /\ bootFaults \in 0..MaxBootFaults /\ bootUpdates \in 0..MaxBootUpdates
    /\ stored \in {Boot!None, "short", "long"} /\ secret \in {Boot!None, "short"}
    /\ post \in {"idle", "short", "long"}

BootFlags == ap \in BOOLEAN /\ restarting \in BOOLEAN /\ unrestarted \in BOOLEAN

\* Where the boot and the update are.
Progress ==
    /\ stage \in BootStage
    /\ bootQueue \in Seq(Updates) /\ Len(bootQueue) <= 1
    /\ bootOta \in {"none", "idle", "loading", "loaded", "verified", "done"}
    /\ bootOta # "none" => stage \in {"commit", "ready"}
    /\ bootOta \in {"loading", "loaded", "verified"} => update \in Updates
    /\ bootOta = "verified" => Boot!DigestMatches

SlotTypes ==
    /\ image \in [Boot!Slot -> Boot!Whole \union {"empty", "partial", "wrong"}]
    /\ bootSlot \in Boot!Slot /\ running \in Boot!Slot
    /\ fresh \in {"new", "pending", "valid"} /\ trial \in 0..3

\* The image that runs is the one that boots next until an update ends, which
\* writes the other slot only.
ImagesInv ==
    /\ image[bootSlot] \in Boot!Whole
    /\ stage # "off" => image[running] \in Boot!Whole
    /\ stage # "off" /\ bootOta # "done" => running = bootSlot
    /\ bootOta = "done" => bootSlot = Boot!Other(running)
    /\ bootOta \in {"loaded", "verified"} => image[Boot!Other(running)] = update.image

\* While an image may still be abandoned, the other slot can boot: an update
\* starts only once the running image was committed.
RollbackInv ==
    /\ bootOta \in {"loading", "loaded", "verified", "done"} => fresh # "pending"
    /\ build.rollback =>
          /\ fresh \in {"new", "pending"} => image[Boot!Other(bootSlot)] \in Boot!Whole
          /\ stage # "off" /\ bootOta # "done" => fresh # "new"

\* The image that boots next is committed, or had at most one boot.
TrialInv ==
    build.rollback =>
       /\ fresh = "new" => trial <= 1
       /\ fresh = "pending" => trial <= 2
       /\ fresh = "valid" => trial = 0

\* The invariant of the boot.
BootInv ==
    /\ BootRanges /\ BootFlags /\ Progress /\ SlotTypes
    /\ ImagesInv /\ RollbackInv /\ TrialInv

LEMMA BootInit == ASSUME Boot!BootAssumption, Boot!Init PROVE BootInv
<1>1. BootRanges
  BY DEF Boot!Init, BootRanges, Boot!BootAssumption, Boot!None
<1>2. BootFlags
  BY Zenon DEF Boot!Init, BootFlags
<1>3. Progress
  BY DEF Boot!Init, Progress, BootStage
<1>4. SlotTypes
  BY DEF Boot!Init, SlotTypes, Boot!Slot, Boot!Whole
<1>5. ImagesInv /\ RollbackInv /\ TrialInv
  BY DEF Boot!Init, ImagesInv, RollbackInv, TrialInv, Boot!Slot, Boot!Whole
<1> QED BY <1>1, <1>2, <1>3, <1>4, <1>5 DEF BootInv

-----------------------------------------------------------------------------
\* A restart forgets the update in RAM and keeps the slots.
LEMMA Restarted ==
    ASSUME NEW n \in Nat, Boot!Restart(n)
    PROVE  /\ stage' = "off" /\ bootQueue' = <<>> /\ bootOta' = "none" /\ failures' \in Nat
           /\ secret' = Boot!None /\ post' = "idle" /\ restarting' = FALSE
           /\ unrestarted' = FALSE
  BY DEF Boot!Restart

\* What each step does to those of these groups it writes.
LEMMA BootRangesStep ==
    ASSUME Boot!BootAssumption, BootRanges, [Boot!Next]_Boot!vars
    PROVE  BootRanges'
<1> USE DEF BootRanges, Boot!BootAssumption, Boot!Fault, Boot!NoFault, Boot!world
<1>1. CASE UNCHANGED <<build, failures, bootFaults, bootUpdates, stored, secret, post>>
  BY <1>1
<1>2. ASSUME NEW n \in Nat, Boot!Restart(n), UNCHANGED <<stored, bootUpdates, Boot!world>>,
             Boot!Fault \/ Boot!NoFault
      PROVE  BootRanges'
  <2>1. failures' \in Nat /\ secret' = Boot!None /\ post' = "idle"
    BY Zenon, <1>2, Restarted
  <2>2. bootFaults' \in 0..MaxBootFaults
    BY <1>2
  <2>3. build' \in Builds /\ bootUpdates' \in 0..MaxBootUpdates
        /\ stored' \in {Boot!None, "short", "long"}
    BY <1>2
  <2> QED BY <2>1, <2>2, <2>3
<1>3. ASSUME Boot!BootError, Boot!Fault \/ Boot!NoFault PROVE BootRanges'
  <2>1. CASE failures + 1 >= RetryLimit
    BY <1>3, <2>1 DEF Boot!BootError
  <2>2. CASE ~(failures + 1 >= RetryLimit)
    <3>1. Boot!Restart(failures + 1) /\ UNCHANGED <<stored, bootUpdates, Boot!world>>
      BY <1>3, <2>2 DEF Boot!BootError
    <3> QED BY <1>2, <1>3, <3>1
  <2> QED BY <2>1, <2>2
<1>4. CASE Boot!BootLoader \/ Boot!StageDone
  BY <1>1, <1>4 DEF Boot!BootLoader, Boot!StageDone, Boot!configVars, Boot!otaVars
<1>5. CASE Boot!StageFails
  BY <1>3, <1>5 DEF Boot!StageFails
<1>6. CASE Boot!WifiFails \/ Boot!ConfigRestart \/ Boot!OtaRestart
  BY <1>2, <1>6 DEF Boot!WifiFails, Boot!ConfigRestart, Boot!OtaRestart
<1>7. CASE Boot!PowerLoss
  BY <1>2, <1>7 DEF Boot!PowerLoss
<1>8. CASE Boot!LoadConfig
  <2>1. CASE Boot!Readable(stored) /\ secret' = stored
    <3>1. UNCHANGED <<build, failures, bootFaults, bootUpdates, stored, post>>
      BY <1>8, <2>1 DEF Boot!LoadConfig, Boot!configVars, Boot!otaVars
    <3> QED BY <2>1, <3>1 DEF Boot!Readable
  <2> QED BY <1>3, <1>8, <2>1 DEF Boot!LoadConfig
<1>9. CASE Boot!ClockSet \/ Boot!Commit
  BY <1>9 DEF Boot!ClockSet, Boot!Commit, Boot!configVars, Boot!otaVars
<1>10. ASSUME NEW s \in Secrets, Boot!PostChecked(s) PROVE BootRanges'
  BY <1>10 DEF Boot!PostChecked, Boot!bootVars, Boot!otaVars
<1>11. CASE Boot!PostStored
  <2>1. stored' \in {stored, post} /\ post # "idle" /\ post' = "idle"
        /\ (Boot!Fault \/ Boot!NoFault)
    BY <1>11 DEF Boot!PostStored, Boot!SetConfig
  <2>2. UNCHANGED <<build, failures, bootUpdates, secret>>
    BY <1>11 DEF Boot!PostStored, Boot!bootVars, Boot!otaVars
  <2> QED BY <2>1, <2>2
<1>12. ASSUME NEW m \in Updates, Boot!Trigger(m) PROVE BootRanges'
  BY <1>12 DEF Boot!Trigger, Boot!bootVars, Boot!configVars
<1>13. CASE Boot!OtaBegin \/ Boot!OtaLoaded \/ Boot!OtaVerified \/ Boot!OtaFinish
  BY <1>1, <1>13
     DEF Boot!OtaBegin, Boot!OtaLoaded, Boot!OtaVerified, Boot!OtaFinish, Boot!bootVars,
         Boot!configVars
<1>14. CASE Boot!OtaFails
  BY <1>14 DEF Boot!OtaFails, Boot!bootVars, Boot!configVars
<1>15. CASE Boot!ApChanges \/ UNCHANGED Boot!vars
  BY <1>1, <1>15 DEF Boot!ApChanges, Boot!vars, Boot!bootVars, Boot!configVars, Boot!otaVars
<1> QED BY <1>4, <1>5, <1>6, <1>7, <1>8, <1>9, <1>10, <1>11, <1>12, <1>13, <1>14, <1>15
        DEF Boot!Next, Boot!Boot, Boot!Ota

LEMMA BootFlagsStep == ASSUME BootFlags, [Boot!Next]_Boot!vars PROVE BootFlags'
<1> USE DEF BootFlags, Boot!world
<1>1. CASE UNCHANGED <<ap, restarting, unrestarted>>
  BY Zenon, <1>1
<1>2. ASSUME NEW n, Boot!Restart(n), UNCHANGED ap PROVE BootFlags'
  BY Zenon, <1>2 DEF Boot!Restart
<1>3. ASSUME Boot!BootError PROVE BootFlags'
  <2>1. \/ UNCHANGED <<restarting, unrestarted>>
        \/ Boot!Restart(failures + 1)
    BY Zenon, <1>3 DEF Boot!BootError
  <2>2. UNCHANGED ap
    BY Zenon, <1>3 DEF Boot!BootError
  <2> QED BY Zenon, <1>1, <1>2, <2>1, <2>2
<1>4. CASE Boot!BootLoader \/ Boot!StageDone \/ Boot!ClockSet \/ Boot!Commit
  BY Zenon, <1>1, <1>4
     DEF Boot!BootLoader, Boot!StageDone, Boot!ClockSet, Boot!Commit, Boot!configVars
<1>5. CASE Boot!StageFails
  BY Zenon, <1>3, <1>5 DEF Boot!StageFails
<1>6. CASE Boot!WifiFails \/ Boot!ConfigRestart \/ Boot!OtaRestart \/ Boot!PowerLoss
  BY Zenon, <1>2, <1>6 DEF Boot!WifiFails, Boot!ConfigRestart, Boot!OtaRestart, Boot!PowerLoss
<1>7. CASE Boot!LoadConfig
  BY Zenon, <1>1, <1>3, <1>7 DEF Boot!LoadConfig, Boot!configVars
<1>8. ASSUME NEW s \in Secrets, Boot!PostChecked(s) PROVE BootFlags'
  BY Zenon, <1>1, <1>8 DEF Boot!PostChecked
<1>9. CASE Boot!PostStored
  BY Zenon, <1>9 DEF Boot!PostStored
<1>10. ASSUME NEW m \in Updates, Boot!Trigger(m) PROVE BootFlags'
  BY Zenon, <1>1, <1>10 DEF Boot!Trigger, Boot!configVars
<1>11. CASE Boot!OtaBegin \/ Boot!OtaLoaded \/ Boot!OtaVerified
  BY Zenon, <1>1, <1>11 DEF Boot!OtaBegin, Boot!OtaLoaded, Boot!OtaVerified, Boot!configVars
<1>12. CASE Boot!OtaFinish \/ Boot!OtaFails
  BY Zenon, <1>1, <1>12 DEF Boot!OtaFinish, Boot!OtaFails, Boot!configVars
<1>13. CASE Boot!ApChanges
  BY Zenon, <1>13 DEF Boot!ApChanges, Boot!configVars
<1>14. CASE UNCHANGED Boot!vars
  BY Zenon, <1>1, <1>14 DEF Boot!vars, Boot!configVars
<1> QED BY <1>4, <1>5, <1>6, <1>7, <1>8, <1>9, <1>10, <1>11, <1>12, <1>13, <1>14
        DEF Boot!Next, Boot!Boot, Boot!Ota

LEMMA ProgressStep ==
    ASSUME Boot!BootAssumption, BootRanges, Progress, [Boot!Next]_Boot!vars
    PROVE  Progress'
<1> USE DEF Progress
<1>0. RetryLimit \in Nat /\ failures \in Nat
  BY DEF Boot!BootAssumption, BootRanges
<1>1. CASE UNCHANGED <<stage, bootQueue, bootOta, update>>
  BY <1>1 DEF Boot!DigestMatches
<1>2. ASSUME NEW n \in Nat, Boot!Restart(n) PROVE Progress'
  <2>1. stage' = "off" /\ bootQueue' = <<>> /\ bootOta' = "none"
    BY Zenon, <1>2, Restarted
  <2>2. <<>> \in Seq(Updates) /\ Len(<<>>) = 0
    OBVIOUS
  <2> QED BY <2>1, <2>2 DEF BootStage
<1>3. ASSUME UNCHANGED <<bootQueue, bootOta, update>>, stage' \in BootStage,
             bootOta = "none" \/ stage' \in {"commit", "ready"}
      PROVE  Progress'
  BY <1>3 DEF Boot!DigestMatches
<1>4. ASSUME Boot!BootError, bootOta = "none" PROVE Progress'
  <2>1. \/ stage' = "safe" /\ UNCHANGED <<bootQueue, bootOta, update>>
        \/ Boot!Restart(failures + 1)
    BY <1>4 DEF Boot!BootError
  <2>2. CASE stage' = "safe" /\ UNCHANGED <<bootQueue, bootOta, update>>
    BY <1>3, <1>4, <2>2 DEF BootStage
  <2>3. CASE Boot!Restart(failures + 1)
    BY <1>0, <1>2, <2>3
  <2> QED BY Zenon, <2>1, <2>2, <2>3
<1>5. CASE Boot!BootLoader
  BY <1>3, <1>5 DEF Boot!BootLoader, Boot!otaVars, BootStage
<1>6. CASE Boot!StageDone
  <2>1. stage' \in BootStage /\ stage \in DOMAIN Boot!After /\ (stage = "ota" =>
           stage' = "commit")
    BY <1>6, StagesAre DEF Boot!StageDone, Boot!After
  <2>2. bootOta' = Boot!OtaStarted(stage) /\ UNCHANGED <<bootQueue, update>>
    BY Zenon, <1>6 DEF Boot!StageDone
  <2>4. bootOta = "none"
    BY <2>1, StagesAre
  <2>3. bootOta' = "none" \/ (bootOta' = "idle" /\ stage' = "commit")
    BY Zenon, <2>1, <2>2, <2>4 DEF Boot!OtaStarted
  <2> QED BY <2>1, <2>2, <2>3
<1>7. CASE Boot!StageFails
  <2>1. bootOta = "none"
    BY <1>7, StagesAre DEF Boot!StageFails
  <2> QED BY Zenon, <1>4, <1>7, <2>1 DEF Boot!StageFails
<1>8. CASE Boot!WifiFails \/ Boot!ConfigRestart \/ Boot!OtaRestart \/ Boot!PowerLoss
  BY <1>0, <1>2, <1>8 DEF Boot!WifiFails, Boot!ConfigRestart, Boot!OtaRestart, Boot!PowerLoss
<1>9. CASE Boot!LoadConfig
  <2>1. bootOta = "none"
    BY <1>9 DEF Boot!LoadConfig
  <2>2. CASE stage' = "http" /\ UNCHANGED Boot!otaVars
    BY <1>3, <2>1, <2>2 DEF Boot!otaVars, BootStage
  <2> QED BY Zenon, <1>4, <1>9, <2>1, <2>2 DEF Boot!LoadConfig
<1>10. CASE Boot!ClockSet \/ Boot!Commit
  BY <1>3, <1>10 DEF Boot!ClockSet, Boot!Commit, Boot!otaVars, BootStage
<1>11. ASSUME NEW s \in Secrets, Boot!PostChecked(s) PROVE Progress'
  BY <1>1, <1>11 DEF Boot!PostChecked, Boot!bootVars, Boot!otaVars
<1>12. CASE Boot!PostStored
  BY <1>1, <1>12 DEF Boot!PostStored, Boot!bootVars, Boot!otaVars
<1>13. ASSUME NEW m \in Updates, Boot!Trigger(m) PROVE Progress'
  <2>1. <<m>> \in Seq(Updates) /\ Len(<<m>>) = 1
    OBVIOUS
  <2>2. bootQueue' \in {bootQueue, <<m>>} /\ UNCHANGED <<stage, bootOta, update>>
    BY <1>13 DEF Boot!Trigger, Boot!bootVars
  <2>3. bootQueue' \in Seq(Updates) /\ Len(bootQueue') <= 1
    <3>1. bootQueue \in Seq(Updates) /\ Len(bootQueue) <= 1
      BY Zenon
    <3>2. CASE bootQueue' = bootQueue
      BY Zenon, <3>1, <3>2
    <3>3. CASE bootQueue' = <<m>>
      <4>1. Len(bootQueue') = 1 /\ bootQueue' \in Seq(Updates)
        BY Zenon, <2>1, <3>3
      <4> QED BY <4>1
    <3> QED BY Zenon, <2>2, <3>2, <3>3
  <2>4. bootOta = "verified" => Boot!DigestMatches'
    BY <2>2 DEF Boot!DigestMatches
  <2> QED BY <2>2, <2>3, <2>4
<1>14. CASE Boot!OtaBegin
  <2>1. bootQueue # <<>> /\ bootOta = "idle" /\ bootQueue' = <<>> /\ UNCHANGED stage
    BY <1>14 DEF Boot!OtaBegin, Boot!bootVars
  <2>2. Head(bootQueue) \in Updates
    BY <2>1
  <2>3. \/ bootOta' = "idle" /\ UNCHANGED update
        \/ bootOta' = "loading" /\ update' = Head(bootQueue)
    BY <1>14, <2>1 DEF Boot!OtaBegin
  <2> QED BY <2>1, <2>2, <2>3
<1>15. CASE Boot!OtaLoaded
  BY <1>15 DEF Boot!OtaLoaded, Boot!bootVars
<1>16. CASE Boot!OtaVerified
  BY <1>16 DEF Boot!OtaVerified, Boot!bootVars, Boot!DigestMatches
<1>17. CASE Boot!OtaFails \/ Boot!OtaFinish
  BY <1>17 DEF Boot!OtaFails, Boot!OtaFinish, Boot!bootVars
<1>18. CASE Boot!ApChanges \/ UNCHANGED Boot!vars
  BY <1>1, <1>18 DEF Boot!ApChanges, Boot!vars, Boot!bootVars, Boot!otaVars
<1> QED BY <1>5, <1>6, <1>7, <1>8, <1>9, <1>10, <1>11, <1>12, <1>13, <1>14, <1>15, <1>16,
           <1>17, <1>18
        DEF Boot!Next, Boot!Boot, Boot!Ota
-----------------------------------------------------------------------------
\* What a step that leaves the slots alone does to the update.
Restarts == stage' = "off" /\ bootOta' = "none"
Stays == (stage' # "off" => stage # "off") /\ UNCHANGED <<bootOta, update>>
Idles == stage # "off" /\ bootOta # "done" /\ bootOta' = "idle"
Verifies == stage # "off" /\ bootOta = "loaded" /\ bootOta' = "verified" /\ UNCHANGED update

LEMMA SlotSteps ==
    ASSUME Progress, [Boot!Next]_Boot!vars
    PROVE  \/ Boot!BootLoader \/ Boot!Commit \/ Boot!OtaBegin \/ Boot!OtaLoaded
              \/ Boot!OtaFinish
           \/ UNCHANGED Boot!slotVars /\ (Restarts \/ Stays \/ Idles \/ Verifies)
<1>0. bootOta # "none" => stage \in {"commit", "ready"}
  BY DEF Progress
<1>1. ASSUME NEW n, Boot!Restart(n) PROVE Restarts
  BY Zenon, <1>1 DEF Boot!Restart, Restarts
<1>2. ASSUME Boot!BootError, stage # "off" PROVE UNCHANGED Boot!slotVars /\ (Restarts \/ Stays)
  BY Zenon, <1>1, <1>2 DEF Boot!BootError, Stays
<1>3. CASE Boot!StageDone
  <2>1. stage # "off" /\ bootOta = "none"
    BY <1>0, <1>3, StagesAre DEF Boot!StageDone
  <2>2. bootOta' = Boot!OtaStarted(stage) /\ UNCHANGED update /\ UNCHANGED Boot!slotVars
    BY Zenon, <1>3 DEF Boot!StageDone
  <2> QED BY Zenon, <2>1, <2>2 DEF Boot!OtaStarted, Stays, Idles
<1>4. CASE Boot!StageFails
  <2>1. stage # "off"
    BY <1>4, StagesAre DEF Boot!StageFails
  <2> QED BY Zenon, <1>2, <1>4, <2>1 DEF Boot!StageFails
<1>5. CASE Boot!WifiFails \/ Boot!ConfigRestart \/ Boot!OtaRestart \/ Boot!PowerLoss
  BY Zenon, <1>1, <1>5 DEF Boot!WifiFails, Boot!ConfigRestart, Boot!OtaRestart, Boot!PowerLoss
<1>6. CASE Boot!LoadConfig
  <2>1. stage # "off"
    BY <1>6 DEF Boot!LoadConfig
  <2> QED BY Zenon, <1>2, <1>6, <2>1 DEF Boot!LoadConfig, Boot!otaVars, Stays
<1>7. CASE Boot!ClockSet
  <2>1. stage # "off"
    BY <1>7 DEF Boot!ClockSet
  <2> QED BY Zenon, <1>7, <2>1 DEF Boot!ClockSet, Boot!otaVars, Stays
<1>8. ASSUME NEW s \in Secrets, Boot!PostChecked(s) PROVE UNCHANGED Boot!slotVars /\ Stays
  BY Zenon, <1>8 DEF Boot!PostChecked, Boot!bootVars, Boot!otaVars, Stays
<1>9. CASE Boot!PostStored \/ Boot!ApChanges
  BY Zenon, <1>9 DEF Boot!PostStored, Boot!ApChanges, Boot!bootVars, Boot!otaVars, Stays
<1>10. ASSUME NEW m \in Updates, Boot!Trigger(m) PROVE UNCHANGED Boot!slotVars /\ Stays
  BY Zenon, <1>10 DEF Boot!Trigger, Boot!bootVars, Stays
<1>11. CASE Boot!OtaFails
  <2>1. stage # "off" /\ bootOta # "done" /\ bootOta' = "idle"
    BY <1>0, <1>11 DEF Boot!OtaFails
  <2> QED BY Zenon, <1>11, <2>1 DEF Boot!OtaFails, Idles
<1>12. CASE Boot!OtaVerified
  <2>1. stage # "off" /\ bootOta = "loaded" /\ bootOta' = "verified"
    BY <1>0, <1>12 DEF Boot!OtaVerified
  <2> QED BY Zenon, <1>12, <2>1 DEF Boot!OtaVerified, Verifies
<1>13. CASE UNCHANGED Boot!vars
  BY Zenon, <1>13 DEF Boot!vars, Boot!bootVars, Boot!otaVars, Stays
<1> QED BY Zenon, <1>3, <1>4, <1>5, <1>6, <1>7, <1>8, <1>9, <1>10, <1>11, <1>12, <1>13
        DEF Boot!Next, Boot!Boot, Boot!Ota

LEMMA BuildKept == ASSUME [Boot!Next]_Boot!vars PROVE UNCHANGED build
<1>1. ASSUME Boot!BootError PROVE UNCHANGED build
  BY Zenon, <1>1 DEF Boot!BootError, Boot!world
<1>2. CASE Boot!BootLoader \/ Boot!StageDone \/ Boot!StageFails \/ Boot!WifiFails
           \/ Boot!LoadConfig \/ Boot!ClockSet \/ Boot!Commit
  BY Zenon, <1>1, <1>2
     DEF Boot!BootLoader, Boot!StageDone, Boot!StageFails, Boot!WifiFails, Boot!LoadConfig,
         Boot!ClockSet, Boot!Commit, Boot!world
<1>3. CASE Boot!OtaBegin \/ Boot!OtaLoaded \/ Boot!OtaFails \/ Boot!OtaVerified
           \/ Boot!OtaFinish \/ Boot!OtaRestart
  BY Zenon, <1>3
     DEF Boot!OtaBegin, Boot!OtaLoaded, Boot!OtaFails, Boot!OtaVerified, Boot!OtaFinish,
         Boot!OtaRestart, Boot!world
<1>4. ASSUME NEW s \in Secrets, Boot!PostChecked(s) PROVE UNCHANGED build
  BY Zenon, <1>4 DEF Boot!PostChecked, Boot!world
<1>5. ASSUME NEW m \in Updates, Boot!Trigger(m) PROVE UNCHANGED build
  BY Zenon, <1>5 DEF Boot!Trigger, Boot!world
<1>6. CASE Boot!PostStored \/ Boot!ConfigRestart \/ Boot!PowerLoss \/ Boot!ApChanges
           \/ UNCHANGED Boot!vars
  BY Zenon, <1>6
     DEF Boot!PostStored, Boot!ConfigRestart, Boot!PowerLoss, Boot!ApChanges, Boot!vars,
         Boot!world
<1> QED BY Zenon, <1>2, <1>3, <1>4, <1>5, <1>6 DEF Boot!Next, Boot!Boot, Boot!Ota

LEMMA SlotTypesStep ==
    ASSUME Boot!BootAssumption, Progress, SlotTypes, [Boot!Next]_Boot!vars
    PROVE  SlotTypes'
<1> USE DEF SlotTypes
<1>1. CASE UNCHANGED Boot!slotVars
  BY Zenon, <1>1 DEF Boot!slotVars
<1>2. CASE Boot!BootLoader
  <2>1. bootSlot' \in Boot!Slot /\ running' \in Boot!Slot
    BY <1>2, OtherSlot DEF Boot!BootLoader
  <2>2. fresh' \in {"new", "pending", "valid"}
    BY <1>2 DEF Boot!BootLoader
  <2>3. trial' \in 0..3
    BY <1>2 DEF Boot!BootLoader
  <2>4. UNCHANGED image
    BY <1>2 DEF Boot!BootLoader
  <2> QED BY <2>1, <2>2, <2>3, <2>4
<1>3. CASE Boot!Commit
  BY <1>3 DEF Boot!Commit
<1>4. CASE Boot!OtaBegin
  BY <1>4 DEF Boot!OtaBegin
<1>5. CASE Boot!OtaLoaded
  <2>1. update.image \in Boot!Whole \union {"wrong"}
    BY <1>5 DEF Boot!OtaLoaded, Progress, Boot!BootAssumption
  <2> QED BY <1>5, <2>1 DEF Boot!OtaLoaded
<1>6. CASE Boot!OtaFinish
  BY <1>6, OtherSlot DEF Boot!OtaFinish
<1> QED BY Zenon, <1>1, <1>2, <1>3, <1>4, <1>5, <1>6, SlotSteps

LEMMA ImagesStep ==
    ASSUME Boot!BootAssumption, Progress, SlotTypes, ImagesInv, RollbackInv,
           [Boot!Next]_Boot!vars
    PROVE  ImagesInv'
<1>0. /\ bootOta # "none" => stage \in {"commit", "ready"}
      /\ bootSlot \in Boot!Slot /\ running \in Boot!Slot
      /\ image \in [Boot!Slot -> Boot!Whole \union {"empty", "partial", "wrong"}]
  BY DEF Progress, SlotTypes
<1> USE DEF ImagesInv
<1>1. CASE UNCHANGED Boot!slotVars /\ Restarts
  BY <1>1 DEF Boot!slotVars, Restarts
<1>2. CASE UNCHANGED Boot!slotVars /\ Stays
  BY <1>2 DEF Boot!slotVars, Stays
<1>3. CASE UNCHANGED Boot!slotVars /\ Idles
  BY <1>3 DEF Boot!slotVars, Idles
<1>4. CASE UNCHANGED Boot!slotVars /\ Verifies
  BY <1>4 DEF Boot!slotVars, Verifies
<1>5. CASE Boot!BootLoader
  <2>1. bootOta' = "none" /\ UNCHANGED image /\ running' = bootSlot'
    BY <1>0, <1>5 DEF Boot!BootLoader, Boot!otaVars
  <2>2. \/ bootSlot' = bootSlot
        \/ bootSlot' = Boot!Other(bootSlot) /\ build.rollback /\ fresh = "pending"
    BY Zenon, <1>5 DEF Boot!BootLoader
  <2>3. image[bootSlot'] \in Boot!Whole
    BY <2>2 DEF RollbackInv
  <2> QED BY <2>1, <2>3
<1>6. CASE Boot!Commit
  <2>1. UNCHANGED <<image, bootSlot, running, bootOta, update>> /\ stage # "off"
    BY <1>6 DEF Boot!Commit, Boot!otaVars
  <2> QED BY <2>1
<1>7. CASE Boot!OtaBegin
  <2>1. stage # "off" /\ bootOta = "idle" /\ UNCHANGED <<stage, bootSlot, running>>
    BY <1>0, <1>7 DEF Boot!OtaBegin, Boot!bootVars
  <2>2. \/ UNCHANGED <<bootOta, update, image>>
        \/ bootOta' = "loading" /\ image' = [image EXCEPT ![Boot!Other(running)] = "partial"]
    BY <1>7 DEF Boot!OtaBegin
  <2> QED BY <1>0, <2>1, <2>2, OtherSlot
<1>8. CASE Boot!OtaLoaded
  <2>1. stage # "off" /\ bootOta = "loading" /\ bootOta' = "loaded"
        /\ UNCHANGED <<stage, bootSlot, running, update>>
        /\ image' = [image EXCEPT ![Boot!Other(running)] = update.image]
    BY <1>0, <1>8 DEF Boot!OtaLoaded, Boot!bootVars
  <2> QED BY <1>0, <2>1, OtherSlot
<1>9. CASE Boot!OtaFinish
  <2>1. stage # "off" /\ bootOta = "verified" /\ bootOta' = "done"
        /\ bootSlot' = Boot!Other(running)
        /\ UNCHANGED <<stage, image, running>>
    BY <1>0, <1>9 DEF Boot!OtaFinish, Boot!bootVars
  <2>2. update.image \in Boot!Whole
    BY <2>1 DEF Progress, Boot!DigestMatches, Boot!BootAssumption
  <2> QED BY <1>0, <2>1, <2>2, OtherSlot
<1> QED BY Zenon, <1>1, <1>2, <1>3, <1>4, <1>5, <1>6, <1>7, <1>8, <1>9, SlotSteps

LEMMA RollbackStep ==
    ASSUME Progress, SlotTypes, ImagesInv, RollbackInv, [Boot!Next]_Boot!vars
    PROVE  RollbackInv'
<1>0. /\ bootOta # "none" => stage \in {"commit", "ready"}
      /\ bootSlot \in Boot!Slot /\ running \in Boot!Slot
      /\ image \in [Boot!Slot -> Boot!Whole \union {"empty", "partial", "wrong"}]
      /\ fresh \in {"new", "pending", "valid"}
  BY DEF Progress, SlotTypes
<1>k. UNCHANGED build
  BY BuildKept
<1> USE DEF RollbackInv
<1>1. CASE UNCHANGED Boot!slotVars /\ Restarts
  BY <1>k, <1>1 DEF Boot!slotVars, Restarts
<1>2. CASE UNCHANGED Boot!slotVars /\ Stays
  BY <1>k, <1>2 DEF Boot!slotVars, Stays
<1>3. CASE UNCHANGED Boot!slotVars /\ Idles
  BY <1>k, <1>3 DEF Boot!slotVars, Idles
<1>4. CASE UNCHANGED Boot!slotVars /\ Verifies
  BY <1>k, <1>4 DEF Boot!slotVars, Verifies
<1>5. CASE Boot!BootLoader
  <2>1. bootOta' = "none" /\ UNCHANGED image
    BY <1>0, <1>5 DEF Boot!BootLoader, Boot!otaVars
  <2>2. CASE ~build.rollback
    BY <1>k, <2>1, <2>2
  <2>3. CASE build.rollback /\ fresh = "pending"
    <3>1. fresh' = "valid"
      BY <1>0, <1>5, <2>3, OtherSlot DEF Boot!BootLoader
    <3> QED BY <2>1, <3>1
  <2>4. CASE build.rollback /\ fresh # "pending"
    <3>1. bootSlot' = bootSlot /\ fresh' = IF fresh = "new" THEN "pending" ELSE fresh
      BY Zenon, <1>5, <2>4 DEF Boot!BootLoader
    <3> QED BY <1>0, <1>k, <2>1, <2>4, <3>1
  <2> QED BY <2>2, <2>3, <2>4
<1>6. CASE Boot!Commit
  <2>1. UNCHANGED <<image, bootSlot, running, bootOta>> /\ stage # "off"
        /\ fresh' \in {fresh, "valid"}
    BY <1>6 DEF Boot!Commit, Boot!otaVars
  <2> QED BY <1>k, <2>1
<1>7. CASE Boot!OtaBegin
  <2>1. stage # "off" /\ bootOta = "idle" /\ UNCHANGED <<stage, bootSlot, fresh, running>>
    BY <1>0, <1>7 DEF Boot!OtaBegin, Boot!bootVars
  <2>2. \/ UNCHANGED <<bootOta, image>>
        \/ fresh # "pending" /\ bootOta' = "loading"
    BY <1>7 DEF Boot!OtaBegin
  <2> QED BY <1>0, <1>k, <2>1, <2>2
<1>8. CASE Boot!OtaLoaded
  <2>1. stage # "off" /\ bootOta = "loading" /\ bootOta' = "loaded"
        /\ UNCHANGED <<stage, bootSlot, fresh>>
    BY <1>0, <1>8 DEF Boot!OtaLoaded, Boot!bootVars
  <2> QED BY <1>0, <1>k, <2>1
<1>9. CASE Boot!OtaFinish
  <2>1. stage # "off" /\ bootOta = "verified" /\ bootOta' = "done"
        /\ bootSlot' = Boot!Other(running)
        /\ fresh' = "new" /\ UNCHANGED <<stage, image, running>>
    BY <1>0, <1>9 DEF Boot!OtaFinish, Boot!bootVars
  <2>2. image[Boot!Other(bootSlot')] \in Boot!Whole
    BY <1>0, <2>1, OtherSlot DEF ImagesInv
  <2> QED BY <1>k, <2>1, <2>2
<1> QED BY Zenon, <1>1, <1>2, <1>3, <1>4, <1>5, <1>6, <1>7, <1>8, <1>9, SlotSteps

LEMMA TrialStep ==
    ASSUME Progress, SlotTypes, ImagesInv, RollbackInv, TrialInv, [Boot!Next]_Boot!vars
    PROVE  TrialInv'
<1>0. fresh \in {"new", "pending", "valid"} /\ trial \in 0..3
  BY DEF SlotTypes
<1>k. UNCHANGED build
  BY BuildKept
<1> USE DEF TrialInv
<1>1. CASE UNCHANGED Boot!slotVars
  BY <1>k, <1>1 DEF Boot!slotVars
<1>2. CASE Boot!BootLoader
  <2>1. CASE ~build.rollback
    BY <1>k, <2>1
  <2>2. CASE build.rollback /\ fresh = "pending"
    <3>1. fresh' = "valid" /\ trial' = 0
      BY <1>2, <2>2, OtherSlot DEF Boot!BootLoader, SlotTypes
    <3> QED BY <3>1
  <2>3. CASE build.rollback /\ fresh # "pending"
    <3>1. /\ fresh' = IF fresh = "new" THEN "pending" ELSE fresh
          /\ trial' = IF trial \in {1, 2} THEN trial + 1 ELSE trial
      BY Zenon, <1>2, <2>3 DEF Boot!BootLoader
    <3> QED BY <1>0, <2>3, <3>1
  <2> QED BY <2>1, <2>2, <2>3
<1>3. CASE Boot!Commit
  <2>1. stage = "commit"
    BY <1>3 DEF Boot!Commit
  <2>2. fresh = "pending" => bootSlot = running
    BY <2>1 DEF ImagesInv, RollbackInv
  <2>3. \/ UNCHANGED <<fresh, trial>>
        \/ /\ fresh' = IF fresh = "pending" THEN "valid" ELSE fresh
           /\ trial' = IF bootSlot = running THEN 0 ELSE trial
    BY Zenon, <1>3 DEF Boot!Commit
  <2>4. CASE fresh = "pending"
    BY <1>k, <2>2, <2>3, <2>4
  <2>5. CASE fresh # "pending"
    BY <1>0, <1>k, <2>3, <2>5
  <2> QED BY <2>4, <2>5
<1>4. CASE Boot!OtaBegin \/ Boot!OtaLoaded
  BY <1>k, <1>4 DEF Boot!OtaBegin, Boot!OtaLoaded
<1>5. CASE Boot!OtaFinish
  BY <1>5 DEF Boot!OtaFinish
<1> QED BY Zenon, <1>1, <1>2, <1>3, <1>4, <1>5, SlotSteps

LEMMA BootKeeps == ASSUME Boot!BootAssumption, BootInv, [Boot!Next]_Boot!vars PROVE BootInv'
  BY Zenon, BootRangesStep, BootFlagsStep, ProgressStep, SlotTypesStep, ImagesStep,
     RollbackStep,
     TrialStep DEF BootInv

LEMMA BootIsProven == ASSUME BootInv PROVE Boot!BootsOnlyProven
<1>1. image[bootSlot] \in Boot!Whole /\ (stage # "off" => image[running] \in Boot!Whole)
  BY DEF BootInv, ImagesInv
<1>2. build.rollback => trial <= 2
  BY DEF BootInv, SlotTypes, TrialInv
<1> QED BY <1>1, <1>2 DEF Boot!BootsOnlyProven

LEMMA BootIsTyped == ASSUME BootInv PROVE Boot!TypeOK
<1> SUFFICES ASSUME BootRanges, BootFlags, Progress, SlotTypes PROVE Boot!TypeOK
  BY DEF BootInv
<1>1. stage \in Boot!Running \union {"off"}
  BY StagesAre DEF Progress
<1>2. ap \in BOOLEAN /\ restarting \in BOOLEAN /\ unrestarted \in BOOLEAN
  BY Zenon DEF BootFlags
<1> QED BY Zenon, <1>1, <1>2 DEF BootRanges, Progress, SlotTypes, Boot!TypeOK

(***************************************************************************)
(* MqttClient: who holds the client.                                       *)
(***************************************************************************)
\* How often the event handler holds the client, by where it is.
Holding ==
    IF pc = "reporting" THEN 2
    ELSE IF pc \in {"subscribe", "online", "shadow", "get", "release", "give up",
      "acking"} THEN 1
    ELSE 0

\* What TypeOK leaves open.
ShapeInv ==
    /\ handlers \in Seq(Types) /\ todo \in Seq(Mqtt!Topic)
    /\ IsFiniteSet(publishing)

\* The client by the stages of its setup; its handle is set and cleared once.
SetupInv ==
    /\ start \in {"boot", "task"} => client = "none"
    /\ start \in {"made", "set"} => client = "made"
    /\ start = "done" => client \in {"running", "stopped", "destroyed"}
    /\ start = "failed" => client \in {"none", "destroyed"}
    /\ handle => start \in {"set", "done"} /\ client \in {"made", "running"}
    /\ start # "done" => publishing = {}

\* mqtt_stop: once it has the handle nobody else takes the client, and once it
\* has waited nobody holds it.
StopInv ==
    /\ reset \in {"wait", "free", "stop", "destroy"} => start = "done" /\ ~handle
    /\ reset \in {"free", "stop", "destroy"} => users = 0
    /\ reset \in {"wait", "free", "stop"} => client = "running"
    /\ client = "stopped" <=> reset = "destroy"

\* The handler runs in the library's task only, and holds what it has taken.
HandlerInv ==
    /\ pc # "idle" => client = "running"
    /\ held = Holding

ClientInv ==
    /\ Mqtt!TypeOK /\ ShapeInv /\ SetupInv /\ StopInv /\ HandlerInv
    /\ users = Cardinality(publishing) + held
    /\ client = "destroyed" => users = 0

LEMMA MqttInit == ASSUME Mqtt!ClientAssumption, Mqtt!Init PROVE ClientInv
<1>1. /\ synced \in BOOLEAN /\ handle \in BOOLEAN /\ unsupported \in BOOLEAN
      /\ connected \in BOOLEAN /\ asked \in BOOLEAN /\ forced \in BOOLEAN
      /\ wifi \in BOOLEAN /\ wifiFailed \in BOOLEAN /\ link \in BOOLEAN
      /\ refused \in BOOLEAN /\ will \in BOOLEAN
  <2>1. synced \in BOOLEAN /\ handle \in BOOLEAN /\ unsupported \in BOOLEAN
    BY Zenon DEF Mqtt!Init
  <2>2. connected \in BOOLEAN /\ asked \in BOOLEAN /\ forced \in BOOLEAN
    BY Zenon DEF Mqtt!Init
  <2>3. wifi \in BOOLEAN /\ wifiFailed \in BOOLEAN /\ link \in BOOLEAN
    BY Zenon DEF Mqtt!Init
  <2>4. refused \in BOOLEAN /\ will \in BOOLEAN
    BY Zenon DEF Mqtt!Init
  <2> QED BY Zenon, <2>1, <2>2, <2>3, <2>4
<1>2. IsFiniteSet(publishing) /\ Cardinality(publishing) = 0
  BY FS_EmptySet DEF Mqtt!Init
<1>3. ~handle
  BY DEF Mqtt!Init
<1>4. Mqtt!TypeOK
  BY <1>1 DEF Mqtt!Init, Mqtt!TypeOK, Mqtt!ClientAssumption, Mqtt!EventPc
<1>5. ShapeInv /\ HandlerInv
  BY <1>2 DEF Mqtt!Init, ShapeInv, HandlerInv, Holding
<1>6. SetupInv /\ StopInv
  BY <1>3 DEF Mqtt!Init, SetupInv, StopInv
<1>7. users = Cardinality(publishing) + held /\ (client = "destroyed" => users = 0)
  BY <1>2 DEF Mqtt!Init
<1> QED BY Zenon, <1>4, <1>5, <1>6, <1>7 DEF ClientInv

-----------------------------------------------------------------------------
\* The Boolean variables, which every step writes as such.
MqttFlags ==
    /\ synced \in BOOLEAN /\ handle \in BOOLEAN /\ unsupported \in BOOLEAN
    /\ connected \in BOOLEAN /\ asked \in BOOLEAN /\ forced \in BOOLEAN
    /\ wifi \in BOOLEAN /\ wifiFailed \in BOOLEAN /\ link \in BOOLEAN
    /\ refused \in BOOLEAN /\ will \in BOOLEAN

LEMMA MqttFlagsStep == ASSUME MqttFlags, [Mqtt!Next]_Mqtt!vars PROVE MqttFlags'
<1> USE DEF MqttFlags, Mqtt!setup, Mqtt!own, Mqtt!event, Mqtt!lib, Mqtt!broker, Mqtt!shutdown,
            Mqtt!others, Mqtt!rest
<1>1. ASSUME NEW t \in Types, Mqtt!Register(t) PROVE MqttFlags'
  BY Zenon, <1>1 DEF Mqtt!Register
<1>2. CASE Mqtt!RegisterSync
  BY Zenon, <1>2 DEF Mqtt!RegisterSync
<1>3. CASE Mqtt!Setup
  <2>1. CASE Mqtt!Start
    BY Zenon, <2>1 DEF Mqtt!Start
  <2>2. CASE Mqtt!ClientInit
    BY Zenon, <2>2 DEF Mqtt!ClientInit
  <2>3. CASE Mqtt!SetHandle
    BY Zenon, <2>3 DEF Mqtt!SetHandle
  <2>4. CASE Mqtt!ClientStart
    BY Zenon, <2>4 DEF Mqtt!ClientStart
  <2> QED BY <1>3, <2>1, <2>2, <2>3, <2>4 DEF Mqtt!Setup
<1>4. ASSUME NEW p \in Publisher, Mqtt!PublishBegin(p) \/ Mqtt!PublishEnd(p) PROVE MqttFlags'
  <2>1. CASE Mqtt!PublishBegin(p)
    BY Zenon, <2>1 DEF Mqtt!PublishBegin, Mqtt!Acquire
  <2>2. CASE Mqtt!PublishEnd(p)
    BY Zenon, <2>2 DEF Mqtt!PublishEnd, Mqtt!Release
  <2> QED BY <1>4, <2>1, <2>2
<1>5. CASE Mqtt!LibTask
  BY Zenon, <1>5 DEF Mqtt!LibTask, Mqtt!LibConnects, Mqtt!LibDisconnects, Mqtt!SubackRefuses
<1>6. CASE Mqtt!LinkLost \/ Mqtt!PublishWill
  BY Zenon, <1>6 DEF Mqtt!LinkLost, Mqtt!SessionLost, Mqtt!PublishWill
<1>7. ASSUME NEW m \in Mqtt!Message, Mqtt!Deliver(m) PROVE MqttFlags'
  BY Zenon, <1>7 DEF Mqtt!Deliver
<1>8. CASE Mqtt!OnConnected \/ Mqtt!Subscribe \/ Mqtt!PublishOnline
  <2>1. CASE Mqtt!OnConnected
    BY Zenon, <2>1 DEF Mqtt!OnConnected, Mqtt!Acquire, Mqtt!Release
  <2>2. CASE Mqtt!Subscribe
    BY Zenon, <2>2 DEF Mqtt!Subscribe
  <2>3. CASE Mqtt!PublishOnline
    BY Zenon, <2>3 DEF Mqtt!PublishOnline
  <2> QED BY <1>8, <2>1, <2>2, <2>3
<1>9. CASE Mqtt!GiveUp \/ Mqtt!ReportShadow \/ Mqtt!RequestShadow \/ Mqtt!OnDisconnected
           \/ Mqtt!OnRefused
  <2>1. CASE Mqtt!GiveUp
    BY Zenon, <2>1 DEF Mqtt!GiveUp, Mqtt!Acquire, Mqtt!Release
  <2>2. CASE Mqtt!ReportShadow
    BY ZenonT(60), <2>2 DEF Mqtt!ReportShadow, Mqtt!Acquire, Mqtt!Release
  <2>3. CASE Mqtt!RequestShadow
    BY ZenonT(60), <2>3 DEF Mqtt!RequestShadow, Mqtt!Acquire, Mqtt!Release
  <2>4. CASE Mqtt!OnDisconnected
    BY Zenon, <2>4 DEF Mqtt!OnDisconnected
  <2>5. CASE Mqtt!OnRefused
    BY Zenon, <2>5 DEF Mqtt!OnRefused, Mqtt!Acquire, Mqtt!Release
  <2> QED BY <1>9, <2>1, <2>2, <2>3, <2>4, <2>5
<1>10. CASE Mqtt!OnData \/ Mqtt!Route \/ Mqtt!Acknowledge \/ Mqtt!DataDone
  <2>1. CASE Mqtt!OnData
    BY Zenon, <2>1 DEF Mqtt!OnData
  <2>2. CASE Mqtt!Route
    BY Zenon, <2>2 DEF Mqtt!Route
  <2>3. CASE Mqtt!Acknowledge
    BY ZenonT(60), <2>3 DEF Mqtt!Acknowledge, Mqtt!Acquire, Mqtt!Release
  <2>4. CASE Mqtt!DataDone
    BY Zenon, <2>4 DEF Mqtt!DataDone
  <2> QED BY <1>10, <2>1, <2>2, <2>3, <2>4
<1>11. CASE Mqtt!ResetWifi
  BY Zenon, <1>11 DEF Mqtt!ResetWifi, Mqtt!SessionLost
<1>12. CASE Mqtt!Stop
  <2>1. CASE Mqtt!StopTakes
    BY Zenon, <2>1 DEF Mqtt!StopTakes
  <2>2. CASE Mqtt!StopWaits
    BY Zenon, <2>2 DEF Mqtt!StopWaits
  <2>3. CASE Mqtt!StopFrees
    BY Zenon, <2>3 DEF Mqtt!StopFrees
  <2>4. CASE Mqtt!StopLib
    BY Zenon, <2>4 DEF Mqtt!StopLib
  <2>5. CASE Mqtt!Destroy
    BY Zenon, <2>5 DEF Mqtt!Destroy
  <2> QED BY <1>12, <2>1, <2>2, <2>3, <2>4, <2>5 DEF Mqtt!Stop
<1>13. CASE UNCHANGED Mqtt!vars
  BY Zenon, <1>13 DEF Mqtt!vars
<1> QED BY <1>1, <1>2, <1>3, <1>4, <1>5, <1>6, <1>7, <1>8, <1>9, <1>10, <1>11, <1>12, <1>13
        DEF Mqtt!Next, Mqtt!Handler

LEMMA HeadIsTopic == ASSUME NEW s \in Seq(Mqtt!Topic), s # <<>> PROVE Head(s) \in Mqtt!Topic
  OBVIOUS

LEMMA Places ==
    /\ "idle" \in Mqtt!EventPc /\ "connected" \in Mqtt!EventPc /\ "subscribe" \in Mqtt!EventPc
    /\ "shadow" \in Mqtt!EventPc /\ "reporting" \in Mqtt!EventPc /\ "get" \in Mqtt!EventPc
    /\ "release" \in Mqtt!EventPc /\ "give up" \in Mqtt!EventPc /\ "lost" \in Mqtt!EventPc
    /\ "refused" \in Mqtt!EventPc /\ "append" \in Mqtt!EventPc /\ "route" \in Mqtt!EventPc
    /\ "ack" \in Mqtt!EventPc /\ "acking" \in Mqtt!EventPc /\ "reset" \in Mqtt!EventPc
  BY DEF Mqtt!EventPc

\* Where the client, its start, its stop and the broker's view of it are.
Stages ==
    /\ start \in {"boot", "task", "made", "set", "done", "failed"}
    /\ client \in {"none", "made", "running", "stopped", "destroyed"}
    /\ reset \in {"no", "wifi", "take", "wait", "free", "stop", "destroy", "over"}
    /\ status \in {"none", "online", "offline"}

LEMMA StagesStep == ASSUME Stages, [Mqtt!Next]_Mqtt!vars PROVE Stages'
<1> USE DEF Stages
<1>1. CASE UNCHANGED <<start, client, reset, status>>
  BY <1>1
<1>2. CASE Mqtt!Setup
  BY <1>2
     DEF Mqtt!Setup, Mqtt!Start, Mqtt!ClientInit, Mqtt!SetHandle, Mqtt!ClientStart,
         Mqtt!shutdown, Mqtt!broker, Mqtt!lib
<1>3. CASE Mqtt!Stop \/ Mqtt!ResetWifi
  BY <1>3
     DEF Mqtt!Stop, Mqtt!StopTakes, Mqtt!StopWaits, Mqtt!StopFrees, Mqtt!StopLib, Mqtt!Destroy,
         Mqtt!ResetWifi, Mqtt!broker, Mqtt!lib, Mqtt!setup, Mqtt!rest
<1>4. CASE Mqtt!PublishWill \/ Mqtt!PublishOnline
  BY <1>4
     DEF Mqtt!PublishWill, Mqtt!PublishOnline, Mqtt!Online, Mqtt!setup, Mqtt!lib,
         Mqtt!shutdown, Mqtt!others
<1>5. ASSUME NEW t \in Types, Mqtt!Register(t) PROVE Stages'
  BY <1>1, <1>5 DEF Mqtt!Register, Mqtt!lib, Mqtt!broker, Mqtt!shutdown
<1>6. ASSUME NEW p \in Publisher, Mqtt!PublishBegin(p) \/ Mqtt!PublishEnd(p) PROVE Stages'
  BY <1>1, <1>6
     DEF Mqtt!PublishBegin, Mqtt!PublishEnd, Mqtt!setup, Mqtt!lib, Mqtt!broker, Mqtt!shutdown
<1>7. ASSUME NEW m \in Mqtt!Message, Mqtt!Deliver(m) PROVE Stages'
  BY <1>1, <1>7 DEF Mqtt!Deliver, Mqtt!setup, Mqtt!lib, Mqtt!broker, Mqtt!shutdown
<1>8. CASE Mqtt!LibTask \/ Mqtt!LinkLost \/ Mqtt!RegisterSync
  BY <1>1, <1>8
     DEF Mqtt!LibTask, Mqtt!LibConnects, Mqtt!LibDisconnects, Mqtt!SubackRefuses,
         Mqtt!LinkLost, Mqtt!RegisterSync, Mqtt!setup, Mqtt!lib, Mqtt!broker, Mqtt!shutdown
<1>9. CASE Mqtt!Handler /\ ~Mqtt!PublishOnline
  BY <1>1, <1>9
     DEF Mqtt!Handler, Mqtt!OnConnected, Mqtt!Subscribe, Mqtt!GiveUp, Mqtt!ReportShadow,
         Mqtt!RequestShadow, Mqtt!OnDisconnected, Mqtt!OnRefused, Mqtt!OnData, Mqtt!Route,
         Mqtt!Acknowledge, Mqtt!DataDone, Mqtt!setup, Mqtt!lib, Mqtt!broker, Mqtt!shutdown,
         Mqtt!others
<1>10. CASE UNCHANGED Mqtt!vars
  BY <1>1, <1>10 DEF Mqtt!vars, Mqtt!setup, Mqtt!lib, Mqtt!broker, Mqtt!shutdown
<1> QED BY <1>2, <1>3, <1>4, <1>5, <1>6, <1>7, <1>8, <1>9, <1>10 DEF Mqtt!Next

\* The lists and what is left of them.
Lists ==
    /\ handlers \in Seq(Types) /\ Len(handlers) <= MaxHandlers
    /\ todo \in Seq(Mqtt!Topic) /\ Len(todo) <= 3

LEMMA ListsStep == ASSUME Mqtt!ClientAssumption, Lists, [Mqtt!Next]_Mqtt!vars PROVE Lists'
<1> USE DEF Mqtt!ClientAssumption, Lists
<1>1. CASE UNCHANGED <<handlers, todo>>
  BY <1>1
<1>2. ASSUME NEW t \in Types, Mqtt!Register(t) PROVE Lists'
  BY <1>2 DEF Mqtt!Register, Mqtt!event
<1>3. CASE Mqtt!OnConnected
  <2>1. Mqtt!RequiredTopics \in Seq(Mqtt!Topic) /\ Len(Mqtt!RequiredTopics) <= 3
    BY DEF Mqtt!RequiredTopics, Mqtt!Topic
  <2>2. UNCHANGED handlers /\ todo' \in {Mqtt!RequiredTopics, todo}
    BY <1>3 DEF Mqtt!OnConnected, Mqtt!others, Mqtt!setup
  <2> QED BY <2>1, <2>2
<1>4. CASE Mqtt!Subscribe
  <2>1. todo # <<>> /\ UNCHANGED handlers /\ todo' \in {Tail(todo), todo, <<>>}
    BY <1>4 DEF Mqtt!Subscribe, Mqtt!others, Mqtt!setup
  <2>2. /\ Tail(todo) \in Seq(Mqtt!Topic) /\ Len(Tail(todo)) <= 3
        /\ <<>> \in Seq(Mqtt!Topic) /\ Len(<<>>) <= 3
    BY <2>1
  <2> QED BY <2>1, <2>2
<1>5. CASE Mqtt!Setup \/ Mqtt!RegisterSync
  BY <1>1, <1>5
     DEF Mqtt!Setup, Mqtt!Start, Mqtt!ClientInit, Mqtt!SetHandle, Mqtt!ClientStart,
         Mqtt!RegisterSync, Mqtt!event
<1>6. CASE Mqtt!LibTask \/ Mqtt!LinkLost \/ Mqtt!PublishWill
  BY <1>1, <1>6
     DEF Mqtt!LibTask, Mqtt!LibConnects, Mqtt!LibDisconnects, Mqtt!SubackRefuses,
         Mqtt!LinkLost, Mqtt!PublishWill, Mqtt!setup, Mqtt!event
<1>7. ASSUME NEW p \in Publisher, Mqtt!PublishBegin(p) \/ Mqtt!PublishEnd(p) PROVE Lists'
  BY <1>1, <1>7 DEF Mqtt!PublishBegin, Mqtt!PublishEnd, Mqtt!setup, Mqtt!event
<1>8. ASSUME NEW m \in Mqtt!Message, Mqtt!Deliver(m) PROVE Lists'
  BY <1>1, <1>8 DEF Mqtt!Deliver, Mqtt!setup
<1>9. CASE /\ ~Mqtt!OnConnected /\ ~Mqtt!Subscribe
           /\ Mqtt!Handler
  BY <1>1, <1>9
     DEF Mqtt!Handler, Mqtt!PublishOnline, Mqtt!GiveUp, Mqtt!ReportShadow, Mqtt!RequestShadow,
         Mqtt!OnDisconnected, Mqtt!OnRefused, Mqtt!OnData, Mqtt!Route, Mqtt!Acknowledge,
         Mqtt!DataDone, Mqtt!setup, Mqtt!others
<1>10. CASE Mqtt!ResetWifi \/ Mqtt!Stop
  BY <1>1, <1>10
     DEF Mqtt!ResetWifi, Mqtt!Stop, Mqtt!StopTakes, Mqtt!StopWaits, Mqtt!StopFrees,
         Mqtt!StopLib, Mqtt!Destroy, Mqtt!rest, Mqtt!setup, Mqtt!event
<1>11. CASE UNCHANGED Mqtt!vars
  BY <1>1, <1>11 DEF Mqtt!vars, Mqtt!setup, Mqtt!event
<1> QED BY <1>2, <1>3, <1>4, <1>5, <1>6, <1>7, <1>8, <1>9, <1>10, <1>11 DEF Mqtt!Next

\* Who uses the client, and the bounds.
Counts ==
    /\ users \in Nat /\ publishing \subseteq Publisher
    /\ faults \in 0..MaxMqttFaults /\ messages \in 0..MaxMessages

LEMMA CountsStep == ASSUME Mqtt!ClientAssumption, Counts, [Mqtt!Next]_Mqtt!vars PROVE Counts'
<1> USE DEF Mqtt!ClientAssumption, Counts, Mqtt!Fault, Mqtt!NoFault, Mqtt!counters
<1>1. CASE UNCHANGED <<users, publishing, Mqtt!counters>>
  BY <1>1
<1>2. ASSUME NEW p \in Publisher, Mqtt!PublishBegin(p) \/ Mqtt!PublishEnd(p) PROVE Counts'
  BY <1>2 DEF Mqtt!PublishBegin, Mqtt!PublishEnd, Mqtt!Acquire, Mqtt!Release
<1>3. ASSUME NEW m \in Mqtt!Message, Mqtt!Deliver(m) PROVE Counts'
  BY <1>3 DEF Mqtt!Deliver, Mqtt!own
<1>4. CASE Mqtt!ClientInit \/ Mqtt!ClientStart \/ Mqtt!LinkLost
  BY <1>4 DEF Mqtt!ClientInit, Mqtt!ClientStart, Mqtt!LinkLost, Mqtt!own
<1>5. CASE (\E t \in Types : Mqtt!Register(t)) \/ Mqtt!RegisterSync
  BY <1>1, <1>5 DEF Mqtt!Register, Mqtt!RegisterSync, Mqtt!own
<1>6. CASE Mqtt!Start \/ Mqtt!SetHandle \/ Mqtt!LibTask \/ Mqtt!PublishWill
  BY <1>1, <1>6
     DEF Mqtt!Start, Mqtt!SetHandle, Mqtt!LibTask, Mqtt!LibConnects, Mqtt!LibDisconnects,
         Mqtt!SubackRefuses, Mqtt!PublishWill, Mqtt!own
<1>7. CASE Mqtt!OnConnected \/ Mqtt!PublishOnline \/ Mqtt!GiveUp \/ Mqtt!OnRefused
  <2>1. CASE Mqtt!OnConnected
    BY <2>1 DEF Mqtt!OnConnected, Mqtt!Acquire, Mqtt!own, Mqtt!others
  <2>2. CASE Mqtt!PublishOnline
    BY <2>2 DEF Mqtt!PublishOnline, Mqtt!own, Mqtt!others
  <2>3. CASE Mqtt!GiveUp
    <3>1. Mqtt!Release /\ UNCHANGED <<publishing, Mqtt!counters>>
      BY Zenon, <2>3 DEF Mqtt!GiveUp, Mqtt!others
    <3> QED BY <3>1 DEF Mqtt!Release
  <2>4. CASE Mqtt!OnRefused
    <3>1. (Mqtt!Acquire \/ UNCHANGED users) /\ UNCHANGED <<publishing, Mqtt!counters>>
      BY Zenon, <2>4 DEF Mqtt!OnRefused, Mqtt!own, Mqtt!others
    <3> QED BY <3>1 DEF Mqtt!Acquire
  <2> QED BY <1>7, <2>1, <2>2, <2>3, <2>4
<1>8. CASE Mqtt!ReportShadow \/ Mqtt!RequestShadow \/ Mqtt!Acknowledge
  BY <1>8
     DEF Mqtt!ReportShadow, Mqtt!RequestShadow, Mqtt!Acknowledge, Mqtt!Acquire, Mqtt!Release,
         Mqtt!own, Mqtt!others
<1>9. CASE Mqtt!Subscribe \/ Mqtt!OnDisconnected \/ Mqtt!OnData \/ Mqtt!Route \/ Mqtt!DataDone
  <2>1. CASE Mqtt!Subscribe
    <3>1. (Mqtt!Fault \/ Mqtt!NoFault) /\ UNCHANGED <<users, publishing>>
      BY Zenon, <2>1 DEF Mqtt!Subscribe, Mqtt!own, Mqtt!others
    <3> QED BY <3>1
  <2>2. CASE Mqtt!OnDisconnected \/ Mqtt!DataDone
    BY <2>2 DEF Mqtt!OnDisconnected, Mqtt!DataDone, Mqtt!own, Mqtt!others
  <2>3. CASE Mqtt!OnData
    BY <2>3 DEF Mqtt!OnData, Mqtt!own, Mqtt!others
  <2>4. CASE Mqtt!Route
    BY <2>4 DEF Mqtt!Route, Mqtt!own
  <2> QED BY <1>9, <2>1, <2>2, <2>3, <2>4
<1>10. CASE Mqtt!ResetWifi \/ Mqtt!Stop
  BY <1>10
     DEF Mqtt!ResetWifi, Mqtt!Stop, Mqtt!StopTakes, Mqtt!StopWaits, Mqtt!StopFrees,
         Mqtt!StopLib, Mqtt!Destroy, Mqtt!rest, Mqtt!own
<1>11. CASE UNCHANGED Mqtt!vars
  BY <1>1, <1>11 DEF Mqtt!vars, Mqtt!own
<1> QED BY <1>2, <1>3, <1>4, <1>5, <1>6, <1>7, <1>8, <1>9, <1>10, <1>11
        DEF Mqtt!Next, Mqtt!Handler, Mqtt!Setup

\* What the event handler is at.
Handled ==
    /\ pc \in Mqtt!EventPc
    /\ message \in Mqtt!Message \union {Mqtt!None}
    /\ rx \in Mqtt!Topic \union {"empty", "freed"}
    /\ subscribed \subseteq Mqtt!Topic

LEMMA HandledStep == ASSUME Lists, Handled, [Mqtt!Next]_Mqtt!vars PROVE Handled'
<1> USE Places DEF Handled
<1>1. CASE UNCHANGED <<pc, message, rx, subscribed>>
  BY <1>1
<1>2. CASE Mqtt!LibTask
  BY <1>2 DEF Mqtt!LibTask, Mqtt!LibConnects, Mqtt!LibDisconnects, Mqtt!SubackRefuses
<1>3. CASE Mqtt!LinkLost \/ Mqtt!PublishWill
  BY <1>3 DEF Mqtt!LinkLost, Mqtt!SessionLost, Mqtt!PublishWill, Mqtt!event
<1>4. ASSUME NEW m \in Mqtt!Message, Mqtt!Deliver(m) PROVE Handled'
  BY <1>4 DEF Mqtt!Deliver, Mqtt!broker
<1>5. CASE Mqtt!OnConnected \/ Mqtt!PublishOnline \/ Mqtt!OnRefused
  BY <1>5 DEF Mqtt!OnConnected, Mqtt!PublishOnline, Mqtt!OnRefused, Mqtt!broker
<1>6. CASE Mqtt!Subscribe
  <2>1. Head(todo) \in Mqtt!Topic
    BY <1>6, HeadIsTopic DEF Mqtt!Subscribe, Lists
  <2>2. /\ pc' \in {pc, "give up"} /\ UNCHANGED <<message, rx>>
        /\ subscribed' \in {subscribed, subscribed \union {Head(todo)}}
    BY <1>6 DEF Mqtt!Subscribe
  <2> QED BY <2>1, <2>2
<1>7. CASE Mqtt!GiveUp \/ Mqtt!ReportShadow \/ Mqtt!RequestShadow
  BY <1>7 DEF Mqtt!GiveUp, Mqtt!ReportShadow, Mqtt!RequestShadow, Mqtt!broker
<1>8. CASE Mqtt!OnDisconnected \/ Mqtt!Acknowledge \/ Mqtt!DataDone
  BY <1>8 DEF Mqtt!OnDisconnected, Mqtt!Acknowledge, Mqtt!DataDone, Mqtt!broker
<1>9. CASE Mqtt!OnData
  BY <1>9 DEF Mqtt!OnData, Mqtt!Taken, Mqtt!broker
<1>10. CASE Mqtt!Route
  BY <1>10 DEF Mqtt!Route, Mqtt!broker
<1>11. CASE Mqtt!ResetWifi \/ Mqtt!Stop
  BY <1>11
     DEF Mqtt!ResetWifi, Mqtt!SessionLost, Mqtt!Stop, Mqtt!StopTakes, Mqtt!StopWaits,
         Mqtt!StopFrees, Mqtt!StopLib, Mqtt!Destroy, Mqtt!rest, Mqtt!event, Mqtt!broker
<1>12. ASSUME NEW t \in Types, Mqtt!Register(t) PROVE Handled'
  BY <1>1, <1>12 DEF Mqtt!Register, Mqtt!event, Mqtt!broker
<1>13. CASE Mqtt!Setup \/ Mqtt!RegisterSync \/ UNCHANGED Mqtt!vars
  BY <1>1, <1>13
     DEF Mqtt!Setup, Mqtt!Start, Mqtt!ClientInit, Mqtt!SetHandle, Mqtt!ClientStart,
         Mqtt!RegisterSync, Mqtt!vars, Mqtt!event, Mqtt!broker
<1>14. ASSUME NEW p \in Publisher, Mqtt!PublishBegin(p) \/ Mqtt!PublishEnd(p) PROVE Handled'
  BY <1>1, <1>14 DEF Mqtt!PublishBegin, Mqtt!PublishEnd, Mqtt!event, Mqtt!broker
<1> QED BY <1>2, <1>3, <1>4, <1>5, <1>6, <1>7, <1>8, <1>9, <1>10, <1>11, <1>12, <1>13, <1>14
        DEF Mqtt!Next, Mqtt!Handler

LEMMA MqttRangesStep ==
    ASSUME Mqtt!ClientAssumption, Stages, Lists, Counts, Handled, [Mqtt!Next]_Mqtt!vars
    PROVE  Stages' /\ Lists' /\ Counts' /\ Handled'
  BY StagesStep, ListsStep, CountsStep, HandledStep

-----------------------------------------------------------------------------
\* What the properties speak of.
UsersInv ==
    /\ IsFiniteSet(publishing)
    /\ SetupInv /\ StopInv /\ HandlerInv
    /\ users = Cardinality(publishing) + held
    /\ client = "destroyed" => users = 0

LEMMA OneMore == 0 + 1 = 1 /\ 1 - 1 = 0 /\ 1 > 0
  OBVIOUS

LEMMA HoldingType == Holding \in 0 .. 2
  BY DEF Holding

LEMMA NobodyCounts == publishing = {} => Cardinality(publishing) = 0
  BY FS_EmptySet

LEMMA UsersStep == ASSUME Stages, Counts, UsersInv, [Mqtt!Next]_Mqtt!vars PROVE UsersInv'
<1> USE DEF UsersInv
<1>0. Cardinality(publishing) \in Nat /\ users \in Nat /\ held \in 0 .. 2
  <2>1. held \in 0 .. 2
    BY HoldingType DEF HandlerInv
  <2> QED BY <2>1, FS_CardinalityType DEF Counts
<1> USE <1>0
<1>1. CASE UNCHANGED <<start, client, handle, publishing, reset, users, held, pc>>
  BY <1>1 DEF SetupInv, StopInv, HandlerInv, Holding
<1>2. CASE UNCHANGED <<start, client, publishing, reset, Mqtt!own, held>> /\ client = "running"
           /\ pc' \in {"connected", "lost", "refused", "append", "route", "ack", "reset",
              "idle"}
           /\ pc \in {"connected", "lost", "refused", "append", "route", "ack", "reset", "idle"}
  BY <1>2 DEF Mqtt!own, SetupInv, StopInv, HandlerInv, Holding
<1>3. CASE Mqtt!Start
  BY <1>3
     DEF Mqtt!Start, Mqtt!own, Mqtt!event, Mqtt!lib, Mqtt!shutdown, SetupInv, StopInv,
         HandlerInv, Holding
<1>4. CASE Mqtt!ClientInit
  BY <1>4
     DEF Mqtt!ClientInit, Mqtt!own, Mqtt!event, Mqtt!shutdown, SetupInv, StopInv, HandlerInv,
         Holding
<1>5. CASE Mqtt!SetHandle
  BY <1>5
     DEF Mqtt!SetHandle, Mqtt!event, Mqtt!lib, Mqtt!shutdown, SetupInv, StopInv, HandlerInv,
         Holding
<1>6. CASE Mqtt!ClientStart
  <2>1. /\ start = "set"
        /\ \/ start' = "done" /\ client' = "running" /\ UNCHANGED handle
           \/ start' = "failed" /\ client' = "destroyed" /\ ~handle'
        /\ UNCHANGED <<users, pc, held, reset, publishing>>
    BY Zenon, <1>6 DEF Mqtt!ClientStart, Mqtt!event, Mqtt!shutdown
  <2>2. publishing = {} /\ held = 0
    BY <2>1 DEF SetupInv, HandlerInv, Holding
  <2>3. Cardinality(publishing) = 0
    BY <2>2, NobodyCounts
  <2>4. SetupInv'
    BY <2>1, <2>2 DEF SetupInv
  <2>5. users' = 0
    BY <2>1, <2>2, <2>3
  <2>6. StopInv' /\ HandlerInv'
    BY <2>1, <2>5 DEF SetupInv, StopInv, HandlerInv, Holding
  <2> QED BY <2>1, <2>2, <2>3, <2>4, <2>5, <2>6
<1>7. ASSUME NEW p \in Publisher, Mqtt!PublishBegin(p) PROVE UsersInv'
  <2>1. /\ IsFiniteSet(publishing')
        /\ Cardinality(publishing') = Cardinality(publishing) + 1
    BY <1>7, FS_AddElement DEF Mqtt!PublishBegin
  <2>2. /\ start = "done" /\ handle /\ users' = users + 1
        /\ UNCHANGED <<start, client, handle, reset, held, pc>>
    BY Zenon, <1>7
       DEF Mqtt!PublishBegin, Mqtt!Acquire, Mqtt!setup, Mqtt!event, Mqtt!lib, Mqtt!shutdown
  <2>3. SetupInv'
    BY <2>2 DEF SetupInv
  <2>4. StopInv' /\ HandlerInv' /\ client # "destroyed"
    BY <2>2 DEF SetupInv, StopInv, HandlerInv, Holding
  <2>5. users' = Cardinality(publishing') + held'
    BY <2>1, <2>2
  <2> QED BY <2>1, <2>2, <2>3, <2>4, <2>5
<1>8. ASSUME NEW p \in Publisher, Mqtt!PublishEnd(p) PROVE UsersInv'
  <2>1. /\ IsFiniteSet(publishing')
        /\ Cardinality(publishing') = Cardinality(publishing) - 1
        /\ publishing # {}
    BY <1>8, FS_RemoveElement DEF Mqtt!PublishEnd
  <2>2. /\ Mqtt!Release /\ UNCHANGED <<start, client, handle, reset, held, pc>>
        /\ publishing' = publishing \ {p}
    BY Zenon, <1>8
       DEF Mqtt!PublishEnd, Mqtt!Release, Mqtt!setup, Mqtt!event, Mqtt!lib, Mqtt!shutdown
  <2>3. Cardinality(publishing') \in Nat
    BY <2>1, FS_CardinalityType
  <2>4. SetupInv'
    BY <2>1, <2>2 DEF SetupInv
  <2>5. HandlerInv'
    BY <2>2 DEF HandlerInv, Holding
  <2>6. users > 0 /\ users' = Cardinality(publishing') + held'
    BY <2>1, <2>2, <2>3 DEF Mqtt!Release
  <2>7. StopInv' /\ client # "destroyed"
    BY <2>2, <2>6 DEF StopInv
  <2> QED BY <2>1, <2>2, <2>4, <2>5, <2>6, <2>7
<1>9. CASE Mqtt!LibTask
  <2>1. /\ client = "running" /\ pc = "idle" /\ pc' \in {"connected", "lost", "refused"}
        /\ UNCHANGED <<start, client, publishing, reset, Mqtt!own, held>>
    BY Zenon, <1>9
       DEF Mqtt!LibTask, Mqtt!LibConnects, Mqtt!LibDisconnects, Mqtt!SubackRefuses,
           Mqtt!Unlocked, Mqtt!setup, Mqtt!shutdown, Mqtt!lib
  <2> QED BY <1>2, <2>1
<1>10. ASSUME NEW m \in Mqtt!Message, Mqtt!Deliver(m) PROVE UsersInv'
  <2>1. /\ client = "running" /\ pc = "idle" /\ pc' = "append"
        /\ UNCHANGED <<start, client, publishing, reset, Mqtt!own, held>>
    BY Zenon, <1>10 DEF Mqtt!Deliver, Mqtt!Unlocked, Mqtt!setup, Mqtt!shutdown, Mqtt!lib
  <2> QED BY <1>2, <2>1
<1>11. ASSUME NEW t \in Types, Mqtt!Register(t) PROVE UsersInv'
  BY <1>1, <1>11 DEF Mqtt!Register, Mqtt!own, Mqtt!event, Mqtt!lib, Mqtt!shutdown
<1>12. CASE Mqtt!RegisterSync \/ Mqtt!LinkLost \/ Mqtt!PublishWill \/ UNCHANGED Mqtt!vars
  <2>1. UNCHANGED <<start, client, publishing, reset, Mqtt!own, held, pc>>
    BY Zenon, <1>12
       DEF Mqtt!RegisterSync, Mqtt!LinkLost, Mqtt!PublishWill, Mqtt!vars, Mqtt!setup,
           Mqtt!event, Mqtt!lib, Mqtt!shutdown, Mqtt!own
  <2> QED BY <1>1, <2>1 DEF Mqtt!own
\* The handler takes the client once more, or gives it back once.
<1>13. ASSUME pc # "idle", Mqtt!Acquire, held' = held + 1, HandlerInv',
              UNCHANGED <<start, client, publishing, reset>>
       PROVE  UsersInv'
  <2>1. handle /\ users' = users + 1 /\ UNCHANGED handle
    BY <1>13 DEF Mqtt!Acquire
  <2>2. SetupInv' /\ StopInv' /\ client # "destroyed"
    BY <1>13, <2>1 DEF SetupInv, StopInv, HandlerInv
  <2> QED BY <1>13, <2>1, <2>2
<1>14. ASSUME held > 0, Mqtt!Release, held' = held - 1, HandlerInv',
              UNCHANGED <<start, client, publishing, reset>>
       PROVE  UsersInv'
  <2>1. users > 0 /\ users' = users - 1 /\ UNCHANGED handle
    BY <1>14 DEF Mqtt!Release
  <2>2. SetupInv' /\ StopInv' /\ client # "destroyed"
    BY <1>14, <2>1 DEF SetupInv, StopInv
  <2> QED BY <1>14, <2>1, <2>2
<1>15. CASE Mqtt!OnConnected
  <2>1. /\ pc = "connected" /\ UNCHANGED <<start, client, publishing, reset>>
        /\ \/ Mqtt!Acquire /\ held' = 1 /\ pc' = "subscribe"
           \/ pc' = "idle" /\ UNCHANGED <<Mqtt!own, held>>
    BY Zenon, <1>15 DEF Mqtt!OnConnected, Mqtt!others, Mqtt!setup, Mqtt!lib, Mqtt!shutdown
  <2>2. held = 0 /\ client = "running"
    BY <2>1 DEF HandlerInv, Holding
  <2>3. ASSUME Mqtt!Acquire, held' = 1, pc' = "subscribe" PROVE UsersInv'
    <3>1. HandlerInv' /\ held' = held + 1
      BY <2>1, <2>2, <2>3 DEF HandlerInv, Holding
    <3> QED BY <1>13, <2>1, <2>3, <3>1
  <2>4. ASSUME pc' = "idle", UNCHANGED <<Mqtt!own, held>> PROVE UsersInv'
    BY <1>2, <2>1, <2>2, <2>4
  <2> QED BY <2>1, <2>3, <2>4
<1>16. CASE Mqtt!Subscribe \/ Mqtt!PublishOnline
  <2>1. /\ pc = "subscribe" /\ pc' \in {"subscribe", "give up", "shadow"}
        /\ UNCHANGED <<start, client, publishing, reset, Mqtt!own, held>>
    BY Zenon, <1>16
       DEF Mqtt!Subscribe, Mqtt!PublishOnline, Mqtt!others, Mqtt!setup, Mqtt!lib, Mqtt!shutdown
  <2>2. Holding = 1
    BY <2>1 DEF Holding
  <2>3. Holding' = 1
    BY <2>1 DEF Holding
  <2>4. HandlerInv'
    BY <2>1, <2>2, <2>3 DEF HandlerInv
  <2> QED BY <2>1, <2>4 DEF Mqtt!own, SetupInv, StopInv
<1>17. CASE Mqtt!GiveUp
  <2>1. /\ pc = "give up" /\ pc' = "idle" /\ Mqtt!Release /\ held' = held - 1
        /\ UNCHANGED <<start, client, publishing, reset>>
    BY Zenon, <1>17 DEF Mqtt!GiveUp, Mqtt!others, Mqtt!setup, Mqtt!shutdown
  <2>2. Holding = 1
    BY <2>1 DEF Holding
  <2>3. Holding' = 0
    BY <2>1 DEF Holding
  <2>4. held = 1
    BY Zenon, <2>2 DEF HandlerInv
  <2>5. held' = 0
    BY Zenon, <2>1, <2>4, OneMore
  <2>6. HandlerInv'
    BY Zenon, <2>1, <2>3, <2>5 DEF HandlerInv
  <2>7. held > 0
    BY Zenon, <2>4, OneMore
  <2> QED BY <1>14, <2>1, <2>6, <2>7
<1>18. CASE Mqtt!ReportShadow /\ pc = "shadow"
  <2>1. /\ UNCHANGED <<start, client, publishing, reset>>
        /\ \/ Mqtt!Acquire /\ held' = held + 1 /\ pc' = "reporting"
           \/ pc' = "get" /\ UNCHANGED <<Mqtt!own, held>>
    BY Zenon, <1>18
       DEF Mqtt!ReportShadow, Mqtt!Acquire, Mqtt!own, Mqtt!others, Mqtt!setup, Mqtt!lib,
           Mqtt!shutdown
  <2>2. ASSUME Mqtt!Acquire, held' = held + 1, pc' = "reporting" PROVE UsersInv'
    <3>1. HandlerInv'
      BY <1>18, <2>1, <2>2 DEF HandlerInv, Holding
    <3> QED BY <1>18, <1>13, <2>1, <2>2, <3>1
  <2>3. ASSUME pc' = "get", UNCHANGED <<Mqtt!own, held>> PROVE UsersInv'
    <3>1. HandlerInv'
      BY <1>18, <2>1, <2>3 DEF HandlerInv, Holding
    <3> QED BY <2>1, <2>3, <3>1 DEF Mqtt!own, SetupInv, StopInv
  <2> QED BY <2>1, <2>2, <2>3
<1>19. CASE Mqtt!ReportShadow /\ pc = "reporting"
  <2>1. /\ pc' = "get" /\ Mqtt!Release /\ held' = held - 1
        /\ UNCHANGED <<start, client, publishing, reset>>
    BY Zenon, <1>19 DEF Mqtt!ReportShadow, Mqtt!others, Mqtt!setup, Mqtt!lib, Mqtt!shutdown
  <2>2. held > 0 /\ HandlerInv'
    BY <1>19, <2>1 DEF HandlerInv, Holding
  <2> QED BY <1>14, <2>1, <2>2
<1>20. CASE Mqtt!RequestShadow /\ pc = "get"
  <2>1. /\ pc' = "release"
        /\ UNCHANGED <<start, client, publishing, reset, Mqtt!own, held>>
    BY Zenon, <1>20
       DEF Mqtt!RequestShadow, Mqtt!Release, Mqtt!own, Mqtt!others, Mqtt!setup, Mqtt!lib,
           Mqtt!shutdown
  <2>2. HandlerInv'
    BY <1>20, <2>1 DEF HandlerInv, Holding
  <2> QED BY <2>1, <2>2 DEF Mqtt!own, SetupInv, StopInv
<1>21. CASE Mqtt!RequestShadow /\ pc = "release"
  <2>1. /\ pc' = "idle" /\ Mqtt!Release /\ held' = held - 1
        /\ UNCHANGED <<start, client, publishing, reset>>
    BY Zenon, <1>21 DEF Mqtt!RequestShadow, Mqtt!others, Mqtt!setup, Mqtt!lib, Mqtt!shutdown
  <2>2. held > 0 /\ HandlerInv'
    BY <1>21, <2>1 DEF HandlerInv, Holding
  <2> QED BY <1>14, <2>1, <2>2
<1>22. CASE Mqtt!OnRefused /\ pc = "refused"
  <2>1. /\ UNCHANGED <<start, client, publishing, reset>>
        /\ \/ Mqtt!Acquire /\ held' = held + 1 /\ pc' = "give up"
           \/ pc' = "idle" /\ UNCHANGED <<Mqtt!own, held>>
    BY Zenon, <1>22
       DEF Mqtt!OnRefused, Mqtt!Acquire, Mqtt!own, Mqtt!others, Mqtt!setup, Mqtt!lib,
           Mqtt!shutdown
  <2>2. ASSUME Mqtt!Acquire, held' = held + 1, pc' = "give up" PROVE UsersInv'
    <3>1. HandlerInv'
      <4>1. Holding = 0 /\ pc # "idle"
        BY <1>22 DEF Holding
      <4>2. Holding' = 1
        BY <2>2 DEF Holding
      <4>3. client' = "running" /\ held = 0
        BY Zenon, <2>1, <4>1 DEF HandlerInv
      <4>4. held' = 1
        BY Zenon, <2>2, <4>3, OneMore
      <4> QED BY Zenon, <4>2, <4>3, <4>4 DEF HandlerInv
    <3> QED BY <1>22, <1>13, <2>1, <2>2, <3>1
  <2>3. ASSUME pc' = "idle", UNCHANGED <<Mqtt!own, held>> PROVE UsersInv'
    <3>1. HandlerInv'
      BY <1>22, <2>1, <2>3 DEF HandlerInv, Holding
    <3> QED BY <2>1, <2>3, <3>1 DEF Mqtt!own, SetupInv, StopInv
  <2> QED BY <2>1, <2>2, <2>3
<1>23. CASE Mqtt!Acknowledge /\ pc = "ack"
  <2>1. /\ UNCHANGED <<start, client, publishing, reset>>
        /\ \/ Mqtt!Acquire /\ held' = held + 1 /\ pc' = "acking"
           \/ pc' = "reset" /\ UNCHANGED <<Mqtt!own, held>>
    BY Zenon, <1>23
       DEF Mqtt!Acknowledge, Mqtt!Acquire, Mqtt!own, Mqtt!others, Mqtt!setup, Mqtt!lib,
           Mqtt!shutdown
  <2>2. ASSUME Mqtt!Acquire, held' = held + 1, pc' = "acking" PROVE UsersInv'
    <3>1. HandlerInv'
      BY <1>23, <2>1, <2>2 DEF HandlerInv, Holding
    <3> QED BY <1>23, <1>13, <2>1, <2>2, <3>1
  <2>3. ASSUME pc' = "reset", UNCHANGED <<Mqtt!own, held>> PROVE UsersInv'
    <3>1. HandlerInv'
      BY <1>23, <2>1, <2>3 DEF HandlerInv, Holding
    <3> QED BY <2>1, <2>3, <3>1 DEF Mqtt!own, SetupInv, StopInv
  <2> QED BY <2>1, <2>2, <2>3
<1>24. CASE Mqtt!Acknowledge /\ pc = "acking"
  <2>1. /\ pc' = "reset" /\ Mqtt!Release /\ held' = held - 1
        /\ UNCHANGED <<start, client, publishing, reset>>
    BY Zenon, <1>24 DEF Mqtt!Acknowledge, Mqtt!others, Mqtt!setup, Mqtt!lib, Mqtt!shutdown
  <2>2. held > 0 /\ HandlerInv'
    BY <1>24, <2>1 DEF HandlerInv, Holding
  <2> QED BY <1>14, <2>1, <2>2
<1>25. CASE Mqtt!OnDisconnected \/ Mqtt!OnData \/ Mqtt!Route \/ Mqtt!DataDone
  <2>1. /\ pc \in {"lost", "append", "route", "reset"}
        /\ pc' \in {"idle", "route", "ack", "reset"}
        /\ UNCHANGED <<start, client, publishing, reset, Mqtt!own, held>>
    <3>1. CASE Mqtt!OnDisconnected \/ Mqtt!DataDone
      BY Zenon, <3>1
         DEF Mqtt!OnDisconnected, Mqtt!DataDone, Mqtt!others, Mqtt!setup, Mqtt!lib,
             Mqtt!shutdown
    <3>2. CASE Mqtt!OnData
      BY Zenon, <3>2 DEF Mqtt!OnData, Mqtt!others, Mqtt!setup, Mqtt!lib, Mqtt!shutdown
    <3>3. CASE Mqtt!Route
      BY <3>3 DEF Mqtt!Route, Mqtt!setup, Mqtt!lib, Mqtt!shutdown
    <3> QED BY <1>25, <3>1, <3>2, <3>3
  <2>2. client = "running"
    BY <2>1 DEF HandlerInv
  <2> QED BY <1>2, <2>1, <2>2
<1>26. CASE Mqtt!ResetWifi
  <2>1. /\ reset = "no" /\ reset' = "take"
        /\ UNCHANGED <<start, client, publishing, Mqtt!own, held, pc>>
    BY Zenon, <1>26 DEF Mqtt!ResetWifi, Mqtt!lib, Mqtt!rest, Mqtt!setup, Mqtt!event
  <2> QED BY <2>1 DEF Mqtt!own, SetupInv, StopInv, HandlerInv, Holding
<1>27. CASE Mqtt!StopTakes
  <2>1. /\ reset = "take" /\ ~handle' /\ ((reset' = "wait" /\ handle) \/ reset' = "over")
        /\ start \in {"boot", "done", "failed"}
        /\ UNCHANGED <<start, client, publishing, users, held, pc>>
    BY Zenon, <1>27 DEF Mqtt!StopTakes, Mqtt!lib, Mqtt!rest, Mqtt!setup, Mqtt!event
  <2>2. SetupInv' /\ HandlerInv'
    BY <2>1 DEF SetupInv, HandlerInv, Holding
  <2>3. StopInv'
    BY <2>1 DEF SetupInv, StopInv
  <2> QED BY <2>1, <2>2, <2>3
<1>28. CASE Mqtt!StopWaits \/ Mqtt!StopFrees
  <2>1. /\ \/ reset = "wait" /\ users = 0 /\ reset' = "free"
           \/ reset = "free" /\ reset' = "stop"
        /\ UNCHANGED <<start, client, publishing, Mqtt!own, held, pc>>
    <3>1. CASE Mqtt!StopWaits
      BY Zenon, <3>1 DEF Mqtt!StopWaits, Mqtt!lib, Mqtt!rest, Mqtt!setup, Mqtt!event
    <3>2. CASE Mqtt!StopFrees
      BY Zenon, <3>2 DEF Mqtt!StopFrees, Mqtt!lib, Mqtt!setup
    <3> QED BY <1>28, <3>1, <3>2
  <2>2. StopInv'
    BY <2>1 DEF Mqtt!own, StopInv
  <2> QED BY <2>1, <2>2 DEF Mqtt!own, SetupInv, HandlerInv, Holding
<1>29. CASE Mqtt!StopLib
  <2>1. /\ reset = "stop" /\ pc = "idle" /\ reset' = "destroy" /\ client' = "stopped"
        /\ UNCHANGED <<start, publishing, Mqtt!own, held, pc>>
    BY Zenon, <1>29 DEF Mqtt!StopLib, Mqtt!Unlocked, Mqtt!rest, Mqtt!setup, Mqtt!event
  <2>2. SetupInv' /\ StopInv'
    BY <2>1 DEF Mqtt!own, SetupInv, StopInv
  <2> QED BY <2>1, <2>2 DEF Mqtt!own, HandlerInv, Holding
<1>30. CASE Mqtt!Destroy
  <2>1. /\ reset = "destroy" /\ reset' = "over" /\ client' = "destroyed"
        /\ UNCHANGED <<start, publishing, Mqtt!own, held, pc>>
    BY Zenon, <1>30 DEF Mqtt!Destroy, Mqtt!rest, Mqtt!setup, Mqtt!event
  <2>2. SetupInv' /\ StopInv' /\ users = 0
    BY <2>1 DEF Mqtt!own, SetupInv, StopInv
  <2> QED BY <2>1, <2>2 DEF Mqtt!own, HandlerInv, Holding, SetupInv, StopInv
<1> QED BY <1>3, <1>4, <1>5, <1>6, <1>7, <1>8, <1>9, <1>10, <1>11, <1>12, <1>15, <1>16,
           <1>17, <1>18, <1>19, <1>20, <1>21, <1>22, <1>23, <1>24, <1>25, <1>26, <1>27,
           <1>28, <1>29, <1>30
        DEF Mqtt!Next, Mqtt!Setup, Mqtt!Handler, Mqtt!Stop, Mqtt!ReportShadow,
            Mqtt!RequestShadow, Mqtt!OnRefused, Mqtt!Acknowledge

LEMMA MqttKeeps ==
    ASSUME Mqtt!ClientAssumption, ClientInv, [Mqtt!Next]_Mqtt!vars
    PROVE  ClientInv'
<1>1. MqttFlags /\ Stages /\ Lists /\ Counts /\ Handled /\ UsersInv
  <2>1. MqttFlags
    BY Zenon DEF ClientInv, Mqtt!TypeOK, MqttFlags
  <2>2. Stages /\ Lists /\ Counts /\ Handled
    BY DEF ClientInv, Mqtt!TypeOK, ShapeInv, Stages, Lists, Counts, Handled
  <2>3. UsersInv
    BY DEF ClientInv, ShapeInv, UsersInv
  <2> QED BY <2>1, <2>2, <2>3
<1>2. MqttFlags' /\ Stages' /\ Lists' /\ Counts' /\ Handled' /\ UsersInv'
  BY <1>1, MqttFlagsStep, MqttRangesStep, UsersStep
<1>3. held' \in 0 .. 2
  <2>1. held' = Holding'
    BY <1>2 DEF UsersInv, HandlerInv
  <2>2. Holding' \in 0 .. 2
    BY DEF Holding
  <2> QED BY <2>1, <2>2
<1>4. Mqtt!TypeOK'
  BY Zenon, <1>2, <1>3 DEF Mqtt!TypeOK, MqttFlags, Stages, Lists, Counts, Handled
<1> QED BY <1>2, <1>4 DEF ClientInv, ShapeInv, Lists, UsersInv

\* Whoever counts as a user keeps the client.
LEMMA ClientIsKept == ASSUME ClientInv PROVE Mqtt!ClientOutlivesUsers
<1>1. Cardinality(publishing) \in Nat /\ (Cardinality(publishing) = 0 <=> publishing = {})
  BY FS_CardinalityType, FS_EmptySet DEF ClientInv, ShapeInv
<1>2. held \in 0 .. 2
  BY DEF ClientInv, Mqtt!TypeOK
<1>3. /\ users = Cardinality(publishing) + held
      /\ client = "destroyed" => users = 0
      /\ pc # "idle" => client = "running"
  BY Zenon DEF ClientInv, HandlerInv
<1>4. publishing # {} \/ held > 0 => users # 0
  <2>1. CASE publishing # {}
    BY <1>1, <1>2, <1>3, <2>1
  <2>2. CASE held > 0
    BY <1>1, <1>2, <1>3, <2>2
  <2> QED BY <2>1, <2>2
<1>5. publishing # {} \/ held > 0 => client # "destroyed"
  BY Zenon, <1>3, <1>4
<1>6. pc # "idle" => client # "destroyed"
  BY <1>3
<1>7. Mqtt!Cardinality(publishing) = Cardinality(publishing)
  BY Zenon DEF Cardinality, Mqtt!Cardinality
<1> QED BY Zenon, <1>3, <1>5, <1>6, <1>7 DEF Mqtt!ClientOutlivesUsers

-----------------------------------------------------------------------------
\* Whatever the client is started with is registered before.
KnownInv ==
    /\ start # "boot" => synced
    /\ synced => Mqtt!Registered = Types

\* While it subscribes, each topic is with the broker, refused or still to do.
LinkedInv ==
    pc = "subscribe" /\ link =>
        \A t \in Mqtt!Topic : t \in subscribed \/ refused \/ \E i \in DOMAIN todo : todo[i] = t

\* A message is routed by its own topic, or by one that was freed.
RoutedInv ==
    pc = "route" => message.topic \in Mqtt!Topic /\ rx \in {message.topic, "freed"}

ReadyInv == KnownInv /\ LinkedInv /\ RoutedInv /\ ~unsupported

LEMMA ReadyInit == ASSUME Mqtt!Init PROVE ReadyInv
<1>1. KnownInv
  BY DEF Mqtt!Init, KnownInv
<1>2. LinkedInv /\ RoutedInv
  BY DEF Mqtt!Init, LinkedInv, RoutedInv
<1>3. ~unsupported
  BY Zenon DEF Mqtt!Init
<1> QED BY Zenon, <1>1, <1>2, <1>3 DEF ReadyInv

LEMMA KnownStep == ASSUME KnownInv, [Mqtt!Next]_Mqtt!vars PROVE KnownInv'
<1> USE DEF KnownInv, Mqtt!Registered
<1>1. CASE UNCHANGED Mqtt!setup
  BY <1>1 DEF Mqtt!setup
<1>2. ASSUME NEW t \in Types, Mqtt!Register(t) PROVE KnownInv'
  BY <1>2 DEF Mqtt!Register
<1>3. CASE Mqtt!RegisterSync
  BY <1>3 DEF Mqtt!RegisterSync
<1>4. CASE Mqtt!Setup
  BY <1>4 DEF Mqtt!Setup, Mqtt!Start, Mqtt!ClientInit, Mqtt!SetHandle, Mqtt!ClientStart
<1>5. ASSUME NEW p \in Publisher, Mqtt!PublishBegin(p) \/ Mqtt!PublishEnd(p) PROVE KnownInv'
  BY <1>1, <1>5 DEF Mqtt!PublishBegin, Mqtt!PublishEnd
<1>6. CASE Mqtt!LibTask \/ Mqtt!LinkLost \/ Mqtt!PublishWill
  BY <1>1, <1>6
     DEF Mqtt!LibTask, Mqtt!LibConnects, Mqtt!LibDisconnects, Mqtt!SubackRefuses,
         Mqtt!LinkLost, Mqtt!PublishWill
<1>7. ASSUME NEW m \in Mqtt!Message, Mqtt!Deliver(m) PROVE KnownInv'
  BY <1>1, <1>7 DEF Mqtt!Deliver
<1>8. CASE Mqtt!Handler
  BY <1>1, <1>8
     DEF Mqtt!Handler, Mqtt!OnConnected, Mqtt!Subscribe, Mqtt!PublishOnline, Mqtt!GiveUp,
         Mqtt!ReportShadow, Mqtt!RequestShadow, Mqtt!OnDisconnected, Mqtt!OnRefused,
         Mqtt!OnData, Mqtt!Route, Mqtt!Acknowledge, Mqtt!DataDone, Mqtt!others
<1>9. CASE Mqtt!ResetWifi \/ Mqtt!Stop \/ UNCHANGED Mqtt!vars
  BY <1>1, <1>9
     DEF Mqtt!ResetWifi, Mqtt!Stop, Mqtt!StopTakes, Mqtt!StopWaits, Mqtt!StopFrees,
         Mqtt!StopLib, Mqtt!Destroy, Mqtt!rest, Mqtt!vars
<1> QED BY <1>2, <1>3, <1>4, <1>5, <1>6, <1>7, <1>8, <1>9 DEF Mqtt!Next

\* What is left of a list once its head is taken.
LEMMA TailKeeps ==
    ASSUME NEW s \in Seq(Mqtt!Topic), s # <<>>, NEW t \in Mqtt!Topic,
           NEW i \in DOMAIN s, s[i] = t, t # Head(s)
    PROVE  \E j \in DOMAIN Tail(s) : Tail(s)[j] = t
<1>1. i \in 1 .. Len(s) /\ i # 1
  OBVIOUS
<1>2. i - 1 \in DOMAIN Tail(s) /\ Tail(s)[i - 1] = s[i]
  BY <1>1
<1> QED BY <1>2

LEMMA LinkedStep ==
    ASSUME MqttFlags, Lists, LinkedInv, [Mqtt!Next]_Mqtt!vars
    PROVE  LinkedInv'
<1>1. CASE pc' # "subscribe"
  BY <1>1 DEF LinkedInv
<1>2. CASE ~link'
  BY <1>2 DEF LinkedInv
<1>3. CASE UNCHANGED <<pc, link, subscribed, refused, todo>>
  BY <1>3 DEF LinkedInv
<1>4. CASE Mqtt!OnConnected
  <2>1. todo' = Mqtt!RequiredTopics \/ pc' = "idle"
    BY <1>4 DEF Mqtt!OnConnected
  <2>2. \A t \in Mqtt!Topic : \E i \in DOMAIN Mqtt!RequiredTopics : Mqtt!RequiredTopics[i] = t
    BY DEF Mqtt!Topic, Mqtt!RequiredTopics
  <2> QED BY <1>1, <2>1, <2>2 DEF LinkedInv
<1>5. CASE Mqtt!Subscribe
  <2>1. CASE pc' = "give up"
    BY <1>1, <2>1
  <2>2. CASE pc' = pc /\ refused'
    BY Zenon, <2>2 DEF LinkedInv
  <2>3. CASE /\ pc' = pc /\ link /\ subscribed' = subscribed \union {Head(todo)}
             /\ todo' = Tail(todo) /\ UNCHANGED refused
    <3> SUFFICES ASSUME NEW t \in Mqtt!Topic, t \notin subscribed', ~refused'
                 PROVE  \E j \in DOMAIN Tail(todo) : Tail(todo)[j] = t
      BY Zenon, <2>3 DEF LinkedInv
    <3>1. pc = "subscribe" /\ todo # <<>>
      BY <1>5 DEF Mqtt!Subscribe
    <3>2. t \notin subscribed /\ t # Head(todo) /\ ~refused
      BY Zenon, <2>3
    <3>3. PICK i \in DOMAIN todo : todo[i] = t
      BY Zenon, <2>3, <3>1, <3>2 DEF LinkedInv
    <3>4. todo \in Seq(Mqtt!Topic)
      BY DEF Lists
    <3> QED BY Zenon, <3>1, <3>2, <3>3, <3>4, TailKeeps
  <2>4. CASE pc' = pc /\ ~link /\ UNCHANGED link
    BY Zenon, <1>2, <2>4
  <2>5. UNCHANGED link
    BY <1>5 DEF Mqtt!Subscribe
  <2> QED BY Zenon, <1>5, <2>1, <2>2, <2>3, <2>4, <2>5 DEF Mqtt!Subscribe
<1>6. CASE Mqtt!LibTask
  BY <1>1, <1>6 DEF Mqtt!LibTask, Mqtt!LibConnects, Mqtt!LibDisconnects, Mqtt!SubackRefuses
<1>7. CASE Mqtt!LinkLost
  BY Zenon, <1>2, <1>7 DEF Mqtt!LinkLost, Mqtt!SessionLost
<1>8. ASSUME NEW m \in Mqtt!Message, Mqtt!Deliver(m) PROVE LinkedInv'
  BY <1>1, <1>8 DEF Mqtt!Deliver
<1>9. CASE Mqtt!Handler /\ ~Mqtt!OnConnected /\ ~Mqtt!Subscribe
  BY <1>1, <1>9
     DEF Mqtt!Handler, Mqtt!PublishOnline, Mqtt!GiveUp, Mqtt!ReportShadow, Mqtt!RequestShadow,
         Mqtt!OnDisconnected, Mqtt!OnRefused, Mqtt!OnData, Mqtt!Route, Mqtt!Acknowledge,
         Mqtt!DataDone
<1>10. CASE Mqtt!ResetWifi
  <2>1. CASE Mqtt!SessionLost
    BY Zenon, <1>2, <2>1 DEF Mqtt!SessionLost
  <2>2. CASE UNCHANGED link /\ UNCHANGED subscribed
    BY Zenon, <1>3, <1>10, <2>2 DEF Mqtt!ResetWifi, Mqtt!rest, Mqtt!event
  <2> QED BY Zenon, <1>10, <2>1, <2>2 DEF Mqtt!ResetWifi
<1>11. CASE Mqtt!StopLib
  <2>1. pc' = "idle"
    BY <1>11 DEF Mqtt!StopLib, Mqtt!Unlocked, Mqtt!rest, Mqtt!event
  <2> QED BY <1>1, <2>1
<1>12. CASE Mqtt!StopTakes \/ Mqtt!StopWaits \/ Mqtt!StopFrees \/ Mqtt!Destroy
  BY <1>3, <1>12
     DEF Mqtt!StopTakes, Mqtt!StopWaits, Mqtt!StopFrees, Mqtt!Destroy, Mqtt!rest, Mqtt!event,
         Mqtt!broker
<1>13. CASE Mqtt!PublishWill \/ Mqtt!RegisterSync \/ Mqtt!Setup \/ UNCHANGED Mqtt!vars
  BY <1>3, <1>13
     DEF Mqtt!PublishWill, Mqtt!RegisterSync, Mqtt!Setup, Mqtt!Start, Mqtt!ClientInit,
         Mqtt!SetHandle, Mqtt!ClientStart, Mqtt!vars, Mqtt!event, Mqtt!broker
<1>14. ASSUME NEW t \in Types, Mqtt!Register(t) PROVE LinkedInv'
  BY <1>3, <1>14 DEF Mqtt!Register, Mqtt!event, Mqtt!broker
<1>15. ASSUME NEW p \in Publisher, Mqtt!PublishBegin(p) \/ Mqtt!PublishEnd(p) PROVE LinkedInv'
  BY <1>3, <1>15 DEF Mqtt!PublishBegin, Mqtt!PublishEnd, Mqtt!event, Mqtt!broker
<1> QED BY <1>4, <1>5, <1>6, <1>7, <1>8, <1>9, <1>10, <1>11, <1>12, <1>13, <1>14, <1>15
        DEF Mqtt!Next, Mqtt!Stop

LEMMA RoutedStep == ASSUME RoutedInv, [Mqtt!Next]_Mqtt!vars PROVE RoutedInv'
<1>1. CASE pc' # "route"
  BY <1>1 DEF RoutedInv
<1>2. CASE UNCHANGED <<pc, message, rx>>
  BY <1>2 DEF RoutedInv
<1>3. CASE Mqtt!OnData
  BY <1>3 DEF Mqtt!OnData, Mqtt!Taken, RoutedInv
<1>4. CASE Mqtt!StopFrees
  BY <1>4 DEF Mqtt!StopFrees, RoutedInv, Mqtt!Topic
<1>5. CASE Mqtt!LibTask
  BY <1>1, <1>5 DEF Mqtt!LibTask, Mqtt!LibConnects, Mqtt!LibDisconnects, Mqtt!SubackRefuses
<1>6. ASSUME NEW m \in Mqtt!Message, Mqtt!Deliver(m) PROVE RoutedInv'
  BY <1>1, <1>6 DEF Mqtt!Deliver
<1>7. CASE Mqtt!Handler /\ ~Mqtt!OnData
  BY <1>1, <1>7
     DEF Mqtt!Handler, Mqtt!OnConnected, Mqtt!Subscribe, Mqtt!PublishOnline, Mqtt!GiveUp,
         Mqtt!ReportShadow, Mqtt!RequestShadow, Mqtt!OnDisconnected, Mqtt!OnRefused,
         Mqtt!Route, Mqtt!Acknowledge, Mqtt!DataDone
<1>8. CASE /\ ~Mqtt!StopFrees
           /\ Mqtt!Stop \/ Mqtt!ResetWifi \/ Mqtt!LinkLost \/ Mqtt!PublishWill
  BY <1>2, <1>8
     DEF Mqtt!Stop, Mqtt!StopTakes, Mqtt!StopWaits, Mqtt!StopLib, Mqtt!Destroy,
         Mqtt!ResetWifi, Mqtt!LinkLost, Mqtt!PublishWill, Mqtt!rest, Mqtt!event
<1>9. CASE Mqtt!RegisterSync \/ Mqtt!Setup \/ UNCHANGED Mqtt!vars
  BY <1>2, <1>9
     DEF Mqtt!RegisterSync, Mqtt!Setup, Mqtt!Start, Mqtt!ClientInit, Mqtt!SetHandle,
         Mqtt!ClientStart, Mqtt!vars, Mqtt!event
<1>10. ASSUME NEW t \in Types, Mqtt!Register(t) PROVE RoutedInv'
  BY <1>2, <1>10 DEF Mqtt!Register, Mqtt!event
<1>11. ASSUME NEW p \in Publisher, Mqtt!PublishBegin(p) \/ Mqtt!PublishEnd(p) PROVE RoutedInv'
  BY <1>2, <1>11 DEF Mqtt!PublishBegin, Mqtt!PublishEnd, Mqtt!event
<1> QED BY <1>3, <1>4, <1>5, <1>6, <1>7, <1>8, <1>9, <1>10, <1>11 DEF Mqtt!Next

\* The client runs with all its handlers, so a message finds its own.
LEMMA RouteFinds ==
    ASSUME ClientInv, ReadyInv, Mqtt!Route
    PROVE  unsupported' = FALSE
<1>1. start # "boot"
  <2>1. pc # "idle"
    BY DEF Mqtt!Route
  <2> QED BY Zenon, <2>1 DEF ClientInv, HandlerInv, SetupInv
<1>2. synced /\ Mqtt!Registered = Types
  BY Zenon, <1>1 DEF ReadyInv, KnownInv
<1>3. message.topic = "command" => message.type \in Types
  <2>1. message \in Mqtt!Message \union {Mqtt!None}
    BY DEF ClientInv, Mqtt!TypeOK
  <2> QED BY <2>1 DEF Mqtt!Message, Mqtt!None
<1>4. rx = message.topic \/ rx = "freed"
  BY DEF ReadyInv, RoutedInv, Mqtt!Route
<1>5. \A topic \in Mqtt!RoutedAs : rx = "freed" \/ Mqtt!Supported(topic, message.type)
  <2>1. ASSUME rx # "freed" PROVE Mqtt!Supported(rx, message.type)
    <3>1. rx = "command" => message.type \in Mqtt!Registered
      BY <1>2, <1>3, <1>4, <2>1
    <3> QED BY <1>2, <3>1 DEF Mqtt!Supported
  <2> QED BY <2>1 DEF Mqtt!RoutedAs
<1>6. ~unsupported
  BY Zenon DEF ReadyInv
<1> QED BY Zenon, <1>5, <1>6 DEF Mqtt!Route

LEMMA FoundStep ==
    ASSUME ClientInv, ReadyInv, [Mqtt!Next]_Mqtt!vars
    PROVE  ~unsupported'
<1>1. CASE UNCHANGED unsupported
  BY Zenon, <1>1 DEF ReadyInv
<1>2. CASE Mqtt!Route
  BY Zenon, <1>2, RouteFinds
<1>3. CASE (\E t \in Types : Mqtt!Register(t)) \/ Mqtt!RegisterSync \/ Mqtt!Setup
  BY Zenon, <1>1, <1>3
     DEF Mqtt!Register, Mqtt!RegisterSync, Mqtt!Setup, Mqtt!Start, Mqtt!ClientInit,
         Mqtt!SetHandle, Mqtt!ClientStart
<1>4. CASE \E p \in Publisher : Mqtt!PublishBegin(p) \/ Mqtt!PublishEnd(p)
  BY Zenon, <1>1, <1>4 DEF Mqtt!PublishBegin, Mqtt!PublishEnd
<1>5. CASE Mqtt!LibTask \/ Mqtt!LinkLost \/ Mqtt!PublishWill
  BY Zenon, <1>1, <1>5
     DEF Mqtt!LibTask, Mqtt!LibConnects, Mqtt!LibDisconnects, Mqtt!SubackRefuses,
         Mqtt!LinkLost, Mqtt!PublishWill
<1>6. CASE \E m \in Mqtt!Message : Mqtt!Deliver(m)
  BY Zenon, <1>1, <1>6 DEF Mqtt!Deliver
<1>7. CASE Mqtt!Handler /\ ~Mqtt!Route
  BY Zenon, <1>1, <1>7
     DEF Mqtt!Handler, Mqtt!OnConnected, Mqtt!Subscribe, Mqtt!PublishOnline, Mqtt!GiveUp,
         Mqtt!ReportShadow, Mqtt!RequestShadow, Mqtt!OnDisconnected, Mqtt!OnRefused,
         Mqtt!OnData, Mqtt!Acknowledge, Mqtt!DataDone, Mqtt!others
<1>8. CASE Mqtt!ResetWifi \/ Mqtt!Stop \/ UNCHANGED Mqtt!vars
  BY Zenon, <1>1, <1>8
     DEF Mqtt!ResetWifi, Mqtt!Stop, Mqtt!StopTakes, Mqtt!StopWaits, Mqtt!StopFrees,
         Mqtt!StopLib, Mqtt!Destroy, Mqtt!rest, Mqtt!vars
<1> QED BY Zenon, <1>2, <1>3, <1>4, <1>5, <1>6, <1>7, <1>8 DEF Mqtt!Next

LEMMA ReadyKeeps ==
    ASSUME ClientInv, ReadyInv, [Mqtt!Next]_Mqtt!vars
    PROVE  ReadyInv'
<1>1. MqttFlags
  BY Zenon DEF ClientInv, Mqtt!TypeOK, MqttFlags
<1>2. Lists
  BY DEF ClientInv, Mqtt!TypeOK, ShapeInv, Lists
<1>3. KnownInv /\ LinkedInv /\ RoutedInv
  BY Zenon DEF ReadyInv
<1> QED BY Zenon, <1>1, <1>2, <1>3, KnownStep, LinkedStep, RoutedStep, FoundStep DEF ReadyInv

\* Only a device that has asked for all its topics says that it is online.
LEMMA OnlineWhenReady ==
    ASSUME ClientInv, ReadyInv, [Mqtt!Next]_Mqtt!vars,
           status' = "online", status # "online"
    PROVE  subscribed = Mqtt!Topic \/ refused
<1>1. CASE Mqtt!PublishOnline
  <2>1. pc = "subscribe" /\ todo = <<>>
    BY <1>1 DEF Mqtt!PublishOnline
  <2>2. link
    BY Zenon, <1>1 DEF Mqtt!PublishOnline, Mqtt!Online
  <2>3. \A t \in Mqtt!Topic : t \in subscribed \/ refused
    <3>1. DOMAIN todo = {}
      BY <2>1
    <3> QED BY Zenon, <2>1, <2>2, <3>1 DEF ReadyInv, LinkedInv
  <2>4. subscribed \subseteq Mqtt!Topic
    BY Zenon DEF ClientInv, Mqtt!TypeOK
  <2> QED BY Zenon, <2>3, <2>4
<1>2. CASE ~Mqtt!PublishOnline
  <2>1. status' \in {status, "offline"}
    <3>1. CASE UNCHANGED status
      BY <3>1
    <3>2. CASE (\E t \in Types : Mqtt!Register(t)) \/ Mqtt!RegisterSync \/ Mqtt!Setup
      BY Zenon, <3>1, <3>2
         DEF Mqtt!Register, Mqtt!RegisterSync, Mqtt!Setup, Mqtt!Start, Mqtt!ClientInit,
             Mqtt!SetHandle, Mqtt!ClientStart, Mqtt!broker
    <3>3. CASE \E p \in Publisher : Mqtt!PublishBegin(p) \/ Mqtt!PublishEnd(p)
      BY Zenon, <3>1, <3>3 DEF Mqtt!PublishBegin, Mqtt!PublishEnd, Mqtt!broker
    <3>4. CASE Mqtt!LibTask \/ Mqtt!LinkLost
      BY Zenon, <3>1, <3>4
         DEF Mqtt!LibTask, Mqtt!LibConnects, Mqtt!LibDisconnects, Mqtt!SubackRefuses,
             Mqtt!LinkLost
    <3>5. CASE Mqtt!PublishWill
      BY <3>5 DEF Mqtt!PublishWill
    <3>6. CASE \E m \in Mqtt!Message : Mqtt!Deliver(m)
      BY Zenon, <3>1, <3>6 DEF Mqtt!Deliver, Mqtt!broker
    <3>7. CASE Mqtt!Handler
      BY Zenon, <1>2, <3>1, <3>7
         DEF Mqtt!Handler, Mqtt!OnConnected, Mqtt!Subscribe, Mqtt!GiveUp, Mqtt!ReportShadow,
             Mqtt!RequestShadow, Mqtt!OnDisconnected, Mqtt!OnRefused, Mqtt!OnData, Mqtt!Route,
             Mqtt!Acknowledge, Mqtt!DataDone, Mqtt!broker
    <3>8. CASE Mqtt!ResetWifi \/ Mqtt!Stop \/ UNCHANGED Mqtt!vars
      BY Zenon, <3>1, <3>8
         DEF Mqtt!ResetWifi, Mqtt!Stop, Mqtt!StopTakes, Mqtt!StopWaits, Mqtt!StopFrees,
             Mqtt!StopLib, Mqtt!Destroy, Mqtt!broker, Mqtt!vars
    <3> QED BY Zenon, <3>2, <3>3, <3>4, <3>5, <3>6, <3>7, <3>8 DEF Mqtt!Next
  <2> QED BY <2>1
<1> QED BY <1>1, <1>2

(***************************************************************************)
(* DisplayService: the start of the display.                               *)
(***************************************************************************)
\* Where the start of display_task and display_service_init are.
Shown == {"run", "draw", "flush"}
Coming == {"driver", "buffers", "timer", "self test", "build", "give", "giving"}

StartTypes ==
    /\ main \in {"start", "wait", "ok", "failed", "timeout"}
    /\ screenTask \in {"none", "deleted"} \union Coming \union Shown
    /\ sem \in {"none", "empty", "given", "deleted"}
    /\ buffers \in {"none", "some", "all", "freed"}
    /\ initResult \in {"fail", "ok"} /\ spent \in Nat

\* Only display_service_init takes s_init_done and frees, and not before the
\* task has given it or its time is over.
StartInv ==
    /\ main = "start" =>
          screenTask = "none" /\ sem = "none" /\ buffers = "none" /\ initResult = "fail"
    /\ main = "wait" => screenTask # "none" /\ sem \in {"empty", "given"} /\ buffers # "freed"
    /\ main = "ok" => screenTask \in Shown /\ buffers # "freed" /\ sem = "deleted"
    /\ main = "failed" =>
          screenTask \in {"none", "deleted"} /\ buffers \in {"none", "freed"}
            /\ initResult = "fail"
    /\ main = "failed" => (screenTask = "none" => sem = "none") /\ sem # "given"
    /\ main = "timeout" => screenTask # "none" /\ sem = "deleted"
    /\ sem = "given" => screenTask \in Shown \union {"deleted"}
    /\ screenTask \in Shown => initResult = "ok"
    /\ screenTask = "deleted" => initResult = "fail"

TimeInv == main = "timeout" => spent > Base + (IF SelfTest THEN 4 * HoldTime ELSE 0)

DisplayFlags ==
    /\ timer \in BOOLEAN /\ misused \in BOOLEAN
    /\ main \in {"start", "failed"} => ~timer
    /\ misused => main = "timeout"

\* What is on the screen.
OtaType ==
    [active : BOOLEAN, percent : {0, 50, 100}, stage : Display!Stage, error : Display!Error,
     left : Display!NoTime..MessageTime]
StateType ==
    [phase : DOMAIN Phases, mode : {Display!None, "on", "off"}, sensor : SUBSET Display!Cell,
      ota : OtaType]

ScreenInv ==
    /\ state \in StateType
    /\ state.ota.error = "none" => state.ota.left = Display!NoTime

UpdateInv ==
    /\ ota \in (Display!Stage \ {"failed"}) \union {"none", "received"}
    /\ queue \in 0..1
    /\ failedFor \in Display!NoTime..MessageTime

DisplayInv == StartTypes /\ StartInv /\ TimeInv /\ DisplayFlags /\ ScreenInv /\ UpdateInv

LEMMA DisplayInit == ASSUME Display!DisplayAssumption, Display!Init PROVE DisplayInv
<1>1. StartTypes /\ StartInv
  BY DEF Display!Init, StartTypes, StartInv, Coming, Shown
<1>2. TimeInv
  BY DEF Display!Init, TimeInv
<1>3. DisplayFlags
  BY Zenon DEF Display!Init, DisplayFlags
<1>4. Display!NoUpdate \in OtaType
  BY DEF Display!DisplayAssumption, Display!NoUpdate, OtaType, Display!Stage, Display!Error,
         Display!NoTime
<1>5. ScreenInv
  <2>1. 1 \in DOMAIN Phases
    BY DEF Display!DisplayAssumption
  <2>2. state = [phase |-> 1, mode |-> Display!None, sensor |-> {}, ota |-> Display!NoUpdate]
    BY DEF Display!Init
  <2>3. state \in StateType
    BY <1>4, <2>1, <2>2 DEF StateType
  <2> QED BY <2>2, <2>3 DEF ScreenInv, Display!NoUpdate
<1>6. UpdateInv
  BY DEF Display!Init, UpdateInv, Display!DisplayAssumption, Display!NoTime
<1> QED BY <1>1, <1>2, <1>3, <1>5, <1>6 DEF DisplayInv

-----------------------------------------------------------------------------
\* The steps that write what belongs to the start.
Begins ==
    \/ Display!StartTask \/ Display!InitDriver \/ Display!InitBuffers \/ Display!InitTimer
       \/ Display!RunSelfTest \/ Display!Build
    \/ Display!GiveStep \/ Display!InitReturns \/ Display!Refresh \/ Display!Draw
       \/ Display!Flush

LEMMA StartSteps ==
    ASSUME [Display!Next]_Display!vars
    PROVE  UNCHANGED Display!startVars \/ Begins
<1>1. CASE Display!SetPhase \/ Display!SetMode \/ Display!SetSensors \/ Display!WorldChanges
  BY Zenon, <1>1 DEF Display!SetPhase, Display!SetMode, Display!SetSensors, Display!WorldChanges
<1>2. CASE Display!TriggerUpdate \/ Display!ReportBusy \/ Display!OtaReceives
           \/ Display!OtaReports \/ Display!OtaFails \/ Display!Tick
  BY Zenon, <1>2
     DEF Display!TriggerUpdate, Display!ReportBusy, Display!OtaReceives, Display!OtaReports,
         Display!OtaFails, Display!Tick, Display!otherOta
<1>3. CASE UNCHANGED Display!vars
  BY Zenon, <1>3 DEF Display!vars
<1> QED BY Zenon, <1>1, <1>2, <1>3
           DEF Display!Next, Display!Starting, Display!Rendering, Display!Updating, Begins

LEMMA StartTypesStep ==
    ASSUME Display!DisplayAssumption, StartTypes, [Display!Next]_Display!vars
    PROVE  StartTypes'
<1>0. ASSUME Display!RunSelfTest PROVE spent' \in Nat
  <2>1. HoldTime \in Nat /\ spent \in Nat
    BY Zenon DEF Display!DisplayAssumption, StartTypes
  <2>2. spent' = spent + 4 * HoldTime
    BY Zenon, <1>0 DEF Display!RunSelfTest
  <2> QED BY <2>1, <2>2
<1> USE DEF StartTypes, Coming, Shown
<1>1. CASE UNCHANGED Display!startVars
  BY Zenon, <1>1 DEF Display!startVars
<1>2. CASE Display!StartTask
  BY <1>2 DEF Display!StartTask
<1>3. CASE Display!InitDriver
  <2>1. spent' \in Nat
    BY <1>3 DEF Display!InitDriver, Display!DisplayAssumption
  <2> QED BY <1>3, <2>1 DEF Display!InitDriver, Display!InitFails
<1>4. CASE Display!InitBuffers \/ Display!InitTimer \/ Display!Build
  BY <1>4 DEF Display!InitBuffers, Display!InitTimer, Display!Build, Display!InitFails
<1>5. CASE Display!RunSelfTest
  <2>1. spent' \in Nat
    BY Zenon, <1>0, <1>5
  <2> QED BY <1>5, <2>1 DEF Display!RunSelfTest
<1>6. CASE Display!GiveStep
  BY <1>6 DEF Display!GiveStep, Display!Give
<1>7. CASE Display!InitReturns
  BY <1>7 DEF Display!InitReturns, Display!Cleanup
<1>8. CASE Display!Refresh \/ Display!Draw \/ Display!Flush
  BY <1>8 DEF Display!Refresh, Display!Draw, Display!Flush
<1> QED BY Zenon, <1>1, <1>2, <1>3, <1>4, <1>5, <1>6, <1>7, <1>8, StartSteps DEF Begins

LEMMA StartStep == ASSUME StartTypes, StartInv, [Display!Next]_Display!vars PROVE StartInv'
<1> USE DEF StartTypes, StartInv, Coming, Shown
<1>1. CASE UNCHANGED Display!startVars
  BY Zenon, <1>1 DEF Display!startVars
<1>2. CASE Display!StartTask
  BY <1>2 DEF Display!StartTask
<1>3. CASE Display!InitDriver
  BY <1>3 DEF Display!InitDriver, Display!InitFails
<1>4. CASE Display!InitBuffers \/ Display!InitTimer \/ Display!Build
  BY <1>4 DEF Display!InitBuffers, Display!InitTimer, Display!Build, Display!InitFails
<1>5. CASE Display!RunSelfTest
  BY <1>5 DEF Display!RunSelfTest
<1>6. CASE Display!GiveStep
  BY <1>6 DEF Display!GiveStep, Display!Give
<1>7. CASE Display!InitReturns
  BY <1>7 DEF Display!InitReturns, Display!Cleanup
<1>8. CASE Display!Refresh \/ Display!Draw \/ Display!Flush
  BY <1>8 DEF Display!Refresh, Display!Draw, Display!Flush
<1> QED BY Zenon, <1>1, <1>2, <1>3, <1>4, <1>5, <1>6, <1>7, <1>8, StartSteps DEF Begins

LEMMA TimeStep ==
    ASSUME Display!DisplayAssumption, StartTypes, TimeInv, [Display!Next]_Display!vars
    PROVE  TimeInv'
<1> DEFINE limit == Base + (IF SelfTest THEN 4 * HoldTime ELSE 0)
<1>0. limit \in Nat /\ Display!InitWait = limit + Margin /\ Margin \in Nat
  BY DEF Display!DisplayAssumption, Display!InitWait
<1>1. spent' >= spent \/ UNCHANGED spent
  <2>1. CASE UNCHANGED Display!startVars
    BY <2>1 DEF Display!startVars
  <2>2. CASE Display!StartTask \/ Display!InitBuffers \/ Display!InitTimer \/ Display!Build
             \/ Display!GiveStep \/ Display!InitReturns
    BY Zenon, <2>2
       DEF Display!StartTask, Display!InitBuffers, Display!InitTimer, Display!Build,
           Display!GiveStep, Display!InitReturns
  <2>3. CASE Display!Refresh \/ Display!Draw \/ Display!Flush
    BY Zenon, <2>3 DEF Display!Refresh, Display!Draw, Display!Flush
  <2>4. CASE Display!InitDriver
    BY <2>4 DEF Display!InitDriver, Display!DisplayAssumption, StartTypes
  <2>5. CASE Display!RunSelfTest
    <3>1. HoldTime \in Nat /\ spent \in Nat
      BY Zenon DEF Display!DisplayAssumption, StartTypes
    <3>2. spent' = spent + 4 * HoldTime
      BY Zenon, <2>5 DEF Display!RunSelfTest
    <3> QED BY <3>1, <3>2
  <2> QED BY Zenon, <2>1, <2>2, <2>3, <2>4, <2>5, StartSteps DEF Begins
<1>2. spent \in Nat /\ spent' \in Nat
  BY StartTypesStep DEF StartTypes
<1>3. main' = "timeout" => main = "timeout" \/ spent > Display!InitWait
  <2>1. CASE UNCHANGED Display!startVars
    BY <2>1 DEF Display!startVars
  <2>2. CASE Display!StartTask \/ Display!InitDriver \/ Display!InitBuffers
             \/ Display!InitTimer \/ Display!RunSelfTest \/ Display!Build
    BY <2>2
       DEF Display!StartTask, Display!InitDriver, Display!InitBuffers, Display!InitTimer,
           Display!RunSelfTest, Display!Build
  <2>3. CASE Display!GiveStep \/ Display!Refresh \/ Display!Draw \/ Display!Flush
    BY <2>3 DEF Display!GiveStep, Display!Refresh, Display!Draw, Display!Flush
  <2>4. CASE Display!InitReturns
    BY <2>4 DEF Display!InitReturns, Display!TimeIsUp
  <2> QED BY Zenon, <2>1, <2>2, <2>3, <2>4, StartSteps DEF Begins
<1>4. main' = "timeout" => spent > limit
  <2> HIDE DEF limit
  <2>1. main = "timeout" => spent > limit
    BY DEF TimeInv, limit
  <2> QED BY <1>0, <1>2, <1>3, <2>1
<1>5. main' = "timeout" => spent' > limit
  <2> HIDE DEF limit
  <2> QED BY <1>0, <1>1, <1>2, <1>4
<1> QED BY Zenon, <1>5 DEF TimeInv

LEMMA DisplayFlagsStep ==
    ASSUME StartTypes, StartInv, DisplayFlags, [Display!Next]_Display!vars
    PROVE  DisplayFlags'
<1>0. /\ screenTask \in Shown \union Coming /\ Display!BuffersFreed => main = "timeout"
      /\ screenTask = "giving" /\ sem # "empty" => main = "timeout"
  BY DEF StartTypes, StartInv, Shown, Coming, Display!BuffersFreed
<1>s. /\ main = "start" => screenTask = "none"
      /\ main = "failed" => screenTask \in {"none", "deleted"}
  BY DEF StartInv
<1> USE DEF DisplayFlags
<1>1. CASE UNCHANGED Display!startVars
  BY Zenon, <1>1 DEF Display!startVars
<1>2. CASE Display!StartTask
  <2>1. main = "start" /\ main' \in {"wait", "failed"} /\ main # "timeout"
    BY <1>2 DEF Display!StartTask
  <2>2. UNCHANGED <<timer, misused>>
    BY Zenon, <1>2 DEF Display!StartTask
  <2> QED BY Zenon, <2>1, <2>2
<1>3. CASE Display!InitDriver \/ Display!InitBuffers \/ Display!Build
  <2>1. UNCHANGED <<main, timer, misused>>
    BY Zenon, <1>3 DEF Display!InitDriver, Display!InitBuffers, Display!Build
  <2> QED BY Zenon, <2>1
<1>4. CASE Display!InitTimer
  <2>1. main \notin {"start", "failed"} /\ UNCHANGED main
    BY <1>s, <1>4 DEF Display!InitTimer
  <2>2. timer' \in BOOLEAN /\ UNCHANGED misused
    BY Zenon, <1>4 DEF Display!InitTimer
  <2> QED BY Zenon, <2>1, <2>2
<1>5. CASE Display!RunSelfTest
  <2>1. screenTask \in Coming
    BY <1>5 DEF Display!RunSelfTest, Coming
  <2>2. misused' = (misused \/ Display!BuffersFreed) /\ UNCHANGED <<main, timer>>
    BY Zenon, <1>5 DEF Display!RunSelfTest
  <2> QED BY Zenon, <1>0, <2>1, <2>2
<1>6. CASE Display!GiveStep
  <2>1. \/ UNCHANGED misused
        \/ screenTask = "giving" /\ misused' = (misused \/ sem # "empty")
    BY Zenon, <1>6 DEF Display!GiveStep, Display!Give
  <2>2. UNCHANGED <<main, timer>>
    BY Zenon, <1>6 DEF Display!GiveStep
  <2>3. misused' => misused \/ main = "timeout"
    BY Zenon, <1>0, <2>1
  <2>4. misused' \in BOOLEAN
    BY Zenon, <2>1
  <2> QED BY Zenon, <2>2, <2>3, <2>4
<1>7. CASE Display!InitReturns
  <2>1. main = "wait" /\ main # "timeout" /\ main' # "start"
    BY <1>7 DEF Display!InitReturns
  <2>2. \/ main' = "ok" /\ UNCHANGED timer
        \/ timer' = FALSE
    BY Zenon, <1>7 DEF Display!InitReturns, Display!Cleanup
  <2>3. "ok" \notin {"start", "failed"}
    OBVIOUS
  <2>4. UNCHANGED misused
    BY Zenon, <1>7 DEF Display!InitReturns
  <2> QED BY Zenon, <2>1, <2>2, <2>3, <2>4
<1>8. CASE Display!Refresh \/ Display!Draw
  <2>1. UNCHANGED <<main, timer, misused>>
    BY Zenon, <1>8 DEF Display!Refresh, Display!Draw
  <2> QED BY Zenon, <2>1
<1>9. CASE Display!Flush
  <2>1. screenTask \in Shown
    BY <1>9 DEF Display!Flush, Shown
  <2>2. misused' = (misused \/ Display!BuffersFreed) /\ UNCHANGED <<main, timer>>
    BY Zenon, <1>9 DEF Display!Flush
  <2> QED BY Zenon, <1>0, <2>1, <2>2
<1> QED BY Zenon, <1>1, <1>2, <1>3, <1>4, <1>5, <1>6, <1>7, <1>8, <1>9, StartSteps DEF Begins

-----------------------------------------------------------------------------
\* The state and its update as rendering and reporting leave them.
Ended(u) == u.error = "none" => u.left = Display!NoTime

LEMMA WithOta ==
    ASSUME NEW s \in StateType, NEW u \in OtaType
    PROVE  /\ [s EXCEPT !.ota = u] \in StateType
           /\ [s EXCEPT !.ota = u].ota = u
  BY DEF StateType

LEMMA NoteType ==
    ASSUME Display!DisplayAssumption, NEW u \in OtaType, NEW e \in Display!Error,
           NEW n \in {Display!NoTime, MessageTime}
    PROVE  /\ [u EXCEPT !.error = e, !.left = n] \in OtaType
           /\ [u EXCEPT !.error = e, !.left = n].error = e
           /\ [u EXCEPT !.error = e, !.left = n].left = n
           /\ [u EXCEPT !.error = e, !.left = n].stage = u.stage
<1>1. n \in Display!NoTime..MessageTime
  BY DEF Display!DisplayAssumption, Display!NoTime
<1> QED BY <1>1 DEF OtaType

LEMMA RefreshedType ==
    ASSUME Display!DisplayAssumption, NEW u \in OtaType
    PROVE  Display!Refreshed(u) \in OtaType /\ (Ended(u) => Ended(Display!Refreshed(u)))
<1>1. Display!NoUpdate \in OtaType /\ Ended(Display!NoUpdate)
  BY DEF Display!DisplayAssumption, Display!NoUpdate, OtaType, Display!Stage, Display!Error,
         Display!NoTime, Ended
<1>2. [u EXCEPT !.error = "none", !.left = Display!NoTime] \in OtaType
      /\ Ended([u EXCEPT !.error = "none", !.left = Display!NoTime])
  BY NoteType DEF Display!Error, Ended
<1> QED BY <1>1, <1>2 DEF Display!Refreshed

LEMMA ReportType ==
    ASSUME Display!DisplayAssumption, NEW u \in OtaType, NEW s \in Display!Stage,
           NEW e \in Display!Error,
           NEW p \in {0, 50, 100}
    PROVE  /\ Display!Report(u, s, e, p) \in OtaType
           /\ Ended(u) => Ended(Display!Report(u, s, e, p))
           /\ Display!Report(u, s, e, p).stage \in {s, u.stage}
<1> DEFINE n == IF e = "none" THEN Display!NoTime ELSE MessageTime
           new == [active |-> TRUE, percent |-> p, stage |-> s, error |-> e, left |-> n]
           noted == [u EXCEPT !.error = "busy", !.left = MessageTime]
<1>1. n \in Display!NoTime..MessageTime
  BY DEF Display!DisplayAssumption, Display!NoTime
<1>2. new \in OtaType /\ Ended(new)
  <2>1. e = "none" => n = Display!NoTime
    OBVIOUS
  <2> HIDE DEF n
  <2> QED BY <1>1, <2>1 DEF OtaType, Ended
<1>3. noted \in OtaType /\ Ended(noted) /\ noted.stage = u.stage
  BY NoteType DEF Display!Error, Ended
<1>4. Display!Report(u, s, e, p) = noted \/ Display!Report(u, s, e, p) = new
  BY Zenon DEF Display!Report
<1>5. new.stage = s
  OBVIOUS
<1> HIDE DEF new, noted
<1> QED BY Zenon, <1>2, <1>3, <1>4, <1>5

LEMMA ReportedType ==
    ASSUME Display!DisplayAssumption, ScreenInv, failedFor \in Display!NoTime..MessageTime,
           NEW s \in Display!Stage, NEW e \in Display!Error, NEW p \in {0, 50, 100},
             Display!Reported(s, e, p)
    PROVE  ScreenInv' /\ failedFor' \in Display!NoTime..MessageTime
<1>1. state \in StateType /\ state.ota \in OtaType /\ Ended(state.ota)
  BY DEF ScreenInv, StateType, Ended
<1>2. state' = [state EXCEPT !.ota = Display!Report(state.ota, s, e, p)]
  BY DEF Display!Reported
<1>3. state' \in StateType /\ state'.ota = Display!Report(state.ota, s, e, p)
  BY <1>1, <1>2, ReportType, WithOta
<1>4. Ended(state'.ota)
  BY Zenon, <1>1, <1>3, ReportType
<1>5. failedFor' \in {0, failedFor, Display!NoTime}
  BY Zenon DEF Display!Reported
<1>6. failedFor' \in Display!NoTime..MessageTime
  BY <1>5 DEF Display!DisplayAssumption, Display!NoTime
<1> QED BY Zenon, <1>3, <1>4, <1>6 DEF ScreenInv, Ended

\* The steps that write the state, or what update and screen tell each other.
Tells ==
    \/ Display!Refresh \/ Display!SetPhase \/ Display!SetMode \/ Display!SetSensors
       \/ Display!TriggerUpdate \/ Display!ReportBusy
    \/ Display!OtaReceives \/ Display!OtaReports \/ Display!OtaFails \/ Display!Tick

LEMMA ScreenSteps ==
    ASSUME [Display!Next]_Display!vars PROVE UNCHANGED <<state, ota, queue, failedFor>> \/ Tells
<1>1. CASE Display!StartTask \/ Display!InitDriver \/ Display!InitBuffers
           \/ Display!InitTimer \/ Display!RunSelfTest \/ Display!Build
  BY Zenon, <1>1
     DEF Display!StartTask, Display!InitDriver, Display!InitBuffers, Display!InitTimer,
         Display!RunSelfTest, Display!Build, Display!otaVars
<1>2. CASE Display!GiveStep \/ Display!InitReturns \/ Display!Draw \/ Display!Flush
           \/ Display!WorldChanges \/ UNCHANGED Display!vars
  BY Zenon, <1>2
     DEF Display!GiveStep, Display!InitReturns, Display!Draw, Display!Flush,
         Display!WorldChanges, Display!vars, Display!otaVars
<1> QED BY Zenon, <1>1, <1>2
           DEF Display!Next, Display!Starting, Display!Rendering, Display!Updating, Tells

LEMMA ScreenStep ==
    ASSUME Display!DisplayAssumption, ScreenInv, UpdateInv, [Display!Next]_Display!vars
    PROVE  ScreenInv' /\ UpdateInv'
<1>0. /\ state \in StateType /\ state.ota \in OtaType /\ Ended(state.ota)
      /\ ota \in (Display!Stage \ {"failed"}) \union {"none", "received"} /\ queue \in 0..1
      /\ failedFor \in Display!NoTime..MessageTime
      /\ MessageTime \in Nat \ {0}
  BY DEF ScreenInv, UpdateInv, StateType, Ended, Display!DisplayAssumption
<1>w. /\ {"starting", "downloading", "verifying", "rebooting", "failed"} \subseteq Display!Stage
      /\ {"none", "generic", "sha256", "busy"} \subseteq Display!Error
  BY DEF Display!Stage, Display!Error
<1>1. CASE UNCHANGED <<state, ota, queue, failedFor>>
  BY Zenon, <1>1 DEF ScreenInv, UpdateInv
<1>2. CASE Display!Refresh
  <2>1. state' = [state EXCEPT !.ota = Display!Refreshed(state.ota)] /\ UNCHANGED <<ota, queue>>
        /\ failedFor' \in {failedFor, Display!NoTime}
    BY Zenon, <1>2 DEF Display!Refresh
  <2>2. Display!Refreshed(state.ota) \in OtaType /\ Ended(Display!Refreshed(state.ota))
    BY Zenon, <1>0, RefreshedType
  <2>3. state' \in StateType /\ state'.ota = Display!Refreshed(state.ota)
    BY <1>0, <2>1, <2>2, WithOta
  <2>4. failedFor' \in Display!NoTime..MessageTime
    BY <1>0, <2>1 DEF Display!NoTime
  <2> QED BY Zenon, <1>0, <2>1, <2>2, <2>3, <2>4 DEF ScreenInv, UpdateInv, Ended
<1>3. CASE Display!SetPhase
  <2>1. state.phase < Len(Phases) /\ state' = [state EXCEPT !.phase = state.phase + 1]
    BY <1>3 DEF Display!SetPhase
  <2>2. Phases \in Seq(STRING) /\ state.phase \in DOMAIN Phases
    BY <1>0 DEF Display!DisplayAssumption, StateType
  <2>3. state.phase + 1 \in DOMAIN Phases
    BY <2>1, <2>2
  <2>4. state' \in StateType /\ state'.ota = state.ota
    BY <1>0, <2>1, <2>3 DEF StateType
  <2>5. ota' \in {"idle", ota} /\ UNCHANGED <<queue, failedFor>>
    BY Zenon, <1>3 DEF Display!SetPhase
  <2>6. "idle" \in Display!Stage \ {"failed"}
    BY DEF Display!Stage
  <2> QED BY Zenon, <1>0, <2>4, <2>5, <2>6 DEF ScreenInv, UpdateInv, Ended
<1>4. CASE Display!SetMode
  <2>1. PICK m \in {"on", "off"} : state' = [state EXCEPT !.mode = m]
    BY Zenon, <1>4 DEF Display!SetMode
  <2>2. state' \in StateType /\ state'.ota = state.ota
    BY <1>0, <2>1 DEF StateType
  <2>3. UNCHANGED <<ota, queue, failedFor>>
    BY Zenon, <1>4 DEF Display!SetMode, Display!otaVars
  <2> QED BY Zenon, <1>0, <2>2, <2>3 DEF ScreenInv, UpdateInv, Ended
<1>5. CASE Display!SetSensors
  <2>1. PICK cells \in {{}, {1, 2}, Display!Cell} : state' = [state EXCEPT !.sensor = cells]
    BY Zenon, <1>5 DEF Display!SetSensors
  <2>2. cells \in SUBSET Display!Cell
    BY <2>1 DEF Display!Cell
  <2>3. state' \in StateType /\ state'.ota = state.ota
    BY <1>0, <2>1, <2>2 DEF StateType
  <2>4. UNCHANGED <<ota, queue, failedFor>>
    BY Zenon, <1>5 DEF Display!SetSensors, Display!otaVars
  <2> QED BY Zenon, <1>0, <2>3, <2>4 DEF ScreenInv, UpdateInv, Ended
<1>6. CASE Display!TriggerUpdate
  <2>1. UNCHANGED <<state, ota, failedFor>> /\ queue' \in {1, queue}
    BY Zenon, <1>6 DEF Display!TriggerUpdate
  <2>2. queue' \in 0..1
    BY <1>0, <2>1
  <2> QED BY Zenon, <1>0, <2>1, <2>2 DEF ScreenInv, UpdateInv
<1>7. CASE Display!ReportBusy
  <2>1. Display!Reported("starting", "busy", 0) /\ UNCHANGED <<ota, queue>>
    BY Zenon, <1>7 DEF Display!ReportBusy
  <2>2. ScreenInv' /\ failedFor' \in Display!NoTime..MessageTime
    BY <1>0, <1>w, <2>1, ReportedType
  <2> QED BY Zenon, <1>0, <2>1, <2>2 DEF UpdateInv
<1>8. CASE Display!OtaReceives
  <2>1. UNCHANGED <<state, failedFor>> /\ queue' = 0 /\ ota' = "received"
    BY Zenon, <1>8 DEF Display!OtaReceives
  <2>2. 0 \in 0..1
    OBVIOUS
  <2> QED BY Zenon, <1>0, <2>1, <2>2 DEF ScreenInv, UpdateInv
<1>9. CASE Display!OtaReports
  <2>1. /\ UNCHANGED queue
        /\ \/ ota' = "starting" /\ Display!Reported("starting", "none", 0)
           \/ ota' = "downloading" /\ Display!Reported("downloading", "none", 50)
           \/ ota' = "verifying" /\ Display!Reported("verifying", "none", 100)
           \/ ota' = "rebooting" /\ Display!Reported("rebooting", "none", 100)
    BY Zenon, <1>9 DEF Display!OtaReports
  <2>2. PICK s \in Display!Stage \ {"failed"}, p \in {0, 50, 100} :
            ota' = s /\ Display!Reported(s, "none", p)
    BY <2>1 DEF Display!Stage
  <2>3. ScreenInv' /\ failedFor' \in Display!NoTime..MessageTime
    BY <1>0, <1>w, <2>2, ReportedType
  <2> QED BY Zenon, <1>0, <2>1, <2>2, <2>3 DEF UpdateInv
<1>10. CASE Display!OtaFails
  <2>1. /\ UNCHANGED queue /\ ota' = "idle"
        /\ \/ Display!Reported("failed", "generic", IF ota = "verifying" THEN 100 ELSE 0)
           \/ Display!Reported("failed", "sha256", 100)
    BY Zenon, <1>10 DEF Display!OtaFails
  <2>2. PICK e \in Display!Error, p \in {0, 50, 100} : Display!Reported("failed", e, p)
    BY <2>1 DEF Display!Error
  <2>3. ScreenInv' /\ failedFor' \in Display!NoTime..MessageTime
    BY <1>0, <1>w, <2>2, ReportedType
  <2>4. "idle" \in Display!Stage \ {"failed"}
    BY DEF Display!Stage
  <2> QED BY Zenon, <1>0, <2>1, <2>3, <2>4 DEF UpdateInv
<1>11. CASE Display!Tick
  <2>1. state.ota.left > 0 /\ state' = [state EXCEPT !.ota.left = state.ota.left - 1]
    BY <1>11 DEF Display!Tick
  <2>2. state.ota.left - 1 \in Display!NoTime..MessageTime
    BY <1>0, <2>1 DEF OtaType, Display!NoTime
  <2>3. [state.ota EXCEPT !.left = state.ota.left - 1] \in OtaType
    BY <1>0, <2>2 DEF OtaType
  <2>4. state' = [state EXCEPT !.ota = [state.ota EXCEPT !.left = state.ota.left - 1]]
    BY <1>0, <2>1 DEF StateType
  <2>5. state' \in StateType /\ state'.ota = [state.ota EXCEPT !.left = state.ota.left - 1]
    BY <1>0, <2>3, <2>4, WithOta
  <2>6. Ended(state'.ota)
    BY <1>0, <2>1, <2>5 DEF Ended, OtaType, Display!NoTime
  <2>7. failedFor' = IF failedFor \in 0..(MessageTime - 1) THEN failedFor + 1 ELSE failedFor
    BY Zenon, <1>11 DEF Display!Tick
  <2>8. failedFor' \in Display!NoTime..MessageTime
    BY <1>0, <2>7 DEF Display!NoTime
  <2>9. UNCHANGED <<ota, queue>>
    BY Zenon, <1>11 DEF Display!Tick
  <2> QED BY Zenon, <1>0, <2>5, <2>6, <2>8, <2>9 DEF ScreenInv, UpdateInv, Ended
<1> QED BY Zenon, <1>1, <1>2, <1>3, <1>4, <1>5, <1>6, <1>7, <1>8, <1>9, <1>10, <1>11,
           ScreenSteps DEF Tells

LEMMA DisplayKeeps ==
    ASSUME Display!DisplayAssumption, DisplayInv, [Display!Next]_Display!vars
    PROVE  DisplayInv'
  BY Zenon, StartTypesStep, StartStep, TimeStep, DisplayFlagsStep, ScreenStep DEF DisplayInv

-----------------------------------------------------------------------------
\* Where an update runs, and what the screen then has of it; a failure on the
\* screen has been there for what its time lacks.
Under == {"starting", "downloading", "verifying", "rebooting"}

ShowInv ==
    /\ ota \in Under => state.ota.active /\ state.ota.stage = ota
    /\ state.ota.error \in {"generic", "sha256"} => state.ota.stage = "failed"
    /\ state.ota.stage = "failed" =>
          state.ota.active /\ failedFor + state.ota.left = MessageTime

LEMMA ShowInit == ASSUME Display!Init PROVE ShowInv
  BY DEF Display!Init, ShowInv, Under, Display!NoUpdate

\* What a report and a refreshing leave on the screen.
LEMMA ReportIs ==
    ASSUME NEW u \in OtaType, NEW s, NEW e, NEW p, NEW r, r = Display!Report(u, s, e, p)
    PROVE  /\ r.active /\ r.error = e
           /\ e # "none" => r.left = MessageTime
           /\ \/ r.stage = s
              \/ e = "busy" /\ u.active /\ u.stage # "failed" /\ r.stage = u.stage
           /\ e = "busy" /\ u.active /\ u.stage # "failed" => r.stage = u.stage
<1>1. CASE e = "busy" /\ u.active /\ u.stage # "failed"
  <2>1. r = [u EXCEPT !.error = "busy", !.left = MessageTime]
    BY Zenon, <1>1 DEF Display!Report
  <2>2. /\ [u EXCEPT !.error = "busy", !.left = MessageTime].active = u.active
        /\ [u EXCEPT !.error = "busy", !.left = MessageTime].stage = u.stage
        /\ [u EXCEPT !.error = "busy", !.left = MessageTime].error = "busy"
        /\ [u EXCEPT !.error = "busy", !.left = MessageTime].left = MessageTime
    BY DEF OtaType
  <2> QED BY Zenon, <1>1, <2>1, <2>2
<1>2. CASE ~(e = "busy" /\ u.active /\ u.stage # "failed")
  <2> DEFINE n == IF e = "none" THEN Display!NoTime ELSE MessageTime
             new == [active |-> TRUE, percent |-> p, stage |-> s, error |-> e, left |-> n]
  <2>1. r = new
    BY Zenon, <1>2 DEF Display!Report
  <2>2. new.active /\ new.stage = s /\ new.error = e /\ new.left = n
    BY Zenon
  <2>3. e # "none" => n = MessageTime
    OBVIOUS
  <2> HIDE DEF new, n
  <2> QED BY Zenon, <1>2, <2>1, <2>2, <2>3
<1> QED BY Zenon, <1>1, <1>2

LEMMA RefreshedIs ==
    ASSUME NEW u \in OtaType
    PROVE  \/ Display!Refreshed(u) = u
           \/ /\ u.active /\ u.stage # "failed"
              /\ Display!Refreshed(u).active /\ Display!Refreshed(u).stage = u.stage
              /\ Display!Refreshed(u).error = "none"
           \/ /\ ~(u.error = "busy" /\ u.active /\ u.stage # "failed")
              /\ u.error # "none" /\ u.left = 0
              /\ Display!Refreshed(u) = Display!NoUpdate
<1>1. /\ [u EXCEPT !.error = "none", !.left = Display!NoTime].active = u.active
      /\ [u EXCEPT !.error = "none", !.left = Display!NoTime].stage = u.stage
      /\ [u EXCEPT !.error = "none", !.left = Display!NoTime].error = "none"
  BY DEF OtaType
<1> QED BY Zenon, <1>1 DEF Display!Refreshed

LEMMA ReportedShows ==
    ASSUME state \in StateType, NEW s, NEW e, NEW p, Display!Reported(s, e, p)
    PROVE  /\ state'.ota = Display!Report(state.ota, s, e, p)
           /\ failedFor' = IF s = "failed" THEN 0
                           ELSE IF state'.ota.stage = "failed" THEN failedFor ELSE Display!NoTime
<1>1. state' = [state EXCEPT !.ota = Display!Report(state.ota, s, e, p)]
  BY Zenon DEF Display!Reported
<1>2. [state EXCEPT !.ota = Display!Report(state.ota, s, e, p)].ota
      = Display!Report(state.ota, s, e, p)
  BY DEF StateType
<1> QED BY Zenon, <1>1, <1>2 DEF Display!Reported

\* An update or a refusal is reported, which ends a failure on the screen.
LEMMA ReportsShow ==
    ASSUME ScreenInv, ShowInv, NEW s \in Under, NEW e \in {"none", "busy"}, NEW p,
           Display!Reported(s, e, p),
           (ota' = s /\ e = "none") \/ (UNCHANGED ota /\ e = "busy")
    PROVE  ShowInv'
<1> DEFINE u == state.ota
           r == state'.ota
<1>1. state \in StateType /\ u \in OtaType
  BY DEF ScreenInv, StateType
<1>2. /\ r.active /\ r.error = e
      /\ \/ r.stage = s
         \/ e = "busy" /\ u.active /\ u.stage # "failed" /\ r.stage = u.stage
      /\ e = "busy" /\ u.active /\ u.stage # "failed" => r.stage = u.stage
  <2>1. r = Display!Report(u, s, e, p)
    BY Zenon, <1>1, ReportedShows
  <2> HIDE DEF r, u
  <2> QED BY <1>1, <2>1, ReportIs
<1>3. r.stage # "failed"
  BY <1>2 DEF Under
<1>4. r.error \notin {"generic", "sha256"}
  BY <1>2
<1>5. CASE ota' = s /\ e = "none"
  <2>1. r.stage = ota'
    BY Zenon, <1>2, <1>5
  <2> QED BY Zenon, <1>2, <1>3, <1>4, <2>1 DEF ShowInv
<1>6. CASE UNCHANGED ota /\ e = "busy"
  <2>1. ota' \in Under => u.active /\ u.stage = ota' /\ u.stage # "failed"
    BY Zenon, <1>6 DEF ShowInv, Under
  <2>2. ota' \in Under => r.stage = ota'
    BY Zenon, <1>2, <1>6, <2>1
  <2> QED BY Zenon, <1>2, <1>3, <1>4, <2>2 DEF ShowInv
<1> QED BY Zenon, <1>5, <1>6

LEMMA FailureShows ==
    ASSUME Display!DisplayAssumption, ScreenInv, NEW e \in {"generic", "sha256"}, NEW p,
           Display!Reported("failed", e, p), ota' = "idle"
    PROVE  ShowInv'
<1> DEFINE r == state'.ota
<1>1. state \in StateType /\ state.ota \in OtaType
  BY DEF ScreenInv, StateType
<1>2. e # "busy" /\ e # "none"
  OBVIOUS
<1>3. r.active /\ r.stage = "failed" /\ r.left = MessageTime /\ failedFor' = 0
  <2>1. r = Display!Report(state.ota, "failed", e, p) /\ failedFor' = 0
    BY Zenon, <1>1, ReportedShows
  <2>2. /\ r.active /\ r.left = MessageTime
        /\ r.stage = "failed" \/ e = "busy"
    <3> HIDE DEF r
    <3> QED BY <1>1, <1>2, <2>1, ReportIs
  <2> QED BY Zenon, <1>2, <2>1, <2>2
<1>4. failedFor' + r.left = MessageTime
  BY <1>3 DEF Display!DisplayAssumption
<1>5. ota' \notin Under
  BY DEF Under
<1> QED BY Zenon, <1>3, <1>4, <1>5 DEF ShowInv

LEMMA RefreshShows ==
    ASSUME ScreenInv, ShowInv, Display!Refresh PROVE ShowInv'
<1> DEFINE u == state.ota
           r == state'.ota
<1>1. state \in StateType /\ u \in OtaType /\ u.error \in {"none", "generic", "sha256", "busy"}
  BY DEF ScreenInv, StateType, OtaType, Display!Error
<1>2. r = Display!Refreshed(u)
  <2>1. state' = [state EXCEPT !.ota = Display!Refreshed(state.ota)]
    BY Zenon DEF Display!Refresh
  <2> QED BY <1>1, <2>1 DEF StateType
<1>3. UNCHANGED ota /\ failedFor' = IF r.stage = "failed" THEN failedFor ELSE Display!NoTime
  BY Zenon, <1>2 DEF Display!Refresh
<1>4. CASE r = u
  BY Zenon, <1>3, <1>4 DEF ShowInv
<1>5. CASE u.active /\ u.stage # "failed" /\ r.active /\ r.stage = u.stage /\ r.error = "none"
  <2>1. r.error \notin {"generic", "sha256"}
    BY <1>5
  <2> QED BY Zenon, <1>3, <1>5, <2>1 DEF ShowInv
<1>6. CASE /\ ~(u.error = "busy" /\ u.active /\ u.stage # "failed")
           /\ u.error # "none" /\ u.left = 0 /\ r = Display!NoUpdate
  <2>1. r.stage # "failed" /\ r.error \notin {"generic", "sha256"}
    BY <1>6 DEF Display!NoUpdate
  <2>2. ota \notin Under
    <3>1. CASE u.error = "busy"
      BY Zenon, <1>6, <3>1 DEF ShowInv, Under
    <3>2. CASE u.error \in {"generic", "sha256"}
      BY Zenon, <3>2 DEF ShowInv, Under
    <3> QED BY <1>1, <1>6, <3>1, <3>2
  <2> QED BY Zenon, <1>3, <2>1, <2>2 DEF ShowInv
<1> QED BY Zenon, <1>1, <1>2, <1>4, <1>5, <1>6, RefreshedIs

LEMMA TickShows ==
    ASSUME Display!DisplayAssumption, ScreenInv, UpdateInv, ShowInv, Display!Tick
    PROVE  ShowInv'
<1> DEFINE u == state.ota
           r == state'.ota
<1>1. /\ state \in StateType /\ u \in OtaType /\ u.left \in Display!NoTime..MessageTime
      /\ MessageTime \in Nat /\ failedFor \in Display!NoTime..MessageTime
  BY DEF ScreenInv, UpdateInv, StateType, OtaType, Display!DisplayAssumption
<1>2. u.left > 0 /\ state' = [state EXCEPT !.ota.left = u.left - 1] /\ UNCHANGED ota
  BY Zenon DEF Display!Tick
<1>3. state' = [state EXCEPT !.ota = [u EXCEPT !.left = u.left - 1]]
  BY <1>1, <1>2 DEF StateType
<1>4. r = [u EXCEPT !.left = u.left - 1]
  BY <1>1, <1>3 DEF StateType
<1>5. r.active = u.active /\ r.stage = u.stage /\ r.error = u.error /\ r.left = u.left - 1
  BY <1>1, <1>4 DEF OtaType
<1>6. failedFor' = IF failedFor \in 0..(MessageTime - 1) THEN failedFor + 1 ELSE failedFor
  BY Zenon DEF Display!Tick
<1>7. failedFor + u.left = MessageTime => failedFor' + r.left = MessageTime
  BY <1>1, <1>2, <1>5, <1>6 DEF Display!NoTime
<1> QED BY Zenon, <1>2, <1>5, <1>7 DEF ShowInv

LEMMA ShowStep ==
    ASSUME Display!DisplayAssumption, ScreenInv, UpdateInv, ShowInv, [Display!Next]_Display!vars
    PROVE  ShowInv'
<1>1. CASE UNCHANGED <<state, ota, failedFor>>
  BY Zenon, <1>1 DEF ShowInv
<1>2. CASE state'.ota = state.ota /\ ota' \in {ota, "idle", "received"} /\ UNCHANGED failedFor
  <2>1. ota' \in Under => ota' = ota
    BY <1>2 DEF Under
  <2> QED BY Zenon, <1>2, <2>1 DEF ShowInv
<1>3. CASE Display!SetPhase \/ Display!SetMode \/ Display!SetSensors
  <2>1. state \in StateType
    BY DEF ScreenInv
  <2>2. state'.ota = state.ota
    BY <1>3, <2>1 DEF Display!SetPhase, Display!SetMode, Display!SetSensors, StateType
  <2>3. ota' \in {ota, "idle"} /\ UNCHANGED failedFor
    BY Zenon, <1>3 DEF Display!SetPhase, Display!SetMode, Display!SetSensors, Display!otaVars
  <2> QED BY Zenon, <1>2, <2>2, <2>3
<1>4. CASE Display!TriggerUpdate \/ Display!OtaReceives
  <2>1. UNCHANGED <<state, failedFor>> /\ ota' \in {ota, "received"}
    BY Zenon, <1>4 DEF Display!TriggerUpdate, Display!OtaReceives
  <2> QED BY Zenon, <1>2, <2>1
<1>5. CASE Display!ReportBusy
  <2>1. Display!Reported("starting", "busy", 0) /\ UNCHANGED ota
    BY Zenon, <1>5 DEF Display!ReportBusy
  <2>2. "starting" \in Under /\ "busy" \in {"none", "busy"}
    BY DEF Under
  <2> QED BY <2>1, <2>2, ReportsShow
<1>6. CASE Display!OtaReports
  <2>1. \/ ota' = "starting" /\ Display!Reported("starting", "none", 0)
        \/ ota' = "downloading" /\ Display!Reported("downloading", "none", 50)
        \/ ota' = "verifying" /\ Display!Reported("verifying", "none", 100)
        \/ ota' = "rebooting" /\ Display!Reported("rebooting", "none", 100)
    BY Zenon, <1>6 DEF Display!OtaReports
  <2>2. PICK s \in Under, p \in {0, 50, 100} : ota' = s /\ Display!Reported(s, "none", p)
    BY <2>1 DEF Under
  <2> QED BY <2>2, ReportsShow
<1>7. CASE Display!OtaFails
  <2>1. /\ ota' = "idle"
        /\ \/ Display!Reported("failed", "generic", IF ota = "verifying" THEN 100 ELSE 0)
           \/ Display!Reported("failed", "sha256", 100)
    BY Zenon, <1>7 DEF Display!OtaFails
  <2> QED BY <2>1, FailureShows
<1>8. CASE Display!Refresh \/ Display!Tick
  BY Zenon, <1>8, RefreshShows, TickShows
<1> QED BY Zenon, <1>1, <1>3, <1>4, <1>5, <1>6, <1>7, <1>8, ScreenSteps DEF Tells

\* Only a refreshing takes an update from the screen, a failed one when its
\* time is over.
LEMMA FailureStays ==
    ASSUME Display!DisplayAssumption, ScreenInv, UpdateInv, ShowInv, ShowInv',
           [Display!Next]_Display!vars,
           state.ota.stage = "failed", ~state'.ota.active
    PROVE  failedFor = MessageTime
<1> DEFINE u == state.ota
<1>1. /\ state \in StateType /\ u \in OtaType
      /\ MessageTime \in Nat /\ failedFor \in Display!NoTime..MessageTime
  BY DEF ScreenInv, UpdateInv, StateType, OtaType, Display!DisplayAssumption
<1>2. u.active /\ failedFor + u.left = MessageTime
  BY Zenon DEF ShowInv
<1>3. state'.ota # u
  BY Zenon, <1>2
<1>4. ASSUME NEW s, NEW e, NEW p, Display!Reported(s, e, p) PROVE FALSE
  <2>1. state'.ota = Display!Report(u, s, e, p)
    BY Zenon, <1>1, <1>4, ReportedShows
  <2>2. state'.ota.active
    BY <1>1, <2>1, ReportIs
  <2> QED BY Zenon, <2>2
<1>5. CASE Display!Refresh
  <2>1. state'.ota = Display!Refreshed(u)
    <3>1. state' = [state EXCEPT !.ota = Display!Refreshed(state.ota)]
      BY Zenon, <1>5 DEF Display!Refresh
    <3> QED BY <1>1, <3>1 DEF StateType
  <2>2. u.left = 0
    BY Zenon, <1>1, <1>3, <2>1, RefreshedIs
  <2> QED BY <1>1, <1>2, <2>2 DEF Display!NoTime
<1>6. ~Display!ReportBusy /\ ~Display!OtaReports /\ ~Display!OtaFails
  BY Zenon, <1>4 DEF Display!ReportBusy, Display!OtaReports, Display!OtaFails
<1>7. ~Display!SetPhase /\ ~Display!SetMode /\ ~Display!SetSensors
  BY <1>1, <1>3 DEF Display!SetPhase, Display!SetMode, Display!SetSensors, StateType
<1>8. ~Display!TriggerUpdate /\ ~Display!OtaReceives /\ ~UNCHANGED state
  BY Zenon, <1>3 DEF Display!TriggerUpdate, Display!OtaReceives
<1>9. ~Display!Tick
  <2>1. ASSUME Display!Tick PROVE FALSE
    <3>1. state' = [state EXCEPT !.ota.left = u.left - 1]
      BY Zenon, <2>1 DEF Display!Tick
    <3>2. state' = [state EXCEPT !.ota = [u EXCEPT !.left = u.left - 1]]
      BY <1>1, <3>1 DEF StateType
    <3>3. state'.ota = [u EXCEPT !.left = u.left - 1]
      BY <1>1, <3>2 DEF StateType
    <3>4. state'.ota.active = u.active
      BY <1>1, <3>3 DEF OtaType
    <3> QED BY Zenon, <1>2, <3>4
  <2> QED BY <2>1
<1> QED BY Zenon, <1>5, <1>6, <1>7, <1>8, <1>9, ScreenSteps DEF Tells

-----------------------------------------------------------------------------
\* sysload.c sets the phase "ready" once, as the last one (sysload.c:1111).
ReadyIsLast == \A i \in DOMAIN Phases : Phases[i] = "ready" => i = Len(Phases)

\* The widgets with these contents, and with one of them set.
Screen(visible, ground, boot, otaView, runtime) ==
    [visible |-> visible, ground |-> ground, boot |-> boot, ota |-> otaView,
     runtime |-> runtime]

WithVisible(w, x) == [w EXCEPT !.visible = x]
WithGround(w, x) == [w EXCEPT !.ground = x]
WithBoot(w, x) == [w EXCEPT !.boot = x]
WithOtaView(w, x) == [w EXCEPT !.ota = x]
WithRuntime(w, x) == [w EXCEPT !.runtime = x]

LEMMA ScreenUpdates ==
    \A a, b, c, d, e, x :
       /\ WithVisible(Screen(a, b, c, d, e), x) = Screen(x, b, c, d, e)
       /\ WithGround(Screen(a, b, c, d, e), x) = Screen(a, x, c, d, e)
       /\ WithBoot(Screen(a, b, c, d, e), x) = Screen(a, b, x, d, e)
       /\ WithOtaView(Screen(a, b, c, d, e), x) = Screen(a, b, c, x, e)
       /\ WithRuntime(Screen(a, b, c, d, e), x) = Screen(a, b, c, d, x)
<1> TAKE a, b, c, d, e, x
<1>1. WithVisible(Screen(a, b, c, d, e), x) = Screen(x, b, c, d, e)
  BY DEF Screen, WithVisible
<1>2. WithGround(Screen(a, b, c, d, e), x) = Screen(a, x, c, d, e)
  BY DEF Screen, WithGround
<1>3. WithBoot(Screen(a, b, c, d, e), x) = Screen(a, b, x, d, e)
  BY DEF Screen, WithBoot
<1>4. WithOtaView(Screen(a, b, c, d, e), x) = Screen(a, b, c, x, e)
  BY DEF Screen, WithOtaView
<1>5. WithRuntime(Screen(a, b, c, d, e), x) = Screen(a, b, c, d, x)
  BY DEF Screen, WithRuntime
<1> QED BY Zenon, <1>1, <1>2, <1>3, <1>4, <1>5

LEMMA ScreenFields ==
    \A a, b, c, d, e :
       /\ Screen(a, b, c, d, e).visible = a /\ Screen(a, b, c, d, e).ground = b
       /\ Screen(a, b, c, d, e).boot = c /\ Screen(a, b, c, d, e).ota = d
       /\ Screen(a, b, c, d, e).runtime = e
  BY DEF Screen

\* Each way to draw, what is to be seen of it, and what is wanted.
LEMMA DrawnScreens ==
    ASSUME NEW a, NEW b, NEW c, NEW d, NEW e, NEW s, NEW v
    PROVE  /\ Display!DrawBoot(Screen(a, b, c, d, e), s)
              = Screen({"boot"}, b, Phases[s.phase], d, e)
           /\ Display!DrawOta(Screen(a, b, c, d, e), s)
              = Screen({"ota"}, "light", c, Display!OtaView(s.ota), e)
           /\ s.mode = "off" =>
                 Display!DrawRuntime(Screen(a, b, c, d, e), s, v) = Screen({}, "dark", c, d, e)
           /\ s.mode # "off" =>
                 Display!DrawRuntime(Screen(a, b, c, d, e), s, v)
                 = Screen({"runtime"}, "light", c, d, Display!Runtime(s, v))
<1> DEFINE w == Screen(a, b, c, d, e)
<1>1. Display!DrawBoot(w, s) = WithBoot(WithVisible(w, {"boot"}), Phases[s.phase])
  BY Zenon DEF Display!DrawBoot, WithBoot, WithVisible
<1>2. Display!DrawOta(w, s)
      = WithOtaView(WithGround(WithVisible(w, {"ota"}), "light"), Display!OtaView(s.ota))
  BY Zenon DEF Display!DrawOta, WithOtaView, WithGround, WithVisible
<1>3. s.mode = "off" =>
         Display!DrawRuntime(w, s, v) = WithGround(WithVisible(w, {}), "dark")
  BY Zenon DEF Display!DrawRuntime, WithGround, WithVisible
<1>4. s.mode # "off" =>
         Display!DrawRuntime(w, s, v)
         = WithRuntime(WithGround(WithVisible(w, {"runtime"}), "light"), Display!Runtime(s, v))
  BY Zenon DEF Display!DrawRuntime, WithRuntime, WithGround, WithVisible
<1>5. Display!DrawBoot(w, s) = Screen({"boot"}, b, Phases[s.phase], d, e)
  BY <1>1, ScreenUpdates
<1>6. Display!DrawOta(w, s) = Screen({"ota"}, "light", c, Display!OtaView(s.ota), e)
  BY <1>2, ScreenUpdates
<1>7. s.mode = "off" => Display!DrawRuntime(w, s, v) = Screen({}, "dark", c, d, e)
  BY <1>3, ScreenUpdates
<1>8. s.mode # "off" =>
         Display!DrawRuntime(w, s, v)
         = Screen({"runtime"}, "light", c, d, Display!Runtime(s, v))
  BY <1>4, ScreenUpdates
<1> QED BY Zenon, <1>5, <1>6, <1>7, <1>8

LEMMA PictureIs ==
    ASSUME NEW a, NEW b, NEW c, NEW d, NEW e
    PROVE  Display!Picture(Screen(a, b, c, d, e))
           = Screen(a, b, IF "boot" \in a THEN c ELSE Display!NewBootView,
                    IF "ota" \in a THEN d ELSE Display!NewOtaView,
                    IF "runtime" \in a THEN e ELSE Display!NewRuntimeView)
<1> DEFINE w == Screen(a, b, c, d, e)
           f == IF "boot" \in w.visible THEN w.boot ELSE Display!NewBootView
           g == IF "ota" \in w.visible THEN w.ota ELSE Display!NewOtaView
           h == IF "runtime" \in w.visible THEN w.runtime ELSE Display!NewRuntimeView
<1>1. Display!Picture(w) = WithRuntime(WithOtaView(WithBoot(w, f), g), h)
  BY DEF Display!Picture, WithRuntime, WithOtaView, WithBoot, Screen
<1>2. w.visible = a /\ w.boot = c /\ w.ota = d /\ w.runtime = e
  BY ScreenFields
<1>3. WithRuntime(WithOtaView(WithBoot(w, f), g), h) = Screen(a, b, f, g, h)
  <2> HIDE DEF f, g, h
  <2> QED BY ScreenUpdates
<1> QED BY Zenon, <1>1, <1>2, <1>3

LEMMA WantedIs ==
    ASSUME NEW s, NEW v, NEW y,
           y = CASE s.ota.active -> "ota"
                 [] ~s.ota.active /\ Phases[s.phase] # "ready" -> "boot"
                 [] ~s.ota.active /\ Phases[s.phase] = "ready" /\ s.mode = "off"
                       -> Display!None
                 [] OTHER -> "runtime"
    PROVE  Display!Wanted(s, v)
           = Screen({y} \ {Display!None}, IF y = Display!None THEN "dark" ELSE "light",
                    IF y = "boot" THEN Phases[s.phase] ELSE Display!NewBootView,
                    IF y = "ota" THEN Display!OtaView(s.ota) ELSE Display!NewOtaView,
                    IF y = "runtime" THEN Display!Runtime(s, v) ELSE Display!NewRuntimeView)
<1> DEFINE w == Display!NewWidgets
           seen == {y} \ {Display!None}
           ground == IF y = Display!None THEN "dark" ELSE "light"
           f == IF y = "boot" THEN Phases[s.phase] ELSE w.boot
           g == IF y = "ota" THEN Display!OtaView(s.ota) ELSE w.ota
           h == IF y = "runtime" THEN Display!Runtime(s, v) ELSE w.runtime
<1>1. Display!Wanted(s, v)
      = WithRuntime(WithOtaView(WithBoot(WithGround(WithVisible(w, seen), ground), f), g), h)
  BY DEF Display!Wanted, WithRuntime, WithOtaView, WithBoot, WithGround, WithVisible,
         Display!NewWidgets, Display!None
<1>2. w = Screen({"boot", "runtime"}, "light", Display!NewBootView, Display!NewOtaView,
                 Display!NewRuntimeView)
  BY Zenon DEF Display!NewWidgets, Screen
<1>3. /\ w.boot = Display!NewBootView /\ w.ota = Display!NewOtaView
      /\ w.runtime = Display!NewRuntimeView
  BY <1>2, ScreenFields
<1>4. WithRuntime(WithOtaView(WithBoot(WithGround(WithVisible(w, seen), ground), f), g), h)
      = Screen(seen, ground, f, g, h)
  <2> HIDE DEF w, seen, ground, f, g, h
  <2> QED BY <1>2, ScreenUpdates
<1> QED BY Zenon, <1>1, <1>3, <1>4

\* What each way to draw shows is what is wanted: whatever the widgets held,
\* only on light ground while the device boots.
LEMMA DrawnIsPicture ==
    ASSUME NEW a, NEW b, NEW c, NEW d, NEW e, NEW s, NEW v, s.ota.active \in BOOLEAN,
           Phases[s.phase] # "ready" => b = "light"
    PROVE  Display!Picture(Display!Drawn(Screen(a, b, c, d, e), s, v)) = Display!Wanted(s, v)
<1> DEFINE w == Screen(a, b, c, d, e)
<1>n. Display!None = "none"
  BY DEF Display!None
<1>1. CASE s.ota.active
  <2>1. Display!Drawn(w, s, v) = Screen({"ota"}, "light", c, Display!OtaView(s.ota), e)
    BY <1>1, DrawnScreens DEF Display!Drawn
  <2>2. Display!Picture(Display!Drawn(w, s, v))
        = Screen({"ota"}, "light", Display!NewBootView, Display!OtaView(s.ota),
                 Display!NewRuntimeView)
    BY <2>1, PictureIs
  <2>3. Display!Wanted(s, v)
        = Screen({"ota"}, "light", Display!NewBootView, Display!OtaView(s.ota),
                 Display!NewRuntimeView)
    BY <1>1, <1>n, WantedIs
  <2> QED BY <2>2, <2>3
<1>2. CASE ~s.ota.active /\ Phases[s.phase] # "ready"
  <2>1. Display!Drawn(w, s, v) = Screen({"boot"}, "light", Phases[s.phase], d, e)
    <3>1. Display!Drawn(w, s, v) = Display!DrawBoot(w, s) /\ b = "light"
      BY Zenon, <1>2 DEF Display!Drawn
    <3>2. Display!DrawBoot(w, s) = Screen({"boot"}, b, Phases[s.phase], d, e)
      <4>1. Display!DrawBoot(w, s) = WithBoot(WithVisible(w, {"boot"}), Phases[s.phase])
        BY Zenon DEF Display!DrawBoot, WithBoot, WithVisible
      <4> QED BY <4>1, ScreenUpdates
    <3> QED BY Zenon, <3>1, <3>2
  <2>2. Display!Picture(Display!Drawn(w, s, v))
        = Screen({"boot"}, "light", Phases[s.phase], Display!NewOtaView,
                 Display!NewRuntimeView)
    BY <2>1, PictureIs
  <2>3. Display!Wanted(s, v)
        = Screen({"boot"}, "light", Phases[s.phase], Display!NewOtaView,
                 Display!NewRuntimeView)
    BY <1>2, <1>n, WantedIs
  <2> QED BY <2>2, <2>3
<1>3. CASE ~s.ota.active /\ Phases[s.phase] = "ready" /\ s.mode = "off"
  <2>1. Display!Drawn(w, s, v) = Screen({}, "dark", c, d, e)
    BY <1>3, DrawnScreens DEF Display!Drawn
  <2>2. Display!Picture(Display!Drawn(w, s, v))
        = Screen({}, "dark", Display!NewBootView, Display!NewOtaView, Display!NewRuntimeView)
    BY <2>1, PictureIs
  <2>3. Display!Wanted(s, v)
        = Screen({}, "dark", Display!NewBootView, Display!NewOtaView, Display!NewRuntimeView)
    BY <1>3, <1>n, WantedIs
  <2> QED BY <2>2, <2>3
<1>4. CASE ~s.ota.active /\ Phases[s.phase] = "ready" /\ s.mode # "off"
  <2>1. Display!Drawn(w, s, v) = Screen({"runtime"}, "light", c, d, Display!Runtime(s, v))
    BY <1>4, DrawnScreens DEF Display!Drawn
  <2>2. Display!Picture(Display!Drawn(w, s, v))
        = Screen({"runtime"}, "light", Display!NewBootView, Display!NewOtaView,
                 Display!Runtime(s, v))
    BY <2>1, PictureIs
  <2>3. Display!Wanted(s, v)
        = Screen({"runtime"}, "light", Display!NewBootView, Display!NewOtaView,
                 Display!Runtime(s, v))
    BY <1>4, <1>n, WantedIs
  <2> QED BY <2>2, <2>3
<1> QED BY Zenon, <1>1, <1>2, <1>3, <1>4

\* A drawing leaves widgets, and the ground of a boot as it was.
LEMMA DrawnIsBuilt ==
    ASSUME NEW a, NEW b, NEW c, NEW d, NEW e, NEW s, NEW v,
           Phases[s.phase] # "ready" => b = "light"
    PROVE  \E f, g, h, i, j : /\ Display!Drawn(Screen(a, b, c, d, e), s, v) = Screen(f, g, h, i, j)
                              /\ Phases[s.phase] # "ready" => g = "light"
<1> DEFINE w == Screen(a, b, c, d, e)
<1>1. CASE s.ota.active
  <2>1. Display!Drawn(w, s, v) = Screen({"ota"}, "light", c, Display!OtaView(s.ota), e)
    BY <1>1, DrawnScreens DEF Display!Drawn
  <2> QED BY Zenon, <1>1, <2>1
<1>2. CASE ~s.ota.active /\ Phases[s.phase] # "ready"
  <2>1. Display!Drawn(w, s, v) = Screen({"boot"}, "light", Phases[s.phase], d, e)
    <3>1. Display!Drawn(w, s, v) = Display!DrawBoot(w, s) /\ b = "light"
      BY Zenon, <1>2 DEF Display!Drawn
    <3>2. Display!DrawBoot(w, s) = Screen({"boot"}, b, Phases[s.phase], d, e)
      <4>1. Display!DrawBoot(w, s) = WithBoot(WithVisible(w, {"boot"}), Phases[s.phase])
        BY Zenon DEF Display!DrawBoot, WithBoot, WithVisible
      <4> QED BY <4>1, ScreenUpdates
    <3> QED BY Zenon, <3>1, <3>2
  <2> QED BY Zenon, <1>2, <2>1
<1>3. CASE ~s.ota.active /\ Phases[s.phase] = "ready" /\ s.mode = "off"
  <2>1. Display!Drawn(w, s, v) = Screen({}, "dark", c, d, e)
    BY <1>3, DrawnScreens DEF Display!Drawn
  <2> QED BY Zenon, <1>3, <2>1
<1>4. CASE ~s.ota.active /\ Phases[s.phase] = "ready" /\ s.mode # "off"
  <2>1. Display!Drawn(w, s, v) = Screen({"runtime"}, "light", c, d, Display!Runtime(s, v))
    BY <1>4, DrawnScreens DEF Display!Drawn
  <2> QED BY Zenon, <1>4, <2>1
<1> QED BY Zenon, <1>1, <1>2, <1>3, <1>4

\* The widgets are always built, and on light ground while the device boots:
\* render_boot_phase does not set it.
WidgetInv ==
    \E a, b, c, d, e : /\ widgets = Screen(a, b, c, d, e)
                       /\ Phases[state.phase] # "ready" => b = "light"

LEMMA BuiltWidgets ==
    Display!NewWidgets = Screen({"boot", "runtime"}, "light", Display!NewBootView,
                                Display!NewOtaView, Display!NewRuntimeView)
  BY DEF Display!NewWidgets, Screen

LEMMA WidgetInit == ASSUME Display!Init PROVE WidgetInv
<1>1. widgets = Display!NewWidgets
  BY Zenon DEF Display!Init
<1> QED BY Zenon, <1>1, BuiltWidgets DEF WidgetInv

LEMMA WidgetStep ==
    ASSUME Display!DisplayAssumption, ReadyIsLast, ScreenInv, WidgetInv,
           [Display!Next]_Display!vars
    PROVE  WidgetInv'
<1> USE DEF Display!drawVars
<1>0. state \in StateType
  BY Zenon DEF ScreenInv
<1>1. CASE UNCHANGED widgets /\ state'.phase = state.phase
  BY Zenon, <1>1 DEF WidgetInv
<1>2. CASE Display!Build
  <2>1. widgets' = Display!Drawn(Display!NewWidgets, state, world) /\ UNCHANGED state
    BY Zenon, <1>2 DEF Display!Build
  <2>2. PICK f, g, h, i, j :
             /\ Display!Drawn(Display!NewWidgets, state, world) = Screen(f, g, h, i, j)
             /\ Phases[state.phase] # "ready" => g = "light"
    BY BuiltWidgets, DrawnIsBuilt
  <2>3. /\ widgets' = Screen(f, g, h, i, j)
        /\ Phases[state'.phase] # "ready" => g = "light"
    BY Zenon, <2>1, BuiltWidgets, <2>2
  <2> QED BY Zenon, <2>3 DEF WidgetInv
<1>3. CASE Display!Draw
  <2>1. widgets' = Display!Drawn(widgets, state, world) /\ UNCHANGED state
    BY Zenon, <1>3 DEF Display!Draw
  <2>2. PICK a, b, c, d, e : /\ widgets = Screen(a, b, c, d, e)
                             /\ Phases[state.phase] # "ready" => b = "light"
    BY Zenon DEF WidgetInv
  <2>3. PICK f, g, h, i, j :
             /\ Display!Drawn(widgets, state, world) = Screen(f, g, h, i, j)
             /\ Phases[state.phase] # "ready" => g = "light"
    BY <2>2, DrawnIsBuilt
  <2>4. /\ widgets' = Screen(f, g, h, i, j)
        /\ Phases[state'.phase] # "ready" => g = "light"
    BY Zenon, <2>1, <2>2, <2>3
  <2> QED BY Zenon, <2>4 DEF WidgetInv
<1>4. CASE Display!SetPhase
  <2>1. state.phase < Len(Phases) /\ UNCHANGED widgets
    BY Zenon, <1>4 DEF Display!SetPhase
  <2>2. state.phase \in DOMAIN Phases /\ Len(Phases) \in Nat
    BY <1>0 DEF StateType, Display!DisplayAssumption
  <2>3. state.phase # Len(Phases)
    BY <2>1, <2>2 DEF Display!DisplayAssumption
  <2>4. Phases[state.phase] # "ready"
    BY Zenon, <2>2, <2>3 DEF ReadyIsLast
  <2> QED BY Zenon, <2>1, <2>4 DEF WidgetInv
<1>5. CASE Display!Refresh \/ Display!SetMode \/ Display!SetSensors \/ Display!ReportBusy
           \/ Display!OtaReports \/ Display!OtaFails \/ Display!Tick
  <2>1. UNCHANGED widgets
    BY Zenon, <1>5
       DEF Display!Refresh, Display!SetMode, Display!SetSensors, Display!ReportBusy,
           Display!OtaReports, Display!OtaFails, Display!Tick, Display!otherOta
  <2>2. ASSUME NEW s, NEW e, NEW p, Display!Reported(s, e, p) PROVE state'.phase = state.phase
    <3>1. state' = [state EXCEPT !.ota = Display!Report(state.ota, s, e, p)]
      BY Zenon, <2>2 DEF Display!Reported
    <3> QED BY <1>0, <3>1 DEF StateType
  <2>3. CASE Display!ReportBusy \/ Display!OtaReports \/ Display!OtaFails
    <3>1. state'.phase = state.phase
      BY Zenon, <2>2, <2>3 DEF Display!ReportBusy, Display!OtaReports, Display!OtaFails
    <3> QED BY Zenon, <1>1, <2>1, <3>1
  <2>4. CASE Display!Refresh \/ Display!SetMode \/ Display!SetSensors \/ Display!Tick
    <3>1. state'.phase = state.phase
      BY <1>0, <2>4
         DEF Display!Refresh, Display!SetMode, Display!SetSensors, Display!Tick, StateType
    <3> QED BY Zenon, <1>1, <2>1, <3>1
  <2> QED BY Zenon, <1>5, <2>3, <2>4
<1>6. CASE Display!StartTask \/ Display!InitDriver \/ Display!InitBuffers
           \/ Display!InitTimer \/ Display!RunSelfTest \/ Display!GiveStep
  BY Zenon, <1>1, <1>6
     DEF Display!StartTask, Display!InitDriver, Display!InitBuffers, Display!InitTimer,
         Display!RunSelfTest, Display!GiveStep
<1>7. CASE Display!InitReturns \/ Display!Flush \/ Display!WorldChanges
           \/ Display!TriggerUpdate \/ Display!OtaReceives \/ UNCHANGED Display!vars
  BY Zenon, <1>1, <1>7
     DEF Display!InitReturns, Display!Flush, Display!WorldChanges, Display!TriggerUpdate,
         Display!OtaReceives, Display!otherOta, Display!vars
<1> QED BY Zenon, <1>2, <1>3, <1>4, <1>5, <1>6, <1>7
        DEF Display!Next, Display!Starting, Display!Rendering, Display!Updating

\* Draw is the only step from "draw" to "flush".
LEMMA DrawingStep ==
    ASSUME [Display!Next]_Display!vars, screenTask = "draw", screenTask' = "flush"
    PROVE  Display!Draw
<1>1. screenTask' # screenTask
  OBVIOUS
<1>2. \/ Display!StartTask \/ Display!Starting \/ Display!InitReturns \/ Display!Rendering
      \/ UNCHANGED screenTask
  BY Zenon
     DEF Display!Next, Display!SetPhase, Display!SetMode, Display!SetSensors,
         Display!WorldChanges, Display!TriggerUpdate, Display!ReportBusy, Display!Updating,
         Display!OtaReceives, Display!OtaReports, Display!OtaFails, Display!Tick,
         Display!otherOta, Display!startVars, Display!vars
<1>3. ~Display!StartTask /\ ~Display!Starting
  BY DEF Display!StartTask, Display!Starting, Display!InitDriver, Display!InitBuffers,
         Display!InitTimer, Display!RunSelfTest, Display!Build, Display!GiveStep,
         Display!Give, Display!InitFails
<1>4. ~Display!InitReturns /\ ~Display!Refresh /\ ~Display!Flush
  BY DEF Display!InitReturns, Display!Refresh, Display!Flush
<1> QED BY Zenon, <1>1, <1>2, <1>3, <1>4 DEF Display!Rendering

LEMMA DrawingIsWanted ==
    ASSUME ScreenInv, WidgetInv, [Display!Next]_Display!vars,
           screenTask = "draw", screenTask' = "flush"
    PROVE  Display!Picture(widgets') = Display!Wanted(state, world)
<1>1. widgets' = Display!Drawn(widgets, state, world)
  BY Zenon, DrawingStep DEF Display!Draw
<1>2. state.ota.active \in BOOLEAN
  BY DEF ScreenInv, StateType, OtaType
<1>3. PICK a, b, c, d, e : /\ widgets = Screen(a, b, c, d, e)
                           /\ Phases[state.phase] # "ready" => b = "light"
  BY Zenon DEF WidgetInv
<1>4. Display!Picture(Display!Drawn(Screen(a, b, c, d, e), state, world))
      = Display!Wanted(state, world)
  BY <1>2, <1>3, DrawnIsPicture
<1> QED BY Zenon, <1>1, <1>3, <1>4

LEMMA DisplayIsSafe == ASSUME DisplayInv PROVE Display!HeadlessIsSafe
<1>1. main = "failed" => /\ buffers # "all" /\ buffers # "some"
                         /\ screenTask \in {"none", "deleted"} /\ initResult = "fail"
  BY DEF DisplayInv, StartInv
<1>2. (main = "failed" => ~timer) /\ (misused => main = "timeout")
  BY Zenon DEF DisplayInv, DisplayFlags
<1>3. main = "timeout" => spent > Base + (IF SelfTest THEN 4 * HoldTime ELSE 0)
  BY Zenon DEF DisplayInv, TimeInv
<1> QED BY Zenon, <1>1, <1>2, <1>3 DEF Display!HeadlessIsSafe

LEMMA DisplayIsTyped == ASSUME DisplayInv PROVE Display!TypeOK
<1>1. /\ main \in {"start", "wait", "ok", "failed", "timeout"}
      /\ sem \in {"none", "empty", "given", "deleted"}
      /\ buffers \in {"none", "some", "all", "freed"} /\ initResult \in {"fail", "ok"}
  BY Zenon DEF DisplayInv, StartTypes
<1>2. screenTask \in {"none", "driver", "buffers", "timer", "self test", "build", "give",
                "giving", "run", "draw", "flush", "deleted"}
  BY DEF DisplayInv, StartTypes, Coming, Shown
<1>3. timer \in BOOLEAN /\ misused \in BOOLEAN
  BY Zenon DEF DisplayInv, DisplayFlags
<1>4. /\ state.phase \in DOMAIN Phases /\ state.mode \in {Display!None, "on", "off"}
      /\ state.sensor \subseteq Display!Cell /\ state.ota \in OtaType
  BY DEF DisplayInv, ScreenInv, StateType
<1>5. /\ state.ota.stage \in Display!Stage /\ state.ota.error \in Display!Error
      /\ state.ota.left \in Display!NoTime..MessageTime
  BY <1>4 DEF OtaType
<1>6. state.ota.error = "none" => state.ota.left = Display!NoTime
  BY Zenon DEF DisplayInv, ScreenInv
<1>7. /\ ota \in (Display!Stage \ {"failed"}) \union {"none", "received"} /\ queue \in 0..1
      /\ failedFor \in Display!NoTime..MessageTime
  BY Zenon DEF DisplayInv, UpdateInv
<1> QED BY Zenon, <1>1, <1>2, <1>3, <1>4, <1>5, <1>6, <1>7 DEF Display!TypeOK

(***************************************************************************)
(* StatusLed: the hold.                                                    *)
(***************************************************************************)
\* What the button's task has saved is never the hold's own state, and it shows
\* the hold only when it has saved what it covers; it sleeps only short of the
\* reset.
HoldInv ==
    /\ saved # "reset"
    /\ poll = "feedback" => holding
    /\ poll = "sleep" => polls < Hold

LedInv == Led!TypeOK /\ HoldInv /\ Led!ResetBlinkMeansHold

LEMMA LedInit == ASSUME Led!LedAssumption, Led!Init PROVE LedInv
<1>1. lit \in BOOLEAN /\ notified \in BOOLEAN /\ pressed \in BOOLEAN /\ holding \in BOOLEAN
  BY Zenon DEF Led!Init
<1> QED
  BY <1>1
     DEF Led!Init, LedInv, Led!TypeOK, HoldInv, Led!ResetBlinkMeansHold, Led!LedAssumption,
         Led!Blinking, Led!Steady, Led!None

LEMMA LedKeeps == ASSUME Led!LedAssumption, LedInv, [Led!Next]_Led!vars PROVE LedInv'
<1> USE DEF LedInv, Led!TypeOK, HoldInv, Led!ResetBlinkMeansHold, Led!LedAssumption,
            Led!Blinking, Led!Steady
<1>1. CASE Led!LedTask
  <2>1. notified' \in BOOLEAN /\ lit' = lit /\ pressed' = pressed /\ holding' = holding
    BY Zenon, <1>1 DEF Led!LedTask, Led!LedReads, Led!LedWrites, Led!ledVars, Led!button
  <2> QED BY <1>1, <2>1
             DEF Led!LedTask, Led!LedReads, Led!LedWrites, Led!ledVars, Led!button, Led!None
<1>2. CASE Led!BlinkTimer
  <2>1. /\ lit' \in BOOLEAN /\ notified' \in BOOLEAN
        /\ pressed' = pressed /\ holding' = holding
    BY Zenon, <1>2 DEF Led!BlinkTimer, Led!Toggled, Led!button
  <2> QED BY <1>2, <2>1 DEF Led!BlinkTimer, Led!writer, Led!button
<1>3. CASE Led!BootShows \/ Led!MqttEvent
  <2>1. PICK s \in {"ble", "wifi", "error", "online"} : Led!SetLed(s)
    BY <1>3 DEF Led!BootShows, Led!MqttEvent, Led!NextShown
  <2>2. /\ lit' \in BOOLEAN /\ notified' \in BOOLEAN
        /\ pressed' = pressed /\ holding' = holding
    BY Zenon, <1>3, <2>1 DEF Led!BootShows, Led!MqttEvent, Led!SetLed, Led!button
  <2>3. shows' \in {"boot", "ble", "wifi", "error", "mqtt"}
        /\ ledMqtt' \in {"down", "up", "stopped"}
    BY <1>3 DEF Led!BootShows, Led!MqttEvent, Led!NextShown
  <2> QED BY <1>3, <2>1, <2>2, <2>3
             DEF Led!BootShows, Led!MqttEvent, Led!SetLed, Led!writer, Led!button
<1>4. CASE Led!Restart
  <2>1. /\ lit' \in BOOLEAN /\ notified' \in BOOLEAN
        /\ pressed' = pressed /\ holding' \in BOOLEAN
    BY Zenon, <1>4 DEF Led!Restart, Led!SetLed
  <2> QED BY <1>4, <2>1 DEF Led!Restart, Led!SetLed, Led!None
<1>5. CASE Led!Press
  <2>1. /\ lit' = lit /\ notified' = notified /\ holding' = holding /\ pressed' \in BOOLEAN
    BY Zenon, <1>5 DEF Led!Press, Led!ledVars, Led!button
  <2> QED BY <1>5, <2>1 DEF Led!Press, Led!ledVars, Led!writer, Led!button
<1>6. CASE Led!Poll
  <2>1. lit' \in BOOLEAN /\ notified' \in BOOLEAN /\ pressed' = pressed /\ holding' \in BOOLEAN
    BY Zenon, <1>6 DEF Led!Poll, Led!Released, Led!Pressed, Led!SetLed, Led!ledVars
  <2>2. CASE Led!Released
    BY <1>6, <2>1, <2>2 DEF Led!Poll, Led!Released, Led!SetLed, Led!ledVars, Led!writer
  <2>3. CASE Led!Pressed
    BY <1>6, <2>1, <2>3 DEF Led!Poll, Led!Pressed, Led!ledVars, Led!writer
  <2> QED BY <1>6, <2>2, <2>3 DEF Led!Poll
<1>7. CASE Led!ShowHold \/ Led!RunReset
  <2>1. lit' \in BOOLEAN /\ notified' \in BOOLEAN /\ pressed' = pressed /\ holding' = holding
    BY Zenon, <1>7 DEF Led!ShowHold, Led!RunReset, Led!SetLed, Led!ledVars
  <2> QED BY <1>7, <2>1 DEF Led!ShowHold, Led!RunReset, Led!SetLed, Led!ledVars, Led!writer
<1>8. CASE Led!ResetEnds \/ Led!ResetFailed
  <2>1. CASE ~Led!Restart
    <3>1. /\ lit' \in BOOLEAN /\ notified' \in BOOLEAN
          /\ pressed' = pressed /\ holding' \in BOOLEAN
      BY Zenon, <1>8, <2>1 DEF Led!ResetEnds, Led!ResetFailed, Led!SetLed, Led!ledVars
    <3> QED BY <1>8, <2>1, <3>1
               DEF Led!ResetEnds, Led!ResetFailed, Led!SetLed, Led!ledVars, Led!writer
  <2> QED BY <1>4, <2>1
<1>9. CASE UNCHANGED Led!vars
  <2>1. UNCHANGED <<lit, notified, pressed, holding>>
    BY Zenon, <1>9 DEF Led!vars, Led!ledVars, Led!button
  <2> QED BY <1>9, <2>1 DEF Led!vars, Led!ledVars, Led!writer, Led!button
<1> QED BY <1>1, <1>2, <1>3, <1>4, <1>5, <1>6, <1>7, <1>8, <1>9
        DEF Led!Next, Led!ButtonTask, Led!BootRestarts

(***************************************************************************)
(* Buzzer: whole patterns.                                                 *)
(***************************************************************************)
Last == steps[Len(steps)]
Whole(s) == s.at = Len(s.of)

\* The order in the queue, and where its end stands while nobody adds to it.
StepOrder ==
    \A i \in 1 .. Len(steps) - 1 :
        IF Whole(steps[i])
        THEN steps[i + 1].at = 1
        ELSE steps[i + 1] = [steps[i] EXCEPT !.at = @ + 1]

StepEnd == steps # <<>> /\ sent = 0 => Whole(Last)

\* Who is queueing a pattern: the end of the queue is how far it came, and
\* there is room for the rest.
SenderInv ==
    sent > 0 =>
        /\ holder \in Caller /\ wanted[holder] \in Patterns
        /\ sent < Len(wanted[holder])
        /\ steps # <<>> => Last = [of |-> wanted[holder], at |-> sent]
        /\ Depth - Len(steps) >= Len(wanted[holder]) - sent

SoundInv == sound => stuck \/ (step # Bz!NoStep /\ Bz!Sounds(step))

BuzzerInv == Bz!TypeOK /\ StepOrder /\ StepEnd /\ SenderInv /\ SoundInv

LEMMA PatternFacts ==
    ASSUME Bz!BuzzerAssumption, NEW p \in Patterns
    PROVE  /\ p # <<>> /\ Len(p) \in Nat /\ Len(p) >= 1
           /\ \A i \in 1 .. Len(p) : [of |-> p, at |-> i] \in Bz!Step
<1>1. p \in Seq(BOOLEAN) /\ p # <<>>
  BY DEF Bz!BuzzerAssumption
<1>2. Len(p) \in Nat /\ DOMAIN p = 1 .. Len(p) /\ Len(p) # 0
  BY <1>1
<1>3. ASSUME NEW i \in 1 .. Len(p) PROVE [of |-> p, at |-> i] \in Bz!Step
  <2>1. [of |-> p, at |-> i] \in {[of |-> p, at |-> j] : j \in DOMAIN p}
    BY <1>2
  <2> QED BY Zenon, <2>1 DEF Bz!Step
<1> QED BY <1>1, <1>2, <1>3

LEMMA StepFacts ==
    ASSUME Bz!BuzzerAssumption, NEW s \in Bz!Step
    PROVE  /\ s.of \in Patterns /\ s.at \in Nat /\ s.at >= 1 /\ s.at <= Len(s.of)
           /\ s = [of |-> s.of, at |-> s.at] /\ s # Bz!NoStep
<1>1. PICK p \in Patterns : \E i \in DOMAIN p : s = [of |-> p, at |-> i]
  BY DEF Bz!Step
<1>2. PICK i \in DOMAIN p : s = [of |-> p, at |-> i]
  BY <1>1
<1>3. p \in Seq(BOOLEAN)
  BY DEF Bz!BuzzerAssumption
<1>4. i \in Nat /\ i >= 1 /\ i <= Len(p)
  BY <1>3
<1> QED BY <1>2, <1>4 DEF Bz!NoStep


\* The callers.
\* What the callers do leaves the player alone.
LEMMA CallerSound ==
    ASSUME SoundInv, UNCHANGED Bz!player
    PROVE  SoundInv'
  BY Zenon DEF SoundInv, Bz!player, Bz!Sounds

LEMMA PlayerTypes ==
    ASSUME Bz!TypeOK, UNCHANGED Bz!player
    PROVE  /\ step' \in Bz!Step \union {Bz!NoStep} /\ bzFaults' \in 0 .. MaxBuzzerFaults
           /\ sound' \in BOOLEAN /\ stuck' \in BOOLEAN
<1>1. sound' \in BOOLEAN /\ stuck' \in BOOLEAN
  BY Zenon DEF Bz!TypeOK, Bz!player
<1>2. step' = step /\ bzFaults' = bzFaults
  BY Zenon DEF Bz!player
<1> QED BY <1>1, <1>2 DEF Bz!TypeOK

LEMMA WaitSteps ==
    ASSUME Bz!BuzzerAssumption, BuzzerInv, NEW c \in Caller,
           Bz!Beep(c) \/ Bz!Takes(c) \/ Bz!Refuses(c)
    PROVE  BuzzerInv'
<1>1. UNCHANGED Bz!player /\ steps' = steps
  BY DEF Bz!Beep, Bz!Takes, Bz!Refuses
<1>2. sent' = sent \/ (sent' = 0 /\ sent = 0)
  BY Zenon DEF Bz!Beep, Bz!Takes, Bz!Refuses, Bz!Unlock
<1>3. sent' = sent /\ sent \in Nat
  BY <1>2 DEF BuzzerInv, Bz!TypeOK
<1>4. Bz!TypeOK'
  <2>1. holder' \in Caller \union {Bz!None} /\ wanted' \in [Caller -> Patterns \union {<<>>}]
    BY DEF Bz!Beep, Bz!Takes, Bz!Refuses, Bz!Unlock, BuzzerInv, Bz!TypeOK
  <2> QED BY <1>1, <1>3, <2>1, PlayerTypes DEF BuzzerInv, Bz!TypeOK
<1>5. StepOrder' /\ StepEnd'
  BY <1>1, <1>3 DEF BuzzerInv, StepOrder, StepEnd, Last
<1>6. SenderInv'
  <2>1. SUFFICES ASSUME sent > 0 PROVE SenderInv'
    BY <1>3 DEF SenderInv
  <2>2. holder \in Caller /\ wanted[holder] # <<>> /\ wanted[holder] \in Patterns
    BY <2>1, PatternFacts DEF BuzzerInv, SenderInv
  <2>3. CASE Bz!Beep(c)
    <3>1. holder' = holder /\ wanted'[holder] = wanted[holder]
      BY <2>2, <2>3 DEF Bz!Beep, BuzzerInv, Bz!TypeOK
    <3> QED BY <1>1, <1>3, <2>1, <3>1 DEF BuzzerInv, SenderInv, Last
  <2>4. CASE Bz!Takes(c)
    BY <2>2, <2>4 DEF Bz!Takes, Bz!BuzzerAssumption
  <2>5. CASE Bz!Refuses(c)
    BY <1>3, <2>1, <2>5 DEF Bz!Refuses, BuzzerInv, Bz!TypeOK
  <2> QED BY <2>3, <2>4, <2>5
<1> QED BY <1>1, <1>4, <1>5, <1>6, CallerSound DEF BuzzerInv

LEMMA SendSteps ==
    ASSUME Bz!BuzzerAssumption, BuzzerInv, NEW c \in Caller, Bz!Enqueues(c)
    PROVE  BuzzerInv'
<1> DEFINE p == wanted[c]
           s == [of |-> wanted[c], at |-> sent + 1]
<1>1. UNCHANGED Bz!player /\ Bz!Sends(c)
  BY DEF Bz!Enqueues
<1>2. holder = c /\ p \in Patterns /\ p # <<>> /\ Len(p) \in Nat /\ Len(p) >= 1 /\ sent \in Nat
  BY <1>1, PatternFacts DEF Bz!Sends, Bz!Inside, BuzzerInv, Bz!TypeOK
<1>3. sent < Len(p) /\ Depth - Len(steps) >= Len(p) - sent
  <2>1. CASE sent = 0
    BY <1>1, <1>2, <2>1 DEF Bz!Sends, Bz!Fits
  <2>2. CASE sent # 0
    BY <1>2, <2>2 DEF BuzzerInv, SenderInv
  <2> QED BY <2>1, <2>2
<1>4. Len(steps) \in Nat /\ Depth \in Nat /\ steps \in Seq(Bz!Step) /\ s \in Bz!Step
  <2>1. sent + 1 \in 1 .. Len(p)
    BY <1>2, <1>3
  <2> QED BY <1>2, <2>1, PatternFacts DEF BuzzerInv, Bz!TypeOK, Bz!BuzzerAssumption
<1>5. steps' = Append(steps, s)
  BY <1>1, <1>2, <1>3, <1>4 DEF Bz!Sends
<1>6. /\ steps' \in Seq(Bz!Step) /\ Len(steps') = Len(steps) + 1 /\ Len(steps') <= Depth
      /\ steps' # <<>> /\ steps'[Len(steps) + 1] = s
      /\ \A i \in 1 .. Len(steps) : steps'[i] = steps[i]
  <2>1. /\ steps' \in Seq(Bz!Step) /\ Len(steps') = Len(steps) + 1
        /\ steps'[Len(steps) + 1] = s
        /\ \A i \in 1 .. Len(steps) : steps'[i] = steps[i]
    BY <1>4, <1>5
  <2>2. Len(steps') <= Depth
    BY <1>2, <1>3, <1>4, <2>1
  <2>3. steps' # <<>>
    BY <1>4, <2>1
  <2> QED BY <2>1, <2>2, <2>3
<1>7. \/ sent + 1 = Len(p) /\ Bz!Unlock(c)
      \/ sent + 1 # Len(p) /\ sent' = sent + 1 /\ holder' = holder /\ wanted' = wanted
  BY <1>1, <1>2, <1>3, <1>4 DEF Bz!Sends
<1>8. Bz!TypeOK'
  <2>1. /\ holder' \in Caller \union {Bz!None} /\ sent' \in Nat
        /\ wanted' \in [Caller -> Patterns \union {<<>>}]
    BY <1>2, <1>7 DEF Bz!Unlock, BuzzerInv, Bz!TypeOK
  <2> QED BY <1>1, <1>6, <2>1, PlayerTypes DEF BuzzerInv, Bz!TypeOK
<1>9. StepOrder'
  <2>1. ASSUME NEW i \in 1 .. Len(steps') - 1, i # Len(steps)
        PROVE  IF Whole(steps'[i]) THEN steps'[i + 1].at = 1
               ELSE steps'[i + 1] = [steps'[i] EXCEPT !.at = @ + 1]
    <3>1. i \in 1 .. Len(steps) - 1 /\ steps'[i] = steps[i] /\ steps'[i + 1] = steps[i + 1]
      BY <1>4, <1>6, <2>1
    <3> QED BY <3>1 DEF BuzzerInv, StepOrder, Whole
  <2>2. ASSUME steps # <<>>
        PROVE  IF Whole(Last) THEN s.at = 1 ELSE s = [Last EXCEPT !.at = @ + 1]
    <3>1. CASE sent = 0
      BY <2>2, <3>1 DEF BuzzerInv, StepEnd
    <3>2. CASE sent # 0
      <4>1. Last = [of |-> p, at |-> sent]
        BY <1>2, <2>2, <3>2 DEF BuzzerInv, SenderInv
      <4> QED BY <1>2, <1>3, <4>1 DEF Whole
    <3> QED BY <3>1, <3>2
  <2>3. ASSUME NEW i \in 1 .. Len(steps') - 1, i = Len(steps)
        PROVE  IF Whole(steps'[i]) THEN steps'[i + 1].at = 1
               ELSE steps'[i + 1] = [steps'[i] EXCEPT !.at = @ + 1]
    <3>1. steps # <<>> /\ steps'[i] = Last /\ steps'[i + 1] = s
      BY <1>4, <1>6, <2>3 DEF Last
    <3> QED BY <2>2, <3>1
  <2> QED BY <2>1, <2>3 DEF StepOrder, Whole
<1>10. StepEnd'
  <2>1. sent' = 0 => sent + 1 = Len(p)
    BY <1>2, <1>7
  <2> QED BY <1>4, <1>6, <2>1 DEF StepEnd, Last, Whole
<1>11. SenderInv'
  <2>1. CASE Bz!Unlock(c)
    BY <2>1 DEF Bz!Unlock, SenderInv
  <2>2. CASE sent + 1 # Len(p) /\ sent' = sent + 1 /\ holder' = holder /\ wanted' = wanted
    BY <1>2, <1>3, <1>4, <1>6, <2>2 DEF SenderInv, Last, Bz!BuzzerAssumption
  <2> QED BY <1>7, <2>1, <2>2
<1> QED BY <1>1, <1>8, <1>9, <1>10, <1>11, CallerSound DEF BuzzerInv


\* The player.
LEMMA PlayerSound ==
    ASSUME Bz!BuzzerAssumption, Bz!TypeOK, SoundInv, Bz!Receives \/ Bz!Plays
    PROVE  SoundInv' /\ sound' \in BOOLEAN /\ stuck' \in BOOLEAN
<1>1. CASE Bz!Receives
  <2> DEFINE s == Head(steps)
  <2>1. s # Bz!NoStep /\ Bz!Sounds(s) \in BOOLEAN
    <3>1. s \in Bz!Step
      BY <1>1 DEF Bz!Receives, Bz!TypeOK
    <3>2. s.of \in Seq(BOOLEAN) /\ s.at \in 1 .. Len(s.of) /\ s # Bz!NoStep
      BY <3>1, StepFacts DEF Bz!BuzzerAssumption
    <3> QED BY <3>2 DEF Bz!Sounds
  <2>2. CASE step' = s /\ Bz!Output(Bz!Sounds(s))
    BY Zenon, <2>1, <2>2 DEF Bz!Output, SoundInv, Bz!Sounds
  <2>3. CASE Bz!OutputFails /\ Bz!Sounds(s) /\ UNCHANGED <<step, stuck>>
    BY Zenon, <1>1, <2>3 DEF Bz!OutputFails, SoundInv, Bz!Receives, Bz!TypeOK
  <2>4. CASE Bz!OutputFails /\ stuck' = sound
    BY Zenon, <2>4 DEF Bz!OutputFails, SoundInv, Bz!TypeOK
  <2> QED BY Zenon, <1>1, <2>2, <2>3, <2>4 DEF Bz!Receives
<1>2. CASE Bz!Plays
  <2>1. CASE Bz!Sounds(step) /\ Bz!Output(FALSE)
    BY Zenon, <2>1 DEF Bz!Output, SoundInv
  <2>2. CASE Bz!Sounds(step) /\ Bz!OutputFails /\ stuck' = sound
    BY Zenon, <2>2 DEF Bz!OutputFails, SoundInv, Bz!TypeOK
  <2>3. CASE ~Bz!Sounds(step) /\ UNCHANGED <<sound, bzFaults, stuck>>
    BY Zenon, <2>3 DEF SoundInv, Bz!TypeOK
  <2> QED BY Zenon, <1>2, <2>1, <2>2, <2>3 DEF Bz!Plays, Bz!Played
<1> QED BY <1>1, <1>2

LEMMA PlayerSteps ==
    ASSUME Bz!BuzzerAssumption, BuzzerInv, Bz!Task
    PROVE  BuzzerInv'
<1>1. SoundInv' /\ sound' \in BOOLEAN /\ stuck' \in BOOLEAN
  BY PlayerSound DEF Bz!Task, BuzzerInv
<1>2. UNCHANGED Bz!callers
  BY DEF Bz!Task, Bz!Receives, Bz!Plays
<1>3. bzFaults' \in 0 .. MaxBuzzerFaults
  <2>1. \/ bzFaults' = bzFaults \/ bzFaults' = 0
        \/ (bzFaults < MaxBuzzerFaults /\ bzFaults' = bzFaults + 1)
    BY Zenon DEF Bz!Task, Bz!Receives, Bz!Plays, Bz!Played, Bz!Output, Bz!OutputFails
  <2> QED BY <2>1 DEF BuzzerInv, Bz!TypeOK, Bz!BuzzerAssumption
<1>4. CASE Bz!Plays
  <2>1. step' = Bz!NoStep /\ steps' = steps
    BY <1>4 DEF Bz!Plays
  <2> QED BY <1>1, <1>2, <1>3, <2>1
       DEF BuzzerInv, Bz!TypeOK, StepOrder, StepEnd, SenderInv, Last, Bz!callers
<1>5. CASE Bz!Receives
  <2>1. steps # <<>> /\ steps' = Tail(steps) /\ steps \in Seq(Bz!Step) /\ Len(steps) \in Nat
    BY <1>5 DEF Bz!Receives, BuzzerInv, Bz!TypeOK
  <2>2. /\ Len(steps') = Len(steps) - 1 /\ steps' \in Seq(Bz!Step)
        /\ \A i \in 1 .. Len(steps') : steps'[i] = steps[i + 1]
    BY <2>1
  <2>3. step' \in Bz!Step \union {Bz!NoStep}
    <3>1. step' = step \/ step' = Head(steps)
      BY Zenon, <1>5 DEF Bz!Receives
    <3> QED BY <2>1, <3>1 DEF BuzzerInv, Bz!TypeOK
  <2>4. Depth \in Nat
    BY DEF Bz!BuzzerAssumption
  <2>5. Bz!TypeOK'
    BY <1>1, <1>2, <1>3, <2>1, <2>2, <2>3, <2>4 DEF BuzzerInv, Bz!TypeOK, Bz!callers
  <2>6. StepOrder'
    <3>1. ASSUME NEW i \in 1 .. Len(steps') - 1
          PROVE  /\ i + 1 \in 1 .. Len(steps) - 1
                 /\ steps'[i] = steps[i + 1] /\ steps'[i + 1] = steps[(i + 1) + 1]
      BY <2>1, <2>2
    <3> QED BY <3>1 DEF BuzzerInv, StepOrder, Whole
  <2>7. steps' # <<>> => Last' = Last
    BY <2>1, <2>2 DEF Last
  <2>8. StepEnd' /\ SenderInv'
    <3>1. sent' = sent /\ holder' = holder /\ wanted' = wanted
      BY <1>2 DEF Bz!callers
    <3>2. StepEnd'
      BY <2>1, <2>7, <3>1 DEF BuzzerInv, StepEnd, Whole
    <3>3. SenderInv'
      <4>1. SUFFICES ASSUME sent > 0 PROVE SenderInv'
        BY <3>1 DEF SenderInv
      <4>2. wanted[holder] \in Patterns /\ Len(wanted[holder]) \in Nat
        BY <4>1, PatternFacts DEF BuzzerInv, SenderInv
      <4> QED BY <2>1, <2>2, <2>4, <2>7, <3>1, <4>1, <4>2 DEF BuzzerInv, SenderInv, Bz!TypeOK
    <3> QED BY <3>2, <3>3
  <2> QED BY <1>1, <2>5, <2>6, <2>8 DEF BuzzerInv
<1> QED BY <1>4, <1>5 DEF Bz!Task

LEMMA BuzzerInit == ASSUME Bz!BuzzerAssumption, Bz!Init PROVE BuzzerInv
<1>1. SoundInv /\ sound \in BOOLEAN /\ stuck \in BOOLEAN
  BY Zenon DEF Bz!Init, SoundInv
<1>2. steps \in Seq(Bz!Step) /\ Len(steps) = 0 /\ steps = <<>>
  BY DEF Bz!Init
<1>3. Bz!TypeOK
  BY <1>1, <1>2 DEF Bz!Init, Bz!TypeOK, Bz!BuzzerAssumption
<1>4. StepOrder /\ StepEnd /\ SenderInv
  BY <1>2 DEF Bz!Init, StepOrder, StepEnd, SenderInv
<1> QED BY <1>1, <1>3, <1>4 DEF BuzzerInv

LEMMA BuzzerKeeps == ASSUME Bz!BuzzerAssumption, BuzzerInv, [Bz!Next]_Bz!vars PROVE BuzzerInv'
<1>1. CASE UNCHANGED Bz!vars
  <2>1. UNCHANGED Bz!player /\ UNCHANGED Bz!callers /\ steps' = steps
    BY <1>1 DEF Bz!vars
  <2>2. SoundInv' /\ sound' \in BOOLEAN /\ stuck' \in BOOLEAN
        /\ step' \in Bz!Step \union {Bz!NoStep} /\ bzFaults' \in 0 .. MaxBuzzerFaults
    BY <1>1, <2>1, CallerSound, PlayerTypes DEF BuzzerInv
  <2> QED BY <1>1, <2>1, <2>2
       DEF BuzzerInv, Bz!TypeOK, StepOrder, StepEnd, SenderInv, Last, Bz!callers
<1> QED BY <1>1, WaitSteps, SendSteps, PlayerSteps DEF Bz!Next, Bz!Calls

(***************************************************************************)
(* The services together.                                                  *)
(***************************************************************************)

\* A step of one service leaves the others' variables alone.
LEMMA OneRuns ==
    ASSUME [Next]_vars
    PROVE  /\ [Boot!Next]_Boot!vars /\ [Mqtt!Next]_Mqtt!vars
           /\ [Display!Next]_Display!vars /\ [Led!Next]_Led!vars
           /\ [Bz!Next]_Bz!vars /\ [Control!Next]_Control!vars
           /\ UNCHANGED service
<1> USE DEF BootStep, MqttStep, DisplayStep, LedStep, BuzzerStep, ControlStep
<1>1. UNCHANGED service
  BY Zenon DEF Next, vars
<1>2. UNCHANGED bootVars \/ Boot!Next
  BY Zenon DEF Next, vars
<1>3. UNCHANGED mqttVars \/ Mqtt!Next
  BY Zenon DEF Next, vars
<1>4. UNCHANGED displayVars \/ Display!Next
  BY Zenon DEF Next, vars
<1>5. UNCHANGED ledVars \/ Led!Next
  BY Zenon DEF Next, vars
<1>6. UNCHANGED buzzerVars \/ Bz!Next
  BY Zenon DEF Next, vars
<1>7. UNCHANGED controlVars \/ Control!Next
  BY Zenon DEF Next, vars
<1>8. [Boot!Next]_Boot!vars
  BY Zenon, <1>2
     DEF bootVars, Boot!vars, Boot!bootVars, Boot!configVars, Boot!slotVars, Boot!otaVars,
         Boot!world
<1>9. [Mqtt!Next]_Mqtt!vars
  BY Zenon, <1>3
     DEF mqttVars, Mqtt!vars, Mqtt!setup, Mqtt!own, Mqtt!event, Mqtt!lib, Mqtt!broker,
         Mqtt!shutdown, Mqtt!counters
<1>10. [Display!Next]_Display!vars
  BY Zenon, <1>4
     DEF displayVars, Display!vars, Display!startVars, Display!drawVars, Display!otaVars
<1>11. [Led!Next]_Led!vars
  BY Zenon, <1>5 DEF ledVars, Led!vars, Led!ledVars, Led!writer, Led!button
<1>12. [Bz!Next]_Bz!vars
  BY Zenon, <1>6 DEF buzzerVars, Bz!vars, Bz!callers, Bz!player
<1>13. [Control!Next]_Control!vars
  <2>1. UNCHANGED Device
    BY DEF Device
  <2> QED BY Zenon, <1>7, <2>1 DEF controlVars, Control!vars, Control!controlVars
<1> QED BY <1>1, <1>8, <1>9, <1>10, <1>11, <1>12, <1>13

LEMMA BootHolds == Spec => []BootInv
<1>1. Init => BootInv
  BY BootInit, FirmwareAssumption DEF Init
<1>2. BootInv /\ [Next]_vars => BootInv'
  BY OneRuns, BootKeeps, FirmwareAssumption
<1> QED BY <1>1, <1>2, PTL DEF Spec

LEMMA ClientHolds == Spec => []ClientInv
<1>1. Init => ClientInv
  BY MqttInit, FirmwareAssumption DEF Init
<1>2. ClientInv /\ [Next]_vars => ClientInv'
  BY OneRuns, MqttKeeps, FirmwareAssumption
<1> QED BY <1>1, <1>2, PTL DEF Spec

LEMMA ReadyHolds == Spec => []ReadyInv
<1>1. Init => ReadyInv
  BY ReadyInit DEF Init
<1>2. ClientInv /\ ReadyInv /\ [Next]_vars => ReadyInv'
  BY OneRuns, ReadyKeeps
<1> QED BY <1>1, <1>2, ClientHolds, PTL DEF Spec

LEMMA DisplayHolds == Spec => []DisplayInv
<1>1. Init => DisplayInv
  BY DisplayInit, FirmwareAssumption DEF Init
<1>2. DisplayInv /\ [Next]_vars => DisplayInv'
  BY OneRuns, DisplayKeeps, FirmwareAssumption
<1> QED BY <1>1, <1>2, PTL DEF Spec

LEMMA ShowHolds == Spec => []ShowInv
<1>1. Init => ShowInv
  BY ShowInit DEF Init
<1>2. DisplayInv /\ ShowInv /\ [Next]_vars => ShowInv'
  BY OneRuns, ShowStep, FirmwareAssumption DEF DisplayInv
<1> QED BY <1>1, <1>2, DisplayHolds, PTL DEF Spec

LEMMA LedHolds == Spec => []LedInv
<1>1. Init => LedInv
  BY LedInit, FirmwareAssumption DEF Init
<1>2. LedInv /\ [Next]_vars => LedInv'
  BY OneRuns, LedKeeps, FirmwareAssumption
<1> QED BY <1>1, <1>2, PTL DEF Spec

LEMMA BuzzerHolds == Spec => []BuzzerInv
<1>1. Init => BuzzerInv
  BY BuzzerInit, FirmwareAssumption DEF Init
<1>2. BuzzerInv /\ [Next]_vars => BuzzerInv'
  BY OneRuns, BuzzerKeeps, FirmwareAssumption
<1> QED BY <1>1, <1>2, PTL DEF Spec

LEMMA ControlHolds == Spec => []Control!Inv
<1>0. Control!ControlAssumption
  BY DEF Control!ControlAssumption, Control!FaultKind, Device
<1>1. Init => Control!Inv
  BY <1>0, Control!InitInv DEF Init
<1>2. Control!Inv /\ [Next]_vars => Control!Inv'
  BY <1>0, OneRuns, Control!InvStep
<1> QED BY <1>1, <1>2, PTL DEF Spec

\* sysload.c, ota.c: wherever an update stops or the power goes, what runs and
\* what boots next is complete and verified, and with rollback an image that
\* was not ready at its first boot does not boot again.
THEOREM BootsOnlyProvenAlways == Spec => []BootsOnlyProven
<1>1. BootInv => BootsOnlyProven
  BY BootIsProven DEF BootsOnlyProven
<1> QED BY BootHolds, <1>1, PTL

\* mqtt.c: while anybody publishes or registers a handler, mqtt_stop has not
\* destroyed the client.
THEOREM ClientOutlivesUsersAlways == Spec => []ClientOutlivesUsers
<1>1. ClientInv => ClientOutlivesUsers
  BY ClientIsKept DEF ClientOutlivesUsers
<1> QED BY ClientHolds, <1>1, PTL

\* mqtt.c: a device says that it is online only when the broker has, or has
\* refused, all its subscriptions, and no message it then gets finds its
\* handler missing.
THEOREM OnlineIsReadyAlways == Spec => OnlineIsReady
<1>1. ClientInv /\ ReadyInv /\ ReadyInv' /\ [Next]_vars
      => [/\ status' = "online" /\ status # "online" =>
                 subscribed = Mqtt!Topic \/ refused
          /\ ~unsupported']_Mqtt!vars
  <2> SUFFICES ASSUME ClientInv, ReadyInv, ReadyInv', [Next]_vars
               PROVE  /\ status' = "online" /\ status # "online" =>
                             subscribed = Mqtt!Topic \/ refused
                      /\ ~unsupported'
    BY Zenon
  <2>1. ~unsupported'
    BY Zenon DEF ReadyInv
  <2>2. [Mqtt!Next]_Mqtt!vars
    BY Zenon, OneRuns
  <2> QED BY Zenon, <2>1, <2>2, OnlineWhenReady
<1> QED BY <1>1, ClientHolds, ReadyHolds, PTL DEF Spec, OnlineIsReady, Mqtt!OnlineIsReady

\* display_service.c: a display that did not start leaves nothing behind, and
\* only after a time-out is anything used that was freed.
THEOREM HeadlessIsSafeAlways == Spec => []HeadlessIsSafe
<1>1. DisplayInv => HeadlessIsSafe
  BY DisplayIsSafe DEF HeadlessIsSafe
<1> QED BY DisplayHolds, <1>1, PTL

\* display_service.c, ota.c: the update that runs is the one on the screen, with
\* its stage, and a failure stays there until its time is over.
THEOREM UpdateIsShownAlways == Spec => UpdateIsShown
<1>1. DisplayInv /\ ShowInv /\ ShowInv' /\ [Next]_vars
      => [/\ ota' \in {"starting", "downloading", "verifying", "rebooting"} =>
                 state'.ota.active /\ state'.ota.stage = ota'
          /\ state.ota.stage = "failed" /\ ~state'.ota.active =>
                 failedFor = MessageTime]_Display!vars
  <2> SUFFICES ASSUME DisplayInv, ShowInv, ShowInv', [Next]_vars
               PROVE  /\ ota' \in {"starting", "downloading", "verifying", "rebooting"} =>
                             state'.ota.active /\ state'.ota.stage = ota'
                      /\ state.ota.stage = "failed" /\ ~state'.ota.active =>
                             failedFor = MessageTime
    BY Zenon
  <2>1. ota' \in {"starting", "downloading", "verifying", "rebooting"} =>
           state'.ota.active /\ state'.ota.stage = ota'
    BY Zenon DEF ShowInv, Under
  <2>2. ScreenInv /\ UpdateInv /\ [Display!Next]_Display!vars
    BY Zenon, OneRuns DEF DisplayInv
  <2> QED BY Zenon, <2>1, <2>2, FailureStays, FirmwareAssumption
<1> QED BY <1>1, DisplayHolds, ShowHolds, PTL DEF Spec, UpdateIsShown, Display!UpdateIsShown

\* display_service.c: whatever was on the screen before, what display_task draws
\* is what the state it has read asks for, nothing of an earlier view left.
THEOREM DrawnIsWantedAlways == ASSUME ReadyIsLast PROVE Spec => Display!DrawnIsWanted
<1>1. Spec => []WidgetInv
  <2>1. Init => WidgetInv
    BY WidgetInit DEF Init
  <2>2. DisplayInv /\ WidgetInv /\ [Next]_vars => WidgetInv'
    BY OneRuns, WidgetStep, FirmwareAssumption DEF DisplayInv
  <2> QED BY <2>1, <2>2, DisplayHolds, PTL DEF Spec
<1>2. DisplayInv /\ WidgetInv /\ [Next]_vars
      => [screenTask = "draw" /\ screenTask' = "flush" =>
             Display!Picture(widgets') = Display!Wanted(state, world)]_Display!vars
  BY OneRuns, DrawingIsWanted DEF DisplayInv
<1> QED BY <1>1, <1>2, DisplayHolds, PTL DEF Spec, Display!DrawnIsWanted

\* status_led.c and the reset button: the blinking of a reset is shown while
\* the button is held, whatever else sets the LED.
THEOREM ResetBlinkMeansHoldAlways == Spec => []ResetBlinkMeansHold
<1>1. LedInv => ResetBlinkMeansHold
  BY DEF LedInv, ResetBlinkMeansHold
<1> QED BY LedHolds, <1>1, PTL

\* buzzer.c: whole patterns, one after the other.
THEOREM PatternsWholeAlways == Spec => []PatternsWhole
<1>1. BuzzerInv => PatternsWhole
  BY DEF BuzzerInv, StepOrder, StepEnd, SoundInv, Bz!PatternsWhole, Whole, Last,
         PatternsWhole
<1> QED BY BuzzerHolds, <1>1, PTL

\* Every service keeps the types of its variables.
THEOREM ServicesTypeOK == Spec => []TypeOK
<1>1. Spec => [](service \in Service)
  <2>1. Init => service \in Service
    BY DEF Init
  <2>2. service \in Service /\ [Next]_vars => (service \in Service)'
    BY OneRuns
  <2> QED BY <2>1, <2>2, PTL DEF Spec
<1>2. /\ BootInv => Boot!TypeOK
      /\ ClientInv => Mqtt!TypeOK
      /\ DisplayInv => Display!TypeOK
      /\ LedInv => Led!TypeOK
      /\ BuzzerInv => Bz!TypeOK
      /\ Control!Inv => Control!TypeOK
  BY BootIsTyped, DisplayIsTyped DEF ClientInv, LedInv, BuzzerInv, Control!Inv
<1>3. /\ service \in Service /\ BootInv /\ ClientInv /\ DisplayInv /\ LedInv
      /\ BuzzerInv /\ Control!Inv
      => TypeOK
  BY <1>2 DEF Service, TypeOK
<1> QED
  BY <1>1, <1>3, BootHolds, ClientHolds, DisplayHolds, LedHolds, BuzzerHolds, ControlHolds, PTL
===============================================================================
