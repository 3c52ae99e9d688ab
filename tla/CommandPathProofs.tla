-------------------------- MODULE CommandPathProofs --------------------------
(***************************************************************************)
(* Proofs about CommandPath, server and device together, for any number of *)
(* commands, flushes, restarts and losses.  What each side guarantees by   *)
(* itself is cited from its own proofs; what is proved here is what        *)
(* travels between them.                                                   *)
(***************************************************************************)
EXTENDS MCCommandPath, CommandQueueProofs, FiniteSetTheorems

DeviceP == INSTANCE CommandDeviceProofs WITH faults <- deviceFaults, MaxFaults <- MaxDeviceFaults

-----------------------------------------------------------------------------
(* Every step of the path is a step of the queue and of the device, or     *)
(* none.                                                                   *)

LEMMA PathIsQueue == ASSUME [PathNext]_pathVars PROVE [Next]_vars
  BY DEF pathVars, PathNext, PromptPathNext, ServerStep, BrokerForwards,
         DeviceProgress, DeviceStep, DeviceReplies, DeviceReceives, DeviceSends,
         DeviceConnects, DeviceDisconnects, DeviceRestarts, TimePassesStep, Next, PromptNext

\* The device's module is instantiated twice, to check and to prove.
LEMMA CacheSetIsOne == \A c, s : Device!CacheSet(c, s) <=> DeviceP!CacheSet(c, s)
  BY DEF Device!CacheSet, DeviceP!CacheSet, Device!Evicted, DeviceP!Evicted,
         Device!Victim, DeviceP!Victim, Device!Entries, DeviceP!Entries,
         Device!OldestIn, DeviceP!OldestIn, Device!Older, DeviceP!Older,
         Device!Cardinality, DeviceP!Cardinality

LEMMA DeviceIsOne ==
    /\ Device!Init <=> DeviceP!Init
    /\ \A c \in Command : Device!Receive(c) <=> DeviceP!Receive(c)
    /\ Device!Claim <=> DeviceP!Claim
    /\ Device!Execute <=> DeviceP!Execute
    /\ Device!Refuse <=> DeviceP!Refuse
    /\ Device!Defer <=> DeviceP!Defer
    /\ Device!QueueFull <=> DeviceP!QueueFull
    /\ Device!AckRx <=> DeviceP!AckRx
    /\ Device!ReplyRx <=> DeviceP!ReplyRx
    /\ Device!Take <=> DeviceP!Take
    /\ Device!Calibrate <=> DeviceP!Calibrate
    /\ Device!AckWorker <=> DeviceP!AckWorker
    /\ Device!ReplyWorker <=> DeviceP!ReplyWorker
    /\ Device!Connect <=> DeviceP!Connect
    /\ Device!Disconnect <=> DeviceP!Disconnect
    /\ Device!PowerLoss <=> DeviceP!PowerLoss
<1> USE DEF Device!Idle, DeviceP!Idle, Device!Listening, DeviceP!Listening,
            Device!cacheVars, DeviceP!cacheVars, Device!observerVars, DeviceP!observerVars,
            Device!Verdict, DeviceP!Verdict, Device!Run, DeviceP!Run,
            Device!ClientUp, DeviceP!ClientUp, Device!Answer, DeviceP!Answer,
            Device!Resetting, DeviceP!Resetting, Device!Fault, DeviceP!Fault,
            Device!Reboot, DeviceP!Reboot
<1>1. Device!Init <=> DeviceP!Init
  BY DEF Device!Init, DeviceP!Init
<1>2. \A c \in Command : Device!Receive(c) <=> DeviceP!Receive(c)
  BY DEF Device!Receive, DeviceP!Receive
<1>3. Device!Claim <=> DeviceP!Claim
  BY CacheSetIsOne DEF Device!Claim, DeviceP!Claim
<1>4. (Device!Execute <=> DeviceP!Execute) /\ (Device!Refuse <=> DeviceP!Refuse)
  BY DEF Device!Execute, DeviceP!Execute, Device!Refuse, DeviceP!Refuse
<1>5. (Device!Defer <=> DeviceP!Defer) /\ (Device!QueueFull <=> DeviceP!QueueFull)
  BY DEF Device!Defer, DeviceP!Defer, Device!QueueFull, DeviceP!QueueFull
<1>6. (Device!AckRx <=> DeviceP!AckRx) /\ (Device!AckWorker <=> DeviceP!AckWorker)
  BY CacheSetIsOne DEF Device!AckRx, DeviceP!AckRx, Device!AckWorker, DeviceP!AckWorker
<1>7. (Device!ReplyRx <=> DeviceP!ReplyRx) /\ (Device!ReplyWorker <=> DeviceP!ReplyWorker)
  BY DEF Device!ReplyRx, DeviceP!ReplyRx, Device!ReplyWorker, DeviceP!ReplyWorker
<1>8. (Device!Take <=> DeviceP!Take) /\ (Device!Calibrate <=> DeviceP!Calibrate)
  BY DEF Device!Take, DeviceP!Take, Device!Calibrate, DeviceP!Calibrate
<1>9. (Device!Connect <=> DeviceP!Connect) /\ (Device!Disconnect <=> DeviceP!Disconnect)
  BY DEF Device!Connect, DeviceP!Connect, Device!Disconnect, DeviceP!Disconnect
<1>10. Device!PowerLoss <=> DeviceP!PowerLoss
  BY DEF Device!PowerLoss, DeviceP!PowerLoss
<1> QED BY <1>1, <1>2, <1>3, <1>4, <1>5, <1>6, <1>7, <1>8, <1>9, <1>10

-----------------------------------------------------------------------------
(* What travels between server and device.                                 *)

WireInv ==
    /\ wire \in Seq(Command)
    /\ replies \subseteq Message
    /\ effects \subseteq Command

LEMMA PathIsDevice ==
    ASSUME WireInv, [PathNext]_pathVars
    PROVE  [DeviceP!Next]_DeviceP!vars
<1> USE DEF DeviceP!Next, DeviceP!RxStep, DeviceP!WorkerStep
<1>1. CASE UNCHANGED deviceVars
  BY <1>1 DEF deviceVars, DeviceP!vars
<1>2. CASE \/ DeviceStep \/ DeviceReplies \/ DeviceConnects \/ DeviceDisconnects
           \/ DeviceRestarts
  BY <1>2, DeviceIsOne
     DEF DeviceStep, DeviceReplies, DeviceConnects, DeviceDisconnects, DeviceRestarts
<1>3. CASE DeviceReceives
  <2>1. Head(wire) \in Command
    BY <1>3 DEF DeviceReceives, WireInv
  <2> QED BY <1>3, <2>1, DeviceIsOne DEF DeviceReceives
<1> QED
  BY <1>1, <1>2, <1>3
     DEF pathVars, PathNext, PromptPathNext, DeviceProgress,
         ServerStep, BrokerForwards, DeviceSends, TimePassesStep

LEMMA DeviceHolds == DeviceP!DeviceAssumption
<1>1. IsFiniteSet(Command)
  BY FS_Interval, QueueAssumption DEF Command
<1>2. DeviceP!IsFiniteSet(Command)
  BY <1>1 DEF IsFiniteSet, DeviceP!IsFiniteSet
<1> QED BY <1>2, PathAssumption DEF DeviceP!DeviceAssumption

LEMMA DeviceTasks ==
    ASSUME DeviceP!TypeOK
    PROVE  /\ rx.pc # "idle" =>
                /\ rx.cmd \in Command /\ rx.status \in {"done", "error"}
                /\ rx \in [pc : {"claim", "dispatch", "ack", "reply"}, cmd : Command,
                           status : {"done", "error"}]
           /\ worker.pc # "idle" =>
                /\ worker.cmd \in Command /\ worker.status \in {"done", "error"}
                /\ worker \in [pc : {"run", "ack", "reply"}, cmd : Command,
                               status : {"done", "error"}]
           /\ queue # <<>> => Head(queue) \in Command
<1>1. queue # <<>> => Head(queue) \in Command
  BY PathAssumption DEF DeviceP!TypeOK
<1> QED BY <1>1 DEF DeviceP!TypeOK, DeviceP!Task, DeviceP!Verdict

LEMMA WireStep ==
    ASSUME TypeOK, DeviceP!TypeOK, WireInv, [PathNext]_pathVars
    PROVE  WireInv'
<1> USE DEF WireInv
<1>1. CASE UNCHANGED <<wire, replies, effects>>
  BY <1>1
<1>2. CASE DeviceStep
  BY <1>2 DEF DeviceStep
<1>3. CASE DeviceReplies
  <2>1. PICK t \in {rx, worker} : t.pc = "reply" /\ Reply(t) /\ UNCHANGED <<wire, effects>>
    BY <1>3 DEF DeviceReplies, Device!ReplyRx, Device!ReplyWorker
  <2>2. [kind |-> t.status, cmd |-> t.cmd] \in Message
    BY <2>1, DeviceTasks DEF Message
  <2> QED BY <2>1, <2>2 DEF Reply
<1>4. CASE DeviceReceives
  BY <1>4 DEF DeviceReceives
<1>5. CASE DeviceConnects
  BY <1>5 DEF DeviceConnects, Message
<1>6. CASE DeviceDisconnects \/ DeviceRestarts
  <2>1. wire' = <<>> /\ replies' \subseteq replies /\ UNCHANGED effects
    BY <1>6 DEF DeviceDisconnects, DeviceRestarts
  <2> QED BY <2>1
<1>7. CASE BrokerForwards
  <2>1. Sent.cmd \in Command
    BY <1>7, SentType DEF BrokerForwards, Transmit, TransmitUnacknowledged
  <2> QED BY <1>7, <2>1 DEF BrokerForwards, Forward
<1>8. ASSUME NEW m \in Message, DeviceSends(m) PROVE WireInv'
  BY <1>8 DEF DeviceSends
<1> QED
  BY <1>1, <1>2, <1>3, <1>4, <1>5, <1>6, <1>7, <1>8
     DEF pathVars, PathNext, PromptPathNext, DeviceProgress,
         ServerStep, TimePassesStep

\* Wherever a device says that a command is done, the command was executed: in
\* its handler or task, in its cache, in its outbox, at the broker, and in the
\* row the server keeps of it.
Claims(t) == t.pc \in {"ack", "reply"} /\ t.status = "done"

DeviceClaims ==
    /\ \A c \in Command : runs[c] > 0 \/ tracked[c] = "done" => c \in effects
    /\ Claims(rx) => rx.cmd \in effects
    /\ worker.pc # "idle" => worker.cmd \in effects

MessageClaims ==
    /\ \A m \in replies : m.kind = "done" => m.cmd \in effects
    /\ \A i \in 1 .. Len(inbound) : inbound[i].kind = "done" => inbound[i].cmd \in effects

RowClaims == \A c \in Command : status[c] = "done" => c \in effects

\* Nothing in this composition resets the device to its factory state.
PathInv ==
    /\ WireInv
    /\ reset = "none"
    /\ DeviceClaims /\ MessageClaims /\ RowClaims

LEMMA EffectsStay == ASSUME [PathNext]_pathVars PROVE effects \subseteq effects'
  BY DEF pathVars, PathNext, PromptPathNext, ServerStep, BrokerForwards,
         DeviceProgress, DeviceStep, DeviceReplies, DeviceReceives, DeviceSends,
         DeviceConnects, DeviceDisconnects, DeviceRestarts, TimePassesStep

LEMMA DeviceClaimsStep ==
    ASSUME DeviceP!TypeOK, WireInv, DeviceClaims, [PathNext]_pathVars
    PROVE  DeviceClaims'
<1> USE EffectsStay DEF DeviceClaims, Claims
<1>0. /\ tracked \in [Command -> {"empty", "pending", "done", "error"}]
      /\ runs \in [Command -> 0 .. 2]
  BY DEF DeviceP!TypeOK, DeviceP!EntryState
<1>1. CASE UNCHANGED <<rx, tracked, worker, runs>>
  BY <1>1
<1>2. CASE DeviceStep
  <2> DEFINE E == effects
  <2>1. effects' = effects \cup {c \in Command : runs'[c] > runs[c]}
    BY <1>2 DEF DeviceStep
  <2>2. ASSUME NEW c \in Command, Device!Run(c) PROVE c \in effects'
    BY <1>0, <2>1, <2>2 DEF Device!Run
  <2>3. ASSUME NEW c \in Command, Device!Run(c) \/ UNCHANGED runs, NEW d \in Command, runs'[d] > 0
        PROVE  d \in effects'
    BY <1>0, <2>1, <2>3 DEF Device!Run
  <2>10. CASE Device!Claim
    BY <1>0, <2>10, DeviceTasks DEF Device!Claim, Device!CacheSet, Device!observerVars
  <2>11. CASE Device!Execute
    BY <2>2, <2>3, <2>11, DeviceTasks DEF Device!Execute, Device!cacheVars
  <2>12. CASE Device!Refuse \/ Device!QueueFull
    BY <2>12, DeviceTasks DEF Device!Refuse, Device!QueueFull, Device!cacheVars, Device!observerVars
  <2>13. CASE Device!Defer
    BY <2>13, DeviceTasks DEF Device!Defer, Device!cacheVars, Device!observerVars, Device!Idle
  <2>14. CASE Device!AckRx
    BY <1>0, <2>14, DeviceTasks DEF Device!AckRx, Device!CacheSet, Device!observerVars
  <2>15. CASE Device!Take
    BY <2>2, <2>3, <2>15, DeviceTasks DEF Device!Take, Device!cacheVars
  <2>16. CASE Device!Calibrate
    BY <2>16, DeviceTasks DEF Device!Calibrate, Device!cacheVars, Device!observerVars, Device!Idle
  <2>17. CASE Device!AckWorker
    BY <1>0, <2>17, DeviceTasks DEF Device!AckWorker, Device!CacheSet, Device!observerVars
  <2> QED
    BY <1>2, <2>10, <2>11, <2>12, <2>13, <2>14, <2>15, <2>16, <2>17 DEF DeviceStep
<1>3. CASE DeviceReplies
  BY <1>3 DEF DeviceReplies, Device!ReplyRx, Device!ReplyWorker, Device!cacheVars, Device!Idle
<1>4. CASE DeviceReceives
  <2>1. Head(wire) \in Command
    BY <1>4 DEF DeviceReceives, WireInv
  <2>2. /\ UNCHANGED <<tracked, worker, runs>>
        /\ rx'.pc = "ack" => rx'.cmd \in Command /\ rx'.status = tracked[rx'.cmd]
        /\ rx'.pc # "reply"
    BY <1>4, <2>1 DEF DeviceReceives, Device!Receive, Device!cacheVars, Device!observerVars,
                      Device!Idle
  <2> QED BY <2>2
<1>5. CASE DeviceRestarts
  BY <1>5 DEF DeviceRestarts, Device!PowerLoss, Device!Reboot, Device!Idle
<1>6. CASE DeviceConnects \/ DeviceDisconnects
  BY <1>1, <1>6 DEF DeviceConnects, DeviceDisconnects, Device!Connect, Device!Disconnect,
                    Device!cacheVars, Device!observerVars
<1> QED
  BY <1>1, <1>2, <1>3, <1>4, <1>5, <1>6
     DEF pathVars, deviceVars, PathNext, PromptPathNext, DeviceProgress,
         ServerStep, BrokerForwards, DeviceSends, TimePassesStep

\* The queue's own steps add nothing to what the bridge has still to handle.
LEMMA InboundShrinks ==
    ASSUME HandlerInv, ServerStep \/ TimePassesStep \/ BrokerForwards
    PROVE  UNCHANGED inbound \/ (inbound # <<>> /\ inbound' = Tail(inbound))
<1>1. CASE HandlerStep \/ ResponseFails
  BY <1>1 DEF HandlerStep, PromoteResponse, SettleResponse, IgnoreResponse, AnnounceVerdict,
       StatusOnline, StatusFlushed, ResponseFails, Acknowledge, HandlerInv
<1>2. CASE \E f \in Flusher : FlusherStep(f) \/ FlusherFails(f)
  BY <1>2 DEF FlusherStep, Lock, FlushEmpty, FlushExpired, Dispatch, FlushOnLostSession,
       Publish, PublishRejected, PublishDone, Revert, AnnounceRequeued, Unlock,
       FlusherFails, FlushRollsBack, SessionLost, PublishTimesOut, RevertFails
<1> QED
  BY <1>1, <1>2
     DEF ServerStep, TimePassesStep, BrokerForwards, ServerNext, Enqueue, RequestStep,
         AnnounceEnqueued, StartFlush, RequestFails, BridgeDown, BridgeReady, ServerCrash,
         Sweep, Transmit, TransmitUnacknowledged, Ages, CreatedAges, SentAges

LEMMA MessageClaimsStep ==
    ASSUME TypeOK, HandlerInv, DeviceP!TypeOK, DeviceClaims, MessageClaims,
           [PathNext]_pathVars
    PROVE  MessageClaims'
<1> USE EffectsStay DEF MessageClaims
<1>0. Len(inbound) \in Nat
  BY DEF TypeOK
<1>1. CASE UNCHANGED <<replies, inbound>>
  BY <1>1
<1>2. CASE UNCHANGED replies /\ (ServerStep \/ TimePassesStep \/ BrokerForwards)
  <2>1. UNCHANGED inbound \/ (inbound # <<>> /\ inbound' = Tail(inbound))
    BY <1>2, InboundShrinks
  <2>2. CASE inbound # <<>> /\ inbound' = Tail(inbound)
    <3>1. Len(inbound') = Len(inbound) - 1
          /\ \A i \in 1 .. Len(inbound') :
                i + 1 \in 1 .. Len(inbound) /\ inbound'[i] = inbound[i + 1]
      BY <2>2 DEF TypeOK
    <3> QED BY <1>2, <3>1
  <2> QED BY <1>1, <1>2, <2>1, <2>2
<1>3. CASE DeviceReplies
  <2>1. PICK t \in {rx, worker} :
            /\ t.pc = "reply" /\ Reply(t) /\ UNCHANGED inbound
            /\ t.status = "done" => t.cmd \in effects
    BY <1>3 DEF DeviceReplies, Device!ReplyRx, Device!ReplyWorker, DeviceClaims, Claims, vars
  <2> QED BY <2>1 DEF Reply
<1>4. CASE DeviceConnects
  BY <1>4 DEF DeviceConnects, vars
<1>5. CASE DeviceRestarts
  BY <1>5 DEF DeviceRestarts, vars
<1>6. ASSUME NEW m \in Message, DeviceSends(m) PROVE MessageClaims'
  <2>1. m \in replies /\ replies' \subseteq replies /\ inbound' = Append(inbound, m)
    BY <1>6 DEF DeviceSends, DeviceMessage
  <2>2. /\ Len(inbound') = Len(inbound) + 1 /\ inbound'[Len(inbound) + 1] = m
        /\ \A i \in 1 .. Len(inbound) : inbound'[i] = inbound[i]
    BY <2>1 DEF TypeOK
  <2> QED BY <1>0, <2>1, <2>2
<1> QED
  BY <1>1, <1>2, <1>3, <1>4, <1>5, <1>6
     DEF pathVars, vars, PathNext, PromptPathNext, DeviceProgress, DeviceStep,
         DeviceReceives, DeviceDisconnects, ServerStep, TimePassesStep, BrokerForwards

\* Only the answer at the front of the bridge's messages makes a row done.
LEMMA DoneIsAnswered ==
    ASSUME TypeOK, HandlerInv, [Next]_vars, NEW c \in Command,
           status'[c] = "done", status[c] # "done"
    PROVE  inbound # <<>> /\ Current.cmd = c /\ Current.kind = "done"
<1> USE DEF TypeOK, SetStatus
<1>1. SettleResponse
  <2>1. CASE \E f \in Flusher : Revert(f)
    BY <2>1 DEF Revert, rowVars
  <2>2. CASE \E f \in Flusher, d \in Command : FlushExpired(f, d) \/ Dispatch(f, d)
    BY <2>2 DEF FlushExpired, Dispatch
  <2>3. CASE \E d \in Command : Enqueue(d)
    BY <2>3 DEF Enqueue
  <2>4. CASE PromoteResponse
    BY <2>4 DEF PromoteResponse
  <2>5. CASE Sweep
    BY <2>5 DEF Sweep
  <2> QED
    BY <2>1, <2>2, <2>3, <2>4, <2>5
       DEF Next, PromptNext, ServerNext, vars, rowVars, bridgeVars,
         RequestStep, AnnounceEnqueued, StartFlush, RequestFails,
         FlusherStep, Lock, FlushEmpty, FlushOnLostSession,
         Publish, PublishRejected, PublishDone, AnnounceRequeued, Unlock,
         FlusherFails, FlushRollsBack, SessionLost, PublishTimesOut, RevertFails,
         BridgeDown, BridgeReady, ServerCrash, HandlerStep,
         IgnoreResponse, AnnounceVerdict, StatusOnline, StatusFlushed,
         ResponseFails, Transmit, TransmitUnacknowledged,
         DeviceMessage, Ages, CreatedAges, SentAges
<1> QED BY <1>1, HandlerReads DEF SettleResponse, HandlerInv

LEMMA RowClaimsStep ==
    ASSUME TypeOK, HandlerInv, MessageClaims, RowClaims, [PathNext]_pathVars
    PROVE  RowClaims'
<1>1. SUFFICES ASSUME NEW c \in Command, status'[c] = "done" PROVE c \in effects
  BY EffectsStay DEF RowClaims
<1>2. CASE status[c] = "done"
  BY <1>2 DEF RowClaims
<1>3. CASE status[c] # "done"
  <2>1. inbound # <<>> /\ Current.cmd = c /\ Current.kind = "done"
    BY <1>1, <1>3, PathIsQueue, DoneIsAnswered
  <2>2. 1 \in 1 .. Len(inbound) /\ Current = inbound[1]
    BY <2>1 DEF TypeOK, Current
  <2> QED BY <2>1, <2>2 DEF MessageClaims
<1> QED BY <1>2, <1>3

LEMMA ResetStays == ASSUME reset = "none", [PathNext]_pathVars PROVE reset' = "none"
<1>1. CASE UNCHANGED reset
  BY <1>1
<1>2. CASE DeviceStep
  BY <1>2 DEF DeviceStep, Device!Claim, Device!Execute, Device!Refuse, Device!Defer,
     Device!QueueFull, Device!AckRx, Device!Take, Device!Calibrate, Device!AckWorker
<1>3. CASE DeviceReplies \/ DeviceReceives \/ DeviceConnects \/ DeviceDisconnects \/ DeviceRestarts
  BY <1>3 DEF DeviceReplies, Device!ReplyRx, Device!ReplyWorker, DeviceReceives, Device!Receive,
     DeviceConnects, Device!Connect, DeviceDisconnects, Device!Disconnect, DeviceRestarts,
     Device!PowerLoss, Device!Reboot
<1> QED
  BY <1>1, <1>2, <1>3
     DEF pathVars, deviceVars, PathNext, PromptPathNext, DeviceProgress,
         ServerStep, BrokerForwards, DeviceSends, TimePassesStep

-----------------------------------------------------------------------------
(* The theorems.                                                           *)

LEMMA PathInvInit == ASSUME PathInit PROVE Inv /\ DeviceP!TypeOK /\ PathInv
<1> USE DEF PathInit
<1>1. WireInv
  BY DEF WireInv
<1>2. reset = "none" /\ DeviceClaims
  BY DEF Device!Init, Device!Idle, DeviceClaims, Claims
<1>3. MessageClaims /\ RowClaims
  BY DEF Init, MessageClaims, RowClaims
<1>4. DeviceP!TypeOK
  BY DeviceHolds, DeviceIsOne, DeviceP!InitInv
<1> QED BY <1>1, <1>2, <1>3, <1>4, InvInit DEF PathInv

LEMMA PathInvStep ==
    ASSUME Inv, DeviceP!TypeOK, PathInv, [PathNext]_pathVars
    PROVE  Inv' /\ DeviceP!TypeOK' /\ PathInv'
<1>1. Inv'
  BY PathIsQueue, InvStep
<1>2. DeviceP!TypeOK'
  BY DeviceHolds, PathIsDevice, DeviceP!TypeStep DEF PathInv
<1>3. WireInv' /\ reset' = "none"
  BY WireStep, ResetStays DEF PathInv, Inv
<1>4. DeviceClaims' /\ MessageClaims' /\ RowClaims'
  BY DeviceClaimsStep, MessageClaimsStep, RowClaimsStep DEF PathInv, Inv
<1> QED BY <1>1, <1>2, <1>3, <1>4 DEF PathInv

LEMMA ClaimsAreTrue == Inv /\ PathInv => DoneMeansExecuted
  BY DEF Inv, VerdictMatchesRow, PathInv, RowClaims, DoneMeansExecuted

LEMMA PathInvariance == PathSpec => [](Inv /\ DeviceP!TypeOK /\ PathInv)
  BY PathInvInit, PathInvStep, PTL DEF PathSpec

\* What the server calls done was executed by the device, for any number of
\* commands, however many publishes, answers and acknowledgements are repeated
\* or lost, and wherever the device or the server restarts.
THEOREM PathDoneMeansExecuted == PathSpec => []DoneMeansExecuted
  BY ClaimsAreTrue, PathInvariance, PTL

\* ... and so in the instance that the run checks, which also has the server
\* alone, before a device that sends what it likes.
THEOREM DoneMeansExecutedAlways == CaseSpec => []DeviceDoneMeansExecuted
<1> DEFINE CaseInv == case = "path" => Inv /\ DeviceP!TypeOK /\ PathInv
<1>1. CaseInit => CaseInv
  BY PathInvInit DEF CaseInit
<1>2. CaseInv /\ [CaseNext]_<<pathVars, case>> => CaseInv'
  <2> SUFFICES ASSUME CaseInv, [CaseNext]_<<pathVars, case>>, case' = "path" PROVE CaseInv'
    OBVIOUS
  <2>1. case = "path" /\ [PathNext]_pathVars
    BY DEF CaseNext
  <2> QED BY <2>1, PathInvStep
<1>3. CaseInv => DeviceDoneMeansExecuted
  BY ClaimsAreTrue DEF DeviceDoneMeansExecuted
<1> QED BY <1>1, <1>2, <1>3, PTL DEF CaseSpec

\* A device whose cache has room for the server's commands runs none of them
\* twice before it restarts, however often the server publishes them.
THEOREM RepeatsRunOnceAlways ==
    ASSUME Cardinality(Command) <= CacheSize
    PROVE  PathSpec => []RepeatsRunOnce
<1>1. PathSpec => DeviceP!Spec
  <2>1. PathInit => DeviceP!Init
    BY DeviceIsOne DEF PathInit
  <2>2. PathInv /\ [PathNext]_pathVars => [DeviceP!Next]_DeviceP!vars
    BY PathIsDevice DEF PathInv
  <2> QED BY <2>1, <2>2, PathInvariance, PTL DEF PathSpec, DeviceP!Spec
<1>2. DeviceP!Spec => []DeviceP!RunsOnce
  BY DeviceHolds, DeviceP!RunsOnceAlways
<1>3. PathInv /\ DeviceP!RunsOnce => RepeatsRunOnce
  BY DEF PathInv, DeviceP!RunsOnce, DeviceP!ClientUp, RepeatsRunOnce,
         DeviceP!Cardinality, Cardinality
<1> QED BY <1>1, <1>2, <1>3, PathInvariance, PTL

=============================================================================
