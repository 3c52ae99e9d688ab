------------------------- MODULE CommandQueueProofs -------------------------
(***************************************************************************)
(* Proofs about CommandQueue, for any number of commands, flushes, faults  *)
(* and messages.  Inv is the inductive invariant: next to the type         *)
(* invariant it says what the bridge's handler and each flush have in hand *)
(* between two of their statements.                                        *)
(***************************************************************************)
EXTENDS CommandQueue, SequenceTheorems, TLAPS

\* A handler between its statements has the response it works for in front,
\* and once it has settled the row, the row keeps the verdict.
HandlerInv ==
    /\ handler # "idle" => inbound # <<>>
    /\ handler \in {"settle", "announce"} => Current.kind \in {"done", "error"}
    /\ handler = "announce" => status[Current.cmd] = Current.kind

\* A flush between dispatch and the next selection has a command in hand.
FlusherInv ==
    \A f \in Flusher :
        flusher[f].pc \in {"publish", "await", "acked", "revert", "requeued"} =>
            flusher[f].cmd \in Command

\* The bridge's flush runs only while its status handler awaits it.
BridgeInv == handler # "flush" => flusher[Bridge].pc = "idle"

\* A publish that somebody waits for is the only one of its flush.
OutboxInv ==
    \A i \in DOMAIN outbox : outbox[i].by \in Flusher =>
        /\ flusher[outbox[i].by].pc = "await"
        /\ \A j \in DOMAIN outbox : outbox[j].by = outbox[i].by => j = i

Inv ==
    /\ TypeOK
    /\ HandlerInv
    /\ FlusherInv
    /\ BridgeInv
    /\ OutboxInv
    /\ VerdictMatchesRow

-----------------------------------------------------------------------------
(* Types.                                                                  *)

LEMMA ProgressMoves ==
    \A r \in Progress, pc \in FlusherPc : [r EXCEPT !.pc = pc] \in Progress
  BY DEF Progress

LEMMA FlusherMoves ==
    ASSUME flusher \in [Flusher -> Progress], NEW f \in Flusher, NEW pc \in FlusherPc
    PROVE  /\ Goto(f, pc) => flusher' \in [Flusher -> Progress]
           /\ Return(f) => flusher' \in [Flusher -> Progress]
<1>1. Goto(f, pc) => flusher' \in [Flusher -> Progress]
  BY ProgressMoves DEF Goto
<1>2. Idle \in Progress
  BY DEF Idle, Progress, FlusherPc
<1>3. Return(f) => flusher' \in [Flusher -> Progress]
  BY <1>2 DEF Return
<1> QED BY <1>1, <1>3

LEMMA RowMoves ==
    ASSUME TypeOK, NEW c \in Command
    PROVE  /\ \A s \in Status : SetStatus(c, s) => status' \in [Command -> Status]
           /\ \A s \in Terminal :
                 Announce(c, s) => ended' \in [Command -> SUBSET Terminal]
  BY DEF TypeOK, SetStatus, Announce

LEMMA FaultType == TypeOK /\ Fault => faults' \in 0 .. MaxFaults
  BY QueueAssumption DEF TypeOK, Fault

\* What a handler between two statements reads and acknowledges.
LEMMA HandlerReads ==
    ASSUME TypeOK, HandlerInv, handler # "idle"
    PROVE  /\ Tail(inbound) \in Seq(Message)
           /\ handler \in {"settle", "announce"} =>
                Current.cmd \in Command /\ Current.kind \in {"done", "error"}
<1>1. inbound \in Seq(Message) /\ inbound # <<>>
  BY DEF TypeOK, HandlerInv
<1>2. Current \in Message /\ Tail(inbound) \in Seq(Message)
  BY <1>1 DEF Current
<1> QED BY <1>2 DEF HandlerInv, Message

\* A publish that loses its waiter stays in the outbox.
LEMMA OutboxType ==
    ASSUME TypeOK, NEW f \in Flusher, PublishTimesOut(f)
    PROVE  outbox' \in Seq(Publication)
<1> DEFINE e(i) == IF outbox[i].by = f THEN [outbox[i] EXCEPT !.by = NoFlusher]
                                       ELSE outbox[i]
<1>1. /\ Len(outbox) \in Nat
      /\ DOMAIN outbox = 1 .. Len(outbox)
      /\ outbox \in [1 .. Len(outbox) -> Publication]
  BY LenProperties DEF TypeOK
<1>2. \A p \in Publication : [p EXCEPT !.by = NoFlusher] \in Publication
  BY DEF Publication
<1>3. \A i \in 1 .. Len(outbox) : e(i) \in Publication
  BY <1>1, <1>2
<1>4. outbox' = [i \in 1 .. Len(outbox) |-> e(i)]
  BY <1>1 DEF PublishTimesOut
<1> HIDE DEF e
<1>5. outbox' \in [1 .. Len(outbox) -> Publication]
  BY <1>3, <1>4
<1> QED BY <1>1, <1>5 DEF Seq

\* What the client transmits next.
LEMMA SentType ==
    ASSUME TypeOK, outbox # <<>>
    PROVE  Sent \in Publication /\ Sent.cmd \in Command /\ Tail(outbox) \in Seq(Publication)
<1>1. outbox \in Seq(Publication)
  BY DEF TypeOK
<1>2. Sent \in Publication /\ Tail(outbox) \in Seq(Publication)
  BY <1>1, HeadTailProperties DEF Sent
<1> QED BY <1>2 DEF Publication

LEMMA TypeInit == Init => TypeOK
  BY QueueAssumption DEF Init, TypeOK, Idle, Progress, FlusherPc, Flusher, Status

LEMMA TypeStep ==
    ASSUME TypeOK, HandlerInv, FlusherInv, [Next]_vars
    PROVE  TypeOK'
<1> USE FlusherMoves, RowMoves, FaultType, HandlerReads
    DEF TypeOK, FlusherPc, Status, Terminal, rowVars, bridgeVars
<1>1. CASE UNCHANGED vars
  BY <1>1 DEF vars
<1>2. CASE \E c \in Command : Enqueue(c) \/ RequestStep(c) \/ RequestFails(c)
  <2>1. CASE \E c \in Command : Enqueue(c)
    BY <2>1 DEF Enqueue
  <2>2. CASE \E c \in Command : AnnounceEnqueued(c) \/ RequestFails(c)
    BY <2>2 DEF AnnounceEnqueued, RequestFails
  <2>3. CASE \E c \in Command, f \in Worker : StartFlush(c, f)
    BY <2>3 DEF StartFlush, Flusher
  <2> QED BY <1>2, <2>1, <2>2, <2>3 DEF RequestStep
<1>3. ASSUME NEW f \in Flusher, FlusherStep(f)
      PROVE  TypeOK'
  <2>1. CASE Lock(f) \/ FlushEmpty(f) \/ FlushOnLostSession(f) \/ Unlock(f)
    BY <2>1 DEF Lock, FlushEmpty, FlushOnLostSession, Unlock, Selecting
  <2>2. CASE \E c \in Command : FlushExpired(f, c)
    BY <2>2 DEF FlushExpired
  <2>6. CASE \E c \in Command : Dispatch(f, c)
    <3>1. \A c \in Command : [pc |-> "publish", cmd |-> c] \in Progress
      BY DEF Progress
    <3> QED BY <2>6, <3>1 DEF Dispatch
  <2>3. CASE Publish(f)
    BY <2>3 DEF Publish, FlusherInv, Publication, Progress
  <2>4. CASE PublishRejected(f) \/ PublishDone(f)
    BY <2>4 DEF PublishRejected, PublishDone
  <2>5. CASE Revert(f) \/ AnnounceRequeued(f)
    BY <2>5 DEF Revert, AnnounceRequeued, FlusherInv
  <2> QED BY <1>3, <2>1, <2>2, <2>3, <2>4, <2>5, <2>6 DEF FlusherStep
<1>4. ASSUME NEW f \in Flusher, FlusherFails(f)
      PROVE  TypeOK'
  <2>1. CASE FlushRollsBack(f) \/ SessionLost(f) \/ RevertFails(f)
    BY <2>1 DEF FlushRollsBack, SessionLost, RevertFails, Selecting
  <2>2. CASE PublishTimesOut(f)
    BY <2>2, OutboxType DEF PublishTimesOut
  <2> QED BY <1>4, <2>1, <2>2 DEF FlusherFails
<1>5. CASE BridgeDown \/ BridgeReady
  BY <1>5 DEF BridgeDown, BridgeReady
<1>11. CASE ServerCrash
  <2>1. flusher' \in [Flusher -> Progress]
    BY <1>11 DEF ServerCrash, Idle, Progress
  <2>2. request' \in [Command -> {"none", "announce", "flush", "returned"}]
    BY <1>11 DEF ServerCrash
  <2>3. outbox' \in Seq(Publication)
    BY <1>11 DEF ServerCrash
  <2> QED BY <1>11, <2>1, <2>2, <2>3 DEF ServerCrash
<1>6. CASE HandlerStep \/ ResponseFails
  <2>1. CASE PromoteResponse
    BY <2>1 DEF PromoteResponse, Current
  <2>2. CASE SettleResponse
    BY <2>2 DEF SettleResponse
  <2>3. CASE IgnoreResponse
    BY <2>3 DEF IgnoreResponse, Acknowledge
  <2>4. CASE AnnounceVerdict
    BY <2>4 DEF AnnounceVerdict, Acknowledge
  <2>5. CASE StatusOnline
    BY <2>5 DEF StatusOnline, Flusher
  <2>6. CASE StatusFlushed
    BY <2>6 DEF StatusFlushed, Acknowledge
  <2>7. CASE ResponseFails
    BY <2>7 DEF ResponseFails
  <2> QED BY <1>6, <2>1, <2>2, <2>3, <2>4, <2>5, <2>6, <2>7 DEF HandlerStep
<1>7. CASE Sweep
  BY <1>7 DEF Sweep
<1>8. CASE Transmit \/ TransmitUnacknowledged
  <2>1. CASE Transmit
    <3>1. flusher' \in [Flusher -> Progress]
      BY <2>1, ProgressMoves DEF Transmit
    <3> QED BY <2>1, <3>1, SentType DEF Transmit
  <2>2. CASE TransmitUnacknowledged
    BY <2>2, SentType DEF TransmitUnacknowledged
  <2> QED BY <1>8, <2>1, <2>2
<1>9. CASE \E m \in Message : DeviceMessage(m)
  BY <1>9 DEF DeviceMessage
<1>10. CASE \E c \in Command : Ages(c)
  <2>1. CASE \E c \in Command : CreatedAges(c)
    BY <2>1 DEF CreatedAges
  <2>2. CASE \E c \in Command : SentAges(c)
    BY <2>2 DEF SentAges
  <2> QED BY <1>10, <2>1, <2>2 DEF Ages
<1> QED
  BY <1>1, <1>2, <1>3, <1>4, <1>5, <1>6, <1>7, <1>8, <1>9, <1>10, <1>11
     DEF Next, PromptNext, ServerNext

-----------------------------------------------------------------------------
(* Every step of the queue is a step of the lifecycle, or none.            *)

LEMMA LifecycleInit == Init => Lifecycle!Init
  BY DEF Init, Lifecycle!Init

LEMMA LifecycleStep ==
    ASSUME TypeOK, HandlerInv, [Next]_vars
    PROVE  [Lifecycle!Next]_<<status, ended>>
<1> USE DEF rowVars
<1> DEFINE Same == UNCHANGED <<status, ended>>
<1>1. CASE UNCHANGED vars
  BY <1>1 DEF vars
<1>2. ASSUME NEW c \in Command, Enqueue(c)
      PROVE  Lifecycle!Create(c)
  BY <1>2 DEF Enqueue, SetStatus, Lifecycle!Create, Lifecycle!Move
<1>3. ASSUME NEW c \in Command, RequestStep(c) \/ RequestFails(c)
      PROVE  Same
  BY <1>3 DEF RequestStep, AnnounceEnqueued, StartFlush, RequestFails
<1>4. ASSUME NEW f \in Flusher, NEW c \in Command, FlushExpired(f, c)
      PROVE  Lifecycle!Expire({c})
  BY <1>4 DEF FlushExpired, Oldest, SetStatus, Announce, TypeOK, Lifecycle!Expire
<1>5. ASSUME NEW f \in Flusher, NEW c \in Command, Dispatch(f, c)
      PROVE  Lifecycle!Attempt(c)
  BY <1>5 DEF Dispatch, Oldest, SetStatus, Lifecycle!Attempt, Lifecycle!Move
<1>6. ASSUME NEW f \in Flusher, Revert(f)
      PROVE  Same \/ \E c \in Command : Lifecycle!Retract(c)
  <2> DEFINE c == flusher[f].cmd
  <2>1. CASE status[c] = "sent" /\ c \in Command
    BY <1>6, <2>1 DEF Revert, SetStatus, Lifecycle!Retract, Lifecycle!Move
  <2>2. CASE c \notin Command
    BY <1>6, <2>2 DEF Revert, SetStatus, TypeOK
  <2>3. CASE status[c] # "sent"
    BY <1>6, <2>3 DEF Revert
  <2> QED BY <2>1, <2>2, <2>3
<1>7. ASSUME NEW f \in Flusher,
             \/ Lock(f) \/ FlushEmpty(f) \/ FlushOnLostSession(f)
             \/ Publish(f) \/ PublishRejected(f) \/ PublishDone(f)
             \/ AnnounceRequeued(f) \/ Unlock(f) \/ FlusherFails(f)
      PROVE  Same
  BY <1>7 DEF Lock, FlushEmpty, FlushOnLostSession, Publish, PublishRejected,
       PublishDone, AnnounceRequeued, Unlock, FlusherFails, FlushRollsBack,
       SessionLost, PublishTimesOut, RevertFails
<1>8. CASE PromoteResponse
  <2> DEFINE c == Current.cmd
  <2>1. Current.kind \in {"done", "error"} /\ Current \in Message
    BY <1>8 DEF PromoteResponse, Current, TypeOK
  <2>2. c \in Command
    BY <2>1 DEF Message
  <2>3. CASE status[c] = "pending"
    BY <1>8, <2>2, <2>3 DEF PromoteResponse, Lifecycle!Attempt, Lifecycle!Move,
         Lifecycle!Next
  <2>4. CASE status[c] # "pending"
    BY <1>8, <2>2, <2>4 DEF PromoteResponse, TypeOK
  <2> QED BY <2>3, <2>4
<1>9. CASE SettleResponse
  <2>1. Lifecycle!Answer(Current.cmd)
    BY <1>9, HandlerReads
       DEF SettleResponse, SetStatus, Lifecycle!Answer, Lifecycle!Move
  <2> QED BY <1>9, <2>1, HandlerReads DEF SettleResponse, Lifecycle!Next
<1>10. CASE AnnounceVerdict
  <2>1. Current.cmd \in Command /\ status[Current.cmd] = Current.kind
           /\ Current.kind \in {"done", "error"}
    BY <1>10, HandlerReads DEF AnnounceVerdict, HandlerInv
  <2>2. Lifecycle!Publish(Current.cmd)
    BY <1>10, <2>1 DEF AnnounceVerdict, Announce, Lifecycle!Publish, Lifecycle!Final
  <2> QED BY <2>1, <2>2 DEF Lifecycle!Next
<1>11. CASE IgnoreResponse \/ StatusOnline \/ StatusFlushed \/ ResponseFails
  BY <1>11 DEF IgnoreResponse, StatusOnline, StatusFlushed, ResponseFails
<1>12. CASE Sweep
  <2> DEFINE S == {c \in Command : Expired(c)}
  <2>1. S \in SUBSET Command /\ \A c \in S : status[c] \in {"pending", "sent"}
    BY DEF Expired
  <2>2. Lifecycle!Expire(S)
    BY <1>12, <2>1 DEF Sweep, Lifecycle!Expire
  <2> QED BY <2>1, <2>2 DEF Lifecycle!Next
<1>13. CASE BridgeDown \/ BridgeReady \/ ServerCrash
              \/ Transmit \/ TransmitUnacknowledged
              \/ (\E m \in Message : DeviceMessage(m))
              \/ (\E c \in Command : Ages(c))
  BY <1>13 DEF BridgeDown, BridgeReady, ServerCrash, Transmit,
       TransmitUnacknowledged, DeviceMessage, Ages, CreatedAges, SentAges
<1> QED
  BY <1>1, <1>2, <1>3, <1>4, <1>5, <1>6, <1>7, <1>8, <1>9, <1>10, <1>11,
     <1>12, <1>13
     DEF Next, PromptNext, ServerNext, FlusherStep, HandlerStep, Lifecycle!Next

\* What the lifecycle alone guarantees: finished rows stay, and events agree.
LEMMA LifecycleKeepsVerdicts ==
    ASSUME TypeOK, [Lifecycle!Next]_<<status, ended>>
    PROVE  /\ \A c \in Command : status[c] \in Terminal => status'[c] = status[c]
           /\ VerdictMatchesRow => VerdictMatchesRow'
<1> USE DEF TypeOK, Terminal, Status, VerdictMatchesRow
<1>1. CASE UNCHANGED <<status, ended>>
  BY <1>1
<1> DEFINE Kept == /\ \A c \in Command : status[c] \in Terminal => status'[c] = status[c]
                   /\ VerdictMatchesRow => VerdictMatchesRow'
<1>2. ASSUME NEW c \in Command,
             \/ Lifecycle!Create(c) \/ Lifecycle!Attempt(c)
             \/ Lifecycle!Retract(c) \/ Lifecycle!Answer(c)
      PROVE  Kept
  <2>1. /\ status[c] \notin Terminal
        /\ \A d \in Command \ {c} : status'[d] = status[d]
        /\ UNCHANGED ended
    BY <1>2 DEF Lifecycle!Create, Lifecycle!Attempt, Lifecycle!Retract,
                Lifecycle!Answer, Lifecycle!Move
  <2>2. VerdictMatchesRow => ended[c] = {}
    BY <2>1
  <2> QED BY <2>1, <2>2
<1>3. ASSUME NEW c \in Command, Lifecycle!Publish(c)
      PROVE  Kept
  BY <1>3 DEF Lifecycle!Publish
<1>4. ASSUME NEW S \in SUBSET Command, Lifecycle!Expire(S)
      PROVE  Kept
  <2>1. \A c \in S : /\ status[c] \notin Terminal
                     /\ status'[c] = "timeout"
                     /\ ended'[c] = ended[c] \cup {"timeout"}
    BY <1>4 DEF Lifecycle!Expire
  <2>2. \A c \in Command \ S : status'[c] = status[c] /\ ended'[c] = ended[c]
    BY <1>4 DEF Lifecycle!Expire
  <2>3. VerdictMatchesRow => \A c \in S : ended[c] = {}
    BY <2>1
  <2> QED BY <2>1, <2>2, <2>3
<1> QED BY <1>1, <1>2, <1>3, <1>4 DEF Lifecycle!Next

-----------------------------------------------------------------------------
(* What handlers and flushes have in hand.                                 *)

LEMMA HandlerInvStep ==
    ASSUME TypeOK, HandlerInv, [Next]_vars
    PROVE  HandlerInv'
<1> USE DEF HandlerInv, Current
<1>1. CASE UNCHANGED <<handler, inbound>>
  <2>1. ASSUME handler = "announce"
        PROVE  status'[Current.cmd] = status[Current.cmd]
    BY <2>1, HandlerReads, LifecycleStep, LifecycleKeepsVerdicts DEF Terminal
  <2> QED BY <1>1, <2>1
<1>2. CASE PromoteResponse
  BY <1>2 DEF PromoteResponse
<1>3. CASE SettleResponse
  BY <1>3, HandlerReads DEF SettleResponse, SetStatus, TypeOK
<1>4. CASE IgnoreResponse \/ AnnounceVerdict \/ StatusFlushed
  BY <1>4 DEF IgnoreResponse, AnnounceVerdict, StatusFlushed, Acknowledge
<1>5. CASE StatusOnline
  BY <1>5 DEF StatusOnline
<1>6. CASE ResponseFails
  BY <1>6 DEF ResponseFails
<1>7. CASE ServerCrash
  BY <1>7 DEF ServerCrash
<1>8. ASSUME NEW m \in Message, DeviceMessage(m)
      PROVE  HandlerInv'
  <2>1. inbound # <<>> => Head(inbound') = Head(inbound) /\ inbound' # <<>>
    BY <1>8 DEF DeviceMessage, TypeOK
  <2> QED BY <1>8, <2>1 DEF DeviceMessage, rowVars
<1> QED
  BY <1>1, <1>2, <1>3, <1>4, <1>5, <1>6, <1>7, <1>8
     DEF Next, PromptNext, ServerNext, vars, rowVars, bridgeVars,
         Enqueue, RequestStep, AnnounceEnqueued, StartFlush, RequestFails,
         FlusherStep, Lock, FlushEmpty, FlushExpired, Dispatch, FlushOnLostSession,
         Publish, PublishRejected, PublishDone, Revert, AnnounceRequeued, Unlock,
         FlusherFails, FlushRollsBack, SessionLost, PublishTimesOut, RevertFails,
         BridgeDown, BridgeReady, HandlerStep, Sweep, Transmit,
         TransmitUnacknowledged, Ages, CreatedAges, SentAges

LEMMA FlusherInvStep ==
    ASSUME TypeOK, FlusherInv, OutboxInv, [Next]_vars
    PROVE  FlusherInv'
<1> USE DEF TypeOK, FlusherInv, Progress, Flusher, Idle, Goto, Return
<1>1. CASE UNCHANGED flusher
  BY <1>1
<1>2. CASE \E c \in Command, f \in Worker : StartFlush(c, f)
  BY <1>2 DEF StartFlush
<1>3. ASSUME NEW f \in Flusher, Lock(f) \/ FlushEmpty(f) \/ FlushOnLostSession(f)
                               \/ PublishDone(f) \/ Unlock(f)
      PROVE  FlusherInv'
  BY <1>3 DEF Lock, FlushEmpty, FlushOnLostSession, PublishDone, Unlock
<1>4. ASSUME NEW f \in Flusher, NEW c \in Command, Dispatch(f, c)
      PROVE  FlusherInv'
  BY <1>4 DEF Dispatch
<1>5. ASSUME NEW f \in Flusher, Publish(f) \/ PublishRejected(f)
      PROVE  FlusherInv'
  BY <1>5 DEF Publish, PublishRejected
<1>10. ASSUME NEW f \in Flusher, PublishTimesOut(f)
      PROVE  FlusherInv'
  BY <1>10 DEF PublishTimesOut
<1>6. ASSUME NEW f \in Flusher, Revert(f) \/ AnnounceRequeued(f) \/ RevertFails(f)
                               \/ FlushRollsBack(f)
      PROVE  FlusherInv'
  BY <1>6 DEF Revert, AnnounceRequeued, RevertFails, FlushRollsBack
<1>7. CASE ServerCrash
  BY <1>7 DEF ServerCrash
<1>8. CASE StatusOnline
  BY <1>8 DEF StatusOnline
<1>9. CASE Transmit
  <2>1. Sent.by \in Flusher => flusher[Sent.by].pc = "await"
    BY <1>9 DEF Transmit, Sent, OutboxInv
  <2> QED BY <1>9, <2>1 DEF Transmit
<1> QED
  BY <1>1, <1>2, <1>3, <1>4, <1>5, <1>6, <1>7, <1>8, <1>9, <1>10
     DEF Next, PromptNext, ServerNext, vars, rowVars, bridgeVars,
         Enqueue, RequestStep, AnnounceEnqueued, RequestFails,
         FlusherStep, FlushExpired, FlusherFails, SessionLost,
         BridgeDown, BridgeReady, HandlerStep, PromoteResponse, SettleResponse,
         IgnoreResponse, AnnounceVerdict, StatusFlushed, ResponseFails, Sweep,
         TransmitUnacknowledged, DeviceMessage, Ages, CreatedAges, SentAges

\* A step of one flush leaves the others, the handler and, unless it publishes or
\* gives up a publish, the outbox alone; and it is taken by a running flush.
LEMMA FlushMovesAlone ==
    ASSUME TypeOK, NEW f \in Flusher, FlusherStep(f) \/ FlusherFails(f)
    PROVE  /\ UNCHANGED handler
           /\ UNCHANGED outbox \/ Publish(f) \/ PublishTimesOut(f)
           /\ \/ UNCHANGED flusher
              \/ /\ flusher[f].pc # "idle"
                 /\ flusher[f].pc = "await" => PublishTimesOut(f)
                 /\ \A g \in Flusher \ {f} : flusher'[g] = flusher[g]
<1>0. /\ \A pc \in FlusherPc : Goto(f, pc) => \A g \in Flusher \ {f} : flusher'[g] = flusher[g]
      /\ Return(f) => \A g \in Flusher \ {f} : flusher'[g] = flusher[g]
  BY DEF TypeOK, Goto, Return
<1> USE <1>0 DEF FlusherPc, Selecting, bridgeVars
<1>1. CASE Lock(f) \/ FlushEmpty(f) \/ FlushRollsBack(f)
  BY <1>1 DEF Lock, FlushEmpty, FlushRollsBack
<1>2. CASE \E c \in Command : FlushExpired(f, c) \/ Dispatch(f, c)
  BY <1>2 DEF FlushExpired, Dispatch, TypeOK
<1>3. CASE FlushOnLostSession(f) \/ Unlock(f) \/ SessionLost(f)
  BY <1>3 DEF FlushOnLostSession, Unlock, SessionLost
<1>4. CASE Publish(f)
  BY <1>4 DEF Publish
<1>5. CASE PublishRejected(f) \/ PublishDone(f)
  BY <1>5 DEF PublishRejected, PublishDone
<1>6. CASE PublishTimesOut(f)
  <2>1. UNCHANGED handler /\ flusher[f].pc # "idle"
           /\ \A g \in Flusher \ {f} : flusher'[g] = flusher[g]
    BY <1>6 DEF PublishTimesOut
  <2> QED BY <1>6, <2>1
<1>7. CASE Revert(f)
  BY <1>7 DEF Revert
<1>8. CASE AnnounceRequeued(f) \/ RevertFails(f)
  BY <1>8 DEF AnnounceRequeued, RevertFails
<1> QED
  BY <1>1, <1>2, <1>3, <1>4, <1>5, <1>6, <1>7, <1>8 DEF FlusherStep, FlusherFails

LEMMA OutboxInvStep ==
    ASSUME TypeOK, FlusherInv, BridgeInv, OutboxInv, [Next]_vars
    PROVE  OutboxInv'
<1>1. /\ Len(outbox) \in Nat
      /\ DOMAIN outbox = 1 .. Len(outbox)
      /\ \A i \in 1 .. Len(outbox) : outbox[i] \in Publication
  BY LenProperties, ElementOfSeq DEF TypeOK
\* Steps of a flush that is not waiting move no other flush and no publish.
<1>2. ASSUME UNCHANGED outbox,
             \A f \in Flusher : flusher[f].pc = "await" => flusher'[f].pc = "await"
      PROVE  OutboxInv'
  BY <1>2 DEF OutboxInv
<1>3. ASSUME NEW f \in Flusher, Publish(f)
      PROVE  OutboxInv'
  <2>1. /\ outbox' = Append(outbox, [cmd |-> flusher[f].cmd, by |-> f])
        /\ flusher[f].pc = "publish"
        /\ flusher'[f].pc = "await"
        /\ \A g \in Flusher \ {f} : flusher'[g] = flusher[g]
    BY <1>3 DEF Publish, Goto, TypeOK, Progress
  <2>2. /\ DOMAIN outbox' = 1 .. Len(outbox) + 1
        /\ \A i \in 1 .. Len(outbox) : outbox'[i] = outbox[i]
        /\ outbox'[Len(outbox) + 1].by = f
    BY <1>1, <2>1 DEF TypeOK
  <2>3. \A i \in 1 .. Len(outbox) : outbox[i].by # f
    BY <1>1, <2>1 DEF OutboxInv
  <2> QED BY <1>1, <2>1, <2>2, <2>3 DEF OutboxInv
<1>4. ASSUME NEW f \in Flusher, PublishTimesOut(f)
      PROVE  OutboxInv'
  <2>1. /\ \A g \in Flusher \ {f} : flusher'[g] = flusher[g]
        /\ DOMAIN outbox' = DOMAIN outbox
        /\ \A i \in DOMAIN outbox :
              /\ outbox[i].by = f => outbox'[i].by = NoFlusher
              /\ outbox[i].by # f => outbox'[i] = outbox[i]
    BY <1>1, <1>4 DEF PublishTimesOut, Goto, TypeOK, Publication
  <2> QED BY <2>1, NoFlusherAssumption DEF OutboxInv
<1>5. CASE Transmit
  <2>1. /\ DOMAIN outbox' = 1 .. Len(outbox) - 1
        /\ \A i \in DOMAIN outbox' : i + 1 \in DOMAIN outbox /\ outbox'[i] = outbox[i + 1]
        /\ Sent = outbox[1] /\ 1 \in DOMAIN outbox
    BY <1>1, <1>5, HeadTailProperties DEF Transmit, Sent, TypeOK
  <2>2. \A f \in Flusher : f # Sent.by => flusher'[f] = flusher[f]
    BY <1>5 DEF Transmit
  <2>3. \A i \in DOMAIN outbox' : outbox'[i].by \in Flusher => outbox'[i].by # Sent.by
    BY <1>1, <2>1 DEF OutboxInv
  <2> QED BY <1>1, <2>1, <2>2, <2>3 DEF OutboxInv
<1>6. CASE ServerCrash
  BY <1>6 DEF ServerCrash, OutboxInv
<1>7. CASE StatusOnline
  <2>1. flusher[Bridge].pc = "idle"
    BY <1>7 DEF StatusOnline, BridgeInv
  <2>2. \A f \in Flusher : flusher[f].pc = "await" => flusher'[f].pc = "await"
    BY <1>7, <2>1 DEF StatusOnline, Goto
  <2> QED BY <1>2, <1>7, <2>2 DEF StatusOnline, bridgeVars
<1>8. ASSUME NEW f \in Flusher, FlusherStep(f) \/ FlusherFails(f),
             ~Publish(f), ~PublishTimesOut(f)
      PROVE  OutboxInv'
  <2>1. UNCHANGED outbox
    BY <1>8, FlushMovesAlone
  <2>2. \A g \in Flusher : flusher[g].pc = "await" => flusher'[g].pc = "await"
    BY <1>8, FlushMovesAlone
  <2> QED BY <1>2, <2>1, <2>2
<1>9. CASE \E c \in Command, f \in Worker : StartFlush(c, f)
  BY <1>2, <1>9 DEF StartFlush, Goto, bridgeVars
<1> QED
  BY <1>2, <1>3, <1>4, <1>5, <1>6, <1>7, <1>8, <1>9
     DEF Next, PromptNext, ServerNext, vars, rowVars, bridgeVars,
         Enqueue, RequestStep, AnnounceEnqueued, RequestFails,
         BridgeDown, BridgeReady, HandlerStep, PromoteResponse, SettleResponse,
         IgnoreResponse, AnnounceVerdict, StatusFlushed, ResponseFails, Sweep,
         TransmitUnacknowledged, DeviceMessage, Ages, CreatedAges, SentAges

LEMMA BridgeInvStep ==
    ASSUME TypeOK, BridgeInv, OutboxInv, [Next]_vars
    PROVE  BridgeInv'
<1> USE DEF BridgeInv, Flusher
<1>1. CASE UNCHANGED <<handler, flusher[Bridge]>>
  BY <1>1
<1>2. CASE PromoteResponse \/ SettleResponse \/ IgnoreResponse \/ AnnounceVerdict
              \/ StatusOnline \/ StatusFlushed \/ ResponseFails
  BY <1>2 DEF PromoteResponse, SettleResponse, IgnoreResponse, AnnounceVerdict,
       StatusOnline, StatusFlushed, ResponseFails, Acknowledge
<1>3. CASE ServerCrash
  BY <1>3 DEF ServerCrash, Idle
<1>4. CASE Transmit
  <2>1. Sent.by = Bridge => flusher[Bridge].pc = "await"
    BY <1>4 DEF Transmit, Sent, OutboxInv
  <2> QED BY <1>4, <2>1 DEF Transmit
<1>5. CASE \E c \in Command, f \in Worker : StartFlush(c, f)
  BY <1>5, QueueAssumption DEF StartFlush, Goto
<1>6. ASSUME NEW f \in Flusher, FlusherStep(f) \/ FlusherFails(f)
      PROVE  BridgeInv'
  BY <1>6, FlushMovesAlone
<1> QED
  BY <1>1, <1>2, <1>3, <1>4, <1>5, <1>6
     DEF Next, PromptNext, ServerNext, vars,
         Enqueue, RequestStep, AnnounceEnqueued, RequestFails,
         BridgeDown, BridgeReady, HandlerStep, Sweep,
         TransmitUnacknowledged, DeviceMessage, Ages, CreatedAges, SentAges

-----------------------------------------------------------------------------
(* The order of commands on the wire, while the lock's session lives.      *)

InHand == {"publish", "await", "acked", "revert"}
Held(d) == \E f \in Flusher : flusher[f].pc \in InHand /\ flusher[f].cmd = d

\* d will not be pending again: it was sent or ended, and no flush can requeue it.
Passed(d) == status[d] \notin {"absent", "pending"} /\ ~Held(d)

\* c reached the broker, or is on its way there.
Released(c) ==
    \/ c \in published
    \/ \E i \in DOMAIN outbox : outbox[i].cmd = c
    \/ Held(c)

\* One flush at a time goes from command to command.
LockInv == \A f \in Flusher : flusher[f].pc \notin {"idle", "lock"} => lock = f

\* Rows are inserted in order.
PrefixInv == \A c, d \in Command : d < c /\ status[c] # "absent" => status[d] # "absent"

OrderInv == \A c, d \in Command : d < c /\ Released(c) => d \in published \/ Passed(d)

FifoInv == LockInv /\ PrefixInv /\ OrderInv

LEMMA LockStep ==
    ASSUME ~SessionsMayDie, TypeOK, OutboxInv, BridgeInv, LockInv, [Next]_vars
    PROVE  LockInv'
<1> USE DEF LockInv, TypeOK, Goto, Return, Idle, Flusher
<1>1. CASE UNCHANGED <<flusher, lock>>
  BY <1>1
<1>2. CASE \E c \in Command, f \in Worker : StartFlush(c, f)
  BY <1>2 DEF StartFlush
<1>3. ASSUME NEW f \in Flusher, Lock(f) PROVE LockInv'
  BY <1>3, NoFlusherAssumption DEF Lock
<1>4. ASSUME NEW f \in Flusher, FlushEmpty(f) \/ FlushOnLostSession(f) \/ FlushRollsBack(f)
      PROVE  LockInv'
  BY <1>4 DEF FlushEmpty, FlushOnLostSession, FlushRollsBack, Selecting
<1>5. ASSUME NEW f \in Flusher, Unlock(f) PROVE LockInv'
  BY <1>5 DEF Unlock
<1>6. ASSUME NEW f \in Flusher, NEW c \in Command, Dispatch(f, c) PROVE LockInv'
  BY <1>6 DEF Dispatch, Selecting
<1>7. ASSUME NEW f \in Flusher, Publish(f) \/ PublishRejected(f) \/ PublishDone(f) PROVE LockInv'
  <2>1. /\ flusher[f].pc \notin {"idle", "lock"} /\ UNCHANGED lock
        /\ \A g \in Flusher \ {f} : flusher'[g] = flusher[g]
    BY <1>7 DEF Publish, PublishRejected, PublishDone
  <2> QED BY <2>1
<1>8. ASSUME NEW f \in Flusher, PublishTimesOut(f) PROVE LockInv'
  BY <1>8 DEF PublishTimesOut
<1>9. ASSUME NEW f \in Flusher, Revert(f) \/ AnnounceRequeued(f) \/ RevertFails(f) PROVE LockInv'
  BY <1>9 DEF Revert, AnnounceRequeued, RevertFails
<1>10. CASE StatusOnline
  BY <1>10 DEF StatusOnline
<1>11. CASE ServerCrash
  BY <1>11 DEF ServerCrash
<1>12. CASE Transmit
  <2>1. Sent.by \in Flusher => flusher[Sent.by].pc = "await"
    BY <1>12 DEF Transmit, Sent, OutboxInv
  <2> QED BY <1>12, <2>1 DEF Transmit
<1> QED
  BY <1>1, <1>2, <1>3, <1>4, <1>5, <1>6, <1>7, <1>8, <1>9, <1>10, <1>11, <1>12
     DEF Next, PromptNext, ServerNext, vars, rowVars, bridgeVars,
         Enqueue, RequestStep, AnnounceEnqueued, RequestFails,
         FlusherStep, FlushExpired, FlusherFails, SessionLost,
         BridgeDown, BridgeReady, HandlerStep, PromoteResponse, SettleResponse,
         IgnoreResponse, AnnounceVerdict, StatusFlushed, ResponseFails, Sweep,
         TransmitUnacknowledged, DeviceMessage, Ages, CreatedAges, SentAges

\* Only an insert makes a row present, and only a flush that has the command in
\* hand makes it pending again.
LEMMA RowsAdvance ==
    ASSUME TypeOK, HandlerInv, [Next]_vars, NEW d \in Command
    PROVE  /\ status'[d] = "absent" <=> status[d] = "absent" /\ ~Enqueue(d)
           /\ status[d] \notin {"absent", "pending"} /\ ~Held(d) =>
                  status'[d] \notin {"absent", "pending"}
<1> USE DEF TypeOK, SetStatus
<1> DEFINE Kept == /\ status'[d] = "absent" <=> status[d] = "absent"
                   /\ status[d] \notin {"absent", "pending"} /\ ~Held(d) =>
                          status'[d] \notin {"absent", "pending"}
<1>1. CASE UNCHANGED status
  BY <1>1 DEF Enqueue
<1>2. ASSUME NEW c \in Command, Enqueue(c)
      PROVE  /\ c = d => status[d] = "absent" /\ status'[d] = "pending"
             /\ c # d => status'[d] = status[d] /\ ~Enqueue(d)
  BY <1>2 DEF Enqueue
<1>3. ASSUME \/ \E f \in Flusher :
                    Revert(f) \/ \E c \in Command : FlushExpired(f, c) \/ Dispatch(f, c)
             \/ PromoteResponse \/ SettleResponse \/ Sweep
      PROVE  Kept /\ ~Enqueue(d)
  <2>1. ASSUME NEW f \in Flusher, NEW c \in Command, FlushExpired(f, c) \/ Dispatch(f, c)
        PROVE  Kept /\ UNCHANGED request /\ status # status'
    BY <2>1 DEF FlushExpired, Dispatch, Oldest
  <2>2. ASSUME NEW f \in Flusher, Revert(f)
        PROVE  Kept /\ UNCHANGED request
    BY <2>2 DEF Revert, Held, InHand, rowVars
  <2>3. ASSUME PromoteResponse \/ SettleResponse PROVE Kept
    <3>1. Current.kind \in {"done", "error"}
      BY <2>3, HandlerReads DEF PromoteResponse, SettleResponse
    <3>2. \/ status'[d] = status[d]
          \/ status[d] = "pending" /\ status'[d] = "sent"
          \/ status[d] = "sent" /\ status'[d] \in {"done", "error"}
      BY <2>3, <3>1 DEF PromoteResponse, SettleResponse
    <3> QED BY <3>2
  <2>4. ASSUME Sweep PROVE Kept
    <3>1. \A c \in Command : Expired(c) => status[c] \in {"sent", "pending"}
      BY DEF Expired
    <3>2. status'[d] = status[d] \/ (Expired(d) /\ status'[d] = "timeout")
      BY <2>4 DEF Sweep
    <3> QED BY <3>1, <3>2
  <2>5. UNCHANGED request /\ Kept
    BY <1>3, <2>1, <2>2, <2>3, <2>4 DEF PromoteResponse, SettleResponse, Sweep
  <2> QED BY <2>5 DEF Enqueue
<1> QED
  BY <1>1, <1>2, <1>3
     DEF Next, PromptNext, ServerNext, vars, rowVars, bridgeVars,
         RequestStep, AnnounceEnqueued, StartFlush, RequestFails,
         FlusherStep, Lock, FlushEmpty, FlushOnLostSession,
         Publish, PublishRejected, PublishDone, AnnounceRequeued, Unlock,
         FlusherFails, FlushRollsBack, SessionLost, PublishTimesOut, RevertFails,
         BridgeDown, BridgeReady, ServerCrash, HandlerStep,
         IgnoreResponse, AnnounceVerdict, StatusOnline, StatusFlushed,
         ResponseFails, Transmit, TransmitUnacknowledged,
         DeviceMessage, Ages, CreatedAges, SentAges

LEMMA PrefixStep ==
    ASSUME TypeOK, HandlerInv, PrefixInv, [Next]_vars
    PROVE  PrefixInv'
<1>1. SUFFICES ASSUME NEW c \in Command, NEW d \in Command, d < c, status'[c] # "absent",
                      status'[d] = "absent"
               PROVE  FALSE
  BY DEF PrefixInv
<1>2. status[d] = "absent" /\ ~Enqueue(d) /\ (status[c] # "absent" \/ Enqueue(c))
  BY <1>1, RowsAdvance
<1> QED BY <1>1, <1>2 DEF Enqueue, PrefixInv

LEMMA OrderStep ==
    ASSUME TypeOK, HandlerInv, FlusherInv, OutboxInv, BridgeInv, LockInv, PrefixInv, OrderInv,
           [Next]_vars
    PROVE  OrderInv'
<1> USE DEF TypeOK, Goto, Return, Idle
\* A step that releases and takes in hand nothing new.
<1>1. ASSUME published \subseteq published',
             \A d \in Command : (Released(d)' => Released(d)) /\ (Held(d)' => Held(d))
      PROVE  OrderInv'
  BY <1>1, RowsAdvance DEF OrderInv, Passed
<1>2. ASSUME UNCHANGED <<published, outbox>>,
             \A f \in Flusher : \/ flusher'[f].pc \notin InHand
                                \/ flusher[f].pc \in InHand /\ flusher'[f].cmd = flusher[f].cmd
      PROVE  OrderInv'
  BY <1>1, <1>2 DEF Released, Held
<1>3. CASE \E c \in Command, f \in Worker : StartFlush(c, f)
  BY <1>2, <1>3 DEF StartFlush, InHand, bridgeVars, Flusher
<1>4. ASSUME NEW f \in Flusher, NEW c \in Command, Dispatch(f, c) PROVE OrderInv'
  <2>1. /\ flusher'[f] = [pc |-> "publish", cmd |-> c] /\ lock = f /\ flusher[f].pc = "select"
        /\ \A g \in Flusher \ {f} : flusher'[g] = flusher[g] /\ flusher[g].pc \notin InHand
        /\ UNCHANGED <<published, outbox>>
    BY <1>4 DEF Dispatch, Selecting, LockInv, InHand, bridgeVars
  <2>2. \A d \in Command : ~Held(d) /\ (Held(d)' <=> d = c)
    BY <2>1 DEF Held, InHand
  <2>3. \A d \in Command : Released(d)' => Released(d) \/ d = c
    BY <2>1, <2>2 DEF Released
  <2>4. /\ status[c] = "pending"
        /\ \A d \in Command : d < c => status[d] \notin {"absent", "pending"}
    BY <1>4 DEF Dispatch, Oldest, PrefixInv, Command
  <2>5. SUFFICES ASSUME NEW b \in Command, NEW d \in Command, d < b,
                        Released(b)', d \notin published
                 PROVE  Passed(d)'
    BY <2>1 DEF OrderInv
  <2>6. Passed(d)
    BY <2>2, <2>3, <2>4, <2>5 DEF OrderInv, Passed
  <2> QED BY <2>2, <2>4, <2>6, RowsAdvance DEF Passed
<1>5. ASSUME NEW f \in Flusher, Publish(f) PROVE OrderInv'
  <2>1. /\ flusher[f].pc = "publish" /\ flusher[f].cmd \in Command
        /\ UNCHANGED published
        /\ \A g \in Flusher : flusher'[g].cmd = flusher[g].cmd
        /\ \A g \in Flusher : flusher'[g].pc \in InHand => flusher[g].pc \in InHand
        /\ outbox' = Append(outbox, [cmd |-> flusher[f].cmd, by |-> f])
    BY <1>5 DEF Publish, FlusherInv, InHand, Progress
  <2>2. \A i \in DOMAIN outbox' : \/ i \in DOMAIN outbox /\ outbox'[i] = outbox[i]
                                  \/ outbox'[i].cmd = flusher[f].cmd
    BY <2>1
  <2>3. \A d \in Command : Held(d)' => Held(d)
    BY <2>1 DEF Held
  <2>4. Held(flusher[f].cmd)
    BY <2>1 DEF Held, InHand
  <2> QED BY <1>1, <2>1, <2>2, <2>3, <2>4 DEF Released
<1>6. ASSUME NEW f \in Flusher, PublishTimesOut(f) PROVE OrderInv'
  <2>1. /\ flusher[f].pc \in InHand
        /\ UNCHANGED published
        /\ \A g \in Flusher : flusher'[g].cmd = flusher[g].cmd
        /\ \A g \in Flusher : flusher'[g].pc \in InHand => flusher[g].pc \in InHand
    BY <1>6 DEF PublishTimesOut, InHand, Progress
  <2>2. /\ DOMAIN outbox' = DOMAIN outbox
        /\ \A i \in DOMAIN outbox : outbox'[i].cmd = outbox[i].cmd
    <3>1. \A i \in DOMAIN outbox : outbox[i] \in Publication
      BY LenProperties, ElementOfSeq
    <3> QED BY <1>6, <3>1 DEF PublishTimesOut, Publication
  <2>3. \A d \in Command : Held(d)' => Held(d)
    BY <2>1 DEF Held
  <2> QED BY <1>1, <2>1, <2>2, <2>3 DEF Released
<1>7. CASE Transmit
  <2>1. Sent.by \in Flusher => flusher[Sent.by].pc = "await"
    BY <1>7 DEF Transmit, Sent, OutboxInv
  <2>2. /\ \A g \in Flusher : flusher'[g].cmd = flusher[g].cmd
        /\ \A g \in Flusher : flusher'[g].pc \in InHand => flusher[g].pc \in InHand
    BY <1>7, <2>1 DEF Transmit, InHand, Progress
  <2>3. \A d \in Command : Held(d)' => Held(d)
    BY <2>2 DEF Held
  <2>4. /\ published' = published \cup {Sent.cmd}
        /\ 1 \in DOMAIN outbox /\ Sent = outbox[1]
        /\ \A i \in DOMAIN outbox' : i + 1 \in DOMAIN outbox /\ outbox'[i] = outbox[i + 1]
    BY <1>7, HeadTailProperties, LenProperties DEF Transmit, Sent
  <2> QED BY <1>1, <2>3, <2>4 DEF Released
<1>8. CASE TransmitUnacknowledged
  <2>1. /\ published' = published \cup {Sent.cmd} /\ UNCHANGED <<outbox, flusher>>
        /\ 1 \in DOMAIN outbox /\ Sent = outbox[1]
    BY <1>8, LenProperties DEF TransmitUnacknowledged, Sent
  <2> QED BY <1>1, <2>1 DEF Released, Held
<1>9. CASE ServerCrash
  BY <1>1, <1>9 DEF ServerCrash, Released, Held, InHand
<1>10. CASE StatusOnline
  BY <1>2, <1>10 DEF StatusOnline, InHand, bridgeVars, Flusher
<1>11. ASSUME NEW f \in Flusher,
              \/ Lock(f) \/ FlushEmpty(f) \/ FlushOnLostSession(f) \/ PublishDone(f) \/ Unlock(f)
              \/ PublishRejected(f) \/ Revert(f) \/ AnnounceRequeued(f)
              \/ FlushRollsBack(f) \/ RevertFails(f)
       PROVE  OrderInv'
  <2>1. UNCHANGED <<published, outbox>>
    BY <1>11 DEF Lock, FlushEmpty, FlushOnLostSession, PublishDone, Unlock, PublishRejected,
         Revert, AnnounceRequeued, FlushRollsBack, RevertFails, bridgeVars
  <2>2. \A g \in Flusher : \/ flusher'[g].pc \notin InHand
                           \/ flusher[g].pc \in InHand /\ flusher'[g].cmd = flusher[g].cmd
    BY <1>11 DEF Lock, FlushEmpty, FlushOnLostSession, PublishDone, Unlock, PublishRejected,
         Revert, AnnounceRequeued, FlushRollsBack, RevertFails, InHand, Progress
  <2> QED BY <1>2, <2>1, <2>2
<1>12. CASE UNCHANGED <<published, outbox, flusher>>
  BY <1>2, <1>12
<1> QED
  BY <1>3, <1>4, <1>5, <1>6, <1>7, <1>8, <1>9, <1>10, <1>11, <1>12
     DEF Next, PromptNext, ServerNext, vars, rowVars, bridgeVars,
         Enqueue, RequestStep, AnnounceEnqueued, RequestFails,
         FlusherStep, FlushExpired, FlusherFails, SessionLost,
         BridgeDown, BridgeReady, HandlerStep, PromoteResponse, SettleResponse,
         IgnoreResponse, AnnounceVerdict, StatusFlushed, ResponseFails, Sweep,
         DeviceMessage, Ages, CreatedAges, SentAges

-----------------------------------------------------------------------------
(* The theorems.                                                           *)

LEMMA InvInit == ASSUME Init PROVE Inv
<1>1. TypeOK
  BY TypeInit
<1>2. HandlerInv /\ FlusherInv /\ BridgeInv /\ OutboxInv /\ VerdictMatchesRow
  BY DEF Init, HandlerInv, FlusherInv, BridgeInv, OutboxInv, VerdictMatchesRow, Idle, Flusher
<1> QED BY <1>1, <1>2 DEF Inv

LEMMA InvStep == ASSUME Inv, [Next]_vars PROVE Inv'
  BY TypeStep, HandlerInvStep, FlusherInvStep, BridgeInvStep, OutboxInvStep,
     LifecycleStep, LifecycleKeepsVerdicts DEF Inv

THEOREM Invariance == Spec => []Inv
  BY InvInit, InvStep, PTL DEF Spec

\* Types: every row, request, flush, publish and message keeps its shape.
THEOREM TypeCorrect == Spec => []TypeOK
  BY Invariance, PTL DEF Inv

\* Whatever the number of commands, flushes and failures, an announced verdict
\* is the row's.
THEOREM VerdictsAgree == Spec => []VerdictMatchesRow
  BY Invariance, PTL DEF Inv

\* A finished command never moves again.
THEOREM FinalStays == Spec => FinalIsFinal
<1>1. Inv /\ [Next]_vars =>
        [\A c \in Command : status[c] \in Terminal => status'[c] = status[c]]_status
  BY LifecycleStep, LifecycleKeepsVerdicts DEF Inv
<1> QED BY <1>1, Invariance, PTL DEF Spec, FinalIsFinal

\* The queue keeps the promise of CommandLifecycle.
THEOREM QueueImplementsLifecycle == Spec => ImplementsLifecycle
<1>1. Inv /\ [Next]_vars => [Lifecycle!Next]_<<status, ended>>
  BY LifecycleStep DEF Inv
<1> QED BY <1>1, LifecycleInit, Invariance, PTL
        DEF Spec, ImplementsLifecycle, Lifecycle!Spec, Lifecycle!lifecycleVars

\* While no session of PostgreSQL is lost, no command reaches the broker before
\* an older one that is still to be sent, whatever publishes fail, time out or
\* are repeated (flushPending's advisory lock).
THEOREM FifoAlways == ASSUME ~SessionsMayDie PROVE Spec => []FifoOnWire
<1>1. Init => FifoInv
  BY DEF Init, FifoInv, LockInv, PrefixInv, OrderInv, Released, Held, InHand, Idle
<1>2. Inv /\ FifoInv /\ [Next]_vars => FifoInv'
  BY LockStep, PrefixStep, OrderStep DEF Inv, FifoInv
<1>3. Inv /\ FifoInv => FifoOnWire
  BY DEF Inv, TypeOK, FifoInv, OrderInv, Released, Passed, FifoOnWire
<1> QED BY <1>1, <1>2, <1>3, Invariance, PTL DEF Spec

=============================================================================
