-------------------------- MODULE CommandLifecycle --------------------------
(***************************************************************************)
(* What the command service promises its callers: the abstract             *)
(* specification that CommandQueue implements.                             *)
(*                                                                         *)
(* A command row is created pending, alternates between pending and sent   *)
(* while the server tries to deliver it, and reaches exactly one final     *)
(* state, from which it never moves.  The verdict published in the event   *)
(* log is the final state of the row and nothing else.                     *)
(***************************************************************************)

CONSTANT Command

VARIABLES
    state,      \* the row of each command
    verdicts    \* the final states published for each command

lifecycleVars == <<state, verdicts>>

Final == {"done", "error", "timeout"}

CommandState == {"absent", "pending", "sent"} \cup Final

TypeOK ==
    /\ state \in [Command -> CommandState]
    /\ verdicts \in [Command -> SUBSET Final]

Init ==
    /\ state = [c \in Command |-> "absent"]
    /\ verdicts = [c \in Command |-> {}]

Move(c, from, to) ==
    /\ state[c] = from
    /\ state' = [state EXCEPT ![c] = to]

Create(c)  == Move(c, "absent", "pending") /\ UNCHANGED verdicts
Attempt(c) == Move(c, "pending", "sent")   /\ UNCHANGED verdicts
Retract(c) == Move(c, "sent", "pending")   /\ UNCHANGED verdicts

\* The device's answer ends an attempt; its verdict is published afterwards.
Answer(c) ==
    /\ \E v \in {"done", "error"} : Move(c, "sent", v)
    /\ UNCHANGED verdicts

Publish(c) ==
    /\ state[c] \in Final
    /\ verdicts' = [verdicts EXCEPT ![c] = @ \cup {state[c]}]
    /\ UNCHANGED state

\* Commands that waited too long end together, each with its verdict.
Expire(S) ==
    /\ \A c \in S : state[c] \in {"pending", "sent"}
    /\ state' = [c \in Command |-> IF c \in S THEN "timeout" ELSE state[c]]
    /\ verdicts' = [c \in Command |-> IF c \in S THEN verdicts[c] \cup {"timeout"}
                                                 ELSE verdicts[c]]

Next ==
    \/ \E c \in Command :
          Create(c) \/ Attempt(c) \/ Retract(c) \/ Answer(c) \/ Publish(c)
    \/ \E S \in SUBSET Command : Expire(S)

Spec == Init /\ [][Next]_lifecycleVars

=============================================================================
