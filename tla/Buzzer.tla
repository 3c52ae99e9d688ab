------------------------------- MODULE Buzzer -------------------------------
(***************************************************************************)
(* The buzzer (src/firmware/components/general/buzzer/buzzer.c): tasks     *)
(* that switch relays or the mode queue the steps of a pattern under its   *)
(* lock, buzzer_task plays them.                                           *)
(***************************************************************************)
EXTENDS Naturals, Sequences

CONSTANTS
    Caller,   \* the tasks that beep
    Patterns, \* a sequence of BOOLEAN each: which of its steps sound
    Depth,    \* BUZZER_QUEUE_DEPTH
    MaxFaults \* bound: outputs that fail in a row

None == "none"

BuzzerAssumption ==
    /\ None \notin Caller
    /\ Patterns \subseteq Seq(BOOLEAN) \ {<<>>}
    /\ Depth \in Nat /\ MaxFaults \in Nat

VARIABLES
    lock,   \* who holds s_buzzer_lock
    wanted, \* the pattern each caller waits with, <<>> while it does not beep
    sent,   \* how many of its steps the holder has queued; 0 before it looks
    queue,  \* s_buzzer_queue: steps, with the pattern each is of
    step,   \* what buzzer_task plays; NoStep while it waits
    sound,  \* the output
    faults, \* outputs failed in a row
    stuck   \* the last switch-off failed

callers == <<lock, wanted, sent>>
player == <<step, sound, faults, stuck>>
vars == <<callers, queue, player>>

NoStep == [of |-> <<>>, at |-> 0]
Step == UNION {{[of |-> p, at |-> i] : i \in DOMAIN p} : p \in Patterns}
Sounds(s) == s.of[s.at]

TypeOK ==
    /\ lock \in Caller \union {None}
    /\ wanted \in [Caller -> Patterns \union {<<>>}]
    /\ sent \in Nat
    /\ queue \in Seq(Step) /\ Len(queue) <= Depth
    /\ step \in Step \union {NoStep}
    /\ sound \in BOOLEAN /\ stuck \in BOOLEAN /\ faults \in 0..MaxFaults

\* sysload_init restarts the device where buzzer_init fails: whoever beeps finds
\* the queue and the task.
Init ==
    /\ lock = None /\ wanted = [c \in Caller |-> <<>>] /\ sent = 0
    /\ queue = <<>>
    /\ step = NoStep /\ sound = FALSE /\ faults = 0 /\ stuck = FALSE

(***************************************************************************)
(* buzzer_beep_pattern.                                                    *)
(***************************************************************************)
Beep(c) ==
    /\ wanted[c] = <<>>
    /\ \E p \in Patterns : wanted' = [wanted EXCEPT ![c] = p]
    /\ UNCHANGED <<lock, sent, queue, player>>

Takes(c) ==
    /\ wanted[c] # <<>> /\ lock = None
    /\ lock' = c
    /\ UNCHANGED <<wanted, sent, queue, player>>

Inside(c) == wanted[c] # <<>> /\ lock = c

Unlock(c) ==
    /\ lock' = None /\ sent' = 0 /\ wanted' = [wanted EXCEPT ![c] = <<>>]

\* Faulty variant of Fits: room for one step is enough.
FitsOne(p) ==
    Len(queue) < Depth

\* buzzer_prepare_queue_locked: room for all of the pattern.
Fits(p) ==
    Depth - Len(queue) >= Len(p)

\* Faulty variant of Refuses: the lock is not given back.
RefusesLocked(c) ==
    /\ Inside(c) /\ sent = 0 /\ ~Fits(wanted[c])
    /\ wanted' = [wanted EXCEPT ![c] = <<>>]
    /\ UNCHANGED <<lock, sent, queue, player>>

Refuses(c) ==
    /\ Inside(c) /\ sent = 0 /\ ~Fits(wanted[c])
    /\ Unlock(c)
    /\ UNCHANGED <<queue, player>>

\* xQueueSend waits for nothing: a step that does not fit ends the pattern.
Sends(c) ==
    /\ Inside(c) /\ (sent = 0 => Fits(wanted[c]))
    /\ IF Len(queue) < Depth
       THEN /\ queue' = Append(queue, [of |-> wanted[c], at |-> sent + 1])
            /\ IF sent + 1 = Len(wanted[c])
               THEN Unlock(c)
               ELSE sent' = sent + 1 /\ UNCHANGED <<lock, wanted>>
       ELSE Unlock(c) /\ UNCHANGED queue

Enqueues(c) == Sends(c) /\ UNCHANGED player

(***************************************************************************)
(* buzzer_task_fn.                                                         *)
(***************************************************************************)
\* buzzer_set_output: where it fails the output stays as it was.
Output(enabled) ==
    /\ sound' = enabled /\ faults' = 0
    /\ stuck' = FALSE

OutputFails == faults < MaxFaults /\ faults' = faults + 1 /\ UNCHANGED sound

\* A step that should sound and cannot is skipped.
Receives ==
    /\ step = NoStep /\ queue # <<>> /\ queue' = Tail(queue)
    /\ LET s == Head(queue) IN
          \/ step' = s /\ Output(Sounds(s))
          \/ /\ OutputFails
             /\ IF Sounds(s)
                THEN UNCHANGED <<step, stuck>>
                ELSE step' = s /\ stuck' = sound
    /\ UNCHANGED callers

\* Faulty variant of Played: a step that sounds leaves it on for the next.
PlayedOn ==
    IF Sounds(step) /\ step.at < Len(step.of)
    THEN Output(FALSE) \/ (OutputFails /\ stuck' = sound)
    ELSE UNCHANGED <<sound, faults, stuck>>

\* What follows vTaskDelay.
Played ==
    IF Sounds(step)
    THEN Output(FALSE) \/ (OutputFails /\ stuck' = sound)
    ELSE UNCHANGED <<sound, faults, stuck>>

Plays ==
    /\ step # NoStep /\ step' = NoStep
    /\ Played
    /\ UNCHANGED <<callers, queue>>

Task == Receives \/ Plays
Calls(c) == Refuses(c) \/ Enqueues(c)

Next == (\E c \in Caller : Beep(c) \/ Takes(c) \/ Calls(c)) \/ Task

\* A mutex of FreeRTOS goes to the first to wait at the highest priority.
Fairness ==
    /\ WF_vars(Task)
    /\ \A c \in Caller : SF_vars(Takes(c)) /\ WF_vars(Calls(c))

Spec == Init /\ [][Next]_vars /\ Fairness

(***************************************************************************)
(* Properties.                                                             *)
(***************************************************************************)

\* Two tasks beep at once, and the player takes steps while they queue theirs:
\* in the queue every pattern is whole and no step of another is inside it.
\* The first may be playing, the last is incomplete only while its caller is
\* still queueing it.  What sounds is such a step, or could not be switched off.
PatternsWhole ==
    LET whole(s) == s.at = Len(s.of) IN
    /\ \A i \in 1..Len(queue) - 1 :
          IF whole(queue[i])
          THEN queue[i + 1].at = 1
          ELSE queue[i + 1] = [queue[i] EXCEPT !.at = @ + 1]
    /\ queue # <<>> /\ sent = 0 => whole(queue[Len(queue)])
    /\ sound => stuck \/ (step # NoStep /\ Sounds(step))

\* "This function is non-blocking and returns immediately." (buzzer.h:44): a
\* caller waits for another caller, never for a step to be played.
CallersReturn == \A c \in Caller : []<>(wanted[c] = <<>>)
=============================================================================
