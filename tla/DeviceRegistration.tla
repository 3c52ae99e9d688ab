------------------------- MODULE DeviceRegistration -------------------------
(***************************************************************************)
(* One device id between the server's database and the broker's users:     *)
(* POST /devices creates the broker's user and then the device's row       *)
(* (routes/devices.js, services/emqx.js), DELETE /devices deletes the row, *)
(* and cleanupDeletedDevice removes the user of a device without a row     *)
(* (services/device-cleanup.js), for either of them or for the retry job   *)
(* (jobs/emqx-cleanup-retry.js), which takes up the rows of                *)
(* external_cleanup_jobs that are due.  Requests and the retry job overlap *)
(* as they like: nothing in the code keeps them apart.                     *)
(***************************************************************************)
EXTENDS Naturals

CONSTANTS
    Request,  \* requests for this device, registrations and deletions
    Retry,    \* the retry job, which does not overlap with itself
    Nobody,   \* no registration
    MaxFaults \* bound: failed calls and restarts of the server

RegistrationAssumption ==
    /\ Retry \notin Request /\ Nobody \notin Request
    /\ MaxFaults \in Nat

VARIABLES
    device,   \* the devices row, by the registration whose secret it holds
    user,     \* the broker's user, by the registration whose secret it has
    rules,    \* whether the broker has the rules of that user
    job,      \* the cleanup job: none, not yet due, or due
    pc,       \* where each request, and the retry job, stands
    faults,   \* failures so far
    behind,   \* observer: who looked for the row, or armed the job, while or before
              \* another request was on its way
    taken,    \* observer: the registrations under way, or with a row, whose user
              \* or rules somebody behind took away
    dropped   \* observer: whether somebody behind removed the last job

observers == <<behind, taken, dropped>>
vars == <<device, user, rules, job, pc, faults, observers>>

Process == Request \cup {Retry}
Registering == {"arm", "create", "rules", "undo", "insert", "finish"}
Cleaning == {"look", "keep", "user", "acl", "close", "postpone"}

TypeOK ==
    /\ device \in Request \cup {Nobody}
    /\ user \in Request \cup {Nobody}
    /\ rules \in BOOLEAN
    /\ job \in {"none", "waiting", "due"}
    /\ pc \in [Process -> {"new", "over"} \cup Registering \cup Cleaning]
    /\ faults \in 0 .. MaxFaults
    /\ behind \subseteq Process /\ taken \subseteq Request /\ dropped \in BOOLEAN

Init ==
    /\ device = Nobody /\ user = Nobody /\ rules = FALSE /\ job = "none"
    /\ pc = [p \in Process |-> "new"]
    /\ faults = 0 /\ behind = {} /\ taken = {} /\ dropped = FALSE

Goes(p, step) == pc' = [pc EXCEPT ![p] = step]

\* The end: the retry job comes again.
Ends(p) == Goes(p, IF p = Retry THEN "new" ELSE "over")

Fault == faults < MaxFaults /\ faults' = faults + 1

AtRest(p) == pc[p] \in {"new", "over"}

\* On its way: the job is armed or queued, and the end is not reached.
Engaged(p) == ~AtRest(p) /\ pc[p] # "arm"
Alone(p) == \A r \in Request \ {p} : ~Engaged(r)

\* p arms or queues the job: what others saw before may have changed.
Overtakes(p) ==
    /\ behind' = {q \in Process \ {p} : Engaged(q)} \cup (IF Alone(p) THEN {} ELSE {p})
    /\ taken' = {r \in taken : r = device' \/ Engaged(r)}
    /\ dropped' = FALSE

\* p takes away a user or its rules.
Takes(p, change) ==
    /\ taken' = IF p \in behind /\ change THEN taken \cup ({user} \ {Nobody}) ELSE taken
    /\ UNCHANGED <<behind, dropped>>

\* A registration without a row has nothing to lose any more.
Forgets(p) == taken' = IF p = device THEN taken ELSE taken \ {p}

\* p changes the job, which may remove it, and is done with it.
Drops(p) ==
    /\ dropped' = (dropped \/ (p \in behind /\ job # "none" /\ job' = "none"))
    /\ behind' = behind \ {p}
    /\ Forgets(p)

\* A call to the broker's API that changes something may succeed, or fail, and
\* if it timed out the broker may have done it all the same.
Call(p, change, done, step, failed) ==
    \/ change /\ Goes(p, step) /\ UNCHANGED faults
    \/ Fault /\ (change \/ UNCHANGED done) /\ Goes(p, failed)

-----------------------------------------------------------------------------
(* POST /devices.                                                          *)

\* The first transaction: 409 if the device has a row, and nothing changes.
Register(r) ==
    /\ pc[r] = "new"
    /\ device = Nobody
    /\ Goes(r, "arm")
    /\ UNCHANGED <<device, user, rules, job, faults, observers>>

\* Faulty variant of Arm: the broker is asked without a job.
ArmNothing(r) ==
    /\ pc[r] = "arm"
    /\ Goes(r, "create")
    /\ UNCHANGED <<device, user, rules, job, faults, observers>>

\* scheduleDeviceCleanupJob, in 60 seconds.
Arm(r) ==
    /\ pc[r] = "arm"
    /\ UNCHANGED <<device, user, rules>>
    /\ \/ job' = "waiting" /\ Overtakes(r) /\ Goes(r, "create") /\ UNCHANGED faults
       \/ Fault /\ Ends(r) /\ UNCHANGED <<job, observers>>

\* Faulty variant of Create: a user that is there already will do.
CreateAny(r) ==
    /\ pc[r] = "create"
    /\ Call(r, user' = IF user = Nobody THEN r ELSE user, user, "rules", "look")
    /\ UNCHANGED <<device, rules, job, observers>>

\* createAuthUser: 409 of the broker ends the registration.
Create(r) ==
    /\ pc[r] = "create"
    /\ IF user = Nobody
         THEN Call(r, user' = r, user, "rules", "look")
         ELSE Goes(r, "look") /\ UNCHANGED <<user, faults>>
    /\ UNCHANGED <<device, rules, job, observers>>

\* upsertUserRules.
SetRules(r) ==
    /\ pc[r] = "rules"
    /\ Call(r, rules' = TRUE, rules, "insert", "undo")
    /\ UNCHANGED <<device, user, job, observers>>

\* The rules failed: createDeviceUser deletes the user again, and whether that
\* fails or not, the cleanup follows.
Undo(r) ==
    /\ pc[r] = "undo"
    /\ Call(r, user' = Nobody, user, "look", "look")
    /\ Takes(r, user' # user)
    /\ UNCHANGED <<device, rules, job>>

\* The second transaction: the checks again, and the row.  It fails too if the
\* user may no longer register devices.
Insert(r) ==
    /\ pc[r] = "insert"
    /\ IF device = Nobody
         THEN \/ device' = r /\ Goes(r, "finish") /\ UNCHANGED faults
              \/ Fault /\ Goes(r, "look") /\ UNCHANGED device
         ELSE Goes(r, "look") /\ UNCHANGED <<device, faults>>
    /\ UNCHANGED <<user, rules, job, observers>>

\* clearDeviceCleanupJob, and the answer with the secret.
Finish(r) ==
    /\ pc[r] = "finish"
    /\ \/ job' = "none" /\ Ends(r) /\ UNCHANGED faults
       \/ Fault /\ Goes(r, "look") /\ UNCHANGED job
    /\ Drops(r)
    /\ UNCHANGED <<device, user, rules>>

-----------------------------------------------------------------------------
(* DELETE /devices, or the deletion of its home, and the retry job.        *)

\* The trigger of migration 012 queues the cleanup in the same transaction; a
\* job there already stays as it is.
Delete(r) ==
    /\ pc[r] = "new"
    /\ device # Nobody
    /\ device' = Nobody
    /\ job' = IF job = "none" THEN "due" ELSE job
    /\ Overtakes(r) /\ Goes(r, "look")
    /\ UNCHANGED <<user, rules, faults>>

\* A minute passes, of a registration that is slow too.
JobFallsDue ==
    /\ job = "waiting"
    /\ job' = "due"
    /\ UNCHANGED <<device, user, rules, pc, faults, observers>>

\* The retry job lists what is due, whoever is on his way; before it comes to
\* this device the job may be armed anew.
TakeUp ==
    /\ pc[Retry] = "new"
    /\ job = "due"
    /\ Goes(Retry, "look")
    /\ UNCHANGED <<device, user, rules, job, faults, observers>>

-----------------------------------------------------------------------------
(* cleanupDeletedDevice.                                                   *)

\* What p sees may be out of date at once if a request is on its way.
Looks(p) ==
    /\ behind' = IF Alone(p) THEN behind \ {p} ELSE behind \cup {p}
    /\ Forgets(p)
    /\ UNCHANGED dropped

\* Faulty variant of Look: the device's row is not looked for.
LookAway(p) ==
    /\ pc[p] = "look"
    /\ Goes(p, "user")
    /\ Looks(p)
    /\ UNCHANGED <<device, user, rules, job, faults>>

Look(p) ==
    /\ pc[p] = "look"
    /\ \/ /\ Goes(p, IF device = Nobody THEN "user" ELSE "keep")
          /\ UNCHANGED faults
       \/ Fault /\ Ends(p)
    /\ Looks(p)
    /\ UNCHANGED <<device, user, rules, job>>

\* The device has a row: the job was not needed.
Keep(p) ==
    /\ pc[p] = "keep"
    /\ \/ job' = "none" /\ UNCHANGED faults
       \/ Fault /\ UNCHANGED job
    /\ Drops(p) /\ Ends(p)
    /\ UNCHANGED <<device, user, rules>>

\* deleteDeviceUser: the user, then its rules.
DeleteUser(p) ==
    /\ pc[p] = "user"
    /\ Call(p, user' = Nobody, user, "acl", "postpone")
    /\ Takes(p, user' # user)
    /\ UNCHANGED <<device, rules, job>>

DeleteRules(p) ==
    /\ pc[p] = "acl"
    /\ Call(p, rules' = FALSE, rules, "close", "postpone")
    /\ Takes(p, rules' # rules)
    /\ UNCHANGED <<device, user, job>>

\* clearDeviceCleanupJob, or failDeviceCleanupJob, which makes the job if there
\* is none.
Settle(p, step, after) ==
    /\ pc[p] = step
    /\ \/ job' = after /\ UNCHANGED faults
       \/ Fault /\ UNCHANGED job
    /\ Drops(p) /\ Ends(p)
    /\ UNCHANGED <<device, user, rules>>

CloseJob(p) ==
    Settle(p, "close", "none")

\* Faulty variant of Postpone: the job that failed is closed.
PostponeNot(p) ==
    Settle(p, "postpone", "none")

Postpone(p) ==
    Settle(p, "postpone", "waiting")

\* The server restarts: what was in progress is not continued.
Crash ==
    /\ \E p \in Process : ~AtRest(p)
    /\ Fault
    /\ pc' = [p \in Process |->
                 IF AtRest(p) THEN pc[p] ELSE IF p = Retry THEN "new" ELSE "over"]
    /\ behind' = {} /\ taken' = taken \cap {device}
    /\ UNCHANGED <<device, user, rules, job, dropped>>

-----------------------------------------------------------------------------
CleanupStep(p) ==
    \/ Look(p) \/ Keep(p) \/ DeleteUser(p) \/ DeleteRules(p) \/ CloseJob(p)
    \/ Postpone(p)

RequestStep(r) ==
    \/ Arm(r) \/ Create(r) \/ SetRules(r) \/ Undo(r) \/ Insert(r) \/ Finish(r)
    \/ CleanupStep(r)

Next ==
    \/ \E r \in Request : Register(r) \/ Delete(r) \/ RequestStep(r)
    \/ JobFallsDue \/ TakeUp \/ CleanupStep(Retry)
    \/ Crash

\* Requests that have begun go on; time passes, and the retry job comes again
\* and again.
Fairness ==
    /\ \A r \in Request : WF_vars(RequestStep(r))
    /\ WF_vars(JobFallsDue) /\ WF_vars(TakeUp) /\ WF_vars(CleanupStep(Retry))

Spec == Init /\ [][Next]_vars /\ Fairness

-----------------------------------------------------------------------------
\* However registrations, deletions and the retry job overlap, whatever call
\* fails and wherever the server restarts: a user of the broker whose device
\* has no row is removed in the end, or its device gets its row
\* (API_REFERENCE.md:491, migration 012).  The one way round it is a cleanup
\* job removed by somebody who had looked before another request relied on it.
OrphanIsRemoved ==
    user # Nobody /\ device = Nobody
        ~> user = Nobody \/ device # Nobody \/ dropped

\* A device's row has the secret the broker has, with its rules
\* (device-cleanup-guard.test.js:6): it is lost to nobody but a cleanup that had
\* looked for the row while the registration was on its way, or before, and no
\* failed registration leaves a user whose secret the next one would not know.
SecretIsValid ==
    device # Nobody /\ device \notin taken => user = device /\ rules
=============================================================================
