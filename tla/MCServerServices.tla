-------------------------- MODULE MCServerServices --------------------------
(***************************************************************************)
(* Small instances of the server's services: the command queue, a user's   *)
(* sessions, a device's registration and its shadow.  Their models share   *)
(* no state; service, which never changes, says which of them runs, and    *)
(* the others stay in an initial state.                                    *)
(***************************************************************************)
EXTENDS Naturals, FiniteSets

CONSTANTS
    w1, bridge,            \* of CommandQueue: a flusher and the bridge
    Token, NoToken,        \* of AuthSession
    Session,               \* its requests
    Request, Retry, Nobody, \* of DeviceRegistration
    RegistrationFaults,    \* bound: its failures
    r1, r2, r3,            \* its requests, those that go on
    Caller, NoCaller,      \* of DeviceShadow
    ShadowFaults           \* bound: its failures

VARIABLES
    service,
    \* CommandQueue
    status, aged, ended, request, flusher, lock, handler, ready, outbox,
    published, inbound, queueFaults,
    \* AuthSession
    rows, marker, expired, known, session, revoked, step, asked, next, seen,
    holds,
    \* DeviceRegistration
    device, user, rules, job, place, regFaults, behind, taken, dropped,
    \* DeviceShadow
    row, cache, clock, leader, kind, at, start, got, floor, acked, sound, faults

Queue == INSTANCE CommandQueueProofs WITH
    MaxCommands <- 1, Worker <- {w1}, Bridge <- bridge, SessionsMayDie <- TRUE,
    MaxFaults <- 2, MaxInbound <- 1, faults <- queueFaults

Auth == INSTANCE AuthSession WITH
    Request <- Session, ended <- revoked, pc <- step

Registration == INSTANCE DeviceRegistration WITH
    MaxFaults <- RegistrationFaults, pc <- place, faults <- regFaults

Shadow == INSTANCE DeviceShadow WITH
    Nobody <- NoCaller, MaxFaults <- ShadowFaults, pc <- at

ASSUME ServicesAssumption ==
    /\ Queue!QueueAssumption /\ Queue!NoFlusherAssumption
    /\ Auth!SessionAssumption /\ Shadow!ShadowAssumption
    /\ Registration!RegistrationAssumption
    /\ {r1, r2, r3} \subseteq Request

queueVars ==
    <<status, aged, ended, request, flusher, lock, handler, ready, outbox,
      published, inbound, queueFaults>>
authVars ==
    <<rows, marker, expired, known, session, revoked, step, asked, next, seen,
      holds>>
registrationVars ==
    <<device, user, rules, job, place, regFaults, behind, taken, dropped>>
shadowVars ==
    <<row, cache, clock, leader, kind, at, start, got, floor, acked, sound,
      faults>>
vars == <<service, queueVars, authVars, registrationVars, shadowVars>>

\* The variables of the service that runs.
now ==
    CASE service = "queue" -> queueVars
      [] service = "auth" -> authVars
      [] service = "registration" -> registrationVars
      [] service = "shadow" -> shadowVars

Init ==
    /\ service \in {"queue", "auth", "registration", "shadow"}
    /\ Queue!Init /\ Auth!Init /\ Registration!Init /\ Shadow!Init
    /\ service # "shadow" => row = Shadow!Empty

QueueStep(A) == service = "queue" /\ A /\ UNCHANGED service
AuthStep(A) == service = "auth" /\ A /\ UNCHANGED service
RegistrationStep(A) == service = "registration" /\ A /\ UNCHANGED service
ShadowStep(A) == service = "shadow" /\ A /\ UNCHANGED service

Next ==
    /\ \/ QueueStep(Queue!Next) \/ AuthStep(Auth!Next)
       \/ RegistrationStep(Registration!Next) \/ ShadowStep(Shadow!Next)
    /\ service # "queue" => UNCHANGED queueVars
    /\ service # "auth" => UNCHANGED authVars
    /\ service # "registration" => UNCHANGED registrationVars
    /\ service # "shadow" => UNCHANGED shadowVars

\* The fairness each service states: of those joined here one at most is ever
\* enabled in a behaviour.
Fairness ==
    /\ WF_now(QueueStep(Queue!RequestStep(1))
              \/ RegistrationStep(Registration!RequestStep(r1)))
    /\ WF_now(QueueStep(Queue!FlusherStep(w1))
              \/ RegistrationStep(Registration!RequestStep(r2)))
    /\ WF_now(QueueStep(Queue!FlusherStep(bridge))
              \/ RegistrationStep(Registration!RequestStep(r3)))
    /\ WF_now(QueueStep(Queue!HandlerStep) \/ RegistrationStep(Registration!JobFallsDue))
    /\ WF_now(QueueStep(Queue!Sweep) \/ RegistrationStep(Registration!CleanupStep(Retry)))
    /\ WF_now(QueueStep(Queue!Transmit) \/ RegistrationStep(Registration!TakeUp))
    /\ WF_now(QueueStep(Queue!BridgeReady))
    /\ WF_now(QueueStep(Queue!CreatedAges(1))) /\ WF_now(QueueStep(Queue!SentAges(1)))

Spec == Init /\ [][Next]_vars /\ Fairness

\* Bound: requests for a device, which are alike, begin in this order.  A first one
\* may meet two failures; two may overlap and meet one; of all three two overlap
\* where nothing fails, or none where one call does.  It only keeps requests from
\* beginning and calls from failing, which no fairness asks for.
FewAtOnce ==
    LET Begun(r) == place[r] # "new"
        Busy == {r \in Request : ~Registration!AtRest(r)} IN
    /\ Begun(r3) => Begun(r2) /\ Cardinality(Busy) + regFaults <= 2
    /\ Begun(r2) => Begun(r1) /\ regFaults <= 1

(***************************************************************************)
(* The properties of the modules, by their names there.                    *)
(***************************************************************************)
\* The type invariants.
TypeOK ==
    CASE service = "queue" -> Queue!TypeOK
      [] service = "auth" -> Auth!TypeOK
      [] service = "registration" -> Registration!TypeOK
      [] service = "shadow" -> Shadow!TypeOK

\* No command stays open, and no flush keeps its device's lock.
CommandsEnd == Queue!EveryCommandEnds /\ Queue!LockIsReleased

\* A session has one live token until it ends, and ends for a reason; a token
\* that was exchanged is found out when it is used again.
SessionsHold == Auth!SessionsHold /\ Auth!ReuseIsNoticed

\* A user of the broker without a device is removed, unless somebody who had
\* looked before a new request removed the job this request relied on.
OrphanIsRemoved == Registration!OrphanIsRemoved

\* The secret in a device's row is the one the broker has, unless a cleanup that
\* had looked before took the user away.
SecretIsValid == Registration!SecretIsValid

\* Whoever reads the shadow sees the writes that were answered.
ReadsAreFresh == Shadow!ReadsAreFresh
=============================================================================
