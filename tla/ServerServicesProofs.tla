------------------------ MODULE ServerServicesProofs ------------------------
(***************************************************************************)
(* Proofs about the server's services: AuthSession, DeviceRegistration and *)
(* DeviceShadow, each by itself and for every value of its constants, and  *)
(* then all of them as MCServerServices puts them together.                *)
(***************************************************************************)
EXTENDS MCServerServices, TLAPS

-----------------------------------------------------------------------------
(***************************************************************************)
(* AuthSession, for any number of tokens and of requests at one time.      *)
(* What keeps a session from forking is who has locked which rows          *)
(* (LockInv); what keeps it from being lost is that a DELETE only takes    *)
(* rows of sessions that have ended (SeenInv).                             *)
(***************************************************************************)

\* A row that a transaction has locked is there, and nobody else has it.
LockInv ==
    \A r \in Session :
        /\ holds[r] \subseteq rows
        /\ \A q \in Session \ {r} : holds[q] \cap holds[r] = {}
        /\ step[r] \in {"idle", "select", "lookup"} => holds[r] = {}
        /\ step[r] \in {"exchange", "commit"} => holds[r] = {asked[r]}

\* A successor that is not committed is known to nobody.
SuccessorInv ==
    \A r \in Session :
        /\ step[r] # "commit" => next[r] = NoToken
        /\ step[r] = "commit" =>
              /\ next[r] \in Token \ known
              /\ \A q \in Session \ {r} : next[q] # next[r]

SessionInv ==
    /\ \A t \in Token \ known : session[t] = t
    /\ \A t \in known : session[t] \in known

\* A DELETE only takes rows it saw, whose sessions were ended then.
SeenInv ==
    \A r \in Session :
        step[r] \in {"reuse", "logout"} =>
            holds[r] \subseteq seen[r] /\ Auth!Sessions(seen[r]) \subseteq revoked

AuthInv ==
    /\ Auth!TypeOK /\ LockInv /\ SuccessorInv /\ SessionInv /\ SeenInv
    /\ Auth!SessionsHold /\ Auth!ReuseIsNoticed

-----------------------------------------------------------------------------
LEMMA AuthInit == ASSUME Auth!Init PROVE AuthInv
  BY DEF Auth!Init, AuthInv, Auth!TypeOK, LockInv, SuccessorInv, SessionInv, SeenInv,
         Auth!SessionsHold, Auth!OneTokenPerSession, Auth!SessionsEndForAReason,
         Auth!ReuseIsNoticed, Auth!Sessions

\* A transaction that ends leaves the successors of the others alone.
LEMMA Forgotten ==
    ASSUME Auth!SessionAssumption, SuccessorInv, NEW r \in Session,
           next \in [Session -> Token \cup {NoToken}],
           step \in [Session -> {"idle", "select", "lookup", "exchange", "commit",
                              "reuse", "logout"}],
           next' = [next EXCEPT ![r] = NoToken], step' = [step EXCEPT ![r] = "idle"],
           known' = known \/ (step[r] = "commit" /\ known' = known \cup {next[r]})
    PROVE  SuccessorInv'
<1>1. /\ next'[r] = NoToken /\ step'[r] = "idle"
      /\ \A q \in Session \ {r} : next'[q] = next[q] /\ step'[q] = step[q]
  OBVIOUS
<1>2. ASSUME NEW q \in Session, step'[q] = "commit"
      PROVE  /\ next'[q] \in Token \ known'
             /\ \A p \in Session \ {q} : next'[p] # next'[q]
  <2>1. q # r /\ step[q] = "commit" /\ next'[q] = next[q]
    BY <1>1, <1>2
  <2>2. next[q] \in Token \ known /\ \A p \in Session \ {q} : next[p] # next[q]
    BY <2>1 DEF SuccessorInv
  <2>3. next[q] \notin known'
    BY <2>1, <2>2
  <2>4. \A p \in Session \ {q} : next'[p] # next'[q]
    BY <1>1, <2>1, <2>2 DEF Auth!SessionAssumption
  <2> QED BY <2>1, <2>2, <2>3, <2>4
<1> QED BY <1>1, <1>2 DEF SuccessorInv

\* Steps of one request that change no table.
LEMMA RequestSteps ==
    ASSUME Auth!SessionAssumption, AuthInv, NEW r \in Session,
           \/ \E t \in Token : Auth!Refresh(r, t) \/ Auth!DeleteRow(r, t)
           \/ Auth!Select(r) \/ Auth!Refuse(r) \/ Auth!Reuse(r) \/ Auth!Exchange(r)
           \/ Auth!Logout(r) \/ Auth!Fail(r)
    PROVE  AuthInv'
<1> USE Auth!SessionAssumption DEF AuthInv, Auth!tables
<1>1. CASE \E t \in Token : Auth!Refresh(r, t)
  <2>1. Auth!TypeOK' /\ LockInv' /\ SuccessorInv' /\ SessionInv' /\ SeenInv'
    BY <1>1 DEF Auth!Refresh, Auth!TypeOK, LockInv, SuccessorInv, SessionInv, SeenInv,
                Auth!Sessions
  <2>2. Auth!SessionsHold' /\ Auth!ReuseIsNoticed'
    BY <1>1 DEF Auth!Refresh, Auth!SessionsHold, Auth!OneTokenPerSession,
                Auth!SessionsEndForAReason, Auth!ReuseIsNoticed, Auth!Sessions
  <2> QED BY <2>1, <2>2
<1>2. CASE \E t \in Token : Auth!DeleteRow(r, t)
  <2>1. Auth!TypeOK' /\ SuccessorInv' /\ SessionInv' /\ SeenInv'
    BY <1>2 DEF Auth!DeleteRow, Auth!TypeOK, SuccessorInv, SessionInv, SeenInv,
                Auth!Sessions
  <2>2. LockInv'
    BY <1>2 DEF Auth!DeleteRow, Auth!TypeOK, LockInv, Auth!Held
  <2>3. Auth!SessionsHold' /\ Auth!ReuseIsNoticed'
    BY <1>2 DEF Auth!DeleteRow, Auth!SessionsHold, Auth!OneTokenPerSession,
                Auth!SessionsEndForAReason, Auth!ReuseIsNoticed, Auth!Sessions
  <2> QED BY <2>1, <2>2, <2>3
<1>3. CASE Auth!Select(r)
  <2>1. Auth!TypeOK' /\ SuccessorInv' /\ SessionInv' /\ SeenInv'
    BY <1>3 DEF Auth!Select, Auth!TypeOK, SuccessorInv, SessionInv, SeenInv, Auth!Sessions
  <2>2. LockInv'
    BY <1>3 DEF Auth!Select, Auth!TypeOK, LockInv, Auth!Held
  <2>3. Auth!SessionsHold' /\ Auth!ReuseIsNoticed'
    BY <1>3 DEF Auth!Select, Auth!SessionsHold, Auth!OneTokenPerSession,
                Auth!SessionsEndForAReason, Auth!ReuseIsNoticed, Auth!Sessions
  <2> QED BY <2>1, <2>2, <2>3
<1>4. CASE Auth!Refuse(r)
  <2>1. Auth!TypeOK' /\ LockInv' /\ SuccessorInv' /\ SessionInv' /\ SeenInv'
    BY <1>4 DEF Auth!Refuse, Auth!TypeOK, LockInv, SuccessorInv, SessionInv, SeenInv,
                Auth!Sessions
  <2>2. Auth!SessionsHold' /\ Auth!ReuseIsNoticed'
    BY <1>4 DEF Auth!Refuse, Auth!SessionsHold, Auth!OneTokenPerSession,
                Auth!SessionsEndForAReason, Auth!ReuseIsNoticed, Auth!Sessions
  <2> QED BY <2>1, <2>2
<1>5. CASE Auth!Reuse(r) \/ Auth!Logout(r)
  <2>1. Auth!TypeOK' /\ LockInv' /\ SuccessorInv' /\ SessionInv' /\ SeenInv'
    BY <1>5 DEF Auth!Reuse, Auth!Logout, Auth!TypeOK, LockInv, SuccessorInv, SessionInv,
                SeenInv, Auth!Sessions
  <2>2. Auth!SessionsHold' /\ Auth!ReuseIsNoticed'
    BY <1>5 DEF Auth!Reuse, Auth!Logout, Auth!SessionsHold, Auth!OneTokenPerSession,
                Auth!SessionsEndForAReason, Auth!ReuseIsNoticed, Auth!Sessions
  <2> QED BY <2>1, <2>2
<1>6. CASE Auth!Exchange(r)
  <2>1. asked[r] \in rows
    BY <1>6 DEF Auth!Exchange, LockInv
  <2>2. PICK t \in Token : Auth!Fresh(t) /\ next' = [next EXCEPT ![r] = t]
    BY <1>6, <2>1 DEF Auth!Exchange
  <2>3. t \in Token \ known /\ \A q \in Session : next[q] # t
    BY <2>2 DEF Auth!Fresh, Auth!Unused
  <2>4. /\ step[r] = "exchange" /\ step' = [step EXCEPT ![r] = "commit"]
        /\ holds' = [holds EXCEPT ![r] = {asked[r]}]
        /\ UNCHANGED <<Auth!tables, revoked, asked, seen>>
    BY <1>6, <2>1 DEF Auth!Exchange
  <2>5. Auth!TypeOK' /\ LockInv' /\ SessionInv' /\ SeenInv'
    BY <2>1, <2>2, <2>4 DEF Auth!TypeOK, LockInv, SessionInv, SeenInv, Auth!Sessions
  <2>6. SuccessorInv'
    BY <2>2, <2>3, <2>4 DEF Auth!TypeOK, SuccessorInv
  <2>7. Auth!SessionsHold' /\ Auth!ReuseIsNoticed'
    BY <2>4 DEF Auth!SessionsHold, Auth!OneTokenPerSession, Auth!SessionsEndForAReason,
                Auth!ReuseIsNoticed, Auth!Sessions
  <2> QED BY <2>5, <2>6, <2>7
<1>7. CASE Auth!Fail(r)
  <2>1. Auth!TypeOK' /\ LockInv' /\ SessionInv' /\ SeenInv'
    BY <1>7 DEF Auth!Fail, Auth!TypeOK, LockInv, SessionInv, SeenInv, Auth!Sessions
  <2>2. SuccessorInv'
    <3>1. next' = [next EXCEPT ![r] = NoToken] /\ step' = [step EXCEPT ![r] = "idle"]
      BY <1>7 DEF Auth!Fail
    <3>2. known' = known
      BY <1>7 DEF Auth!Fail
    <3> QED BY <3>1, <3>2, Forgotten DEF Auth!TypeOK
  <2>3. Auth!SessionsHold' /\ Auth!ReuseIsNoticed'
    BY <1>7 DEF Auth!Fail, Auth!SessionsHold, Auth!OneTokenPerSession,
                Auth!SessionsEndForAReason, Auth!ReuseIsNoticed, Auth!Sessions
  <2> QED BY <2>1, <2>2, <2>3
<1> QED BY <1>1, <1>2, <1>3, <1>4, <1>5, <1>6, <1>7

\* A login starts a session of its own.
LEMMA LoginStep ==
    ASSUME Auth!SessionAssumption, AuthInv, NEW t \in Token, Auth!Login(t)
    PROVE  AuthInv'
<1> USE Auth!SessionAssumption DEF AuthInv, Auth!Login, Auth!requests
<1>1. t \notin known /\ \A r \in Session : next[r] # t
  BY DEF Auth!Fresh, Auth!Unused
<1>2. Auth!TypeOK' /\ LockInv' /\ SuccessorInv' /\ SessionInv' /\ SeenInv'
  BY <1>1 DEF Auth!TypeOK, LockInv, SuccessorInv, SessionInv, SeenInv, Auth!Sessions
<1>3. Auth!OneTokenPerSession'
  BY <1>1 DEF Auth!TypeOK, SessionInv, Auth!SessionsHold, Auth!OneTokenPerSession
<1>4. Auth!SessionsEndForAReason' /\ Auth!ReuseIsNoticed'
  BY <1>1 DEF Auth!SessionsHold, Auth!SessionsEndForAReason, Auth!ReuseIsNoticed,
              Auth!Sessions
<1> QED BY <1>2, <1>3, <1>4 DEF Auth!SessionsHold

\* The successor takes its predecessor's place in the session.
LEMMA CommitStep ==
    ASSUME Auth!SessionAssumption, AuthInv, NEW r \in Session, Auth!Commit(r)
    PROVE  AuthInv'
<1> USE Auth!SessionAssumption DEF AuthInv, Auth!Commit
<1>1. /\ asked[r] \in rows /\ holds[r] = {asked[r]}
      /\ next[r] \in Token \ known
      /\ \A q \in Session \ {r} : asked[r] \notin holds[q] /\ next[q] # next[r]
  BY DEF LockInv, SuccessorInv
<1>2. Auth!TypeOK'
  BY <1>1 DEF Auth!TypeOK
<1>3. LockInv'
  BY <1>1 DEF Auth!TypeOK, LockInv
<1>4. SuccessorInv'
  <2>1. known' = known \cup {next[r]}
    OBVIOUS
  <2>2. SuccessorInv /\ next' = [next EXCEPT ![r] = NoToken] /\ step' = [step EXCEPT ![r] = "idle"]
    OBVIOUS
  <2> QED BY <1>1, <2>1, <2>2, Forgotten DEF Auth!TypeOK
<1>5. \A t \in known : session'[t] = session[t]
  BY <1>1 DEF Auth!TypeOK
<1>6. session'[next[r]] = session[asked[r]] /\ asked[r] \in known
  BY <1>1 DEF Auth!TypeOK
<1>7. SessionInv'
  BY <1>1, <1>5, <1>6 DEF Auth!TypeOK, SessionInv
<1>8. SeenInv'
  BY <1>5 DEF Auth!TypeOK, SeenInv, Auth!Sessions
<1>9. Auth!OneTokenPerSession'
  BY <1>1, <1>5, <1>6 DEF Auth!TypeOK, Auth!SessionsHold, Auth!OneTokenPerSession
<1>10. Auth!SessionsEndForAReason'
  BY <1>1, <1>5, <1>6 DEF Auth!TypeOK, Auth!SessionsHold, Auth!SessionsEndForAReason,
                          Auth!Sessions
<1>11. Auth!ReuseIsNoticed'
  BY <1>1, <1>5 DEF Auth!TypeOK, Auth!ReuseIsNoticed
<1> QED BY <1>2, <1>3, <1>4, <1>7, <1>8, <1>9, <1>10, <1>11 DEF Auth!SessionsHold

\* A DELETE of all tokens takes no session that has not ended.
LEMMA DeletedStep ==
    ASSUME Auth!SessionAssumption, AuthInv, NEW r \in Session, Auth!Deleted(r)
    PROVE  AuthInv'
<1> USE Auth!SessionAssumption DEF AuthInv, Auth!Deleted
<1>1. holds[r] \subseteq rows /\ Auth!Sessions(holds[r]) \subseteq revoked
  BY DEF LockInv, SeenInv, Auth!Sessions
<1>2. Auth!TypeOK' /\ SuccessorInv' /\ SessionInv' /\ SeenInv'
  BY DEF Auth!TypeOK, SuccessorInv, SessionInv, SeenInv, Auth!Sessions
<1>3. LockInv'
  BY DEF Auth!TypeOK, LockInv
<1>4. Auth!SessionsHold' /\ Auth!ReuseIsNoticed'
  BY <1>1 DEF Auth!TypeOK, Auth!SessionsHold, Auth!OneTokenPerSession,
              Auth!SessionsEndForAReason, Auth!ReuseIsNoticed, Auth!Sessions
<1> QED BY <1>2, <1>3, <1>4

LEMMA TimeSteps ==
    ASSUME AuthInv,
           \/ \E t \in Token : Auth!GracePasses(t) \/ Auth!Expire(t) \/ Auth!SweepToken(t)
           \/ Auth!SweepMarkers
    PROVE  AuthInv'
<1> USE DEF AuthInv, Auth!requests
<1>1. CASE \E t \in Token : Auth!GracePasses(t)
  BY <1>1 DEF Auth!GracePasses, Auth!TypeOK, LockInv, SuccessorInv, SessionInv, SeenInv,
       Auth!SessionsHold, Auth!OneTokenPerSession, Auth!SessionsEndForAReason,
       Auth!ReuseIsNoticed, Auth!Sessions
<1>2. CASE \E t \in Token : Auth!Expire(t)
  BY <1>2 DEF Auth!Expire, Auth!TypeOK, LockInv, SuccessorInv, SessionInv, SeenInv,
       Auth!SessionsHold, Auth!OneTokenPerSession, Auth!SessionsEndForAReason,
       Auth!ReuseIsNoticed, Auth!Sessions
<1>3. CASE \E t \in Token : Auth!SweepToken(t)
  BY <1>3 DEF Auth!SweepToken, Auth!TypeOK, LockInv, SuccessorInv, SessionInv, SeenInv,
       Auth!SessionsHold, Auth!OneTokenPerSession, Auth!SessionsEndForAReason,
       Auth!ReuseIsNoticed, Auth!Sessions
<1>4. CASE Auth!SweepMarkers
  BY <1>4 DEF Auth!SweepMarkers, Auth!TypeOK, LockInv, SuccessorInv, SessionInv, SeenInv,
       Auth!SessionsHold, Auth!OneTokenPerSession, Auth!SessionsEndForAReason,
       Auth!ReuseIsNoticed, Auth!Sessions
<1> QED BY <1>1, <1>2, <1>3, <1>4

LEMMA AuthStuttering == ASSUME AuthInv, UNCHANGED Auth!vars PROVE AuthInv'
  BY DEF AuthInv, Auth!vars, Auth!TypeOK, LockInv, SuccessorInv, SessionInv, SeenInv,
         Auth!SessionsHold,
         Auth!OneTokenPerSession, Auth!SessionsEndForAReason, Auth!ReuseIsNoticed, Auth!Sessions

LEMMA AuthInvariance == ASSUME Auth!SessionAssumption PROVE Auth!Spec => []AuthInv
<1>1. AuthInv /\ [Auth!Next]_Auth!vars => AuthInv'
  BY RequestSteps, LoginStep, CommitStep, DeletedStep, TimeSteps, AuthStuttering
     DEF Auth!Next, Auth!Statement
<1> QED BY AuthInit, <1>1, PTL DEF Auth!Spec

-----------------------------------------------------------------------------
(***************************************************************************)
(* The theorems.                                                           *)
(***************************************************************************)

\* Whatever refreshes, logouts, failures and sweeps overlap, a session of auth.js
\* has one live token at most, and none only after a logout, a reuse or its
\* expiry.
THEOREM AuthSessionsHold ==
    ASSUME Auth!SessionAssumption PROVE Auth!Spec => []Auth!SessionsHold
<1>1. AuthInv => Auth!SessionsHold
  BY DEF AuthInv
<1> QED BY AuthInvariance, <1>1, PTL

\* A token that was exchanged is found out until it expires, unless its session
\* has ended.
THEOREM AuthReuseIsNoticed ==
    ASSUME Auth!SessionAssumption PROVE Auth!Spec => []Auth!ReuseIsNoticed
<1>1. AuthInv => Auth!ReuseIsNoticed
  BY DEF AuthInv
<1> QED BY AuthInvariance, <1>1, PTL

\* The variables of auth.js's model keep their types.
THEOREM AuthTypeOK ==
    ASSUME Auth!SessionAssumption PROVE Auth!Spec => []Auth!TypeOK
<1>1. AuthInv => Auth!TypeOK
  BY DEF AuthInv
<1> QED BY AuthInvariance, <1>1, PTL

-----------------------------------------------------------------------------
(***************************************************************************)
(* DeviceRegistration, for any number of requests and of failures, however *)
(* they and the retry job overlap.  Who is not behind is alone on his way  *)
(* (AloneInv), so what he saw of the row and of the user still holds       *)
(* (AheadInv), and what he takes away is nobody's (OwnInv, RulesInv).      *)
(***************************************************************************)

Places == {"new", "over"} \cup Registration!Registering \cup Registration!Cleaning

\* Whoever knows something, and is not behind, has no request beside him.
AloneInv ==
    \A p \in Registration!Process \ behind :
        place[p] \notin {"new", "over", "arm", "look"} => Registration!Alone(p)

\* Who is not behind deletes a user when there is no row, and has nobody else's
\* user while he registers.
AheadInv ==
    /\ \A p \in Registration!Process \ behind :
          place[p] \in {"user", "acl"} => device = Nobody
    /\ \A r \in Request \ behind :
          place[r] \in {"rules", "undo", "insert"} => user \in {r, Nobody}

\* A row is of a registration that has made it; its user is there, from its
\* creation on, unless it was taken.
OwnInv ==
    \A r \in Request :
        /\ device = r => place[r] \in {"finish", "over"} \cup Registration!Cleaning
        /\ r \notin taken => (place[r] \in {"rules", "insert"} \/ device = r => user = r)

\* So are its rules, once they are set.
RulesInv ==
    \A r \in Request \ taken : place[r] = "insert" \/ device = r => rules

RegistrationInv ==
    Registration!TypeOK /\ AloneInv /\ AheadInv /\ OwnInv /\ RulesInv

-----------------------------------------------------------------------------
LEMMA RegistrationInit ==
    ASSUME Registration!RegistrationAssumption, Registration!Init PROVE RegistrationInv
<1>1. \A p \in Registration!Process : place[p] = "new"
  BY DEF Registration!Init
<1>2. Registration!TypeOK
  <2>1. place \in [Registration!Process -> Places]
    BY DEF Registration!Init, Places
  <2>2. regFaults \in 0 .. RegistrationFaults
    BY DEF Registration!Init, Registration!RegistrationAssumption
  <2>3. rules \in BOOLEAN /\ dropped \in BOOLEAN
    BY Zenon DEF Registration!Init
  <2> QED BY <2>1, <2>2, <2>3 DEF Registration!Init, Registration!TypeOK, Places
<1>3. AloneInv /\ AheadInv
  BY <1>1 DEF AloneInv, AheadInv, Registration!Process
<1>4. OwnInv /\ RulesInv
  BY <1>1 DEF OwnInv, RulesInv, Registration!Init, Registration!Process,
              Registration!RegistrationAssumption
<1> QED BY <1>2, <1>3, <1>4 DEF RegistrationInv

\* A process goes to another place, and the others stay where they are.
LEMMA Moves ==
    ASSUME RegistrationInv, NEW p \in Registration!Process, NEW goal \in Places,
           Registration!Goes(p, goal)
    PROVE  /\ place' \in [Registration!Process -> Places]
           /\ place'[p] = goal
           /\ \A q \in Registration!Process \ {p} : place'[q] = place[q]
  BY DEF RegistrationInv, Registration!TypeOK, Registration!Goes, Places

\* While a request is on its way, those who are not behind know nothing yet.
LEMMA OnlyOne ==
    ASSUME RegistrationInv, NEW r \in Request, Registration!Engaged(r),
           NEW q \in Registration!Process \ {r}, q \notin behind
    PROVE  place[q] \in {"new", "over", "arm", "look"}
  BY DEF RegistrationInv, AloneInv, Registration!Alone

\* What a step that arms no job has to say of those behind.
LEMMA AloneStep ==
    ASSUME Registration!RegistrationAssumption, RegistrationInv,
           NEW p \in Registration!Process, NEW goal \in Places, Registration!Goes(p, goal),
           Registration!Engaged(p) \/ goal \in {"arm", "over"} \/ p = Retry,
           behind \ {p} \subseteq behind',
           p \notin behind' =>
               \/ goal \in {"new", "over", "arm", "look"}
               \/ Registration!Alone(p)
    PROVE  AloneInv'
<1>1. /\ place'[p] = goal
      /\ \A q \in Registration!Process \ {p} : place'[q] = place[q]
  BY Moves
<1>2. p \in Request \/ p = Retry
  BY DEF Registration!Process
<1>3. Request \subseteq Registration!Process /\ Retry \notin Request
  BY DEF Registration!Process, Registration!RegistrationAssumption
<1> SUFFICES ASSUME NEW q \in Registration!Process, q \notin behind',
                    place'[q] \notin {"new", "over", "arm", "look"},
                    NEW r \in Request \ {q}
             PROVE  ~Registration!Engaged(r)'
  BY DEF AloneInv, Registration!Alone
<1>4. CASE q = p
  <2>1. ~Registration!Engaged(r)
    BY <1>1, <1>4 DEF Registration!Alone
  <2> QED BY <1>1, <1>3, <1>4, <2>1 DEF Registration!Engaged, Registration!AtRest
<1>5. CASE q # p
  <2>1. q \notin behind /\ place[q] \notin {"new", "over", "arm", "look"}
    BY <1>1, <1>5
  <2>2. \A s \in Request \ {q} : ~Registration!Engaged(s)
    BY <2>1 DEF RegistrationInv, AloneInv, Registration!Alone
  <2>3. p = Retry \/ goal \in {"arm", "over"}
    BY <1>2, <1>5, <2>2
  <2> QED
    BY <1>1, <1>3, <2>2, <2>3 DEF Registration!Engaged, Registration!AtRest
<1> QED BY <1>4, <1>5

LEMMA PlaceTypes ==
    ASSUME Registration!RegistrationAssumption, Registration!TypeOK,
           [Registration!Next]_Registration!vars
    PROVE  Registration!TypeOK'
<1> DEFINE Acts(r) ==
               \/ Registration!Register(r) \/ Registration!Delete(r) \/ Registration!Arm(r)
               \/ Registration!Create(r) \/ Registration!SetRules(r)
               \/ Registration!Undo(r) \/ Registration!Insert(r) \/ Registration!Finish(r)
           Cleans(p) ==
               \/ Registration!Look(p) \/ Registration!Keep(p)
               \/ Registration!DeleteUser(p) \/ Registration!DeleteRules(p)
               \/ Registration!CloseJob(p) \/ Registration!Postpone(p)
<1> USE DEF Registration!RegistrationAssumption, Registration!Fault, Registration!observers
<1>1. CASE UNCHANGED Registration!vars
  BY <1>1 DEF Registration!vars, Registration!TypeOK
<1>2. ASSUME NEW r \in Request, Acts(r) PROVE Registration!TypeOK'
  <2> USE DEF Registration!Register, Registration!Delete, Registration!Arm,
              Registration!Create, Registration!SetRules, Registration!Undo,
              Registration!Insert, Registration!Finish, Registration!Call
  <2>1. regFaults' = regFaults \/ (regFaults < RegistrationFaults /\ regFaults' = regFaults + 1)
    BY Zenon, <1>2
  <2>2. rules' \in BOOLEAN
    BY Zenon, <1>2 DEF Registration!TypeOK
  <2>3. PICK goal \in {"over"} \cup Registration!Registering \cup Registration!Cleaning :
            place' = [place EXCEPT ![r] = goal]
    BY <1>2 DEF Registration!Goes, Registration!Ends, Registration!Registering,
                Registration!Cleaning
  <2>4. /\ device' \in Request \cup {Nobody} /\ user' \in Request \cup {Nobody}
        /\ job' \in {"none", "waiting", "due"}
    BY <1>2 DEF Registration!TypeOK
  <2>5. behind' \subseteq Registration!Process /\ taken' \subseteq Request
    BY <1>2 DEF Registration!TypeOK, Registration!Overtakes, Registration!Takes,
                Registration!Drops, Registration!Forgets, Registration!Process
  <2>6. dropped' \in BOOLEAN
    BY Zenon, <1>2 DEF Registration!TypeOK, Registration!Overtakes, Registration!Takes,
                Registration!Drops
  <2>7. r \in Registration!Process
    BY DEF Registration!Process
  <2> QED BY <2>1, <2>2, <2>3, <2>4, <2>5, <2>6, <2>7 DEF Registration!TypeOK
<1>3. ASSUME NEW p \in Registration!Process, Cleans(p) PROVE Registration!TypeOK'
  <2> USE DEF Registration!Look, Registration!Keep, Registration!DeleteUser,
              Registration!DeleteRules, Registration!CloseJob, Registration!Postpone,
              Registration!Settle, Registration!Call
  <2>1. regFaults' = regFaults \/ (regFaults < RegistrationFaults /\ regFaults' = regFaults + 1)
    BY Zenon, <1>3
  <2>2. rules' \in BOOLEAN
    BY Zenon, <1>3 DEF Registration!TypeOK
  <2>3. PICK goal \in {"new", "over"} \cup Registration!Cleaning :
            place' = [place EXCEPT ![p] = goal]
    BY <1>3 DEF Registration!Goes, Registration!Ends, Registration!Cleaning
  <2>4. /\ device' = device /\ user' \in Request \cup {Nobody}
        /\ job' \in {"none", "waiting", "due"}
    BY <1>3 DEF Registration!TypeOK
  <2>5. behind' \subseteq Registration!Process /\ taken' \subseteq Request
    BY <1>3 DEF Registration!TypeOK, Registration!Looks, Registration!Takes,
                Registration!Drops, Registration!Forgets
  <2>6. dropped' \in BOOLEAN
    BY Zenon, <1>3 DEF Registration!TypeOK, Registration!Looks, Registration!Takes,
                Registration!Drops
  <2> QED BY <2>1, <2>2, <2>3, <2>4, <2>5, <2>6 DEF Registration!TypeOK
<1>4. CASE Registration!JobFallsDue
  BY <1>4 DEF Registration!JobFallsDue, Registration!TypeOK
<1>5. CASE Registration!TakeUp
  BY <1>5 DEF Registration!TakeUp, Registration!Goes, Registration!Cleaning,
              Registration!TypeOK
<1>6. CASE Registration!Crash
  BY <1>6 DEF Registration!Crash, Registration!TypeOK
<1> QED
  BY <1>1, <1>2, <1>3, <1>4, <1>5, <1>6
     DEF Registration!Next, Registration!RequestStep, Registration!CleanupStep,
         Registration!Process

\* What processes know of each other, and what is theirs.
Owned == AloneInv /\ AheadInv /\ OwnInv /\ RulesInv

\* A step that changes neither row nor user, and begins no change of them, except
\* by one who has just seen that there is no row.
LEMMA QuietStep ==
    ASSUME Registration!RegistrationAssumption, RegistrationInv,
           NEW p \in Registration!Process,
           NEW goal \in {"new", "over", "arm", "look", "keep", "user"},
           Registration!Goes(p, goal),
           Registration!Engaged(p) \/ goal \in {"arm", "over"} \/ p = Retry,
           UNCHANGED <<device, user, rules>>,
           behind \ {p} \subseteq behind',
           goal \in {"keep", "user"} /\ p \notin behind' => Registration!Alone(p),
           goal = "user" => device = Nobody,
           goal \in {"new", "arm"} => p = Retry \/ device # p,
           \A r \in taken : r \in taken' \/ (r = p /\ r # device)
    PROVE  Owned'
<1>1. goal \in Places
  BY DEF Places, Registration!Registering, Registration!Cleaning
<1>2. /\ place'[p] = goal
      /\ \A q \in Registration!Process \ {p} : place'[q] = place[q]
  BY <1>1, Moves
<1>3. Request \subseteq Registration!Process
  BY DEF Registration!Process
<1>4. AloneInv'
  BY <1>1, AloneStep
<1>5. AheadInv'
  BY <1>2, <1>3 DEF RegistrationInv, AheadInv
<1>6. OwnInv'
  BY <1>2, <1>3
     DEF RegistrationInv, OwnInv, Registration!Cleaning, Registration!RegistrationAssumption
<1>7. RulesInv'
  BY <1>2, <1>3 DEF RegistrationInv, RulesInv
<1> QED BY <1>4, <1>5, <1>6, <1>7 DEF Owned

LEMMA RegisteringSteps ==
    ASSUME Registration!RegistrationAssumption, RegistrationInv, NEW r \in Request,
           \/ Registration!Register(r) \/ Registration!Arm(r) \/ Registration!Create(r)
           \/ Registration!SetRules(r) \/ Registration!Undo(r) \/ Registration!Insert(r)
           \/ Registration!Finish(r) \/ Registration!Delete(r)
    PROVE  Owned'
<1> USE DEF Registration!RegistrationAssumption
<1>1. r \in Registration!Process /\ r # Retry /\ Request \subseteq Registration!Process
  BY DEF Registration!Process
<1>2. /\ device \in Request \cup {Nobody} /\ user \in Request \cup {Nobody}
      /\ rules \in BOOLEAN
  BY DEF RegistrationInv, Registration!TypeOK
<1>3. PICK goal \in Places : Registration!Goes(r, goal)
  BY <1>1 DEF Registration!Register, Registration!Arm, Registration!Create,
              Registration!SetRules, Registration!Undo, Registration!Insert,
              Registration!Finish, Registration!Delete, Registration!Call,
              Registration!Goes, Registration!Ends, Places, Registration!Registering,
              Registration!Cleaning
<1>4. /\ place' \in [Registration!Process -> Places]
      /\ place'[r] = goal
      /\ \A q \in Registration!Process \ {r} : place'[q] = place[q]
  BY <1>1, <1>3, Moves
<1>5. \A s : Registration!Goes(r, s) => goal = s
  BY <1>1, <1>4 DEF Registration!Goes, RegistrationInv, Registration!TypeOK
<1>6. \A q \in Registration!Process \ {r} :
          Registration!Engaged(r) /\ q \notin behind
              => place[q] \in {"new", "over", "arm", "look"}
  BY OnlyOne
<1>7. place[r] \notin {"finish", "over"} \cup Registration!Cleaning => device # r
  BY DEF RegistrationInv, OwnInv
<1>8. ASSUME Registration!Overtakes(r), goal \in {"create", "look"},
             UNCHANGED <<user, rules>>, device' \in {device, Nobody}, device # r
      PROVE  Owned'
  <2>1. \A q \in Registration!Process \ behind' : place'[q] \in {"new", "over", "arm"} \/ q = r
    BY <1>4, <1>8 DEF Registration!Overtakes, Registration!Engaged, Registration!AtRest
  <2>2. r \notin behind' => Registration!Alone(r)
    BY <1>8 DEF Registration!Overtakes
  <2>3. AloneInv'
    BY <1>1, <1>4, <2>1, <2>2
       DEF AloneInv, Registration!Alone, Registration!Engaged, Registration!AtRest
  <2>4. AheadInv'
    BY <1>1, <1>4, <1>8, <2>1 DEF AheadInv
  <2>5. ASSUME NEW q \in Request, place'[q] \in {"rules", "insert"} \/ device' = q
        PROVE  /\ place[q] = place'[q] /\ q # r
               /\ q \notin taken' => q \notin taken
               /\ device' = q => device = q
    BY <1>1, <1>2, <1>4, <1>8, <2>5
       DEF Registration!Overtakes, Registration!Engaged, Registration!AtRest
  <2>6. OwnInv'
    BY <1>1, <1>2, <1>4, <1>8, <2>5 DEF RegistrationInv, OwnInv
  <2>7. RulesInv'
    BY <1>1, <1>8, <2>5 DEF RegistrationInv, RulesInv
  <2> QED BY <2>3, <2>4, <2>6, <2>7 DEF Owned
<1>9. CASE Registration!Register(r)
  <2>1. /\ goal = "arm" /\ place[r] = "new"
        /\ UNCHANGED <<device, user, rules, behind, taken>>
    BY <1>5, <1>9 DEF Registration!Register, Registration!observers
  <2>2. device # r
    BY <1>7, <2>1 DEF Registration!Cleaning
  <2> QED BY <1>1, <1>3, <2>1, <2>2, QuietStep
<1>10. CASE Registration!Arm(r)
  <2>1. place[r] = "arm" /\ UNCHANGED <<device, user, rules>>
    BY <1>10 DEF Registration!Arm
  <2>2. device # r
    BY <1>7, <2>1 DEF Registration!Cleaning
  <2>3. CASE Registration!Overtakes(r) /\ goal = "create"
    BY <1>8, <2>1, <2>2, <2>3
  <2>4. CASE UNCHANGED <<behind, taken>> /\ goal = "over"
    BY <1>1, <1>3, <2>1, <2>4, QuietStep
  <2>5. \/ Registration!Overtakes(r) /\ Registration!Goes(r, "create")
        \/ Registration!Ends(r) /\ UNCHANGED Registration!observers
    BY Zenon, <1>10 DEF Registration!Arm
  <2> QED
    BY <1>1, <1>5, <2>3, <2>4, <2>5 DEF Registration!Ends, Registration!observers
<1>11. CASE Registration!Create(r)
  <2>1. /\ place[r] = "create" /\ Registration!Engaged(r)
        /\ UNCHANGED <<device, rules, behind, taken>>
    BY <1>11 DEF Registration!Create, Registration!observers, Registration!Engaged,
                 Registration!AtRest
  <2>2. device # r
    BY <1>7, <2>1 DEF Registration!Cleaning
  <2>3. CASE user' = user /\ goal = "look"
    BY <1>1, <1>3, <2>1, <2>3, QuietStep
  <2>4. CASE user = Nobody /\ user' = r /\ goal \in {"rules", "look"}
    <3>1. AloneInv'
      <4>1. r \notin behind' => Registration!Alone(r)
        BY <1>1, <2>1 DEF RegistrationInv, AloneInv
      <4> QED BY <1>1, <1>3, <2>1, <4>1, AloneStep
    <3>2. AheadInv'
      BY <1>1, <1>4, <1>6, <2>1, <2>4 DEF RegistrationInv, AheadInv
    <3>3. OwnInv'
      BY <1>1, <1>4, <2>1, <2>2, <2>4 DEF RegistrationInv, OwnInv, Registration!Cleaning
    <3>4. RulesInv'
      BY <1>1, <1>4, <2>1, <2>2, <2>4 DEF RegistrationInv, RulesInv
    <3> QED BY <3>1, <3>2, <3>3, <3>4 DEF Owned
  <2>5. \/ user = Nobody /\ user' = r
              /\ (Registration!Goes(r, "rules") \/ Registration!Goes(r, "look"))
        \/ user' = user /\ Registration!Goes(r, "look")
    BY Zenon, <1>11 DEF Registration!Create, Registration!Call
  <2> QED BY <1>5, <2>3, <2>4, <2>5
<1>12. CASE Registration!SetRules(r)
  <2>1. /\ place[r] = "rules" /\ Registration!Engaged(r)
        /\ UNCHANGED <<device, user, behind, taken>>
    BY <1>12 DEF Registration!SetRules, Registration!observers, Registration!Engaged,
                 Registration!AtRest
  <2>2. device # r
    BY <1>7, <2>1 DEF Registration!Cleaning
  <2>3. rules' = TRUE \/ (rules' = rules /\ Registration!Goes(r, "undo"))
    BY Zenon, <1>12 DEF Registration!SetRules, Registration!Call
  <2>4. goal \in {"insert", "undo"}
    <3>1. Registration!Goes(r, "insert") \/ Registration!Goes(r, "undo")
      BY Zenon, <1>12 DEF Registration!SetRules, Registration!Call
    <3> QED BY <1>5, <3>1
  <2>5. AloneInv'
    <3>1. r \notin behind' => Registration!Alone(r)
      BY <1>1, <2>1 DEF RegistrationInv, AloneInv
    <3> QED BY <1>1, <1>3, <2>1, <3>1, AloneStep
  <2>6. AheadInv'
    BY <1>1, <1>4, <2>1, <2>4 DEF RegistrationInv, AheadInv
  <2>7. OwnInv'
    BY <1>1, <1>4, <2>1, <2>2, <2>4 DEF RegistrationInv, OwnInv
  <2>8. RulesInv'
    <3>1. CASE rules' = TRUE
      BY Zenon, <3>1 DEF RulesInv
    <3>2. CASE rules' = rules /\ Registration!Goes(r, "undo")
      <4>1. goal = "undo"
        BY <1>5, <3>2
      <4> QED BY <1>1, <1>4, <2>1, <2>2, <3>2, <4>1 DEF RegistrationInv, RulesInv
    <3> QED BY <2>3, <3>1, <3>2
  <2> QED BY <2>5, <2>6, <2>7, <2>8 DEF Owned
<1>13. CASE Registration!Undo(r)
  <2>1. /\ place[r] = "undo" /\ Registration!Engaged(r)
        /\ UNCHANGED <<device, rules, behind>>
    BY <1>13 DEF Registration!Undo, Registration!Takes, Registration!Engaged,
                 Registration!AtRest
  <2>2. device # r
    BY <1>7, <2>1 DEF Registration!Cleaning
  <2>3. goal = "look" /\ user' \in {user, Nobody}
    BY <1>5, <1>13 DEF Registration!Undo, Registration!Call
  <2>4. taken' = IF r \in behind /\ user' # user THEN taken \cup ({user} \ {Nobody}) ELSE taken
    BY <1>13 DEF Registration!Undo, Registration!Takes
  <2>5. r \notin behind => user \in {r, Nobody}
    BY <2>1 DEF RegistrationInv, AheadInv
  <2>6. AloneInv'
    BY <1>1, <1>3, <2>1, <2>3, AloneStep
  <2>7. AheadInv'
    BY <1>1, <1>4, <2>1, <2>3 DEF RegistrationInv, AheadInv
  <2>8. OwnInv'
    BY <1>1, <1>2, <1>4, <2>1, <2>2, <2>3, <2>4, <2>5 DEF RegistrationInv, OwnInv
  <2>9. RulesInv'
    BY <1>1, <1>4, <2>1, <2>2, <2>3, <2>4 DEF RegistrationInv, RulesInv
  <2> QED BY <2>6, <2>7, <2>8, <2>9 DEF Owned
<1>14. CASE Registration!Insert(r)
  <2>1. /\ place[r] = "insert" /\ Registration!Engaged(r)
        /\ UNCHANGED <<user, rules, behind, taken>>
    BY <1>14 DEF Registration!Insert, Registration!observers, Registration!Engaged,
                 Registration!AtRest
  <2>2. CASE device' = device /\ goal = "look"
    BY <1>1, <1>3, <2>1, <2>2, QuietStep
  <2>3. CASE device = Nobody /\ device' = r /\ goal = "finish"
    <3>1. AloneInv'
      <4>1. r \notin behind' => Registration!Alone(r)
        BY <1>1, <2>1 DEF RegistrationInv, AloneInv
      <4> QED BY <1>1, <1>3, <2>1, <4>1, AloneStep
    <3>2. AheadInv'
      BY <1>1, <1>4, <1>6, <2>1, <2>3 DEF RegistrationInv, AheadInv
    <3>3. OwnInv'
      BY <1>1, <1>4, <2>1, <2>3 DEF RegistrationInv, OwnInv
    <3>4. RulesInv'
      BY <1>1, <1>4, <2>1, <2>3 DEF RegistrationInv, RulesInv
    <3> QED BY <3>1, <3>2, <3>3, <3>4 DEF Owned
  <2>4. \/ device = Nobody /\ device' = r /\ Registration!Goes(r, "finish")
        \/ device' = device /\ Registration!Goes(r, "look")
    BY Zenon, <1>14 DEF Registration!Insert
  <2> QED BY <1>5, <2>2, <2>3, <2>4
<1>15. CASE Registration!Finish(r)
  <2>1. /\ place[r] = "finish" /\ Registration!Engaged(r)
        /\ UNCHANGED <<device, user, rules>>
        /\ behind' = behind \ {r} /\ taken' = IF r = device THEN taken ELSE taken \ {r}
    BY <1>15 DEF Registration!Finish, Registration!Drops, Registration!Forgets,
                 Registration!Engaged, Registration!AtRest
  <2>2. goal \in {"over", "look"}
    BY <1>1, <1>5, <1>15 DEF Registration!Finish, Registration!Ends
  <2> QED BY <1>1, <1>3, <2>1, <2>2, QuietStep
<1>16. CASE Registration!Delete(r)
  <2>1. /\ Registration!Overtakes(r) /\ goal = "look" /\ place[r] = "new"
        /\ UNCHANGED <<user, rules>> /\ device' = Nobody
    BY <1>5, <1>16 DEF Registration!Delete
  <2>2. device # r
    BY <1>7, <2>1 DEF Registration!Cleaning
  <2> QED BY <1>8, <2>1, <2>2
<1> QED BY <1>9, <1>10, <1>11, <1>12, <1>13, <1>14, <1>15, <1>16

LEMMA CleanupSteps ==
    ASSUME Registration!RegistrationAssumption, RegistrationInv,
           NEW p \in Registration!Process, Registration!CleanupStep(p)
    PROVE  Owned'
<1> USE DEF Registration!RegistrationAssumption
<1>1. Request \subseteq Registration!Process
  BY DEF Registration!Process
<1>2. /\ device \in Request \cup {Nobody} /\ user \in Request \cup {Nobody}
      /\ rules \in BOOLEAN
  BY DEF RegistrationInv, Registration!TypeOK
<1>3. PICK goal \in {"new", "over"} \cup Registration!Cleaning : Registration!Goes(p, goal)
  BY DEF Registration!CleanupStep, Registration!Look, Registration!Keep,
         Registration!DeleteUser, Registration!DeleteRules, Registration!CloseJob,
         Registration!Postpone, Registration!Settle, Registration!Call,
         Registration!Goes, Registration!Ends, Registration!Cleaning
<1>4. /\ goal \in Places /\ place'[p] = goal
      /\ \A q \in Registration!Process \ {p} : place'[q] = place[q]
  <2>1. goal \in Places
    BY DEF Places
  <2> QED BY <1>3, <2>1, Moves
<1>5. \A s : Registration!Goes(p, s) => goal = s
  BY <1>3, <1>4 DEF Registration!Goes, RegistrationInv, Registration!TypeOK
<1>6. Registration!Engaged(p)
  BY DEF Registration!CleanupStep, Registration!Look, Registration!Keep,
         Registration!DeleteUser, Registration!DeleteRules, Registration!CloseJob,
         Registration!Postpone, Registration!Settle, Registration!Engaged,
         Registration!AtRest
<1>7. Registration!Ends(p) => goal \in {"new", "over"} /\ (goal = "new" => p = Retry)
  BY <1>5 DEF Registration!Ends
<1>8. ASSUME Registration!Forgets(p)
      PROVE  \A r \in taken : r \in taken' \/ (r = p /\ r # device)
  BY <1>8 DEF Registration!Forgets
<1>9. CASE Registration!Look(p)
  <2>1. /\ UNCHANGED <<device, user, rules>> /\ Registration!Forgets(p)
        /\ behind \ {p} \subseteq behind' /\ (p \notin behind' => Registration!Alone(p))
    BY <1>9 DEF Registration!Look, Registration!Looks
  <2>2. \/ Registration!Ends(p)
        \/ Registration!Goes(p, "user") /\ device = Nobody
        \/ Registration!Goes(p, "keep")
    BY Zenon, <1>9 DEF Registration!Look
  <2>3. /\ goal \in {"new", "over", "keep", "user"}
        /\ goal = "user" => device = Nobody
        /\ goal = "new" => p = Retry
    BY <1>5, <1>7, <2>2
  <2> QED BY <1>3, <1>6, <1>8, <2>1, <2>3, QuietStep
<1>10. CASE Registration!Keep(p) \/ Registration!CloseJob(p) \/ Registration!Postpone(p)
  <2>1. /\ UNCHANGED <<device, user, rules>> /\ Registration!Forgets(p)
        /\ behind' = behind \ {p} /\ Registration!Ends(p)
    BY <1>10 DEF Registration!Keep, Registration!CloseJob, Registration!Postpone,
                 Registration!Settle, Registration!Drops
  <2>2. goal \in {"new", "over"} /\ (goal = "new" => p = Retry)
    BY <1>7, <2>1
  <2> QED BY <1>3, <1>6, <1>8, <2>1, <2>2, QuietStep
<1>11. ASSUME place[p] \in {"user", "acl"}, goal \in {"acl", "close", "postpone"},
              UNCHANGED <<device, behind>>, user' \in {user, Nobody},
              taken' = IF p \in behind /\ (user' # user \/ rules' # rules)
                       THEN taken \cup ({user} \ {Nobody}) ELSE taken
       PROVE  Owned'
  <2>1. p \notin behind => Registration!Alone(p) /\ device = Nobody
    BY <1>11 DEF RegistrationInv, AloneInv, AheadInv
  <2>2. AloneInv'
    BY <1>3, <1>4, <1>6, <1>11, <2>1, AloneStep
  <2>3. AheadInv'
    BY <1>1, <1>2, <1>4, <1>11, <2>1 DEF RegistrationInv, AheadInv
  <2>4. ASSUME NEW r \in Request \ taken', place'[r] \in {"rules", "insert"} \/ device' = r
        PROVE  /\ r \notin taken /\ user = r /\ user' = user /\ rules' = rules
               /\ place'[r] = "insert" => place[r] = "insert"
    <3>1. r \notin taken
      BY <1>11, <2>4
    <3>2. place[r] = place'[r] \/ r = p
      BY <1>1, <1>4
    <3>3. place[r] \in {"rules", "insert"} \/ device = r
      BY <1>4, <1>11, <2>4, <3>2
    <3>4. user = r
      BY <3>1, <3>3 DEF RegistrationInv, OwnInv
    <3>5. p \in behind
      <4>1. SUFFICES ASSUME p \notin behind PROVE FALSE
        OBVIOUS
      <4>2. ~Registration!Engaged(r) \/ r = p
        BY <2>1, <4>1 DEF Registration!Alone
      <4> QED
        BY <1>11, <2>1, <3>3, <4>1, <4>2 DEF Registration!Engaged, Registration!AtRest
    <3>6. user' = user /\ rules' = rules
      BY <1>2, <1>11, <2>4, <3>4, <3>5
    <3> QED BY <1>4, <1>11, <3>1, <3>2, <3>4, <3>6
  <2>5. OwnInv'
    BY <1>1, <1>4, <1>11, <2>4 DEF RegistrationInv, OwnInv, Registration!Cleaning
  <2>6. RulesInv'
    BY <1>11, <2>4 DEF RegistrationInv, RulesInv
  <2> QED BY <2>2, <2>3, <2>5, <2>6 DEF Owned
<1>12. CASE Registration!DeleteUser(p)
  <2>1. /\ place[p] = "user" /\ UNCHANGED <<device, rules, behind>>
        /\ taken' = IF p \in behind /\ user' # user
                    THEN taken \cup ({user} \ {Nobody}) ELSE taken
    BY <1>12 DEF Registration!DeleteUser, Registration!Takes
  <2>2. /\ user' = Nobody \/ user' = user
        /\ Registration!Goes(p, "acl") \/ Registration!Goes(p, "postpone")
    BY Zenon, <1>12 DEF Registration!DeleteUser, Registration!Call
  <2>3. goal \in {"acl", "postpone"}
    BY <1>5, <2>2
  <2> QED BY <1>11, <2>1, <2>2, <2>3
<1>13. CASE Registration!DeleteRules(p)
  <2>1. /\ place[p] = "acl" /\ UNCHANGED <<device, user, behind>>
        /\ taken' = IF p \in behind /\ rules' # rules
                    THEN taken \cup ({user} \ {Nobody}) ELSE taken
    BY <1>13 DEF Registration!DeleteRules, Registration!Takes
  <2>2. Registration!Goes(p, "close") \/ Registration!Goes(p, "postpone")
    BY Zenon, <1>13 DEF Registration!DeleteRules, Registration!Call
  <2>3. goal \in {"close", "postpone"}
    BY <1>5, <2>2
  <2> QED BY <1>11, <2>1, <2>3
<1> QED BY <1>9, <1>10, <1>12, <1>13 DEF Registration!CleanupStep

LEMMA OtherSteps ==
    ASSUME Registration!RegistrationAssumption, RegistrationInv,
           \/ Registration!JobFallsDue \/ Registration!TakeUp \/ Registration!Crash
           \/ UNCHANGED Registration!vars
    PROVE  Owned'
<1>1. CASE Registration!JobFallsDue \/ UNCHANGED Registration!vars
  <2>1. UNCHANGED <<device, user, rules, place, behind, taken>>
    BY <1>1 DEF Registration!JobFallsDue, Registration!vars, Registration!observers
  <2>2. AloneInv' /\ AheadInv' /\ OwnInv'
    BY <2>1 DEF RegistrationInv, AloneInv, AheadInv, OwnInv, Registration!Alone,
                Registration!Engaged, Registration!AtRest
  <2>3. RulesInv'
    BY <2>1 DEF RegistrationInv, RulesInv
  <2> QED BY <2>2, <2>3 DEF Owned
<1>2. CASE Registration!TakeUp
  <2>1. Retry \in Registration!Process
    BY DEF Registration!Process
  <2> QED
    BY <1>2, <2>1, QuietStep DEF Registration!TakeUp, Registration!observers
<1>3. CASE Registration!Crash
  <2>1. /\ UNCHANGED <<device, user, rules>> /\ taken' = taken \cap {device}
        /\ \A p \in Registration!Process :
              place'[p] = IF Registration!AtRest(p) THEN place[p]
                          ELSE IF p = Retry THEN "new" ELSE "over"
    BY <1>3 DEF Registration!Crash
  <2>2. \A p \in Registration!Process : place'[p] \in {"new", "over"}
    BY <2>1 DEF Registration!AtRest
  <2>3. Request \subseteq Registration!Process /\ Retry \notin Request
    BY DEF Registration!Process, Registration!RegistrationAssumption
  <2>4. AloneInv' /\ AheadInv'
    BY <2>2, <2>3 DEF AloneInv, AheadInv
  <2>5. OwnInv'
    BY <2>1, <2>2, <2>3
       DEF RegistrationInv, OwnInv, Registration!Cleaning, Registration!AtRest
  <2>6. RulesInv'
    BY <2>1, <2>2, <2>3 DEF RegistrationInv, RulesInv
  <2> QED BY <2>4, <2>5, <2>6 DEF Owned
<1> QED BY <1>1, <1>2, <1>3

LEMMA RegistrationInvStep ==
    ASSUME Registration!RegistrationAssumption, RegistrationInv,
           [Registration!Next]_Registration!vars
    PROVE  RegistrationInv'
<1>1. Registration!TypeOK'
  BY PlaceTypes DEF RegistrationInv
<1>2. Owned'
  BY RegisteringSteps, CleanupSteps, OtherSteps
     DEF Registration!Next, Registration!RequestStep, Registration!Process
<1> QED BY <1>1, <1>2 DEF RegistrationInv, Owned

LEMMA RegistrationInvariance ==
    ASSUME Registration!RegistrationAssumption
    PROVE  Registration!Spec => []RegistrationInv
  BY RegistrationInit, RegistrationInvStep, PTL DEF Registration!Spec

-----------------------------------------------------------------------------
(***************************************************************************)
(* The theorems.                                                           *)
(***************************************************************************)

\* However often a device is registered and deleted, however requests and the
\* retry job overlap, whichever calls fail and wherever the server restarts: a
\* device that has its row has its user and rules, unless a cleanup or an undone
\* registration that was behind has taken them.
THEOREM RegistrationSecretIsValid ==
    ASSUME Registration!RegistrationAssumption
    PROVE  Registration!Spec => []Registration!SecretIsValid
<1>1. RegistrationInv => Registration!SecretIsValid
  BY DEF RegistrationInv, Registration!TypeOK, OwnInv, RulesInv, Registration!SecretIsValid
<1> QED BY RegistrationInvariance, <1>1, PTL

-----------------------------------------------------------------------------
(***************************************************************************)
(* DeviceShadow, for any number of calls and of failures.  Versions order  *)
(* the copies of the row (OrderInv), so a write to the cache never makes   *)
(* it older; hence a cache that is not empty has every write that was      *)
(* answered, and while it is empty so has whoever is about to fill it      *)
(* (CacheInv).                                                             *)
(***************************************************************************)

\* One load at a time, and whoever joined waits for it.
LeaderInv ==
    /\ \A c \in Caller : at[c] \in {"load", "fill"} => leader = c
    /\ leader # NoCaller => at[leader] \in {"load", "fill"}
    /\ \A c \in Caller : at[c] = "join" => leader # NoCaller

\* What is in hand was read from a row that exists.
FoundInv ==
    /\ \A c \in Caller : at[c] \in {"fill", "store"} => got[c] # Shadow!Empty
    /\ \A c \in Caller : at[c] = "reread" => row # Shadow!Empty

Copies == {Shadow!Empty, row, cache} \cup {got[c] : c \in Caller}

\* Of two copies the one with the higher version has more of the writes, and
\* none has more than the row.
OrderInv ==
    /\ \A v, w \in Copies : v.version <= w.version => v.n <= w.n
    /\ \A v \in Copies : v.version <= row.version

AckedInv ==
    /\ acked <= row.n
    /\ \A c \in Caller : floor[c] <= acked

\* What the cache has, what is about to be put there, and what a load has for
\* those who wait for it.
CacheInv ==
    /\ cache # Shadow!Empty => cache.n >= acked
    /\ cache = Shadow!Empty =>
           \A c \in Caller : at[c] \in {"fill", "store"} => got[c].n >= acked
    /\ \A c, d \in Caller :
           at[c] = "fill" /\ (d = c \/ at[d] \in {"miss", "join"}) => got[c].n >= floor[d]

ShadowInv ==
    /\ Shadow!TypeOK /\ LeaderInv /\ FoundInv
    /\ sound => OrderInv /\ AckedInv /\ CacheInv /\ Shadow!ReadsAreFresh

-----------------------------------------------------------------------------
(***************************************************************************)
(* Types, loads and rows, whether the system is sound or not.              *)
(***************************************************************************)
LEMMA FaultTypes ==
    ASSUME Shadow!ShadowAssumption, Shadow!TypeOK,
           UNCHANGED Shadow!failures \/ Shadow!Unsound \/ (Shadow!Fault /\ UNCHANGED sound)
    PROVE  /\ sound' \in BOOLEAN /\ faults' \in 0 .. ShadowFaults
           /\ sound' => sound
<1>1. sound' \in BOOLEAN
  BY Zenon DEF Shadow!TypeOK, Shadow!failures, Shadow!Unsound
<1>2. faults' \in 0 .. ShadowFaults
  <2>1. faults' = faults \/ Shadow!Fault
    BY Zenon DEF Shadow!failures, Shadow!Unsound, Shadow!Fault
  <2> QED BY <2>1 DEF Shadow!TypeOK, Shadow!Fault, Shadow!ShadowAssumption
<1>3. sound' => sound
  BY Zenon DEF Shadow!TypeOK, Shadow!failures, Shadow!Unsound
<1> QED BY <1>1, <1>2, <1>3

LEMMA FaultsStep ==
    ASSUME Shadow!ShadowAssumption, Shadow!TypeOK, [Shadow!Next]_Shadow!vars
    PROVE  /\ sound' \in BOOLEAN /\ faults' \in 0 .. ShadowFaults
           /\ sound' => sound
<1>1. UNCHANGED Shadow!failures \/ Shadow!Unsound \/ (Shadow!Fault /\ UNCHANGED sound)
  BY Zenon DEF Shadow!Next, Shadow!CallStep, Shadow!Come, Shadow!Read, Shadow!Miss,
               Shadow!Load, Shadow!Fill, Shadow!Write, Shadow!Merge, Shadow!Stale,
                 Shadow!Reread,
         Shadow!Store, Shadow!WriteCache, Shadow!Expire, Shadow!Fail, Shadow!vars, Shadow!failures
<1> QED BY <1>1, FaultTypes

LEMMA CacheTypes ==
    ASSUME Shadow!TypeOK, NEW shadow \in Shadow!Shadow, Shadow!WriteCache(shadow)
    PROVE  cache' \in Shadow!Shadow
  BY DEF Shadow!TypeOK, Shadow!WriteCache, Shadow!Shadow, Shadow!Empty

LEMMA TypeStep ==
    ASSUME Shadow!ShadowAssumption, Shadow!TypeOK, [Shadow!Next]_Shadow!vars
    PROVE  Shadow!TypeOK'
<1>1. sound' \in BOOLEAN /\ faults' \in 0 .. ShadowFaults
  BY FaultsStep
<1>2. Shadow!Empty \in Shadow!Shadow
  BY DEF Shadow!Empty, Shadow!Shadow
<1>3. ASSUME NEW c \in Caller, NEW k \in {"get", "desire", "report"}, Shadow!Come(c, k)
      PROVE  Shadow!TypeOK'
  BY <1>1, <1>3 DEF Shadow!TypeOK, Shadow!Come, Shadow!Goes, Shadow!store
<1>4. ASSUME NEW c \in Caller, Shadow!Read(c) PROVE Shadow!TypeOK'
  BY <1>1, <1>4 DEF Shadow!TypeOK, Shadow!Read, Shadow!Goes, Shadow!Gets, Shadow!After,
                    Shadow!store
<1>5. ASSUME NEW c \in Caller, Shadow!Miss(c) PROVE Shadow!TypeOK'
  BY <1>1, <1>5 DEF Shadow!TypeOK, Shadow!Miss, Shadow!Goes, Shadow!store
<1>6. ASSUME NEW c \in Caller, Shadow!Load(c) PROVE Shadow!TypeOK'
  BY <1>1, <1>2, <1>6 DEF Shadow!TypeOK, Shadow!Load, Shadow!LoadEnds, Shadow!Goes,
                          Shadow!Gets, Shadow!After, Shadow!store
<1>7. ASSUME NEW c \in Caller, Shadow!Fill(c) PROVE Shadow!TypeOK'
  <2>1. got[c] \in Shadow!Shadow /\ Shadow!WriteCache(got[c])
    BY <1>7 DEF Shadow!Fill, Shadow!TypeOK
  <2>2. cache' \in Shadow!Shadow
    BY <2>1, CacheTypes
  <2> QED BY <1>1, <1>7, <2>1, <2>2 DEF Shadow!TypeOK, Shadow!Fill, Shadow!LoadEnds,
                                        Shadow!After
<1>8. ASSUME NEW c \in Caller, Shadow!Write(c) PROVE Shadow!TypeOK'
  BY <1>1, <1>2, <1>8 DEF Shadow!TypeOK, Shadow!Write, Shadow!Goes, Shadow!Forget
<1>9. ASSUME NEW c \in Caller, Shadow!Merge(c) PROVE Shadow!TypeOK'
  <2>1. row' \in Shadow!Shadow
    BY <1>9 DEF Shadow!TypeOK, Shadow!Merge, Shadow!Shadow
  <2> QED BY <1>1, <1>9, <2>1 DEF Shadow!TypeOK, Shadow!Merge, Shadow!Goes, Shadow!Gets
<1>10. ASSUME NEW c \in Caller, Shadow!Stale(c) \/ Shadow!Reread(c) PROVE Shadow!TypeOK'
  BY <1>1, <1>10 DEF Shadow!TypeOK, Shadow!Stale, Shadow!Reread, Shadow!Goes, Shadow!Gets,
                     Shadow!store
<1>11. ASSUME NEW c \in Caller, Shadow!Store(c) PROVE Shadow!TypeOK'
  <2>1. got[c] \in Shadow!Shadow /\ Shadow!WriteCache(got[c])
    BY <1>11 DEF Shadow!Store, Shadow!TypeOK
  <2>2. cache' \in Shadow!Shadow
    BY <2>1, CacheTypes
  <2>3. acked' \in Nat
    BY <1>11, <2>1 DEF Shadow!Store, Shadow!TypeOK, Shadow!Shadow
  <2> QED BY <1>1, <1>2, <1>11, <2>2, <2>3 DEF Shadow!TypeOK, Shadow!Store, Shadow!Goes,
                                               Shadow!Forget
<1>12. CASE Shadow!Expire
  BY <1>1, <1>2, <1>12 DEF Shadow!TypeOK, Shadow!Expire
<1>13. ASSUME NEW calls \in SUBSET Caller, Shadow!Fail(calls) PROVE Shadow!TypeOK'
  BY <1>1, <1>2, <1>13 DEF Shadow!TypeOK, Shadow!Fail, Shadow!Forget, Shadow!store
<1>14. CASE UNCHANGED Shadow!vars
  BY <1>1, <1>14 DEF Shadow!TypeOK, Shadow!vars
<1> QED BY <1>3, <1>4, <1>5, <1>6, <1>7, <1>8, <1>9, <1>10, <1>11, <1>12, <1>13, <1>14
        DEF Shadow!Next, Shadow!CallStep

LEMMA LeaderStep ==
    ASSUME Shadow!ShadowAssumption, Shadow!TypeOK, LeaderInv, [Shadow!Next]_Shadow!vars
    PROVE  LeaderInv'
<1>1. ASSUME NEW c \in Caller, NEW k \in {"get", "desire", "report"}, Shadow!Come(c, k)
      PROVE  LeaderInv'
  BY <1>1 DEF Shadow!ShadowAssumption, Shadow!TypeOK, LeaderInv, Shadow!Come, Shadow!Goes
<1>2. ASSUME NEW c \in Caller, Shadow!Read(c) PROVE LeaderInv'
  BY <1>2 DEF Shadow!ShadowAssumption, Shadow!TypeOK, LeaderInv, Shadow!Read, Shadow!Goes,
              Shadow!After
<1>3. ASSUME NEW c \in Caller, Shadow!Miss(c) PROVE LeaderInv'
  BY <1>3 DEF Shadow!ShadowAssumption, Shadow!TypeOK, LeaderInv, Shadow!Miss, Shadow!Goes
<1>4. ASSUME NEW c \in Caller, Shadow!Load(c) PROVE LeaderInv'
  BY <1>4 DEF Shadow!ShadowAssumption, Shadow!TypeOK, LeaderInv, Shadow!Load,
              Shadow!LoadEnds, Shadow!Goes, Shadow!After
<1>5. ASSUME NEW c \in Caller, Shadow!Fill(c) PROVE LeaderInv'
  BY <1>5 DEF Shadow!ShadowAssumption, Shadow!TypeOK, LeaderInv, Shadow!Fill,
              Shadow!LoadEnds, Shadow!After
<1>6. ASSUME NEW c \in Caller,
             \/ Shadow!Write(c) \/ Shadow!Merge(c) \/ Shadow!Stale(c)
             \/ Shadow!Reread(c) \/ Shadow!Store(c)
      PROVE  LeaderInv'
  BY <1>6 DEF Shadow!ShadowAssumption, Shadow!TypeOK, LeaderInv, Shadow!Write,
              Shadow!Merge, Shadow!Stale, Shadow!Reread, Shadow!Store, Shadow!Goes
<1>7. CASE Shadow!Expire \/ UNCHANGED Shadow!vars
  BY <1>7 DEF LeaderInv, Shadow!Expire, Shadow!vars
<1>8. ASSUME NEW calls \in SUBSET Caller, Shadow!Fail(calls) PROVE LeaderInv'
  BY <1>8 DEF Shadow!ShadowAssumption, Shadow!TypeOK, LeaderInv, Shadow!Fail
<1> QED BY <1>1, <1>2, <1>3, <1>4, <1>5, <1>6, <1>7, <1>8 DEF Shadow!Next, Shadow!CallStep

LEMMA FoundStep ==
    ASSUME Shadow!ShadowAssumption, Shadow!TypeOK, LeaderInv, FoundInv, [Shadow!Next]_Shadow!vars
    PROVE  FoundInv'
<1>1. ASSUME NEW c \in Caller, NEW k \in {"get", "desire", "report"}, Shadow!Come(c, k)
      PROVE  FoundInv'
  BY <1>1 DEF Shadow!TypeOK, FoundInv, Shadow!Come, Shadow!Goes, Shadow!store
<1>2. ASSUME NEW c \in Caller, Shadow!Read(c) \/ Shadow!Miss(c) PROVE FoundInv'
  BY <1>2 DEF Shadow!TypeOK, FoundInv, Shadow!Read, Shadow!Miss, Shadow!Goes, Shadow!Gets,
              Shadow!After, Shadow!store
<1>3. ASSUME NEW c \in Caller, Shadow!Load(c) \/ Shadow!Fill(c) PROVE FoundInv'
  BY <1>3 DEF Shadow!TypeOK, LeaderInv, FoundInv, Shadow!Load, Shadow!Fill,
              Shadow!LoadEnds, Shadow!Goes, Shadow!Gets, Shadow!After, Shadow!store
<1>4. ASSUME NEW c \in Caller, Shadow!Write(c) PROVE FoundInv'
  BY <1>4 DEF Shadow!TypeOK, FoundInv, Shadow!Write, Shadow!Goes, Shadow!Forget
<1>5. ASSUME NEW c \in Caller, Shadow!Merge(c) PROVE FoundInv'
  <2>1. row' # Shadow!Empty
    BY <1>5 DEF Shadow!Merge, Shadow!TypeOK, Shadow!Shadow, Shadow!Empty
  <2> QED BY <1>5, <2>1 DEF Shadow!TypeOK, FoundInv, Shadow!Merge, Shadow!Goes, Shadow!Gets
<1>6. ASSUME NEW c \in Caller, Shadow!Stale(c) \/ Shadow!Reread(c) PROVE FoundInv'
  BY <1>6 DEF Shadow!TypeOK, FoundInv, Shadow!Stale, Shadow!Reread, Shadow!Goes,
              Shadow!Gets, Shadow!store
<1>7. ASSUME NEW c \in Caller, Shadow!Store(c) PROVE FoundInv'
  BY <1>7 DEF Shadow!TypeOK, FoundInv, Shadow!Store, Shadow!Goes, Shadow!Forget
<1>8. CASE Shadow!Expire \/ UNCHANGED Shadow!vars
  BY <1>8 DEF FoundInv, Shadow!Expire, Shadow!vars
<1>9. ASSUME NEW calls \in SUBSET Caller, Shadow!Fail(calls) PROVE FoundInv'
  BY <1>9 DEF Shadow!TypeOK, FoundInv, Shadow!Fail, Shadow!Forget, Shadow!store
<1> QED BY <1>1, <1>2, <1>3, <1>4, <1>5, <1>6, <1>7, <1>8, <1>9 DEF Shadow!Next,
                                                                    Shadow!CallStep

-----------------------------------------------------------------------------
(***************************************************************************)
(* While the system is sound.                                              *)
(***************************************************************************)
LEMMA CopiesKept ==
    ASSUME OrderInv, Copies' \subseteq Copies, row' = row
    PROVE  OrderInv'
  BY DEF OrderInv

\* What writeCachedShadow leaves when it works.
SoundWrite(shadow) == cache' = IF cache.version > shadow.version THEN cache ELSE shadow

LEMMA WriteCacheSound ==
    ASSUME Shadow!TypeOK, sound', NEW shadow, Shadow!WriteCache(shadow)
    PROVE  SoundWrite(shadow)
  BY Zenon DEF Shadow!WriteCache, Shadow!Unsound, SoundWrite

LEMMA OrderStep ==
    ASSUME Shadow!ShadowAssumption, Shadow!TypeOK, OrderInv, [Shadow!Next]_Shadow!vars, sound'
    PROVE  OrderInv'
<1>1. ASSUME NEW c \in Caller, Shadow!Merge(c) PROVE OrderInv'
  <2>1. start[c] > row.version
    BY Zenon, <1>1 DEF Shadow!Merge, Shadow!Unsound
  <2>2. row' = [n |-> row.n + 1, version |-> start[c]]
    BY <1>1 DEF Shadow!Merge
  <2>3. Copies' \subseteq Copies \cup {row'}
    BY <1>1 DEF Shadow!Merge, Shadow!Gets, Copies, Shadow!TypeOK
  <2>4. \A v \in Copies : v.version < row'.version /\ v.n < row'.n
    <3>1. \A v \in Copies : v \in Shadow!Shadow /\ row \in Shadow!Shadow /\ row \in Copies
      BY DEF Copies, Shadow!TypeOK, Shadow!Shadow, Shadow!Empty
    <3>2. \A v \in Copies : v.version <= row.version /\ v.n <= row.n
      BY <3>1 DEF OrderInv
    <3>3. start[c] \in Nat
      BY DEF Shadow!TypeOK
    <3> QED BY <2>1, <2>2, <3>1, <3>2, <3>3 DEF Shadow!Shadow
  <2>5. row' \in Shadow!Shadow /\ \A v \in Copies : v \in Shadow!Shadow
    BY <2>2 DEF Copies, Shadow!TypeOK, Shadow!Shadow, Shadow!Empty
  <2> QED BY <2>3, <2>4, <2>5 DEF OrderInv, Shadow!Shadow
<1>2. ASSUME NEW c \in Caller, Shadow!Fill(c) \/ Shadow!Store(c) PROVE OrderInv'
  <2>1. SoundWrite(got[c])
    BY <1>2, WriteCacheSound DEF Shadow!Fill, Shadow!Store
  <2>2. cache' \in {cache, got[c]} /\ row' = row
    BY <1>2, <2>1 DEF SoundWrite, Shadow!Fill, Shadow!Store
  <2>3. \A d \in Caller : got'[d] \in {got[d], got[c], Shadow!Empty}
    BY <1>2 DEF Shadow!Fill, Shadow!Store, Shadow!LoadEnds, Shadow!Forget
  <2>4. Copies' \subseteq Copies
    BY <2>2, <2>3 DEF Copies
  <2> QED BY <2>2, <2>4, CopiesKept
<1>3. CASE row' = row /\ cache' \in {cache, Shadow!Empty}
           /\ \A d \in Caller : got'[d] \in {got[d], row, cache, Shadow!Empty}
  <2>1. Copies' \subseteq Copies
    BY <1>3 DEF Copies
  <2> QED BY <1>3, <2>1, CopiesKept
<1>4. ASSUME NEW c \in Caller, NEW k \in {"get", "desire", "report"}, Shadow!Come(c, k)
      PROVE  OrderInv'
  BY <1>3, <1>4 DEF Shadow!Come, Shadow!store
<1>5. ASSUME NEW c \in Caller,
             Shadow!Read(c) \/ Shadow!Miss(c) \/ Shadow!Stale(c) \/ Shadow!Reread(c)
      PROVE  OrderInv'
  BY <1>3, <1>5 DEF Shadow!TypeOK, Shadow!Read, Shadow!Miss, Shadow!Stale, Shadow!Reread,
                    Shadow!Gets, Shadow!store
<1>6. ASSUME NEW c \in Caller, Shadow!Load(c) PROVE OrderInv'
  BY <1>3, <1>6 DEF Shadow!TypeOK, Shadow!Load, Shadow!LoadEnds, Shadow!Gets, Shadow!store
<1>7. ASSUME NEW c \in Caller, Shadow!Write(c) PROVE OrderInv'
  BY <1>3, <1>7 DEF Shadow!TypeOK, Shadow!Write, Shadow!Forget
<1>8. CASE Shadow!Expire \/ UNCHANGED Shadow!vars
  BY <1>3, <1>8 DEF Shadow!Expire, Shadow!vars
<1>9. ASSUME NEW calls \in SUBSET Caller, Shadow!Fail(calls) PROVE OrderInv'
  BY <1>3, <1>9 DEF Shadow!Fail, Shadow!Forget, Shadow!store
<1> QED BY <1>1, <1>2, <1>4, <1>5, <1>6, <1>7, <1>8, <1>9 DEF Shadow!Next, Shadow!CallStep

LEMMA AckedStep ==
    ASSUME Shadow!ShadowAssumption, Shadow!TypeOK, OrderInv, AckedInv, [Shadow!Next]_Shadow!vars
    PROVE  AckedInv'
<1> USE DEF Shadow!Shadow
<1>1. ASSUME NEW c \in Caller, NEW k \in {"get", "desire", "report"}, Shadow!Come(c, k)
      PROVE  AckedInv'
  BY <1>1 DEF Shadow!TypeOK, AckedInv, Shadow!Come, Shadow!store
<1>2. ASSUME NEW c \in Caller,
             \/ Shadow!Read(c) \/ Shadow!Miss(c) \/ Shadow!Load(c) \/ Shadow!Fill(c)
             \/ Shadow!Stale(c) \/ Shadow!Reread(c)
      PROVE  AckedInv'
  BY <1>2 DEF AckedInv, Shadow!Read, Shadow!Miss, Shadow!Load, Shadow!Fill, Shadow!Stale,
              Shadow!Reread, Shadow!store
<1>3. ASSUME NEW c \in Caller, Shadow!Write(c) PROVE AckedInv'
  BY <1>3 DEF Shadow!TypeOK, AckedInv, Shadow!Write, Shadow!Forget
<1>4. ASSUME NEW c \in Caller, Shadow!Merge(c) PROVE AckedInv'
  BY <1>4 DEF Shadow!TypeOK, AckedInv, Shadow!Merge
<1>5. ASSUME NEW c \in Caller, Shadow!Store(c) PROVE AckedInv'
  <2>1. got[c] \in Copies /\ row \in Copies /\ got[c] \in Shadow!Shadow /\ row \in Shadow!Shadow
    BY DEF Copies, Shadow!TypeOK
  <2>2. got[c].n <= row.n
    BY <2>1 DEF OrderInv
  <2>3. acked' \in Nat /\ acked <= acked' /\ acked' <= row.n
    BY <1>5, <2>1, <2>2 DEF Shadow!Store, AckedInv, Shadow!TypeOK
  <2>4. \A d \in Caller : floor'[d] \in {floor[d], 0}
    BY <1>5 DEF Shadow!Store, Shadow!Forget
  <2> QED BY <1>5, <2>3, <2>4 DEF Shadow!Store, AckedInv, Shadow!TypeOK
<1>6. CASE Shadow!Expire \/ UNCHANGED Shadow!vars
  BY <1>6 DEF AckedInv, Shadow!Expire, Shadow!vars
<1>7. ASSUME NEW calls \in SUBSET Caller, Shadow!Fail(calls) PROVE AckedInv'
  BY <1>7 DEF Shadow!TypeOK, AckedInv, Shadow!Fail, Shadow!Forget, Shadow!store
<1> QED BY <1>1, <1>2, <1>3, <1>4, <1>5, <1>6, <1>7 DEF Shadow!Next, Shadow!CallStep

\* A sound write to the cache leaves there what has all that was answered.
LEMMA CacheWritten ==
    ASSUME Shadow!TypeOK, OrderInv, CacheInv, NEW c \in Caller, at[c] \in {"fill", "store"},
           got[c] # Shadow!Empty, SoundWrite(got[c])
    PROVE  cache' # Shadow!Empty /\ cache'.n >= acked /\ cache'.n >= got[c].n
<1> USE DEF Shadow!Shadow
<1>1. got[c] \in Copies /\ cache \in Copies /\ got[c] \in Shadow!Shadow /\ cache \in Shadow!Shadow
  BY DEF Copies, Shadow!TypeOK
<1>2. CASE cache.version > got[c].version
  <2>1. cache' = cache /\ cache # Shadow!Empty
    BY <1>1, <1>2 DEF SoundWrite, Shadow!Empty
  <2>2. got[c].n <= cache.n
    BY <1>1, <1>2 DEF OrderInv
  <2> QED BY <1>1, <2>1, <2>2 DEF CacheInv, Shadow!TypeOK
<1>3. CASE ~(cache.version > got[c].version)
  <2>1. cache' = got[c] /\ cache.n <= got[c].n
    BY <1>1, <1>3 DEF SoundWrite, OrderInv
  <2>2. got[c].n >= acked
    BY <1>1, <2>1 DEF CacheInv, Shadow!TypeOK
  <2> QED BY <1>1, <2>1, <2>2
<1> QED BY <1>2, <1>3

LEMMA CacheStep ==
    ASSUME Shadow!ShadowAssumption, Shadow!TypeOK, LeaderInv, FoundInv, OrderInv, AckedInv,
           CacheInv,
           [Shadow!Next]_Shadow!vars, sound'
    PROVE  CacheInv'
<1> USE DEF Shadow!Shadow
<1>1. ASSUME NEW c \in Caller, NEW k \in {"get", "desire", "report"}, Shadow!Come(c, k)
      PROVE  CacheInv'
  BY <1>1 DEF Shadow!TypeOK, CacheInv, Shadow!Come, Shadow!Goes, Shadow!store
<1>2. ASSUME NEW c \in Caller, Shadow!Read(c) PROVE CacheInv'
  <2>1. CASE cache # Shadow!Empty /\ Shadow!Goes(c, Shadow!After(c)) /\ Shadow!Gets(c, cache)
    BY <1>2, <2>1 DEF Shadow!TypeOK, CacheInv, Shadow!Read, Shadow!Goes, Shadow!Gets,
                      Shadow!After, Shadow!store
  <2>2. CASE cache = Shadow!Empty /\ Shadow!Goes(c, "miss") /\ UNCHANGED got
    <3>1. \A d \in Caller : at[d] = "fill" => got[d].n >= floor[c]
      BY <2>2 DEF Shadow!TypeOK, CacheInv, AckedInv
    <3> QED BY <1>2, <2>2, <3>1 DEF Shadow!TypeOK, CacheInv, Shadow!Read, Shadow!Goes,
                                    Shadow!store
  <2> QED BY Zenon, <1>2, <2>1, <2>2 DEF Shadow!Read, Shadow!Unsound
<1>3. ASSUME NEW c \in Caller, Shadow!Miss(c) PROVE CacheInv'
  BY <1>3 DEF Shadow!TypeOK, LeaderInv, CacheInv, Shadow!Miss, Shadow!Goes, Shadow!store
<1>4. ASSUME NEW c \in Caller, Shadow!Load(c) PROVE CacheInv'
  <2>1. CASE Shadow!LoadEnds(Shadow!Empty)
    <3>1. \A d \in Caller : at'[d] # "fill"
      BY <1>4, <2>1 DEF Shadow!TypeOK, LeaderInv, Shadow!Load, Shadow!LoadEnds, Shadow!After
    <3>2. \A d \in Caller : at'[d] = "store" => at[d] = "store" /\ got'[d] = got[d]
      BY <1>4, <2>1 DEF Shadow!TypeOK, LeaderInv, Shadow!Load, Shadow!LoadEnds, Shadow!After
    <3> QED BY <1>4, <3>1, <3>2 DEF CacheInv, Shadow!Load, Shadow!store
  <2>2. CASE Shadow!Gets(c, row) /\ Shadow!Goes(c, "fill")
    <3>1. /\ at'[c] = "fill" /\ got'[c] = row
          /\ \A d \in Caller : d # c => at'[d] = at[d] /\ got'[d] = got[d]
      BY <2>2 DEF Shadow!TypeOK, Shadow!Gets, Shadow!Goes
    <3>2. \A d \in Caller : d # c => at[d] # "fill"
      BY <1>4 DEF LeaderInv, Shadow!Load
    <3>3. row.n >= acked /\ \A d \in Caller : row.n >= floor[d]
      BY DEF Shadow!TypeOK, AckedInv
    <3> QED BY <1>4, <3>1, <3>2, <3>3 DEF CacheInv, Shadow!Load, Shadow!store
  <2> QED BY <1>4, <2>1, <2>2 DEF Shadow!Load
<1>5. ASSUME NEW c \in Caller, Shadow!Fill(c) PROVE CacheInv'
  <2>1. cache' # Shadow!Empty /\ cache'.n >= acked
    BY <1>5, WriteCacheSound, CacheWritten DEF Shadow!Fill, FoundInv
  <2>2. \A d \in Caller : at'[d] # "fill"
    BY <1>5 DEF Shadow!Fill, Shadow!LoadEnds, LeaderInv, Shadow!After, Shadow!TypeOK
  <2> QED BY <1>5, <2>1, <2>2 DEF CacheInv, Shadow!Fill
<1>6. ASSUME NEW c \in Caller, Shadow!Write(c) PROVE CacheInv'
  <2>1. /\ at'[c] \in {"merge", "over"} /\ at[c] = "write"
        /\ \A d \in Caller : d # c =>
               at'[d] = at[d] /\ got'[d] = got[d] /\ floor'[d] = floor[d]
    BY <1>6 DEF Shadow!TypeOK, Shadow!Write, Shadow!Goes, Shadow!Forget
  <2> QED BY <1>6, <2>1 DEF CacheInv, Shadow!Write
<1>7. ASSUME NEW c \in Caller, Shadow!Merge(c) PROVE CacheInv'
  BY <1>7 DEF Shadow!TypeOK, AckedInv, CacheInv, Shadow!Merge, Shadow!Goes, Shadow!Gets
<1>8. ASSUME NEW c \in Caller, Shadow!Stale(c) \/ Shadow!Reread(c) PROVE CacheInv'
  BY <1>8 DEF Shadow!TypeOK, AckedInv, CacheInv, Shadow!Stale, Shadow!Reread, Shadow!Goes,
              Shadow!Gets, Shadow!store
<1>9. ASSUME NEW c \in Caller, Shadow!Store(c) PROVE CacheInv'
  <2>1. cache' # Shadow!Empty /\ cache'.n >= acked /\ cache'.n >= got[c].n
    BY <1>9, WriteCacheSound, CacheWritten DEF Shadow!Store, FoundInv
  <2>2. cache'.n >= acked'
    BY <1>9, <2>1 DEF Shadow!Store
  <2>3. \A d \in Caller : d # c =>
            at'[d] = at[d] /\ got'[d] = got[d] /\ floor'[d] = floor[d]
    BY <1>9 DEF Shadow!Store, Shadow!Goes, Shadow!Forget, Shadow!TypeOK
  <2>4. at'[c] = "over"
    BY <1>9 DEF Shadow!Store, Shadow!Goes, Shadow!TypeOK
  <2> QED BY <2>1, <2>2, <2>3, <2>4 DEF CacheInv
<1>10. CASE Shadow!Expire
  BY <1>10 DEF CacheInv, Shadow!Expire, Shadow!AtRest
<1>11. CASE UNCHANGED Shadow!vars
  BY <1>11 DEF CacheInv, Shadow!vars
<1>12. ASSUME NEW calls \in SUBSET Caller, Shadow!Fail(calls) PROVE CacheInv'
  BY <1>12 DEF Shadow!TypeOK, CacheInv, Shadow!Fail, Shadow!Forget, Shadow!store
<1> QED BY <1>1, <1>2, <1>3, <1>4, <1>5, <1>6, <1>7, <1>8, <1>9, <1>10, <1>11, <1>12
        DEF Shadow!Next, Shadow!CallStep

\* What the property says, without its premise.
Fresh == \A c \in Caller : Shadow!HasRead(c) => got[c].n >= floor[c]

LEMMA FreshStep ==
    ASSUME Shadow!ShadowAssumption, Shadow!TypeOK, LeaderInv, AckedInv, CacheInv, Fresh,
           [Shadow!Next]_Shadow!vars, sound'
    PROVE  Fresh'
<1> USE DEF Shadow!Shadow, Fresh, Shadow!HasRead
<1>1. ASSUME NEW c \in Caller, NEW k \in {"get", "desire", "report"}, Shadow!Come(c, k)
      PROVE  Fresh'
  BY <1>1 DEF Shadow!TypeOK, Shadow!Come, Shadow!Goes, Shadow!store
<1>2. ASSUME NEW c \in Caller, Shadow!Read(c) PROVE Fresh'
  <2>1. CASE cache # Shadow!Empty /\ Shadow!Goes(c, Shadow!After(c)) /\ Shadow!Gets(c, cache)
    <3>1. cache.n >= floor[c]
      BY <2>1 DEF Shadow!TypeOK, AckedInv, CacheInv
    <3> QED BY <1>2, <2>1, <3>1 DEF Shadow!TypeOK, Shadow!Read, Shadow!Goes, Shadow!Gets,
                                    Shadow!After, Shadow!store
  <2>2. CASE Shadow!Goes(c, "miss") /\ UNCHANGED got
    BY <1>2, <2>2 DEF Shadow!TypeOK, Shadow!Read, Shadow!Goes, Shadow!store
  <2> QED BY Zenon, <1>2, <2>1, <2>2 DEF Shadow!Read, Shadow!Unsound
<1>3. ASSUME NEW c \in Caller, Shadow!Miss(c) PROVE Fresh'
  BY <1>3 DEF Shadow!TypeOK, Shadow!Miss, Shadow!Goes, Shadow!store
<1>4. ASSUME NEW c \in Caller, Shadow!Load(c) PROVE Fresh'
  <2>1. CASE row = Shadow!Empty /\ Shadow!LoadEnds(Shadow!Empty)
    <3>1. \A d \in Caller : floor[d] = 0
      BY <2>1 DEF AckedInv, Shadow!TypeOK, Shadow!Empty
    <3> QED BY <1>4, <2>1, <3>1 DEF Shadow!TypeOK, Shadow!Load, Shadow!LoadEnds,
                                    Shadow!After, Shadow!Empty
  <2>2. CASE Shadow!Gets(c, row) /\ Shadow!Goes(c, "fill")
    BY <1>4, <2>2 DEF Shadow!TypeOK, Shadow!Load, Shadow!Gets, Shadow!Goes
  <2> QED BY <1>4, <2>1, <2>2 DEF Shadow!Load
<1>5. ASSUME NEW c \in Caller, Shadow!Fill(c) PROVE Fresh'
  BY <1>5 DEF Shadow!TypeOK, LeaderInv, CacheInv, Shadow!Fill, Shadow!LoadEnds, Shadow!After
<1>6. ASSUME NEW c \in Caller, Shadow!Write(c) PROVE Fresh'
  BY <1>6 DEF Shadow!TypeOK, Shadow!Write, Shadow!Goes, Shadow!Forget
<1>7. ASSUME NEW c \in Caller, Shadow!Merge(c) \/ Shadow!Stale(c) \/ Shadow!Reread(c) PROVE Fresh'
  BY <1>7 DEF Shadow!TypeOK, Shadow!Merge, Shadow!Stale, Shadow!Reread, Shadow!Goes,
              Shadow!Gets
<1>8. ASSUME NEW c \in Caller, Shadow!Store(c) PROVE Fresh'
  BY <1>8 DEF Shadow!TypeOK, Shadow!Store, Shadow!Goes, Shadow!Forget, Shadow!Empty
<1>9. CASE Shadow!Expire \/ UNCHANGED Shadow!vars
  BY <1>9 DEF Shadow!Expire, Shadow!vars
<1>10. ASSUME NEW calls \in SUBSET Caller, Shadow!Fail(calls) PROVE Fresh'
  BY <1>10 DEF Shadow!TypeOK, Shadow!Fail, Shadow!Forget, Shadow!Empty
<1> QED BY <1>1, <1>2, <1>3, <1>4, <1>5, <1>6, <1>7, <1>8, <1>9, <1>10 DEF Shadow!Next,
                                                                           Shadow!CallStep

-----------------------------------------------------------------------------
LEMMA ShadowInit == ASSUME Shadow!ShadowAssumption, Shadow!Init PROVE ShadowInv
<1> USE DEF Shadow!Init, Shadow!Empty, Shadow!Shadow
<1>1. Shadow!TypeOK
  <2>1. sound \in BOOLEAN
    BY Zenon
  <2> QED BY <2>1 DEF Shadow!TypeOK, Shadow!ShadowAssumption
<1>2. LeaderInv /\ FoundInv
  BY DEF LeaderInv, FoundInv
<1>3. OrderInv
  BY DEF OrderInv, Copies
<1>4. AckedInv /\ CacheInv
  BY DEF AckedInv, CacheInv
<1>5. Shadow!ReadsAreFresh
  BY DEF Shadow!ReadsAreFresh, Shadow!HasRead
<1> QED BY <1>1, <1>2, <1>3, <1>4, <1>5 DEF ShadowInv

LEMMA ShadowInvariance == ASSUME Shadow!ShadowAssumption PROVE Shadow!Spec => []ShadowInv
<1>1. ASSUME ShadowInv, [Shadow!Next]_Shadow!vars PROVE ShadowInv'
  <2>1. Shadow!TypeOK' /\ LeaderInv' /\ FoundInv'
    BY <1>1, TypeStep, LeaderStep, FoundStep DEF ShadowInv
  <2>2. ASSUME sound' PROVE OrderInv' /\ AckedInv' /\ CacheInv' /\ Fresh'
    <3>1. sound
      BY <1>1, <2>2, FaultsStep DEF ShadowInv
    <3>2. OrderInv /\ AckedInv /\ CacheInv /\ Fresh
      BY <1>1, <3>1 DEF ShadowInv, Shadow!ReadsAreFresh, Fresh
    <3> QED BY <1>1, <2>2, <3>2, OrderStep, AckedStep, CacheStep, FreshStep DEF ShadowInv
  <2>3. Shadow!ReadsAreFresh'
    BY <2>2 DEF Shadow!ReadsAreFresh, Fresh
  <2> QED BY <2>1, <2>2, <2>3 DEF ShadowInv
<1> QED BY ShadowInit, <1>1, PTL DEF Shadow!Spec

(***************************************************************************)
(* The theorems.                                                           *)
(***************************************************************************)

\* However many calls read and write the shadow, whichever statements fail and
\* wherever the server restarts: while Redis works and no write overtakes
\* another, nobody reads a shadow older than the answers before it.
THEOREM ShadowReadsAreFresh ==
    ASSUME Shadow!ShadowAssumption PROVE Shadow!Spec => []Shadow!ReadsAreFresh
<1>1. ShadowInv => Shadow!ReadsAreFresh
  BY DEF ShadowInv, Shadow!ReadsAreFresh
<1> QED BY ShadowInvariance, <1>1, PTL

\* The variables of the shadow keep their types.
THEOREM ShadowTypeOK ==
    ASSUME Shadow!ShadowAssumption PROVE Shadow!Spec => []Shadow!TypeOK
<1>1. ShadowInv => Shadow!TypeOK
  BY DEF ShadowInv
<1> QED BY ShadowInvariance, <1>1, PTL

-----------------------------------------------------------------------------
(***************************************************************************)
(* The services together.  A step is one of the service that runs, and     *)
(* leaves the others alone.                                                *)
(***************************************************************************)
LEMMA OneRuns ==
    ASSUME [Next]_vars
    PROVE  /\ [Queue!Next]_Queue!vars /\ [Auth!Next]_Auth!vars
           /\ [Shadow!Next]_Shadow!vars
           /\ [Registration!Next]_Registration!vars
           /\ UNCHANGED service
<1> USE DEF vars, QueueStep, AuthStep, RegistrationStep, ShadowStep
<1>1. service' = service
  BY DEF Next
<1>2. UNCHANGED queueVars \/ (service = "queue" /\ Queue!Next)
  BY DEF Next
<1>3. UNCHANGED authVars \/ (service = "auth" /\ Auth!Next)
  BY DEF Next
<1>4. UNCHANGED shadowVars \/ (service = "shadow" /\ Shadow!Next)
  BY DEF Next
<1>5. UNCHANGED registrationVars \/ (service = "registration" /\ Registration!Next)
  BY DEF Next
<1>6. [Queue!Next]_Queue!vars
  BY <1>2 DEF queueVars, Queue!vars
<1>7. [Auth!Next]_Auth!vars
  BY <1>3 DEF authVars, Auth!vars
<1>8. [Shadow!Next]_Shadow!vars
  BY <1>4 DEF shadowVars, Shadow!vars
<1>9. [Registration!Next]_Registration!vars
  BY <1>5 DEF registrationVars, Registration!vars, Registration!observers
<1> QED BY <1>1, <1>6, <1>7, <1>8, <1>9

LEMMA SpecRuns == Spec => Auth!Spec /\ Shadow!Spec
<1>1. Init => Auth!Init /\ Shadow!Init
  BY DEF Init
<1> QED BY <1>1, OneRuns, PTL DEF Spec, Auth!Spec, Shadow!Spec

LEMMA RegistrationRuns == Spec => []RegistrationInv
<1>1. Init => RegistrationInv
  BY RegistrationInit, ServicesAssumption DEF Init
<1>2. RegistrationInv /\ [Next]_vars => RegistrationInv'
  BY OneRuns, RegistrationInvStep, ServicesAssumption
<1> QED BY <1>1, <1>2, PTL DEF Spec

-----------------------------------------------------------------------------
(***************************************************************************)
(* The theorems about the services together.                               *)
(***************************************************************************)

\* auth.js: a session has one live token until it ends, and ends for a reason; a
\* token that was exchanged is found out.
THEOREM SessionsHoldAlways == Spec => []SessionsHold
<1>1. Spec => []Auth!SessionsHold /\ []Auth!ReuseIsNoticed
  BY SpecRuns, AuthSessionsHold, AuthReuseIsNoticed, ServicesAssumption
<1>2. Auth!SessionsHold /\ Auth!ReuseIsNoticed => SessionsHold
  BY DEF SessionsHold
<1> QED BY <1>1, <1>2, PTL

\* devices.js and device-cleanup.js: the secret in a device's row is the broker's,
\* unless somebody who had looked before took the user away.
THEOREM SecretIsValidAlways == Spec => []SecretIsValid
<1>1. RegistrationInv => SecretIsValid
  BY DEF RegistrationInv, Registration!TypeOK, OwnInv, RulesInv, SecretIsValid,
         Registration!SecretIsValid
<1> QED BY RegistrationRuns, <1>1, PTL

\* shadow.js: whoever reads the shadow sees the writes that were answered.
THEOREM ReadsAreFreshAlways == Spec => []ReadsAreFresh
<1>1. Spec => []Shadow!ReadsAreFresh
  BY SpecRuns, ShadowReadsAreFresh, ServicesAssumption
<1>2. Shadow!ReadsAreFresh => ReadsAreFresh
  BY DEF ReadsAreFresh
<1> QED BY <1>1, <1>2, PTL

\* Every service keeps the types of its variables, the queue of commands too.
THEOREM ServicesTypeOK == Spec => []TypeOK
<1>1. Spec => []Auth!TypeOK /\ []Shadow!TypeOK
  BY SpecRuns, AuthTypeOK, ShadowTypeOK, ServicesAssumption
<1>2. Spec => []Queue!Inv
  <2>1. Init => Queue!Inv
    BY Queue!InvInit, ServicesAssumption DEF Init
  <2>2. Queue!Inv /\ [Next]_vars => Queue!Inv'
    BY OneRuns, Queue!InvStep, ServicesAssumption
  <2> QED BY <2>1, <2>2, PTL DEF Spec
<1>3. Spec => [](service \in {"queue", "auth", "registration", "shadow"})
  <2>1. Init => service \in {"queue", "auth", "registration", "shadow"}
    BY DEF Init
  <2>2. service \in {"queue", "auth", "registration", "shadow"} /\ [Next]_vars
            => (service \in {"queue", "auth", "registration", "shadow"})'
    BY OneRuns
  <2> QED BY <2>1, <2>2, PTL DEF Spec
<1>4. /\ Auth!TypeOK /\ Shadow!TypeOK /\ Queue!Inv /\ RegistrationInv
      /\ service \in {"queue", "auth", "registration", "shadow"}
      => TypeOK
  <2>1. Queue!Inv => Queue!TypeOK
    BY DEF Queue!Inv
  <2>2. RegistrationInv => Registration!TypeOK
    BY DEF RegistrationInv
  <2> QED BY <2>1, <2>2 DEF TypeOK
<1> QED BY <1>1, <1>2, <1>3, <1>4, RegistrationRuns, PTL

=============================================================================
