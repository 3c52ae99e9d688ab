---------------------------- MODULE AuthSession ----------------------------
(***************************************************************************)
(* The sessions of one user at the server (routes/auth.js).  A login       *)
(* issues a refresh token; a refresh exchanges it for its successor in one *)
(* transaction, which leaves a marker that tells a retry from a reuse; a   *)
(* reuse or a logout deletes all the user's tokens.                        *)
(*                                                                         *)
(* What a transaction writes shows when it commits.  A statement sees the  *)
(* rows that were committed when it started, waits for those that another  *)
(* transaction holds, and leaves out those that are then gone.  Any state- *)
(* ment may fail, also because PostgreSQL ends one of two transactions     *)
(* that wait for each other: the transaction is undone.                    *)
(***************************************************************************)
EXTENDS Naturals

CONSTANTS
    Token,   \* refresh tokens, numbered as they are made
    NoToken, \* none of them
    Request  \* requests the server may have in progress

SessionAssumption == Token \subseteq Nat /\ NoToken \notin Token

VARIABLES
    rows,    \* refresh_tokens: the tokens that are live
    marker,  \* refresh_token_reuse_markers: those of tokens that were
             \* exchanged, and whether the grace period has passed since
    expired, \* tokens whose expires_at, which their marker shares, has passed
    known,   \* tokens that were ever committed, which clients may present
    session, \* the first token of the session a token belongs to
    ended,   \* sessions there were when a logout came, or a token whose grace
             \* period was over
    pc,      \* where a request stands
    asked,   \* the token that it presented
    next,    \* the successor that it inserted and has not committed
    seen,    \* the rows that its DELETE of all tokens found
    holds    \* the rows it has locked

vars == <<rows, marker, expired, known, session, ended, pc, asked, next, seen,
          holds>>

tables   == <<rows, marker, expired, known, session>>
requests == <<pc, asked, next, seen, holds>>

TypeOK ==
    /\ known \subseteq Token /\ rows \subseteq known /\ expired \subseteq known
    /\ marker \in [Token -> {"none", "recent", "old"}]
    /\ session \in [Token -> Token]
    /\ ended \subseteq Token
    /\ pc \in [Request -> {"idle", "select", "lookup", "exchange", "commit",
                           "reuse", "logout"}]
    /\ asked \in [Request -> known \cup {NoToken}]
    /\ next \in [Request -> Token \cup {NoToken}]
    /\ seen \in [Request -> SUBSET known]
    /\ holds \in [Request -> SUBSET known]

Init ==
    /\ rows = {} /\ known = {} /\ expired = {} /\ ended = {}
    /\ marker = [t \in Token |-> "none"]
    /\ session = [t \in Token |-> t]
    /\ pc = [r \in Request |-> "idle"]
    /\ asked = [r \in Request |-> NoToken]
    /\ next = [r \in Request |-> NoToken]
    /\ seen = [r \in Request |-> {}]
    /\ holds = [r \in Request |-> {}]

\* The rows that transactions other than r's have locked.
Held(r) == UNION {holds[q] : q \in Request \ {r}}

\* uuidv4: a token that nobody has.
Unused == Token \ (known \cup {next[r] : r \in Request})
Fresh(t) == t \in Unused /\ \A u \in Unused : t <= u

Sessions(tokens) == {session[t] : t \in tokens}

-----------------------------------------------------------------------------
(* POST /auth/login and POST /auth/refresh.                                *)

\* createRefreshToken outside a transaction.
Login(t) ==
    /\ Fresh(t)
    /\ rows' = rows \cup {t}
    /\ known' = known \cup {t}
    /\ UNCHANGED <<marker, expired, session, ended, requests>>

\* The transaction starts, and with it its NOW().  A token that has expired by
\* then is neither live nor marked: the request is refused at once.
Refresh(r, t) ==
    /\ pc[r] = "idle"
    /\ t \in known \ expired
    /\ pc' = [pc EXCEPT ![r] = "select"]
    /\ asked' = [asked EXCEPT ![r] = t]
    /\ UNCHANGED <<tables, ended, next, seen, holds>>

\* Faulty variant of Select: SELECT without FOR UPDATE.
SelectUnlocked(r) ==
    /\ pc[r] = "select"
    /\ pc' = [pc EXCEPT ![r] = IF asked[r] \in rows THEN "exchange" ELSE "lookup"]
    /\ UNCHANGED <<tables, ended, asked, next, seen, holds>>

\* SELECT ... FOR UPDATE.
Select(r) ==
    /\ pc[r] = "select"
    /\ asked[r] \notin Held(r)
    /\ IF asked[r] \in rows
         THEN /\ pc' = [pc EXCEPT ![r] = "exchange"]
              /\ holds' = [holds EXCEPT ![r] = {asked[r]}]
         ELSE /\ pc' = [pc EXCEPT ![r] = "lookup"]
              /\ UNCHANGED holds
    /\ UNCHANGED <<tables, ended, asked, next, seen>>

\* findConsumedRefreshToken finds no marker, or a recent one (a retry, or one
\* of two parallel refreshes): 401, and nothing changes.
Refuse(r) ==
    /\ pc[r] = "lookup"
    /\ marker[asked[r]] # "old"
    /\ pc' = [pc EXCEPT ![r] = "idle"]
    /\ asked' = [asked EXCEPT ![r] = NoToken]
    /\ UNCHANGED <<tables, ended, next, seen, holds>>

\* It finds one whose grace period is over: a reuse.  The statement that
\* deletes the user's tokens starts.
Reuse(r) ==
    /\ pc[r] = "lookup"
    /\ marker[asked[r]] = "old"
    /\ pc' = [pc EXCEPT ![r] = "reuse"]
    /\ seen' = [seen EXCEPT ![r] = rows]
    /\ ended' = ended \cup Sessions(rows)
    /\ UNCHANGED <<tables, asked, next, holds>>

\* Faulty variant of Exchange: the successor is not inserted by the transaction.
ExchangeOutside(r) ==
    /\ pc[r] = "exchange"
    /\ asked[r] \in rows \ Held(r)
    /\ \E t \in Token :
          /\ Fresh(t)
          /\ rows' = rows \cup {t}
          /\ next' = [next EXCEPT ![r] = t]
    /\ pc' = [pc EXCEPT ![r] = "commit"]
    /\ holds' = [holds EXCEPT ![r] = {asked[r]}]
    /\ UNCHANGED <<marker, expired, known, session, ended, asked, seen>>

\* markRefreshTokenConsumed, DELETE of the token's row, createRefreshToken.  If
\* the row is gone, it counts as a reuse.
Exchange(r) ==
    /\ pc[r] = "exchange"
    /\ asked[r] \notin Held(r)
    /\ \/ /\ asked[r] \in rows
          /\ pc' = [pc EXCEPT ![r] = "commit"]
          /\ \E t \in Token : Fresh(t) /\ next' = [next EXCEPT ![r] = t]
          /\ holds' = [holds EXCEPT ![r] = {asked[r]}]
          /\ UNCHANGED seen
       \/ /\ asked[r] \notin rows
          /\ pc' = [pc EXCEPT ![r] = "reuse"]
          /\ seen' = [seen EXCEPT ![r] = rows]
          /\ UNCHANGED <<next, holds>>
    /\ UNCHANGED <<tables, ended, asked>>

\* Faulty variant of Commit: the token's row stays.
CommitKeeping(r) ==
    /\ pc[r] = "commit"
    /\ rows' = rows \cup {next[r]}
    /\ known' = known \cup {next[r]}
    /\ session' = [session EXCEPT ![next[r]] = session[asked[r]]]
    /\ marker' = [marker EXCEPT ![asked[r]] = "recent"]
    /\ pc' = [pc EXCEPT ![r] = "idle"]
    /\ asked' = [asked EXCEPT ![r] = NoToken]
    /\ next' = [next EXCEPT ![r] = NoToken]
    /\ holds' = [holds EXCEPT ![r] = {}]
    /\ UNCHANGED <<expired, ended, seen>>

\* consumed_at is the transaction's NOW(): the grace period of an exchange that
\* took long is over when others see it.
Commit(r) ==
    /\ pc[r] = "commit"
    /\ rows' = (rows \ {asked[r]}) \cup {next[r]}
    /\ known' = known \cup {next[r]}
    /\ session' = [session EXCEPT ![next[r]] = session[asked[r]]]
    /\ \E age \in {"recent", "old"} : marker' = [marker EXCEPT ![asked[r]] = age]
    /\ pc' = [pc EXCEPT ![r] = "idle"]
    /\ asked' = [asked EXCEPT ![r] = NoToken]
    /\ next' = [next EXCEPT ![r] = NoToken]
    /\ holds' = [holds EXCEPT ![r] = {}]
    /\ UNCHANGED <<expired, ended, seen>>

-----------------------------------------------------------------------------
(* DELETE of all the user's tokens, for POST /auth/logout and for a reuse. *)

Logout(r) ==
    /\ pc[r] = "idle"
    /\ pc' = [pc EXCEPT ![r] = "logout"]
    /\ seen' = [seen EXCEPT ![r] = rows]
    /\ ended' = ended \cup Sessions(rows)
    /\ UNCHANGED <<tables, asked, next, holds>>

\* The DELETE comes to a row that it saw and that is still there.
DeleteRow(r, t) ==
    /\ pc[r] \in {"reuse", "logout"}
    /\ t \in (seen[r] \cap rows) \ (holds[r] \cup Held(r))
    /\ holds' = [holds EXCEPT ![r] = @ \cup {t}]
    /\ UNCHANGED <<tables, ended, pc, asked, next, seen>>

\* It has been through, and is committed.
Deleted(r) ==
    /\ pc[r] \in {"reuse", "logout"}
    /\ seen[r] \cap rows \subseteq holds[r]
    /\ rows' = rows \ holds[r]
    /\ pc' = [pc EXCEPT ![r] = "idle"]
    /\ asked' = [asked EXCEPT ![r] = NoToken]
    /\ seen' = [seen EXCEPT ![r] = {}]
    /\ holds' = [holds EXCEPT ![r] = {}]
    /\ UNCHANGED <<marker, expired, known, session, ended, next>>

\* A statement fails, the connection breaks or the server restarts: ROLLBACK.
Fail(r) ==
    /\ pc[r] # "idle"
    /\ pc' = [pc EXCEPT ![r] = "idle"]
    /\ asked' = [asked EXCEPT ![r] = NoToken]
    /\ next' = [next EXCEPT ![r] = NoToken]
    /\ seen' = [seen EXCEPT ![r] = {}]
    /\ holds' = [holds EXCEPT ![r] = {}]
    /\ UNCHANGED <<tables, ended>>

-----------------------------------------------------------------------------
(* Time, and the sweeps of jobs/data-retention.js and                      *)
(* jobs/refresh-token-marker-cleanup.js.                                   *)

GracePasses(t) ==
    /\ marker[t] = "recent"
    /\ marker' = [marker EXCEPT ![t] = "old"]
    /\ UNCHANGED <<rows, expired, known, session, ended, requests>>

\* Tokens live equally long, and expire in the order they were made.
Expire(t) ==
    /\ t \in known \ expired
    /\ \A u \in known \ expired : t <= u
    /\ expired' = expired \cup {t}
    /\ UNCHANGED <<rows, marker, known, session, ended, requests>>

SweepToken(t) ==
    /\ t \in rows \cap expired
    /\ \A r \in Request : t \notin holds[r]
    /\ rows' = rows \ {t}
    /\ UNCHANGED <<marker, expired, known, session, ended, requests>>

\* Faulty variant of SweepMarkers: those whose grace period is over.
SweepMarkersOld ==
    /\ marker' = [t \in Token |-> IF marker[t] = "old" THEN "none" ELSE marker[t]]
    /\ UNCHANGED <<rows, expired, known, session, ended, requests>>

SweepMarkers ==
    /\ marker' = [t \in Token |-> IF t \in expired THEN "none" ELSE marker[t]]
    /\ UNCHANGED <<rows, expired, known, session, ended, requests>>

-----------------------------------------------------------------------------
Statement(r) ==
    \/ Select(r) \/ Refuse(r) \/ Reuse(r) \/ Exchange(r) \/ Commit(r)
    \/ (\E t \in Token : DeleteRow(r, t)) \/ Deleted(r) \/ Fail(r)

Next ==
    \/ \E r \in Request :
           Statement(r) \/ Logout(r) \/ \E t \in Token : Refresh(r, t)
    \/ \E t \in Token : Login(t) \/ GracePasses(t) \/ Expire(t) \/ SweepToken(t)
    \/ SweepMarkers

Spec == Init /\ [][Next]_vars

-----------------------------------------------------------------------------
\* A session has at most one live token, however its refreshes overlap, and
\* keeps it until it expires: none is lost to a retry or to parallel refreshes
\* (auth.js:155-186), only to a logout or to a reuse after the grace period.
OneTokenPerSession ==
    \A t, u \in rows : session[t] = session[u] => t = u

SessionsEndForAReason ==
    \A s \in Sessions(known) :
        \/ s \in ended \cup Sessions(expired)
        \/ s \in Sessions(rows)

SessionsHold == OneTokenPerSession /\ SessionsEndForAReason

\* A token that was exchanged is never just unknown before it expires: until
\* then, whoever presents it again is found out (auth.js:164).
ReuseIsNoticed ==
    \A t \in known \ (rows \cup expired) :
        marker[t] # "none" \/ session[t] \in ended
=============================================================================
