---------------------------- MODULE DeviceShadow ----------------------------
(***************************************************************************)
(* One device's shadow at the server (services/shadow.js): its row, the    *)
(* copy of it in Redis, and the calls that read and write them.  The app   *)
(* reads the shadow and sets what it desires (routes/shadow.js); the       *)
(* device reports, and asks for the shadow (services/mqtt-handlers.js).    *)
(*                                                                         *)
(* The row's contents are abstracted to n, the writes merged into it; its  *)
(* version, updated_at, is when the last of them started.                  *)
(***************************************************************************)
EXTENDS Naturals

CONSTANTS
    Caller,   \* calls, numbered as they come
    Nobody,   \* no call
    MaxFaults \* bound: failures and writes out of order

ShadowAssumption ==
    Caller \subseteq Nat /\ Nobody \notin Caller /\ MaxFaults \in Nat

VARIABLES
    row,    \* device_shadows
    cache,  \* shadow:<id> in Redis
    clock,  \* the statements that have started
    leader, \* inflightShadowReads: the call whose load others join
    kind,   \* what each call is
    pc,     \* where it stands
    start,  \* when its statement started
    got,    \* the shadow it has
    floor,  \* observer: the writes that had been answered when it came
    acked,  \* observer: the writes that have been answered
    sound,  \* observer: whether Redis has not failed, and no write overtaken one
    faults  \* failures so far

vars == <<row, cache, clock, leader, kind, pc, start, got, floor, acked,
          sound, faults>>
store == <<row, cache, clock, acked>>
failures == <<sound, faults>>

Empty == [n |-> 0, version |-> 0]

Shadow == [n : Nat, version : Nat]

TypeOK ==
    /\ row \in Shadow /\ cache \in Shadow /\ clock \in Nat /\ acked \in Nat
    /\ leader \in Caller \cup {Nobody}
    /\ kind \in [Caller -> {"none", "get", "desire", "report"}]
    /\ pc \in [Caller -> {"new", "read", "miss", "join", "load", "fill", "write",
                          "merge", "reread", "store", "over", "failed"}]
    /\ start \in [Caller -> Nat] /\ floor \in [Caller -> Nat]
    /\ got \in [Caller -> Shadow]
    /\ sound \in BOOLEAN /\ faults \in 0 .. MaxFaults

\* A device without a shadow, or with one that nobody has read for an hour.
Init ==
    /\ row \in {Empty, [n |-> 1, version |-> 1]} /\ cache = Empty
    /\ clock = row.version /\ leader = Nobody
    /\ kind = [c \in Caller |-> "none"]
    /\ pc = [c \in Caller |-> "new"]
    /\ start = [c \in Caller |-> 0]
    /\ got = [c \in Caller |-> Empty]
    /\ floor = [c \in Caller |-> 0]
    /\ acked = row.n /\ sound = TRUE /\ faults = 0

Fault == faults < MaxFaults /\ faults' = faults + 1
Unsound == Fault /\ sound' = FALSE
AtRest(c) == pc[c] \in {"new", "over", "failed"}
Goes(c, step) == pc' = [pc EXCEPT ![c] = step]
Gets(c, shadow) == got' = [got EXCEPT ![c] = shadow]

\* What a call knows ends with it.
Forget(calls) ==
    /\ start' = [c \in Caller |-> IF c \in calls THEN 0 ELSE start[c]]
    /\ got' = [c \in Caller |-> IF c \in calls THEN Empty ELSE got[c]]
    /\ floor' = [c \in Caller |-> IF c \in calls THEN 0 ELSE floor[c]]

\* After getShadow: GET and the answer to the device are done, PUT goes on.
After(c) == IF kind[c] = "desire" THEN "write" ELSE "over"

-----------------------------------------------------------------------------
\* GET /shadow or shadow/get, PUT /shadow/desired, or shadow/report; the bridge
\* handles one report at a time.
Come(c, k) ==
    /\ pc[c] = "new"
    /\ \A d \in Caller : d < c => pc[d] # "new"
    /\ k = "report" =>
           \A d \in Caller : kind[d] = "report" => AtRest(d)
    /\ kind' = [kind EXCEPT ![c] = k]
    /\ Goes(c, IF k = "report" THEN "write" ELSE "read")
    /\ floor' = [floor EXCEPT ![c] = acked]
    /\ UNCHANGED <<store, leader, start, got, failures>>

\* getShadow: readCachedShadow, where a failure counts as a miss.
Read(c) ==
    /\ pc[c] = "read"
    /\ \/ /\ cache # Empty
          /\ Gets(c, cache)
          /\ Goes(c, After(c))
          /\ UNCHANGED failures
       \/ /\ IF cache = Empty THEN UNCHANGED failures ELSE Unsound
          /\ Goes(c, "miss")
          /\ UNCHANGED got
    /\ UNCHANGED <<store, leader, kind, start, floor>>

\* One load serves all who miss while it runs.
Miss(c) ==
    /\ pc[c] = "miss"
    /\ IF leader = Nobody
         THEN leader' = c /\ Goes(c, "load")
         ELSE Goes(c, "join") /\ UNCHANGED leader
    /\ UNCHANGED <<store, kind, start, got, floor, failures>>

\* The load's end, for the call that leads it and those that joined.
LoadEnds(shadow) ==
    /\ leader' = Nobody
    /\ got' = [d \in Caller |->
                  IF pc[d] = "join" \/ d = leader THEN shadow ELSE got[d]]
    /\ pc' = [d \in Caller |->
                  IF pc[d] = "join" \/ d = leader THEN After(d) ELSE pc[d]]

Load(c) ==
    /\ pc[c] = "load"
    /\ IF row = Empty
         THEN LoadEnds(Empty)
         ELSE Gets(c, row) /\ Goes(c, "fill") /\ UNCHANGED leader
    /\ UNCHANGED <<store, kind, start, floor, failures>>

\* Faulty variant of WriteCache: versions are not compared.
WriteCacheAlways(shadow) ==
    cache' = shadow /\ UNCHANGED failures

\* writeCachedShadow: an older version does not replace a newer one.  A write
\* that fails, though Redis may have done it, is followed by a DEL, which may
\* fail too.
WriteCache(shadow) ==
    \/ /\ cache' = IF cache.version > shadow.version THEN cache ELSE shadow
       /\ UNCHANGED failures
    \/ /\ Unsound
       /\ cache' \in {Empty, cache, shadow}

Fill(c) ==
    /\ pc[c] = "fill"
    /\ WriteCache(got[c])
    /\ LoadEnds(got[c])
    /\ UNCHANGED <<row, clock, acked, kind, start, floor>>

\* setDesired or updateReported: the statement starts, and takes its NOW(); or
\* the PUT is refused, for a relay in a mode that is off.
Write(c) ==
    /\ pc[c] = "write"
    /\ \/ /\ clock' = clock + 1
          /\ start' = [start EXCEPT ![c] = clock + 1]
          /\ Goes(c, "merge")
          /\ UNCHANGED <<got, floor>>
       \/ /\ kind[c] = "desire"
          /\ Goes(c, "over")
          /\ Forget({c})
          /\ UNCHANGED clock
    /\ UNCHANGED <<row, cache, acked, leader, kind, failures>>

\* The row is merged and committed.  One that started earlier may have waited
\* for it, and overtaken another.
Merge(c) ==
    /\ pc[c] = "merge"
    /\ IF start[c] > row.version THEN UNCHANGED failures ELSE Unsound
    /\ row' = [n |-> row.n + 1, version |-> start[c]]
    /\ Gets(c, row')
    /\ Goes(c, "store")
    /\ UNCHANGED <<cache, clock, acked, leader, kind, start, floor>>

\* A report whose ts is older than the row's changes nothing, and the row is
\* read again.
Stale(c) ==
    /\ pc[c] = "merge" /\ kind[c] = "report" /\ row # Empty
    /\ Goes(c, "reread")
    /\ UNCHANGED <<store, leader, kind, start, got, floor, failures>>

Reread(c) ==
    /\ pc[c] = "reread"
    /\ Gets(c, row)
    /\ Goes(c, "store")
    /\ UNCHANGED <<store, leader, kind, start, floor, failures>>

\* The copy is written through, and the call is answered.
Store(c) ==
    /\ pc[c] = "store"
    /\ WriteCache(got[c])
    /\ acked' = IF got[c].n > acked THEN got[c].n ELSE acked
    /\ Goes(c, "over")
    /\ Forget({c})
    /\ UNCHANGED <<row, clock, leader, kind>>

-----------------------------------------------------------------------------
\* The copy's hour is over; no call takes that long.
Expire ==
    /\ cache # Empty
    /\ \A c \in Caller : AtRest(c)
    /\ cache' = Empty
    /\ UNCHANGED <<row, clock, acked, leader, kind, pc, start, got, floor, failures>>

\* A statement fails, or the server restarts: the calls in progress end, those
\* that joined a load with the one that leads it.
Fail(calls) ==
    /\ calls # {} /\ Fault
    /\ \A c \in calls : ~AtRest(c)
    /\ \A c \in Caller : pc[c] = "join" => (c \in calls <=> leader \in calls)
    /\ pc' = [c \in Caller |-> IF c \in calls THEN "failed" ELSE pc[c]]
    /\ leader' = IF leader \in calls THEN Nobody ELSE leader
    /\ Forget(calls)
    /\ UNCHANGED <<store, kind, sound>>

CallStep(c) ==
    \/ Read(c) \/ Miss(c) \/ Load(c) \/ Fill(c) \/ Write(c) \/ Merge(c)
    \/ Stale(c) \/ Reread(c) \/ Store(c)

Next ==
    \/ \E c \in Caller :
           CallStep(c) \/ \E k \in {"get", "desire", "report"} : Come(c, k)
    \/ Expire
    \/ \E calls \in SUBSET Caller : Fail(calls)

Spec == Init /\ [][Next]_vars

-----------------------------------------------------------------------------
\* A call that has what it read, and is yet to use it, or has been answered.
HasRead(c) ==
    <<kind[c], pc[c]>> \in {<<"get", "over">>, <<"desire", "write">>}

\* While Redis works and writes are committed in the order of their versions,
\* whoever reads the shadow, also to check what it desires against it, sees
\* every write that had been answered: in the copy, in a load it joined or in
\* the row, whatever statement fails and wherever the server restarts
\* (shadow.js:5, API_REFERENCE.md:600).
ReadsAreFresh == sound => \A c \in Caller : HasRead(c) => got[c].n >= floor[c]
=============================================================================
