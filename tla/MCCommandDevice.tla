-------------------------- MODULE MCCommandDevice --------------------------
(* Small instances of CommandDevice for TLC, of which a behaviour shows one.
   case, which never changes, says which.

     "window"  more commands than the cache holds, and no failures
     "once"    a cache that holds them all, with failures and factory resets *)
EXTENDS CommandDevice, TLC

CONSTANT Absent  \* the command "once" is without

ASSUME CaseAssumption == Absent \in Command \ Calibration

VARIABLE case

Once == INSTANCE CommandDeviceProofs WITH Command <- Command \ {Absent}, MaxFaults <- 2

CaseInit ==
    \/ case = "window" /\ Init
    \/ case = "once" /\ Once!Init

CaseNext ==
    /\ \/ case = "window" /\ Next
       \/ case = "once" /\ Once!Next
    /\ UNCHANGED case

CaseSpec == CaseInit /\ [][CaseNext]_<<vars, case>>

\* Commands of one kind are interchangeable.
KindSymmetry ==
    {p @@ q : p \in Permutations(Calibration), q \in Permutations(Command \ Calibration)}

\* What concerns eviction leaves out factory resets, which empty the cache.
BeforeReset == case = "once" \/ reset = "none"

\* RunsOnce and OneAnswer: while the cache (mqtt.c) holds every command, none
\* runs twice before a restart or a factory reset, whatever the server repeats,
\* and none is answered both ways.
CaseRunsOnce == case = "once" => Once!RunsOnce /\ Once!OneAnswer

\* RunningIsTracked and DedupeWindow: eviction never forgets a command that
\* waits for its execution or is being executed, and one that ran only when
\* CacheSize others have been written to the cache since, or wait there
\* (mqtt.c).
CaseCacheHolds ==
    IF case = "once" THEN Once!RunningIsTracked ELSE RunningIsTracked /\ DedupeWindow
=============================================================================
