---------------------- MODULE MCCommandDeviceProofs ----------------------
(***************************************************************************)
(* The properties of the two cases of MCCommandDevice, from what           *)
(* CommandDeviceProofs says of each: for any commands, any size of the     *)
(* cache and any length of the calibration queue.                          *)
(***************************************************************************)
EXTENDS MCCommandDevice, CommandDeviceProofs

\* In "window" the cache may be full; in "once" it may have room for them all.
CaseInv ==
    /\ case \in {"window", "once"}
    /\ case = "window" => CacheInv
    /\ case = "once" => Once!CacheInv /\ (Once!Roomy => Once!Inv)

LEMMA OnceHolds == Once!DeviceAssumption
<1>1. IsFiniteSet(Command \ {Absent})
  BY DeviceAssumption, FS_RemoveElement
<1>2. Once!IsFiniteSet(Command \ {Absent})
  BY <1>1 DEF IsFiniteSet, Once!IsFiniteSet
<1> QED BY <1>2, DeviceAssumption, CaseAssumption DEF Once!DeviceAssumption

LEMMA CaseStarts == ASSUME CaseInit PROVE CaseInv
<1>1. Init => CacheInv
  BY CacheInit
<1>2. Once!Init => Once!CacheInv /\ Once!Inv
  BY OnceHolds, Once!CacheInit, Once!InitInv DEF Once!Inv
<1> QED BY <1>1, <1>2 DEF CaseInit, CaseInv

LEMMA CaseSteps == ASSUME CaseInv, [CaseNext]_<<vars, case>> PROVE CaseInv'
<1>1. case' = case
  BY DEF CaseNext
<1>2. CASE case = "window"
  <2>1. [Next]_vars
    BY <1>2 DEF CaseNext
  <2> QED BY <1>1, <1>2, <2>1, CacheStep DEF CaseInv
<1>3. CASE case = "once"
  <2>1. [Once!Next]_Once!vars
    BY <1>3 DEF CaseNext, vars, Once!vars
  <2>2. Once!CacheInv'
    BY <1>3, <2>1, OnceHolds, Once!CacheStep DEF CaseInv
  <2>3. Once!Roomy => Once!Inv'
    BY <1>3, <2>1, OnceHolds, Once!InvStep DEF CaseInv
  <2>4. Once!Roomy' => Once!Roomy
    BY DEF Once!Roomy, Once!Cardinality
  <2> QED BY <1>1, <1>3, <2>2, <2>3, <2>4 DEF CaseInv
<1> QED BY <1>1, <1>2, <1>3 DEF CaseInv

LEMMA CasesHold == CaseSpec => []CaseInv
<1>1. CaseInit => CaseInv
  BY CaseStarts
<1>2. CaseInv /\ [CaseNext]_<<vars, case>> => CaseInv'
  BY CaseSteps
<1> QED BY <1>1, <1>2, PTL DEF CaseSpec

\* mqtt.c: a command that the cache has room to remember runs once at most
\* before a restart or a reset, and gets one answer, whatever is repeated.
THEOREM CaseRunsOnceAlways == CaseSpec => []CaseRunsOnce
<1>1. CaseInv => CaseRunsOnce
  <2>1. SUFFICES ASSUME CaseInv, case = "once" PROVE Once!RunsOnce /\ Once!OneAnswer
    BY DEF CaseRunsOnce
  <2>2. CASE Once!Roomy
    BY <2>1, <2>2, OnceHolds, Once!GoodMeans DEF CaseInv
  <2>3. CASE ~Once!Roomy
    BY <2>3 DEF Once!Roomy, Once!RunsOnce, Once!OneAnswer
  <2> QED BY <2>2, <2>3
<1> QED BY <1>1, CasesHold, PTL

\* mqtt.c: eviction forgets no command that waits or runs, and a finished one
\* only when CacheSize others have come since, or wait there.
THEOREM CaseCacheHoldsAlways == CaseSpec => []CaseCacheHolds
<1>1. CaseInv => CaseCacheHolds
  <2>1. SUFFICES ASSUME CaseInv PROVE CaseCacheHolds
    OBVIOUS
  <2>2. CASE case = "window"
    BY <2>1, <2>2, HeldMeans DEF CaseInv, CaseCacheHolds
  <2>3. CASE case = "once"
    BY <2>1, <2>3, OnceHolds, Once!HeldMeans DEF CaseInv, CaseCacheHolds
  <2> QED BY <2>1, <2>2, <2>3 DEF CaseInv
<1> QED BY <1>1, CasesHold, PTL
=============================================================================
