----------------------- MODULE BleProvisioningProofs -----------------------
(***************************************************************************)
(* Proofs about BleProvisioning and the WifiStation it extends, for any    *)
(* credentials, any budget of reconnections and any number of writes, lost *)
(* links and losses of power.                                              *)
(***************************************************************************)
EXTENDS MCBleProvisioning, SequenceTheorems, TLAPS

Held(holding) == IF holding THEN 1 ELSE 0

-----------------------------------------------------------------------------
(***************************************************************************)
(* The station by itself.  UsersInv says who is counted; LinkInv says that *)
(* the event posted last tells whether the link is up, so that whoever has *)
(* handled all of them knows.                                              *)
(***************************************************************************)
UsersInv == users = Held(call \in Holding) + Held(handler # "idle")

NoneInv ==
    group = "none" =>
       radio = "off" /\ events = <<>> /\ handler = "idle" /\ call \notin Holding

LinkInv ==
    group = "open" =>
       /\ events # <<>> /\ events[Len(events)] = "got_ip" => radio = "up"
       /\ events = <<>> /\ handler \in {"got_ip", "address"} => radio = "up"
       /\ events = <<>> /\ handler # "disconnected" /\ "connected" \in bits => radio = "up"
       /\ handler \in {"retry", "give_up"} => "connected" \notin bits

WifiInv == WifiTypeOK /\ UsersInv /\ NoneInv /\ NoHandleToDeletedGroup /\ LinkInv

\* What the rest of the firmware does to the station's variables.
CallTaken ==
    /\ call = "returned" /\ call' = "idle"
    /\ UNCHANGED <<group, users, bits, retries, radio, station, losses, events, handler,
                   result, deinit>>

DeinitAgain ==
    /\ deinit' = "idle"
    /\ UNCHANGED <<group, users, bits, retries, radio, station, losses, events, handler, call,
                   result>>

WifiNext ==
    \/ StationUp \/ ConnectEnter \/ ConnectClear \/ ConnectAnswered \/ ConnectTimeout
    \/ \E c \in Credentials : ConnectStart(c)
    \/ Handler \/ Deinit \/ Joined \/ Refused \/ LinkLost
    \/ WifiReset \/ CallTaken \/ DeinitAgain \/ UNCHANGED wifiVars

\* The event posted last.
LEMMA Posted ==
    ASSUME NEW q \in Seq({"disconnected", "got_ip"}), NEW e \in {"disconnected", "got_ip"}
    PROVE  /\ Append(q, e) \in Seq({"disconnected", "got_ip"}) /\ Append(q, e) # <<>>
           /\ Append(q, e)[Len(Append(q, e))] = e
  OBVIOUS

LEMMA Taken ==
    ASSUME NEW q \in Seq({"disconnected", "got_ip"}), q # <<>>
    PROVE  /\ Head(q) \in {"disconnected", "got_ip"}
           /\ Tail(q) \in Seq({"disconnected", "got_ip"})
           /\ Tail(q) = <<>> => Head(q) = q[Len(q)]
           /\ Tail(q) # <<>> => Tail(q)[Len(Tail(q))] = q[Len(q)]
<1>1. Len(q) \in Nat /\ Len(q) # 0 /\ Head(q) = q[1]
  OBVIOUS
<1>2. Tail(q) \in Seq({"disconnected", "got_ip"}) /\ Len(Tail(q)) = Len(q) - 1
      /\ \A i \in 1..(Len(q) - 1) : Tail(q)[i] = q[i + 1]
  BY <1>1
<1>3. Tail(q) = <<>> <=> Len(Tail(q)) = 0
  BY <1>2, EmptySeq, Zenon
<1>4. Tail(q) = <<>> <=> Len(q) = 1
  BY <1>1, <1>2, <1>3
<1>5. Tail(q) # <<>> => Tail(q)[Len(Tail(q))] = q[Len(q)]
  BY <1>1, <1>2, <1>4
<1> QED
  BY <1>1, <1>2, <1>4, <1>5

LEMMA WifiStart == ASSUME WifiAssumption, WifiInit PROVE WifiInv
  BY DEF WifiAssumption, WifiInit, WifiInv, WifiTypeOK, UsersInv, NoneInv, LinkInv, Held, Holding,
         NoHandleToDeletedGroup

\* Each task that is counted took the handle once and gives it back once.
LEMMA UsersStep ==
    ASSUME WifiAssumption, WifiTypeOK, UsersInv, NoneInv, NoHandleToDeletedGroup, WifiNext
    PROVE  UsersInv' /\ NoneInv' /\ NoHandleToDeletedGroup'
<1> USE DEF WifiAssumption, WifiTypeOK, UsersInv, NoneInv, NoHandleToDeletedGroup, Held, Holding
<1>1. ASSUME StationUp PROVE UsersInv' /\ NoneInv' /\ NoHandleToDeletedGroup'
  BY <1>1 DEF StationUp
<1>2. ASSUME ConnectEnter PROVE UsersInv' /\ NoneInv' /\ NoHandleToDeletedGroup'
  BY <1>2 DEF ConnectEnter, Acquire
<1>3. ASSUME ConnectClear PROVE UsersInv' /\ NoneInv' /\ NoHandleToDeletedGroup'
  <2>1. /\ call = "entered" /\ group' = group /\ radio' = radio /\ events' = events
        /\ handler' = handler
        /\ \/ users' = users /\ call' = "cleared"
           \/ users' = users - 1 /\ call' = "returned"
    BY <1>3, Zenon DEF ConnectClear, Return, Release
  <2> QED
    BY <2>1
<1>4. ASSUME ConnectAnswered PROVE UsersInv' /\ NoneInv' /\ NoHandleToDeletedGroup'
  BY <1>4 DEF ConnectAnswered, Return, Release
<1>5. ASSUME ConnectTimeout PROVE UsersInv' /\ NoneInv' /\ NoHandleToDeletedGroup'
  BY <1>5, Posted DEF ConnectTimeout, ExhaustBudget, RadioDisconnect, Return, Release, Post
<1>6. ASSUME HandlerEnter PROVE UsersInv' /\ NoneInv' /\ NoHandleToDeletedGroup'
  BY <1>6, Taken DEF HandlerEnter, Acquire
<1>7. ASSUME HandlerLost PROVE UsersInv' /\ NoneInv' /\ NoHandleToDeletedGroup'
  BY <1>7 DEF HandlerLost, AttemptLeft
<1>8. ASSUME HandlerRetry PROVE UsersInv' /\ NoneInv' /\ NoHandleToDeletedGroup'
  BY <1>8 DEF HandlerRetry, RadioConnect, HandlerDone, Release
<1>9. ASSUME HandlerGiveUp PROVE UsersInv' /\ NoneInv' /\ NoHandleToDeletedGroup'
  BY <1>9 DEF HandlerGiveUp, HandlerDone, Release
<1>10. ASSUME HandlerGotIp PROVE UsersInv' /\ NoneInv' /\ NoHandleToDeletedGroup'
  BY <1>10 DEF HandlerGotIp, ResetBudget
<1>11. ASSUME HandlerAddress PROVE UsersInv' /\ NoneInv' /\ NoHandleToDeletedGroup'
  BY <1>11 DEF HandlerAddress, HandlerDone, Release
<1>12. ASSUME DeinitTake PROVE UsersInv' /\ NoneInv' /\ NoHandleToDeletedGroup'
  BY <1>12 DEF DeinitTake
<1>13. ASSUME DeinitNothing PROVE UsersInv' /\ NoneInv' /\ NoHandleToDeletedGroup'
  BY <1>13 DEF DeinitNothing
<1>14. ASSUME DeinitWake PROVE UsersInv' /\ NoneInv' /\ NoHandleToDeletedGroup'
  BY <1>14 DEF DeinitWake
<1>15. ASSUME DeinitDelete PROVE UsersInv' /\ NoneInv' /\ NoHandleToDeletedGroup'
  BY <1>15 DEF DeinitDelete, NoUsers
<1>16. ASSUME Joined PROVE UsersInv' /\ NoneInv' /\ NoHandleToDeletedGroup'
  BY <1>16, Posted DEF Joined, Post
<1>17. ASSUME Refused PROVE UsersInv' /\ NoneInv' /\ NoHandleToDeletedGroup'
  BY <1>17, Posted DEF Refused, Post
<1>18. ASSUME LinkLost PROVE UsersInv' /\ NoneInv' /\ NoHandleToDeletedGroup'
  BY <1>18, Posted DEF LinkLost, Post
<1>19. ASSUME WifiReset PROVE UsersInv' /\ NoneInv' /\ NoHandleToDeletedGroup'
  BY <1>19 DEF WifiReset
<1>20. ASSUME CallTaken PROVE UsersInv' /\ NoneInv' /\ NoHandleToDeletedGroup'
  BY <1>20 DEF CallTaken
<1>21. ASSUME DeinitAgain PROVE UsersInv' /\ NoneInv' /\ NoHandleToDeletedGroup'
  BY <1>21 DEF DeinitAgain
<1>22. ASSUME NEW c \in Credentials, ConnectStart(c) PROVE UsersInv' /\ NoneInv' /\
       NoHandleToDeletedGroup'
  BY <1>22 DEF ConnectStart, RadioConnect, Return, Release
<1>23. ASSUME UNCHANGED wifiVars PROVE UsersInv' /\ NoneInv' /\ NoHandleToDeletedGroup'
  BY <1>23 DEF wifiVars
<1> QED
  BY <1>1, <1>2, <1>3, <1>4, <1>5, <1>6, <1>7, <1>8, <1>9, <1>10, <1>11, <1>12, <1>13,
       <1>14, <1>15, <1>16, <1>17, <1>18, <1>19, <1>20, <1>21, <1>22, <1>23, Zenon DEF WifiNext,
       Handler, Deinit

\* Whoever ends the link says so last.
LEMMA LinkStep ==
    ASSUME WifiAssumption, WifiTypeOK, NoneInv, LinkInv, WifiNext
    PROVE  LinkInv'
<1> USE DEF WifiAssumption, WifiTypeOK, NoneInv, LinkInv, Holding
<1>1. ASSUME StationUp PROVE LinkInv'
  BY <1>1 DEF StationUp
<1>2. ASSUME ConnectEnter PROVE LinkInv'
  BY <1>2 DEF ConnectEnter, Acquire
<1>3. ASSUME ConnectClear PROVE LinkInv'
  <2>1. /\ group' = group /\ radio' = radio /\ events' = events /\ handler' = handler
        /\ bits' = {} \/ bits' = bits
    BY <1>3, Zenon DEF ConnectClear
  <2> QED
    BY <2>1
<1>4. ASSUME ConnectAnswered PROVE LinkInv'
  BY <1>4 DEF ConnectAnswered, Return, Release
<1>5. ASSUME ConnectTimeout PROVE LinkInv'
  BY <1>5, Posted DEF ConnectTimeout, ExhaustBudget, RadioDisconnect, Return, Release, Post
<1>6. ASSUME HandlerEnter PROVE LinkInv'
  BY <1>6, Taken DEF HandlerEnter, Acquire
<1>7. ASSUME HandlerLost PROVE LinkInv'
  BY <1>7 DEF HandlerLost, AttemptLeft
<1>8. ASSUME HandlerRetry PROVE LinkInv'
  BY <1>8 DEF HandlerRetry, RadioConnect, HandlerDone, Release
<1>9. ASSUME HandlerGiveUp PROVE LinkInv'
  BY <1>9 DEF HandlerGiveUp, HandlerDone, Release
<1>10. ASSUME HandlerGotIp PROVE LinkInv'
  BY <1>10 DEF HandlerGotIp, ResetBudget
<1>11. ASSUME HandlerAddress PROVE LinkInv'
  BY <1>11 DEF HandlerAddress, HandlerDone, Release
<1>12. ASSUME DeinitTake PROVE LinkInv'
  BY <1>12 DEF DeinitTake
<1>13. ASSUME DeinitNothing PROVE LinkInv'
  BY <1>13 DEF DeinitNothing
<1>14. ASSUME DeinitWake PROVE LinkInv'
  BY <1>14 DEF DeinitWake
<1>15. ASSUME DeinitDelete PROVE LinkInv'
  BY <1>15 DEF DeinitDelete, NoUsers
<1>16. ASSUME Joined PROVE LinkInv'
  BY <1>16, Posted DEF Joined, Post
<1>17. ASSUME Refused PROVE LinkInv'
  BY <1>17, Posted DEF Refused, Post
<1>18. ASSUME LinkLost PROVE LinkInv'
  BY <1>18, Posted DEF LinkLost, Post
<1>19. ASSUME WifiReset PROVE LinkInv'
  BY <1>19 DEF WifiReset
<1>20. ASSUME CallTaken PROVE LinkInv'
  BY <1>20 DEF CallTaken
<1>21. ASSUME DeinitAgain PROVE LinkInv'
  BY <1>21 DEF DeinitAgain
<1>22. ASSUME NEW c \in Credentials, ConnectStart(c) PROVE LinkInv'
  BY <1>22 DEF ConnectStart, RadioConnect, Return, Release
<1>23. ASSUME UNCHANGED wifiVars PROVE LinkInv'
  BY <1>23 DEF wifiVars
<1> QED
  BY <1>1, <1>2, <1>3, <1>4, <1>5, <1>6, <1>7, <1>8, <1>9, <1>10, <1>11, <1>12, <1>13,
       <1>14, <1>15, <1>16, <1>17, <1>18, <1>19, <1>20, <1>21, <1>22, <1>23, Zenon DEF WifiNext,
       Handler, Deinit

\* Every action assigns values of the types.
LEMMA WifiTypesStep ==
    ASSUME WifiAssumption, WifiTypeOK, UsersInv', WifiNext
    PROVE  WifiTypeOK'
<1>0. 0 \in 0..MaxReconnects
  BY DEF WifiAssumption
<1> USE DEF WifiAssumption, WifiTypeOK, UsersInv, Held, Holding
<1>1. ASSUME StationUp PROVE WifiTypeOK'
  BY <1>1 DEF StationUp
<1>2. ASSUME ConnectEnter PROVE WifiTypeOK'
  BY <1>2 DEF ConnectEnter, Acquire
<1>3. ASSUME ConnectClear PROVE WifiTypeOK'
  <2>1. /\ UNCHANGED <<group, radio, station, losses, events, handler, deinit>>
        /\ bits' = {} \/ bits' = bits
        /\ retries' = 0 \/ retries' = retries
        /\ call' \in {"cleared", "returned"}
        /\ result' = "error" \/ result' = result
    BY <1>3 DEF ConnectClear, ResetBudget, Return
  <2>2. users' \in 0..2
    OBVIOUS
  <2>3. bits' \subseteq {"connected", "fail"} /\ retries' \in 0..MaxReconnects
    BY <1>0, <2>1, Zenon
  <2> QED
    BY <2>1, <2>2, <2>3
<1>4. ASSUME ConnectAnswered PROVE WifiTypeOK'
  BY <1>4 DEF ConnectAnswered, Return, Release
<1>5. ASSUME ConnectTimeout PROVE WifiTypeOK'
  BY <1>5, Posted DEF ConnectTimeout, ExhaustBudget, RadioDisconnect, Return, Release, Post
<1>6. ASSUME HandlerEnter PROVE WifiTypeOK'
  BY <1>6, Taken DEF HandlerEnter, Acquire
<1>7. ASSUME HandlerLost PROVE WifiTypeOK'
  BY <1>7 DEF HandlerLost, AttemptLeft
<1>8. ASSUME HandlerRetry PROVE WifiTypeOK'
  BY <1>8 DEF HandlerRetry, RadioConnect, HandlerDone, Release
<1>9. ASSUME HandlerGiveUp PROVE WifiTypeOK'
  BY <1>9 DEF HandlerGiveUp, HandlerDone, Release
<1>10. ASSUME HandlerGotIp PROVE WifiTypeOK'
  BY <1>10 DEF HandlerGotIp, ResetBudget
<1>11. ASSUME HandlerAddress PROVE WifiTypeOK'
  BY <1>11 DEF HandlerAddress, HandlerDone, Release
<1>12. ASSUME DeinitTake PROVE WifiTypeOK'
  BY <1>12 DEF DeinitTake
<1>13. ASSUME DeinitNothing PROVE WifiTypeOK'
  BY <1>13 DEF DeinitNothing
<1>14. ASSUME DeinitWake PROVE WifiTypeOK'
  BY <1>14 DEF DeinitWake
<1>15. ASSUME DeinitDelete PROVE WifiTypeOK'
  BY <1>15 DEF DeinitDelete, NoUsers
<1>16. ASSUME Joined PROVE WifiTypeOK'
  BY <1>16, Posted DEF Joined, Post
<1>17. ASSUME Refused PROVE WifiTypeOK'
  BY <1>17, Posted DEF Refused, Post
<1>18. ASSUME LinkLost PROVE WifiTypeOK'
  BY <1>18, Posted DEF LinkLost, Post
<1>19. ASSUME WifiReset PROVE WifiTypeOK'
  BY <1>19 DEF WifiReset
<1>20. ASSUME CallTaken PROVE WifiTypeOK'
  BY <1>20 DEF CallTaken
<1>21. ASSUME DeinitAgain PROVE WifiTypeOK'
  BY <1>21 DEF DeinitAgain
<1>22. ASSUME NEW c \in Credentials, ConnectStart(c) PROVE WifiTypeOK'
  BY <1>22 DEF ConnectStart, RadioConnect, Return, Release
<1>23. ASSUME UNCHANGED wifiVars PROVE WifiTypeOK'
  BY <1>23 DEF wifiVars
<1> QED
  BY <1>1, <1>2, <1>3, <1>4, <1>5, <1>6, <1>7, <1>8, <1>9, <1>10, <1>11, <1>12, <1>13,
       <1>14, <1>15, <1>16, <1>17, <1>18, <1>19, <1>20, <1>21, <1>22, <1>23, Zenon DEF WifiNext,
       Handler, Deinit

LEMMA WifiStep == ASSUME WifiAssumption, WifiInv, WifiNext PROVE WifiInv'
<1>1. UsersInv' /\ NoneInv' /\ NoHandleToDeletedGroup'
  BY UsersStep, Zenon DEF WifiInv
<1>2. LinkInv'
  BY LinkStep, Zenon DEF WifiInv
<1>3. WifiTypeOK'
  BY <1>1, WifiTypesStep, Zenon DEF WifiInv
<1> QED
  BY <1>1, <1>2, <1>3, Zenon DEF WifiInv

-----------------------------------------------------------------------------
(***************************************************************************)
(* Provisioning.                                                           *)
(***************************************************************************)
FlashType == [ssid : Ssids \union {None}, pass : Passwords \union {None}, done : BOOLEAN]

BleTypes ==
    /\ boot \in {"init", "check", "prov", "drain", "load", "link", "connecting",
                 "failed", "up"}
    /\ creds \in [ssid : Ssids \union {None}, pass : Passwords \union {None}]
    /\ flash \in FlashType
    /\ lock \in {"free", "save", "reset"}
    /\ reset \in {"idle", "waiting", "running", "erased"}
    /\ eg \in {"none", "open", "taken", "deleted"}
    /\ egBits \subseteq {"done", "fail"}
    /\ task \in {"none", "await", "connect", "connecting", "begin", "ssid", "pass", "flag",
                 "commit", "notify", "signal", "set", "release", "end"}
    /\ outcome \in {"none", "ok", "fail"}
    /\ buffer \in [ssid : Ssids \union {None}, pass : Passwords \union {None}]
    /\ got \subseteq {"ssid", "pass"}
    /\ host \in {"off", "syncing", "idle", "leaving", "notify"}
    /\ advertising \in {"off", "on", "error"}
    /\ writes \in 0..MaxWrites /\ told \in {"none", "ok", "fail"}

BleFlags ==
    resetting \in BOOLEAN /\ handle \in BOOLEAN /\ notified \in BOOLEAN /\ linked \in BOOLEAN

\* The group and who holds it.
EgInv ==
    /\ egUsers = Held(task \in {"set", "release"}) + Held(host = "leaving")
    /\ boot \in {"init", "check"} => eg = "none" /\ task = "none"
    /\ boot = "prov" => eg = "open"
    /\ boot # "prov" => host = "off"
    /\ eg = "deleted" => task \notin {"set", "release"}

\* prov_task works before there is a result, and while the boot waits for one.
TaskInv ==
    /\ handle = (task # "none")
    /\ task \notin {"none", "release", "end"} => boot = "prov" /\ egBits = {}

\* Only prov_task and the boot connect, never both.
CallInv ==
    /\ call # "idle" => task = "connecting" \/ boot = "connecting"
    /\ boot \in {"link", "connecting"} => None \notin {creds.ssid, creds.pass}

Complete == got = {"ssid", "pass"}

\* The task is woken for two credentials, and they stay credentials.
BufferInv ==
    /\ task # "none" =>
          /\ "ssid" \in got => buffer.ssid # None
          /\ "pass" \in got => buffer.pass # None
    /\ notified \/ host = "notify" => Complete
    /\ task \in {"connect", "connecting", "begin", "ssid", "pass", "flag", "commit"} => Complete

\* Who has the lock of the flash.
LockInv ==
    /\ lock = "save" <=> task \in {"ssid", "pass", "flag", "commit"}
    /\ lock = "reset" <=> reset \in {"running", "erased"}

\* How far save_credentials has come.
SaveInv ==
    /\ task \in {"pass", "flag", "commit"} => flash.ssid # None
    /\ task \in {"flag", "commit"} => flash.pass # None
    /\ task = "commit" => flash.done
    /\ task = "notify" /\ outcome = "ok" /\ reset # "erased" => flash.done

\* A host that is about to notify has a client.
AdvertInv ==
    boot = "prov" /\ host \in {"idle", "notify"} /\ ~linked /\ egBits = {}
        => advertising # "off"

\* The invariant.
Inv ==
    /\ WifiInv /\ BleTypes /\ BleFlags
    /\ EgInv /\ TaskInv /\ CallInv /\ BufferInv /\ LockInv /\ SaveInv
    /\ DoneIsComplete /\ AdvertInv

PhoneWrites ==
    \/ \E v \in Ssids : ClientWrites("ssid", v)
    \/ \E v \in Passwords : ClientWrites("pass", v)

\* Whoever holds the group of provisioning is counted until it is through.
LEMMA EgStep ==
    ASSUME BleAssumption, BleTypes, TaskInv, EgInv, Next
    PROVE  EgInv'
<1> USE DEF BleTypes, TaskInv, EgInv, Held
<1>1. ASSUME BootWifi PROVE EgInv'
  BY <1>1 DEF BootWifi, Boot, StationUp, bleVars
<1>2. ASSUME BootProvisioned PROVE EgInv'
  BY <1>2 DEF BootProvisioned, Boot, bleVars
<1>3. ASSUME ProvisioningStart PROVE EgInv'
  BY <1>3 DEF ProvisioningStart, Blank, bleVars
<1>4. ASSUME ProvisioningStop PROVE EgInv'
  BY <1>4 DEF ProvisioningStop, Boot, bleVars
<1>5. ASSUME ProvisioningEnd PROVE EgInv'
  BY <1>5 DEF ProvisioningEnd, Boot, EgUnused, bleVars
<1>6. ASSUME BootLoad PROVE EgInv'
  BY <1>6 DEF BootLoad, Boot, bleVars
<1>7. ASSUME BootLinked PROVE EgInv'
  BY <1>7 DEF BootLinked, Boot, bleVars
<1>8. ASSUME BootConnect PROVE EgInv'
  BY <1>8 DEF BootConnect, Boot, bleVars
<1>9. ASSUME BootConnected PROVE EgInv'
  BY <1>9 DEF BootConnected, Boot, bleVars
<1>10. ASSUME TaskWake PROVE EgInv'
  BY <1>10 DEF TaskWake, Task, KeepAllButTask, bleVars
<1>11. ASSUME TaskTimesOut PROVE EgInv'
  BY <1>11 DEF TaskTimesOut, Task, KeepAllButTask, bleVars
<1>12. ASSUME TaskConnect PROVE EgInv'
  BY <1>12 DEF TaskConnect, Task, bleVars
<1>13. ASSUME TaskConnected PROVE EgInv'
  BY <1>13 DEF TaskConnected, Task, bleVars
<1>14. ASSUME SaveBegin PROVE EgInv'
  BY <1>14 DEF SaveBegin, SaveFails, KeepAllButSave, bleVars
<1>15. ASSUME Save PROVE EgInv'
  BY <1>15 DEF Save, SaveStep, SaveFails, KeepAllButSave, bleVars
<1>16. ASSUME SaveEnd PROVE EgInv'
  BY <1>16 DEF SaveEnd, SaveFails, KeepAllButSave, bleVars
<1>17. ASSUME TaskNotify PROVE EgInv'
  BY <1>17 DEF TaskNotify, Task, KeepAllButTask, bleVars
<1>18. ASSUME TaskAcquire PROVE EgInv'
  BY <1>18 DEF TaskAcquire, EgAcquire, KeepAllButTask, bleVars
<1>19. ASSUME TaskSet PROVE EgInv'
  BY <1>19 DEF TaskSet, Task, bleVars
<1>20. ASSUME TaskRelease PROVE EgInv'
  BY <1>20 DEF TaskRelease, Task, EgRelease, KeepAllButTask, bleVars
<1>21. ASSUME TaskEnd PROVE EgInv'
  BY <1>21 DEF TaskEnd, Task, Blank, bleVars
<1>22. ASSUME OnSync PROVE EgInv'
  BY <1>22 DEF OnSync, KeepAllButHost, Advertise, bleVars
<1>23. ASSUME ClientLeft PROVE EgInv'
  BY <1>23 DEF ClientLeft, KeepAllButHost, EgRelease, Advertise, bleVars
<1>24. ASSUME HostNotify PROVE EgInv'
  BY <1>24 DEF HostNotify, KeepAllButHost, bleVars
<1>25. ASSUME HostNotifyDead PROVE EgInv'
  BY <1>25 DEF HostNotifyDead, KeepAllButHost, Restart, WifiReset, Blank, bleVars
<1>26. ASSUME ClientLeaves PROVE EgInv'
  BY <1>26 DEF ClientLeaves, KeepAllButHost, EgAcquire, bleVars
<1>27. ASSUME PhoneWrites PROVE EgInv'
  BY <1>27 DEF PhoneWrites, ClientWrites, KeepAllButHost, bleVars
<1>28. ASSUME Restart PROVE EgInv'
  BY <1>28 DEF Restart, Blank, WifiReset
<1>29. ASSUME UNCHANGED <<boot, eg, egUsers, egBits, task, host>> PROVE EgInv'
  BY <1>29
<1>30. ASSUME Connecting \/ EventLoop \/ ClientConnects \/ ClientFails \/ Environment \/
       ResetBegin \/ ResetLock \/ ResetWifi \/ ResetErase
      PROVE  UNCHANGED <<boot, eg, egUsers, egBits, task, host>>
  BY <1>30, Zenon DEF Advertise, ClientConnects, ClientFails, Connecting, EmptyFlash,
       Environment, EventLoop, KeepAllButHost, KeepAllButReset, Others, ResetBegin, ResetErase,
       ResetLock, ResetWifi, bleVars, resetVars, wifiVars
<1>31. BootFailed \/ ResetRestart \/ PowerLoss => Restart
  BY Zenon DEF BootFailed, ResetRestart, PowerLoss
<1> QED
  BY <1>1, <1>2, <1>3, <1>4, <1>5, <1>6, <1>7, <1>8, <1>9, <1>10, <1>11, <1>12, <1>13,
       <1>14, <1>15, <1>16, <1>17, <1>18, <1>19, <1>20, <1>21, <1>22, <1>23, <1>24, <1>25, <1>26,
       <1>27, <1>28, <1>29, <1>30, <1>31, Zenon DEF Next, BootTask, ProvTask, Host, Phone,
       PhoneWrites, ResetTask

\* prov_task starts with the wait of the boot and has its result before it ends.
LEMMA TaskStep ==
    ASSUME BleAssumption, BleTypes, EgInv, TaskInv, Next
    PROVE  TaskInv'
<1> USE DEF BleTypes, EgInv, TaskInv
<1>1. ASSUME BootWifi PROVE TaskInv'
  BY <1>1 DEF BootWifi, Boot, StationUp, bleVars
<1>2. ASSUME BootProvisioned PROVE TaskInv'
  BY <1>2 DEF BootProvisioned, Boot, bleVars
<1>3. ASSUME ProvisioningStart PROVE TaskInv'
  BY <1>3 DEF ProvisioningStart, Blank, bleVars
<1>4. ASSUME ProvisioningStop PROVE TaskInv'
  BY <1>4 DEF ProvisioningStop, Boot, bleVars
<1>5. ASSUME ProvisioningEnd PROVE TaskInv'
  BY <1>5 DEF ProvisioningEnd, Boot, EgUnused, bleVars
<1>6. ASSUME BootLoad PROVE TaskInv'
  BY <1>6 DEF BootLoad, Boot, bleVars
<1>7. ASSUME BootLinked PROVE TaskInv'
  BY <1>7 DEF BootLinked, Boot, bleVars
<1>8. ASSUME BootConnect PROVE TaskInv'
  BY <1>8 DEF BootConnect, Boot, bleVars
<1>9. ASSUME BootConnected PROVE TaskInv'
  BY <1>9 DEF BootConnected, Boot, bleVars
<1>10. ASSUME TaskWake PROVE TaskInv'
  BY <1>10 DEF TaskWake, Task, KeepAllButTask, bleVars
<1>11. ASSUME TaskTimesOut PROVE TaskInv'
  BY <1>11 DEF TaskTimesOut, Task, KeepAllButTask, bleVars
<1>12. ASSUME TaskConnect PROVE TaskInv'
  BY <1>12 DEF TaskConnect, Task, bleVars
<1>13. ASSUME TaskConnected PROVE TaskInv'
  BY <1>13 DEF TaskConnected, Task, bleVars
<1>14. ASSUME SaveBegin PROVE TaskInv'
  BY <1>14 DEF SaveBegin, SaveFails, KeepAllButSave, bleVars
<1>15. ASSUME Save PROVE TaskInv'
  BY <1>15 DEF Save, SaveStep, SaveFails, KeepAllButSave, bleVars
<1>16. ASSUME SaveEnd PROVE TaskInv'
  BY <1>16 DEF SaveEnd, SaveFails, KeepAllButSave, bleVars
<1>17. ASSUME TaskNotify PROVE TaskInv'
  BY <1>17 DEF TaskNotify, Task, KeepAllButTask, bleVars
<1>18. ASSUME TaskAcquire PROVE TaskInv'
  BY <1>18 DEF TaskAcquire, EgAcquire, KeepAllButTask, bleVars
<1>19. ASSUME TaskSet PROVE TaskInv'
  BY <1>19 DEF TaskSet, Task, bleVars
<1>20. ASSUME TaskRelease PROVE TaskInv'
  BY <1>20 DEF TaskRelease, Task, EgRelease, KeepAllButTask, bleVars
<1>21. ASSUME TaskEnd PROVE TaskInv'
  BY <1>21 DEF TaskEnd, Task, Blank, bleVars
<1>22. ASSUME HostNotifyDead PROVE TaskInv'
  BY <1>22 DEF HostNotifyDead, KeepAllButHost, Restart, WifiReset, Blank, bleVars
<1>23. ASSUME Restart PROVE TaskInv'
  BY <1>23 DEF Restart, Blank, WifiReset
<1>24. ASSUME UNCHANGED <<boot, egBits, task, handle>> PROVE TaskInv'
  BY <1>24
<1>25. ASSUME Connecting \/ EventLoop \/ OnSync \/ ClientLeft \/ HostNotify \/
       ClientConnects \/ ClientFails \/ ClientLeaves \/ PhoneWrites \/ Environment \/ ResetBegin \/
       ResetLock \/ ResetWifi \/ ResetErase
      PROVE  UNCHANGED <<boot, egBits, task, handle>>
  BY <1>25, Zenon DEF Advertise, ClientConnects, ClientFails, ClientLeaves, ClientLeft,
       ClientWrites, Connecting, EgAcquire, EgRelease, EmptyFlash, Environment, EventLoop,
       HostNotify, KeepAllButHost, KeepAllButReset, OnSync, Others, PhoneWrites, ResetBegin,
       ResetErase, ResetLock, ResetWifi, bleVars, resetVars, wifiVars
<1>26. BootFailed \/ ResetRestart \/ PowerLoss => Restart
  BY Zenon DEF BootFailed, ResetRestart, PowerLoss
<1> QED
  BY <1>1, <1>2, <1>3, <1>4, <1>5, <1>6, <1>7, <1>8, <1>9, <1>10, <1>11, <1>12, <1>13,
       <1>14, <1>15, <1>16, <1>17, <1>18, <1>19, <1>20, <1>21, <1>22, <1>23, <1>24, <1>25, <1>26,
       Zenon DEF Next, BootTask, ProvTask, Host, Phone, PhoneWrites, ResetTask

\* A call is taken back by the task that made it.
LEMMA CallStep ==
    ASSUME BleAssumption, BleTypes, EgInv, TaskInv, CallInv, Next
    PROVE  CallInv'
<1> USE DEF BleTypes, EgInv, TaskInv, CallInv
<1>1. ASSUME BootWifi PROVE CallInv'
  BY <1>1 DEF BootWifi, Boot, StationUp, bleVars, wifiVars
<1>2. ASSUME BootProvisioned PROVE CallInv'
  BY <1>2 DEF BootProvisioned, Boot, bleVars, wifiVars
<1>3. ASSUME ProvisioningStart PROVE CallInv'
  BY <1>3 DEF ProvisioningStart, Blank, bleVars, wifiVars
<1>4. ASSUME ProvisioningStop PROVE CallInv'
  BY <1>4 DEF ProvisioningStop, Boot, bleVars, wifiVars
<1>5. ASSUME ProvisioningEnd PROVE CallInv'
  BY <1>5 DEF ProvisioningEnd, Boot, EgUnused, bleVars, wifiVars
<1>6. ASSUME BootLoad PROVE CallInv'
  BY <1>6 DEF BootLoad, Boot, bleVars, wifiVars
<1>7. ASSUME BootLinked PROVE CallInv'
  BY <1>7 DEF BootLinked, Boot, bleVars, wifiVars
<1>8. ASSUME BootConnect PROVE CallInv'
  BY <1>8 DEF BootConnect, Boot, bleVars, wifiVars
<1>9. ASSUME BootConnected PROVE CallInv'
  BY <1>9 DEF BootConnected, Boot, bleVars, wifiVars
<1>10. ASSUME TaskWake PROVE CallInv'
  BY <1>10 DEF TaskWake, Task, KeepAllButTask, bleVars, wifiVars
<1>11. ASSUME TaskTimesOut PROVE CallInv'
  BY <1>11 DEF TaskTimesOut, Task, KeepAllButTask, bleVars, wifiVars
<1>12. ASSUME TaskConnect PROVE CallInv'
  BY <1>12 DEF TaskConnect, Task, bleVars, wifiVars
<1>13. ASSUME TaskConnected PROVE CallInv'
  BY <1>13 DEF TaskConnected, Task, bleVars, wifiVars
<1>14. ASSUME SaveBegin PROVE CallInv'
  BY <1>14 DEF SaveBegin, SaveFails, KeepAllButSave, bleVars, wifiVars
<1>15. ASSUME Save PROVE CallInv'
  BY <1>15 DEF Save, SaveStep, SaveFails, KeepAllButSave, bleVars, wifiVars
<1>16. ASSUME SaveEnd PROVE CallInv'
  BY <1>16 DEF SaveEnd, SaveFails, KeepAllButSave, bleVars, wifiVars
<1>17. ASSUME TaskNotify PROVE CallInv'
  BY <1>17 DEF TaskNotify, Task, KeepAllButTask, bleVars, wifiVars
<1>18. ASSUME TaskAcquire PROVE CallInv'
  BY <1>18 DEF TaskAcquire, EgAcquire, KeepAllButTask, bleVars, wifiVars
<1>19. ASSUME TaskSet PROVE CallInv'
  BY <1>19 DEF TaskSet, Task, bleVars, wifiVars
<1>20. ASSUME TaskRelease PROVE CallInv'
  BY <1>20 DEF TaskRelease, Task, EgRelease, KeepAllButTask, bleVars, wifiVars
<1>21. ASSUME TaskEnd PROVE CallInv'
  BY <1>21 DEF TaskEnd, Task, Blank, bleVars, wifiVars
<1>22. ASSUME HostNotifyDead PROVE CallInv'
  BY <1>22 DEF HostNotifyDead, KeepAllButHost, Restart, WifiReset, Blank, bleVars, wifiVars
<1>23. ASSUME Restart PROVE CallInv'
  BY <1>23 DEF Restart, Blank, WifiReset
<1>24. ASSUME (call = "idle" => call' = "idle") /\ UNCHANGED <<boot, task, creds>> PROVE CallInv'
  BY <1>24
<1>25. ASSUME Connecting \/ EventLoop \/ OnSync \/ ClientLeft \/ HostNotify \/
       ClientConnects \/ ClientFails \/ ClientLeaves \/ PhoneWrites \/ Environment \/ ResetBegin \/
       ResetLock \/ ResetWifi \/ ResetErase
      PROVE  (call = "idle" => call' = "idle") /\ UNCHANGED <<boot, task, creds>>
  BY <1>25, Zenon DEF Advertise, ClientConnects, ClientFails, ClientLeaves, ClientLeft,
       ClientWrites, Connecting, EgAcquire, EgRelease, EmptyFlash, Environment, EventLoop,
       HostNotify, KeepAllButHost, KeepAllButReset, OnSync, Others, PhoneWrites, ResetBegin,
       ResetErase, ResetLock, ResetWifi, bleVars, resetVars, wifiVars, ConnectClear,
       ConnectStart, ConnectAnswered, ConnectTimeout, Return, Handler, HandlerEnter, HandlerLost,
       HandlerRetry, HandlerGiveUp, HandlerGotIp, HandlerAddress, Deinit, DeinitTake,
       DeinitNothing, DeinitWake, DeinitDelete, Joined, Refused, LinkLost
<1>26. BootFailed \/ ResetRestart \/ PowerLoss => Restart
  BY Zenon DEF BootFailed, ResetRestart, PowerLoss
<1> QED
  BY <1>1, <1>2, <1>3, <1>4, <1>5, <1>6, <1>7, <1>8, <1>9, <1>10, <1>11, <1>12, <1>13,
       <1>14, <1>15, <1>16, <1>17, <1>18, <1>19, <1>20, <1>21, <1>22, <1>23, <1>24, <1>25, <1>26,
       Zenon DEF Next, BootTask, ProvTask, Host, Phone, PhoneWrites, ResetTask

\* Once both credentials are written they can be overwritten, but not taken away.
LEMMA BufferStep ==
    ASSUME BleAssumption, BleTypes, TaskInv, EgInv, BufferInv, Next
    PROVE  BufferInv'
<1> USE DEF BleTypes, TaskInv, EgInv, BufferInv, Complete
<1>1. ASSUME ProvisioningStart PROVE BufferInv'
  BY <1>1 DEF ProvisioningStart, Blank, bleVars
<1>2. ASSUME ProvisioningStop PROVE BufferInv'
  BY <1>2 DEF ProvisioningStop, Boot, bleVars
<1>3. ASSUME TaskWake PROVE BufferInv'
  BY <1>3 DEF TaskWake, Task, KeepAllButTask, bleVars
<1>4. ASSUME TaskTimesOut PROVE BufferInv'
  BY <1>4 DEF TaskTimesOut, Task, KeepAllButTask, bleVars
<1>5. ASSUME TaskConnect PROVE BufferInv'
  BY <1>5 DEF TaskConnect, Task, bleVars
<1>6. ASSUME TaskConnected PROVE BufferInv'
  BY <1>6 DEF TaskConnected, Task, bleVars
<1>7. ASSUME SaveBegin PROVE BufferInv'
  BY <1>7 DEF SaveBegin, SaveFails, KeepAllButSave, bleVars
<1>8. ASSUME Save PROVE BufferInv'
  BY <1>8 DEF Save, SaveStep, SaveFails, KeepAllButSave, bleVars
<1>9. ASSUME SaveEnd PROVE BufferInv'
  BY <1>9 DEF SaveEnd, SaveFails, KeepAllButSave, bleVars
<1>10. ASSUME TaskNotify PROVE BufferInv'
  BY <1>10 DEF TaskNotify, Task, KeepAllButTask, bleVars
<1>11. ASSUME TaskAcquire PROVE BufferInv'
  BY <1>11 DEF TaskAcquire, EgAcquire, KeepAllButTask, bleVars
<1>12. ASSUME TaskSet PROVE BufferInv'
  BY <1>12 DEF TaskSet, Task, bleVars
<1>13. ASSUME TaskRelease PROVE BufferInv'
  BY <1>13 DEF TaskRelease, Task, EgRelease, KeepAllButTask, bleVars
<1>14. ASSUME TaskEnd PROVE BufferInv'
  BY <1>14 DEF TaskEnd, Task, Blank, bleVars
<1>15. ASSUME OnSync PROVE BufferInv'
  BY <1>15 DEF OnSync, KeepAllButHost, Advertise, bleVars
<1>16. ASSUME ClientLeft PROVE BufferInv'
  BY <1>16 DEF ClientLeft, KeepAllButHost, EgRelease, Advertise, bleVars
<1>17. ASSUME HostNotify PROVE BufferInv'
  BY <1>17 DEF HostNotify, KeepAllButHost, bleVars
<1>18. ASSUME HostNotifyDead PROVE BufferInv'
  BY <1>18 DEF HostNotifyDead, KeepAllButHost, Restart, WifiReset, Blank, bleVars
<1>19. ASSUME ClientLeaves PROVE BufferInv'
  BY <1>19 DEF ClientLeaves, KeepAllButHost, EgAcquire, bleVars
<1>20. ASSUME PhoneWrites PROVE BufferInv'
  BY <1>20 DEF PhoneWrites, ClientWrites, KeepAllButHost, bleVars
<1>21. ASSUME Restart PROVE BufferInv'
  BY <1>21 DEF Restart, Blank, WifiReset
<1>22. ASSUME UNCHANGED <<task, got, buffer, notified, host>> PROVE BufferInv'
  BY <1>22
<1>23. ASSUME BootWifi \/ BootProvisioned \/ ProvisioningEnd \/ BootLoad \/ BootLinked \/
       BootConnect \/ BootConnected \/ Connecting \/ EventLoop \/ ClientConnects \/ ClientFails \/
       Environment \/ ResetBegin \/ ResetLock \/ ResetWifi \/ ResetErase
      PROVE  UNCHANGED <<task, got, buffer, notified, host>>
  BY <1>23, Zenon DEF Advertise, Boot, BootConnect, BootConnected, BootLinked, BootLoad,
       BootProvisioned, BootWifi, ClientConnects, ClientFails, Connecting, EgUnused, EmptyFlash,
       Environment, EventLoop, KeepAllButHost, KeepAllButReset, Others, ProvisioningEnd,
       ResetBegin, ResetErase, ResetLock, ResetWifi, StationUp, bleVars, resetVars, wifiVars
<1>24. BootFailed \/ ResetRestart \/ PowerLoss => Restart
  BY Zenon DEF BootFailed, ResetRestart, PowerLoss
<1> QED
  BY <1>1, <1>2, <1>3, <1>4, <1>5, <1>6, <1>7, <1>8, <1>9, <1>10, <1>11, <1>12, <1>13,
       <1>14, <1>15, <1>16, <1>17, <1>18, <1>19, <1>20, <1>21, <1>22, <1>23, <1>24, Zenon DEF
       Next, BootTask, ProvTask, Host, Phone, PhoneWrites, ResetTask

\* The lock changes hands with the steps of save_credentials and of the reset, and no other.
LEMMA LockStep ==
    ASSUME BleAssumption, BleTypes, TaskInv, EgInv, LockInv, Next
    PROVE  LockInv'
<1> USE DEF BleTypes, TaskInv, EgInv, LockInv
<1>1. ASSUME ProvisioningStart PROVE LockInv'
  BY <1>1 DEF ProvisioningStart, Blank, bleVars, resetVars
<1>2. ASSUME TaskWake PROVE LockInv'
  BY <1>2 DEF TaskWake, Task, KeepAllButTask, bleVars, resetVars
<1>3. ASSUME TaskTimesOut PROVE LockInv'
  BY <1>3 DEF TaskTimesOut, Task, KeepAllButTask, bleVars, resetVars
<1>4. ASSUME TaskConnect PROVE LockInv'
  BY <1>4 DEF TaskConnect, Task, bleVars, resetVars
<1>5. ASSUME TaskConnected PROVE LockInv'
  BY <1>5 DEF TaskConnected, Task, bleVars, resetVars
<1>6. ASSUME SaveBegin PROVE LockInv'
  BY <1>6 DEF SaveBegin, SaveFails, KeepAllButSave, bleVars, resetVars
<1>7. ASSUME Save PROVE LockInv'
  BY <1>7 DEF Save, SaveStep, SaveFails, KeepAllButSave, bleVars, resetVars
<1>8. ASSUME SaveEnd PROVE LockInv'
  BY <1>8 DEF SaveEnd, SaveFails, KeepAllButSave, bleVars, resetVars
<1>9. ASSUME TaskNotify PROVE LockInv'
  BY <1>9 DEF TaskNotify, Task, KeepAllButTask, bleVars, resetVars
<1>10. ASSUME TaskAcquire PROVE LockInv'
  BY <1>10 DEF TaskAcquire, EgAcquire, KeepAllButTask, bleVars, resetVars
<1>11. ASSUME TaskSet PROVE LockInv'
  BY <1>11 DEF TaskSet, Task, bleVars, resetVars
<1>12. ASSUME TaskRelease PROVE LockInv'
  BY <1>12 DEF TaskRelease, Task, EgRelease, KeepAllButTask, bleVars, resetVars
<1>13. ASSUME TaskEnd PROVE LockInv'
  BY <1>13 DEF TaskEnd, Task, Blank, bleVars, resetVars
<1>14. ASSUME ResetBegin PROVE LockInv'
  BY <1>14 DEF ResetBegin, KeepAllButReset, bleVars, resetVars
<1>15. ASSUME ResetLock PROVE LockInv'
  BY <1>15 DEF ResetLock, KeepAllButReset, bleVars, resetVars
<1>16. ASSUME ResetErase PROVE LockInv'
  BY <1>16 DEF ResetErase, EmptyFlash, KeepAllButReset, bleVars, resetVars
<1>17. ASSUME HostNotifyDead PROVE LockInv'
  BY <1>17 DEF HostNotifyDead, KeepAllButHost, Restart, WifiReset, Blank, bleVars, resetVars
<1>18. ASSUME Restart PROVE LockInv'
  BY <1>18 DEF Restart, Blank, WifiReset
<1>19. ASSUME UNCHANGED <<task, lock, reset>> PROVE LockInv'
  BY <1>19
<1>20. ASSUME BootWifi \/ BootProvisioned \/ ProvisioningStop \/ ProvisioningEnd \/ BootLoad
       \/ BootLinked \/ BootConnect \/ BootConnected \/ Connecting \/ EventLoop \/ OnSync \/
       ClientLeft \/ HostNotify \/ ClientConnects \/ ClientFails \/ ClientLeaves \/ PhoneWrites \/
       Environment \/ ResetWifi
      PROVE  UNCHANGED <<task, lock, reset>>
  BY <1>20, Zenon DEF Advertise, Boot, BootConnect, BootConnected, BootLinked, BootLoad,
       BootProvisioned, BootWifi, ClientConnects, ClientFails, ClientLeaves, ClientLeft,
       ClientWrites, Connecting, EgAcquire, EgRelease, EgUnused, Environment, EventLoop,
       HostNotify, KeepAllButHost, KeepAllButReset, OnSync, Others, PhoneWrites, ProvisioningEnd,
       ProvisioningStop, ResetWifi, StationUp, bleVars, resetVars, wifiVars
<1>21. BootFailed \/ ResetRestart \/ PowerLoss => Restart
  BY Zenon DEF BootFailed, ResetRestart, PowerLoss
<1> QED
  BY <1>1, <1>2, <1>3, <1>4, <1>5, <1>6, <1>7, <1>8, <1>9, <1>10, <1>11, <1>12, <1>13,
       <1>14, <1>15, <1>16, <1>17, <1>18, <1>19, <1>20, <1>21, Zenon DEF Next, BootTask,
       ProvTask, Host, Phone, PhoneWrites, ResetTask

\* Keys are stored in order, from buffers that are complete; an erasure waits for the end.
LEMMA SaveStepHolds ==
    ASSUME BleAssumption, BleTypes, BufferInv, EgInv, LockInv, DoneIsComplete, SaveInv, Next
    PROVE  SaveInv' /\ DoneIsComplete'
<1> USE DEF BleTypes, FlashType, TaskInv, EgInv, BufferInv, Complete, LockInv,
     DoneIsComplete, SaveInv
<1>1. ASSUME ProvisioningStart PROVE SaveInv' /\ DoneIsComplete'
  BY <1>1 DEF ProvisioningStart, Blank, bleVars, resetVars
<1>2. ASSUME TaskWake PROVE SaveInv' /\ DoneIsComplete'
  BY <1>2 DEF TaskWake, Task, KeepAllButTask, bleVars, resetVars
<1>3. ASSUME TaskTimesOut PROVE SaveInv' /\ DoneIsComplete'
  BY <1>3 DEF TaskTimesOut, Task, KeepAllButTask, bleVars, resetVars
<1>4. ASSUME TaskConnect PROVE SaveInv' /\ DoneIsComplete'
  BY <1>4 DEF TaskConnect, Task, bleVars, resetVars
<1>5. ASSUME TaskConnected PROVE SaveInv' /\ DoneIsComplete'
  BY <1>5 DEF TaskConnected, Task, bleVars, resetVars
<1>6. ASSUME SaveBegin PROVE SaveInv' /\ DoneIsComplete'
  BY <1>6 DEF SaveBegin, SaveFails, KeepAllButSave, bleVars, resetVars
<1>7. ASSUME Save PROVE SaveInv' /\ DoneIsComplete'
  BY <1>7 DEF Save, SaveStep, SaveFails, KeepAllButSave, bleVars, resetVars
<1>8. ASSUME SaveEnd PROVE SaveInv' /\ DoneIsComplete'
  BY <1>8 DEF SaveEnd, SaveFails, KeepAllButSave, bleVars, resetVars
<1>9. ASSUME TaskNotify PROVE SaveInv' /\ DoneIsComplete'
  BY <1>9 DEF TaskNotify, Task, KeepAllButTask, bleVars, resetVars
<1>10. ASSUME TaskAcquire PROVE SaveInv' /\ DoneIsComplete'
  BY <1>10 DEF TaskAcquire, EgAcquire, KeepAllButTask, bleVars, resetVars
<1>11. ASSUME TaskSet PROVE SaveInv' /\ DoneIsComplete'
  BY <1>11 DEF TaskSet, Task, bleVars, resetVars
<1>12. ASSUME TaskRelease PROVE SaveInv' /\ DoneIsComplete'
  BY <1>12 DEF TaskRelease, Task, EgRelease, KeepAllButTask, bleVars, resetVars
<1>13. ASSUME TaskEnd PROVE SaveInv' /\ DoneIsComplete'
  BY <1>13 DEF TaskEnd, Task, Blank, bleVars, resetVars
<1>14. ASSUME ResetBegin PROVE SaveInv' /\ DoneIsComplete'
  BY <1>14 DEF ResetBegin, KeepAllButReset, bleVars, resetVars
<1>15. ASSUME ResetLock PROVE SaveInv' /\ DoneIsComplete'
  BY <1>15 DEF ResetLock, KeepAllButReset, bleVars, resetVars
<1>16. ASSUME ResetErase PROVE SaveInv' /\ DoneIsComplete'
  BY <1>16 DEF ResetErase, EmptyFlash, KeepAllButReset, bleVars, resetVars
<1>17. ASSUME HostNotifyDead PROVE SaveInv' /\ DoneIsComplete'
  BY <1>17 DEF HostNotifyDead, KeepAllButHost, Restart, WifiReset, Blank, bleVars, resetVars
<1>18. ASSUME Restart PROVE SaveInv' /\ DoneIsComplete'
  BY <1>18 DEF Restart, Blank, WifiReset
<1>19. ASSUME UNCHANGED <<task, flash, outcome, told, reset>> PROVE SaveInv' /\ DoneIsComplete'
  BY <1>19
<1>20. ASSUME BootWifi \/ BootProvisioned \/ ProvisioningStop \/ ProvisioningEnd \/ BootLoad
       \/ BootLinked \/ BootConnect \/ BootConnected \/ Connecting \/ EventLoop \/ OnSync \/
       ClientLeft \/ HostNotify \/ ClientConnects \/ ClientFails \/ ClientLeaves \/ PhoneWrites \/
       Environment \/ ResetWifi
      PROVE  UNCHANGED <<task, flash, outcome, told, reset>>
  BY <1>20, Zenon DEF Advertise, Boot, BootConnect, BootConnected, BootLinked, BootLoad,
       BootProvisioned, BootWifi, ClientConnects, ClientFails, ClientLeaves, ClientLeft,
       ClientWrites, Connecting, EgAcquire, EgRelease, EgUnused, Environment, EventLoop,
       HostNotify, KeepAllButHost, KeepAllButReset, OnSync, Others, PhoneWrites, ProvisioningEnd,
       ProvisioningStop, ResetWifi, StationUp, bleVars, resetVars, wifiVars
<1>21. BootFailed \/ ResetRestart \/ PowerLoss => Restart
  BY Zenon DEF BootFailed, ResetRestart, PowerLoss
<1> QED
  BY <1>1, <1>2, <1>3, <1>4, <1>5, <1>6, <1>7, <1>8, <1>9, <1>10, <1>11, <1>12, <1>13,
       <1>14, <1>15, <1>16, <1>17, <1>18, <1>19, <1>20, <1>21, Zenon DEF Next, BootTask,
       ProvTask, Host, Phone, PhoneWrites, ResetTask

\* Whoever loses a client, or is told that one failed to connect, advertises again.
LEMMA AdvertStep ==
    ASSUME BleAssumption, BleTypes, EgInv, AdvertInv, Next
    PROVE  AdvertInv'
<1> USE DEF BleTypes, EgInv, AdvertInv
<1>1. ASSUME BootWifi PROVE AdvertInv'
  BY <1>1 DEF BootWifi, Boot, StationUp, bleVars
<1>2. ASSUME BootProvisioned PROVE AdvertInv'
  BY <1>2 DEF BootProvisioned, Boot, bleVars
<1>3. ASSUME ProvisioningStart PROVE AdvertInv'
  BY <1>3 DEF ProvisioningStart, Blank, bleVars
<1>4. ASSUME ProvisioningStop PROVE AdvertInv'
  BY <1>4 DEF ProvisioningStop, Boot, bleVars
<1>5. ASSUME ProvisioningEnd PROVE AdvertInv'
  BY <1>5 DEF ProvisioningEnd, Boot, EgUnused, bleVars
<1>6. ASSUME BootLoad PROVE AdvertInv'
  BY <1>6 DEF BootLoad, Boot, bleVars
<1>7. ASSUME BootLinked PROVE AdvertInv'
  BY <1>7 DEF BootLinked, Boot, bleVars
<1>8. ASSUME BootConnect PROVE AdvertInv'
  BY <1>8 DEF BootConnect, Boot, bleVars
<1>9. ASSUME BootConnected PROVE AdvertInv'
  BY <1>9 DEF BootConnected, Boot, bleVars
<1>10. ASSUME TaskSet PROVE AdvertInv'
  BY <1>10 DEF TaskSet, Task, bleVars
<1>11. ASSUME OnSync PROVE AdvertInv'
  BY <1>11 DEF OnSync, KeepAllButHost, Advertise, bleVars
<1>12. ASSUME ClientLeft PROVE AdvertInv'
  BY <1>12 DEF ClientLeft, KeepAllButHost, EgRelease, Advertise, bleVars
<1>13. ASSUME HostNotify PROVE AdvertInv'
  BY <1>13 DEF HostNotify, KeepAllButHost, bleVars
<1>14. ASSUME HostNotifyDead PROVE AdvertInv'
  BY <1>14 DEF HostNotifyDead, KeepAllButHost, Restart, WifiReset, Blank, bleVars
<1>15. ASSUME ClientConnects PROVE AdvertInv'
  BY <1>15 DEF ClientConnects, KeepAllButHost, bleVars
<1>16. ASSUME ClientFails PROVE AdvertInv'
  BY <1>16 DEF ClientFails, KeepAllButHost, Advertise, bleVars
<1>17. ASSUME ClientLeaves PROVE AdvertInv'
  BY <1>17 DEF ClientLeaves, KeepAllButHost, EgAcquire, bleVars
<1>18. ASSUME PhoneWrites PROVE AdvertInv'
  BY <1>18 DEF PhoneWrites, ClientWrites, KeepAllButHost, bleVars
<1>19. ASSUME Restart PROVE AdvertInv'
  BY <1>19 DEF Restart, Blank, WifiReset
<1>20. ASSUME UNCHANGED <<boot, host, linked, egBits, advertising>> PROVE AdvertInv'
  BY <1>20
<1>21. ASSUME TaskWake \/ TaskTimesOut \/ TaskConnect \/ TaskConnected \/ SaveBegin \/ Save
       \/ SaveEnd \/ TaskNotify \/ TaskAcquire \/ TaskRelease \/ TaskEnd \/ Connecting \/ EventLoop
       \/ Environment \/ ResetBegin \/ ResetLock \/ ResetWifi \/ ResetErase
      PROVE  UNCHANGED <<boot, host, linked, egBits, advertising>>
  BY <1>21, Zenon DEF Blank, Connecting, EgAcquire, EgRelease, EmptyFlash, Environment,
       EventLoop, KeepAllButReset, KeepAllButSave, KeepAllButTask, Others, ResetBegin,
       ResetErase, ResetLock, ResetWifi, Save, SaveBegin, SaveEnd, SaveFails, SaveStep, Task,
       TaskAcquire, TaskConnect, TaskConnected, TaskEnd, TaskNotify, TaskRelease, TaskTimesOut,
       TaskWake, bleVars, resetVars, wifiVars
<1>22. BootFailed \/ ResetRestart \/ PowerLoss => Restart
  BY Zenon DEF BootFailed, ResetRestart, PowerLoss
<1> QED
  BY <1>1, <1>2, <1>3, <1>4, <1>5, <1>6, <1>7, <1>8, <1>9, <1>10, <1>11, <1>12, <1>13,
       <1>14, <1>15, <1>16, <1>17, <1>18, <1>19, <1>20, <1>21, <1>22, Zenon DEF Next, BootTask,
       ProvTask, Host, Phone, PhoneWrites, ResetTask

\* What a call connects with are credentials: those of the phone for prov_task, those of the
\* flash for the boot.
LEMMA CallCredentials ==
    ASSUME BleAssumption, BleTypes, TaskInv, CallInv, BufferInv, call = "cleared"
    PROVE  Pair(IF boot = "prov" THEN buffer ELSE creds) \in Credentials
<1>1. ASSUME boot = "prov" PROVE buffer.ssid \in Ssids /\ buffer.pass \in Passwords
  BY <1>1 DEF BleTypes, CallInv, BufferInv, Complete
<1>2. ASSUME boot # "prov" PROVE creds.ssid \in Ssids /\ creds.pass \in Passwords
  BY <1>2 DEF BleTypes, CallInv, TaskInv
<1> QED
  BY <1>1, <1>2 DEF BleAssumption, Pair

\* Whatever happens to the station is one of its steps.
LEMMA StationMoves ==
    ASSUME BleAssumption, BleTypes, TaskInv, CallInv, BufferInv, Next
    PROVE  WifiNext
<1>1. ASSUME Restart PROVE WifiReset
  BY <1>1, Zenon DEF Restart
<1>2. ASSUME BootTask PROVE WifiNext
  BY <1>1, <1>2, Zenon
     DEF BootTask, BootWifi, BootProvisioned, ProvisioningStart, ProvisioningStop,
          ProvisioningEnd,
         BootLoad, BootLinked, BootConnect, BootConnected, BootFailed, WifiNext, CallTaken
<1>3. ASSUME ProvTask PROVE WifiNext
  BY <1>3, Zenon
     DEF ProvTask, TaskWake, TaskTimesOut, TaskConnect, TaskConnected, SaveBegin, Save, SaveStep,
         SaveEnd, TaskNotify, TaskAcquire, TaskSet, TaskRelease, TaskEnd, KeepAllButTask,
         KeepAllButSave, WifiNext, CallTaken
<1>4. ASSUME Connecting PROVE WifiNext
  <2>1. ConnectStart(Pair(IF boot = "prov" THEN buffer ELSE creds)) => WifiNext
    BY CallCredentials, Zenon DEF ConnectStart, WifiNext
  <2> QED
    BY <1>4, <2>1, Zenon DEF Connecting, WifiNext
<1>5. ASSUME EventLoop \/ Environment PROVE WifiNext
  BY <1>5, Zenon DEF EventLoop, Environment, WifiNext
<1>6. ASSUME Host \/ Phone PROVE WifiNext
  BY <1>1, <1>6, Zenon
     DEF Host, Phone, OnSync, ClientLeft, HostNotify, HostNotifyDead, ClientConnects, ClientFails,
         ClientLeaves, ClientWrites, KeepAllButHost, WifiNext
<1>7. ASSUME ResetTask PROVE WifiNext
  <2>1. ResetErase => WifiNext
    BY Zenon DEF ResetErase, WifiNext, DeinitAgain
  <2> QED
    BY <1>1, <1>7, <2>1, Zenon
       DEF ResetTask, ResetBegin, ResetLock, ResetWifi, ResetRestart, WifiNext
<1> QED
  BY <1>1, <1>2, <1>3, <1>4, <1>5, <1>6, <1>7, Zenon DEF Next, PowerLoss, WifiNext

\* What the flash may hold.
LEMMA FlashHolds ==
    /\ EmptyFlash \in FlashType
    /\ \A f \in FlashType :
          /\ f.ssid \in Ssids \union {None} /\ f.pass \in Passwords \union {None}
          /\ \A v \in Ssids \union {None} : [f EXCEPT !.ssid = v] \in FlashType
          /\ \A v \in Passwords \union {None} : [f EXCEPT !.pass = v] \in FlashType
          /\ [f EXCEPT !.done = TRUE] \in FlashType
  BY DEF FlashType, EmptyFlash

\* Every action assigns values of the types.
LEMMA BleTypesStep ==
    ASSUME BleAssumption, BleTypes, Next
    PROVE  BleTypes'
<1> USE DEF BleTypes, BleAssumption
<1>1. ASSUME BootWifi PROVE BleTypes'
  BY <1>1 DEF BootWifi, Boot, StationUp, bleVars, resetVars
<1>2. ASSUME BootProvisioned PROVE BleTypes'
  BY <1>2 DEF BootProvisioned, Boot, bleVars, resetVars
<1>3. ASSUME ProvisioningStart PROVE BleTypes'
  BY <1>3 DEF ProvisioningStart, Blank, bleVars, resetVars
<1>4. ASSUME ProvisioningStop PROVE BleTypes'
  BY <1>4 DEF ProvisioningStop, Boot, bleVars, resetVars
<1>5. ASSUME ProvisioningEnd PROVE BleTypes'
  BY <1>5 DEF ProvisioningEnd, Boot, EgUnused, bleVars, resetVars
<1>6. ASSUME BootLoad PROVE BleTypes'
  <2>1. flash.ssid \in Ssids \union {None} /\ flash.pass \in Passwords \union {None}
    BY FlashHolds
  <2> QED
    BY <1>6, <2>1 DEF BootLoad, Boot, bleVars, resetVars
<1>7. ASSUME BootLinked PROVE BleTypes'
  BY <1>7 DEF BootLinked, Boot, bleVars, resetVars
<1>8. ASSUME BootConnect PROVE BleTypes'
  BY <1>8 DEF BootConnect, Boot, bleVars, resetVars
<1>9. ASSUME BootConnected PROVE BleTypes'
  BY <1>9 DEF BootConnected, Boot, bleVars, resetVars
<1>10. ASSUME TaskWake PROVE BleTypes'
  BY <1>10 DEF TaskWake, Task, KeepAllButTask, bleVars, resetVars
<1>11. ASSUME TaskTimesOut PROVE BleTypes'
  BY <1>11 DEF TaskTimesOut, Task, KeepAllButTask, bleVars, resetVars
<1>12. ASSUME TaskConnect PROVE BleTypes'
  BY <1>12 DEF TaskConnect, Task, bleVars, resetVars
<1>13. ASSUME TaskConnected PROVE BleTypes'
  BY <1>13 DEF TaskConnected, Task, bleVars, resetVars
<1>14. ASSUME SaveBegin PROVE BleTypes'
  BY <1>14 DEF SaveBegin, SaveFails, KeepAllButSave, bleVars, resetVars
<1>15. ASSUME Save PROVE BleTypes'
  <2>1. flash' \in FlashType
    <3>1. buffer.ssid \in Ssids \union {None} /\ buffer.pass \in Passwords \union {None}
      OBVIOUS
    <3>2. \/ flash' = flash
          \/ flash' = [flash EXCEPT !.ssid = buffer.ssid]
          \/ flash' = [flash EXCEPT !.pass = buffer.pass]
          \/ flash' = [flash EXCEPT !.done = TRUE]
      BY <1>15, Zenon DEF Save, SaveStep
    <3>3. flash \in FlashType
      OBVIOUS
    <3> HIDE DEF BleTypes, BleAssumption
    <3> QED
      BY <3>1, <3>2, <3>3, FlashHolds, Zenon
  <2> QED
    BY <1>15, <2>1 DEF Save, SaveStep, SaveFails, KeepAllButSave, bleVars, resetVars
<1>16. ASSUME SaveEnd PROVE BleTypes'
  BY <1>16 DEF SaveEnd, SaveFails, KeepAllButSave, bleVars, resetVars
<1>17. ASSUME TaskNotify PROVE BleTypes'
  BY <1>17 DEF TaskNotify, Task, KeepAllButTask, bleVars, resetVars
<1>18. ASSUME TaskAcquire PROVE BleTypes'
  BY <1>18 DEF TaskAcquire, EgAcquire, KeepAllButTask, bleVars, resetVars
<1>19. ASSUME TaskSet PROVE BleTypes'
  BY <1>19 DEF TaskSet, Task, bleVars, resetVars
<1>20. ASSUME TaskRelease PROVE BleTypes'
  BY <1>20 DEF TaskRelease, Task, EgRelease, KeepAllButTask, bleVars, resetVars
<1>21. ASSUME TaskEnd PROVE BleTypes'
  BY <1>21 DEF TaskEnd, Task, Blank, bleVars, resetVars
<1>22. ASSUME OnSync PROVE BleTypes'
  BY <1>22 DEF OnSync, KeepAllButHost, Advertise, bleVars, resetVars
<1>23. ASSUME ClientLeft PROVE BleTypes'
  BY <1>23 DEF ClientLeft, KeepAllButHost, EgRelease, Advertise, bleVars, resetVars
<1>24. ASSUME HostNotify PROVE BleTypes'
  BY <1>24 DEF HostNotify, KeepAllButHost, bleVars, resetVars
<1>25. ASSUME HostNotifyDead PROVE BleTypes'
  <2>1. ASSUME Restart PROVE BleTypes'
    BY <2>1 DEF Restart, Blank
  <2>2. ASSUME host' = "idle", UNCHANGED <<boot, creds, flash, lock, reset, eg, egBits,
       task, outcome, buffer, got, advertising, writes, told>> PROVE BleTypes'
    BY <2>2
  <2> QED
    BY <1>25, <2>1, <2>2, Zenon DEF HostNotifyDead, KeepAllButHost, bleVars, resetVars
<1>26. ASSUME ClientConnects PROVE BleTypes'
  BY <1>26 DEF ClientConnects, KeepAllButHost, bleVars, resetVars
<1>27. ASSUME ClientFails PROVE BleTypes'
  BY <1>27 DEF ClientFails, KeepAllButHost, Advertise, bleVars, resetVars
<1>28. ASSUME ClientLeaves PROVE BleTypes'
  BY <1>28 DEF ClientLeaves, KeepAllButHost, EgAcquire, bleVars, resetVars
<1>29. ASSUME PhoneWrites PROVE BleTypes'
  <2>1. ASSUME NEW v \in Ssids, ClientWrites("ssid", v) PROVE BleTypes'
    BY <2>1 DEF ClientWrites, KeepAllButHost, bleVars, resetVars
  <2>2. ASSUME NEW v \in Passwords, ClientWrites("pass", v) PROVE BleTypes'
    BY <2>2 DEF ClientWrites, KeepAllButHost, bleVars, resetVars
  <2> QED
    BY <1>29, <2>1, <2>2, Zenon DEF PhoneWrites
<1>30. ASSUME ResetBegin PROVE BleTypes'
  BY <1>30 DEF ResetBegin, KeepAllButReset, bleVars, resetVars
<1>31. ASSUME ResetLock PROVE BleTypes'
  BY <1>31 DEF ResetLock, KeepAllButReset, bleVars, resetVars
<1>32. ASSUME ResetErase PROVE BleTypes'
  <2>1. flash' \in FlashType
    BY <1>32, FlashHolds, Zenon DEF ResetErase
  <2> QED
    BY <1>32, <2>1 DEF ResetErase, KeepAllButReset, bleVars, resetVars
<1>33. ASSUME Restart PROVE BleTypes'
  BY <1>33 DEF Restart, Blank, WifiReset
<1>34. ASSUME UNCHANGED <<boot, creds, flash, lock, reset, eg, egBits, task, outcome,
       buffer, got, host, advertising, writes, told>> PROVE BleTypes'
  BY <1>34
<1>35. ASSUME Connecting \/ EventLoop \/ Environment \/ ResetWifi
      PROVE  UNCHANGED <<boot, creds, flash, lock, reset, eg, egBits, task, outcome, buffer,
           got, host, advertising, writes, told>>
  BY <1>35, Zenon DEF Connecting, Environment, EventLoop, KeepAllButReset, Others,
       ResetWifi, bleVars, resetVars, wifiVars
<1>36. BootFailed \/ ResetRestart \/ PowerLoss => Restart
  BY Zenon DEF BootFailed, ResetRestart, PowerLoss
<1> QED
  BY <1>1, <1>2, <1>3, <1>4, <1>5, <1>6, <1>7, <1>8, <1>9, <1>10, <1>11, <1>12, <1>13,
       <1>14, <1>15, <1>16, <1>17, <1>18, <1>19, <1>20, <1>21, <1>22, <1>23, <1>24, <1>25, <1>26,
       <1>27, <1>28, <1>29, <1>30, <1>31, <1>32, <1>33, <1>34, <1>35, <1>36, Zenon DEF Next,
       BootTask, ProvTask, Host, Phone, PhoneWrites, ResetTask

\* Flags are set and cleared, or stay.
LEMMA BleFlagsStep == ASSUME BleFlags, Next PROVE BleFlags'
<1>1. ASSUME Restart PROVE BleFlags'
  BY <1>1, Zenon DEF Restart, BleFlags
<1>2. ASSUME BootTask PROVE BleFlags'
  BY <1>1, <1>2, Zenon
     DEF BootTask, BootWifi, BootProvisioned, ProvisioningStart, ProvisioningStop,
          ProvisioningEnd,
         BootLoad, BootLinked, BootConnect, BootConnected, BootFailed, BleFlags, bleVars,
              resetVars
<1>3. ASSUME ProvTask PROVE BleFlags'
  BY <1>3, Zenon
     DEF ProvTask, TaskWake, TaskTimesOut, TaskConnect, TaskConnected, SaveBegin, Save, SaveStep,
         SaveEnd, TaskNotify, TaskAcquire, TaskSet, TaskRelease, TaskEnd, KeepAllButTask,
         KeepAllButSave, BleFlags, resetVars
<1>4. ASSUME Connecting \/ EventLoop \/ Environment PROVE BleFlags'
  BY <1>4, Zenon DEF Connecting, EventLoop, Environment, Others, BleFlags, bleVars, resetVars
<1>5. ASSUME Host \/ Phone PROVE BleFlags'
  BY <1>1, <1>5, Zenon
     DEF Host, Phone, OnSync, ClientLeft, HostNotify, HostNotifyDead, ClientConnects, ClientFails,
         ClientLeaves, ClientWrites, KeepAllButHost, BleFlags, resetVars
<1>6. ASSUME ResetTask PROVE BleFlags'
  BY <1>1, <1>6, Zenon
     DEF ResetTask, ResetBegin, ResetLock, ResetWifi, ResetErase, ResetRestart, KeepAllButReset,
         BleFlags, bleVars, resetVars
<1> QED
  BY <1>1, <1>2, <1>3, <1>4, <1>5, <1>6, Zenon DEF Next, PowerLoss

-----------------------------------------------------------------------------
LEMMA InvStart == ASSUME WifiAssumption, BleAssumption, Init PROVE Inv
<1>1. BleTypes
  BY FlashHolds DEF Init, BleAssumption, BleTypes, Blank
<1>2. BleFlags
  BY Zenon DEF Init, BleFlags
<1>3. TaskInv
  BY Zenon DEF Init, TaskInv
<1>4. EgInv
  BY DEF Init, EgInv, Held
<1>5. CallInv /\ BufferInv
  BY DEF Init, WifiInit, CallInv, BufferInv
<1>6. LockInv /\ SaveInv
  BY DEF Init, LockInv, SaveInv
<1>7. DoneIsComplete
  BY Zenon DEF Init, DoneIsComplete, EmptyFlash
<1>8. AdvertInv
  BY DEF Init, AdvertInv
<1>9. WifiInv
  BY WifiStart, Zenon DEF Init
<1> QED
  BY <1>1, <1>2, <1>3, <1>4, <1>5, <1>6, <1>7, <1>8, <1>9, Zenon DEF Inv

LEMMA InvStep == ASSUME WifiAssumption, BleAssumption, Inv, [Next]_vars PROVE Inv'
<1>1. ASSUME Next PROVE Inv'
  <2>1. WifiInv'
    BY <1>1, StationMoves, WifiStep, Zenon DEF Inv
  <2>2. BleTypes' /\ BleFlags'
    BY <1>1, BleTypesStep, BleFlagsStep, Zenon DEF Inv
  <2>3. EgInv' /\ TaskInv' /\ CallInv'
    BY <1>1, EgStep, TaskStep, CallStep, Zenon DEF Inv
  <2>4. BufferInv' /\ LockInv' /\ AdvertInv'
    BY <1>1, BufferStep, LockStep, AdvertStep, Zenon DEF Inv
  <2>5. SaveInv' /\ DoneIsComplete'
    BY <1>1, SaveStepHolds, Zenon DEF Inv
  <2> QED
    BY <2>1, <2>2, <2>3, <2>4, <2>5, Zenon DEF Inv
<1>2. ASSUME UNCHANGED vars PROVE Inv'
  <2>1. UNCHANGED <<group, users, bits, retries, radio, station, losses, events, handler, call,
                    result, deinit>>
    BY <1>2, Zenon DEF vars, wifiVars
  <2>2. WifiInv'
    BY <2>1, WifiStep, Zenon DEF Inv, WifiNext, wifiVars
  <2>3. UNCHANGED <<boot, creds, flash, lock, resetting, reset, eg, egUsers, egBits, task, handle,
                    notified, outcome, buffer, got, host, linked, advertising, writes, told>>
    BY <1>2, Zenon DEF vars, bleVars, resetVars
  <2>4. (BleTypes /\ EgInv /\ BufferInv /\ LockInv /\ SaveInv)'
    BY <2>3 DEF Inv, BleTypes, EgInv, BufferInv, Complete, LockInv, SaveInv
  <2>5. (BleFlags /\ TaskInv)'
    BY <2>3, Zenon DEF Inv, BleFlags, TaskInv
  <2>6. (CallInv /\ DoneIsComplete /\ AdvertInv)'
    BY <2>1, <2>3, Zenon DEF Inv, CallInv, DoneIsComplete, AdvertInv
  <2> QED
    BY <2>2, <2>4, <2>5, <2>6, Zenon DEF Inv
<1> QED
  BY <1>1, <1>2

LEMMA InvAlways == ASSUME WifiAssumption, BleAssumption PROVE Spec => []Inv
<1>1. Init => Inv
  BY InvStart
<1>2. Inv /\ [Next]_vars => Inv'
  BY InvStep
<1> QED
  BY <1>1, <1>2, PTL DEF Spec

LEMMA InvSays == ASSUME Inv PROVE TypeOK /\ EventGroupsHold /\ DoneIsComplete /\ NeverDeaf
<1>1. WifiTypeOK /\ BleTypes /\ BleFlags
  BY Zenon DEF Inv, WifiInv
<1>2. egUsers \in 0..2
  BY DEF Inv, EgInv, Held
<1>3. TypeOK
  BY <1>1, <1>2, Zenon DEF TypeOK, BleTypes, BleFlags, FlashType
<1>4. eg = "deleted" => task \notin {"set", "release"} /\ host # "leaving"
  BY DEF Inv, EgInv, BleTypes
<1>5. ConnectedMeansUp
  BY DEF Inv, WifiInv, LinkInv, ConnectedMeansUp
<1> QED
  BY <1>3, <1>4, <1>5
     DEF Inv, WifiInv, EventGroupsHold, NoHandleToDeleted, AdvertInv, NeverDeaf

\* Every variable has its type, the counts of users included: no handle is given back twice.
THEOREM ProvisioningTypeOK == Spec => []TypeOK
  BY WifiAssumption, BleAssumption, InvAlways, InvSays, PTL

\* No task uses an event group that another has deleted, and when every posted event has been
\* handled CONNECTED is set only while the link is up (wifi.c, ble_prov.c).
THEOREM EventGroupsHoldAlways == Spec => []EventGroupsHold
  BY WifiAssumption, BleAssumption, InvAlways, InvSays, PTL

\* The flash says that the device is provisioned only when it holds both credentials, and the
\* phone is told so only then (save_credentials, prov_task).
THEOREM DoneIsCompleteAlways == Spec => []DoneIsComplete
  BY WifiAssumption, BleAssumption, InvAlways, InvSays, PTL

\* While provisioning has no result and no client, the device can be found (GAP callbacks).
THEOREM NeverDeafAlways == Spec => []NeverDeaf
  BY WifiAssumption, BleAssumption, InvAlways, InvSays, PTL
=============================================================================
