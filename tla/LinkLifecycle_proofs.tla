------------------------- MODULE LinkLifecycle_proofs -------------------------
(***************************************************************************)
(* Proofs about the life of a link, for any number of slaves, of threads   *)
(* of the timer and of calls that the operating system refuses.            *)
(***************************************************************************)
EXTENDS LinkLifecycle, TLAPS

Early == {"new", "config", "bring up", "sync0 on", "start timer"}
Busy(c) == cPc[c] \in {"exchange", "walk"}

(* The types, in the parts that the steps change.                          *)
TimerTypes ==
  /\ os \in {"win32", "linux", "macosx"} /\ timer \in {"none", "created", "armed", "deleted"}
  /\ object \in {"none", "running", "stopped"} /\ handler \in {"none", "alive", "freed"}
  /\ fails \in 0 .. MaxFails

CallbackTypes == cPc \in [Threads -> {"idle", "fired", "exchange", "walk"}]

SlaveTypes ==
  /\ real \in [Slaves -> States] /\ seen \in [Slaves -> States \cup {"SAFE_OP_ACK"}]
  /\ isLost \in [Slaves -> BOOLEAN] /\ docheck \in BOOLEAN
  /\ at \in 1 .. N + 1 /\ read \in [Slaves -> States]

OwnerTypes ==
  /\ pc \in {"new", "config", "bring up", "sync0 on", "start timer", "start thread", "open",
             "join", "stop timer", "await stop", "park", "release", "closed", "destroy",
             "gone", "terminated"}
  /\ isOpen \in BOOLEAN /\ thread \in {"none", "running", "joined"}
  /\ ioMap \in BOOLEAN /\ socket \in BOOLEAN /\ sync0 \in BOOLEAN

LockTypes == rtLock \in BOOLEAN /\ onLost \in 0 .. 1

Types == TimerTypes /\ CallbackTypes /\ SlaveTypes /\ OwnerTypes /\ LockTypes

(* What the owner holds at each place.                                     *)
StageInv ==
  /\ pc \in Early => object = "none" /\ handler = "none" /\ fails = 0
  /\ pc \in Early \ {"new"} => socket /\ ioMap
  /\ pc = "start thread" => thread = "none" /\ object = "running"
  /\ pc \in {"open", "join"} => thread = "running" /\ object = "running"
  /\ pc = "stop timer" => thread = "joined" /\ object = "running"
  /\ pc \in {"await stop", "park", "release"} =>
       thread = "joined" /\ object = "stopped" /\ timer = "deleted"
  /\ pc \in {"park", "release"} => ~sync0
  /\ pc \in {"destroy", "gone"} => timer # "armed"
  /\ pc = "open" /\ ~isOpen => onLost = 1
  /\ pc \in {"closed", "destroy"} /\ thread = "running" => onLost = 1
  /\ pc = "closed" /\ object = "running" => thread = "running" \/ (thread = "joined" /\ fails # 0)
  /\ pc \in {"destroy", "gone"} => object # "running"
  /\ timer = "created" => fails # 0
  /\ object = "none" => timer # "armed" /\ handler # "alive" /\ thread = "none" /\ ~isOpen
  /\ timer = "armed" => handler = "alive" /\ object = "running"
  /\ handler = "alive" => socket /\ ioMap

(* When no callback can be under way.                                      *)
QuietInv ==
  /\ object = "none" => NoCallback /\ ~rtLock /\ onLost = 0
  /\ handler # "alive" => StopReturns
  /\ pc \in {"park", "release"} => StopReturns

(* Who exchanges or handles an error has the lock, alone; a link that was  *)
(* given up keeps it locked for good.                                      *)
LockInv ==
  /\ \A c \in Threads : Busy(c) => rtLock /\ onLost = 0
  /\ \A c, d \in Threads : Busy(c) /\ Busy(d) => c = d
  /\ onLost = 1 => rtLock

(* The slaves that the pass has not got to are as they were read.          *)
WalkInv ==
  \A c \in Threads : cPc[c] = "walk" =>
    /\ docheck <=> \E k \in 1 .. at - 1 : read[k] # "OPERATIONAL"
    /\ \A k \in at .. N : seen[k] = read[k]

(* Each refused call of stop ends a period once more.                      *)
PeriodsInv ==
  /\ os # "win32" => periods = 0
  /\ pc \in Early => periods = 0
  /\ fails = 0 /\ object # "running" => periods = 0
  /\ os = "win32" => /\ object = "none" => periods \in 0 .. 1
                     /\ object = "running" => periods = 1 - fails
                     /\ object = "stopped" => periods = 0 - fails

ExitInv ==
  /\ pc \in {"closed", "destroy", "gone"} /\ thread = "joined" /\ fails = 0 =>
       ~socket /\ ~sync0 /\ ~ioMap /\ timer = "deleted" /\ object = "stopped" /\ handler = "freed"
  /\ pc = "gone" => thread # "running" /\ handler # "alive" /\ ~ioMap
  /\ pc = "terminated" => onLost = 1 \/ fails > 1

ParkInv ==
  os = "win32" /\ pc \in {"release", "closed", "destroy", "gone"} /\ thread = "joined" /\ fails = 0 =>
    /\ timer # "armed" /\ NoCallback
    /\ \A k \in Slaves : real[k] \in {"NONE", "INIT"}

IInv == /\ Types /\ StageInv /\ QuietInv /\ LockInv /\ WalkInv
        /\ PeriodsInv /\ ExitInv /\ ParkInv
-----------------------------------------------------------------------------
(* The initial states.                                                     *)
LEMMA InitIInv == Init => IInv
<1> SUFFICES ASSUME Init PROVE IInv
  OBVIOUS
<1>1. Types
  <2>1. 0 \in 0 .. MaxFails /\ 1 \in 1 .. N + 1 /\ 0 \in 0 .. 1
    BY LifecycleAssumption
  <2>2. real \in [Slaves -> States] /\ seen \in [Slaves -> States \cup {"SAFE_OP_ACK"}]
    BY DEF Init, InitSlaves, States
  <2>3. isLost \in [Slaves -> BOOLEAN] /\ read \in [Slaves -> States]
    BY DEF Init, InitSlaves, States
  <2>4. TimerTypes /\ CallbackTypes
    BY <2>1 DEF Init, InitTimer, TimerTypes, CallbackTypes
  <2>5. SlaveTypes
    BY <2>1, <2>2, <2>3 DEF Init, InitSlaves, SlaveTypes
  <2>6. OwnerTypes /\ LockTypes
    BY <2>1 DEF Init, OwnerTypes, LockTypes
  <2> QED
    BY <2>4, <2>5, <2>6 DEF Types
<1>2. StageInv /\ QuietInv
  BY DEF Init, InitTimer, StageInv, QuietInv, Early, NoCallback, StopReturns
<1>3. LockInv /\ WalkInv
  BY DEF Init, InitTimer, LockInv, WalkInv, Busy
<1>4. PeriodsInv /\ ExitInv /\ ParkInv
  BY DEF Init, InitTimer, PeriodsInv, ExitInv, ParkInv, Early
<1> QED
  BY <1>1, <1>2, <1>3, <1>4 DEF IInv
-----------------------------------------------------------------------------
(* What a step of the owner leaves alone, and one of a callback.           *)
LEMMA OwnerFrame ==
  ASSUME Owner
  PROVE  /\ os' = os /\ cPc' = cPc /\ rtLock' = rtLock /\ onLost' = onLost
         /\ docheck' = docheck /\ at' = at /\ read' = read
<1>1. CASE OpenSocket
  BY <1>1 DEF OpenSocket, timerVars, slaveVars, flags
<1>2. CASE ConfigSlaves
  BY <1>2 DEF ConfigSlaves, timerVars, flags
<1>3. CASE BringUp
  BY <1>3 DEF BringUp, timerVars, flags
<1>4. CASE Sync0On
  BY <1>4 DEF Sync0On, Step, timerVars, slaveVars, flags
<1>5. CASE StartTimer
  BY <1>5 DEF StartTimer, Start, Step, slaveVars, flags
<1>6. CASE StartTimerThrows
  BY <1>6 DEF StartTimerThrows, StartFails, Step, slaveVars, flags
<1>7. CASE StartThread
  BY <1>7 DEF StartThread, Step, timerVars, slaveVars, flags
<1>8. CASE CloseReturnsEarly
  BY <1>8 DEF CloseReturnsEarly, Step, timerVars, slaveVars, flags
<1>9. CASE CloseBegin
  BY <1>9 DEF CloseBegin, Step, timerVars, slaveVars, flags
<1>10. CASE JoinThread
  BY <1>10 DEF JoinThread, Step, timerVars, slaveVars, flags
<1>11. CASE StopTimer
  BY <1>11 DEF StopTimer, Stop, Step, slaveVars, flags
<1>12. CASE StopTimerThrows
  BY <1>12 DEF StopTimerThrows, StopFails, Step, slaveVars, flags
<1>13. CASE Sync0Off
  BY <1>13 DEF Sync0Off, StopReturns, Step, timerVars, slaveVars, flags
<1>14. CASE ParkSlaves
  BY <1>14 DEF ParkSlaves, Step, timerVars, flags
<1>15. CASE Release
  BY <1>15 DEF Release, Step, slaveVars, flags
<1>16. CASE DestroyTimer
  BY <1>16 DEF DestroyTimer, Stop, StopFails, timerVars, slaveVars, flags
<1>17. CASE DestroyMembers
  BY <1>17 DEF DestroyMembers, StopReturns, slaveVars, flags
<1> QED
  BY <1>1, <1>2, <1>3, <1>4, <1>5, <1>6, <1>7, <1>8, <1>9, <1>10, <1>11, <1>12, <1>13,
     <1>14, <1>15, <1>16, <1>17
     DEF Owner

LEMMA CallbackFrame ==
  ASSUME NEW c \in Threads, Callback(c)
  PROVE  /\ os' = os /\ timer' = timer /\ object' = object /\ periods' = periods
         /\ handler' = handler /\ fails' = fails /\ pc' = pc /\ thread' = thread
         /\ ioMap' = ioMap /\ socket' = socket /\ sync0' = sync0
<1>1. CASE TimerFires(c)
  BY <1>1 DEF TimerFires, Fire, slaveVars, owner, flags
<1>2. CASE Lock(c)
  BY <1>2 DEF Lock, Move, OtherTimerVars, slaveVars, owner
<1>3. CASE ExchangeGood(c)
  BY <1>3 DEF ExchangeGood, Move, OtherTimerVars, slaveVars, owner
<1>4. CASE ExchangeBad(c)
  BY <1>4 DEF ExchangeBad, ReadState, Move, OtherTimerVars, owner, flags
<1>5. CASE Walk(c)
  BY <1>5
     DEF Walk, HandleSlave, Operates, Found, Acknowledge, Restart, Reconfigure, Search, Requested, Move,
         OtherTimerVars, owner, flags
<1>6. CASE KeepLink(c)
  BY <1>6 DEF KeepLink, EndPass, Move, OtherTimerVars, owner
<1>7. CASE GiveUp(c)
  BY <1>7 DEF GiveUp, EndPass, Move, OtherTimerVars
<1> QED
  BY <1>1, <1>2, <1>3, <1>4, <1>5, <1>6, <1>7 DEF Callback

-----------------------------------------------------------------------------
(* Types.                                                                  *)
LEMMA TypesAreTypeOK == Types /\ PeriodsInv => TypeOK
<1> SUFFICES ASSUME Types, PeriodsInv PROVE TypeOK
  OBVIOUS
<1>1. fails \in 0 .. MaxFails /\ os \in {"win32", "linux", "macosx"}
      /\ object \in {"none", "running", "stopped"}
  BY DEF Types, TimerTypes
<1>2. periods \in -MaxFails .. 1
  BY <1>1, LifecycleAssumption DEF PeriodsInv
<1> QED
  BY <1>2 DEF Types, TimerTypes, CallbackTypes, SlaveTypes, OwnerTypes, LockTypes, TypeOK

LEMMA TimerTypesKept ==
  ASSUME TimerTypes, Owner
  PROVE  TimerTypes'
<1>1. CASE OpenSocket
  BY <1>1, LifecycleAssumption DEF OpenSocket, timerVars, slaveVars, flags, TimerTypes
<1>2. CASE ConfigSlaves
  BY <1>2, LifecycleAssumption DEF ConfigSlaves, timerVars, flags, TimerTypes
<1>3. CASE BringUp
  BY <1>3, LifecycleAssumption DEF BringUp, timerVars, flags, TimerTypes
<1>4. CASE Sync0On
  BY <1>4, LifecycleAssumption DEF Sync0On, Step, timerVars, slaveVars, flags, TimerTypes
<1>5. CASE StartTimer
  BY <1>5, LifecycleAssumption DEF StartTimer, Start, Step, slaveVars, flags, TimerTypes
<1>6. CASE StartTimerThrows
  <2>1. fails \in 0 .. MaxFails /\ fails < MaxFails /\ fails' = fails + 1
    BY <1>6 DEF StartTimerThrows, StartFails, TimerTypes
  <2>2. fails' \in 0 .. MaxFails
    BY <2>1, LifecycleAssumption
  <2> QED
    BY <1>6, <2>2 DEF StartTimerThrows, StartFails, TimerTypes
<1>7. CASE StartThread
  BY <1>7, LifecycleAssumption
     DEF StartThread, Step, timerVars, slaveVars, flags, TimerTypes
<1>8. CASE CloseReturnsEarly
  BY <1>8, LifecycleAssumption
     DEF CloseReturnsEarly, Step, timerVars, slaveVars, flags, TimerTypes
<1>9. CASE CloseBegin
  BY <1>9, LifecycleAssumption
     DEF CloseBegin, Step, timerVars, slaveVars, flags, TimerTypes
<1>10. CASE JoinThread
  BY <1>10, LifecycleAssumption
     DEF JoinThread, Step, timerVars, slaveVars, flags, TimerTypes
<1>11. CASE StopTimer
  BY <1>11, LifecycleAssumption DEF StopTimer, Stop, Step, slaveVars, flags, TimerTypes
<1>12. CASE StopTimerThrows
  <2>1. fails \in 0 .. MaxFails /\ fails < MaxFails /\ fails' = fails + 1
    BY <1>12 DEF StopTimerThrows, StopFails, TimerTypes
  <2>2. fails' \in 0 .. MaxFails
    BY <2>1, LifecycleAssumption
  <2> QED
    BY <1>12, <2>2 DEF StopTimerThrows, StopFails, TimerTypes
<1>13. CASE Sync0Off
  BY <1>13, LifecycleAssumption
     DEF Sync0Off, StopReturns, Step, timerVars, slaveVars, flags, TimerTypes
<1>14. CASE ParkSlaves
  BY <1>14, LifecycleAssumption DEF ParkSlaves, Step, timerVars, flags, TimerTypes
<1>15. CASE Release
  BY <1>15, LifecycleAssumption DEF Release, Step, slaveVars, flags, TimerTypes
<1>16. CASE DestroyTimer
  <2>1. CASE Stop
    BY <2>1 DEF Stop, TimerTypes
  <2>2. CASE StopFails
    <3>1. fails \in 0 .. MaxFails /\ fails < MaxFails /\ fails' = fails + 1
      BY <2>2 DEF StopFails, TimerTypes
    <3>2. fails' \in 0 .. MaxFails
      BY <3>1, LifecycleAssumption
    <3> QED
      BY <2>2, <3>2 DEF StopFails, TimerTypes
  <2>3. CASE UNCHANGED timerVars
    BY <2>3 DEF timerVars, TimerTypes
  <2> QED
    BY <1>16, <2>1, <2>2, <2>3 DEF DestroyTimer
<1>17. CASE DestroyMembers
  BY <1>17, LifecycleAssumption
     DEF DestroyMembers, StopReturns, slaveVars, flags, TimerTypes
<1> QED
  BY <1>1, <1>2, <1>3, <1>4, <1>5, <1>6, <1>7, <1>8, <1>9, <1>10, <1>11, <1>12, <1>13,
     <1>14, <1>15, <1>16, <1>17
     DEF Owner

LEMMA OwnerTypesKept ==
  ASSUME OwnerTypes, Owner
  PROVE  OwnerTypes'
<1>1. CASE OpenSocket
  BY <1>1 DEF OpenSocket, timerVars, slaveVars, flags, OwnerTypes
<1>2. CASE ConfigSlaves
  BY <1>2 DEF ConfigSlaves, timerVars, flags, OwnerTypes
<1>3. CASE BringUp
  BY <1>3 DEF BringUp, timerVars, flags, OwnerTypes
<1>4. CASE Sync0On
  BY <1>4 DEF Sync0On, Step, timerVars, slaveVars, flags, OwnerTypes
<1>5. CASE StartTimer
  BY <1>5 DEF StartTimer, Start, Step, slaveVars, flags, OwnerTypes
<1>6. CASE StartTimerThrows
  BY <1>6 DEF StartTimerThrows, StartFails, Step, slaveVars, flags, OwnerTypes
<1>7. CASE StartThread
  BY <1>7 DEF StartThread, Step, timerVars, slaveVars, flags, OwnerTypes
<1>8. CASE CloseReturnsEarly
  BY <1>8 DEF CloseReturnsEarly, Step, timerVars, slaveVars, flags, OwnerTypes
<1>9. CASE CloseBegin
  BY <1>9 DEF CloseBegin, Step, timerVars, slaveVars, flags, OwnerTypes
<1>10. CASE JoinThread
  BY <1>10 DEF JoinThread, Step, timerVars, slaveVars, flags, OwnerTypes
<1>11. CASE StopTimer
  BY <1>11 DEF StopTimer, Stop, Step, slaveVars, flags, OwnerTypes
<1>12. CASE StopTimerThrows
  BY <1>12 DEF StopTimerThrows, StopFails, Step, slaveVars, flags, OwnerTypes
<1>13. CASE Sync0Off
  BY <1>13 DEF Sync0Off, StopReturns, Step, timerVars, slaveVars, flags, OwnerTypes
<1>14. CASE ParkSlaves
  BY <1>14 DEF ParkSlaves, Step, timerVars, flags, OwnerTypes
<1>15. CASE Release
  BY <1>15 DEF Release, Step, slaveVars, flags, OwnerTypes
<1>16. CASE DestroyTimer
  BY <1>16 DEF DestroyTimer, Stop, StopFails, timerVars, slaveVars, flags, OwnerTypes
<1>17. CASE DestroyMembers
  BY <1>17 DEF DestroyMembers, StopReturns, slaveVars, flags, OwnerTypes
<1> QED
  BY <1>1, <1>2, <1>3, <1>4, <1>5, <1>6, <1>7, <1>8, <1>9, <1>10, <1>11, <1>12, <1>13,
     <1>14, <1>15, <1>16, <1>17
     DEF Owner

LEMMA OwnerSlaveTypes ==
  ASSUME SlaveTypes, Owner
  PROVE  SlaveTypes'
<1>1. CASE OpenSocket
  BY <1>1 DEF OpenSocket, timerVars, slaveVars, flags, SlaveTypes
<1>2. CASE ConfigSlaves
  <2>1. \A k \in Slaves : real'[k] \in States
    BY <1>2 DEF ConfigSlaves, States
  <2>2. real' \in [Slaves -> States] /\ seen' = real' /\ isLost' \in [Slaves -> BOOLEAN]
    BY <1>2, <2>1 DEF ConfigSlaves
  <2> QED
    BY <1>2, <2>2 DEF ConfigSlaves, SlaveTypes
<1>3. CASE BringUp
  <2>1. PICK up \in SUBSET Slaves :
          real' = [k \in Slaves |-> IF real[k] # "PRE_OP" THEN real[k]
                                   ELSE IF k \in up THEN "OPERATIONAL" ELSE "SAFE_OP"]
    BY <1>3 DEF BringUp
  <2>2. \A k \in Slaves : real[k] \in States
    BY DEF SlaveTypes
  <2>3. real' \in [Slaves -> States] /\ seen' = real'
    BY <1>3, <2>1, <2>2 DEF BringUp, States
  <2> QED
    BY <1>3, <2>3 DEF BringUp, SlaveTypes
<1>4. CASE Sync0On
  BY <1>4 DEF Sync0On, Step, timerVars, slaveVars, flags, SlaveTypes
<1>5. CASE StartTimer
  BY <1>5 DEF StartTimer, Start, Step, slaveVars, flags, SlaveTypes
<1>6. CASE StartTimerThrows
  BY <1>6 DEF StartTimerThrows, StartFails, Step, slaveVars, flags, SlaveTypes
<1>7. CASE StartThread
  BY <1>7 DEF StartThread, Step, timerVars, slaveVars, flags, SlaveTypes
<1>8. CASE CloseReturnsEarly
  BY <1>8 DEF CloseReturnsEarly, Step, timerVars, slaveVars, flags, SlaveTypes
<1>9. CASE CloseBegin
  BY <1>9 DEF CloseBegin, Step, timerVars, slaveVars, flags, SlaveTypes
<1>10. CASE JoinThread
  BY <1>10 DEF JoinThread, Step, timerVars, slaveVars, flags, SlaveTypes
<1>11. CASE StopTimer
  BY <1>11 DEF StopTimer, Stop, Step, slaveVars, flags, SlaveTypes
<1>12. CASE StopTimerThrows
  BY <1>12 DEF StopTimerThrows, StopFails, Step, slaveVars, flags, SlaveTypes
<1>13. CASE Sync0Off
  BY <1>13 DEF Sync0Off, StopReturns, Step, timerVars, slaveVars, flags, SlaveTypes
<1>14. CASE ParkSlaves
  <2>1. real' \in [Slaves -> States]
    BY <1>14 DEF ParkSlaves, States
  <2> QED
    BY <1>14, <2>1 DEF ParkSlaves, SlaveTypes
<1>15. CASE Release
  BY <1>15 DEF Release, Step, slaveVars, flags, SlaveTypes
<1>16. CASE DestroyTimer
  BY <1>16 DEF DestroyTimer, Stop, StopFails, timerVars, slaveVars, flags, SlaveTypes
<1>17. CASE DestroyMembers
  BY <1>17 DEF DestroyMembers, StopReturns, slaveVars, flags, SlaveTypes
<1> QED
  BY <1>1, <1>2, <1>3, <1>4, <1>5, <1>6, <1>7, <1>8, <1>9, <1>10, <1>11, <1>12, <1>13,
     <1>14, <1>15, <1>16, <1>17
     DEF Owner

LEMMA OwnerStages ==
  ASSUME TimerTypes, OwnerTypes, StageInv, Owner
  PROVE  StageInv'
<1>0. fails \in Nat
  BY LifecycleAssumption DEF TimerTypes
<1>1. CASE OpenSocket
  BY <1>1, LifecycleAssumption
     DEF OpenSocket, timerVars, slaveVars, flags, OwnerTypes, StageInv, Early
<1>2. CASE ConfigSlaves
  BY <1>2, LifecycleAssumption
     DEF ConfigSlaves, timerVars, flags, OwnerTypes, StageInv, Early
<1>3. CASE BringUp
  BY <1>3, LifecycleAssumption DEF BringUp, timerVars, flags, OwnerTypes, StageInv, Early
<1>4. CASE Sync0On
  BY <1>4, LifecycleAssumption
     DEF Sync0On, Step, timerVars, slaveVars, flags, OwnerTypes, StageInv, Early
<1>5. CASE StartTimer
  BY <1>5, LifecycleAssumption
     DEF StartTimer, Start, Step, slaveVars, flags, OwnerTypes, StageInv, Early
<1>6. CASE StartTimerThrows
  <2>1. /\ pc = "start timer" /\ pc' = "closed" /\ handler' = "freed" /\ timer' \in {"none", "created"}
        /\ object' = object /\ isOpen' = isOpen /\ thread' = thread /\ socket' = socket /\ ioMap' = ioMap
    BY <1>6 DEF StartTimerThrows, StartFails, Step
  <2>2. fails' # 0
    <3>1. fails' = fails + 1
      BY <1>6 DEF StartTimerThrows, StartFails
    <3> QED
      BY <1>0, <3>1
  <2> QED
    BY <2>1, <2>2 DEF StageInv, Early
<1>7. CASE StartThread
  BY <1>7, LifecycleAssumption
     DEF StartThread, Step, timerVars, slaveVars, flags, OwnerTypes, StageInv, Early
<1>8. CASE CloseReturnsEarly
  BY <1>8, LifecycleAssumption
     DEF CloseReturnsEarly, Step, timerVars, slaveVars, flags, OwnerTypes, StageInv, Early
<1>9. CASE CloseBegin
  BY <1>9, LifecycleAssumption
     DEF CloseBegin, Step, timerVars, slaveVars, flags, OwnerTypes, StageInv, Early
<1>10. CASE JoinThread
  BY <1>10, LifecycleAssumption
     DEF JoinThread, Step, timerVars, slaveVars, flags, OwnerTypes, StageInv, Early
<1>11. CASE StopTimer
  BY <1>11, LifecycleAssumption
     DEF StopTimer, Stop, Step, slaveVars, flags, OwnerTypes, StageInv, Early
<1>12. CASE StopTimerThrows
  <2>1. /\ pc = "stop timer" /\ pc' = "closed" /\ timer' = timer /\ object' = object
        /\ handler' = handler /\ isOpen' = isOpen /\ thread' = thread /\ socket' = socket
        /\ ioMap' = ioMap
    BY <1>12 DEF StopTimerThrows, StopFails, Step
  <2>2. fails' # 0
    <3>1. fails' = fails + 1
      BY <1>12 DEF StopTimerThrows, StopFails
    <3> QED
      BY <1>0, <3>1
  <2> QED
    BY <2>1, <2>2 DEF StageInv, Early
<1>13. CASE Sync0Off
  BY <1>13, LifecycleAssumption
     DEF Sync0Off, StopReturns, Step, timerVars, slaveVars, flags, OwnerTypes, StageInv,
         Early
<1>14. CASE ParkSlaves
  BY <1>14, LifecycleAssumption
     DEF ParkSlaves, Step, timerVars, flags, OwnerTypes, StageInv, Early
<1>15. CASE Release
  BY <1>15, LifecycleAssumption
     DEF Release, Step, slaveVars, flags, OwnerTypes, StageInv, Early
<1>16. CASE DestroyTimer
  <2>1. /\ pc = "closed" /\ handler' = handler /\ onLost' = onLost
        /\ isOpen' = isOpen /\ thread' = thread /\ socket' = socket /\ ioMap' = ioMap
    BY <1>16 DEF DestroyTimer, Stop, StopFails, timerVars, flags
  <2>2. CASE Stop /\ pc' = "destroy"
    BY <2>1, <2>2 DEF Stop, StageInv, Early
  <2>3. CASE StopFails /\ pc' = "terminated"
    <3>1. fails' # 0
      BY <1>0, <2>3 DEF StopFails
    <3> QED
      BY <2>1, <2>3, <3>1 DEF StopFails, StageInv, Early
  <2>4. CASE object # "running" /\ pc' = "destroy" /\ UNCHANGED timerVars
    BY <2>1, <2>4 DEF timerVars, StageInv, Early
  <2> QED
    BY <1>16, <2>2, <2>3, <2>4 DEF DestroyTimer
<1>17. CASE DestroyMembers
  BY <1>17, LifecycleAssumption
     DEF DestroyMembers, StopReturns, slaveVars, flags, OwnerTypes, StageInv, Early
<1> QED
  BY <1>1, <1>2, <1>3, <1>4, <1>5, <1>6, <1>7, <1>8, <1>9, <1>10, <1>11, <1>12, <1>13,
     <1>14, <1>15, <1>16, <1>17
     DEF Owner

LEMMA OwnerPeriods ==
  ASSUME TimerTypes, StageInv, PeriodsInv, Owner
  PROVE  PeriodsInv'
<1>1. CASE OpenSocket
  BY <1>1, LifecycleAssumption
     DEF OpenSocket, timerVars, slaveVars, flags, TimerTypes, StageInv, PeriodsInv, Early
<1>2. CASE ConfigSlaves
  BY <1>2, LifecycleAssumption
     DEF ConfigSlaves, timerVars, flags, TimerTypes, StageInv, PeriodsInv, Early
<1>3. CASE BringUp
  BY <1>3, LifecycleAssumption
     DEF BringUp, timerVars, flags, TimerTypes, StageInv, PeriodsInv, Early
<1>4. CASE Sync0On
  BY <1>4, LifecycleAssumption
     DEF Sync0On, Step, timerVars, slaveVars, flags, TimerTypes, StageInv, PeriodsInv, Early
<1>5. CASE StartTimer
  <2>1. pc = "start timer" /\ pc' = "start thread" /\ os' = os /\ object' = "running"
    BY <1>5 DEF StartTimer, Start, Step
  <2>2. periods' = periods + Periods /\ fails' = fails
    BY <1>5 DEF StartTimer, Start
  <2>3. object = "none"
    BY <2>1 DEF StageInv, Early
  <2>4. periods = 0 /\ fails = 0
    BY <2>1 DEF StageInv, PeriodsInv, Early
  <2>5. (os = "win32" => Periods = 1) /\ (os # "win32" => Periods = 0)
    BY DEF Periods
  <2>6. fails \in Int
    BY LifecycleAssumption DEF TimerTypes
  <2>7. (os = "win32" => periods' = 1 - fails') /\ (os # "win32" => periods' = 0)
    BY <2>2, <2>4, <2>5, <2>6
  <2> QED
    BY <2>1, <2>3, <2>7 DEF PeriodsInv, Early
<1>6. CASE StartTimerThrows
  <2>1. pc = "start timer" /\ pc' = "closed" /\ os' = os /\ object' = object
    BY <1>6 DEF StartTimerThrows, StartFails, Step
  <2>2. periods' = periods + Periods /\ fails' = fails + 1
    BY <1>6 DEF StartTimerThrows, StartFails
  <2>3. object = "none"
    BY <2>1 DEF StageInv, Early
  <2>4. periods = 0 /\ fails = 0
    BY <2>1 DEF StageInv, PeriodsInv, Early
  <2>5. (os = "win32" => Periods = 1) /\ (os # "win32" => Periods = 0)
    BY DEF Periods
  <2>6. fails \in Int
    BY LifecycleAssumption DEF TimerTypes
  <2>7. periods' \in 0 .. 1 /\ (os # "win32" => periods' = 0) /\ fails' # 0
    BY <2>2, <2>4, <2>5, <2>6
  <2> QED
    BY <2>1, <2>3, <2>7 DEF PeriodsInv, Early
<1>7. CASE StartThread
  BY <1>7, LifecycleAssumption
     DEF StartThread, Step, timerVars, slaveVars, flags, TimerTypes, StageInv, PeriodsInv,
         Early
<1>8. CASE CloseReturnsEarly
  BY <1>8, LifecycleAssumption
     DEF CloseReturnsEarly, Step, timerVars, slaveVars, flags, TimerTypes, StageInv,
         PeriodsInv, Early
<1>9. CASE CloseBegin
  BY <1>9, LifecycleAssumption
     DEF CloseBegin, Step, timerVars, slaveVars, flags, TimerTypes, StageInv, PeriodsInv,
         Early
<1>10. CASE JoinThread
  BY <1>10, LifecycleAssumption
     DEF JoinThread, Step, timerVars, slaveVars, flags, TimerTypes, StageInv, PeriodsInv,
         Early
<1>11. CASE StopTimer
  <2>1. pc = "stop timer" /\ pc' = "await stop" /\ os' = os /\ object' = "stopped"
    BY <1>11 DEF StopTimer, Stop, Step
  <2>2. periods' = periods - Periods /\ fails' = fails
    BY <1>11 DEF StopTimer, Stop
  <2>3. object = "running"
    BY <2>1 DEF StageInv
  <2>4. (os = "win32" => periods = 1 - fails) /\ (os # "win32" => periods = 0)
    BY <2>3 DEF PeriodsInv
  <2>5. (os = "win32" => Periods = 1) /\ (os # "win32" => Periods = 0)
    BY DEF Periods
  <2>6. fails \in Int
    BY LifecycleAssumption DEF TimerTypes
  <2>7. /\ os = "win32" => periods' = 0 - fails'
        /\ os # "win32" => periods' = 0
        /\ fails' = 0 => periods' = 0
    BY <2>2, <2>4, <2>5, <2>6
  <2> QED
    BY <2>1, <2>3, <2>7 DEF PeriodsInv, Early
<1>12. CASE StopTimerThrows
  <2>1. pc = "stop timer" /\ pc' = "closed" /\ os' = os /\ object' = object
    BY <1>12 DEF StopTimerThrows, StopFails, Step
  <2>2. periods' = periods - Periods /\ fails' = fails + 1
    BY <1>12 DEF StopTimerThrows, StopFails
  <2>3. object = "running"
    BY <2>1 DEF StageInv
  <2>4. (os = "win32" => periods = 1 - fails) /\ (os # "win32" => periods = 0)
    BY <2>3 DEF PeriodsInv
  <2>5. (os = "win32" => Periods = 1) /\ (os # "win32" => Periods = 0)
    BY DEF Periods
  <2>6. fails \in Int
    BY LifecycleAssumption DEF TimerTypes
  <2>7. (os = "win32" => periods' = 1 - fails') /\ (os # "win32" => periods' = 0)
    BY <2>2, <2>4, <2>5, <2>6
  <2> QED
    BY <2>1, <2>3, <2>7 DEF PeriodsInv, Early
<1>13. CASE Sync0Off
  BY <1>13, LifecycleAssumption
     DEF Sync0Off, StopReturns, Step, timerVars, slaveVars, flags, TimerTypes, StageInv,
         PeriodsInv, Early
<1>14. CASE ParkSlaves
  BY <1>14, LifecycleAssumption
     DEF ParkSlaves, Step, timerVars, flags, TimerTypes, StageInv, PeriodsInv, Early
<1>15. CASE Release
  BY <1>15, LifecycleAssumption
     DEF Release, Step, slaveVars, flags, TimerTypes, StageInv, PeriodsInv, Early
<1>16. CASE DestroyTimer
  <2>1. /\ pc = "closed" /\ pc' \in {"destroy", "terminated"} /\ os' = os
        /\ \/ /\ object = "running"
              /\ os = "win32" => periods' = periods - 1
              /\ os # "win32" => periods' = periods - 0
              /\ \/ object' = "stopped" /\ fails' = fails
                 \/ object' = object /\ fails' = fails + 1
           \/ object' = object /\ fails' = fails /\ periods' = periods
    BY <1>16 DEF DestroyTimer, Stop, StopFails, Periods, timerVars
  <2>2. object = "running" => /\ os = "win32" => periods = 1 - fails
                              /\ os # "win32" => periods = 0
    BY DEF PeriodsInv
  <2>3. fails \in Int
    BY LifecycleAssumption DEF TimerTypes
  <2>4. CASE object = "running"
    <3>1. /\ os # "win32" => periods' = 0
          /\ fails' = 0 /\ object' # "running" => periods' = 0
          /\ os = "win32" /\ object' = "stopped" => periods' = 0 - fails'
          /\ os = "win32" /\ object' = "running" => periods' = 1 - fails'
      BY <2>1, <2>2, <2>3, <2>4
    <3> QED
      BY <2>1, <2>4, <3>1 DEF PeriodsInv, Early
  <2>5. CASE object # "running"
    BY <2>1, <2>5 DEF PeriodsInv, Early
  <2> QED
    BY <2>4, <2>5
<1>17. CASE DestroyMembers
  BY <1>17, LifecycleAssumption
     DEF DestroyMembers, StopReturns, slaveVars, flags, TimerTypes, StageInv, PeriodsInv,
         Early
<1> QED
  BY <1>1, <1>2, <1>3, <1>4, <1>5, <1>6, <1>7, <1>8, <1>9, <1>10, <1>11, <1>12, <1>13,
     <1>14, <1>15, <1>16, <1>17
     DEF Owner

LEMMA OwnerExit ==
  ASSUME TimerTypes, OwnerTypes, StageInv, ExitInv, Owner
  PROVE  ExitInv'
<1>1. CASE OpenSocket
  BY <1>1, LifecycleAssumption
     DEF OpenSocket, timerVars, slaveVars, flags, TimerTypes, OwnerTypes, StageInv, ExitInv,
         Early
<1>2. CASE ConfigSlaves
  BY <1>2, LifecycleAssumption
     DEF ConfigSlaves, timerVars, flags, TimerTypes, OwnerTypes, StageInv, ExitInv, Early
<1>3. CASE BringUp
  BY <1>3, LifecycleAssumption
     DEF BringUp, timerVars, flags, TimerTypes, OwnerTypes, StageInv, ExitInv, Early
<1>4. CASE Sync0On
  BY <1>4, LifecycleAssumption
     DEF Sync0On, Step, timerVars, slaveVars, flags, TimerTypes, OwnerTypes, StageInv,
         ExitInv, Early
<1>5. CASE StartTimer
  BY <1>5, LifecycleAssumption
     DEF StartTimer, Start, Step, slaveVars, flags, TimerTypes, OwnerTypes, StageInv,
         ExitInv, Early
<1>6. CASE StartTimerThrows
  BY <1>6, LifecycleAssumption
     DEF StartTimerThrows, StartFails, Step, slaveVars, flags, TimerTypes, OwnerTypes,
         StageInv, ExitInv, Early
<1>7. CASE StartThread
  BY <1>7, LifecycleAssumption
     DEF StartThread, Step, timerVars, slaveVars, flags, TimerTypes, OwnerTypes, StageInv,
         ExitInv, Early
<1>8. CASE CloseReturnsEarly
  BY <1>8, LifecycleAssumption
     DEF CloseReturnsEarly, Step, timerVars, slaveVars, flags, TimerTypes, OwnerTypes,
         StageInv, ExitInv, Early
<1>9. CASE CloseBegin
  BY <1>9, LifecycleAssumption
     DEF CloseBegin, Step, timerVars, slaveVars, flags, TimerTypes, OwnerTypes, StageInv,
         ExitInv, Early
<1>10. CASE JoinThread
  BY <1>10, LifecycleAssumption
     DEF JoinThread, Step, timerVars, slaveVars, flags, TimerTypes, OwnerTypes, StageInv,
         ExitInv, Early
<1>11. CASE StopTimer
  BY <1>11, LifecycleAssumption
     DEF StopTimer, Stop, Step, slaveVars, flags, TimerTypes, OwnerTypes, StageInv, ExitInv,
         Early
<1>12. CASE StopTimerThrows
  <2>1. fails \in 0 .. MaxFails /\ fails' = fails + 1 /\ pc' = "closed"
    BY <1>12 DEF StopTimerThrows, StopFails, Step, TimerTypes
  <2>2. fails' # 0
    BY <2>1, LifecycleAssumption
  <2> QED
    BY <2>1, <2>2 DEF ExitInv
<1>13. CASE Sync0Off
  BY <1>13, LifecycleAssumption
     DEF Sync0Off, StopReturns, Step, timerVars, slaveVars, flags, TimerTypes, OwnerTypes,
         StageInv, ExitInv, Early
<1>14. CASE ParkSlaves
  BY <1>14, LifecycleAssumption
     DEF ParkSlaves, Step, timerVars, flags, TimerTypes, OwnerTypes, StageInv, ExitInv, Early
<1>15. CASE Release
  BY <1>15, LifecycleAssumption
     DEF Release, Step, slaveVars, flags, TimerTypes, OwnerTypes, StageInv, ExitInv, Early
<1>16. CASE DestroyTimer
  BY <1>16, LifecycleAssumption
     DEF DestroyTimer, Stop, StopFails, timerVars, slaveVars, flags, TimerTypes, OwnerTypes,
         StageInv, ExitInv, Early
<1>17. CASE DestroyMembers
  BY <1>17, LifecycleAssumption
     DEF DestroyMembers, StopReturns, slaveVars, flags, TimerTypes, OwnerTypes, StageInv,
         ExitInv, Early
<1> QED
  BY <1>1, <1>2, <1>3, <1>4, <1>5, <1>6, <1>7, <1>8, <1>9, <1>10, <1>11, <1>12, <1>13,
     <1>14, <1>15, <1>16, <1>17
     DEF Owner

LEMMA OwnerQuiet ==
  ASSUME StageInv, QuietInv, Owner
  PROVE  QuietInv'
<1>1. CASE OpenSocket
  BY <1>1
     DEF OpenSocket, timerVars, slaveVars, flags, StageInv, QuietInv, StopReturns,
         NoCallback, Early
<1>2. CASE ConfigSlaves
  BY <1>2
     DEF ConfigSlaves, timerVars, flags, StageInv, QuietInv, StopReturns, NoCallback, Early
<1>3. CASE BringUp
  BY <1>3
     DEF BringUp, timerVars, flags, StageInv, QuietInv, StopReturns, NoCallback, Early
<1>4. CASE Sync0On
  BY <1>4
     DEF Sync0On, Step, timerVars, slaveVars, flags, StageInv, QuietInv, StopReturns,
         NoCallback, Early
<1>5. CASE StartTimer
  BY <1>5
     DEF StartTimer, Start, Step, slaveVars, flags, StageInv, QuietInv, StopReturns,
         NoCallback, Early
<1>6. CASE StartTimerThrows
  BY <1>6
     DEF StartTimerThrows, StartFails, Step, slaveVars, flags, StageInv, QuietInv,
         StopReturns, NoCallback, Early
<1>7. CASE StartThread
  BY <1>7
     DEF StartThread, Step, timerVars, slaveVars, flags, StageInv, QuietInv, StopReturns,
         NoCallback, Early
<1>8. CASE CloseReturnsEarly
  BY <1>8
     DEF CloseReturnsEarly, Step, timerVars, slaveVars, flags, StageInv, QuietInv,
         StopReturns, NoCallback, Early
<1>9. CASE CloseBegin
  BY <1>9
     DEF CloseBegin, Step, timerVars, slaveVars, flags, StageInv, QuietInv, StopReturns,
         NoCallback, Early
<1>10. CASE JoinThread
  BY <1>10
     DEF JoinThread, Step, timerVars, slaveVars, flags, StageInv, QuietInv, StopReturns,
         NoCallback, Early
<1>11. CASE StopTimer
  BY <1>11
     DEF StopTimer, Stop, Step, slaveVars, flags, StageInv, QuietInv, StopReturns,
         NoCallback, Early
<1>12. CASE StopTimerThrows
  BY <1>12
     DEF StopTimerThrows, StopFails, Step, slaveVars, flags, StageInv, QuietInv, StopReturns,
         NoCallback, Early
<1>13. CASE Sync0Off
  BY <1>13
     DEF Sync0Off, StopReturns, Step, timerVars, slaveVars, flags, StageInv, QuietInv,
         NoCallback, Early
<1>14. CASE ParkSlaves
  BY <1>14
     DEF ParkSlaves, Step, timerVars, flags, StageInv, QuietInv, StopReturns, NoCallback,
         Early
<1>15. CASE Release
  BY <1>15
     DEF Release, Step, slaveVars, flags, StageInv, QuietInv, StopReturns, NoCallback, Early
<1>16. CASE DestroyTimer
  BY <1>16
     DEF DestroyTimer, Stop, StopFails, timerVars, slaveVars, flags, StageInv, QuietInv,
         StopReturns, NoCallback, Early
<1>17. CASE DestroyMembers
  BY <1>17
     DEF DestroyMembers, StopReturns, slaveVars, flags, StageInv, QuietInv, NoCallback, Early
<1> QED
  BY <1>1, <1>2, <1>3, <1>4, <1>5, <1>6, <1>7, <1>8, <1>9, <1>10, <1>11, <1>12, <1>13,
     <1>14, <1>15, <1>16, <1>17
     DEF Owner

LEMMA OwnerPark ==
  ASSUME TimerTypes, StageInv, QuietInv, ParkInv, Owner
  PROVE  ParkInv'
<1>1. CASE OpenSocket
  BY <1>1, LifecycleAssumption
     DEF OpenSocket, timerVars, slaveVars, flags, TimerTypes, StageInv, QuietInv, ParkInv,
         StopReturns, NoCallback, Early
<1>2. CASE ConfigSlaves
  BY <1>2, LifecycleAssumption
     DEF ConfigSlaves, timerVars, flags, TimerTypes, StageInv, QuietInv, ParkInv,
         StopReturns, NoCallback, Early
<1>3. CASE BringUp
  BY <1>3, LifecycleAssumption
     DEF BringUp, timerVars, flags, TimerTypes, StageInv, QuietInv, ParkInv, StopReturns,
         NoCallback, Early
<1>4. CASE Sync0On
  BY <1>4, LifecycleAssumption
     DEF Sync0On, Step, timerVars, slaveVars, flags, TimerTypes, StageInv, QuietInv, ParkInv,
         StopReturns, NoCallback, Early
<1>5. CASE StartTimer
  BY <1>5, LifecycleAssumption
     DEF StartTimer, Start, Step, slaveVars, flags, TimerTypes, StageInv, QuietInv, ParkInv,
         StopReturns, NoCallback, Early
<1>6. CASE StartTimerThrows
  BY <1>6, LifecycleAssumption
     DEF StartTimerThrows, StartFails, Step, slaveVars, flags, TimerTypes, StageInv,
         QuietInv, ParkInv, StopReturns, NoCallback, Early
<1>7. CASE StartThread
  BY <1>7, LifecycleAssumption
     DEF StartThread, Step, timerVars, slaveVars, flags, TimerTypes, StageInv, QuietInv,
         ParkInv, StopReturns, NoCallback, Early
<1>8. CASE CloseReturnsEarly
  BY <1>8, LifecycleAssumption
     DEF CloseReturnsEarly, Step, timerVars, slaveVars, flags, TimerTypes, StageInv,
         QuietInv, ParkInv, StopReturns, NoCallback, Early
<1>9. CASE CloseBegin
  BY <1>9, LifecycleAssumption
     DEF CloseBegin, Step, timerVars, slaveVars, flags, TimerTypes, StageInv, QuietInv,
         ParkInv, StopReturns, NoCallback, Early
<1>10. CASE JoinThread
  BY <1>10, LifecycleAssumption
     DEF JoinThread, Step, timerVars, slaveVars, flags, TimerTypes, StageInv, QuietInv,
         ParkInv, StopReturns, NoCallback, Early
<1>11. CASE StopTimer
  BY <1>11, LifecycleAssumption
     DEF StopTimer, Stop, Step, slaveVars, flags, TimerTypes, StageInv, QuietInv, ParkInv,
         StopReturns, NoCallback, Early
<1>12. CASE StopTimerThrows
  <2>1. fails \in 0 .. MaxFails /\ fails' = fails + 1 /\ pc' = "closed"
    BY <1>12 DEF StopTimerThrows, StopFails, Step, TimerTypes
  <2>2. fails' # 0
    BY <2>1, LifecycleAssumption
  <2> QED
    BY <2>1, <2>2 DEF ParkInv
<1>13. CASE Sync0Off
  BY <1>13, LifecycleAssumption
     DEF Sync0Off, StopReturns, Step, timerVars, slaveVars, flags, TimerTypes, StageInv,
         QuietInv, ParkInv, NoCallback, Early
<1>14. CASE ParkSlaves
  BY <1>14, LifecycleAssumption
     DEF ParkSlaves, Step, timerVars, flags, TimerTypes, StageInv, QuietInv, ParkInv,
         StopReturns, NoCallback, Early
<1>15. CASE Release
  BY <1>15, LifecycleAssumption
     DEF Release, Step, slaveVars, flags, TimerTypes, StageInv, QuietInv, ParkInv,
         StopReturns, NoCallback, Early
<1>16. CASE DestroyTimer
  BY <1>16, LifecycleAssumption
     DEF DestroyTimer, Stop, StopFails, timerVars, slaveVars, flags, TimerTypes, StageInv,
         QuietInv, ParkInv, StopReturns, NoCallback, Early
<1>17. CASE DestroyMembers
  BY <1>17, LifecycleAssumption
     DEF DestroyMembers, StopReturns, slaveVars, flags, TimerTypes, StageInv, QuietInv,
         ParkInv, NoCallback, Early
<1> QED
  BY <1>1, <1>2, <1>3, <1>4, <1>5, <1>6, <1>7, <1>8, <1>9, <1>10, <1>11, <1>12, <1>13,
     <1>14, <1>15, <1>16, <1>17
     DEF Owner

(* The owner changes what error_handle has read only before the timer runs.*)
LEMMA OwnerLockWalk ==
  ASSUME StageInv, QuietInv, LockInv, WalkInv, Owner
  PROVE  LockInv' /\ WalkInv'
<1>1. /\ cPc' = cPc /\ rtLock' = rtLock /\ onLost' = onLost
      /\ docheck' = docheck /\ at' = at /\ read' = read
  BY OwnerFrame
<1>2. LockInv'
  BY <1>1 DEF LockInv, Busy
<1>3. CASE ConfigSlaves \/ BringUp
  <2>1. pc \in Early
    BY <1>3 DEF ConfigSlaves, BringUp, Early
  <2>2. NoCallback
    BY <2>1 DEF StageInv, QuietInv
  <2> QED
    BY <1>1, <1>2, <2>2 DEF WalkInv, NoCallback
<1>4. CASE ~(ConfigSlaves \/ BringUp)
  <2>1. seen' = seen
    BY <1>4
       DEF Owner, OpenSocket, Sync0On, StartTimer, StartTimerThrows, StartThread,
           CloseReturnsEarly, CloseBegin, JoinThread, StopTimer, StopTimerThrows, Sync0Off,
           ParkSlaves, Release, DestroyTimer, DestroyMembers, slaveVars
  <2> QED
    BY <1>1, <1>2, <2>1 DEF WalkInv
<1> QED
  BY <1>3, <1>4
-----------------------------------------------------------------------------
(* The slaves.                                                             *)
LEMMA ReadStateStep == ASSUME SlaveTypes, ReadState PROVE SlaveTypes'
<1>1. 1 \in 1 .. N + 1
  BY LifecycleAssumption
<1> QED
  BY <1>1 DEF ReadState, SlaveTypes

LEMMA EndPassStep == ASSUME SlaveTypes, EndPass PROVE SlaveTypes'
<1>1. 1 \in 1 .. N + 1
  BY LifecycleAssumption
<1>2. read' \in [Slaves -> States]
  BY DEF EndPass, States
<1> QED
  BY <1>1, <1>2 DEF EndPass, SlaveTypes

LEMMA DropStep ==
  ASSUME SlaveTypes, NEW k \in Slaves, Drop(k)
  PROVE  /\ SlaveTypes'
         /\ seen' = seen /\ docheck' = docheck /\ at' = at /\ read' = read
         /\ \A j \in Slaves : real[j] \in {"NONE", "INIT"} => real'[j] \in {"NONE", "INIT"}
<1>1. real[k] \in States
  BY DEF SlaveTypes
<1>2. PICK s \in Falls[real[k]] : real' = [real EXCEPT ![k] = s]
  BY DEF Drop
<1>3. s \in States /\ (real[k] \in {"NONE", "INIT"} => s \in {"NONE", "INIT"})
  BY <1>1, <1>2 DEF Falls, States
<1>4. real' \in [Slaves -> States]
  BY <1>2, <1>3 DEF SlaveTypes
<1>5. \A j \in Slaves : real'[j] = IF j = k THEN s ELSE real[j]
  BY <1>2 DEF SlaveTypes
<1> QED
  BY <1>3, <1>4, <1>5 DEF Drop, SlaveTypes

(* Handling one slave, error_handle changes nothing about the others.      *)
LEMMA HandleStep ==
  ASSUME SlaveTypes, HandleSlave
  PROVE  /\ SlaveTypes'
         /\ at \in Slaves /\ at' = at + 1 /\ read' = read
         /\ docheck' <=> docheck \/ seen[at] # "OPERATIONAL"
         /\ \A j \in Slaves : j # at => seen'[j] = seen[j]
<1>1. at \in Slaves /\ at' = at + 1 /\ at' \in 1 .. N + 1 /\ read' = read
  BY LifecycleAssumption DEF SlaveTypes, HandleSlave, Slaves
<1>2. docheck' = (docheck \/ seen[at] # "OPERATIONAL")
  BY DEF HandleSlave, Running
<1>3. real[at] \in States
  BY <1>1 DEF SlaveTypes
<1> DEFINE Kept == /\ real' \in [Slaves -> States]
                   /\ seen' \in [Slaves -> States \cup {"SAFE_OP_ACK"}]
                   /\ isLost' \in [Slaves -> BOOLEAN]
                   /\ \A j \in Slaves : j # at => seen'[j] = seen[j]
<1>4. ASSUME Operates(at) PROVE Kept
  BY <1>1, <1>4 DEF Operates, Found, SlaveTypes
<1>5. ASSUME Acknowledge(at) PROVE Kept
  <2>1. PICK s \in States : real' = [real EXCEPT ![at] = s]
    BY <1>3, <1>5 DEF Acknowledge, Requested, States
  <2>2. real' \in [Slaves -> States]
    BY <2>1 DEF SlaveTypes
  <2>3. seen' = [seen EXCEPT ![at] = "SAFE_OP_ACK"] /\ isLost' = [isLost EXCEPT ![at] = FALSE]
    BY <1>5 DEF Acknowledge, Found
  <2> QED
    BY <1>1, <2>2, <2>3 DEF SlaveTypes
<1>6. ASSUME Restart(at) PROVE Kept
  <2>1. PICK s \in States : real' = [real EXCEPT ![at] = s]
    BY <1>3, <1>6 DEF Restart, Requested, States
  <2>2. real' \in [Slaves -> States]
    BY <2>1 DEF SlaveTypes
  <2>3. seen' = [seen EXCEPT ![at] = "OPERATIONAL"] /\ isLost' = [isLost EXCEPT ![at] = FALSE]
    BY <1>6 DEF Restart, Found
  <2>4. "OPERATIONAL" \in States
    BY DEF States
  <2> QED
    BY <1>1, <2>2, <2>3, <2>4 DEF SlaveTypes
<1>7. ASSUME Reconfigure(at) PROVE Kept
  <2>1. "SAFE_OP" \in States
    BY DEF States
  <2>2. /\ isLost' = [isLost EXCEPT ![at] = FALSE]
        /\ \/ real' = real /\ seen' = seen
           \/ real' = [real EXCEPT ![at] = "SAFE_OP"] /\ seen' = [seen EXCEPT ![at] = "SAFE_OP"]
    BY <1>7 DEF Reconfigure, Found
  <2> QED
    BY <1>1, <2>1, <2>2 DEF SlaveTypes
<1>8. ASSUME Search(at) PROVE Kept
  <2>1. real' = real
    BY <1>8 DEF Search
  <2>2. \/ seen' = [seen EXCEPT ![at] = real[at]] /\ isLost' = isLost
        \/ seen' = seen /\ isLost' = [isLost EXCEPT ![at] = TRUE]
        \/ seen' = seen /\ isLost' = [isLost EXCEPT ![at] = FALSE]
    BY <1>8 DEF Search, Found
  <2> QED
    BY <1>1, <1>3, <2>1, <2>2 DEF SlaveTypes
<1>9. Kept
  BY <1>4, <1>5, <1>6, <1>7, <1>8 DEF HandleSlave
<1>10. docheck' \in BOOLEAN
  BY <1>2 DEF SlaveTypes
<1> QED
  BY <1>1, <1>2, <1>9, <1>10 DEF SlaveTypes
-----------------------------------------------------------------------------
(* The callbacks.                                                          *)
LEMMA CallbackLock ==
  ASSUME CallbackTypes, LockTypes, LockInv, NEW c \in Threads, Callback(c)
  PROVE  CallbackTypes' /\ LockTypes' /\ LockInv'
<1> DEFINE Goal == CallbackTypes /\ LockTypes /\ LockInv
<1>1. CASE TimerFires(c)
  <2>1. cPc[c] = "idle" /\ cPc' = [cPc EXCEPT ![c] = "fired"] /\ rtLock' = rtLock /\ onLost' = onLost
    BY <1>1 DEF TimerFires, Fire, flags
  <2> QED
    BY <2>1 DEF CallbackTypes, LockTypes, LockInv, Busy
<1>2. CASE Lock(c)
  <2>1. /\ onLost' = onLost
        /\ \/ cPc' = [cPc EXCEPT ![c] = "exchange"] /\ ~rtLock /\ rtLock' = TRUE
           \/ cPc' = [cPc EXCEPT ![c] = "idle"] /\ rtLock' = rtLock
    BY <1>2 DEF Lock, Move
  <2>2. CASE cPc' = [cPc EXCEPT ![c] = "exchange"] /\ ~rtLock /\ rtLock' = TRUE
    <3>1. onLost = 0 /\ \A d \in Threads : ~Busy(d)
      BY <2>2 DEF LockInv, LockTypes
    <3> QED
      BY <2>1, <2>2, <3>1 DEF CallbackTypes, LockTypes, LockInv, Busy
  <2>3. CASE cPc' = [cPc EXCEPT ![c] = "idle"] /\ rtLock' = rtLock
    BY <2>1, <2>3 DEF CallbackTypes, LockTypes, LockInv, Busy
  <2> QED
    BY <2>1, <2>2, <2>3
<1>3. CASE ExchangeGood(c) \/ KeepLink(c)
  <2>1. /\ cPc[c] \in {"exchange", "walk"} /\ cPc' = [cPc EXCEPT ![c] = "idle"]
        /\ rtLock' = FALSE /\ onLost' = onLost
    BY <1>3 DEF ExchangeGood, KeepLink, Move
  <2>2. \A d \in Threads : Busy(d) => d = c
    BY <2>1 DEF LockInv, Busy
  <2>3. onLost' = 0
    BY <2>1 DEF LockInv, Busy
  <2>4. CallbackTypes' /\ LockTypes'
    BY <2>1, <2>3 DEF CallbackTypes, LockTypes
  <2>5. \A d \in Threads : ~(cPc'[d] \in {"exchange", "walk"})
    BY <2>1, <2>2 DEF CallbackTypes, Busy
  <2> QED
    BY <2>3, <2>4, <2>5 DEF LockInv, Busy
<1>4. CASE ExchangeBad(c) \/ Walk(c)
  <2>1. /\ cPc[c] \in {"exchange", "walk"} /\ cPc' = [cPc EXCEPT ![c] = "walk"]
        /\ rtLock' = rtLock /\ onLost' = onLost
    BY <1>4 DEF ExchangeBad, Walk, Move, flags
  <2> QED
    BY <2>1 DEF CallbackTypes, LockTypes, LockInv, Busy
<1>5. CASE GiveUp(c)
  <2>1. /\ cPc[c] = "walk" /\ cPc' = [cPc EXCEPT ![c] = "idle"]
        /\ rtLock' = rtLock /\ onLost' = onLost + 1
    BY <1>5 DEF GiveUp, Move
  <2>2. rtLock /\ onLost = 0 /\ \A d \in Threads : Busy(d) => d = c
    BY <2>1 DEF LockInv, Busy
  <2> QED
    BY <2>1, <2>2 DEF CallbackTypes, LockTypes, LockInv, Busy
<1> QED
  BY <1>1, <1>2, <1>3, <1>4, <1>5 DEF Callback

LEMMA CallbackOwnerTypes ==
  ASSUME OwnerTypes, TimerTypes, LockInv, NEW c \in Threads, Callback(c)
  PROVE  /\ OwnerTypes' /\ TimerTypes'
         /\ \/ isOpen' = isOpen /\ onLost' = onLost
            \/ isOpen' = FALSE /\ onLost = 0 /\ onLost' = 1
<1>1. \/ isOpen' = isOpen /\ onLost' = onLost
      \/ isOpen' = FALSE /\ onLost = 0 /\ onLost' = 1
  <2>1. CASE GiveUp(c)
    <3>1. onLost = 0
      BY <2>1 DEF GiveUp, Move, LockInv, Busy
    <3> QED
      BY <2>1, <3>1 DEF GiveUp
  <2>2. CASE ~GiveUp(c)
    BY <2>2
       DEF Callback, TimerFires, Lock, ExchangeGood, ExchangeBad, Walk, KeepLink, owner, flags
  <2> QED
    BY <2>1, <2>2
<1>2. OwnerTypes'
  BY <1>1, CallbackFrame DEF OwnerTypes
<1>3. TimerTypes'
  BY CallbackFrame DEF TimerTypes
<1> QED
  BY <1>1, <1>2, <1>3

LEMMA CallbackSlaveTypes ==
  ASSUME SlaveTypes, NEW c \in Threads, Callback(c)
  PROVE  SlaveTypes'
<1>1. CASE TimerFires(c) \/ Lock(c) \/ ExchangeGood(c)
  BY <1>1 DEF TimerFires, Lock, ExchangeGood, slaveVars, SlaveTypes
<1>2. CASE ExchangeBad(c)
  BY <1>2, ReadStateStep DEF ExchangeBad
<1>3. CASE Walk(c)
  BY <1>3, HandleStep DEF Walk
<1>4. CASE KeepLink(c) \/ GiveUp(c)
  BY <1>4, EndPassStep DEF KeepLink, GiveUp
<1> QED
  BY <1>1, <1>2, <1>3, <1>4 DEF Callback

(* A step of a callback while none runs is the timer calling one.          *)
LEMMA CallbackNeedsTimer ==
  ASSUME NEW c \in Threads, Callback(c), NoCallback
  PROVE  timer = "armed"
BY DEF Callback, TimerFires, Fire, Lock, ExchangeGood, ExchangeBad, Walk, KeepLink, GiveUp,
       Move, NoCallback

LEMMA CallbackStages ==
  ASSUME OwnerTypes, TimerTypes, StageInv, LockInv, NEW c \in Threads, Callback(c)
  PROVE  StageInv'
BY CallbackFrame, CallbackOwnerTypes DEF StageInv, Early

LEMMA CallbackQuiet ==
  ASSUME StageInv, QuietInv, NEW c \in Threads, Callback(c)
  PROVE  QuietInv'
<1>1. NoCallback => timer = "armed"
  BY CallbackNeedsTimer
<1>2. object # "none"
  BY <1>1 DEF StageInv, QuietInv
<1>3. handler # "alive" \/ pc \in {"park", "release"} => os # "win32"
  BY <1>1 DEF StageInv, QuietInv, StopReturns
<1> QED
  BY <1>2, <1>3, CallbackFrame DEF QuietInv, StopReturns

LEMMA CallbackExit ==
  ASSUME OwnerTypes, TimerTypes, LockInv, PeriodsInv, ExitInv, ParkInv,
         NEW c \in Threads, Callback(c)
  PROVE  PeriodsInv' /\ ExitInv' /\ ParkInv'
<1>1. PeriodsInv'
  BY CallbackFrame DEF PeriodsInv
<1>2. ExitInv'
  BY CallbackFrame, CallbackOwnerTypes DEF ExitInv
<1>3. ~(os = "win32" /\ pc \in {"release", "closed", "destroy", "gone"}
          /\ thread = "joined" /\ fails = 0)
  BY CallbackNeedsTimer DEF ParkInv
<1>4. ParkInv'
  BY <1>3, CallbackFrame DEF ParkInv
<1> QED
  BY <1>1, <1>2, <1>4

LEMMA CallbackWalk ==
  ASSUME SlaveTypes, CallbackTypes, LockInv, LockInv', CallbackTypes', WalkInv,
         NEW c \in Threads, Callback(c)
  PROVE  WalkInv'
<1>1. CASE TimerFires(c) \/ Lock(c) \/ ExchangeGood(c)
  <2>1. /\ docheck' = docheck /\ at' = at /\ read' = read /\ seen' = seen
        /\ \E x \in {"idle", "fired", "exchange"} : cPc' = [cPc EXCEPT ![c] = x]
    BY <1>1 DEF TimerFires, Fire, Lock, ExchangeGood, Move, slaveVars
  <2>2. \A d \in Threads : cPc'[d] = "walk" => cPc[d] = "walk"
    BY <2>1 DEF CallbackTypes
  <2> QED
    BY <2>1, <2>2 DEF WalkInv
<1>2. CASE ExchangeBad(c)
  <2>1. docheck' = FALSE /\ at' = 1 /\ seen' = real /\ read' = real
    BY <1>2 DEF ExchangeBad, ReadState
  <2>2. ~ \E k \in 1 .. at' - 1 : read'[k] # "OPERATIONAL"
    BY <2>1
  <2> QED
    BY <2>1, <2>2 DEF WalkInv
<1>3. CASE Walk(c)
  <2>1. cPc[c] = "walk" /\ HandleSlave
    BY <1>3 DEF Walk, Move
  <2>2. /\ at \in Slaves /\ at' = at + 1 /\ read' = read
        /\ docheck' <=> docheck \/ seen[at] # "OPERATIONAL"
        /\ \A j \in Slaves : j # at => seen'[j] = seen[j]
    BY <2>1, HandleStep
  <2>3. /\ docheck <=> \E k \in 1 .. at - 1 : read[k] # "OPERATIONAL"
        /\ \A k \in at .. N : seen[k] = read[k]
    BY <2>1 DEF WalkInv
  <2>4. at \in Int /\ N \in Int /\ 1 <= at /\ at <= N
    BY <2>2, LifecycleAssumption DEF Slaves
  <2>5. seen[at] = read[at]
    BY <2>3, <2>4
  <2>6. docheck' <=> \E k \in 1 .. at' - 1 : read'[k] # "OPERATIONAL"
    <3>1. 1 .. at' - 1 = (1 .. at - 1) \cup {at}
      BY <2>2, <2>4
    <3> QED
      BY <2>2, <2>3, <2>5, <3>1
  <2>7. \A k \in at' .. N : seen'[k] = read'[k]
    <3>1. \A k \in at' .. N : k \in Slaves /\ k # at /\ k \in at .. N
      BY <2>2, <2>4 DEF Slaves
    <3> QED
      BY <2>2, <2>3, <3>1
  <2> QED
    BY <2>6, <2>7 DEF WalkInv
<1>4. CASE KeepLink(c) \/ GiveUp(c)
  <2>1. cPc[c] = "walk" /\ cPc' = [cPc EXCEPT ![c] = "idle"]
    BY <1>4 DEF KeepLink, GiveUp, Move
  <2>2. \A d \in Threads : cPc'[d] # "walk"
    BY <2>1 DEF LockInv, Busy, CallbackTypes
  <2> QED
    BY <2>2 DEF WalkInv
<1> QED
  BY <1>1, <1>2, <1>3, <1>4 DEF Callback
-----------------------------------------------------------------------------
(* All of it.                                                              *)
LEMMA NextIInv == IInv /\ [Next]_vars => IInv'
<1> SUFFICES ASSUME IInv, [Next]_vars PROVE IInv'
  OBVIOUS
<1>1. /\ TimerTypes /\ CallbackTypes /\ SlaveTypes /\ OwnerTypes /\ LockTypes
      /\ StageInv /\ QuietInv /\ LockInv /\ WalkInv /\ PeriodsInv /\ ExitInv /\ ParkInv
  BY DEF IInv, Types
<1> DEFINE Kept == /\ Types' /\ StageInv' /\ QuietInv' /\ LockInv' /\ WalkInv'
                   /\ PeriodsInv' /\ ExitInv' /\ ParkInv'
<1>2. ASSUME UNCHANGED vars PROVE Kept
  <2>1. /\ UNCHANGED <<os, timer, object, periods, handler, cPc, fails>>
        /\ UNCHANGED <<real, seen, isLost, docheck, at, read>>
        /\ UNCHANGED <<pc, isOpen, thread, ioMap, socket, sync0, rtLock, onLost>>
    BY <1>2 DEF vars, timerVars, slaveVars, owner, flags
  <2>2. Types'
    <3>1. TimerTypes' /\ CallbackTypes' /\ LockTypes'
      BY <1>1, <2>1 DEF TimerTypes, CallbackTypes, LockTypes
    <3>2. SlaveTypes'
      BY <1>1, <2>1 DEF SlaveTypes
    <3>3. OwnerTypes'
      BY <1>1, <2>1 DEF OwnerTypes
    <3> QED
      BY <3>1, <3>2, <3>3 DEF Types
  <2>3. StageInv' /\ QuietInv'
    BY <1>1, <2>1 DEF StageInv, QuietInv, NoCallback, StopReturns
  <2>4. LockInv' /\ WalkInv'
    BY <1>1, <2>1 DEF LockInv, WalkInv, Busy
  <2>5. PeriodsInv' /\ ExitInv' /\ ParkInv'
    BY <1>1, <2>1 DEF PeriodsInv, ExitInv, ParkInv, NoCallback
  <2> QED
    BY <2>2, <2>3, <2>4, <2>5
<1>3. ASSUME Owner PROVE Kept
  <2>1. TimerTypes' /\ OwnerTypes' /\ SlaveTypes'
    BY <1>1, <1>3, TimerTypesKept, OwnerTypesKept, OwnerSlaveTypes
  <2>2. CallbackTypes' /\ LockTypes'
    BY <1>1, <1>3, OwnerFrame DEF CallbackTypes, LockTypes
  <2>3. StageInv' /\ QuietInv' /\ LockInv' /\ WalkInv'
    BY <1>1, <1>3, OwnerStages, OwnerQuiet, OwnerLockWalk
  <2>4. PeriodsInv' /\ ExitInv' /\ ParkInv'
    BY <1>1, <1>3, OwnerPeriods, OwnerExit, OwnerPark
  <2> QED
    BY <2>1, <2>2, <2>3, <2>4 DEF Types
<1>4. ASSUME \E c \in Threads : Callback(c) PROVE Kept
  <2>1. PICK c \in Threads : Callback(c)
    BY <1>4
  <2>2. CallbackTypes' /\ LockTypes' /\ LockInv'
    BY <1>1, <2>1, CallbackLock
  <2>3. TimerTypes' /\ OwnerTypes' /\ SlaveTypes'
    BY <1>1, <2>1, CallbackOwnerTypes, CallbackSlaveTypes
  <2>4. StageInv' /\ QuietInv'
    BY <1>1, <2>1, CallbackStages, CallbackQuiet
  <2>5. WalkInv'
    BY <1>1, <2>1, <2>2, CallbackWalk
  <2>6. PeriodsInv' /\ ExitInv' /\ ParkInv'
    BY <1>1, <2>1, CallbackExit
  <2> QED
    BY <2>2, <2>3, <2>4, <2>5, <2>6 DEF Types
<1>5. ASSUME \E k \in Slaves : SlaveDrops(k) PROVE Kept
  <2>1. PICK k \in Slaves : SlaveDrops(k)
    BY <1>5
  <2>2. /\ SlaveTypes' /\ seen' = seen /\ docheck' = docheck /\ at' = at /\ read' = read
        /\ \A j \in Slaves : real[j] \in {"NONE", "INIT"} => real'[j] \in {"NONE", "INIT"}
    BY <1>1, <2>1, DropStep DEF SlaveDrops
  <2>3. /\ UNCHANGED <<os, timer, object, periods, handler, cPc, fails>>
        /\ UNCHANGED <<pc, isOpen, thread, ioMap, socket, sync0, rtLock, onLost>>
    BY <2>1 DEF SlaveDrops, timerVars, owner, flags
  <2>4. Types'
    <3>1. TimerTypes' /\ CallbackTypes' /\ LockTypes'
      BY <1>1, <2>3 DEF TimerTypes, CallbackTypes, LockTypes
    <3>2. OwnerTypes'
      BY <1>1, <2>3 DEF OwnerTypes
    <3> QED
      BY <2>2, <3>1, <3>2 DEF Types
  <2>5. StageInv' /\ QuietInv'
    BY <1>1, <2>3 DEF StageInv, QuietInv, NoCallback, StopReturns
  <2>6. LockInv' /\ WalkInv'
    BY <1>1, <2>2, <2>3 DEF LockInv, WalkInv, Busy
  <2>7. PeriodsInv' /\ ExitInv'
    BY <1>1, <2>3 DEF PeriodsInv, ExitInv
  <2>8. ParkInv'
    BY <1>1, <2>2, <2>3 DEF ParkInv, NoCallback
  <2> QED
    BY <2>4, <2>5, <2>6, <2>7, <2>8
<1>6. Kept
  BY <1>2, <1>3, <1>4, <1>5 DEF Next
<1> QED
  BY <1>6 DEF IInv

LEMMA IInvHolds == Spec => []IInv
  BY InitIInv, NextIInv, PTL DEF Spec
-----------------------------------------------------------------------------
(* Type correctness.                                                       *)
THEOREM TypeCorrect == Spec => []TypeOK
<1>1. IInv => TypeOK
  BY TypesAreTypeOK DEF IInv
<1> QED
  BY <1>1, IInvHolds, PTL

(* With any of the timers no callback is started on a handler, a socket or *)
(* an image that is gone, and on Windows none ever runs on one, whatever   *)
(* path the owner and the system take.                                     *)
THEOREM NothingIsFreedUnderACallback == Spec => []HandlerOutlives
<1>1. IInv => HandlerOutlives
  BY DEF IInv, HandlerOutlives, StageInv, QuietInv, StopReturns, NoCallback
<1> QED
  BY <1>1, IInvHolds, PTL

(* What is left of a link that is gone, however far open() got: nothing    *)
(* that runs, and nothing of an open() that succeeded if the system        *)
(* refused nothing.  The process ends in the destructor only after a lost  *)
(* link or two refusals.                                                   *)
THEOREM EverythingIsGivenBack == Spec => []CleanExit
<1>1. IInv => CleanExit
  <2> SUFFICES ASSUME IInv PROVE CleanExit
    OBVIOUS
  <2>1. OwnerTypes /\ TimerTypes /\ StageInv /\ ExitInv /\ PeriodsInv
    BY DEF IInv, Types
  <2>2. ASSUME pc = "gone", thread = "joined", fails = 0 PROVE Released
    <3>1. ~socket /\ ~sync0 /\ ~ioMap /\ timer = "deleted" /\ object = "stopped" /\ handler = "freed"
      BY <2>1, <2>2 DEF ExitInv
    <3>2. periods = 0
      BY <2>1, <2>2, <3>1 DEF PeriodsInv
    <3> QED
      BY <2>2, <3>1, <3>2 DEF Released
  <2>3. ASSUME pc = "gone"
        PROVE  /\ timer # "armed" /\ handler # "alive" /\ ~ioMap /\ thread # "running"
               /\ timer = "created" \/ periods # 0 => fails # 0
    BY <2>1, <2>3 DEF StageInv, ExitInv, PeriodsInv
  <2>4. fails # 0 => fails > 0
    BY <2>1, LifecycleAssumption DEF TimerTypes
  <2>5. pc = "terminated" => onLost = 1 \/ fails > 1
    BY <2>1 DEF ExitInv
  <2> QED
    BY <2>2, <2>3, <2>4, <2>5 DEF CleanExit
<1> QED
  BY <1>1, IInvHolds, PTL

(* On Windows the slaves stay where close() has put them.                  *)
THEOREM SlavesStayParked == Spec => []SlavesParked
<1>1. IInv => SlavesParked
  BY DEF IInv, ParkInv, SlavesParked
<1> QED
  BY <1>1, IInvHolds, PTL

(* error_handle gives the link up exactly for what it read.                *)
THEOREM JudgementIsWhatWasRead == Spec => []JudgedAsRead
<1>1. IInv => JudgedAsRead
  BY DEF IInv, WalkInv, JudgedAsRead
<1> QED
  BY <1>1, IInvHolds, PTL

(* The detailed link implements what a link promises about itself.         *)
THEOREM ImplementsHealth == Spec => LinkIsHealthy
<1>1. Init => Health!Init
  BY DEF Init, Health!Init
<1>2. IInv /\ [Next]_vars => [Health!Open \/ Health!GiveUp \/ Health!Close]_(Health!vars)
  <2> SUFFICES ASSUME IInv, [Next]_vars
               PROVE  [Health!Open \/ Health!GiveUp \/ Health!Close]_(Health!vars)
    OBVIOUS
  <2>1. OwnerTypes /\ TimerTypes /\ StageInv /\ LockInv
    BY DEF IInv, Types
  <2>2. CASE StartThread
    <3>1. thread = "none" /\ thread' = "running" /\ isOpen' = TRUE /\ onLost' = onLost
      BY <2>1, <2>2 DEF StartThread, Step, StageInv, flags
    <3> QED
      BY <3>1 DEF Health!Open
  <2>3. CASE CloseBegin
    <3>1. thread = "running" /\ thread' = thread /\ isOpen' = FALSE /\ onLost' = onLost
      BY <2>1, <2>3 DEF CloseBegin, Step, StageInv, flags
    <3> QED
      BY <3>1 DEF Health!Close
  <2>4. CASE JoinThread
    <3>1. thread = "running" /\ thread' = "joined" /\ isOpen' = isOpen /\ onLost' = onLost
      BY <2>1, <2>4 DEF JoinThread, Step, StageInv, flags
    <3> QED
      BY <3>1 DEF Health!vars
  <2>5. CASE Owner /\ ~StartThread /\ ~CloseBegin /\ ~JoinThread
    <3>1. thread' = thread /\ isOpen' = isOpen /\ onLost' = onLost
      BY <2>5
         DEF Owner, OpenSocket, ConfigSlaves, BringUp, Sync0On, StartTimer, StartTimerThrows,
             CloseReturnsEarly, StopTimer, StopTimerThrows, Sync0Off, ParkSlaves, Release,
             DestroyTimer, DestroyMembers, flags
    <3> QED
      BY <3>1 DEF Health!vars
  <2>6. CASE \E c \in Threads : Callback(c)
    <3>1. PICK c \in Threads : Callback(c)
      BY <2>6
    <3>2. /\ thread' = thread
          /\ \/ isOpen' = isOpen /\ onLost' = onLost
             \/ isOpen' = FALSE /\ onLost = 0 /\ onLost' = 1
      BY <2>1, <3>1, CallbackFrame, CallbackOwnerTypes
    <3> QED
      BY <3>2 DEF Health!GiveUp, Health!vars
  <2>7. CASE \E k \in Slaves : SlaveDrops(k)
    BY <2>7 DEF SlaveDrops, owner, flags, Health!vars
  <2>8. CASE UNCHANGED vars
    BY <2>8 DEF vars, owner, flags, Health!vars
  <2> QED
    BY <2>2, <2>3, <2>4, <2>5, <2>6, <2>7, <2>8 DEF Next
<1> QED
  BY <1>1, <1>2, IInvHolds, PTL DEF Spec, LinkIsHealthy, Health!Spec
=============================================================================
