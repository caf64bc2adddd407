---------------------------- MODULE LinkLifecycle ----------------------------
(***************************************************************************)
(* The life of a SOEMController, from its constructor to its destructor:   *)
(* what open() takes, step by step, and what close(), the destructor, a    *)
(* failed open() and a lost link give back.  It composes the timer and the *)
(* slaves with the thread that owns the link and the callbacks on the      *)
(* timer's threads; the ring and the image, which SOEMLink is about, are   *)
(* left out.  close() drains the ring and joins the send thread, which     *)
(* takes no time here.                                                     *)
(***************************************************************************)
EXTENDS OsTimer, SlaveRecovery

VARIABLES
  pc,      \* where the owner's thread is
  isOpen,  \* _is_open
  thread,  \* the send thread: "none", "running" or "joined"
  ioMap,   \* is _io_map allocated?
  socket,  \* between ec_init and ec_close
  sync0,   \* do the slaves have their SYNC0 pulses?
  rtLock,  \* _rt_lock of the handler
  onLost   \* number of calls of on_lost

owner == <<pc, isOpen, thread, ioMap, socket, sync0>>
flags == <<rtLock, onLost>>
vars == <<timerVars, slaveVars, owner, flags>>

ASSUME LifecycleAssumption == N \in Nat \ {0} /\ MaxFails \in Nat

Alive == pc \notin {"gone", "terminated"}

Init ==
  /\ InitTimer /\ InitSlaves
  /\ pc = "new" /\ isOpen = FALSE /\ thread = "none"
  /\ ioMap = FALSE /\ socket = FALSE /\ sync0 = FALSE
  /\ rtLock = FALSE /\ onLost = 0

Step(from, to) == pc = from /\ pc' = to
-----------------------------------------------------------------------------
(* open(), step by step.  Every exception leaves what the steps before it  *)
(* have taken: the caller only destroys the link.                          *)
OpenSocket ==
  /\ pc = "new" /\ ioMap' = TRUE
  /\ \/ pc' = "config" /\ socket' = TRUE
     \/ pc' = "closed" /\ UNCHANGED socket
  /\ UNCHANGED <<timerVars, slaveVars, isOpen, thread, sync0, flags>>

(* ec_config_init finds the slaves that answer and takes them to PRE_OP.   *)
ConfigSlaves ==
  /\ pc = "config"
  /\ real' = [k \in Slaves |-> IF real[k] = "NONE" THEN "NONE" ELSE "PRE_OP"]
  /\ seen' = real' /\ isLost' = [k \in Slaves |-> FALSE]
  /\ pc' = IF \E k \in Slaves : real[k] = "NONE" THEN "closed" ELSE "bring up"
  /\ UNCHANGED <<timerVars, docheck, at, read, isOpen, thread, ioMap, socket, sync0, flags>>

(* The slaves in up get to OPERATIONAL; open() wants all of them to.       *)
BringUp ==
  /\ pc = "bring up"
  /\ \E up \in SUBSET Slaves :
       real' = [k \in Slaves |-> IF real[k] # "PRE_OP" THEN real[k]
                                 ELSE IF k \in up THEN "OPERATIONAL" ELSE "SAFE_OP"]
  /\ seen' = real'
  /\ pc' = IF \A k \in Slaves : Running(k)' THEN "sync0 on" ELSE "closed"
  /\ UNCHANGED <<timerVars, isLost, docheck, at, read, isOpen, thread, ioMap, socket, sync0, flags>>

Sync0On ==
  /\ Step("sync0 on", "start timer") /\ sync0' = TRUE
  /\ UNCHANGED <<timerVars, slaveVars, isOpen, thread, ioMap, socket, flags>>

StartTimer ==
  /\ Start /\ Step("start timer", "start thread")
  /\ UNCHANGED <<slaveVars, isOpen, thread, ioMap, socket, sync0, flags>>

StartTimerThrows ==
  /\ StartFails /\ Step("start timer", "closed")
  /\ UNCHANGED <<slaveVars, isOpen, thread, ioMap, socket, sync0, flags>>

(* Only now is the link open, though callbacks run already.                *)
StartThread ==
  /\ Step("start thread", "open") /\ isOpen' = TRUE /\ thread' = "running"
  /\ UNCHANGED <<timerVars, slaveVars, ioMap, socket, sync0, flags>>
-----------------------------------------------------------------------------
(* close(), on its own or first thing in the destructor.                   *)
CloseReturnsEarly ==
  /\ Step("open", "closed") /\ ~isOpen
  /\ UNCHANGED <<timerVars, slaveVars, isOpen, thread, ioMap, socket, sync0, flags>>

CloseBegin ==
  /\ Step("open", "join") /\ isOpen /\ isOpen' = FALSE
  /\ UNCHANGED <<timerVars, slaveVars, thread, ioMap, socket, sync0, flags>>

JoinThread ==
  /\ Step("join", "stop timer") /\ thread' = "joined"
  /\ UNCHANGED <<timerVars, slaveVars, isOpen, ioMap, socket, sync0, flags>>

StopTimer ==
  /\ Stop /\ Step("stop timer", "await stop")
  /\ UNCHANGED <<slaveVars, isOpen, thread, ioMap, socket, sync0, flags>>

StopTimerThrows ==
  /\ StopFails /\ Step("stop timer", "closed")
  /\ UNCHANGED <<slaveVars, isOpen, thread, ioMap, socket, sync0, flags>>

Sync0Off ==
  /\ Step("await stop", "park") /\ StopReturns /\ sync0' = FALSE
  /\ UNCHANGED <<timerVars, slaveVars, isOpen, thread, ioMap, socket, flags>>

(* ec_writestate(0) takes every slave that answers back to INIT.           *)
ParkSlaves ==
  /\ Step("park", "release")
  /\ real' = [k \in Slaves |-> IF real[k] = "NONE" THEN "NONE" ELSE "INIT"]
  /\ UNCHANGED <<timerVars, seen, isLost, docheck, at, read, isOpen, thread, ioMap, socket, sync0, flags>>

(* ec_close, _io_map = nullptr; the handler that stop() returned goes with *)
(* the scope.                                                              *)
Release ==
  /\ Step("release", "closed") /\ ioMap' = FALSE /\ socket' = FALSE /\ handler' = "freed"
  /\ UNCHANGED <<os, timer, object, periods, cPc, fails, slaveVars, isOpen, thread, sync0, flags>>

(* The members are destroyed, last to first: ~Timer stops a timer that     *)
(* runs still...                                                           *)
DestroyTimer ==
  /\ pc = "closed"
  /\ \/ Stop /\ pc' = "destroy"
     \/ StopFails /\ pc' = "terminated"        \* a destructor that throws
     \/ object # "running" /\ pc' = "destroy" /\ UNCHANGED timerVars
  /\ UNCHANGED <<slaveVars, isOpen, thread, ioMap, socket, sync0, flags>>

(* ... and a std::thread that was not joined ends the process.             *)
DestroyMembers ==
  /\ pc = "destroy" /\ StopReturns
  /\ pc' = IF thread = "running" THEN "terminated" ELSE "gone"
  /\ handler' = IF handler = "alive" THEN "freed" ELSE handler
  /\ ioMap' = FALSE
  /\ UNCHANGED <<os, timer, object, periods, cPc, fails, slaveVars, isOpen, thread, socket, sync0, flags>>
-----------------------------------------------------------------------------
(* SOEMCallback::callback on thread c, with error_handle.                  *)
Move(c, from, to) == Alive /\ cPc[c] = from /\ cPc' = [cPc EXCEPT ![c] = to]

OtherTimerVars == <<os, timer, object, periods, handler, fails>>

TimerFires(c) == Alive /\ Fire(c) /\ UNCHANGED <<slaveVars, owner, flags>>

Lock(c) ==
  /\ \/ Move(c, "fired", "exchange") /\ ~rtLock /\ rtLock' = TRUE
     \/ Move(c, "fired", "idle") /\ rtLock /\ UNCHANGED rtLock
  /\ UNCHANGED <<OtherTimerVars, slaveVars, owner, onLost>>

(* The working counter is the expected one only if every slave took part...*)
ExchangeGood(c) ==
  /\ Move(c, "exchange", "idle") /\ rtLock' = FALSE
  /\ \A k \in Slaves : real[k] = "OPERATIONAL"
  /\ UNCHANGED <<OtherTimerVars, slaveVars, owner, onLost>>

(* ... and may be wrong even so, when a frame is lost.                     *)
ExchangeBad(c) ==
  /\ Move(c, "exchange", "walk") /\ ReadState
  /\ UNCHANGED <<OtherTimerVars, owner, flags>>

Walk(c) ==
  /\ Move(c, "walk", "walk") /\ HandleSlave
  /\ UNCHANGED <<OtherTimerVars, owner, flags>>

(* A mutant: the lock is not released after a false alarm.                 *)
BugKeepsLock(c) ==
  /\ EndPass /\ ~docheck
  /\ Move(c, "walk", "idle")
  /\ UNCHANGED <<OtherTimerVars, owner, flags>>

KeepLink(c) ==
  /\ EndPass /\ ~docheck
  /\ Move(c, "walk", "idle") /\ rtLock' = FALSE
  /\ UNCHANGED <<OtherTimerVars, owner, onLost>>

(* A mutant: the lock is released in every case.                           *)
BugUnlocks(c) ==
  /\ EndPass /\ docheck
  /\ Move(c, "walk", "idle") /\ rtLock' = FALSE /\ isOpen' = FALSE /\ onLost' = onLost + 1
  /\ UNCHANGED <<OtherTimerVars, pc, thread, ioMap, socket, sync0>>

(* callback() returns without releasing _rt_lock.                          *)
GiveUp(c) ==
  /\ EndPass /\ docheck
  /\ Move(c, "walk", "idle") /\ isOpen' = FALSE /\ onLost' = onLost + 1
  /\ UNCHANGED <<OtherTimerVars, pc, thread, ioMap, socket, sync0, rtLock>>

SlaveDrops(k) == Alive /\ Drop(k) /\ UNCHANGED <<timerVars, owner, flags>>
-----------------------------------------------------------------------------
Owner ==
  \/ OpenSocket \/ ConfigSlaves \/ BringUp \/ Sync0On \/ StartTimer \/ StartTimerThrows
  \/ StartThread \/ CloseReturnsEarly \/ CloseBegin \/ JoinThread \/ StopTimer
  \/ StopTimerThrows \/ Sync0Off \/ ParkSlaves \/ Release \/ DestroyTimer \/ DestroyMembers

Callback(c) ==
  \/ TimerFires(c) \/ Lock(c) \/ ExchangeGood(c) \/ ExchangeBad(c)
  \/ Walk(c) \/ KeepLink(c) \/ GiveUp(c)

Next ==
  \/ Owner
  \/ \E c \in Threads : Callback(c)
  \/ \E k \in Slaves : SlaveDrops(k)

Spec == Init /\ [][Next]_vars

(* The timer keeps firing and the threads it fires on run.                 *)
FairSpec == Spec /\ \A c \in Threads : WF_vars(Callback(c))
-----------------------------------------------------------------------------
(* Type invariant.                                                         *)
TypeOK ==
  /\ os \in {"win32", "linux", "macosx"} /\ timer \in {"none", "created", "armed", "deleted"}
  /\ object \in {"none", "running", "stopped"} /\ handler \in {"none", "alive", "freed"}
  /\ periods \in -MaxFails .. 1 /\ fails \in 0 .. MaxFails
  /\ cPc \in [Threads -> {"idle", "fired", "exchange", "walk"}]
  /\ real \in [Slaves -> States] /\ seen \in [Slaves -> States \cup {"SAFE_OP_ACK"}]
  /\ isLost \in [Slaves -> BOOLEAN] /\ docheck \in BOOLEAN
  /\ at \in 1 .. N + 1 /\ read \in [Slaves -> States]
  /\ pc \in {"new", "config", "bring up", "sync0 on", "start timer", "start thread", "open",
             "join", "stop timer", "await stop", "park", "release", "closed", "destroy",
             "gone", "terminated"}
  /\ isOpen \in BOOLEAN /\ thread \in {"none", "running", "joined"}
  /\ ioMap \in BOOLEAN /\ socket \in BOOLEAN /\ sync0 \in BOOLEAN
  /\ rtLock \in BOOLEAN /\ onLost \in 0 .. 1

(* No callback is started, by any of the three timers and on whatever path *)
(* close(), the destructor or a failing call has taken, when its handler,  *)
(* the socket or the image has gone; and one under way, past its start     *)
(* when it is about the last two, finds them there to its end.  To the     *)
(* second only the timer of Windows sees.                                  *)
HandlerOutlives ==
  /\ timer = "armed" => handler = "alive" /\ socket /\ ioMap
  /\ os = "win32" => \A c \in Threads : cPc[c] # "idle" =>
       handler = "alive" /\ (cPc[c] # "fired" => socket /\ ioMap)

(* When the link object is gone, the timer is not armed, no thread runs    *)
(* and handler and image are freed, however far open() got and whatever    *)
(* has failed since; a timer or a period of it is left only if the system  *)
(* refused something; and what an open() that succeeded took is all given  *)
(* back, if it did not.  The process ends in the destructor only if the    *)
(* link was lost or two calls were refused: the first is swallowed.        *)
Released ==
  /\ ~socket /\ ~sync0 /\ ~ioMap
  /\ timer = "deleted" /\ periods = 0 /\ handler = "freed" /\ thread = "joined"
CleanExit ==
  /\ pc = "gone" =>
       /\ timer # "armed" /\ handler # "alive" /\ ~ioMap /\ thread # "running"
       /\ timer = "created" \/ periods # 0 => fails > 0
       /\ thread = "joined" /\ fails = 0 => Released
  /\ pc = "terminated" => onLost = 1 \/ fails > 1

(* A callback that is handling an error does not start the slaves again    *)
(* behind close(), which has parked them in INIT.                          *)
SlavesParked ==
  os = "win32" /\ pc \in {"release", "gone"} /\ thread = "joined" /\ fails = 0 =>
    \A k \in Slaves : real[k] \in {"NONE", "INIT"}

(* error_handle judges by what it read: it gives the link up exactly when  *)
(* some slave was not OPERATIONAL then, recovered since or not, lost to    *)
(* the acts of another pass or not.                                        *)
JudgedAsRead ==
  (\E c \in Threads : cPc[c] = "walk") =>
    (docheck <=> \E k \in 1 .. at - 1 : read[k] # "OPERATIONAL")

(* The link opens once, and is given up once at most, with one call of     *)
(* on_lost, on however many threads the callbacks run.                     *)
Health == INSTANCE LinkHealth WITH opened <- thread # "none"
LinkIsHealthy == Health!Spec

(* A slave that stays out of OPERATIONAL is noticed: the link is given up. *)
FailureNoticed ==
  \A k \in Slaves :
    isOpen /\ real[k] # "OPERATIONAL" ~> ~isOpen \/ onLost = 1 \/ real[k] = "OPERATIONAL"

(* A link that was given up says so; it does not when that was before      *)
(* open() was done.                                                        *)
LostIsClosed == onLost = 1 => ~isOpen

(* An open() that fails gives back what it took; it does not.              *)
FailedOpenReleases == pc = "gone" /\ thread = "none" => ~socket /\ ~sync0 /\ periods = 0
=============================================================================
