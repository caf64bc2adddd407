------------------------------- MODULE OsTimer -------------------------------
(***************************************************************************)
(* core::Timer for Windows, Linux and macOS: what start, stop and the      *)
(* destructor do with the timer of the operating system and the handler    *)
(* whose callback it calls.  The three differ in what can fail, in what a  *)
(* failure leaves behind, in how many threads the callback may run on, and *)
(* in whether stopping waits for a callback that runs.                     *)
(*                                                                         *)
(* Every action leaves the callbacks inside the handler to the module that *)
(* extends this one.                                                       *)
(***************************************************************************)
EXTENDS Integers

CONSTANTS
  Threads,   \* threads the operating system may run the callback on
  MaxFails   \* bound on the calls of the operating system that fail

VARIABLES
  os,        \* which of the three
  timer,     \* the system's timer: "created" is one that was never armed
  object,    \* the Timer: "stopped" is _is_closed
  periods,   \* timeBeginPeriod calls without their timeEndPeriod
  handler,   \* what the callback works on
  cPc,       \* where the callback on each thread is
  fails      \* calls that failed

timerVars == <<os, timer, object, periods, handler, cPc, fails>>

InitTimer ==
  /\ os \in {"win32", "linux", "macosx"}
  /\ timer = "none" /\ object = "none" /\ handler = "none"
  /\ periods = 0 /\ fails = 0 /\ cPc = [c \in Threads |-> "idle"]

Periods == IF os = "win32" THEN 1 ELSE 0
NoCallback == \A c \in Threads : cPc[c] = "idle"
-----------------------------------------------------------------------------
Start ==
  /\ timer' = "armed" /\ object' = "running" /\ handler' = "alive"
  /\ periods' = periods + Periods
  /\ UNCHANGED <<os, cPc, fails>>

(* timeSetEvent, timer_create or timer_settime fails, start throws and the *)
(* handler goes with its unique_ptr.  timeEndPeriod is not called, nor is  *)
(* timer_delete for a timer that could not be armed.  Nothing is tested,   *)
(* hence nothing fails, on macOS.                                          *)
StartFails ==
  /\ os # "macosx" /\ fails < MaxFails /\ fails' = fails + 1
  /\ handler' = "freed" /\ periods' = periods + Periods
  /\ timer' \in IF os = "linux" THEN {"none", "created"} ELSE {"none"}
  /\ UNCHANGED <<os, object, cPc>>

(* A mutant: _is_closed is not set.                                        *)
BugForgetsClosed ==
  /\ object = "running" /\ timer' = "deleted"
  /\ periods' = periods - Periods
  /\ UNCHANGED <<os, object, handler, cPc, fails>>

(* A mutant: no TIME_KILL_SYNCHRONOUS.                                     *)
BugReturnsAtOnce == TRUE

(* timeKillEvent, timer_delete, dispatch_source_cancel: no new callback... *)
Stop ==
  /\ object = "running"
  /\ timer' = "deleted" /\ object' = "stopped"
  /\ periods' = periods - Periods
  /\ UNCHANGED <<os, handler, cPc, fails>>

(* ... and TIME_KILL_SYNCHRONOUS, alone, waits for one that is running.    *)
StopReturns == os = "win32" => NoCallback

(* stop throws: the period is ended, the timer is not stopped.             *)
StopFails ==
  /\ object = "running" /\ os # "macosx"
  /\ fails < MaxFails /\ fails' = fails + 1
  /\ periods' = periods - Periods
  /\ UNCHANGED <<os, timer, object, handler, cPc>>

(* The callback is called: on macOS in a serial queue, on Windows on the   *)
(* one thread of the multimedia timers, on Linux on a new thread.          *)
Fire(c) ==
  /\ timer = "armed" /\ cPc[c] = "idle"
  /\ os # "linux" => NoCallback
  /\ cPc' = [cPc EXCEPT ![c] = "fired"]
  /\ UNCHANGED <<os, timer, object, periods, handler, fails>>
=============================================================================
