------------------------------ MODULE SOEMLink ------------------------------
(***************************************************************************)
(* SOEMController (soft/client/lib/link/soem/autdsoem.cpp): the thread     *)
(* that calls open, send and close, the send thread that open starts, and  *)
(* the OS timer that runs SOEMCallback::callback every cycle.  They share  *)
(* the ring _send_buf (under _send_mtx), the process image _io_map (under  *)
(* nothing), and the flags _is_open, _sent and _rt_lock.                   *)
(*                                                                         *)
(* A frame is the number of the call of send() that stored it; 0 is the    *)
(* zeroed memory a process image starts with.  A frame has two halves,     *)
(* body and header, because both the memcpy into _io_map and the read of   *)
(* it by ec_send_processdata go through the image in ascending order, body *)
(* before header, while the other may run.                                 *)
(*                                                                         *)
(* A section under _send_mtx is one step when every thing it touches is    *)
(* only touched under the mutex or by the same thread (SendStore); the     *)
(* send thread's section is several steps, since it reads _is_open and     *)
(* writes _io_map, which the others access without the mutex.  _is_open    *)
(* and _send_buf_size are plain variables that are polled without it: they *)
(* are one word each and every polling loop calls a function the compiler  *)
(* cannot see into, so a read returns some value of the variable.          *)
(***************************************************************************)
EXTENDS Integers, Sequences, FiniteSets

CONSTANTS
  SEND_BUF_SIZE,  \* slots of _send_buf
  Callbacks,      \* threads the timer may run the callback on
  MaxFrames,      \* bound on the calls of send()
  MaxFaults,      \* bound on the exchanges with an unexpected working counter
  KillSync        \* does stopping the timer wait for a running callback?

ASSUME LinkAssumption ==
  /\ SEND_BUF_SIZE \in Nat \ {0}
  /\ MaxFrames \in Nat
  /\ MaxFaults \in Nat
  /\ KillSync \in BOOLEAN

VARIABLES
  uPc,       \* where the user's thread is
  sPc,       \* where the send thread is
  cPc,       \* where each callback thread is
  isOpen,    \* _is_open
  sendBuf,   \* _send_buf: the frame in each slot
  cursor,    \* _send_buf_cursor
  size,      \* _send_buf_size
  sent,      \* _sent
  rtLock,    \* _rt_lock
  ioBody,    \* the body part of the outputs in _io_map
  ioHdr,     \* the header part of the outputs in _io_map
  ioAlive,   \* _io_map allocated and the sockets of SOEM open
  txBody,    \* body already read by the running ec_send_processdata
  wire,      \* the outputs of the last exchange, as the devices saw them
  timerOn,   \* the timer is armed
  accepted,  \* number of frames stored by send()
  faults     \* number of exchanges that failed

shared == <<isOpen, sendBuf, cursor, size, accepted>>
image == <<ioBody, ioHdr, ioAlive>>
bus == <<txBody, wire, faults>>
vars == <<uPc, sPc, cPc, shared, sent, rtLock, image, bus, timerOn>>

Slots == 0 .. SEND_BUF_SIZE - 1
FrameNo == 0 .. MaxFrames

UserPcs == {"new", "opening", "idle", "full?", "notify", "drain", "closing",
            "join", "stop_timer", "kill", "closed", "gone", "terminated"}
SenderPcs == {"off", "loop", "locked", "blocking", "waiting", "ready", "copy",
              "clear", "await_sent", "exit", "joined"}
CallbackPcs == {"idle", "fired", "tx", "tx_header", "mark", "rx", "error"}

(* Nothing moves once the link object is destroyed, or the process is.     *)
Alive == uPc \notin {"gone", "terminated"}

(* A mutant: the mutex is not held from the test of the ring to the sleep. *)
BugTestUnlocked == sPc \notin {"locked", "ready", "copy"}

(* The send thread holds _send_mtx at these points.                        *)
MutexFree == sPc \notin {"locked", "blocking", "ready", "copy"}

(* A mutant: the send thread takes the newest frame.                       *)
BugNewest == IF cursor > 0 THEN cursor - 1 ELSE SEND_BUF_SIZE - 1

(* The slot of the oldest frame, as the send thread computes it.           *)
Oldest == IF cursor >= size THEN cursor - size ELSE cursor + SEND_BUF_SIZE - size

(* notify_one on _send_cond, whose only waiter is the send thread.         *)
NotifyOne == sPc' = IF sPc = "waiting" THEN "locked" ELSE sPc

(* The send thread, and the callback on thread c, go on.                   *)
Go(from, to) == Alive /\ sPc = from /\ sPc' = to
Move(c, from, to) == Alive /\ cPc[c] = from /\ cPc' = [cPc EXCEPT ![c] = to]

Init ==
  /\ uPc = "new" /\ sPc = "off" /\ cPc = [c \in Callbacks |-> "idle"]
  /\ isOpen = FALSE /\ rtLock = FALSE /\ timerOn = FALSE
  /\ sendBuf = [i \in Slots |-> 0] /\ cursor = 0 /\ size = 0
  /\ sent \in BOOLEAN                     \* no initialiser in the constructor
  /\ ioBody = 0 /\ ioHdr = 0 /\ ioAlive = FALSE
  /\ txBody = 0 /\ wire = [body |-> 0, hdr |-> 0]
  /\ accepted = 0 /\ faults = 0
-----------------------------------------------------------------------------
(* Mutants: slips that would be easy to make in the actions below, kept to *)
(* see that the properties notice them.                                    *)

(* send() does not wake the send thread.                                   *)
BugNoNotify ==
  /\ uPc = "notify" /\ uPc' = "idle"
  /\ UNCHANGED <<sPc, cPc, shared, sent, rtLock, image, bus, timerOn>>

(* close() releases the image while a callback may run.                    *)
BugTeardownAtOnce ==
  /\ uPc = "kill" /\ uPc' = "closed" /\ ioAlive' = FALSE
  /\ UNCHANGED <<sPc, cPc, shared, sent, rtLock, ioBody, ioHdr, bus, timerOn>>

(* The slot of the frame just copied is not freed.                         *)
BugKeepsSlot ==
  /\ Go("copy", "clear") /\ ioHdr' = sendBuf[Oldest]
  /\ UNCHANGED <<uPc, cPc, shared, sent, rtLock, ioBody, ioAlive, bus, timerOn>>

(* The send thread does not wait for _sent at all.                         *)
BugNoWait ==
  /\ Go("await_sent", "loop")
  /\ UNCHANGED <<uPc, cPc, shared, sent, rtLock, image, bus, timerOn>>

(* A callback that did not get the lock releases it all the same.          *)
BugSkipUnlocks(c) ==
  /\ Move(c, "fired", "idle") /\ rtLock /\ rtLock' = FALSE
  /\ UNCHANGED <<uPc, sPc, shared, sent, image, bus, timerOn>>
-----------------------------------------------------------------------------
(* The user's thread.                                                      *)

(* open(): the image is allocated and zeroed, the bus brought to           *)
(* OPERATIONAL (all with the one thread there is) and the timer started... *)
OpenStartTimer ==
  /\ uPc = "new" /\ uPc' = "opening"
  /\ ioAlive' = TRUE /\ timerOn' = TRUE
  /\ UNCHANGED <<sPc, cPc, shared, sent, rtLock, ioBody, ioHdr, bus>>

(* ... or it throws LinkError: no socket, no or too few slaves.            *)
OpenThrows ==
  /\ uPc = "new" /\ uPc' = "closed"
  /\ UNCHANGED <<sPc, cPc, shared, sent, rtLock, image, bus, timerOn>>

(* ... and only then is _is_open set and the send thread started.          *)
OpenStartThread ==
  /\ uPc = "opening" /\ uPc' = "idle"
  /\ isOpen' = TRUE /\ sPc' = "loop"
  /\ UNCHANGED <<cPc, sendBuf, cursor, size, accepted, sent, rtLock, image, bus, timerOn>>

(* send() looks at _is_open once, on entry.                                *)
SendBegin ==
  /\ uPc = "idle" /\ isOpen /\ accepted < MaxFrames
  /\ uPc' = "full?"
  /\ UNCHANGED <<sPc, cPc, shared, sent, rtLock, image, bus, timerOn>>

(* LinkError("link is closed") leaves the caller; the controller and its   *)
(* link are destroyed, and the close() of the destructor is a no-op.       *)
SendThrows ==
  /\ uPc = "idle" /\ ~isOpen /\ accepted < MaxFrames
  /\ uPc' = "closed"
  /\ UNCHANGED <<sPc, cPc, shared, sent, rtLock, image, bus, timerOn>>

(* It polls until the ring has room, then stores the frame.                *)
SendStore ==
  /\ uPc = "full?" /\ size # SEND_BUF_SIZE /\ MutexFree
  /\ uPc' = "notify"
  /\ sendBuf' = [sendBuf EXCEPT ![cursor] = accepted + 1]
  /\ size' = size + 1
  /\ cursor' = (cursor + 1) % SEND_BUF_SIZE
  /\ accepted' = accepted + 1
  /\ UNCHANGED <<sPc, cPc, isOpen, sent, rtLock, image, bus, timerOn>>

SendNotify ==
  /\ uPc = "notify" /\ uPc' = "idle"
  /\ NotifyOne
  /\ UNCHANGED <<cPc, shared, sent, rtLock, image, bus, timerOn>>

(* close() does nothing on a link that is not open.                        *)
CloseReturnsEarly ==
  /\ uPc = "idle" /\ ~isOpen /\ uPc' = "closed"
  /\ UNCHANGED <<sPc, cPc, shared, sent, rtLock, image, bus, timerOn>>

CloseBegin ==
  /\ uPc = "idle" /\ isOpen /\ uPc' = "drain"
  /\ UNCHANGED <<sPc, cPc, shared, sent, rtLock, image, bus, timerOn>>

(* It polls, without the mutex, until the ring is empty; then _is_open is  *)
(* cleared, without the mutex either.                                      *)
CloseDrained ==
  /\ uPc = "drain" /\ size = 0
  /\ uPc' = "closing" /\ isOpen' = FALSE
  /\ UNCHANGED <<sPc, cPc, sendBuf, cursor, size, accepted, sent, rtLock, image, bus, timerOn>>

CloseNotify ==
  /\ uPc = "closing" /\ uPc' = "join"
  /\ NotifyOne
  /\ UNCHANGED <<cPc, shared, sent, rtLock, image, bus, timerOn>>

CloseJoin ==
  /\ uPc = "join" /\ sPc = "exit"
  /\ uPc' = "stop_timer" /\ sPc' = "joined"
  /\ UNCHANGED <<cPc, shared, sent, rtLock, image, bus, timerOn>>

CloseStopTimer ==
  /\ uPc = "stop_timer" /\ uPc' = "kill"
  /\ timerOn' = FALSE
  /\ UNCHANGED <<sPc, cPc, shared, sent, rtLock, image, bus>>

(* ec_close() and _io_map = nullptr; with TIME_KILL_SYNCHRONOUS stopping   *)
(* the timer has waited for the callback, otherwise one may still run.     *)
CloseTeardown ==
  /\ uPc = "kill"
  /\ KillSync => \A c \in Callbacks : cPc[c] = "idle"
  /\ uPc' = "closed" /\ ioAlive' = FALSE
  /\ UNCHANGED <<sPc, cPc, shared, sent, rtLock, ioBody, ioHdr, bus, timerOn>>

(* ~SOEMController: close() again (early return), then the members go; the *)
(* timer stops itself, a std::thread that is still joinable terminates.    *)
Destroy ==
  /\ uPc = "closed"
  /\ uPc' = IF sPc \in {"off", "joined"} THEN "gone" ELSE "terminated"
  /\ timerOn' = FALSE
  /\ UNCHANGED <<sPc, cPc, shared, sent, rtLock, image, bus>>
-----------------------------------------------------------------------------
(* The send thread.                                                        *)

(* while (_is_open): lock the mutex, or leave.                             *)
SenderLoop ==
  /\ Go("loop", IF isOpen THEN "locked" ELSE "exit")
  /\ UNCHANGED <<uPc, cPc, shared, sent, rtLock, image, bus, timerOn>>

(* The test before, and the predicate of, _send_cond.wait.                 *)
SenderTest ==
  /\ Go("locked", IF size = 0 /\ isOpen THEN "blocking" ELSE "ready")
  /\ UNCHANGED <<uPc, cPc, shared, sent, rtLock, image, bus, timerOn>>

(* The wait proper: release the mutex and sleep, atomically.               *)
SenderBlock ==
  /\ Go("blocking", "waiting")
  /\ UNCHANGED <<uPc, cPc, shared, sent, rtLock, image, bus, timerOn>>

SpuriousWakeup ==
  /\ Go("waiting", "locked")
  /\ UNCHANGED <<uPc, cPc, shared, sent, rtLock, image, bus, timerOn>>

SenderReturns ==
  /\ Go("ready", "exit") /\ ~isOpen
  /\ UNCHANGED <<uPc, cPc, shared, sent, rtLock, image, bus, timerOn>>

(* memcpy of the oldest frame into the image, first half...                *)
SenderCopyBody ==
  /\ Go("ready", "copy") /\ isOpen
  /\ ioBody' = sendBuf[Oldest]
  /\ UNCHANGED <<uPc, cPc, shared, sent, rtLock, ioHdr, ioAlive, bus, timerOn>>

(* ... and second half; the slot is free and the mutex released.           *)
SenderCopyHeader ==
  /\ Go("copy", "clear")
  /\ ioHdr' = sendBuf[Oldest]
  /\ size' = size - 1
  /\ UNCHANGED <<uPc, cPc, isOpen, sendBuf, cursor, accepted, sent, rtLock,
                 ioBody, ioAlive, bus, timerOn>>

SenderClearSent ==
  /\ Go("clear", "await_sent")
  /\ sent' = FALSE
  /\ UNCHANGED <<uPc, cPc, shared, rtLock, image, bus, timerOn>>

SenderSeesSent ==
  /\ Go("await_sent", "loop") /\ (~isOpen \/ sent)
  /\ UNCHANGED <<uPc, cPc, shared, sent, rtLock, image, bus, timerOn>>
-----------------------------------------------------------------------------
(* SOEMCallback::callback on thread c of the timer.                        *)

TimerFires(c) ==
  /\ timerOn /\ Move(c, "idle", "fired")
  /\ UNCHANGED <<uPc, sPc, shared, sent, rtLock, image, bus, timerOn>>

(* The compare_exchange on _rt_lock; a spurious failure of the weak form   *)
(* is a callback that finds the lock taken, hence a timer that fires late. *)
CallbackLock(c) ==
  /\ Move(c, "fired", "tx")
  /\ ~rtLock /\ rtLock' = TRUE
  /\ UNCHANGED <<uPc, sPc, shared, sent, image, bus, timerOn>>

CallbackSkips(c) ==
  /\ Move(c, "fired", "idle") /\ rtLock
  /\ UNCHANGED <<uPc, sPc, shared, sent, rtLock, image, bus, timerOn>>

(* ec_send_processdata reads the image into the frame on the wire.         *)
CallbackTxBody(c) ==
  /\ Move(c, "tx", "tx_header")
  /\ txBody' = ioBody
  /\ UNCHANGED <<uPc, sPc, shared, sent, rtLock, image, wire, faults, timerOn>>

CallbackTxHeader(c) ==
  /\ Move(c, "tx_header", "mark")
  /\ wire' = [body |-> txBody, hdr |-> ioHdr]
  /\ UNCHANGED <<uPc, sPc, shared, sent, rtLock, image, txBody, faults, timerOn>>

CallbackMarkSent(c) ==
  /\ Move(c, "mark", "rx")
  /\ sent' = TRUE
  /\ UNCHANGED <<uPc, sPc, shared, rtLock, image, bus, timerOn>>

(* ec_receive_processdata: the working counter is the expected one...      *)
CallbackRxOk(c) ==
  /\ Move(c, "rx", "idle")
  /\ rtLock' = FALSE
  /\ UNCHANGED <<uPc, sPc, shared, sent, image, bus, timerOn>>

(* ... or it is not, and error_handle looks at the slaves.                 *)
CallbackRxBad(c) ==
  /\ Move(c, "rx", "error")
  /\ faults < MaxFaults /\ faults' = faults + 1
  /\ UNCHANGED <<uPc, sPc, shared, sent, rtLock, image, txBody, wire, timerOn>>

(* error_handle finds every slave OPERATIONAL and returns true.            *)
SlavesOperational(c) ==
  /\ Move(c, "error", "idle")
  /\ rtLock' = FALSE
  /\ UNCHANGED <<uPc, sPc, shared, sent, image, bus, timerOn>>

(* Some slave was not: the link is lost.  The condition variable is not    *)
(* notified, and the callback returns with _rt_lock still set.             *)
LinkLost(c) ==
  /\ Move(c, "error", "idle")
  /\ isOpen' = FALSE
  /\ UNCHANGED <<uPc, sPc, sendBuf, cursor, size, accepted, sent, rtLock, image, bus, timerOn>>
-----------------------------------------------------------------------------
(* What the user's thread does once it is inside a call.                   *)
UserContinues ==
  \/ OpenStartThread \/ SendStore \/ SendNotify \/ CloseDrained \/ CloseNotify
  \/ CloseJoin \/ CloseStopTimer \/ CloseTeardown

User ==
  \/ UserContinues
  \/ OpenStartTimer \/ OpenThrows \/ SendBegin \/ SendThrows
  \/ CloseReturnsEarly \/ CloseBegin \/ Destroy

SenderStep ==
  \/ SenderLoop \/ SenderTest \/ SenderBlock \/ SenderReturns \/ SenderCopyBody
  \/ SenderCopyHeader \/ SenderClearSent \/ SenderSeesSent

Callback(c) ==
  \/ TimerFires(c) \/ CallbackLock(c) \/ CallbackSkips(c) \/ CallbackTxBody(c)
  \/ CallbackTxHeader(c) \/ CallbackMarkSent(c) \/ CallbackRxOk(c)
  \/ CallbackRxBad(c) \/ SlavesOperational(c) \/ LinkLost(c)

Next == User \/ SenderStep \/ SpuriousWakeup \/ \E c \in Callbacks : Callback(c)

Spec == Init /\ [][Next]_vars

(* The operating system runs every thread that can run, the timer keeps    *)
(* firing, and a thread that wants the mutex is not passed over for ever.  *)
(* The user need not make another call, and nothing promises that a        *)
(* condition variable wakes up spuriously.                                 *)
Fairness ==
  /\ WF_vars(UserContinues) /\ SF_vars(SendStore)
  /\ WF_vars(SenderStep)
  /\ \A c \in Callbacks : WF_vars(Callback(c))

FairSpec == Spec /\ Fairness
-----------------------------------------------------------------------------
(* Type invariant.                                                         *)
TypeOK ==
  /\ uPc \in UserPcs /\ sPc \in SenderPcs /\ cPc \in [Callbacks -> CallbackPcs]
  /\ isOpen \in BOOLEAN /\ sent \in BOOLEAN /\ rtLock \in BOOLEAN
  /\ timerOn \in BOOLEAN /\ ioAlive \in BOOLEAN
  /\ sendBuf \in [Slots -> FrameNo] /\ cursor \in Slots /\ size \in 0 .. SEND_BUF_SIZE
  /\ ioBody \in FrameNo /\ ioHdr \in FrameNo /\ txBody \in FrameNo
  /\ wire \in [body : FrameNo, hdr : FrameNo]
  /\ accepted \in FrameNo /\ faults \in 0 .. MaxFaults

(* The frames in the ring, oldest first.                                   *)
SlotOf(k) == IF cursor - size + k >= 0 THEN cursor - size + k
                                       ELSE cursor - size + k + SEND_BUF_SIZE
Queue == [i \in 1 .. size |-> sendBuf[SlotOf(i - 1)]]

(* The ring with its cursor that wraps and its index computed backwards    *)
(* from it, the copy and the transmission without a lock in common, and    *)
(* the handshake over _sent implement a link that queues, takes and        *)
(* carries frames: none is lost, doubled or overtaken on its way into the  *)
(* image; the race on _sent lets one image go by unseen, never two; and    *)
(* the body an exchange finds is the image's, or that of the frame before  *)
(* in its first exchange, or that of the next in the queue.                *)
Link == INSTANCE FrameLink
          WITH Capacity <- SEND_BUF_SIZE, Frames <- 1 .. MaxFrames, Skips <- 1,
               queue <- Queue, image <- ioHdr, before <- IF ioHdr = 0 THEN 0 ELSE ioHdr - 1,
               unseen <- ioHdr - wire.hdr
IsFrameLink == Link!Spec

(* _rt_lock admits one callback at a time to the bus, however many threads *)
(* the timer has started and whatever the callbacks before it met.         *)
InExchange(c) == cPc[c] \notin {"idle", "fired"}
OneExchange ==
  \A c \in Callbacks : InExchange(c) =>
    rtLock /\ \A d \in Callbacks : InExchange(d) => d = c

(* The devices never see an older header after a newer one, and the race   *)
(* on _sent never hides two frames in a row from them: the header moves on *)
(* by at most two frames from one exchange to the next.                    *)
WireMovesOn == [][wire'.hdr \in wire.hdr .. wire.hdr + 2]_wire

(* A frame torn by the unguarded memcpy mixes two consecutive frames only. *)
TornByOne == wire.body \in wire.hdr - 1 .. wire.hdr + 1

(* No wakeup for a frame is lost: when the send thread sleeps although the *)
(* ring holds a frame, the notification for it is still to come.           *)
WakeupPending == sPc = "waiting" /\ size # 0 => uPc = "notify"

(* Nobody touches the process image or the sockets before they are there   *)
(* or after close() has released them.                                     *)
ImageAlive ==
  /\ \A c \in Callbacks : InExchange(c) => ioAlive
  /\ sPc \notin {"off", "exit", "joined"} => ioAlive

(* Past its drain loop, close() has left no accepted frame in the ring,    *)
(* whatever the link went through meanwhile.                               *)
CloseDrains ==
  uPc \in {"closing", "join", "stop_timer", "kill"} => ioHdr = accepted

(* The link was given up: the callback that did so has left with the lock. *)
Lost == rtLock /\ \A c \in Callbacks : ~InExchange(c)

(* A frame accepted by send() gets to the bus, or a newer one does, as     *)
(* long as the link stays open; an exchange that fails does not hinder it  *)
(* unless the link is given up for it.                                     *)
FramesProgress ==
  \A f \in 1 .. MaxFrames : accepted >= f ~> (wire.hdr >= f \/ ~isOpen \/ Lost)

(* send() comes back: its wait for room in the ring ends...                *)
SendReturns == uPc = "full?" ~> (uPc # "full?" \/ Lost)

(* ... though not when the link is lost meanwhile.                         *)
SendAlwaysReturns == uPc = "full?" ~> uPc # "full?"

(* close() comes back.                                                     *)
CloseReturns == uPc = "drain" ~> uPc = "closed"

(* A frame in the process image is replaced only once it was on the bus.   *)
SentBeforeReplaced ==
  [][ioBody' # ioBody => wire = [body |-> ioBody, hdr |-> ioHdr]]_ioBody

(* Every frame has been on the bus when close() has stopped the threads.   *)
SentBeforeClosed == uPc \in {"stop_timer", "kill"} => wire.hdr = accepted

(* After close() has returned the link can be destroyed.                   *)
ClosedIsReleased == uPc = "closed" => sPc \in {"off", "joined"}
=============================================================================
