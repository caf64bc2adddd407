-------------------------- MODULE SOEMLink_proofs --------------------------
(***************************************************************************)
(* Proofs about SOEMLink, for rings of any size, any number of callback    *)
(* threads, frames and failed exchanges.                                   *)
(***************************************************************************)
EXTENDS SOEMLink, SequenceTheorems, TLAPS

(* Who writes what: the ring is the user's and the send thread's, the      *)
(* outputs in the image the send thread's, the bus the callbacks'.         *)
LEMMA Writers ==
  ASSUME [Next]_vars
  PROVE  /\ SendStore \/ SenderCopyHeader \/ UNCHANGED <<sendBuf, cursor, size, accepted>>
         /\ SenderCopyBody \/ SenderCopyHeader \/ UNCHANGED <<ioBody, ioHdr>>
         /\ (\E c \in Callbacks : CallbackTxBody(c)) \/ UNCHANGED txBody
         /\ (\E c \in Callbacks : CallbackTxHeader(c)) \/ UNCHANGED wire
         /\ (\E c \in Callbacks : CallbackRxBad(c)) \/ UNCHANGED faults
<1> USE DEF shared, image, bus
<1>1. CASE User
  BY <1>1 DEF User, UserContinues, OpenStartThread, SendNotify, CloseDrained,
     CloseNotify, CloseJoin, CloseStopTimer, CloseTeardown, OpenStartTimer, OpenThrows,
     SendBegin, SendThrows, CloseReturnsEarly, CloseBegin, Destroy, SendStore
<1>2. CASE SenderStep \/ SpuriousWakeup
  BY <1>2 DEF SenderStep, SenderLoop, SenderTest, SenderBlock, SenderReturns,
     SenderCopyBody, SenderCopyHeader, SenderClearSent, SenderSeesSent, SpuriousWakeup
<1>3. CASE \E c \in Callbacks : Callback(c)
  BY <1>3 DEF Callback, TimerFires, CallbackLock, CallbackSkips, CallbackTxBody, CallbackTxHeader,
     CallbackMarkSent, CallbackRxOk, CallbackRxBad, SlavesOperational, LinkLost
<1>4. CASE UNCHANGED vars
  BY <1>4 DEF vars
<1> QED BY <1>1, <1>2, <1>3, <1>4 DEF Next

-----------------------------------------------------------------------------
(* Types, and where the threads are with respect to one another.           *)

(* The cursor goes round: the successor of the last slot is the first.     *)
LEMMA CursorWraps ==
  ASSUME NEW c \in Slots
  PROVE  (c + 1) % SEND_BUF_SIZE = IF c + 1 = SEND_BUF_SIZE THEN 0 ELSE c + 1
BY LinkAssumption DEF Slots

(* Which phases of the threads exclude one another, and what the send      *)
(* thread may rely on once it has looked at the ring.                      *)
Lifecycle ==
  /\ uPc \in {"new", "opening"} => sPc = "off" /\ ~isOpen
  /\ uPc \in {"idle", "full?", "notify", "drain", "closing", "join"} => sPc \notin {"off", "joined"}
  /\ uPc \in {"stop_timer", "kill"} => sPc = "joined"
  /\ uPc \in {"closing", "join", "stop_timer", "kill"} => ~isOpen /\ size = 0
  /\ uPc = "full?" => accepted < MaxFrames
  /\ sPc = "off" => accepted = 0
  /\ sPc = "copy" => size # 0
  /\ sPc = "ready" /\ isOpen => size # 0

Inv1 == TypeOK /\ Lifecycle

LEMMA InitInv1 == Init => Inv1
<1> SUFFICES ASSUME Init PROVE Inv1
  OBVIOUS
<1>1. isOpen \in BOOLEAN /\ sent \in BOOLEAN /\ rtLock \in BOOLEAN /\ timerOn \in BOOLEAN /\ ioAlive \in BOOLEAN
  BY DEF Init
<1>2. uPc \in UserPcs /\ sPc \in SenderPcs /\ cPc \in [Callbacks -> CallbackPcs]
  BY DEF Init, UserPcs, SenderPcs, CallbackPcs
<1>3. sendBuf \in [Slots -> FrameNo] /\ cursor \in Slots /\ size \in 0 .. SEND_BUF_SIZE
  BY LinkAssumption DEF Init, Slots, FrameNo
<1>4. /\ ioBody \in FrameNo /\ ioHdr \in FrameNo /\ txBody \in FrameNo
      /\ wire \in [body : FrameNo, hdr : FrameNo]
      /\ accepted \in FrameNo /\ faults \in 0 .. MaxFaults
  BY LinkAssumption DEF Init, FrameNo
<1>5. Lifecycle
  BY DEF Init, Lifecycle
<1> QED BY <1>1, <1>2, <1>3, <1>4, <1>5 DEF Inv1, TypeOK

(* What storing a frame does to the ring...                                *)
LEMMA StoreRing ==
  ASSUME Inv1, SendStore
  PROVE  /\ cursor \in Slots /\ size \in 0 .. SEND_BUF_SIZE - 1 /\ accepted \in FrameNo
         /\ cursor' = IF cursor + 1 = SEND_BUF_SIZE THEN 0 ELSE cursor + 1
         /\ cursor' \in Slots
         /\ size' = size + 1 /\ size' \in 1 .. SEND_BUF_SIZE
         /\ accepted' = accepted + 1 /\ accepted' \in FrameNo
         /\ sendBuf' \in [Slots -> FrameNo]
         /\ sendBuf' = [sendBuf EXCEPT ![cursor] = accepted + 1]
<1>1. cursor \in Slots /\ size \in 0 .. SEND_BUF_SIZE /\ accepted \in FrameNo /\ accepted < MaxFrames
  BY DEF Inv1, TypeOK, Lifecycle, SendStore
<1>2. /\ size # SEND_BUF_SIZE /\ size' = size + 1 /\ accepted' = accepted + 1
      /\ sendBuf' = [sendBuf EXCEPT ![cursor] = accepted + 1]
  BY DEF SendStore
<1>3. cursor' = IF cursor + 1 = SEND_BUF_SIZE THEN 0 ELSE cursor + 1
  BY <1>1, CursorWraps DEF SendStore
<1>4. cursor' \in Slots
  BY <1>1, <1>3, LinkAssumption DEF Slots
<1>5. size \in 0 .. SEND_BUF_SIZE - 1 /\ size' \in 1 .. SEND_BUF_SIZE
  BY <1>1, <1>2, LinkAssumption
<1>6. accepted' \in FrameNo /\ accepted + 1 \in FrameNo
  BY <1>1, <1>2, LinkAssumption DEF FrameNo
<1>7. sendBuf' \in [Slots -> FrameNo]
  BY <1>1, <1>2, <1>6 DEF Inv1, TypeOK
<1> QED BY <1>1, <1>2, <1>3, <1>4, <1>5, <1>6, <1>7

(* ... and what taking one does.                                           *)
LEMMA TakeRing ==
  ASSUME Inv1, SenderCopyHeader
  PROVE  /\ Oldest \in Slots
         /\ size \in 1 .. SEND_BUF_SIZE /\ size' = size - 1 /\ size' \in 0 .. SEND_BUF_SIZE
         /\ ioHdr' = sendBuf[Oldest] /\ ioHdr' \in FrameNo
         /\ UNCHANGED <<sendBuf, cursor, accepted, ioBody>>
<1>1. sPc = "copy" /\ size # 0 /\ size \in 0 .. SEND_BUF_SIZE /\ cursor \in Slots
  BY DEF Inv1, TypeOK, Lifecycle, SenderCopyHeader, Go
<1>2. /\ size' = size - 1 /\ ioHdr' = sendBuf[Oldest]
      /\ UNCHANGED <<sendBuf, cursor, accepted, ioBody>>
  BY DEF SenderCopyHeader
<1>3. Oldest \in Slots
  BY <1>1, LinkAssumption DEF Oldest, Slots
<1>4. size \in 1 .. SEND_BUF_SIZE /\ size' \in 0 .. SEND_BUF_SIZE
  BY <1>1, <1>2, LinkAssumption
<1>5. ioHdr' \in FrameNo
  BY <1>2, <1>3 DEF Inv1, TypeOK
<1> QED BY <1>2, <1>3, <1>4, <1>5

LEMMA CopyImage ==
  ASSUME Inv1, SenderCopyBody
  PROVE  /\ Oldest \in Slots /\ size \in 1 .. SEND_BUF_SIZE
         /\ ioBody' = sendBuf[Oldest] /\ ioBody' \in FrameNo
         /\ UNCHANGED <<sendBuf, cursor, size, accepted, ioHdr>>
<1>1. size # 0 /\ size \in 0 .. SEND_BUF_SIZE /\ cursor \in Slots
  BY DEF Inv1, TypeOK, Lifecycle, SenderCopyBody, Go
<1>2. ioBody' = sendBuf[Oldest] /\ UNCHANGED <<sendBuf, cursor, size, accepted, ioHdr>>
  BY DEF SenderCopyBody, shared
<1>3. Oldest \in Slots /\ size \in 1 .. SEND_BUF_SIZE
  BY <1>1, LinkAssumption DEF Oldest, Slots
<1>4. ioBody' \in FrameNo
  BY <1>2, <1>3 DEF Inv1, TypeOK
<1> QED BY <1>2, <1>3, <1>4

LEMMA NextTypeOK == Inv1 /\ [Next]_vars => TypeOK'
<1> SUFFICES ASSUME Inv1, [Next]_vars PROVE TypeOK'
  OBVIOUS
<1>1. uPc' \in UserPcs /\ sPc' \in SenderPcs /\ cPc' \in [Callbacks -> CallbackPcs]
  <2> USE DEF Inv1, TypeOK, UserPcs, SenderPcs, CallbackPcs, shared, image, bus, Go, Move, NotifyOne
  <2>1. CASE User
    BY <2>1 DEF User, UserContinues, OpenStartThread, SendStore, SendNotify,
       CloseDrained, CloseNotify, CloseJoin, CloseStopTimer, CloseTeardown,
       OpenStartTimer, OpenThrows, SendBegin, SendThrows, CloseReturnsEarly,
       CloseBegin, Destroy
  <2>2. CASE SenderStep \/ SpuriousWakeup
    BY <2>2 DEF SenderStep, SenderLoop, SenderTest, SenderBlock,
       SenderReturns, SenderCopyBody, SenderCopyHeader, SenderClearSent,
       SenderSeesSent, SpuriousWakeup
  <2>3. CASE \E c \in Callbacks : Callback(c)
    BY <2>3 DEF Callback, TimerFires, CallbackLock, CallbackSkips,
       CallbackTxBody, CallbackTxHeader, CallbackMarkSent, CallbackRxOk,
       CallbackRxBad, SlavesOperational, LinkLost
  <2>4. CASE UNCHANGED vars
    BY <2>4 DEF vars
  <2> QED BY <2>1, <2>2, <2>3, <2>4 DEF Next
<1>2. isOpen' \in BOOLEAN /\ sent' \in BOOLEAN /\ rtLock' \in BOOLEAN /\ timerOn' \in BOOLEAN /\ ioAlive' \in BOOLEAN
  <2> USE DEF Inv1, TypeOK, shared, image, bus
  <2>1. CASE User
    BY <2>1 DEF User, UserContinues, OpenStartThread, SendStore, SendNotify,
       CloseDrained, CloseNotify, CloseJoin, CloseStopTimer, CloseTeardown,
       OpenStartTimer, OpenThrows, SendBegin, SendThrows, CloseReturnsEarly,
       CloseBegin, Destroy
  <2>2. CASE SenderStep \/ SpuriousWakeup
    BY <2>2 DEF SenderStep, SenderLoop, SenderTest, SenderBlock,
       SenderReturns, SenderCopyBody, SenderCopyHeader, SenderClearSent,
       SenderSeesSent, SpuriousWakeup
  <2>3. CASE \E c \in Callbacks : Callback(c)
    BY <2>3 DEF Callback, TimerFires, CallbackLock, CallbackSkips,
       CallbackTxBody, CallbackTxHeader, CallbackMarkSent, CallbackRxOk,
       CallbackRxBad, SlavesOperational, LinkLost
  <2>4. CASE UNCHANGED vars
    BY <2>4 DEF vars
  <2> QED BY <2>1, <2>2, <2>3, <2>4 DEF Next
<1>3. sendBuf' \in [Slots -> FrameNo] /\ cursor' \in Slots /\ size' \in 0 .. SEND_BUF_SIZE /\ accepted' \in FrameNo
  <2>1. CASE SendStore BY <2>1, StoreRing, LinkAssumption
  <2>2. CASE SenderCopyHeader BY <2>2, TakeRing DEF Inv1, TypeOK
  <2>3. CASE UNCHANGED <<sendBuf, cursor, size, accepted>> BY <2>3 DEF Inv1, TypeOK
  <2> QED BY <2>1, <2>2, <2>3, Writers
<1>4. ioBody' \in FrameNo /\ ioHdr' \in FrameNo
  BY Writers, CopyImage, TakeRing DEF Inv1, TypeOK
<1>5. txBody' \in FrameNo /\ wire' \in [body : FrameNo, hdr : FrameNo] /\ faults' \in 0 .. MaxFaults
  <2>1. txBody' \in FrameNo
    BY Writers DEF CallbackTxBody, Inv1, TypeOK
  <2>2. wire' \in [body : FrameNo, hdr : FrameNo]
    <3>1. txBody \in FrameNo /\ ioHdr \in FrameNo /\ wire \in [body : FrameNo, hdr : FrameNo]
      BY DEF Inv1, TypeOK
    <3>2. wire' = [body |-> txBody, hdr |-> ioHdr] \/ wire' = wire
      BY Writers DEF CallbackTxHeader
    <3> QED BY <3>1, <3>2
  <2>3. faults' \in 0 .. MaxFaults
    BY Writers, LinkAssumption DEF CallbackRxBad, Inv1, TypeOK
  <2> QED BY <2>1, <2>2, <2>3
<1> QED BY <1>1, <1>2, <1>3, <1>4, <1>5 DEF TypeOK

LEMMA NextLifecycle == Inv1 /\ [Next]_vars => Lifecycle'
<1> SUFFICES ASSUME Inv1, [Next]_vars PROVE Lifecycle'
  OBVIOUS
<1>0. Lifecycle
  BY DEF Inv1
<1> USE <1>0 DEF Lifecycle, shared, image, bus, Alive, Go, Move, NotifyOne
<1>1. CASE UserContinues
  <2>1. CASE SendStore
    <3>1. sPc \notin {"off", "joined", "copy", "ready"} /\ uPc' = "notify" /\ UNCHANGED <<sPc, isOpen>>
      BY <2>1 DEF SendStore, MutexFree
    <3> QED BY <3>1
  <2>2. CASE OpenStartThread BY <2>2 DEF OpenStartThread
  <2>3. CASE SendNotify BY <2>3 DEF SendNotify
  <2>4. CASE CloseDrained BY <2>4 DEF CloseDrained
  <2>5. CASE CloseNotify BY <2>5 DEF CloseNotify
  <2>6. CASE CloseJoin BY <2>6 DEF CloseJoin
  <2>7. CASE CloseStopTimer BY <2>7 DEF CloseStopTimer
  <2>8. CASE CloseTeardown BY <2>8 DEF CloseTeardown
  <2> QED BY <1>1, <2>1, <2>2, <2>3, <2>4, <2>5, <2>6, <2>7, <2>8 DEF UserContinues
<1>2. CASE User /\ ~UserContinues
  <2>1. CASE OpenStartTimer BY <2>1 DEF OpenStartTimer
  <2>2. CASE OpenThrows BY <2>2 DEF OpenThrows
  <2>3. CASE SendBegin BY <2>3 DEF SendBegin
  <2>4. CASE SendThrows BY <2>4 DEF SendThrows
  <2>5. CASE CloseReturnsEarly BY <2>5 DEF CloseReturnsEarly
  <2>6. CASE CloseBegin BY <2>6 DEF CloseBegin
  <2>7. CASE Destroy BY <2>7 DEF Destroy
  <2> QED BY <1>2, <2>1, <2>2, <2>3, <2>4, <2>5, <2>6, <2>7 DEF User
<1>3. CASE SenderStep \/ SpuriousWakeup
  <2>1. CASE SenderCopyHeader
    <3>1. sPc = "copy" /\ sPc' = "clear" /\ UNCHANGED <<uPc, isOpen, accepted>>
      BY <2>1 DEF SenderCopyHeader
    <3> QED BY <3>1
  <2>2. CASE SenderLoop BY <2>2 DEF SenderLoop
  <2>3. CASE SenderTest BY <2>3 DEF SenderTest
  <2>4. CASE SenderBlock BY <2>4 DEF SenderBlock
  <2>5. CASE SenderReturns BY <2>5 DEF SenderReturns
  <2>6. CASE SenderCopyBody BY <2>6 DEF SenderCopyBody
  <2>7. CASE SenderClearSent BY <2>7 DEF SenderClearSent
  <2>8. CASE SenderSeesSent BY <2>8 DEF SenderSeesSent
  <2>9. CASE SpuriousWakeup BY <2>9 DEF SpuriousWakeup
  <2> QED BY <1>3, <2>1, <2>2, <2>3, <2>4, <2>5, <2>6, <2>7, <2>8, <2>9 DEF SenderStep
<1>4. CASE \E c \in Callbacks : Callback(c)
  <2>1. UNCHANGED <<uPc, sPc, size, accepted>> /\ (UNCHANGED isOpen \/ isOpen' = FALSE)
    BY <1>4 DEF Callback, TimerFires, CallbackLock, CallbackSkips, CallbackTxBody, CallbackTxHeader,
       CallbackMarkSent, CallbackRxOk, CallbackRxBad, SlavesOperational, LinkLost
  <2>2. CASE isOpen' = FALSE BY <2>1, <2>2
  <2>3. CASE UNCHANGED isOpen BY <2>1, <2>3
  <2> QED BY <2>1, <2>2, <2>3
<1>5. CASE UNCHANGED vars
  BY <1>5 DEF vars
<1> QED BY <1>1, <1>2, <1>3, <1>4, <1>5 DEF Next, User

LEMMA Inv1Holds == Spec => []Inv1
<1>1. Inv1 /\ [Next]_vars => Inv1'
  BY NextTypeOK, NextLifecycle DEF Inv1
<1> QED BY InitInv1, <1>1, PTL DEF Spec

(* Every variable keeps its type: in particular the cursor stays a slot,   *)
(* the count between an empty and a full ring, whatever the interleaving   *)
(* of send() and the send thread.                                          *)
THEOREM TypeCorrect == Spec => []TypeOK
BY Inv1Holds, PTL DEF Inv1
-----------------------------------------------------------------------------
(* _rt_lock.                                                               *)

LEMMA NextOneExchange == Inv1 /\ OneExchange /\ [Next]_vars => OneExchange'
<1> SUFFICES ASSUME Inv1, OneExchange, [Next]_vars PROVE OneExchange'
  OBVIOUS
<1>0. cPc \in [Callbacks -> CallbackPcs]
  BY DEF Inv1, TypeOK
<1>1. ASSUME NEW c \in Callbacks, Callback(c) PROVE OneExchange'
  <2> USE <1>0 DEF OneExchange, InExchange, Move
  <2>1. CASE TimerFires(c) BY <2>1 DEF TimerFires
  <2>2. CASE CallbackLock(c) BY <2>2 DEF CallbackLock
  <2>3. CASE CallbackSkips(c) BY <2>3 DEF CallbackSkips
  <2>4. CASE CallbackTxBody(c) BY <2>4 DEF CallbackTxBody
  <2>5. CASE CallbackTxHeader(c) BY <2>5 DEF CallbackTxHeader
  <2>6. CASE CallbackMarkSent(c) BY <2>6 DEF CallbackMarkSent
  <2>7. CASE CallbackRxOk(c) BY <2>7 DEF CallbackRxOk
  <2>8. CASE CallbackRxBad(c) BY <2>8 DEF CallbackRxBad
  <2>9. CASE SlavesOperational(c) BY <2>9 DEF SlavesOperational
  <2>10. CASE LinkLost(c) BY <2>10 DEF LinkLost
  <2> QED BY <1>1, <2>1, <2>2, <2>3, <2>4, <2>5, <2>6, <2>7, <2>8, <2>9, <2>10 DEF Callback
<1>2. CASE UNCHANGED <<cPc, rtLock>>
  BY <1>2 DEF OneExchange, InExchange
<1>3. (\E c \in Callbacks : Callback(c)) \/ UNCHANGED <<cPc, rtLock>>
  BY DEF Next, vars, User, UserContinues, OpenStartThread, SendStore, SendNotify, CloseDrained,
     CloseNotify, CloseJoin, CloseStopTimer, CloseTeardown, OpenStartTimer, OpenThrows,
     SendBegin, SendThrows, CloseReturnsEarly, CloseBegin, Destroy,
     SenderStep, SenderLoop, SenderTest, SenderBlock, SenderReturns,
     SenderCopyBody, SenderCopyHeader, SenderClearSent, SenderSeesSent, SpuriousWakeup
<1> QED BY <1>1, <1>2, <1>3

(* However many threads the timer runs, and whichever exchanges fail, one  *)
(* callback at a time is between the compare_exchange on _rt_lock and its  *)
(* release.                                                                *)
THEOREM ExchangesExclude == Spec => []OneExchange
<1>1. Init => OneExchange
  BY DEF Init, OneExchange, InExchange
<1> QED BY <1>1, NextOneExchange, Inv1Holds, PTL DEF Spec
-----------------------------------------------------------------------------
(* The ring.                                                               *)

(* The ring holds the last size frames accepted, the oldest first, and the *)
(* image the one before them; a memcpy in progress has copied the body of  *)
(* the oldest frame already.                                               *)
RingInv ==
  /\ ioHdr = accepted - size
  /\ \A k \in 0 .. size - 1 : sendBuf[SlotOf(k)] = accepted - size + k + 1
  /\ ioBody = IF sPc = "copy" THEN ioHdr + 1 ELSE ioHdr

LEMMA InitRingInv == Init => RingInv
BY DEF Init, RingInv

LEMMA CopyPhase ==
  ASSUME Inv1, [Next]_vars
  PROVE  \/ SenderCopyBody
         \/ SenderCopyHeader
         \/ UNCHANGED <<ioBody, ioHdr>> /\ (sPc' = "copy" <=> sPc = "copy")
<1> USE DEF image, Go, NotifyOne
<1>0. uPc = "opening" => sPc = "off"
  BY DEF Inv1, Lifecycle
<1>1. CASE User
  BY <1>0, <1>1 DEF User, UserContinues, OpenStartThread, SendNotify, CloseDrained,
     CloseNotify, CloseJoin, CloseStopTimer, CloseTeardown, OpenStartTimer, OpenThrows,
     SendBegin, SendThrows, CloseReturnsEarly, CloseBegin, Destroy, SendStore
<1>2. CASE SenderStep \/ SpuriousWakeup
  BY <1>2 DEF SenderStep, SenderLoop, SenderTest, SenderBlock, SenderReturns,
     SenderClearSent, SenderSeesSent, SpuriousWakeup
<1>3. CASE \E c \in Callbacks : Callback(c)
  BY <1>3 DEF Callback, TimerFires, CallbackLock, CallbackSkips, CallbackTxBody, CallbackTxHeader,
     CallbackMarkSent, CallbackRxOk, CallbackRxBad, SlavesOperational, LinkLost
<1>4. CASE UNCHANGED vars
  BY <1>4 DEF vars
<1> QED BY <1>1, <1>2, <1>3, <1>4 DEF Next

(* The send thread's index is the slot of the oldest frame.                *)
LEMMA OldestFrame ==
  ASSUME Inv1, RingInv, size # 0
  PROVE  Oldest = SlotOf(0) /\ sendBuf[Oldest] = ioHdr + 1
<1>1. cursor \in Slots /\ size \in 0 .. SEND_BUF_SIZE /\ accepted \in FrameNo
  BY DEF Inv1, TypeOK
<1>2. Oldest = SlotOf(0)
  BY <1>1, LinkAssumption DEF Oldest, SlotOf, Slots
<1>3. sendBuf[SlotOf(0)] = accepted - size + 0 + 1
  BY <1>1, LinkAssumption DEF RingInv
<1> QED BY <1>1, <1>2, <1>3, LinkAssumption DEF RingInv, FrameNo

(* A frame is stored behind the others...                                  *)
LEMMA StoreSlots ==
  ASSUME Inv1, SendStore
  PROVE  /\ \A k \in 0 .. size - 1 : SlotOf(k)' = SlotOf(k) /\ SlotOf(k) # cursor /\ SlotOf(k) \in Slots
         /\ \A k : k = size => SlotOf(k)' = cursor
<1>1. /\ cursor \in Slots /\ size \in 0 .. SEND_BUF_SIZE - 1 /\ size' = size + 1
      /\ cursor' = IF cursor + 1 = SEND_BUF_SIZE THEN 0 ELSE cursor + 1
  BY StoreRing
<1>2. ASSUME NEW k \in 0 .. size - 1
      PROVE  SlotOf(k)' = SlotOf(k) /\ SlotOf(k) # cursor /\ SlotOf(k) \in Slots
  BY <1>1, LinkAssumption DEF SlotOf, Slots
<1>3. ASSUME NEW k, k = size
      PROVE  SlotOf(k)' = cursor
  BY <1>1, <1>3, LinkAssumption DEF SlotOf, Slots
<1> QED BY <1>2, <1>3

(* ... and taking the oldest one moves the others to the front.            *)
LEMMA TakeSlots ==
  ASSUME Inv1, SenderCopyHeader
  PROVE  \A k \in 0 .. size' - 1 : SlotOf(k)' = SlotOf(k + 1)
<1>1. cursor \in Slots /\ cursor' = cursor /\ size \in 1 .. SEND_BUF_SIZE /\ size' = size - 1
  BY TakeRing DEF Inv1, TypeOK
<1> QED BY <1>1, LinkAssumption DEF SlotOf, Slots

LEMMA NextRingInv == Inv1 /\ RingInv /\ [Next]_vars => RingInv'
<1> SUFFICES ASSUME Inv1, RingInv, [Next]_vars PROVE RingInv'
  OBVIOUS
<1>0. /\ accepted \in FrameNo /\ size \in 0 .. SEND_BUF_SIZE /\ sendBuf \in [Slots -> FrameNo]
      /\ ioHdr \in FrameNo /\ ioBody \in FrameNo
  BY DEF Inv1, TypeOK
<1>1. CASE SendStore
  <2>1. /\ size' = size + 1 /\ accepted' = accepted + 1
        /\ sendBuf' = [sendBuf EXCEPT ![cursor] = accepted + 1] /\ cursor \in Slots
    BY <1>1, StoreRing
  <2>2. UNCHANGED <<ioHdr, ioBody, sPc>>
    BY <1>1 DEF SendStore, image
  <2>3. ASSUME NEW k \in 0 .. size' - 1
        PROVE  sendBuf'[SlotOf(k)'] = accepted' - size' + k + 1
    <3>1. CASE k = size
      <4>1. SlotOf(k)' = cursor BY <1>1, <3>1, StoreSlots
      <4>2. sendBuf'[cursor] = accepted + 1 BY <2>1, <1>0
      <4> QED BY <4>1, <4>2, <3>1, <2>1, <1>0, LinkAssumption DEF FrameNo
    <3>2. CASE k # size
      <4>1. k \in 0 .. size - 1 BY <3>2, <2>1, <1>0, LinkAssumption
      <4>2. SlotOf(k)' = SlotOf(k) /\ SlotOf(k) # cursor /\ SlotOf(k) \in Slots BY <4>1, <1>1, StoreSlots
      <4>3. sendBuf'[SlotOf(k)] = sendBuf[SlotOf(k)] BY <4>2, <2>1, <1>0
      <4>4. sendBuf[SlotOf(k)] = accepted - size + k + 1 BY <4>1 DEF RingInv
      <4> QED BY <4>1, <4>2, <4>3, <4>4, <2>1, <1>0, LinkAssumption DEF FrameNo
    <3> QED BY <3>1, <3>2
  <2>4. ioHdr' = accepted' - size'
    BY <2>1, <2>2, <1>0, LinkAssumption DEF RingInv, FrameNo
  <2> QED BY <2>2, <2>3, <2>4 DEF RingInv
<1>2. CASE SenderCopyHeader
  <2>1. /\ size \in 1 .. SEND_BUF_SIZE /\ size' = size - 1 /\ ioHdr' = sendBuf[Oldest]
        /\ UNCHANGED <<sendBuf, cursor, accepted, ioBody>>
    BY <1>2, TakeRing
  <2>2. sPc = "copy" /\ sPc' = "clear"
    BY <1>2 DEF SenderCopyHeader, Go
  <2>3. ioHdr' = ioHdr + 1
    BY <2>1, OldestFrame
  <2>4. ASSUME NEW k \in 0 .. size' - 1
        PROVE  sendBuf'[SlotOf(k)'] = accepted' - size' + k + 1
    <3>1. SlotOf(k)' = SlotOf(k + 1) /\ k + 1 \in 0 .. size - 1
      BY <1>2, <2>1, TakeSlots, LinkAssumption
    <3>2. sendBuf[SlotOf(k + 1)] = accepted - size + (k + 1) + 1
      BY <3>1 DEF RingInv
    <3> QED BY <3>1, <3>2, <2>1, <1>0, LinkAssumption DEF FrameNo
  <2>5. ioHdr' = accepted' - size'
    BY <2>1, <2>3, <1>0, LinkAssumption DEF RingInv, FrameNo
  <2>6. ioBody' = ioHdr'
    BY <2>1, <2>2, <2>3 DEF RingInv
  <2> QED BY <2>2, <2>4, <2>5, <2>6 DEF RingInv
<1>3. CASE SenderCopyBody
  <2>1. ioBody' = sendBuf[Oldest] /\ size \in 1 .. SEND_BUF_SIZE
        /\ UNCHANGED <<sendBuf, cursor, size, accepted, ioHdr>>
    BY <1>3, CopyImage
  <2>2. sPc' = "copy"
    BY <1>3 DEF SenderCopyBody, Go
  <2>3. ioBody' = ioHdr' + 1
    BY <2>1, OldestFrame
  <2>4. \A k : SlotOf(k)' = SlotOf(k)
    BY <2>1 DEF SlotOf
  <2> QED BY <2>1, <2>2, <2>3, <2>4 DEF RingInv
<1>4. CASE /\ UNCHANGED <<sendBuf, cursor, size, accepted, ioBody, ioHdr>>
           /\ sPc' = "copy" <=> sPc = "copy"
  BY <1>4 DEF RingInv, SlotOf
<1> QED BY <1>1, <1>2, <1>3, <1>4, Writers, CopyPhase

Inv2 == Inv1 /\ RingInv

LEMMA Inv2Holds == Spec => []Inv2
<1>1. Init => Inv2
  BY InitInv1, InitRingInv DEF Inv2
<1>2. Inv2 /\ [Next]_vars => Inv2'
  BY NextTypeOK, NextLifecycle, NextRingInv DEF Inv2, Inv1
<1> QED BY <1>1, <1>2, PTL DEF Spec

(* Whatever close() ran into, past its drain loop the last frame that      *)
(* send() accepted is the one in the process image: none is left behind.   *)
THEOREM NothingLeftInRing == Spec => []CloseDrains
<1>1. ASSUME Inv2 PROVE size = 0 => ioHdr = accepted
  BY <1>1, LinkAssumption DEF Inv2, Inv1, TypeOK, RingInv, FrameNo
<1>2. ASSUME Inv2, uPc \in {"closing", "join", "stop_timer", "kill"} PROVE size = 0
  BY <1>2 DEF Inv2, Inv1, Lifecycle
<1>3. Inv2 => CloseDrains
  BY <1>1, <1>2 DEF CloseDrains
<1> QED BY <1>3, Inv2Holds, PTL

(* The ring as a sequence: the numbers of the frames waiting in it.        *)
QueueIs ==
  /\ Queue \in Seq(1 .. MaxFrames)
  /\ Len(Queue) = size
  /\ \A i \in 1 .. size : Queue[i] = accepted - size + i

LEMMA QueueFrames == Inv2 => QueueIs
<1> SUFFICES ASSUME Inv2 PROVE QueueIs
  OBVIOUS
<1>1. /\ size \in Nat /\ accepted \in FrameNo /\ accepted - size \in Nat
      /\ accepted \in 0 .. MaxFrames
  BY LinkAssumption DEF Inv2, Inv1, TypeOK, RingInv, FrameNo
<1>2. ASSUME NEW i \in 1 .. size
      PROVE  sendBuf[SlotOf(i - 1)] = accepted - size + i /\ accepted - size + i \in 1 .. MaxFrames
  <2>1. i - 1 \in 0 .. size - 1
    BY <1>1
  <2>2. sendBuf[SlotOf(i - 1)] = accepted - size + (i - 1) + 1
    BY <2>1 DEF Inv2, RingInv
  <2> QED BY <1>1, <2>2, LinkAssumption
<1>3. Queue \in [1 .. size -> 1 .. MaxFrames] /\ \A i \in 1 .. size : Queue[i] = accepted - size + i
  BY <1>2 DEF Queue
<1>4. Queue \in Seq(1 .. MaxFrames)
  BY <1>1, <1>3, SeqDef
<1>5. Len(Queue) = size
  BY <1>1, <1>3, <1>4, LenProperties
<1> QED BY <1>3, <1>4, <1>5 DEF QueueIs

-----------------------------------------------------------------------------
(* The handshake over _sent: how far the image may be ahead of the bus.    *)

(* The send thread cannot copy another frame before a callback has stored  *)
(* true to _sent (or it will not copy any more).                           *)
Stuck ==
  \/ sPc \in {"clear", "exit", "joined"}
  \/ sPc = "await_sent" /\ ~sent
  \/ sPc = "loop" /\ ~isOpen

(* Between the transmission and the store to _sent that stands for it the  *)
(* send thread can pass one frame on, and one more on that store.          *)
Handshake ==
  /\ \A c \in Callbacks : cPc[c] = "tx_header" =>
       \/ txBody = ioHdr + 1 /\ sPc = "copy"
       \/ txBody = ioHdr
       \/ ioHdr = txBody + 1 /\ Stuck
  /\ \A c \in Callbacks : cPc[c] = "mark" =>
       wire.hdr = ioHdr \/ (ioHdr = wire.hdr + 1 /\ Stuck)
  /\ wire.hdr = ioHdr \/ ioHdr = wire.hdr + 1 \/ (ioHdr = wire.hdr + 2 /\ Stuck)
  /\ TornByOne

(* Between its two reads a callback has not shown a later header than the  *)
(* body it has read.                                                       *)
SeenFirst == \A c \in Callbacks : cPc[c] = "tx_header" => wire.hdr <= txBody

Inv3 == Inv2 /\ OneExchange /\ Handshake /\ SeenFirst

LEMMA InitHandshake == Init => Handshake
<1> SUFFICES ASSUME Init PROVE Handshake
  OBVIOUS
<1>1. \A c \in Callbacks : cPc[c] = "idle"
  BY DEF Init
<1>2. wire.hdr = 0 /\ wire.body = 0 /\ ioHdr = 0
  BY DEF Init
<1>3. TornByOne
  BY <1>2 DEF TornByOne
<1> QED BY <1>1, <1>2, <1>3 DEF Handshake

(* Only the store of true to _sent lets the send thread go on.             *)
LEMMA StuckStays ==
  ASSUME Inv1, Stuck, [Next]_vars
  PROVE  Stuck' \/ \E c \in Callbacks : CallbackMarkSent(c)
<1>0. /\ uPc = "opening" => sPc = "off"
      /\ uPc = "join" => sPc # "joined"
  BY DEF Inv1, Lifecycle
<1> USE DEF Stuck, Go, NotifyOne, shared
<1>1. CASE User
  BY <1>0, <1>1 DEF User, UserContinues, OpenStartThread, SendNotify, CloseDrained,
     CloseNotify, CloseJoin, CloseStopTimer, CloseTeardown, OpenStartTimer, OpenThrows,
     SendBegin, SendThrows, CloseReturnsEarly, CloseBegin, Destroy, SendStore
<1>2. CASE SenderStep \/ SpuriousWakeup
  BY <1>2 DEF SenderStep, SenderLoop, SenderTest, SenderBlock, SenderReturns,
     SenderCopyBody, SenderCopyHeader, SenderClearSent, SenderSeesSent, SpuriousWakeup
<1>3. CASE \E c \in Callbacks : Callback(c)
  BY <1>3 DEF Callback, TimerFires, CallbackLock, CallbackSkips, CallbackTxBody, CallbackTxHeader,
     CallbackRxOk, CallbackRxBad, SlavesOperational, LinkLost
<1>4. CASE UNCHANGED vars
  BY <1>4 DEF vars
<1> QED BY <1>1, <1>2, <1>3, <1>4 DEF Next

(* How a callback gets between the reads of body and header, and between   *)
(* the transmission and the store to _sent.                                *)
LEMMA CallbackPhase ==
  ASSUME Inv1, [Next]_vars, NEW c \in Callbacks
  PROVE  /\ cPc'[c] = "tx_header" => cPc[c] = "tx_header" \/ CallbackTxBody(c)
         /\ cPc'[c] = "mark" => cPc[c] = "mark" \/ CallbackTxHeader(c)
<1>0. cPc \in [Callbacks -> CallbackPcs]
  BY DEF Inv1, TypeOK
<1>1. ASSUME NEW d \in Callbacks, Callback(d)
      PROVE  /\ cPc'[c] = "tx_header" => cPc[c] = "tx_header" \/ CallbackTxBody(c)
             /\ cPc'[c] = "mark" => cPc[c] = "mark" \/ CallbackTxHeader(c)
  <2>1. CASE CallbackTxBody(d) BY <1>0, <2>1 DEF CallbackTxBody, Move
  <2>2. CASE CallbackTxHeader(d) BY <1>0, <2>2 DEF CallbackTxHeader, Move
  <2>3. CASE ~CallbackTxBody(d) /\ ~CallbackTxHeader(d)
    BY <1>0, <1>1, <2>3 DEF Callback, TimerFires, CallbackLock, CallbackSkips,
       CallbackMarkSent, CallbackRxOk, CallbackRxBad, SlavesOperational, LinkLost, Move
  <2> QED BY <2>1, <2>2, <2>3
<1>2. (\E d \in Callbacks : Callback(d)) \/ UNCHANGED cPc
  BY DEF Next, vars, User, UserContinues, OpenStartThread, SendStore, SendNotify, CloseDrained,
     CloseNotify, CloseJoin, CloseStopTimer, CloseTeardown, OpenStartTimer, OpenThrows,
     SendBegin, SendThrows, CloseReturnsEarly, CloseBegin, Destroy,
     SenderStep, SenderLoop, SenderTest, SenderBlock, SenderReturns,
     SenderCopyBody, SenderCopyHeader, SenderClearSent, SenderSeesSent, SpuriousWakeup
<1> QED BY <1>1, <1>2

LEMMA NextHandshake == Inv3 /\ [Next]_vars => Handshake'
<1> SUFFICES ASSUME Inv3, [Next]_vars PROVE Handshake'
  OBVIOUS
<1>0. /\ Inv1 /\ RingInv /\ OneExchange /\ Handshake
      /\ cPc \in [Callbacks -> CallbackPcs]
  BY DEF Inv3, Inv2, Inv1, TypeOK
<1>a. /\ ioHdr \in Nat /\ txBody \in Nat /\ wire.hdr \in Nat /\ wire.body \in Nat
      /\ ioBody = IF sPc = "copy" THEN ioHdr + 1 ELSE ioHdr
  BY <1>0, LinkAssumption DEF Inv1, TypeOK, RingInv, FrameNo
<1>1. CASE SenderCopyHeader
  <2>1. ioHdr' = ioHdr + 1 /\ Stuck' /\ UNCHANGED <<cPc, txBody, wire>> /\ ~Stuck
    <3>1. size # 0 /\ sPc = "copy" /\ ioHdr' = sendBuf[Oldest] /\ sPc' = "clear"
          /\ UNCHANGED <<cPc, txBody, wire>>
      BY <1>0, <1>1 DEF SenderCopyHeader, Go, bus, Inv1, Lifecycle
    <3> QED BY <3>1, <1>0, OldestFrame DEF Stuck
  <2>2. \A c \in Callbacks : cPc'[c] = "tx_header" =>
          txBody' = ioHdr' \/ (ioHdr' = txBody' + 1 /\ Stuck')
    BY <2>1, <1>0 DEF Handshake
  <2>3. \A c \in Callbacks : cPc'[c] = "mark" => ioHdr' = wire'.hdr + 1 /\ Stuck'
    BY <2>1, <1>0 DEF Handshake
  <2>4. ioHdr' = wire'.hdr + 1 \/ (ioHdr' = wire'.hdr + 2 /\ Stuck')
    <3>1. wire.hdr = ioHdr \/ ioHdr = wire.hdr + 1
      BY <2>1, <1>0 DEF Handshake
    <3> QED BY <3>1, <2>1, <1>a
  <2>5. TornByOne'
    BY <2>1, <1>0 DEF Handshake, TornByOne
  <2> QED BY <2>2, <2>3, <2>4, <2>5 DEF Handshake
<1>2. ASSUME NEW c \in Callbacks, CallbackTxBody(c) PROVE Handshake'
  <2>1. /\ txBody' = ioBody /\ cPc[c] = "tx" /\ cPc' = [cPc EXCEPT ![c] = "tx_header"]
        /\ UNCHANGED <<sPc, sent, isOpen, ioHdr, wire>>
    BY <1>2 DEF CallbackTxBody, Move, shared, image
  <2>2. Stuck' <=> Stuck
    BY <2>1 DEF Stuck
  <2>3. \A d \in Callbacks : cPc'[d] = "mark" => cPc[d] = "mark"
    BY <2>1, <1>0
  <2> QED BY <2>1, <2>2, <2>3, <1>0, <1>a DEF Handshake, TornByOne
<1>3. ASSUME NEW c \in Callbacks, CallbackTxHeader(c) PROVE Handshake'
  <2>1. /\ wire' = [body |-> txBody, hdr |-> ioHdr] /\ cPc[c] = "tx_header"
        /\ cPc' = [cPc EXCEPT ![c] = "mark"] /\ UNCHANGED <<ioHdr, txBody, sPc, sent, isOpen>>
    BY <1>3 DEF CallbackTxHeader, Move, shared, image
  <2>2. \A d \in Callbacks : cPc'[d] # "tx_header"
    BY <2>1, <1>0 DEF OneExchange, InExchange
  <2>3. wire'.hdr = ioHdr' /\ wire'.body = txBody
    BY <2>1
  <2>4. txBody \in ioHdr - 1 .. ioHdr + 1
    <3>1. txBody = ioHdr + 1 \/ txBody = ioHdr \/ ioHdr = txBody + 1
      BY <2>1, <1>0 DEF Handshake
    <3> QED BY <3>1, <1>a
  <2>5. TornByOne'
    BY <2>1, <2>3, <2>4, <1>a DEF TornByOne
  <2> QED BY <2>2, <2>3, <2>5 DEF Handshake
<1>4. ASSUME NEW c \in Callbacks, CallbackMarkSent(c) PROVE Handshake'
  <2>1. /\ cPc[c] = "mark" /\ cPc' = [cPc EXCEPT ![c] = "rx"] /\ UNCHANGED <<ioHdr, txBody, wire>>
    BY <1>4 DEF CallbackMarkSent, Move, image, bus
  <2>2. \A d \in Callbacks : cPc'[d] \notin {"tx_header", "mark"}
    BY <2>1, <1>0 DEF OneExchange, InExchange
  <2>3. wire.hdr = ioHdr \/ ioHdr = wire.hdr + 1
    BY <2>1, <1>0 DEF Handshake
  <2> QED BY <2>1, <2>2, <2>3, <1>0 DEF Handshake, TornByOne
<1>5. CASE /\ ~SenderCopyHeader
           /\ ~\E c \in Callbacks : CallbackTxBody(c) \/ CallbackTxHeader(c) \/ CallbackMarkSent(c)
  <2>1. UNCHANGED <<ioHdr, txBody, wire>>
    BY <1>5, Writers DEF SenderCopyBody
  <2>2. sPc = "copy" => sPc' = "copy"
    BY <1>0, <1>5, CopyPhase DEF SenderCopyBody, Go
  <2>3. Stuck => Stuck'
    BY <1>0, <1>5, StuckStays
  <2>4. \A c \in Callbacks : /\ cPc'[c] = "tx_header" => cPc[c] = "tx_header"
                             /\ cPc'[c] = "mark" => cPc[c] = "mark"
    BY <1>0, <1>5, CallbackPhase
  <2> QED BY <2>1, <2>2, <2>3, <2>4, <1>0 DEF Handshake, TornByOne
<1> QED BY <1>1, <1>2, <1>3, <1>4, <1>5

LEMMA Numbers ==
  ASSUME Inv1
  PROVE  /\ ioHdr \in Nat /\ txBody \in Nat /\ wire.hdr \in Nat
         /\ size \in Nat /\ accepted \in Nat
BY LinkAssumption DEF Inv1, TypeOK, FrameNo

LEMMA NextSeenFirst == Inv3 /\ [Next]_vars => SeenFirst'
<1> SUFFICES ASSUME Inv3, [Next]_vars, NEW c \in Callbacks, cPc'[c] = "tx_header"
             PROVE  wire'.hdr <= txBody'
  BY DEF SeenFirst
<1>0. /\ Inv1 /\ RingInv /\ OneExchange /\ Handshake /\ SeenFirst
      /\ cPc \in [Callbacks -> CallbackPcs]
  BY DEF Inv3, Inv2, Inv1, TypeOK
<1>1. ioHdr \in Nat /\ wire.hdr \in Nat
  BY <1>0, Numbers
<1>2. CASE CallbackTxBody(c)
  <2>1. txBody' = ioBody /\ wire' = wire
    BY <1>2 DEF CallbackTxBody
  <2>2. ioBody = ioHdr \/ ioBody = ioHdr + 1
    BY <1>0 DEF RingInv
  <2>3. wire.hdr = ioHdr \/ ioHdr = wire.hdr + 1 \/ ioHdr = wire.hdr + 2
    BY <1>0 DEF Handshake
  <2> QED
    BY <1>1, <2>1, <2>2, <2>3
<1>3. CASE cPc[c] = "tx_header"
  <2>1. ASSUME NEW d \in Callbacks, CallbackTxBody(d) \/ CallbackTxHeader(d) PROVE FALSE
    <3>1. d = c
      BY <2>1, <1>0, <1>3 DEF OneExchange, InExchange, CallbackTxBody, CallbackTxHeader, Move
    <3> QED
      BY <2>1, <3>1, <1>0, <1>3 DEF CallbackTxBody, CallbackTxHeader, Move
  <2>2. UNCHANGED <<txBody, wire>>
    BY <2>1, Writers
  <2> QED
    BY <2>2, <1>0, <1>3 DEF SeenFirst
<1> QED
  BY <1>0, <1>2, <1>3, CallbackPhase

LEMMA Inv3Holds == Spec => []Inv3
<1>1. Init => OneExchange /\ Handshake /\ SeenFirst
  BY InitHandshake DEF Init, OneExchange, InExchange, SeenFirst
<1>2. Inv3 /\ Inv2' /\ [Next]_vars => Inv3'
  BY NextOneExchange, NextHandshake, NextSeenFirst DEF Inv3, Inv2
<1> QED BY <1>1, <1>2, Inv2Holds, PTL DEF Spec, Inv3

(* An exchange that reads the image while the memcpy writes it mixes two   *)
(* frames that follow one another, never frames further apart.             *)
THEOREM TornByOneAtMost == Spec => []TornByOne
BY Inv3Holds, PTL DEF Inv3, Handshake

(* The devices never see an older frame again, and the store to _sent that *)
(* comes late hides at most one frame from them.                           *)
THEOREM BusMovesOn == Spec => WireMovesOn
<1>1. Inv3 /\ [Next]_vars => [wire'.hdr \in wire.hdr .. wire.hdr + 2]_wire
  <2> SUFFICES ASSUME Inv3, NEW c \in Callbacks, CallbackTxHeader(c)
               PROVE  wire'.hdr \in wire.hdr .. wire.hdr + 2
    BY Writers
  <2>1. wire'.hdr = ioHdr
    BY DEF CallbackTxHeader
  <2>2. wire.hdr \in Nat
    BY LinkAssumption DEF Inv3, Inv2, Inv1, TypeOK, FrameNo
  <2>3. wire.hdr = ioHdr \/ ioHdr = wire.hdr + 1 \/ ioHdr = wire.hdr + 2
    BY DEF Inv3, Handshake
  <2> QED BY <2>1, <2>2, <2>3
<1> QED BY <1>1, Inv3Holds, PTL DEF Spec, WireMovesOn

-----------------------------------------------------------------------------
(* The link as those above it see it.                                      *)

(* Storing a frame puts it into the queue of the link...                   *)
LEMMA PutStep == Inv2 /\ Inv2' /\ SendStore => Link!Put
<1> SUFFICES ASSUME Inv2, Inv2', SendStore PROVE Link!Put
  OBVIOUS
<1>1. QueueIs /\ QueueIs'
  <2>1. Inv2' => QueueIs'
    BY QueueFrames, PTL
  <2> QED BY <2>1, QueueFrames
<1>2. /\ size \in 0 .. SEND_BUF_SIZE - 1 /\ size' = size + 1 /\ accepted' = accepted + 1
      /\ accepted \in FrameNo /\ accepted' \in FrameNo
  BY StoreRing DEF Inv2
<1>3. UNCHANGED <<ioHdr, wire>>
  BY DEF SendStore, image, bus
<1>4. accepted + 1 \in 1 .. MaxFrames
  BY <1>2, LinkAssumption DEF FrameNo
<1>5. Queue' = Append(Queue, accepted + 1)
  <2> DEFINE q == Append(Queue, accepted + 1)
  <2>1. /\ q \in Seq(1 .. MaxFrames) /\ Len(q) = size + 1
        /\ \A i \in 1 .. size : q[i] = Queue[i]
        /\ q[size + 1] = accepted + 1
    BY <1>1, <1>4, AppendProperties DEF QueueIs
  <2> HIDE DEF q
  <2>2. ASSUME NEW i \in 1 .. size + 1 PROVE q[i] = accepted - size + i
    <3>1. CASE i = size + 1
      BY <3>1, <2>1, <1>2, LinkAssumption DEF FrameNo
    <3>2. CASE i \in 1 .. size
      BY <3>2, <2>1, <1>1 DEF QueueIs
    <3> QED BY <3>1, <3>2, <1>2, LinkAssumption
  <2>3. \A i \in 1 .. size + 1 : Queue'[i] = accepted - size + i
    BY <1>1, <1>2, LinkAssumption DEF QueueIs, FrameNo
  <2>4. Queue' = q
    BY <2>1, <2>2, <2>3, <1>1, <1>2, SeqEqual DEF QueueIs
  <2> QED BY <2>4 DEF q
<1>6. Len(Queue) < SEND_BUF_SIZE
  BY <1>1, <1>2, LinkAssumption DEF QueueIs
<1> QED BY <1>3, <1>4, <1>5, <1>6 DEF Link!Put

(* ... and what the send thread has before it while it copies the body of  *)
(* a frame, and then its header, is the head of that queue, and one image  *)
(* at most has not been seen.                                              *)
LEMMA MayCopy ==
  ASSUME Inv3, sPc = "copy"
  PROVE  Link!MayTake /\ Head(Queue) = ioHdr + 1
<1>0. Inv1 /\ Inv2 /\ RingInv /\ Lifecycle /\ Handshake
  BY DEF Inv3, Inv2, Inv1
<1>1. /\ QueueIs /\ size # 0 /\ size \in Nat /\ accepted \in Nat /\ ioHdr = accepted - size
      /\ ioHdr \in Nat /\ wire.hdr \in Nat
  BY <1>0, QueueFrames, Numbers DEF Lifecycle, RingInv
<1>2. 1 \in 1 .. size
  BY <1>1
<1>3. Queue # << >> /\ Head(Queue) = Queue[1] /\ Queue[1] = accepted - size + 1
  BY <1>1, <1>2, EmptySeq DEF QueueIs
<1>4. ~Stuck
  BY DEF Stuck
<1>5. ioHdr - wire.hdr <= 1
  <2>1. wire.hdr = ioHdr \/ ioHdr = wire.hdr + 1
    BY <1>0, <1>4 DEF Handshake
  <2> QED BY <2>1, <1>1
<1> QED
  BY <1>1, <1>3, <1>5 DEF Link!MayTake

LEMMA TakeStep == Inv3 /\ Inv2' /\ SenderCopyHeader => Link!Take
<1> SUFFICES ASSUME Inv3, Inv2', SenderCopyHeader PROVE Link!Take
  OBVIOUS
<1>0. Inv2 /\ sPc = "copy" /\ wire' = wire
  BY DEF Inv3, SenderCopyHeader, Go, bus
<1>1. QueueIs /\ QueueIs'
  <2>1. Inv2' => QueueIs'
    BY QueueFrames, PTL
  <2> QED BY <1>0, <2>1, QueueFrames
<1>2. /\ size \in 1 .. SEND_BUF_SIZE /\ size' = size - 1 /\ UNCHANGED accepted
      /\ accepted \in FrameNo /\ ioHdr' = ioHdr + 1 /\ ioHdr = accepted - size
  <2>1. /\ size \in 1 .. SEND_BUF_SIZE /\ size' = size - 1 /\ UNCHANGED accepted
        /\ ioHdr' = sendBuf[Oldest]
    BY <1>0, TakeRing DEF Inv2
  <2>2. size # 0
    BY <2>1, LinkAssumption
  <2>3. accepted \in FrameNo /\ ioHdr = accepted - size
    BY <1>0 DEF Inv2, Inv1, TypeOK, RingInv
  <2> QED BY <1>0, <2>1, <2>2, <2>3, OldestFrame DEF Inv2
<1>3. Queue # << >>
  BY <1>1, <1>2, LinkAssumption, EmptySeq DEF QueueIs
<1>4. Head(Queue) = ioHdr' /\ Link!MayTake
  BY <1>0, <1>2, MayCopy
<1>5. Queue' = Tail(Queue)
  <2> DEFINE t == Tail(Queue)
  <2>1. t \in Seq(1 .. MaxFrames) /\ Len(t) = size - 1 /\ \A i \in 1 .. size - 1 : t[i] = Queue[i + 1]
    BY <1>1, <1>3, HeadTailProperties DEF QueueIs
  <2>2. \A i \in 1 .. size - 1 : t[i] = accepted - size + (i + 1)
    BY <2>1, <1>1, <1>2, LinkAssumption DEF QueueIs
  <2>3. \A i \in 1 .. size - 1 : Queue'[i] = accepted - size + (i + 1)
    BY <1>1, <1>2, LinkAssumption DEF QueueIs, FrameNo
  <2> HIDE DEF t
  <2>4. Queue' = t
    BY <2>1, <2>2, <2>3, <1>1, <1>2, SeqEqual DEF QueueIs
  <2> QED BY <2>4 DEF t
<1>6. ioHdr \in Nat /\ wire.hdr \in Nat
  BY <1>0, LinkAssumption DEF Inv2, Inv1, TypeOK, FrameNo
<1>7. /\ ioHdr' # 0 /\ ioHdr' - 1 = ioHdr
      /\ ioHdr' - wire'.hdr = ioHdr - wire.hdr + 1
  BY <1>0, <1>2, <1>6
<1> QED BY <1>0, <1>4, <1>5, <1>7 DEF Link!Take

(* An exchange reads the header of the image, and of the bodies the link   *)
(* allows for one.                                                         *)
LEMMA ExchangeStep ==
  ASSUME Inv3, NEW c \in Callbacks, CallbackTxHeader(c)
  PROVE  Link!Exchange
<1>1. /\ cPc[c] = "tx_header" /\ wire' = [body |-> txBody, hdr |-> ioHdr]
      /\ UNCHANGED <<ioHdr, sendBuf, cursor, size, accepted>>
  BY DEF CallbackTxHeader, Move, image, shared
<1>2. ioHdr \in Nat /\ txBody \in Nat /\ wire.hdr \in Nat
  BY LinkAssumption DEF Inv3, Inv2, Inv1, TypeOK, FrameNo
<1>3. txBody \in Link!Bodies
  <2>1. CASE txBody = ioHdr + 1 /\ sPc = "copy"
    BY <2>1, MayCopy DEF Link!Bodies
  <2>2. CASE txBody = ioHdr
    BY <2>2 DEF Link!Bodies
  <2>3. CASE ioHdr = txBody + 1
    <3>1. wire.hdr <= txBody
      BY <1>1 DEF Inv3, SeenFirst
    <3>2. ioHdr # 0 /\ ioHdr - 1 = txBody /\ ioHdr - wire.hdr > 0
      BY <1>2, <2>3, <3>1
    <3> QED
      BY <3>2 DEF Link!Bodies
  <2> QED
    BY <1>1, <2>1, <2>2, <2>3 DEF Inv3, Handshake
<1>4. Queue' = Queue
  BY <1>1 DEF Queue, SlotOf
<1>5. ioHdr' - wire'.hdr = 0
  <2>1. wire'.hdr = ioHdr /\ ioHdr' = ioHdr
    BY <1>1
  <2> QED BY <2>1, <1>2
<1> QED
  BY <1>1, <1>3, <1>4, <1>5 DEF Link!Exchange

(* Ring, image, handshake and transmission implement the link: for every   *)
(* size of the ring and any number of callback threads, frames are taken   *)
(* in the order of send(), none is lost in the ring, one image at most     *)
(* goes by unseen, and a torn frame has the body of a neighbour that has   *)
(* not been carried yet or is about to be taken.                           *)
THEOREM ImplementsFrameLink == Spec => IsFrameLink
<1>1. Init => Link!Init
  <2> SUFFICES ASSUME Init PROVE Link!Init
    OBVIOUS
  <2>1. QueueIs /\ size = 0 /\ ioHdr = 0 /\ wire = [body |-> 0, hdr |-> 0]
    BY InitInv1, InitRingInv, QueueFrames DEF Inv2, Init
  <2>2. Queue = << >>
    BY <2>1, EmptySeq DEF QueueIs
  <2> QED BY <2>1, <2>2 DEF Link!Init
<1>2. Inv3 /\ Inv2' /\ [Next]_vars => [Link!Next]_Link!vars
  <2> SUFFICES ASSUME Inv3, Inv2', [Next]_vars PROVE [Link!Next]_Link!vars
    OBVIOUS
  <2>1. CASE SendStore
    BY <2>1, PutStep DEF Link!Next, Inv3
  <2>2. CASE SenderCopyHeader
    BY <2>2, TakeStep DEF Link!Next
  <2>3. CASE \E c \in Callbacks : CallbackTxHeader(c)
    BY <2>3, ExchangeStep DEF Link!Next
  <2>4. CASE UNCHANGED <<sendBuf, cursor, size, accepted, ioHdr, wire>>
    BY <2>4 DEF Queue, SlotOf, Link!vars
  <2>5. SenderCopyBody => UNCHANGED <<sendBuf, cursor, size, accepted, ioHdr>>
    BY DEF SenderCopyBody, shared
  <2> QED BY <2>1, <2>2, <2>3, <2>4, <2>5, Writers
<1>3. Inv3 => Inv2
  BY DEF Inv3
<1> QED BY <1>1, <1>2, <1>3, Inv3Holds, PTL DEF Spec, IsFrameLink, Link!Spec

-----------------------------------------------------------------------------
(* The notification for a frame.                                           *)

(* From its test of the ring until it sleeps the send thread holds the     *)
(* mutex: nothing can be stored in between.                                *)
WakeupInv ==
  /\ sPc = "blocking" => size = 0
  /\ WakeupPending

LEMMA NextWakeupInv ==
  ASSUME Inv1, WakeupInv, [Next]_vars
  PROVE  WakeupInv'
<1>0. Lifecycle /\ size \in Nat
  BY LinkAssumption DEF Inv1, TypeOK
<1> USE <1>0 DEF WakeupInv, WakeupPending, shared, Go, NotifyOne
<1>1. CASE UserContinues
  <2>1. CASE SendStore
    <3>1. sPc # "blocking" /\ uPc' = "notify" /\ sPc' = sPc
      BY <2>1 DEF SendStore, MutexFree
    <3> QED BY <3>1
  <2>2. CASE OpenStartThread BY <2>2 DEF OpenStartThread
  <2>3. CASE SendNotify BY <2>3 DEF SendNotify
  <2>4. CASE CloseDrained BY <2>4 DEF CloseDrained
  <2>5. CASE CloseNotify BY <2>5 DEF CloseNotify
  <2>6. CASE CloseJoin BY <2>6 DEF CloseJoin
  <2>7. CASE CloseStopTimer BY <2>7 DEF CloseStopTimer
  <2>8. CASE CloseTeardown BY <2>8 DEF CloseTeardown
  <2> QED BY <1>1, <2>1, <2>2, <2>3, <2>4, <2>5, <2>6, <2>7, <2>8 DEF UserContinues
<1>2. CASE User /\ ~UserContinues
  BY <1>2 DEF User, OpenStartTimer, OpenThrows, SendBegin, SendThrows, CloseReturnsEarly,
     CloseBegin, Destroy
<1>3. CASE SenderStep \/ SpuriousWakeup
  BY <1>3 DEF SenderStep, SenderLoop, SenderTest, SenderBlock, SenderReturns, SenderCopyBody,
     SenderCopyHeader, SenderClearSent, SenderSeesSent, SpuriousWakeup
<1>4. CASE \E c \in Callbacks : Callback(c)
  BY <1>4 DEF Callback, TimerFires, CallbackLock, CallbackSkips, CallbackTxBody, CallbackTxHeader,
     CallbackMarkSent, CallbackRxOk, CallbackRxBad, SlavesOperational, LinkLost
<1>5. CASE UNCHANGED vars
  BY <1>5 DEF vars
<1> QED BY <1>1, <1>2, <1>3, <1>4, <1>5 DEF Next, User

(* A send thread that sleeps while a frame waits in the ring will be woken *)
(* up for it: the store and the notification cannot both fall between its  *)
(* test of the ring and its sleep.                                         *)
THEOREM NoFrameSleeps == Spec => []WakeupPending
<1>1. Init => WakeupInv
  BY DEF Init, WakeupInv, WakeupPending
<1>2. Inv1 /\ WakeupInv /\ [Next]_vars => WakeupInv'
  BY NextWakeupInv
<1>3. WakeupInv => WakeupPending
  BY DEF WakeupInv
<1> QED BY <1>1, <1>2, <1>3, Inv1Holds, PTL DEF Spec

-----------------------------------------------------------------------------
(* The life of the process image.                                          *)

(* The timer and the threads live inside the life of the image.            *)
AliveInv ==
  /\ ImageAlive
  /\ timerOn \/ uPc = "opening" => ioAlive
  /\ \A c \in Callbacks : cPc[c] # "idle" => ioAlive
  /\ uPc = "kill" => ~timerOn

LEMMA NextAliveInv ==
  ASSUME KillSync, Inv1, AliveInv, [Next]_vars
  PROVE  AliveInv'
<1>0. /\ cPc \in [Callbacks -> CallbackPcs] /\ Lifecycle
  BY DEF Inv1, TypeOK
<1> USE <1>0 DEF AliveInv, ImageAlive, InExchange, shared, image, Alive, Go, Move, NotifyOne
<1>1. CASE UserContinues
  <2>1. CASE CloseTeardown BY <2>1 DEF CloseTeardown, Lifecycle
  <2>2. CASE OpenStartThread BY <2>2 DEF OpenStartThread
  <2>3. CASE SendStore BY <2>3 DEF SendStore
  <2>4. CASE SendNotify BY <2>4 DEF SendNotify
  <2>5. CASE CloseDrained BY <2>5 DEF CloseDrained
  <2>6. CASE CloseNotify BY <2>6 DEF CloseNotify
  <2>7. CASE CloseJoin BY <2>7 DEF CloseJoin
  <2>8. CASE CloseStopTimer BY <2>8 DEF CloseStopTimer
  <2> QED BY <1>1, <2>1, <2>2, <2>3, <2>4, <2>5, <2>6, <2>7, <2>8 DEF UserContinues
<1>2. CASE User /\ ~UserContinues
  <2>1. CASE OpenStartTimer BY <2>1 DEF OpenStartTimer
  <2>2. CASE OpenThrows BY <2>2 DEF OpenThrows
  <2>3. CASE SendBegin BY <2>3 DEF SendBegin
  <2>4. CASE SendThrows BY <2>4 DEF SendThrows
  <2>5. CASE CloseReturnsEarly BY <2>5 DEF CloseReturnsEarly
  <2>6. CASE CloseBegin BY <2>6 DEF CloseBegin
  <2>7. CASE Destroy BY <2>7 DEF Destroy
  <2> QED BY <1>2, <2>1, <2>2, <2>3, <2>4, <2>5, <2>6, <2>7 DEF User
<1>3. CASE SenderStep \/ SpuriousWakeup
  <2>1. CASE SenderLoop BY <2>1 DEF SenderLoop
  <2>2. CASE SenderTest BY <2>2 DEF SenderTest
  <2>3. CASE SenderBlock BY <2>3 DEF SenderBlock
  <2>4. CASE SenderReturns BY <2>4 DEF SenderReturns
  <2>5. CASE SenderCopyBody BY <2>5 DEF SenderCopyBody
  <2>6. CASE SenderCopyHeader BY <2>6 DEF SenderCopyHeader
  <2>7. CASE SenderClearSent BY <2>7 DEF SenderClearSent
  <2>8. CASE SenderSeesSent BY <2>8 DEF SenderSeesSent
  <2>9. CASE SpuriousWakeup BY <2>9 DEF SpuriousWakeup
  <2> QED BY <1>3, <2>1, <2>2, <2>3, <2>4, <2>5, <2>6, <2>7, <2>8, <2>9 DEF SenderStep
<1>4. ASSUME NEW c \in Callbacks, Callback(c) PROVE AliveInv'
  <2>1. CASE TimerFires(c) BY <2>1 DEF TimerFires
  <2>2. CASE CallbackLock(c) BY <2>2 DEF CallbackLock
  <2>3. CASE CallbackSkips(c) BY <2>3 DEF CallbackSkips
  <2>4. CASE CallbackTxBody(c) BY <2>4 DEF CallbackTxBody
  <2>5. CASE CallbackTxHeader(c) BY <2>5 DEF CallbackTxHeader
  <2>6. CASE CallbackMarkSent(c) BY <2>6 DEF CallbackMarkSent
  <2>7. CASE CallbackRxOk(c) BY <2>7 DEF CallbackRxOk
  <2>8. CASE CallbackRxBad(c) BY <2>8 DEF CallbackRxBad
  <2>9. CASE SlavesOperational(c) BY <2>9 DEF SlavesOperational
  <2>10. CASE LinkLost(c) BY <2>10 DEF LinkLost
  <2> QED BY <1>4, <2>1, <2>2, <2>3, <2>4, <2>5, <2>6, <2>7, <2>8, <2>9, <2>10 DEF Callback
<1>5. CASE UNCHANGED vars
  BY <1>5 DEF vars
<1> QED BY <1>1, <1>2, <1>3, <1>4, <1>5 DEF Next, User

(* Where stopping the timer waits for the callback (TIME_KILL_SYNCHRONOUS  *)
(* on Windows), nobody is at the process image or the sockets after        *)
(* close() has released them, or before open() has made them.              *)
THEOREM ImageOutlivesItsUsers == KillSync => (Spec => []ImageAlive)
<1> SUFFICES ASSUME KillSync PROVE Spec => []ImageAlive
  OBVIOUS
<1>1. Init => AliveInv
  BY DEF Init, AliveInv, ImageAlive, InExchange
<1>2. Inv1 /\ AliveInv /\ [Next]_vars => AliveInv'
  BY NextAliveInv
<1>3. AliveInv => ImageAlive
  BY DEF AliveInv
<1> QED BY <1>1, <1>2, <1>3, Inv1Holds, PTL DEF Spec
=============================================================================
