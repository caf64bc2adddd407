------------------------ MODULE DutyPhaseSet_proofs ------------------------
(***************************************************************************)
(* Proofs about DutyPhaseSet, for any number of transducers, any counter   *)
(* width and any set of cycle values, those too short for a pass included. *)
(***************************************************************************)
EXTENDS DutyPhaseSet, TLAPS

(* How far a pass has come bounds the counter from above: the counter is   *)
(* at most the number of clocks since the pass began.  It also says which  *)
(* row is where on its way from the memory.                                *)
PassInv ==
  /\ trState = "WAIT_0" => timeCnt <= 1 /\ addr = 0
  /\ trState = "WAIT_1" => timeCnt <= 2 /\ addr = 1 /\ bramQ.row = 0
  /\ trState = "DUTY_PHASE" =>
       timeCnt <= 3 + cnt /\ addr = cnt + 2 /\ bramQ.row = cnt + 1 /\ dout.row = cnt

(* The words of a kind that the last command has reached are of its        *)
(* generation, the others of the one before.                               *)
HostInv ==
  /\ \A k \in Kinds : op \notin {k, "clear"} => at[k] = TRANS_NUM
  /\ \A k \in Kinds : \A r \in Trans :
       mem[r][k] = IF r < at[k] THEN gen[k] ELSE gen[k] - 1

Inv1 == TypeOK /\ PassInv /\ HostInv

LEMMA Sizes ==
  /\ TRANS_NUM \in Nat /\ TRANS_NUM >= 1 /\ WORDS \in Nat /\ WORDS >= 1 /\ MaxGen \in Nat
  /\ \A x \in Cycles : x \in Nat /\ x < WORDS
  BY SetAssumption DEF PASS

LEMMA ZerosType == Zero \in Gens /\ Zeros \in [Trans -> Words] /\ 0 \in Rows /\ 0 \in Trans
  BY Sizes DEF Zero, Zeros, Gens, Kinds, Words, Rows, Trans
-----------------------------------------------------------------------------
(* What a step of the firmware does to the words of one kind: nothing, or  *)
(* it begins a new generation, or it writes the next word.                 *)
Column(k) ==
  \/ /\ gen'[k] = gen[k] /\ at'[k] = at[k]
     /\ \A r \in Rows : mem'[r][k] = mem[r][k]
  \/ /\ at[k] = TRANS_NUM /\ gen'[k] = gen[k] + 1 /\ at'[k] = 0
     /\ \A r \in Rows : mem'[r][k] = mem[r][k]
  \/ /\ at[k] < TRANS_NUM /\ gen'[k] = gen[k] /\ at'[k] = at[k] + 1
     /\ mem'[at[k]][k] = gen[k]
     /\ \A r \in Rows : r # at[k] => mem'[r][k] = mem[r][k]

HostType ==
  /\ op \in Kinds \cup {"none", "clear"}
  /\ gen \in Gens /\ at \in [Kinds -> 0 .. TRANS_NUM] /\ mem \in [Rows -> Gens]

LEMMA WriteStep ==
  ASSUME HostType, NEW k \in Kinds, NEW last \in Kinds, Write(k, last)
  PROVE  /\ gen' = gen /\ at' \in [Kinds -> 0 .. TRANS_NUM] /\ mem' \in [Rows -> Gens]
         /\ \A j \in Kinds : j # k =>
              at'[j] = at[j] /\ \A r \in Rows : mem'[r][j] = mem[r][j]
         /\ at[k] < TRANS_NUM /\ at'[k] = at[k] + 1
         /\ mem'[at[k]][k] = gen[k]
         /\ \A r \in Rows : r # at[k] => mem'[r][k] = mem[r][k]
         /\ op' = IF k = last /\ at[k] = TRANS_NUM - 1 THEN "none" ELSE op
<1>1. /\ at[k] \in Nat /\ at[k] < TRANS_NUM /\ gen[k] \in 0 .. MaxGen
      /\ at[k] \in Rows /\ at[k] + 1 \in 0 .. TRANS_NUM
  <2>1. at[k] \in 0 .. TRANS_NUM /\ gen[k] \in 0 .. MaxGen
    BY DEF HostType, Gens
  <2>2. at[k] < TRANS_NUM
    BY DEF Write
  <2> QED
    BY <2>1, <2>2, Sizes DEF Rows
<1>2. mem[at[k]] \in Gens /\ [mem[at[k]] EXCEPT ![k] = gen[k]] \in Gens
  BY <1>1 DEF HostType, Gens
<1>3. mem' \in [Rows -> Gens] /\ at' \in [Kinds -> 0 .. TRANS_NUM]
  BY <1>1, <1>2 DEF HostType, Write
<1>4. /\ mem'[at[k]] = [mem[at[k]] EXCEPT ![k] = gen[k]]
      /\ \A r \in Rows : r # at[k] => mem'[r] = mem[r]
  BY <1>1 DEF HostType, Write
<1>5. \A j \in Kinds : mem'[at[k]][j] = IF j = k THEN gen[k] ELSE mem[at[k]][j]
  BY <1>2, <1>4 DEF Gens
<1> QED
  BY <1>1, <1>3, <1>4, <1>5 DEF HostType, Write

LEMMA FirmwareStep ==
  ASSUME HostType, HostInv, Firmware
  PROVE  /\ HostType'
         /\ \A k \in Kinds : op' \notin {k, "clear"} => at'[k] = TRANS_NUM
         /\ \A k \in Kinds : Column(k)
<1> DEFINE Goal == /\ HostType'
                   /\ \A k \in Kinds : op' \notin {k, "clear"} => at'[k] = TRANS_NUM
                   /\ \A k \in Kinds : Column(k)
<1>a. "duty" \in Kinds /\ "phase" \in Kinds /\ \A k \in Kinds : k = "duty" \/ k = "phase"
  BY DEF Kinds
<1>1. ASSUME Rests PROVE Goal
  BY <1>1 DEF Rests, host, HostType, HostInv, Column
<1>2. ASSUME NEW o \in {"duty", "phase", "clear"}, NEW ks \in SUBSET Kinds, Start(o, ks),
             \A k \in Kinds : o \notin {k, "clear"} => k \notin ks
      PROVE  Goal
  <2>1. \A k \in Kinds : at[k] = TRANS_NUM
    BY <1>2 DEF Start, HostInv, Kinds
  <2>2. gen' \in Gens /\ at' \in [Kinds -> 0 .. TRANS_NUM] /\ mem' = mem /\ op' = o
    <3>1. gen["duty"] + gen["phase"] < MaxGen /\ \A k \in Kinds : gen[k] \in 0 .. MaxGen
      BY <1>2 DEF Start, HostType, Gens
    <3>2. \A k \in Kinds : gen[k] + 1 \in 0 .. MaxGen
      BY <3>1, Sizes DEF Kinds
    <3> QED
      BY <1>2, <3>2, Sizes DEF Start, HostType, Gens
  <2>3. \A k \in Kinds :
          IF k \in ks THEN gen'[k] = gen[k] + 1 /\ at'[k] = 0
                      ELSE gen'[k] = gen[k] /\ at'[k] = at[k]
    BY <1>2 DEF Start
  <2>4. HostType'
    BY <1>2, <2>2 DEF HostType, Kinds
  <2>5. \A k \in Kinds : Column(k)
    BY <2>1, <2>2, <2>3 DEF Column
  <2>6. \A k \in Kinds : op' \notin {k, "clear"} => at'[k] = TRANS_NUM
    BY <1>2, <2>1, <2>2, <2>3
  <2> QED
    BY <2>4, <2>5, <2>6
<1>3. ASSUME NEW k \in Kinds, op = k, Write(k, k) PROVE Goal
  <2>1. HostType'
    BY <1>3, WriteStep DEF HostType
  <2>2. \A j \in Kinds : Column(j)
    BY <1>3, WriteStep DEF Column
  <2>3. \A j \in Kinds : op' \notin {j, "clear"} => at'[j] = TRANS_NUM
    <3>1. \A j \in Kinds : j # k => at'[j] = TRANS_NUM
      BY <1>3, <1>a, WriteStep DEF HostInv
    <3>2. op' = k \/ at'[k] = TRANS_NUM
      BY <1>3, WriteStep, Sizes
    <3> QED
      BY <3>1, <3>2
  <2> QED
    BY <2>1, <2>2, <2>3
<1>4. ASSUME Clear PROVE Goal
  <2>1. PICK k \in Kinds : Write(k, "duty") /\ (k = "duty" => at["phase"] > at["duty"])
    BY <1>4, <1>a DEF Clear
  <2>2. HostType'
    BY <2>1, <1>a, WriteStep DEF HostType
  <2>3. \A j \in Kinds : Column(j)
    BY <2>1, <1>a, WriteStep DEF Column
  <2>4. \A j \in Kinds : op' \notin {j, "clear"} => at'[j] = TRANS_NUM
    <3>1. CASE op' = "clear"
      BY <3>1
    <3>2. CASE op' # "clear"
      <4>1. k = "duty" /\ at["duty"] = TRANS_NUM - 1
        BY <3>2, <1>4, <2>1, <1>a, WriteStep DEF Clear
      <4>2. at["phase"] = TRANS_NUM
        BY <4>1, <2>1, <1>a, Sizes DEF HostType
      <4> QED
        BY <4>1, <4>2, <2>1, <1>a, WriteStep, Sizes
    <3> QED
      BY <3>1, <3>2
  <2> QED
    BY <2>2, <2>3, <2>4
<1>5. Start("duty", {"duty"}) => Goal
  BY <1>2, <1>a
<1>6. Start("phase", {"phase"}) => Goal
  BY <1>2, <1>a
<1>7. Start("clear", Kinds) => Goal
  BY <1>2
<1>8. WriteDuty => Goal
  BY <1>3, <1>a DEF WriteDuty
<1>9. WritePhase => Goal
  BY <1>3, <1>a DEF WritePhase
<1> QED
  BY <1>1, <1>4, <1>5, <1>6, <1>7, <1>8, <1>9 DEF Firmware

(* What Column says of the memory, in terms of HostInv.                    *)
LEMMA NextHostInv ==
  ASSUME HostType, HostInv, Firmware
  PROVE  HostInv'
<1>1. /\ \A k \in Kinds : op' \notin {k, "clear"} => at'[k] = TRANS_NUM
      /\ \A k \in Kinds : Column(k)
  BY FirmwareStep
<1>2. ASSUME NEW k \in Kinds, NEW r \in Trans
      PROVE  mem'[r][k] = IF r < at'[k] THEN gen'[k] ELSE gen'[k] - 1
  <2>1. /\ r \in Rows /\ r \in Nat /\ r < TRANS_NUM
        /\ at[k] \in Int /\ gen[k] \in Int
    BY Sizes DEF Trans, Rows, HostType, Gens
  <2>2. mem[r][k] = IF r < at[k] THEN gen[k] ELSE gen[k] - 1
    BY DEF HostInv
  <2>3. Column(k)
    BY <1>1
  <2>4. CASE at[k] < TRANS_NUM /\ at'[k] = at[k] + 1 /\ gen'[k] = gen[k]
             /\ mem'[at[k]][k] = gen[k] /\ (r # at[k] => mem'[r][k] = mem[r][k])
    BY <2>1, <2>2, <2>4
  <2>5. CASE mem'[r][k] = mem[r][k]
             /\ \/ gen'[k] = gen[k] /\ at'[k] = at[k]
                \/ at[k] = TRANS_NUM /\ gen'[k] = gen[k] + 1 /\ at'[k] = 0
    BY <2>1, <2>2, <2>5
  <2> QED
    BY <2>1, <2>3, <2>4, <2>5 DEF Column
<1> QED
  BY <1>1, <1>2 DEF HostInv
-----------------------------------------------------------------------------
(* The clock.                                                              *)

LEMMA SyncType ==
  ASSUME TypeOK, Clock \/ Reset, cycle' \in Cycles
  PROVE  /\ sync0' \in BOOLEAN \X BOOLEAN \X BOOLEAN
         /\ timeCnt' \in 0 .. WORDS - 1 /\ cycle' \in Cycles
         /\ t' \in 0 .. WORDS - 1 /\ c' \in Cycles \cup {0}
<1>1. CASE Clock
  <2>1. timeCnt' = 0 \/ (timeCnt' = timeCnt + 1 /\ timeCnt + 1 # WORDS)
    BY <1>1 DEF Clock, Synchronize
  <2>2. sync0' \in BOOLEAN \X BOOLEAN \X BOOLEAN
    BY <1>1 DEF Clock, Synchronize, TypeOK
  <2>3. timeCnt' \in 0 .. WORDS - 1
    BY <2>1, Sizes DEF TypeOK
  <2> QED
    BY <1>1, <2>2, <2>3 DEF Clock, Synchronize, TypeOK
<1>2. CASE Reset
  <2>1. timeCnt' \in 0 .. WORDS - 1
    BY <1>2, Sizes DEF Reset, TypeOK
  <2> QED
    BY <1>2, <2>1 DEF Reset, TypeOK
<1> QED
  BY <1>1, <1>2

(* The memory answers with words of the memory.                            *)
LEMMA ReadType ==
  ASSUME TypeOK, ReadMemory
  PROVE  bramQ' \in Words /\ dout' \in Words
  BY DEF ReadMemory, TypeOK, Words

LEMMA PassType ==
  ASSUME TypeOK, PassInv, Clock
  PROVE  /\ trState' \in TrStates /\ addr' \in Rows /\ cnt' \in Trans
         /\ buf' \in [Trans -> Words] /\ out' \in [Trans -> Words]
<1>1. out' \in [Trans -> Words]
  BY DEF Clock, Latch, TypeOK
<1>2. CASE Idle
  BY <1>1, <1>2, ZerosType DEF Idle, TypeOK, TrStates
<1>3. CASE Waits0
  BY <1>1, <1>3, Sizes DEF Waits0, PassInv, TypeOK, TrStates, Rows
<1>4. CASE Waits1
  BY <1>1, <1>4, ZerosType, Sizes DEF Waits1, PassInv, TypeOK, TrStates, Rows
<1>5. CASE Copies
  <2>1. buf' \in [Trans -> Words]
    BY <1>5 DEF Copies, TypeOK
  <2>2. cnt \in Nat /\ cnt <= TRANS_NUM - 1 /\ addr = cnt + 2
    BY <1>5, Sizes DEF Copies, PassInv, TypeOK, Trans
  <2>3. CASE cnt = TRANS_NUM - 1
    BY <1>1, <1>5, <2>1, <2>3, ZerosType DEF Copies, TypeOK, TrStates
  <2>4. CASE cnt # TRANS_NUM - 1
    <3>1. cnt + 1 \in Trans /\ addr + 1 \in Rows
      BY <2>2, <2>4, Sizes DEF Trans, Rows
    <3> QED
      BY <1>1, <1>5, <2>1, <2>4, <3>1 DEF Copies, TypeOK
  <2> QED
    BY <2>3, <2>4
<1> QED
  BY <1>2, <1>3, <1>4, <1>5 DEF Clock

LEMMA NextPassInv ==
  ASSUME TypeOK, PassInv, Clock \/ Reset
  PROVE  PassInv'
<1>1. CASE Reset
  BY <1>1 DEF Reset, PassInv
<1>2. CASE Clock
  <2>1. timeCnt \in Nat /\ (timeCnt' = 0 \/ timeCnt' = timeCnt + 1)
    BY <1>2, Sizes DEF Clock, Synchronize, TypeOK
  <2>2. bramQ'.row = addr /\ dout' = bramQ
    BY <1>2 DEF Clock, ReadMemory
  <2>3. cnt \in Nat
    BY Sizes DEF TypeOK, Trans
  <2>4. CASE Idle
    BY <2>1, <2>4 DEF Idle, PassInv
  <2>5. CASE Waits0
    BY <2>1, <2>2, <2>5 DEF Waits0, PassInv
  <2>6. CASE Waits1
    BY <2>1, <2>2, <2>6 DEF Waits1, PassInv
  <2>7. CASE Copies
    BY <2>1, <2>2, <2>3, <2>7 DEF Copies, PassInv
  <2> QED
    BY <1>2, <2>4, <2>5, <2>6, <2>7 DEF Clock
<1> QED
  BY <1>1, <1>2

LEMMA InitInv1 == Init => Inv1
<1> SUFFICES ASSUME Init PROVE Inv1
  OBVIOUS
<1>1. [row |-> 0, gen |-> Zero] \in Words
  BY ZerosType DEF Words
<1>2. TypeOK
  <2>1. at \in [Kinds -> 0 .. TRANS_NUM] /\ mem \in [Rows -> Gens]
    BY ZerosType, Sizes DEF Init
  <2>2. timeCnt \in 0 .. WORDS - 1
    BY Sizes DEF Init
  <2> QED
    BY <1>1, <2>1, <2>2, ZerosType DEF Init, TypeOK, TrStates
<1>3. PassInv
  BY DEF Init, PassInv
<1>4. HostInv
  BY Sizes DEF Init, HostInv, Zero, Trans, Rows, Kinds
<1> QED
  BY <1>2, <1>3, <1>4 DEF Inv1

LEMMA NextInv1 == Inv1 /\ [Next]_vars => Inv1'
<1> SUFFICES ASSUME Inv1, [Next]_vars PROVE Inv1'
  OBVIOUS
<1>1. CASE UNCHANGED vars
  BY <1>1 DEF Inv1, TypeOK, PassInv, HostInv, vars, host, sync, pass
<1>2. CASE Next
  <2>1. TypeOK /\ PassInv /\ HostInv /\ HostType /\ Firmware
    BY <1>2 DEF Inv1, TypeOK, HostType, Next
  <2>2. HostType' /\ HostInv'
    BY <2>1, FirmwareStep, NextHostInv
  <2>3. PassInv'
    BY <1>2, <2>1, NextPassInv DEF Next
  <2>4. bramQ' \in Words /\ dout' \in Words
    BY <1>2, <2>1, ReadType DEF Next, Clock, Reset
  <2>5. /\ trState' \in TrStates /\ addr' \in Rows /\ cnt' \in Trans
        /\ buf' \in [Trans -> Words] /\ out' \in [Trans -> Words]
    BY <1>2, <2>1, PassType, ZerosType DEF Next, Reset, TrStates
  <2>6. TypeOK'
    BY <1>2, <2>1, <2>2, <2>4, <2>5, SyncType DEF Next, HostType, TypeOK
  <2> QED
    BY <2>2, <2>3, <2>6 DEF Inv1
<1> QED
  BY <1>1, <1>2

LEMMA Inv1Holds == Spec => []Inv1
  BY InitInv1, NextInv1, PTL DEF Spec

(* Every register keeps its range; above all, the row address and the row  *)
(* counter of the pass never leave the memory and the buffers.             *)
THEOREM TypeCorrect == Spec => []TypeOK
<1>1. Inv1 => TypeOK
  BY DEF Inv1
<1> QED
  BY <1>1, Inv1Holds, PTL

(* At the last clock of a period that a pass fits in no pass is under way: *)
(* the counter cannot get ahead of it, whatever SYNC0 and the changes of   *)
(* cycle do to the counter.                                                *)
LEMMA LatchAfterPass == Inv1 => NoLatchInPass
<1> SUFFICES ASSUME Inv1, LastClock, cycle >= PASS, trState # "IDLE" PROVE FALSE
  BY DEF NoLatchInPass
<1>1. timeCnt \in Nat /\ cycle >= TRANS_NUM + 4 /\ timeCnt + 1 = cycle
  BY Sizes DEF Inv1, TypeOK, LastClock, PASS
<1>2. timeCnt <= 3 + (TRANS_NUM - 1)
  BY Sizes DEF Inv1, TypeOK, PassInv, TrStates, Trans
<1> QED
  BY <1>1, <1>2, Sizes

THEOREM LatchesWholePasses == Spec => []NoLatchInPass
  BY LatchAfterPass, Inv1Holds, PTL
-----------------------------------------------------------------------------
(* Every transducer has the words of its own row.                          *)
Inv2 == Inv1 /\ RowsInPlace

LEMMA NextRows == Inv2 /\ [Next]_vars => RowsInPlace'
<1> SUFFICES ASSUME Inv2, [Next]_vars PROVE RowsInPlace'
  OBVIOUS
<1>1. CASE UNCHANGED vars
  BY <1>1 DEF Inv2, RowsInPlace, vars, pass
<1>2. CASE Next
  <2>1. CASE Reset
    BY <2>1 DEF Reset, RowsInPlace, Zeros
  <2>2. CASE Clock
    <3>1. \A i \in Trans : out'[i].row = i
      BY <2>2 DEF Clock, Latch, Inv2, RowsInPlace
    <3>2. \A i \in Trans : buf'[i].row = i
      <4>1. CASE Copies
        BY <4>1 DEF Copies, Inv2, Inv1, TypeOK, PassInv, RowsInPlace
      <4>2. CASE buf' = buf
        BY <4>2 DEF Inv2, RowsInPlace
      <4> QED
        BY <2>2, <4>1, <4>2 DEF Clock, Idle, Waits0, Waits1
    <3> QED
      BY <3>1, <3>2 DEF RowsInPlace
  <2> QED
    BY <1>2, <2>1, <2>2 DEF Next
<1> QED
  BY <1>1, <1>2

(* The wait states match the latency of the memory: buffer and output i    *)
(* come from row i.                                                        *)
THEOREM RowsArrive == Spec => []RowsInPlace
<1>1. Init => RowsInPlace
  BY DEF Init, RowsInPlace, Zeros
<1> QED
  BY <1>1, NextRows, Inv1Holds, PTL DEF Spec, Inv2
-----------------------------------------------------------------------------
(* The rows the pass has read so far, and the generation it has of each.   *)
Read == CASE trState = "WAIT_1" -> 1 [] trState = "DUTY_PHASE" -> cnt + 2 [] OTHER -> 0
Seen(r, k) ==
  IF trState = "WAIT_1" THEN bramQ.gen[k]
  ELSE IF r < cnt THEN buf[r].gen[k]
  ELSE IF r = cnt THEN dout.gen[k]
  ELSE bramQ.gen[k]

(* If the firmware is ahead of the pass all rows read are of its           *)
(* generation, and it stays ahead or is met once; if it is behind, the     *)
(* rows read are of its generation or the one before, and all the rows     *)
(* still to be read are of the one before: it never catches up.            *)
SeenInv ==
  \A k \in Kinds :
    /\ \A i, j \in Trans : i < j /\ j < Read => Seen(i, k) - Seen(j, k) \in {0, 1}
    /\ \A i \in Trans : i < Read /\ Read < TRANS_NUM =>
         IF at[k] > Read THEN Seen(i, k) = gen[k] ELSE Seen(i, k) \in {gen[k] - 1, gen[k]}

BufInv ==
  trState = "IDLE" =>
    \A k \in Kinds : \A i, j \in Trans : i < j => buf[i].gen[k] - buf[j].gen[k] \in {0, 1}

(* A row is never older than what was read of it, or of a later row,       *)
(* before: not in the memory, not among the rows read in this pass and not *)
(* in the buffers, where the rows of this pass stand before what the last  *)
(* one has left.                                                           *)
FreshInv ==
  \A k \in Kinds : \A i, j \in Trans : i <= j =>
    /\ mem[i][k] >= buf[j].gen[k]
    /\ j < Read => mem[i][k] >= Seen(j, k)
    /\ i < Read => Seen(i, k) >= buf[j].gen[k]
    /\ buf[i].gen[k] >= buf[j].gen[k]

Inv3 == Inv1 /\ SeenInv /\ BufInv /\ FreshInv

(* A clock of the pass that does not end it reads one more row, and keeps  *)
(* the ones read before.                                                   *)
LEMMA ReadsOneMore ==
  ASSUME TypeOK, PassInv, Clock, trState # "IDLE", trState' # "IDLE"
  PROVE  /\ Read \in Nat /\ Read' = Read + 1 /\ Read \in Rows
         /\ \A r \in Trans, k \in Kinds :
              /\ r < Read => Seen(r, k)' = Seen(r, k)
              /\ r = Read => Seen(r, k)' = mem[r][k]
<1>1. cnt \in Nat /\ bramQ'.gen = mem[addr] /\ dout' = bramQ /\ addr \in Rows
  BY DEF Clock, ReadMemory, TypeOK, Trans
<1>2. \A r \in Trans : r \in Nat
  BY DEF Trans
<1>3. CASE Waits0
  <2>1. Read = 0 /\ Read' = 1 /\ addr = 0 /\ trState' = "WAIT_1"
    BY <1>3 DEF Waits0, PassInv, Read
  <2> QED
    BY <1>1, <1>2, <2>1 DEF Seen
<1>4. CASE Waits1
  <2>1. /\ Read = 1 /\ Read' = 2 /\ addr = 1 /\ cnt' = 0
        /\ trState = "WAIT_1" /\ trState' = "DUTY_PHASE"
    BY <1>4 DEF Waits1, PassInv, Read
  <2> QED
    BY <1>1, <1>2, <2>1 DEF Seen
<1>5. CASE Copies
  <2>1. /\ cnt' = cnt + 1 /\ addr = cnt + 2 /\ Read = cnt + 2 /\ Read' = cnt + 3
        /\ trState = "DUTY_PHASE" /\ trState' = "DUTY_PHASE"
    BY <1>1, <1>5 DEF Copies, PassInv, Read
  <2>2. /\ \A r \in Trans : r # cnt => buf'[r] = buf[r]
        /\ buf'[cnt] = dout
    BY <1>5 DEF Copies, TypeOK
  <2> QED
    BY <1>1, <1>2, <2>1, <2>2 DEF Seen
<1>6. ~Idle
  BY DEF Idle
<1> QED
  BY <1>3, <1>4, <1>5, <1>6 DEF Clock

LEMMA NextSeenInv ==
  ASSUME Inv3, Next
  PROVE  SeenInv'
<1>1. CASE Read' = 0
  BY <1>1 DEF SeenInv, Trans
<1>2. CASE Read' # 0
  <2>1. Clock /\ trState # "IDLE" /\ trState' # "IDLE"
    BY <1>2 DEF Next, Reset, Clock, Idle, Waits0, Waits1, Copies, Read, Inv3, Inv1, TypeOK, TrStates
  <2>2. TypeOK /\ PassInv /\ HostType /\ HostInv /\ Firmware
    BY DEF Inv3, Inv1, TypeOK, HostType, Next
  <2>3. SUFFICES ASSUME NEW k \in Kinds
        PROVE /\ \A i, j \in Trans : i < j /\ j < Read' => Seen(i, k)' - Seen(j, k)' \in {0, 1}
              /\ \A i \in Trans : i < Read' /\ Read' < TRANS_NUM =>
                   IF at'[k] > Read' THEN Seen(i, k)' = gen'[k]
                                     ELSE Seen(i, k)' \in {gen'[k] - 1, gen'[k]}
    BY DEF SeenInv
  <2> DEFINE R == Read  A == at[k]  G == gen[k]
  <2>4. A \in 0 .. TRANS_NUM /\ G \in Nat /\ TRANS_NUM \in Nat
    BY <2>2, Sizes DEF HostType, Gens
  <2>5. /\ R \in Nat /\ Read' = R + 1
        /\ \A r \in Trans : /\ r < R => Seen(r, k)' = Seen(r, k)
                            /\ r = R => Seen(r, k)' = mem[r][k]
    BY <2>1, <2>2, ReadsOneMore
  <2>6. /\ \A i, j \in Trans : i < j /\ j < R => Seen(i, k) - Seen(j, k) \in {0, 1}
        /\ \A i \in Trans : i < R /\ R < TRANS_NUM =>
             IF A > R THEN Seen(i, k) = G ELSE Seen(i, k) \in {G - 1, G}
    BY DEF Inv3, SeenInv
  <2>7. \A i \in Trans : mem[i][k] = IF i < A THEN G ELSE G - 1
    BY <2>2 DEF HostInv
  <2>8. \A i \in Trans : i \in Nat /\ i < TRANS_NUM
    BY Sizes DEF Trans
  <2>9. ASSUME NEW i \in Trans, i < R + 1, R < TRANS_NUM
        PROVE  IF A > R THEN Seen(i, k)' = G ELSE Seen(i, k)' \in {G - 1, G}
    <3> HIDE DEF R, A, G
    <3>1. CASE i < R
      BY <2>5, <2>6, <2>9, <3>1
    <3>2. CASE i = R
      BY <2>4, <2>5, <2>7, <2>9, <3>2
    <3> QED
      BY <2>5, <2>8, <2>9, <3>1, <3>2
  <2>10. ASSUME NEW i \in Trans, NEW j \in Trans, i < j, j < R + 1
         PROVE  Seen(i, k)' - Seen(j, k)' \in {0, 1}
    <3> HIDE DEF R, A, G
    <3>1. CASE j < R
      BY <2>5, <2>6, <2>8, <2>10, <3>1
    <3>2. CASE j = R
      <4>1. IF A > R THEN Seen(i, k)' = G ELSE Seen(i, k)' \in {G - 1, G}
        BY <2>5, <2>8, <2>9, <2>10, <3>2
      <4>2. Seen(j, k)' = IF A > R THEN G ELSE G - 1
        BY <2>4, <2>5, <2>7, <2>8, <3>2
      <4> QED
        BY <2>4, <4>1, <4>2
    <3> QED
      BY <2>5, <2>8, <2>10, <3>1, <3>2
  <2>11. ASSUME NEW i \in Trans, i < R + 1, R + 1 < TRANS_NUM
         PROVE  IF at'[k] > R + 1 THEN Seen(i, k)' = gen'[k]
                                  ELSE Seen(i, k)' \in {gen'[k] - 1, gen'[k]}
    <3>1. IF A > R THEN Seen(i, k)' = G ELSE Seen(i, k)' \in {G - 1, G}
      BY <2>4, <2>5, <2>9, <2>11
    <3>2. \/ gen'[k] = G /\ at'[k] = A
          \/ A = TRANS_NUM /\ gen'[k] = G + 1 /\ at'[k] = 0
          \/ gen'[k] = G /\ at'[k] = A + 1
      BY <2>2, FirmwareStep DEF Column
    <3> HIDE DEF R, A, G
    <3> QED
      BY <2>4, <2>5, <2>11, <3>1, <3>2
  <2> HIDE DEF R, A, G
  <2> QED
    BY <2>5, <2>10, <2>11
<1> QED
  BY <1>1, <1>2

LEMMA NextBufInv ==
  ASSUME Inv3, Next
  PROVE  BufInv'
<1> SUFFICES ASSUME trState' = "IDLE", NEW k \in Kinds, NEW i \in Trans, NEW j \in Trans, i < j
             PROVE  buf'[i].gen[k] - buf'[j].gen[k] \in {0, 1}
  BY DEF BufInv
<1>1. CASE Reset
  BY <1>1 DEF Reset, Zeros, Zero
<1>2. CASE Clock /\ trState = "IDLE"
  BY <1>2 DEF Clock, Idle, Waits0, Waits1, Copies, Inv3, BufInv
<1>3. CASE Clock /\ trState # "IDLE"
  <2>1. Copies /\ cnt = TRANS_NUM - 1 /\ trState = "DUTY_PHASE"
    BY <1>3 DEF Clock, Idle, Waits0, Waits1, Copies
  <2>2. i \in Nat /\ j \in Nat /\ i < TRANS_NUM - 1 /\ j <= TRANS_NUM - 1 /\ TRANS_NUM \in Nat
    BY Sizes DEF Trans
  <2>3. Seen(i, k) - Seen(j, k) \in {0, 1}
    <3>1. j < Read
      BY <2>1, <2>2 DEF Read
    <3> QED
      BY <3>1 DEF Inv3, SeenInv
  <2>4. Seen(i, k) = buf[i].gen[k]
    BY <2>1, <2>2 DEF Seen
  <2>5. Seen(j, k) = IF j = cnt THEN dout.gen[k] ELSE buf[j].gen[k]
    BY <2>1, <2>2 DEF Seen
  <2>6. \A r \in Trans : buf'[r] = IF r = cnt THEN dout ELSE buf[r]
    BY <2>1 DEF Copies, Inv3, Inv1, TypeOK
  <2> QED
    BY <2>1, <2>2, <2>3, <2>4, <2>5, <2>6
<1> QED
  BY <1>1, <1>2, <1>3 DEF Next

(* The words of the memory are only replaced by newer ones, and an earlier *)
(* row is written before a later one.                                      *)
LEMMA MemoryGrows ==
  ASSUME HostType, HostInv, Firmware, NEW k \in Kinds, NEW i \in Trans
  PROVE  /\ mem[i][k] \in Nat /\ mem'[i][k] \in Nat /\ mem'[i][k] >= mem[i][k]
         /\ \A j \in Trans : i <= j => mem[i][k] >= mem[j][k]
<1>1. /\ i \in Nat /\ i < TRANS_NUM /\ i \in Rows /\ TRANS_NUM \in Nat
      /\ at[k] \in Nat /\ gen[k] \in Nat
      /\ \A r \in Rows : mem[r][k] \in Nat /\ mem'[r][k] \in Nat
  <2>1. HostType'
    BY FirmwareStep
  <2>2. \A r \in Rows : mem[r][k] \in 0 .. MaxGen /\ mem'[r][k] \in 0 .. MaxGen
    BY <2>1 DEF HostType, Gens
  <2>3. at[k] \in 0 .. TRANS_NUM /\ gen[k] \in 0 .. MaxGen
    BY DEF HostType, Gens
  <2> QED
    BY <2>2, <2>3, Sizes DEF Trans, Rows
<1>2. \A j \in Trans : /\ j \in Nat
                       /\ mem[j][k] = IF j < at[k] THEN gen[k] ELSE gen[k] - 1
  BY Sizes DEF HostInv, Trans
<1>3. mem'[i][k] = mem[i][k] \/ mem'[i][k] = gen[k]
  BY <1>1, FirmwareStep DEF Column
<1> QED
  BY <1>1, <1>2, <1>3

LEMMA NextFreshInv ==
  ASSUME Inv3, Next
  PROVE  FreshInv'
<1>1. TypeOK /\ TypeOK' /\ PassInv /\ HostType /\ HostInv /\ Firmware
  BY NextInv1 DEF Inv3, Inv1, TypeOK, HostType, Next
<1> SUFFICES ASSUME NEW k \in Kinds, NEW i \in Trans, NEW j \in Trans, i <= j
             PROVE  /\ mem'[i][k] >= buf'[j].gen[k]
                    /\ j < Read' => mem'[i][k] >= Seen(j, k)'
                    /\ i < Read' => Seen(i, k)' >= buf'[j].gen[k]
                    /\ buf'[i].gen[k] >= buf'[j].gen[k]
  BY DEF FreshInv
<1>2. /\ mem[i][k] \in Nat /\ mem'[i][k] \in Nat /\ mem'[i][k] >= mem[i][k]
      /\ mem[j][k] \in Nat /\ mem[i][k] >= mem[j][k]
  BY <1>1, MemoryGrows
<1>3. i \in Nat /\ j \in Nat /\ cnt \in Nat
  BY <1>1, Sizes DEF TypeOK, Trans
<1>4. /\ buf[i].gen[k] \in Nat /\ buf[j].gen[k] \in Nat
      /\ dout.gen[k] \in Nat /\ bramQ.gen[k] \in Nat
  BY <1>1 DEF TypeOK, Words, Gens
<1>5. Seen(i, k) \in Nat /\ Seen(j, k) \in Nat
  BY <1>4 DEF Seen
<1>6. /\ mem[i][k] >= buf[j].gen[k]
      /\ j < Read => mem[i][k] >= Seen(j, k)
      /\ i < Read => Seen(i, k) >= buf[j].gen[k]
      /\ buf[i].gen[k] >= buf[j].gen[k]
  BY DEF Inv3, FreshInv
<1>7. i < j /\ j < Read => Seen(i, k) >= Seen(j, k)
  BY <1>5 DEF Inv3, SeenInv
<1>8. CASE Reset
  <2>1. buf'[i].gen[k] = 0 /\ buf'[j].gen[k] = 0
    BY <1>8 DEF Reset, Zeros, Zero
  <2>2. Read' = 0
    BY <1>8 DEF Reset, Read
  <2> QED
    BY <2>1, <2>2, <1>2, <1>3
<1>9. CASE Clock /\ buf' = buf
  <2>1. CASE Read' = 0
    BY <1>9, <2>1, <1>2, <1>3, <1>4, <1>6
  <2>2. CASE Read' # 0
    <3>1. trState # "IDLE" /\ trState' # "IDLE"
      BY <1>9, <2>2, <1>1 DEF Clock, Idle, Waits0, Waits1, Copies, Read, TypeOK, TrStates
    <3>2. /\ Read \in Nat /\ Read' = Read + 1
          /\ i < Read => Seen(i, k)' = Seen(i, k)
          /\ i = Read => Seen(i, k)' = mem[i][k]
          /\ j < Read => Seen(j, k)' = Seen(j, k)
          /\ j = Read => Seen(j, k)' = mem[j][k]
      BY <1>1, <1>9, <3>1, ReadsOneMore
    <3> HIDE DEF Read, Seen
    <3> QED
      BY <1>9, <3>2, <1>2, <1>3, <1>4, <1>5, <1>6
  <2> QED
    BY <2>1, <2>2
<1>10. CASE Clock /\ Copies
  <2>1. /\ Read = cnt + 2 /\ Seen(cnt, k) = dout.gen[k] /\ cnt \in Trans
        /\ i = cnt => Seen(i, k) = dout.gen[k]
        /\ j = cnt => Seen(j, k) = dout.gen[k]
        /\ i < cnt => Seen(i, k) = buf[i].gen[k]
        /\ trState # "IDLE"
    BY <1>1, <1>3, <1>10 DEF Copies, Read, Seen, TypeOK
  <2>2. /\ buf'[i].gen[k] = IF i = cnt THEN dout.gen[k] ELSE buf[i].gen[k]
        /\ buf'[j].gen[k] = IF j = cnt THEN dout.gen[k] ELSE buf[j].gen[k]
    BY <1>1, <1>10 DEF Copies, TypeOK
  <2>3. mem'[i][k] >= buf'[j].gen[k]
    BY <2>1, <2>2, <1>2, <1>3, <1>4, <1>6
  <2>4. buf'[i].gen[k] >= buf'[j].gen[k]
    BY <2>1, <2>2, <1>3, <1>4, <1>6, <1>7
  <2>5. CASE Read' = 0
    BY <2>3, <2>4, <2>5, <1>3
  <2>6. CASE Read' # 0
    <3>1. trState' # "IDLE"
      BY <2>6 DEF Read
    <3>2. /\ Read \in Nat /\ Read' = Read + 1
          /\ i < Read => Seen(i, k)' = Seen(i, k)
          /\ i = Read => Seen(i, k)' = mem[i][k]
          /\ j < Read => Seen(j, k)' = Seen(j, k)
          /\ j = Read => Seen(j, k)' = mem[j][k]
      BY <1>1, <1>10, <2>1, <3>1, ReadsOneMore
    <3> HIDE DEF Read, Seen
    <3>3. j < Read' => mem'[i][k] >= Seen(j, k)'
      BY <3>2, <1>2, <1>3, <1>5, <1>6
    <3>4. i < Read' => Seen(i, k)' >= buf'[j].gen[k]
      BY <3>2, <2>1, <2>2, <1>2, <1>3, <1>4, <1>5, <1>6, <1>7
    <3> QED
      BY <2>3, <2>4, <3>3, <3>4
  <2> QED
    BY <2>5, <2>6
<1>11. Clock => Copies \/ buf' = buf
  BY DEF Clock, Idle, Waits0, Waits1
<1> QED
  BY <1>8, <1>9, <1>10, <1>11 DEF Next

LEMMA InitInv3 == Init => Inv3
<1> SUFFICES ASSUME Init PROVE Inv3
  OBVIOUS
<1>1. Read = 0
  BY DEF Init, Read
<1>2. SeenInv
  BY <1>1 DEF SeenInv, Trans
<1>3. BufInv
  BY DEF Init, BufInv, Zeros, Zero
<1>4. FreshInv
  <2>1. \A k \in Kinds, i \in Trans : mem[i][k] = 0 /\ buf[i].gen[k] = 0
    BY Sizes DEF Init, Zeros, Zero, Trans, Rows
  <2>2. \A i \in Trans : ~(i < Read)
    BY <1>1 DEF Trans
  <2> QED
    BY <2>1, <2>2 DEF FreshInv
<1> QED
  BY <1>2, <1>3, <1>4, InitInv1 DEF Inv3

LEMMA NextInv3 == Inv3 /\ [Next]_vars => Inv3'
<1> SUFFICES ASSUME Inv3, [Next]_vars PROVE Inv3'
  OBVIOUS
<1>1. CASE UNCHANGED vars
  <2>1. Inv1'
    BY NextInv1 DEF Inv3
  <2>2. SeenInv'
    BY <1>1 DEF Inv3, SeenInv, Read, Seen, vars, host, pass
  <2>3. BufInv'
    BY <1>1 DEF Inv3, BufInv, vars, host, pass
  <2>4. FreshInv'
    BY <1>1 DEF Inv3, FreshInv, Read, Seen, vars, host, pass
  <2> QED
    BY <2>1, <2>2, <2>3, <2>4 DEF Inv3
<1>2. CASE Next
  BY <1>2, NextInv1, NextSeenInv, NextBufInv, NextFreshInv DEF Inv3
<1> QED
  BY <1>1, <1>2

(* What a step of the program may do to what the transducers have.         *)
TornStep ==
  \A k \in Kinds : \A i, j \in Trans :
    i < j => /\ out'[i].gen[k] >= out'[j].gen[k]
             /\ cycle >= PASS => out'[i].gen[k] <= out'[j].gen[k] + 1

LEMMA LatchTorn ==
  ASSUME Inv3, [Next]_vars
  PROVE  [TornStep]_out
<1>1. CASE UNCHANGED out
  BY <1>1
<1>2. CASE Reset
  BY <1>2 DEF Reset, Zeros, Zero, TornStep
<1>3. CASE Clock /\ LastClock
  <2> SUFFICES ASSUME NEW k \in Kinds, NEW i \in Trans, NEW j \in Trans, i < j
               PROVE  /\ buf[i].gen[k] >= buf[j].gen[k]
                      /\ cycle >= PASS => buf[i].gen[k] <= buf[j].gen[k] + 1
    BY <1>3 DEF Clock, Latch, TornStep
  <2>1. buf[i].gen[k] \in Nat /\ buf[j].gen[k] \in Nat
    BY Sizes DEF Inv3, Inv1, TypeOK, Words, Gens
  <2>2. buf[i].gen[k] >= buf[j].gen[k]
    BY DEF Inv3, FreshInv, Trans
  <2>3. cycle >= PASS => buf[i].gen[k] - buf[j].gen[k] \in {0, 1}
    BY <1>3, LatchAfterPass DEF Inv3, BufInv, NoLatchInPass
  <2> QED
    BY <2>1, <2>2, <2>3
<1>4. CASE Clock /\ ~LastClock
  BY <1>4 DEF Clock, Latch
<1> QED
  BY <1>1, <1>2, <1>3, <1>4 DEF Next, vars

(* Duties and phases that a command overwrites in the middle of a pass are *)
(* latched torn in one place at most, between two consecutive generations; *)
(* in a period too short for a pass, newer before older all the same.      *)
THEOREM TornInOnePlaceOnly == Spec => TornInOnePlace
<1>1. Inv3 /\ [Next]_vars => [TornStep]_out
  BY LatchTorn
<1> QED
  BY <1>1, InitInv3, NextInv3, PTL DEF Spec, TornInOnePlace, TornStep
=============================================================================
