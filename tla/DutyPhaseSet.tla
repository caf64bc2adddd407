---------------------------- MODULE DutyPhaseSet ----------------------------
(***************************************************************************)
(* top.sv, "Synchronize" and "Duty and Phase set": the counter that makes  *)
(* the ultrasound period, and the pass that copies the duties and phases   *)
(* the CPU has written to tr_bram into buffers during a period, for the    *)
(* transducers to latch at its end.                                        *)
(*                                                                         *)
(* A step is one edge of sys_clk: every register takes its new value from  *)
(* the values before the edge.  The CPU writes tr_bram through the other   *)
(* port, from app.c; its bus is slower than sys_clk, so that at most one   *)
(* word is written per step, and a word read at the edge that writes it    *)
(* shows the old value.                                                    *)
(*                                                                         *)
(* A duty or a phase is represented by its generation: the number of times *)
(* the firmware had begun to write all the words of its kind (write_duty,  *)
(* write_phase, clear) when it wrote this one.  What has been read from    *)
(* the memory is kept with the row it was read from.                       *)
(***************************************************************************)
EXTENDS Integers

CONSTANTS
  TRANS_NUM,   \* transducers
  WORDS,       \* values of the counter, 2 ^ WIDTH
  Cycles,      \* values of the cycle register
  MaxGen       \* bound on the commands that write duties or phases

PASS == TRANS_NUM + 4    \* the shortest period a pass fits in; nothing enforces it

ASSUME SetAssumption ==
  /\ TRANS_NUM \in Nat \ {0}
  /\ WORDS \in Nat /\ WORDS > PASS
  /\ Cycles \subseteq 0 .. WORDS - 1
  /\ MaxGen \in Nat

VARIABLES
  op,        \* what the firmware is writing: "none", "duty", "phase", "clear"
  gen,       \* the generation of each kind of word
  at,        \* the words of each kind that the last command has written
  mem,       \* tr_bram: by row, the generations of duty and phase
  sync0,     \* the last three samples of CAT_SYNC0, the oldest first
  timeCnt,   \* time_cnt_for_ultrasound
  cycle,     \* the cycle register, as the config control sets it
  trState,   \* tr_state
  addr,      \* tr_bram_addr
  cnt,       \* tr_cnt_write
  bramQ,     \* tr_bram: the word read at the last edge
  dout,      \* tr_bram_dataout: its output register
  buf,       \* duty_buf and phase_buf
  out,       \* duty and phase
  t, c       \* counter and cycle as the pulse generators see them

host == <<op, gen, at, mem>>
sync == <<sync0, timeCnt, t, c>>
pass == <<trState, addr, cnt, bramQ, dout, buf>>
vars == <<host, sync, cycle, pass, out>>

Trans == 0 .. TRANS_NUM - 1
Rows == 0 .. TRANS_NUM + 1      \* the rows a pass reads, the last two in vain
Kinds == {"duty", "phase"}
Gens == [Kinds -> 0 .. MaxGen]
Words == [row : Rows, gen : Gens]
TrStates == {"IDLE", "WAIT_0", "WAIT_1", "DUTY_PHASE"}

Zero == [k \in Kinds |-> 0]
Zeros == [i \in Trans |-> [row |-> i, gen |-> Zero]]

(* The cycle register has no reset, and the config control may have run.   *)
Init ==
  /\ op = "none" /\ gen = Zero /\ at = [k \in Kinds |-> TRANS_NUM]
  /\ mem = [r \in Rows |-> Zero]
  /\ sync0 = <<FALSE, FALSE, FALSE>> /\ timeCnt = 0 /\ cycle \in Cycles
  /\ trState = "IDLE" /\ addr = 0 /\ cnt = 0
  /\ bramQ = [row |-> 0, gen |-> Zero] /\ dout = [row |-> 0, gen |-> Zero]
  /\ buf = Zeros /\ out = Zeros
  /\ t = 0 /\ c = 0
-----------------------------------------------------------------------------
(* The firmware.                                                           *)

Rests == UNCHANGED host

(* A command starts over on the words of the kinds ks.  Each begins a      *)
(* generation at least, so that MaxGen bounds their number.                *)
Start(o, ks) ==
  /\ op = "none" /\ op' = o
  /\ gen["duty"] + gen["phase"] < MaxGen
  /\ gen' = [k \in Kinds |-> IF k \in ks THEN gen[k] + 1 ELSE gen[k]]
  /\ at' = [k \in Kinds |-> IF k \in ks THEN 0 ELSE at[k]]
  /\ UNCHANGED mem

(* A mutant: the words are written from the last to the first.             *)
BugDownwards(k, last) ==
  /\ at[k] < TRANS_NUM
  /\ mem' = [mem EXCEPT ![TRANS_NUM - 1 - at[k]] =
                          [mem[TRANS_NUM - 1 - at[k]] EXCEPT ![k] = gen[k]]]
  /\ at' = [at EXCEPT ![k] = at[k] + 1]
  /\ op' = IF k = last /\ at[k] = TRANS_NUM - 1 THEN "none" ELSE op
  /\ UNCHANGED gen

(* The next word of kind k, done after the last one of kind last.          *)
Write(k, last) ==
  /\ at[k] < TRANS_NUM
  /\ mem' = [mem EXCEPT ![at[k]] = [mem[at[k]] EXCEPT ![k] = gen[k]]]
  /\ at' = [at EXCEPT ![k] = at[k] + 1]
  /\ op' = IF k = last /\ at[k] = TRANS_NUM - 1 THEN "none" ELSE op
  /\ UNCHANGED gen

WriteDuty == op = "duty" /\ Write("duty", "duty")
WritePhase == op = "phase" /\ Write("phase", "phase")

(* clear() zeroes the words in the order of their addresses.               *)
Clear ==
  /\ op = "clear"
  /\ \/ at["phase"] = at["duty"] /\ Write("phase", "duty")
     \/ at["phase"] > at["duty"] /\ Write("duty", "duty")

Firmware ==
  \/ Rests
  \/ Start("duty", {"duty"}) \/ Start("phase", {"phase"}) \/ Start("clear", Kinds)
  \/ WriteDuty \/ WritePhase \/ Clear
-----------------------------------------------------------------------------
(* The counter.                                                            *)

Sync0Edge == sync0 = <<FALSE, TRUE, TRUE>>

(* A mutant: one clock late.                                               *)
BugLate == timeCnt = cycle

(* cycle - 1 is taken in 32 bits: no counter is the last of cycle 0.       *)
LastClock == timeCnt + 1 = cycle

Synchronize ==
  /\ \E catSync0 \in BOOLEAN : sync0' = <<sync0[2], sync0[3], catSync0>>
  /\ timeCnt' = IF Sync0Edge \/ LastClock \/ timeCnt + 1 = WORDS THEN 0 ELSE timeCnt + 1
  /\ t' = timeCnt /\ c' = cycle
-----------------------------------------------------------------------------
(* The pass.  tr_bram answers an address two edges later.                  *)

ReadMemory ==
  /\ bramQ' = [row |-> addr, gen |-> mem[addr]]
  /\ dout' = bramQ

(* A mutant: begins a clock late.                                          *)
BugIdle ==
  /\ trState = "IDLE"
  /\ IF timeCnt = 1 THEN addr' = 0 /\ trState' = "WAIT_0"
                    ELSE UNCHANGED <<addr, trState>>
  /\ UNCHANGED <<cnt, buf>>

Idle ==
  /\ trState = "IDLE"
  /\ IF timeCnt = 0 THEN addr' = 0 /\ trState' = "WAIT_0"
                    ELSE UNCHANGED <<addr, trState>>
  /\ UNCHANGED <<cnt, buf>>

(* A mutant: counts on one wait state for the latency of two.              *)
BugWait0 ==
  /\ trState = "WAIT_0" /\ trState' = "DUTY_PHASE"
  /\ addr' = addr + 1 /\ cnt' = 0 /\ UNCHANGED buf

Waits0 ==
  /\ trState = "WAIT_0" /\ trState' = "WAIT_1"
  /\ addr' = addr + 1
  /\ UNCHANGED <<cnt, buf>>

Waits1 ==
  /\ trState = "WAIT_1" /\ trState' = "DUTY_PHASE"
  /\ addr' = addr + 1 /\ cnt' = 0
  /\ UNCHANGED buf

(* A mutant: goes on for one row too many.                                 *)
BugOneMore ==
  /\ trState = "DUTY_PHASE"
  /\ buf' = [buf EXCEPT ![cnt] = dout]
  /\ IF cnt = TRANS_NUM
       THEN trState' = "IDLE" /\ addr' = 0 /\ UNCHANGED cnt
       ELSE addr' = addr + 1 /\ cnt' = cnt + 1 /\ UNCHANGED trState

(* A mutant: stops before the last row.                                    *)
BugOneLess ==
  /\ trState = "DUTY_PHASE"
  /\ buf' = [buf EXCEPT ![cnt] = dout]
  /\ IF cnt + 1 >= TRANS_NUM - 1
       THEN trState' = "IDLE" /\ addr' = 0 /\ UNCHANGED cnt
       ELSE addr' = addr + 1 /\ cnt' = cnt + 1 /\ UNCHANGED trState

Copies ==
  /\ trState = "DUTY_PHASE"
  /\ buf' = [buf EXCEPT ![cnt] = dout]
  /\ IF cnt = TRANS_NUM - 1
       THEN trState' = "IDLE" /\ addr' = 0 /\ UNCHANGED cnt
       ELSE addr' = addr + 1 /\ cnt' = cnt + 1 /\ UNCHANGED trState

Latch == out' = IF LastClock THEN buf ELSE out

Clock ==
  /\ Synchronize /\ ReadMemory /\ Latch
  /\ Idle \/ Waits0 \/ Waits1 \/ Copies

(* The reset leaves the memory, its outputs, cycle, t and c alone.         *)
Reset ==
  /\ sync0' = <<FALSE, FALSE, FALSE>> /\ timeCnt' = 0 /\ t' = timeCnt /\ c' = cycle
  /\ ReadMemory
  /\ trState' = "IDLE" /\ addr' = 0 /\ cnt' = 0 /\ buf' = Zeros /\ out' = Zeros
-----------------------------------------------------------------------------
Next == (Clock \/ Reset) /\ Firmware /\ cycle' \in Cycles

Spec == Init /\ [][Next]_vars

(* The clock runs.                                                         *)
FairSpec == Spec /\ WF_vars(Next)
-----------------------------------------------------------------------------
(* Type invariant.                                                         *)
TypeOK ==
  /\ op \in Kinds \cup {"none", "clear"}
  /\ gen \in Gens /\ at \in [Kinds -> 0 .. TRANS_NUM] /\ mem \in [Rows -> Gens]
  /\ sync0 \in BOOLEAN \X BOOLEAN \X BOOLEAN
  /\ timeCnt \in 0 .. WORDS - 1 /\ cycle \in Cycles
  /\ trState \in TrStates /\ addr \in Rows /\ cnt \in Trans
  /\ bramQ \in Words /\ dout \in Words
  /\ buf \in [Trans -> Words] /\ out \in [Trans -> Words]
  /\ t \in 0 .. WORDS - 1 /\ c \in Cycles \cup {0}

(* The transducers never latch buffers that a pass is still filling in a   *)
(* period that a pass fits in, whenever a SYNC0 or a new cycle value falls *)
(* into the pass.                                                          *)
NoLatchInPass == LastClock /\ cycle >= PASS => trState = "IDLE"

(* Every transducer gets the words of its own row: the two wait states     *)
(* make up for the latency of the memory.                                  *)
RowsInPlace == \A i \in Trans : buf[i].row = i /\ out[i].row = i

(* A command that arrives in the middle of a pass tears it in one place    *)
(* only: the transducers before it have the new words and those after it   *)
(* the ones just before, never three generations or a hole.  In a period   *)
(* too short for a pass what is latched can mix two passes, and words of   *)
(* any age, but newer ones never come after older ones.                    *)
TornInOnePlace ==
  [][\A k \in Kinds : \A i, j \in Trans :
       i < j => /\ out'[i].gen[k] >= out'[j].gen[k]
                /\ cycle >= PASS => out'[i].gen[k] <= out'[j].gen[k] + 1]_out

(* A step that neither writes the memory nor the cycle, nor resets.        *)
Quiet == UNCHANGED <<mem, cycle>> /\ ~Reset

(* Once the memory and the cycle stay as they are, the transducers get     *)
(* what is in the memory and keep it, however SYNC0 falls into the passes, *)
(* as long as periods are completed.                                       *)
Settles ==
  (<>[][Quiet]_vars /\ []<>LastClock) =>
    <>[](\A i \in Trans : out[i].gen = mem[i])

(* After a cycle value below the running counter the counter finds back    *)
(* into the period, and the pulse generators see t < c from then on.       *)
CounterRecovers ==
  <>[][Quiet /\ cycle # 0]_vars => <>[](t < c)
=============================================================================
