------------------------ MODULE TransducerMap_proofs ------------------------
(***************************************************************************)
(* Proofs that the numbering of Device and the one of cvt_uid agree, and   *)
(* that a word sent for a transducer gets to this one, whichever device of *)
(* however many it is on.                                                  *)
(***************************************************************************)
EXTENDS WordPath, TLAPS

(* The places walked so far, less the missing ones among them (19, 20 and  *)
(* 34 in the order of the walk), have been numbered.                       *)
Walked == y * NUM_TRANS_X + x
Numbered(n) == IF n <= 19 THEN n ELSE IF n = 20 THEN 19 ELSE IF n <= 34 THEN n - 2 ELSE n - 3

Inv ==
  /\ y \in 0 .. NUM_TRANS_Y /\ x \in 0 .. NUM_TRANS_X - 1 /\ (y = NUM_TRANS_Y => x = 0)
  /\ index = Numbered(Walked)
  /\ position \in [Numbers -> Places \cup {Nowhere}]
  /\ SameTransducer

(* The missing places are the gaps of the pins.                            *)
LEMMA PlacePin ==
  ASSUME y \in 0 .. NUM_TRANS_Y - 1, x \in 0 .. NUM_TRANS_X - 1, ~IsMissing(x, y)
  PROVE  /\ Numbered(Walked) \in Numbers /\ CvtUid(Numbered(Walked)) = Walked
         /\ Numbered(Walked + 1) = Numbered(Walked) + 1
  BY DEF NUM_TRANS_X, NUM_TRANS_Y, NUM_TRANS_IN_UNIT, IsMissing, Numbered, Walked, CvtUid, Numbers

LEMMA SkipGap ==
  ASSUME y \in 0 .. NUM_TRANS_Y - 1, x \in 0 .. NUM_TRANS_X - 1, IsMissing(x, y)
  PROVE  Numbered(Walked + 1) = Numbered(Walked)
  BY DEF NUM_TRANS_X, NUM_TRANS_Y, IsMissing, Numbered, Walked

LEMMA Walks ==
  ASSUME y \in 0 .. NUM_TRANS_Y - 1, x \in 0 .. NUM_TRANS_X - 1, NextPlace
  PROVE  /\ y' \in 0 .. NUM_TRANS_Y /\ x' \in 0 .. NUM_TRANS_X - 1
         /\ y' = NUM_TRANS_Y => x' = 0
         /\ Walked' = Walked + 1
  BY DEF NUM_TRANS_X, NUM_TRANS_Y, NextPlace, Walked

LEMMA NextInv == Inv /\ [Next]_vars => Inv'
<1> SUFFICES ASSUME Inv, [Next]_vars PROVE Inv'
  OBVIOUS
<1>1. CASE UNCHANGED vars
  BY <1>1 DEF vars, Inv, Walked, SameTransducer
<1>2. CASE Skip
  <2>1. y \in 0 .. NUM_TRANS_Y - 1 /\ x \in 0 .. NUM_TRANS_X - 1 /\ NextPlace /\ IsMissing(x, y)
    BY <1>2 DEF Skip, Inv, NUM_TRANS_Y
  <2>2. index' = Numbered(Walked')
    BY <1>2, <2>1, SkipGap, Walks DEF Skip, Inv
  <2> QED
    BY <1>2, <2>1, <2>2, Walks DEF Skip, Inv, SameTransducer
<1>3. CASE Place
  <2>1. y \in 0 .. NUM_TRANS_Y - 1 /\ x \in 0 .. NUM_TRANS_X - 1 /\ NextPlace /\ ~IsMissing(x, y)
    BY <1>3 DEF Place, Inv, NUM_TRANS_Y
  <2>2. index \in Numbers /\ CvtUid(index) = Walked /\ index' = Numbered(Walked')
    BY <1>3, <2>1, PlacePin, Walks DEF Place, Inv
  <2>3. position' \in [Numbers -> Places \cup {Nowhere}]
    BY <1>3, <2>1, <2>2 DEF Place, Inv, Places
  <2>4. /\ position'[index] = <<x, y>>
        /\ \A i \in Numbers : i # index => position'[i] = position[i]
    BY <1>3, <2>2 DEF Place, Inv
  <2>5. Pin(position'[index]) = CvtUid(index)
    BY <2>2, <2>4 DEF Pin, Walked
  <2>6. \A i \in Numbers : i < index' => i < index \/ i = index
    BY <1>3, <2>2 DEF Place, Numbers, NUM_TRANS_IN_UNIT
  <2>7. SameTransducer'
    BY <2>4, <2>5, <2>6 DEF Inv, SameTransducer
  <2> QED
    BY <2>1, <2>2, <2>3, <2>7, Walks DEF Inv
<1> QED
  BY <1>1, <1>2, <1>3 DEF Next

LEMMA InitInv == Init => Inv
  BY DEF Init, Inv, Numbered, Walked, SameTransducer, Numbers, NUM_TRANS_X, NUM_TRANS_Y, NUM_TRANS_IN_UNIT

LEMMA InvHolds == Spec => []Inv
  BY InitInv, NextInv, PTL DEF Spec

LEMMA InvIsTypeOK == Inv => TypeOK
<1> SUFFICES ASSUME Inv PROVE TypeOK
  OBVIOUS
<1>1. index \in 0 .. NUM_TRANS_IN_UNIT
  BY DEF Inv, Numbered, Walked, NUM_TRANS_X, NUM_TRANS_Y, NUM_TRANS_IN_UNIT
<1>2. y < NUM_TRANS_Y /\ ~IsMissing(x, y) => index \in Numbers
  BY PlacePin DEF Inv, NUM_TRANS_X, NUM_TRANS_Y
<1> QED
  BY <1>1, <1>2 DEF Inv, TypeOK

(* The walk stays on the grid and never writes behind the array.           *)
THEOREM TypeCorrect == Spec => []TypeOK
  BY InvIsTypeOK, InvHolds, PTL

(* The place the client computes data for and the pin the FPGA puts them   *)
(* out at belong to the same transducer, for all 249 of them.              *)
THEOREM NumberingsAgree == Spec => []SameTransducer
<1>1. Inv => SameTransducer
  BY DEF Inv
<1> QED
  BY <1>1, InvHolds, PTL

(* The walk numbers all 249 transducers and no more.                       *)
THEOREM WalkPlacesAll == Spec => []AllPlaced
<1>1. Inv => AllPlaced
  BY DEF Inv, AllPlaced, Numbered, Walked, NUM_TRANS_X, NUM_TRANS_Y, NUM_TRANS_IN_UNIT
<1> QED
  BY <1>1, InvHolds, PTL
-----------------------------------------------------------------------------
(* The way of a word.  Every place of the memories that a transducer, or   *)
(* the cycle, is read from holds zero or the word meant for it, the client *)
(* having finished its geometry before anything was sent.                  *)
Duty(i) == [kind |-> "duty", dev |-> dev, no |-> i]
Phase(i) == [kind |-> "phase", dev |-> dev, no |-> i]
Cycle == [kind |-> "cycle", dev |-> dev, no |-> 0]

Command ==
  \/ op = "none" /\ at \in 0 .. 2 * TRANS_NUM + 2
  \/ op \in {"duty", "phase"} /\ at \in Numbers
  \/ op = "cycle" /\ at = 0
  \/ op = "clear" /\ at \in 0 .. 2 * TRANS_NUM + 1

Slots ==
  /\ \A i \in Numbers : tr[2 * i + 1] \in {Zero, Duty(i)} /\ tr[2 * i] \in {Zero, Phase(i)}
  /\ config[16] \in {Zero, Cycle} /\ config[255] = Version

(* Before the geometry is complete nothing has been sent; what a command   *)
(* has been at is as the command leaves it.                                *)
Progress ==
  /\ y # NUM_TRANS_Y => /\ op = "none" /\ config[16] = Zero
                        /\ \A i \in Numbers : tr[2 * i + 1] = Zero /\ tr[2 * i] = Zero
  /\ op = "duty" => \A i \in Numbers : i < at => tr[2 * i + 1] = Duty(i)
  /\ op = "phase" => \A i \in Numbers : i < at => tr[2 * i] = Phase(i)
  /\ op = "clear" => \A a \in 0 .. 497 : a < at => tr[a] = Zero

MemoryTypes ==
  /\ dev \in 0 .. Devices - 1
  /\ tr \in [0 .. 511 -> Words] /\ config \in [0 .. 255 -> Words]

PathInv == Inv /\ MemoryTypes /\ Command /\ Slots /\ Progress

LEMMA WordsOfDevice ==
  ASSUME MemoryTypes, NEW i \in Numbers
  PROVE  /\ Zero \in Words /\ Version \in Words
         /\ Duty(i) \in Words /\ Phase(i) \in Words /\ Cycle \in Words
<1>1. 0 \in 0 .. Devices - 1 /\ 0 \in Numbers
  BY PathAssumption DEF Numbers, NUM_TRANS_IN_UNIT
<1> QED
  BY <1>1 DEF MemoryTypes, Words, Kinds, Zero, Version, Duty, Phase, Cycle

(* send() cuts the buffer where packing has put the body of the device.    *)
LEMMA BodyIsOwn ==
  ASSUME MemoryTypes, NEW i \in Numbers, NEW kind
  PROVE  Received(kind, i) = [kind |-> kind, dev |-> dev, no |-> i]
<1>1. dev \in Nat /\ i \in 0 .. 248
  BY PathAssumption DEF MemoryTypes, Numbers, NUM_TRANS_IN_UNIT
<1>2. SentFrom(i) - HEADER_SIZE = 2 * (249 * dev + i)
  BY <1>1 DEF SentFrom, HEADER_SIZE, BodySize, EC_OUTPUT_FRAME_SIZE
<1>3. (SentFrom(i) - HEADER_SIZE) \div 2 = 249 * dev + i
  BY <1>1, <1>2
<1>4. (249 * dev + i) \div 249 = dev /\ (249 * dev + i) % 249 = i
  BY <1>1
<1> QED
  BY <1>3, <1>4 DEF Received, PackedAt, NUM_TRANS_IN_UNIT

(* What a write to each of the addresses does.                             *)
LEMMA WriteTr ==
  ASSUME NEW a \in 0 .. 511, NEW w, BusWrite(get_addr(BRAM_TR_SELECT, 0) + a, w)
  PROVE  tr' = [tr EXCEPT ![a] = w] /\ config' = config
<1> DEFINE b == get_addr(BRAM_TR_SELECT, 0) + a
           i == CpuAddr(b) % 512
           j == CpuAddr(b) % 256
<1>1. b = a
  BY DEF get_addr, BRAM_TR_SELECT
<1>2. CpuSelect(b) = 0 /\ i = a
  BY <1>1 DEF CpuSelect, CpuAddr
<1>3. /\ tr' = IF CpuSelect(b) = 0 THEN [tr EXCEPT ![i] = w] ELSE tr
      /\ config' = IF CpuSelect(b) = 15 THEN [config EXCEPT ![j] = w] ELSE config
  BY DEF BusWrite, BRAM_TR_SELECT, BRAM_CONFIG_SELECT
<1> HIDE DEF b, i, j
<1> QED
  BY <1>2, <1>3

LEMMA WriteConfig ==
  ASSUME NEW a \in 0 .. 255, NEW w, BusWrite(get_addr(BRAM_CONFIG_SELECT, a), w)
  PROVE  config' = [config EXCEPT ![a] = w] /\ tr' = tr
<1> DEFINE b == get_addr(BRAM_CONFIG_SELECT, a)
           i == CpuAddr(b) % 512
           j == CpuAddr(b) % 256
<1>1. b = 61440 + a
  BY DEF get_addr, BRAM_CONFIG_SELECT
<1>2. CpuSelect(b) = 15 /\ j = a
  BY <1>1 DEF CpuSelect, CpuAddr
<1>3. /\ tr' = IF CpuSelect(b) = 0 THEN [tr EXCEPT ![i] = w] ELSE tr
      /\ config' = IF CpuSelect(b) = 15 THEN [config EXCEPT ![j] = w] ELSE config
  BY DEF BusWrite, BRAM_TR_SELECT, BRAM_CONFIG_SELECT
<1> HIDE DEF b, i, j
<1> QED
  BY <1>2, <1>3

LEMMA Distinct ==
  /\ \A i : Zero # Duty(i) /\ Zero # Phase(i)
  /\ Zero # Cycle
  BY DEF Zero, Duty, Phase, Cycle

LEMMA TrSlots ==
  ASSUME NEW i \in Numbers
  PROVE  2 * i + 1 \in 0 .. 511 /\ 2 * i \in 0 .. 511
  BY DEF Numbers, NUM_TRANS_IN_UNIT

LEMMA StartInv == StartUp => PathInv
<1> SUFFICES ASSUME StartUp PROVE PathInv
  OBVIOUS
<1>1. Inv
  BY InitInv DEF StartUp
<1>2. 0 \in 0 .. Devices - 1 /\ 0 \in Numbers
  BY PathAssumption DEF Numbers, NUM_TRANS_IN_UNIT
<1>3. Zero \in Words /\ Version \in Words
  BY <1>2 DEF Words, Kinds, Zero, Version
<1>4. MemoryTypes
  BY <1>3 DEF StartUp, MemoryTypes
<1>5. Command
  BY DEF StartUp, Command, TRANS_NUM
<1>6. \A i \in Numbers : tr[2 * i + 1] = Zero /\ tr[2 * i] = Zero
  BY TrSlots DEF StartUp
<1>7. config[16] = Zero /\ config[255] = Version
  BY DEF StartUp, FPGA_VER_ADDR
<1> QED
  BY <1>1, <1>4, <1>5, <1>6, <1>7 DEF StartUp, PathInv, Slots, Progress

(* The steps that leave the memories alone.                                *)
LEMMA WalkStep == ASSUME PathInv, Walk \/ UNCHANGED pathVars PROVE PathInv'
<1>1. [Next]_vars /\ UNCHANGED <<dev, op, at, tr, config>>
  BY DEF Walk, pathVars, memories
<1>2. Inv'
  BY <1>1, NextInv DEF PathInv
<1>3. y = NUM_TRANS_Y => y' = NUM_TRANS_Y
  BY <1>1 DEF Next, Skip, Place, vars, NUM_TRANS_Y
<1>4. MemoryTypes' /\ Command'
  BY <1>1 DEF PathInv, MemoryTypes, Command
<1>5. Slots'
  BY <1>1 DEF PathInv, Slots, Duty, Phase, Cycle
<1>6. Progress'
  BY <1>1, <1>3 DEF PathInv, Progress, Duty, Phase
<1> QED
  BY <1>2, <1>4, <1>5, <1>6 DEF PathInv

LEMMA SameGeometry == ASSUME Inv, UNCHANGED vars PROVE Inv'
  BY NextInv

LEMMA ReceiveStep ==
  ASSUME PathInv, NEW o \in {"duty", "phase", "cycle", "clear"}, Receive(o)
  PROVE  PathInv'
<1>1. /\ y = NUM_TRANS_Y /\ y' = y /\ op' = o /\ at' = 0 /\ UNCHANGED <<dev, tr, config>>
      /\ UNCHANGED vars
  BY DEF Receive, memories, vars
<1>2. Inv'
  BY <1>1, SameGeometry DEF PathInv
<1>3. MemoryTypes' /\ Slots'
  BY <1>1 DEF PathInv, MemoryTypes, Slots, Duty, Phase, Cycle
<1>4. Command'
  BY <1>1 DEF Command, Numbers, NUM_TRANS_IN_UNIT, TRANS_NUM
<1>5. Progress'
  BY <1>1 DEF Progress, Numbers, NUM_TRANS_IN_UNIT
<1> QED
  BY <1>2, <1>3, <1>4, <1>5 DEF PathInv

LEMMA DutyStep ==
  ASSUME PathInv, write_duty
  PROVE  PathInv' /\ (op' = "none" => \A i \in Numbers : tr'[2 * i + 1] = Duty(i)')
<1>1. /\ op = "duty" /\ op' = (IF at + 1 = 249 THEN "none" ELSE "duty") /\ at' = at + 1
      /\ dev' = dev /\ y' = y /\ UNCHANGED vars
  BY DEF write_duty, Loop, TRANS_NUM, vars
<1>2. at \in Numbers /\ y = NUM_TRANS_Y
  BY <1>1 DEF PathInv, Command, Progress
<1>3. Received("duty", at) = Duty(at)
  BY <1>2, BodyIsOwn DEF PathInv, Duty
<1>4. 2 * at + 1 \in 0 .. 511
  BY <1>2, TrSlots
<1>5. BusWrite(get_addr(BRAM_TR_SELECT, 0) + (2 * at + 1), Duty(at))
  <2>1. get_addr(BRAM_TR_SELECT, 0) + 2 * at + 1 = get_addr(BRAM_TR_SELECT, 0) + (2 * at + 1)
    BY <1>2 DEF Numbers, NUM_TRANS_IN_UNIT, get_addr, BRAM_TR_SELECT
  <2> QED
    BY <1>3, <2>1 DEF write_duty
<1>6. tr' = [tr EXCEPT ![2 * at + 1] = Duty(at)] /\ config' = config
  BY <1>4, <1>5, WriteTr
<1>7. MemoryTypes'
  BY <1>1, <1>2, <1>6, WordsOfDevice DEF PathInv, MemoryTypes
<1>8. \A i \in Numbers : /\ tr'[2 * i + 1] = IF i = at THEN Duty(at) ELSE tr[2 * i + 1]
                        /\ tr'[2 * i] = tr[2 * i]
  <2>1. \A i \in Numbers : 2 * i # 2 * at + 1 /\ (2 * i + 1 = 2 * at + 1 <=> i = at)
    BY <1>2 DEF Numbers, NUM_TRANS_IN_UNIT
  <2> QED
    BY <1>6, <2>1, TrSlots DEF PathInv, MemoryTypes
<1>9. \A i \in Numbers : i < at' => tr'[2 * i + 1] = Duty(i)
  <2>1. \A i \in Numbers : i < at' => i < at \/ i = at
    BY <1>1, <1>2 DEF Numbers, NUM_TRANS_IN_UNIT
  <2> QED
    BY <1>1, <1>8, <2>1 DEF PathInv, Progress
<1>10. Slots'
  BY <1>1, <1>6, <1>8 DEF PathInv, Slots, Duty, Phase, Cycle
<1>11. Command'
  BY <1>1, <1>2 DEF Command, Numbers, NUM_TRANS_IN_UNIT, TRANS_NUM
<1>12. \A i : Duty(i)' = Duty(i)
  BY <1>1 DEF Duty
<1>13. Progress'
  BY <1>1, <1>2, <1>9, <1>12 DEF Progress
<1>14. op' = "none" => \A i \in Numbers : i < at'
  BY <1>1, <1>2 DEF Numbers, NUM_TRANS_IN_UNIT
<1>15. Inv'
  BY <1>1, SameGeometry DEF PathInv
<1> QED
  BY <1>7, <1>9, <1>10, <1>11, <1>12, <1>13, <1>14, <1>15 DEF PathInv

LEMMA PhaseStep ==
  ASSUME PathInv, write_phase
  PROVE  PathInv' /\ (op' = "none" => \A i \in Numbers : tr'[2 * i] = Phase(i)')
<1>1. /\ op = "phase" /\ op' = (IF at + 1 = 249 THEN "none" ELSE "phase") /\ at' = at + 1
      /\ dev' = dev /\ y' = y /\ UNCHANGED vars
  BY DEF write_phase, Loop, TRANS_NUM, vars
<1>2. at \in Numbers /\ y = NUM_TRANS_Y
  BY <1>1 DEF PathInv, Command, Progress
<1>3. Received("phase", at) = Phase(at)
  BY <1>2, BodyIsOwn DEF PathInv, Phase
<1>4. 2 * at \in 0 .. 511
  BY <1>2, TrSlots
<1>5. tr' = [tr EXCEPT ![2 * at] = Phase(at)] /\ config' = config
  BY <1>3, <1>4, WriteTr DEF write_phase
<1>6. MemoryTypes'
  BY <1>1, <1>2, <1>5, WordsOfDevice DEF PathInv, MemoryTypes
<1>7. \A i \in Numbers : /\ tr'[2 * i] = IF i = at THEN Phase(at) ELSE tr[2 * i]
                        /\ tr'[2 * i + 1] = tr[2 * i + 1]
  <2>1. \A i \in Numbers : 2 * i + 1 # 2 * at /\ (2 * i = 2 * at <=> i = at)
    BY <1>2 DEF Numbers, NUM_TRANS_IN_UNIT
  <2> QED
    BY <1>5, <2>1, TrSlots DEF PathInv, MemoryTypes
<1>8. \A i \in Numbers : i < at' => tr'[2 * i] = Phase(i)
  <2>1. \A i \in Numbers : i < at' => i < at \/ i = at
    BY <1>1, <1>2 DEF Numbers, NUM_TRANS_IN_UNIT
  <2> QED
    BY <1>1, <1>7, <2>1 DEF PathInv, Progress
<1>9. Slots'
  BY <1>1, <1>5, <1>7 DEF PathInv, Slots, Duty, Phase, Cycle
<1>10. Command'
  BY <1>1, <1>2 DEF Command, Numbers, NUM_TRANS_IN_UNIT, TRANS_NUM
<1>11. \A i : Phase(i)' = Phase(i)
  BY <1>1 DEF Phase
<1>12. Progress'
  BY <1>1, <1>2, <1>8, <1>11 DEF Progress
<1>13. op' = "none" => \A i \in Numbers : i < at'
  BY <1>1, <1>2 DEF Numbers, NUM_TRANS_IN_UNIT
<1>14. Inv'
  BY <1>1, SameGeometry DEF PathInv
<1> QED
  BY <1>6, <1>8, <1>9, <1>10, <1>11, <1>12, <1>13, <1>14 DEF PathInv

LEMMA CycleStep ==
  ASSUME PathInv, SetCycle
  PROVE  PathInv' /\ op' = "none" /\ config'[16] = Cycle'
<1>1. /\ op = "cycle" /\ at = 0 /\ op' = "none" /\ at' = 1
      /\ dev' = dev /\ y' = y /\ UNCHANGED vars
  BY DEF SetCycle, Loop, PathInv, Command, vars
<1>2. y = NUM_TRANS_Y
  BY <1>1 DEF PathInv, Progress
<1>3. 0 \in Numbers
  BY DEF Numbers, NUM_TRANS_IN_UNIT
<1>4. Received("cycle", 0) = Cycle
  BY <1>3, BodyIsOwn DEF PathInv, Cycle
<1>5. config' = [config EXCEPT ![16] = Cycle] /\ tr' = tr
  BY <1>4, WriteConfig DEF SetCycle, CYCLE_CNT
<1>6. MemoryTypes'
  BY <1>1, <1>3, <1>5, WordsOfDevice DEF PathInv, MemoryTypes
<1>7. config'[16] = Cycle /\ config'[255] = config[255]
  BY <1>5 DEF PathInv, MemoryTypes
<1>8. Slots'
  BY <1>1, <1>5, <1>7 DEF PathInv, Slots, Duty, Phase, Cycle
<1>9. Command' /\ Progress'
  BY <1>1, <1>2 DEF Command, Progress, TRANS_NUM
<1>10. Inv'
  BY <1>1, SameGeometry DEF PathInv
<1> QED
  BY <1>1, <1>6, <1>7, <1>8, <1>9, <1>10 DEF PathInv, Cycle

LEMMA ClearStep ==
  ASSUME PathInv, clear
  PROVE  /\ PathInv'
         /\ op' = "none" => /\ config'[16] = Zero
                            /\ \A i \in Numbers : tr'[2 * i + 1] = Zero /\ tr'[2 * i] = Zero
<1>1. /\ op = "clear" /\ op' = (IF at + 1 = 500 THEN "none" ELSE "clear") /\ at' = at + 1
      /\ dev' = dev /\ y' = y /\ UNCHANGED vars
  BY DEF clear, Loop, Cleared, TRANS_NUM, vars
<1>2. at \in 0 .. 499 /\ y = NUM_TRANS_Y
  BY <1>1 DEF PathInv, Command, Progress, TRANS_NUM
<1>3. Command'
  BY <1>1, <1>2 DEF Command, TRANS_NUM
<1>4. Inv'
  BY <1>1, SameGeometry DEF PathInv
<1>5. 0 \in Numbers
  BY DEF Numbers, NUM_TRANS_IN_UNIT
<1>6. Zero \in Words
  BY <1>5, WordsOfDevice DEF PathInv
<1>7. \A a \in 0 .. 497 : a < at => tr[a] = Zero
  BY <1>1 DEF PathInv, Progress
<1> DEFINE Zeroed == \A a \in 0 .. 497 : a < at' => tr'[a] = Zero
           Kept == /\ MemoryTypes' /\ Slots' /\ Zeroed
                   /\ op' = "none" => config'[16] = Zero
<1>8. ASSUME at < 498, BusWrite(get_addr(BRAM_TR_SELECT, 0) + at, Zero) PROVE Kept
  <2>1. at \in 0 .. 511
    BY <1>2, <1>8
  <2>2. tr' = [tr EXCEPT ![at] = Zero] /\ config' = config
    BY <1>8, <2>1, WriteTr
  <2>3. MemoryTypes'
    BY <1>1, <1>6, <2>2 DEF PathInv, MemoryTypes
  <2>4. \A a \in 0 .. 511 : tr'[a] = IF a = at THEN Zero ELSE tr[a]
    BY <2>2 DEF PathInv, MemoryTypes
  <2>5. Slots'
    BY <1>1, <2>2, <2>4, TrSlots DEF PathInv, Slots, Duty, Phase, Cycle
  <2>6. \A a \in 0 .. 511 : a < at' => a < at \/ a = at
    BY <1>1, <1>2
  <2>7. ASSUME NEW a \in 0 .. 497, a < at' PROVE tr'[a] = Zero
    <3>1. a \in 0 .. 511
      OBVIOUS
    <3>2. a = at \/ tr[a] = Zero
      BY <1>7, <2>6, <2>7, <3>1
    <3> QED
      BY <2>4, <3>1, <3>2
  <2>8. op' # "none"
    BY <1>1, <1>2, <1>8
  <2> QED
    BY <2>3, <2>5, <2>7, <2>8
<1>9. ASSUME at >= 498, NEW a \in {0, 16}, at = 499 => a = 16,
             BusWrite(get_addr(BRAM_CONFIG_SELECT, a), Zero)
      PROVE  Kept
  <2>1. config' = [config EXCEPT ![a] = Zero] /\ tr' = tr
    BY <1>9, WriteConfig
  <2>2. MemoryTypes'
    BY <1>1, <1>6, <2>1 DEF PathInv, MemoryTypes
  <2>3. config'[16] \in {Zero, config[16]} /\ config'[255] = config[255] /\ (a = 16 => config'[16] = Zero)
    BY <1>9, <2>1 DEF PathInv, MemoryTypes
  <2>4. Slots'
    BY <1>1, <2>1, <2>3 DEF PathInv, Slots, Duty, Phase, Cycle
  <2>5. \A i \in 0 .. 497 : i < at
    BY <1>2, <1>9
  <2>6. Zeroed
    BY <1>7, <2>1, <2>5
  <2>7. op' = "none" => at = 499
    BY <1>1, <1>2
  <2> QED
    BY <1>9, <2>2, <2>3, <2>4, <2>6, <2>7
<1> HIDE DEF Kept
<1>10. Kept
  <2>1. CASE at < 498 /\ BusWrite(get_addr(BRAM_TR_SELECT, 0) + at, Zero)
    BY <1>8, <2>1
  <2>2. CASE at = 498 /\ BusWrite(get_addr(BRAM_CONFIG_SELECT, 0), Zero)
    BY <1>9, <2>2
  <2>3. CASE at = 499 /\ BusWrite(get_addr(BRAM_CONFIG_SELECT, 16), Zero)
    BY <1>9, <2>3
  <2> QED
    BY <2>1, <2>2, <2>3 DEF clear, Cleared, TRANS_NUM, CTRL_FLAGS_ADDR, CYCLE_CNT
<1> USE DEF Kept
<1>11. Progress'
  <2>1. Zeroed /\ y' = NUM_TRANS_Y /\ op' \in {"none", "clear"}
    BY <1>1, <1>2, <1>10
  <2> QED
    BY <2>1 DEF Progress
<1>12. op' = "none" => \A a \in 0 .. 497 : tr'[a] = Zero
  BY <1>1, <1>2, <1>10
<1>13. op' = "none" => /\ config'[16] = Zero
                      /\ \A i \in Numbers : tr'[2 * i + 1] = Zero /\ tr'[2 * i] = Zero
  <2>1. \A i \in Numbers : 2 * i + 1 \in 0 .. 497 /\ 2 * i \in 0 .. 497
    BY DEF Numbers, NUM_TRANS_IN_UNIT
  <2> QED
    BY <1>10, <1>12, <2>1
<1> QED
  BY <1>3, <1>4, <1>10, <1>11, <1>13 DEF PathInv

LEMMA PathNextInv == PathInv /\ [PathNext]_pathVars => PathInv'
  BY WalkStep, ReceiveStep, DutyStep, PhaseStep, CycleStep, ClearStep DEF PathNext, Firmware

LEMMA PathInvHolds == PathSpec => []PathInv
  BY StartInv, PathNextInv, PTL DEF PathSpec

(* Type correctness of the path.                                           *)
THEOREM PathTypeCorrect == PathSpec => []PathTypeOK
<1>1. PathInv => PathTypeOK
  <2> SUFFICES ASSUME PathInv PROVE PathTypeOK
    OBVIOUS
  <2>1. TypeOK
    BY InvIsTypeOK DEF PathInv
  <2>2. at \in 0 .. 2 * TRANS_NUM + 2 /\ op \in {"none", "duty", "phase", "cycle", "clear"}
    BY DEF PathInv, Command, TRANS_NUM, Numbers, NUM_TRANS_IN_UNIT
  <2> QED
    BY <2>1, <2>2 DEF PathInv, MemoryTypes, PathTypeOK
<1> QED
  BY <1>1, PathInvHolds, PTL

(* A word that reaches a transducer was computed for this device and for   *)
(* the place of this very transducer; no command writes over the version.  *)
THEOREM WordsArePlayedInPlace == PathSpec => []PlayedInPlace
<1>1. PathInv => PlayedInPlace
  <2> SUFFICES ASSUME PathInv PROVE PlayedInPlace
    OBVIOUS
  <2>1. ASSUME NEW i \in Numbers
        PROVE  IsFor(DutyOf(i), "duty", i) /\ IsFor(PhaseOf(i), "phase", i)
    <3>1. tr[2 * i + 1] \in {Zero, Duty(i)} /\ tr[2 * i] \in {Zero, Phase(i)}
      BY <2>1 DEF PathInv, Slots
    <3>2. CASE y # NUM_TRANS_Y
      BY <2>1, <3>2 DEF PathInv, Progress, IsFor, DutyOf, PhaseOf
    <3>3. CASE y = NUM_TRANS_Y
      <4>1. i < index
        BY <3>3 DEF PathInv, Inv, Numbered, Walked, Numbers, NUM_TRANS_X, NUM_TRANS_Y, NUM_TRANS_IN_UNIT
      <4>2. Pin(position[i]) = CvtUid(i)
        BY <4>1 DEF PathInv, Inv, SameTransducer
      <4> QED
        BY <3>1, <4>2 DEF IsFor, DutyOf, PhaseOf, Duty, Phase
    <3> QED
      BY <3>2, <3>3
  <2> QED
    BY <2>1 DEF PathInv, Slots, PlayedInPlace, CYCLE_ADDR, FPGA_VER_ADDR, Cycle
<1> QED
  BY <1>1, PathInvHolds, PTL

(* A command that is done has got to every transducer.                     *)
THEOREM CommandsReachAll == PathSpec => CommandsComplete
<1> DEFINE Complete ==
     /\ Done("duty") => \A i \in Numbers : DutyOf(i)'.kind = "duty"
     /\ Done("phase") => \A i \in Numbers : PhaseOf(i)'.kind = "phase"
     /\ Done("cycle") => config'[CYCLE_ADDR].kind = "cycle"
     /\ Done("clear") => /\ config'[CYCLE_ADDR] = Zero
                         /\ \A i \in Numbers : DutyOf(i)' = Zero /\ PhaseOf(i)' = Zero
<1>1. PathInv /\ [PathNext]_pathVars => Complete
  <2> SUFFICES ASSUME PathInv, [PathNext]_pathVars PROVE Complete
    OBVIOUS
  <2>1. CASE op' = op \/ op = "none"
    <3>1. ~Done("duty") /\ ~Done("phase") /\ ~Done("cycle") /\ ~Done("clear")
      BY <2>1 DEF Done
    <3> QED
      BY <3>1
  <2>2. CASE write_duty
    <3>1. ~Done("phase") /\ ~Done("cycle") /\ ~Done("clear")
      BY <2>2 DEF write_duty, Done
    <3>2. op' = "none" => \A i \in Numbers : tr'[2 * i + 1] = Duty(i)'
      BY <2>2, DutyStep
    <3>3. \A i : Duty(i)'.kind = "duty"
      BY DEF Duty
    <3> QED
      BY <3>1, <3>2, <3>3 DEF Done, DutyOf
  <2>3. CASE write_phase
    <3>1. ~Done("duty") /\ ~Done("cycle") /\ ~Done("clear")
      BY <2>3 DEF write_phase, Done
    <3>2. op' = "none" => \A i \in Numbers : tr'[2 * i] = Phase(i)'
      BY <2>3, PhaseStep
    <3>3. \A i : Phase(i)'.kind = "phase"
      BY DEF Phase
    <3> QED
      BY <3>1, <3>2, <3>3 DEF Done, PhaseOf
  <2>4. CASE SetCycle
    <3>1. ~Done("duty") /\ ~Done("phase") /\ ~Done("clear")
      BY <2>4 DEF SetCycle, Done
    <3>2. config'[16].kind = "cycle"
      BY <2>4, CycleStep DEF Cycle
    <3> QED
      BY <3>1, <3>2 DEF CYCLE_ADDR
  <2>5. CASE clear
    <3>1. ~Done("duty") /\ ~Done("phase") /\ ~Done("cycle")
      BY <2>5 DEF clear, Done
    <3>2. Done("clear") => /\ config'[16] = Zero
                           /\ \A i \in Numbers : tr'[2 * i + 1] = Zero /\ tr'[2 * i] = Zero
      BY <2>5, ClearStep DEF Done
    <3> QED
      BY <3>1, <3>2 DEF CYCLE_ADDR, DutyOf, PhaseOf
  <2>6. Walk \/ UNCHANGED pathVars \/ (\E o \in {"duty", "phase", "cycle", "clear"} : Receive(o))
          => op' = op \/ op = "none"
    BY DEF Walk, pathVars, Receive
  <2> QED
    BY <2>1, <2>2, <2>3, <2>4, <2>5, <2>6 DEF PathNext, Firmware
<1> QED
  BY <1>1, PathInvHolds, PTL DEF PathSpec, CommandsComplete
=============================================================================
