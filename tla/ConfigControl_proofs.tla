------------------------ MODULE ConfigControl_proofs ------------------------
(***************************************************************************)
(* Proofs that the config control never writes over a word of the CPU and  *)
(* that six clocks are enough for every word to get through, for any cycle *)
(* counts and flags the host may use.                                      *)
(***************************************************************************)
EXTENDS ConfigControl, TLAPS

(* The port is set to write only while its address is that of FPGA_INFO.   *)
PortInv ==
  /\ mem \in [ConfigWords -> AnyValue] /\ given \in [CpuWords -> AnyValue]
  /\ thermo \in Info /\ din \in Info
  /\ web => state = "CYCLE_READ" /\ addr = "FPGA_INFO"

Inv == PortInv /\ CpuWordsKept

LEMMA ValueTypes == 0 \in AnyValue /\ Info \subseteq AnyValue /\ 0 \in Info
  BY ConfigAssumption DEF AnyValue, Info

LEMMA Distinct == CpuWords \subseteq ConfigWords /\ "FPGA_INFO" \notin CpuWords
  BY DEF CpuWords, ConfigWords

LEMMA InitInv == Init => Inv
<1> SUFFICES ASSUME Init PROVE Inv
  OBVIOUS
<1>1. PICK f \in FlagValues, n \in CycleValues :
        /\ given = [w \in CpuWords |-> IF w = "CYCLE" THEN n ELSE f]
        /\ mem = [w \in ConfigWords |-> CASE w = "CYCLE" -> n [] w = "CTRL_FLAGS" -> f [] OTHER -> 0]
  BY DEF Init
<1>2. f \in AnyValue /\ n \in AnyValue /\ 0 \in AnyValue
  BY ValueTypes DEF AnyValue
<1>3. mem \in [ConfigWords -> AnyValue] /\ given \in [CpuWords -> AnyValue]
  BY <1>1, <1>2 DEF ConfigWords, CpuWords
<1>4. CpuWordsKept
  BY <1>1 DEF CpuWordsKept, CpuWords, ConfigWords
<1> QED
  BY <1>3, <1>4, ValueTypes DEF Init, Inv, PortInv

(* What a write of the CPU and one of the port do to the memory.           *)
LEMMA RamStep ==
  ASSUME Inv, NEW w \in CpuWords \X AnyValue \cup {NoWrite}, Ram(w)
  PROVE  /\ mem' \in [ConfigWords -> AnyValue] /\ given' \in [CpuWords -> AnyValue]
         /\ CpuWordsKept'
<1> DEFINE written == IF CpuWrites(w) THEN [mem EXCEPT ![w[1]] = w[2]] ELSE mem
<1>1. CpuWrites(w) => w[1] \in CpuWords /\ w[2] \in AnyValue
  BY DEF CpuWrites
<1>2. given' = IF CpuWrites(w) THEN [given EXCEPT ![w[1]] = w[2]] ELSE given
  BY DEF Ram
<1>3. /\ written \in [ConfigWords -> AnyValue] /\ given' \in [CpuWords -> AnyValue]
      /\ \A x \in CpuWords : written[x] = given'[x]
  BY <1>1, <1>2, Distinct DEF Inv, PortInv, CpuWordsKept
<1>4. mem' = IF web THEN [written EXCEPT !["FPGA_INFO"] = din] ELSE written
  BY DEF Ram, Inv, PortInv
<1>5. mem' \in [ConfigWords -> AnyValue] /\ \A x \in CpuWords : mem'[x] = written[x]
  BY <1>3, <1>4, ValueTypes, Distinct DEF Inv, PortInv
<1> QED
  BY <1>3, <1>5 DEF CpuWordsKept

LEMMA NextInv == Inv /\ [Next]_vars => Inv'
<1> SUFFICES ASSUME Inv, [Next]_vars PROVE Inv'
  OBVIOUS
<1>1. CASE UNCHANGED vars
  BY <1>1 DEF vars, cpu, ram, fsm, Inv, PortInv, CpuWordsKept
<1>2. CASE Clock /\ thermo' \in Info
  <2>1. PICK w \in CpuWords \X AnyValue \cup {NoWrite} :
          Ram(w) /\ (ReadFlags \/ WriteInfo \/ ReadCycle)
    BY <1>2 DEF Clock
  <2>2. din' \in Info /\ (web' => state' = "CYCLE_READ" /\ addr' = "FPGA_INFO")
    BY <2>1 DEF ReadFlags, WriteInfo, ReadCycle, Inv, PortInv
  <2> QED
    BY <1>2, <2>1, <2>2, RamStep DEF Inv, PortInv
<1>3. CASE Reset /\ thermo' \in Info
  <2>1. mem' = IF web THEN [mem EXCEPT !["FPGA_INFO"] = din] ELSE mem
    BY <1>3 DEF Reset, Inv, PortInv
  <2>2. mem' \in [ConfigWords -> AnyValue] /\ \A x \in CpuWords : mem'[x] = mem[x]
    BY <2>1, ValueTypes, Distinct DEF Inv, PortInv
  <2>3. given' = given /\ din' = 0 /\ web' = FALSE
    BY <1>3 DEF Reset, cpu
  <2> QED
    BY <1>3, <2>2, <2>3, ValueTypes DEF Inv, PortInv, CpuWordsKept
<1> QED
  BY <1>1, <1>2, <1>3 DEF Next

(* The words of the CPU stay as the CPU left them, however its writes fall *)
(* into the three states and wherever a reset cuts them off.               *)
THEOREM CpuOwnsItsWords == Spec => []CpuWordsKept
<1>1. Inv => CpuWordsKept
  BY DEF Inv
<1> QED
  BY <1>1, InitInv, NextInv, PTL DEF Spec

-----------------------------------------------------------------------------
(* What is under way in each of the three states, two edges deep.  After a *)
(* reset the port has been at the word of the flags, not of the cycle.     *)
Reads == CycleValues \cup FlagValues

Stage ==
  \/ /\ state = "CTRL_FLAGS_READ" /\ addr \in {"CYCLE", "CTRL_FLAGS"} /\ web = FALSE
     /\ bramQ \in AnyValue /\ dout \in FlagValues
     /\ addr = "CTRL_FLAGS" => age["CYCLE"] = 0
  \/ /\ state = "FPGA_INFO_WRITE" /\ addr = "CTRL_FLAGS" /\ web = FALSE
     /\ bramQ \in Reads /\ dout \in AnyValue
  \/ /\ state = "CYCLE_READ" /\ addr = "FPGA_INFO" /\ web = TRUE
     /\ bramQ \in FlagValues /\ dout \in Reads

Types ==
  /\ op \in {"none", "cycle"}
  /\ mem["CYCLE"] \in CycleValues /\ mem["CTRL_FLAGS"] \in FlagValues
  /\ mem["FPGA_INFO"] \in Info
  /\ flags \in {LowByte(f) : f \in FlagValues} /\ cycle \in Reads
  /\ age \in [ConfigWords -> 0 .. SETTLE]

(* How far a word of a given age has got in each state.                    *)
CycleOnItsWay ==
  /\ state = "CTRL_FLAGS_READ" => (age["CYCLE"] >= 4 => cycle = mem["CYCLE"])
  /\ state = "FPGA_INFO_WRITE" => /\ age["CYCLE"] >= 2 => bramQ = mem["CYCLE"]
                                  /\ age["CYCLE"] >= 5 => cycle = mem["CYCLE"]
  /\ state = "CYCLE_READ" => /\ age["CYCLE"] >= 3 => dout = mem["CYCLE"]
                             /\ age["CYCLE"] >= 6 => cycle = mem["CYCLE"]

FlagsOnTheirWay ==
  /\ state = "CTRL_FLAGS_READ" => /\ age["CTRL_FLAGS"] >= 2 => dout = mem["CTRL_FLAGS"]
                                  /\ age["CTRL_FLAGS"] >= 5 => flags = LowByte(mem["CTRL_FLAGS"])
  /\ state = "FPGA_INFO_WRITE" => (age["CTRL_FLAGS"] >= 3 => flags = LowByte(mem["CTRL_FLAGS"]))
  /\ state = "CYCLE_READ" => /\ age["CTRL_FLAGS"] >= 1 => bramQ = mem["CTRL_FLAGS"]
                             /\ age["CTRL_FLAGS"] >= 4 => flags = LowByte(mem["CTRL_FLAGS"])

InfoOnItsWay ==
  /\ state = "CTRL_FLAGS_READ" => (age["FPGA_INFO"] >= 2 => mem["FPGA_INFO"] = thermo)
  /\ state = "FPGA_INFO_WRITE" => (age["FPGA_INFO"] >= 3 => mem["FPGA_INFO"] = thermo)
  /\ state = "CYCLE_READ" => /\ age["FPGA_INFO"] >= 1 => din = thermo
                             /\ age["FPGA_INFO"] >= 4 => mem["FPGA_INFO"] = thermo

OnTheirWay == CycleOnItsWay /\ FlagsOnTheirWay /\ InfoOnItsWay

LEMMA NoFlags == 0 \in {LowByte(f) : f \in FlagValues}
<1>1. LowByte(0) = 0
  BY DEF LowByte
<1> QED
  BY <1>1, ConfigAssumption

LEMMA SettleType == SETTLE \in Nat /\ 0 \in 0 .. SETTLE
  BY ConfigAssumption

LEMMA StagesInit == Init => Types /\ Stage /\ OnTheirWay
<1> SUFFICES ASSUME Init PROVE Types /\ Stage /\ OnTheirWay
  OBVIOUS
<1>1. PICK f \in FlagValues, n \in CycleValues :
        /\ mem = [w \in ConfigWords |-> CASE w = "CYCLE" -> n [] w = "CTRL_FLAGS" -> f [] OTHER -> 0]
        /\ cycle = n /\ bramQ = f /\ dout = f
  BY DEF Init
<1>2. mem["CYCLE"] = n /\ mem["CTRL_FLAGS"] = f /\ mem["FPGA_INFO"] = 0
  BY <1>1 DEF ConfigWords
<1>3. age = [w \in ConfigWords |-> 0]
  BY DEF Init
<1>4. age["CYCLE"] = 0 /\ age["CTRL_FLAGS"] = 0 /\ age["FPGA_INFO"] = 0
  BY <1>3 DEF ConfigWords
<1>5. age \in [ConfigWords -> 0 .. SETTLE]
  BY <1>3, SettleType
<1>6. Types
  BY <1>1, <1>2, <1>5, ConfigAssumption, NoFlags, ValueTypes DEF Init, Types, Reads
<1>7. Stage
  BY <1>1, <1>4 DEF Init, Stage, AnyValue
<1>8. OnTheirWay
  BY <1>4 DEF Init, OnTheirWay, CycleOnItsWay, FlagsOnTheirWay, InfoOnItsWay
<1> QED
  BY <1>6, <1>7, <1>8

(* What one clock does to the three words, and to their ages.              *)
LEMMA WordStep ==
  ASSUME Inv, Types, NEW w \in CpuWords \X AnyValue \cup {NoWrite}, Firmware(w), Ram(w)
  PROVE  /\ op' \in {"none", "cycle"}
         /\ mem'["CYCLE"] \in CycleValues /\ mem'["CTRL_FLAGS"] \in FlagValues
         /\ mem'["FPGA_INFO"] = IF web THEN din ELSE mem["FPGA_INFO"]
         /\ ~(CpuWrites(w) /\ w[1] = "CYCLE") => mem'["CYCLE"] = mem["CYCLE"]
         /\ ~(CpuWrites(w) /\ w[1] = "CTRL_FLAGS") => mem'["CTRL_FLAGS"] = mem["CTRL_FLAGS"]
<1> DEFINE written == IF CpuWrites(w) THEN [mem EXCEPT ![w[1]] = w[2]] ELSE mem
<1>1. /\ op' \in {"none", "cycle"}
      /\ CpuWrites(w) => \/ w[1] = "CYCLE" /\ w[2] \in CycleValues
                         \/ w[1] = "CTRL_FLAGS" /\ w[2] \in FlagValues
  BY ConfigAssumption
     DEF Firmware, SetCycle, ClearFlags, ClearCycle, Rests, CpuWrites, NoWrite, Types
<1>2. mem' = IF web THEN [written EXCEPT !["FPGA_INFO"] = din] ELSE written
  BY DEF Ram, Inv, PortInv
<1>3. DOMAIN mem = ConfigWords /\ DOMAIN written = ConfigWords
  BY DEF Inv, PortInv
<1>4. CASE CpuWrites(w)
  <2>1. written = [mem EXCEPT ![w[1]] = w[2]]
    BY <1>4
  <2>2. /\ written["CYCLE"] = IF w[1] = "CYCLE" THEN w[2] ELSE mem["CYCLE"]
        /\ written["CTRL_FLAGS"] = IF w[1] = "CTRL_FLAGS" THEN w[2] ELSE mem["CTRL_FLAGS"]
        /\ written["FPGA_INFO"] = mem["FPGA_INFO"]
    BY <2>1, <1>1, <1>3, <1>4 DEF ConfigWords
  <2> QED
    BY <2>2, <1>1, <1>2, <1>3, <1>4 DEF ConfigWords, Types
<1>5. CASE ~CpuWrites(w)
  BY <1>1, <1>2, <1>3, <1>5 DEF ConfigWords, Types
<1> QED
  BY <1>4, <1>5

LEMMA AgeStep ==
  ASSUME Types, NEW young \in SUBSET ConfigWords, Ages(young)
  PROVE  /\ age' \in [ConfigWords -> 0 .. SETTLE]
         /\ \A x \in ConfigWords : age'[x] <= age[x] + 1 /\ (x \in young => age'[x] = 0)
<1>1. \A x \in ConfigWords : age[x] \in 0 .. SETTLE
  BY DEF Types
<1>2. \A x \in ConfigWords :
        age'[x] = IF x \in young THEN 0 ELSE IF age[x] < SETTLE THEN age[x] + 1 ELSE SETTLE
  BY DEF Ages
<1>3. age' = [x \in ConfigWords |->
            IF x \in young THEN 0 ELSE IF age[x] < SETTLE THEN age[x] + 1 ELSE SETTLE]
  BY DEF Ages
<1> QED
  BY <1>1, <1>2, <1>3, SettleType

LEMMA ClockStages ==
  ASSUME Inv, Types, Stage, OnTheirWay, Clock, thermo' \in Info
  PROVE  Types' /\ Stage' /\ OnTheirWay'
<1>1. PICK w \in CpuWords \X AnyValue \cup {NoWrite} :
        /\ Firmware(w) /\ Ram(w)
        /\ ReadFlags \/ WriteInfo \/ ReadCycle
        /\ Ages((IF CpuWrites(w) THEN {w[1]} ELSE {})
                  \cup (IF thermo' # thermo THEN {"FPGA_INFO"} ELSE {}))
  BY DEF Clock
<1> DEFINE young == (IF CpuWrites(w) THEN {w[1]} ELSE {})
                      \cup (IF thermo' # thermo THEN {"FPGA_INFO"} ELSE {})
           a == age["CYCLE"]
           f == age["CTRL_FLAGS"]
           i == age["FPGA_INFO"]
           c1 == age'["CYCLE"]
           f1 == age'["CTRL_FLAGS"]
           i1 == age'["FPGA_INFO"]
<1>2. CpuWrites(w) => w[1] \in CpuWords
  BY DEF CpuWrites
<1>3. young \in SUBSET ConfigWords
  BY <1>2, Distinct DEF ConfigWords
<1>4. /\ age' \in [ConfigWords -> 0 .. SETTLE]
      /\ \A x \in ConfigWords : age'[x] <= age[x] + 1 /\ (x \in young => age'[x] = 0)
  BY <1>1, <1>3, AgeStep
<1>5. a \in Nat /\ f \in Nat /\ i \in Nat /\ c1 \in Nat /\ f1 \in Nat /\ i1 \in Nat
  BY <1>4 DEF Types, ConfigWords
<1>6. c1 <= a + 1 /\ f1 <= f + 1 /\ i1 <= i + 1
  BY <1>4 DEF ConfigWords
<1>7. /\ c1 # 0 => mem'["CYCLE"] = mem["CYCLE"]
      /\ f1 # 0 => mem'["CTRL_FLAGS"] = mem["CTRL_FLAGS"]
  <2>1. /\ CpuWrites(w) /\ w[1] = "CYCLE" => c1 = 0
        /\ CpuWrites(w) /\ w[1] = "CTRL_FLAGS" => f1 = 0
    BY <1>4 DEF ConfigWords
  <2> QED
    BY <2>1, <1>1, WordStep
<1>8. i1 # 0 => thermo' = thermo
  BY <1>4 DEF ConfigWords
<1>9. /\ op' \in {"none", "cycle"}
      /\ mem'["CYCLE"] \in CycleValues /\ mem'["CTRL_FLAGS"] \in FlagValues
      /\ mem'["FPGA_INFO"] = IF web THEN din ELSE mem["FPGA_INFO"]
  BY <1>1, WordStep
<1>10. dout' = bramQ /\ bramQ' = IF web THEN din ELSE mem[addr]
  BY <1>1 DEF Ram
<1>11. mem'["FPGA_INFO"] \in Info
  BY <1>9 DEF Types, Inv, PortInv
<1> HIDE DEF young, a, f, i, c1, f1, i1
<1>12. CASE ReadFlags
  <2>1. /\ state = "CTRL_FLAGS_READ" /\ addr \in {"CYCLE", "CTRL_FLAGS"} /\ web = FALSE
        /\ bramQ \in AnyValue /\ dout \in FlagValues
        /\ addr = "CTRL_FLAGS" => a = 0
    BY <1>12 DEF ReadFlags, Stage, a
  <2>2. /\ state' = "FPGA_INFO_WRITE" /\ addr' = "CTRL_FLAGS" /\ web' = FALSE
        /\ flags' = LowByte(dout) /\ cycle' = cycle /\ din' = din
    BY <1>12, <2>1 DEF ReadFlags
  <2>3. Types'
    BY <1>4, <1>9, <1>11, <2>1, <2>2 DEF Types
  <2>4. bramQ' = mem[addr] /\ dout' \in AnyValue /\ bramQ' \in Reads
    BY <1>10, <2>1 DEF Types, Reads
  <2>5. Stage'
    BY <2>2, <2>4 DEF Stage
  <2>6. a >= 4 => cycle = mem["CYCLE"]
    BY <2>1 DEF OnTheirWay, CycleOnItsWay, a
  <2>7. (c1 >= 2 => bramQ' = mem'["CYCLE"]) /\ (c1 >= 5 => cycle' = mem'["CYCLE"])
    BY <1>5, <1>6, <1>7, <2>1, <2>2, <2>4, <2>6
  <2>8. f >= 2 => dout = mem["CTRL_FLAGS"]
    BY <2>1 DEF OnTheirWay, FlagsOnTheirWay, f
  <2>9. f1 >= 3 => flags' = LowByte(mem'["CTRL_FLAGS"])
    BY <1>5, <1>6, <1>7, <2>2, <2>8
  <2>10. i >= 2 => mem["FPGA_INFO"] = thermo
    BY <2>1 DEF OnTheirWay, InfoOnItsWay, i
  <2>11. i1 >= 3 => mem'["FPGA_INFO"] = thermo'
    BY <1>5, <1>6, <1>8, <1>9, <2>1, <2>10
  <2>12. OnTheirWay'
    BY <2>2, <2>7, <2>9, <2>11
       DEF OnTheirWay, CycleOnItsWay, FlagsOnTheirWay, InfoOnItsWay, c1, f1, i1
  <2> QED
    BY <2>3, <2>5, <2>12
<1>13. CASE WriteInfo
  <2>1. /\ state = "FPGA_INFO_WRITE" /\ addr = "CTRL_FLAGS" /\ web = FALSE
        /\ bramQ \in Reads
    BY <1>13 DEF WriteInfo, Stage
  <2>2. /\ state' = "CYCLE_READ" /\ addr' = "FPGA_INFO" /\ web' = TRUE
        /\ flags' = flags /\ cycle' = cycle /\ din' = thermo
    BY <1>13, <2>1 DEF WriteInfo
  <2>3. Types'
    BY <1>4, <1>9, <1>11, <2>2 DEF Types
  <2>4. bramQ' = mem["CTRL_FLAGS"] /\ dout' = bramQ /\ bramQ' \in FlagValues
    BY <1>10, <2>1 DEF Types
  <2>5. Stage'
    BY <2>1, <2>2, <2>4 DEF Stage
  <2>6. (a >= 2 => bramQ = mem["CYCLE"]) /\ (a >= 5 => cycle = mem["CYCLE"])
    BY <2>1 DEF OnTheirWay, CycleOnItsWay, a
  <2>7. (c1 >= 3 => dout' = mem'["CYCLE"]) /\ (c1 >= 6 => cycle' = mem'["CYCLE"])
    BY <1>5, <1>6, <1>7, <2>2, <2>4, <2>6
  <2>8. f >= 3 => flags = LowByte(mem["CTRL_FLAGS"])
    BY <2>1 DEF OnTheirWay, FlagsOnTheirWay, f
  <2>9. (f1 >= 1 => bramQ' = mem'["CTRL_FLAGS"]) /\ (f1 >= 4 => flags' = LowByte(mem'["CTRL_FLAGS"]))
    BY <1>5, <1>6, <1>7, <2>2, <2>4, <2>8
  <2>10. i >= 3 => mem["FPGA_INFO"] = thermo
    BY <2>1 DEF OnTheirWay, InfoOnItsWay, i
  <2>11. (i1 >= 1 => din' = thermo') /\ (i1 >= 4 => mem'["FPGA_INFO"] = thermo')
    BY <1>5, <1>6, <1>8, <1>9, <2>1, <2>2, <2>10
  <2>12. OnTheirWay'
    BY <2>2, <2>7, <2>9, <2>11
       DEF OnTheirWay, CycleOnItsWay, FlagsOnTheirWay, InfoOnItsWay, c1, f1, i1
  <2> QED
    BY <2>3, <2>5, <2>12
<1>14. CASE ReadCycle
  <2>1. /\ state = "CYCLE_READ" /\ web = TRUE
        /\ bramQ \in FlagValues /\ dout \in Reads
    BY <1>14 DEF ReadCycle, Stage
  <2>2. /\ state' = "CTRL_FLAGS_READ" /\ addr' = "CYCLE" /\ web' = FALSE
        /\ flags' = flags /\ cycle' = dout /\ din' = din
    BY <1>14, <2>1 DEF ReadCycle
  <2>3. Types'
    BY <1>4, <1>9, <1>11, <2>1, <2>2 DEF Types
  <2>4. bramQ' = din /\ dout' = bramQ /\ bramQ' \in AnyValue
    BY <1>10, <2>1, ValueTypes DEF Inv, PortInv
  <2>5. Stage'
    BY <2>1, <2>2, <2>4 DEF Stage
  <2>6. a >= 3 => dout = mem["CYCLE"]
    BY <2>1 DEF OnTheirWay, CycleOnItsWay, a
  <2>7. c1 >= 4 => cycle' = mem'["CYCLE"]
    BY <1>5, <1>6, <1>7, <2>2, <2>6
  <2>8. (f >= 1 => bramQ = mem["CTRL_FLAGS"]) /\ (f >= 4 => flags = LowByte(mem["CTRL_FLAGS"]))
    BY <2>1 DEF OnTheirWay, FlagsOnTheirWay, f
  <2>9. (f1 >= 2 => dout' = mem'["CTRL_FLAGS"]) /\ (f1 >= 5 => flags' = LowByte(mem'["CTRL_FLAGS"]))
    BY <1>5, <1>6, <1>7, <2>2, <2>4, <2>8
  <2>10. i >= 1 => din = thermo
    BY <2>1 DEF OnTheirWay, InfoOnItsWay, i
  <2>11. i1 >= 2 => mem'["FPGA_INFO"] = thermo'
    BY <1>5, <1>6, <1>8, <1>9, <2>1, <2>10
  <2>12. OnTheirWay'
    BY <2>2, <2>7, <2>9, <2>11
       DEF OnTheirWay, CycleOnItsWay, FlagsOnTheirWay, InfoOnItsWay, c1, f1, i1
  <2> QED
    BY <2>3, <2>5, <2>12
<1> QED
  BY <1>1, <1>12, <1>13, <1>14

LEMMA ResetStages ==
  ASSUME Inv, Types, Stage, Reset, Ages(ConfigWords), thermo' \in Info
  PROVE  Types' /\ Stage' /\ OnTheirWay'
<1>1. /\ age' \in [ConfigWords -> 0 .. SETTLE]
      /\ \A x \in ConfigWords : age'[x] = 0
  BY AgeStep
<1>2. age'["CYCLE"] = 0 /\ age'["CTRL_FLAGS"] = 0 /\ age'["FPGA_INFO"] = 0
  BY <1>1 DEF ConfigWords
<1>3. mem' = IF web THEN [mem EXCEPT !["FPGA_INFO"] = din] ELSE mem
  BY DEF Reset, Inv, PortInv
<1>4. /\ mem'["CYCLE"] = mem["CYCLE"] /\ mem'["CTRL_FLAGS"] = mem["CTRL_FLAGS"]
      /\ mem'["FPGA_INFO"] \in Info
  BY <1>3 DEF Inv, PortInv, ConfigWords, Types
<1>5. /\ state' = "CTRL_FLAGS_READ" /\ addr' = "CTRL_FLAGS" /\ web' = FALSE /\ flags' = 0
      /\ bramQ' = mem["CTRL_FLAGS"] /\ dout' = mem["CTRL_FLAGS"] /\ cycle' = cycle /\ op' = op
  BY DEF Reset, cpu
<1>6. Types'
  BY <1>1, <1>4, <1>5, ConfigAssumption, NoFlags DEF Types
<1>7. Stage'
  BY <1>2, <1>5 DEF Types, Stage, AnyValue
<1>8. OnTheirWay'
  BY <1>2, <1>5 DEF OnTheirWay, CycleOnItsWay, FlagsOnTheirWay, InfoOnItsWay
<1> QED
  BY <1>6, <1>7, <1>8

LEMMA StagesNext == Inv /\ Types /\ Stage /\ OnTheirWay /\ [Next]_vars
                      => Types' /\ Stage' /\ OnTheirWay'
<1> SUFFICES ASSUME Inv, Types, Stage, OnTheirWay, [Next]_vars
             PROVE  Types' /\ Stage' /\ OnTheirWay'
  OBVIOUS
<1>1. CASE UNCHANGED vars
  <2>1. /\ op' = op /\ thermo' = thermo /\ mem' = mem /\ bramQ' = bramQ /\ dout' = dout
        /\ state' = state /\ addr' = addr /\ din' = din /\ web' = web /\ flags' = flags
        /\ cycle' = cycle /\ age' = age
    BY <1>1 DEF vars, cpu, ram, fsm
  <2>2. Types'
    BY <2>1 DEF Types
  <2>3. Stage'
    BY <2>1 DEF Stage
  <2>4. OnTheirWay'
    BY <2>1 DEF OnTheirWay, CycleOnItsWay, FlagsOnTheirWay, InfoOnItsWay
  <2> QED
    BY <2>2, <2>3, <2>4
<1>2. CASE Next
  BY <1>2, ClockStages, ResetStages DEF Next
<1> QED
  BY <1>1, <1>2

LEMMA StagesHold == Spec => [](Inv /\ Types /\ Stage /\ OnTheirWay)
  BY InitInv, NextInv, StagesInit, StagesNext, PTL DEF Spec

(* Type correctness: what each register holds in each of the states, and   *)
(* that cycle never takes over the state of the device.                    *)
THEOREM TypeCorrect == Spec => []TypeOK
<1>1. Inv /\ Types /\ Stage => TypeOK
  <2> SUFFICES ASSUME Inv, Types, Stage PROVE TypeOK
    OBVIOUS
  <2>1. given \in [CpuWords -> Reads]
    <3>1. \A w \in CpuWords : given[w] \in Reads
      BY DEF Inv, CpuWordsKept, CpuWords, Types, Reads
    <3> QED
      BY <3>1 DEF Inv, PortInv
  <2>2. /\ state \in States /\ addr \in ConfigWords /\ web \in BOOLEAN
        /\ bramQ \in AnyValue /\ dout \in AnyValue
    BY DEF Stage, States, ConfigWords, AnyValue, Reads
  <2> QED
    BY <2>1, <2>2 DEF TypeOK, Types, Inv, PortInv, Reads
<1> QED
  BY <1>1, StagesHold, PTL

(* Two passes through the three states are enough: a word that nobody      *)
(* changes for six clocks is in its register, or in the memory, wherever   *)
(* in a pass it was written and although a reset makes the first pass take *)
(* the flags for the cycle.                                                *)
THEOREM EveryWordGetsThrough == ASSUME SETTLE >= 6 PROVE Spec => []Follows
<1>1. Types /\ Stage /\ OnTheirWay => Follows
  BY SettleType
     DEF Types, Stage, OnTheirWay, CycleOnItsWay, FlagsOnTheirWay, InfoOnItsWay, Follows
<1> QED
  BY <1>1, StagesHold, PTL
=============================================================================
