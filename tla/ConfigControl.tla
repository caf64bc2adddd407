--------------------------- MODULE ConfigControl ---------------------------
(***************************************************************************)
(* top.sv, "Config control": the machine that carries the flags and the    *)
(* cycle from config_bram to their registers and the state of the device   *)
(* (THERMO) back into it, all through the one port that sys_clk has.  The  *)
(* CPU writes the words CTRL_FLAGS and CYCLE through the other port.       *)
(*                                                                         *)
(* A step is one edge of sys_clk, with at most one word written by the     *)
(* CPU; as in DutyPhaseSet a word is read before it is written.            *)
(***************************************************************************)
EXTENDS Integers

CONSTANTS
  CycleValues,   \* cycle counts the host asks for
  FlagValues,    \* what CTRL_FLAGS holds when the FPGA is configured
  SETTLE         \* clocks for a word to get through

ASSUME ConfigAssumption ==
  /\ CycleValues \subseteq Nat /\ FlagValues \subseteq Nat
  /\ 0 \in CycleValues /\ 0 \in FlagValues
  /\ SETTLE \in Nat

VARIABLES
  op,       \* what the firmware is writing: "none", or the rest of clear()
  given,    \* the words as the CPU wrote them last
  thermo,   \* the input THERMO
  mem,      \* config_bram
  state,    \* config_state
  addr,     \* config_bram_addr
  din,      \* config_bram_din
  web,      \* config_web
  bramQ,    \* config_bram: the word read at the last edge
  dout,     \* config_bram_dout: its output register
  flags,    \* ctrl_flags
  cycle,    \* cycle
  age       \* clocks since each word changed outside, up to SETTLE

cpu == <<op, given>>
ram == <<mem, bramQ, dout>>
fsm == <<state, addr, din, web, flags, cycle>>
vars == <<cpu, thermo, ram, fsm, age>>

ConfigWords == {"CTRL_FLAGS", "FPGA_INFO", "CYCLE"}
CpuWords == {"CTRL_FLAGS", "CYCLE"}
States == {"CTRL_FLAGS_READ", "FPGA_INFO_WRITE", "CYCLE_READ"}
Info == {0, 1}
AnyValue == CycleValues \cup FlagValues \cup Info

(* ctrl_flags takes eight of the sixteen bits of its word.                 *)
LowByte(word) == word % 256

(* cycle has no reset; it has been read from the memory before.            *)
Init ==
  /\ op = "none" /\ thermo \in Info
  /\ \E f \in FlagValues, n \in CycleValues :
       /\ given = [w \in CpuWords |-> IF w = "CYCLE" THEN n ELSE f]
       /\ mem = [w \in ConfigWords |-> CASE w = "CYCLE" -> n [] w = "CTRL_FLAGS" -> f [] OTHER -> 0]
       /\ cycle = n /\ bramQ = f /\ dout = f
  /\ state = "CTRL_FLAGS_READ" /\ addr = "CTRL_FLAGS" /\ din = 0 /\ web = FALSE /\ flags = 0
  /\ age = [w \in ConfigWords |-> 0]
-----------------------------------------------------------------------------
(* The firmware.  What it writes at an edge is a word and its value.       *)
NoWrite == <<"none", 0>>
CpuWrites(w) == w # NoWrite

(* CMD_ULTRASOUND_CYCLE_CNT, one word.                                     *)
SetCycle(w) ==
  /\ op = "none" /\ op' = "none"
  /\ \E n \in CycleValues : w = <<"CYCLE", n>>

(* clear(), once the duties and phases are zeroed: flags, then cycle.      *)
ClearFlags(w) == op = "none" /\ w = <<"CTRL_FLAGS", 0>> /\ op' = "cycle"
ClearCycle(w) == op = "cycle" /\ w = <<"CYCLE", 0>> /\ op' = "none"

Rests(w) == w = NoWrite /\ UNCHANGED op

Firmware(w) == SetCycle(w) \/ ClearFlags(w) \/ ClearCycle(w) \/ Rests(w)
-----------------------------------------------------------------------------
(* The memory: WRITE_FIRST on the port of sys_clk, two edges to an answer. *)
Ram(w) ==
  LET written == IF CpuWrites(w) THEN [mem EXCEPT ![w[1]] = w[2]] ELSE mem
  IN  /\ mem' = IF web THEN [written EXCEPT ![addr] = din] ELSE written
      /\ bramQ' = IF web THEN din ELSE mem[addr]
      /\ dout' = bramQ
      /\ given' = IF CpuWrites(w) THEN [given EXCEPT ![w[1]] = w[2]] ELSE given

(* A mutant: the write is not withdrawn.                                   *)
BugReadCycle ==
  /\ state = "CYCLE_READ" /\ state' = "CTRL_FLAGS_READ"
  /\ addr' = "CYCLE" /\ cycle' = dout /\ UNCHANGED <<din, web, flags>>

(* A mutant: counts on a latency of one clock.                             *)
BugLatency ==
  /\ state = "CYCLE_READ" /\ state' = "CTRL_FLAGS_READ"
  /\ addr' = "CYCLE" /\ cycle' = bramQ /\ web' = FALSE /\ UNCHANGED <<din, flags>>

ReadFlags ==
  /\ state = "CTRL_FLAGS_READ" /\ state' = "FPGA_INFO_WRITE"
  /\ addr' = "CTRL_FLAGS" /\ flags' = LowByte(dout)
  /\ UNCHANGED <<din, web, cycle>>

WriteInfo ==
  /\ state = "FPGA_INFO_WRITE" /\ state' = "CYCLE_READ"
  /\ addr' = "FPGA_INFO" /\ din' = thermo /\ web' = TRUE
  /\ UNCHANGED <<flags, cycle>>

ReadCycle ==
  /\ state = "CYCLE_READ" /\ state' = "CTRL_FLAGS_READ"
  /\ addr' = "CYCLE" /\ cycle' = dout /\ web' = FALSE
  /\ UNCHANGED <<din, flags>>

(* The clocks of a reset in one step: a write under way is finished, and   *)
(* the memory answers with the word at address 0.                          *)
Reset ==
  /\ state' = "CTRL_FLAGS_READ" /\ addr' = "CTRL_FLAGS"
  /\ din' = 0 /\ web' = FALSE /\ flags' = 0
  /\ mem' = IF web THEN [mem EXCEPT ![addr] = din] ELSE mem
  /\ bramQ' = mem["CTRL_FLAGS"] /\ dout' = mem["CTRL_FLAGS"]
  /\ UNCHANGED <<cycle, cpu>>

(* The words that change from outside at this step are young again.        *)
Ages(young) ==
  age' = [x \in ConfigWords |->
            IF x \in young THEN 0 ELSE IF age[x] < SETTLE THEN age[x] + 1 ELSE SETTLE]

Clock ==
  \E w \in CpuWords \X AnyValue \cup {NoWrite} :
    /\ Firmware(w) /\ Ram(w)
    /\ ReadFlags \/ WriteInfo \/ ReadCycle
    /\ Ages((IF CpuWrites(w) THEN {w[1]} ELSE {})
              \cup (IF thermo' # thermo THEN {"FPGA_INFO"} ELSE {}))

Next ==
  /\ thermo' \in Info
  /\ \/ Clock
     \/ Reset /\ Ages(ConfigWords)

Spec == Init /\ [][Next]_vars
-----------------------------------------------------------------------------
(* Type invariant.  For the clocks after a reset in which the memory has   *)
(* not been asked for the cycle yet, cycle is the word of the flags.       *)
TypeOK ==
  /\ op \in {"none", "cycle"} /\ thermo \in Info
  /\ given \in [CpuWords -> CycleValues \cup FlagValues]
  /\ mem \in [ConfigWords -> AnyValue]
  /\ state \in States /\ addr \in ConfigWords /\ din \in Info /\ web \in BOOLEAN
  /\ bramQ \in AnyValue /\ dout \in AnyValue
  /\ flags \in {LowByte(f) : f \in FlagValues} /\ cycle \in CycleValues \cup FlagValues
  /\ age \in [ConfigWords -> 0 .. SETTLE]

(* Sharing one port, the machine writes its state only where it belongs:   *)
(* the words of the CPU are as the CPU left them.                          *)
CpuWordsKept == \A w \in CpuWords : mem[w] = given[w]

(* A word that has not changed for SETTLE clocks has got through: each     *)
(* register holds its own word, ctrl_flags the low byte of it, although    *)
(* the three are read and written through a port whose answers come two    *)
(* edges late.                                                             *)
Follows ==
  /\ age["CYCLE"] = SETTLE => cycle = mem["CYCLE"]
  /\ age["CTRL_FLAGS"] = SETTLE => flags = LowByte(mem["CTRL_FLAGS"])
  /\ age["FPGA_INFO"] = SETTLE => mem["FPGA_INFO"] = thermo
=============================================================================
