------------------------------- MODULE WordPath -------------------------------
(***************************************************************************)
(* The way of a word from the client to a transducer: the client packs it  *)
(* for number i of a device, send() cuts the buffer into the bodies of the *)
(* devices, the CPU writes its body to the addresses of a memory, the FPGA *)
(* decodes them, reads two words at a time from the other port and drives  *)
(* a pin.  Every station computes where the word is to go; what the device *)
(* plays is right only if they agree with the grid of TransducerMap.       *)
(***************************************************************************)
EXTENDS TransducerMap

CONSTANT Devices     \* devices on the bus

ASSUME PathAssumption == Devices \in Nat \ {0}

VARIABLES
  dev,      \* the device looked at, counted from 0
  op,       \* what its firmware does: "none", "duty", "phase", "cycle", "clear"
  at,       \* words the command has written
  tr,       \* tr_bram, by the words of the CPU's port
  config    \* config_bram

memories == <<tr, config>>
pathVars == <<vars, dev, op, at, memories>>

(* What a word is: zero, the version of the FPGA, or a duty, a phase or a  *)
(* cycle the client computed for a number of a device.                     *)
Kinds == {"zero", "version", "duty", "phase", "cycle"}
Words == [kind : Kinds, dev : 0 .. Devices - 1, no : Numbers]
Zero == [kind |-> "zero", dev |-> 0, no |-> 0]
Version == [kind |-> "version", dev |-> 0, no |-> 0]
-----------------------------------------------------------------------------
(* The client.  Positions in the buffer are in bytes.                      *)
HEADER_SIZE == 128
EC_OUTPUT_FRAME_SIZE == 626
BodySize == EC_OUTPUT_FRAME_SIZE - HEADER_SIZE

(* The word that packing has put at byte b, row after row of the gain.     *)
PackedAt(kind, b) ==
  LET n == (b - HEADER_SIZE) \div 2
  IN  [kind |-> kind, dev |-> n \div NUM_TRANS_IN_UNIT, no |-> n % NUM_TRANS_IN_UNIT]

(* A mutant: takes the bodies to be as far apart as the frames.            *)
BugSentFrom(i) == HEADER_SIZE + EC_OUTPUT_FRAME_SIZE * dev + 2 * i

(* Where send() takes word i of the device's body from.                    *)
SentFrom(i) == HEADER_SIZE + BodySize * dev + 2 * i

Received(kind, i) == PackedAt(kind, SentFrom(i))
-----------------------------------------------------------------------------
(* The CPU.  Addresses are in words.                                       *)
TRANS_NUM == 249
BRAM_TR_SELECT == 0
BRAM_CONFIG_SELECT == 15
CTRL_FLAGS_ADDR == 0
CYCLE_CNT == 16
FPGA_VER_ADDR == 255

get_addr(select, a) == (select % 16) * 4096 + (a % 4096)

(* The FPGA: bits 16 to 13 and 11 to 1 of the bus, which counts bytes, and *)
(* as many of the latter as the memory has.                                *)
CpuSelect(a) == (a \div 4096) % 16
CpuAddr(a) == a % 2048

BusWrite(a, w) ==
  /\ tr' = IF CpuSelect(a) = BRAM_TR_SELECT THEN [tr EXCEPT ![CpuAddr(a) % 512] = w] ELSE tr
  /\ config' = IF CpuSelect(a) = BRAM_CONFIG_SELECT
               THEN [config EXCEPT ![CpuAddr(a) % 256] = w] ELSE config

(* The other port has the words in pairs.  A mutant: the halves swapped.   *)
BugDutyOf(i) == tr[2 * i]
DutyOf(i) == tr[2 * i + 1]
PhaseOf(i) == tr[2 * i]
CYCLE_ADDR == 16
-----------------------------------------------------------------------------
(* The memories come up as the init file and zeros, and the firmware       *)
(* starts by clearing them, which changes nothing.                         *)
StartUp ==
  /\ Init
  /\ dev \in 0 .. Devices - 1 /\ op = "none" /\ at = 0
  /\ tr = [a \in 0 .. 511 |-> Zero]
  /\ config = [a \in 0 .. 255 |-> IF a = FPGA_VER_ADDR THEN Version ELSE Zero]

(* The client builds its geometry before it sends anything.                *)
Walk == Next /\ UNCHANGED <<dev, op, at, memories>>

Receive(o) ==
  /\ y = NUM_TRANS_Y /\ op = "none"
  /\ op' = o /\ at' = 0 /\ UNCHANGED <<vars, dev, memories>>

Loop(size) ==
  /\ at' = at + 1 /\ op' = IF at + 1 = size THEN "none" ELSE op
  /\ UNCHANGED <<vars, dev>>

write_duty ==
  /\ op = "duty" /\ Loop(TRANS_NUM)
  /\ BusWrite(get_addr(BRAM_TR_SELECT, 0) + 2 * at + 1, Received("duty", at))

write_phase ==
  /\ op = "phase" /\ Loop(TRANS_NUM)
  /\ BusWrite(get_addr(BRAM_TR_SELECT, 0) + 2 * at, Received("phase", at))

SetCycle ==
  /\ op = "cycle" /\ Loop(1)
  /\ BusWrite(get_addr(BRAM_CONFIG_SELECT, CYCLE_CNT), Received("cycle", 0))

(* A mutant: half of the words are cleared.                                *)
BugCleared == TRANS_NUM

Cleared == 2 * TRANS_NUM

clear ==
  /\ op = "clear" /\ Loop(Cleared + 2)
  /\ \/ at < Cleared /\ BusWrite(get_addr(BRAM_TR_SELECT, 0) + at, Zero)
     \/ at = Cleared /\ BusWrite(get_addr(BRAM_CONFIG_SELECT, CTRL_FLAGS_ADDR), Zero)
     \/ at = Cleared + 1 /\ BusWrite(get_addr(BRAM_CONFIG_SELECT, CYCLE_CNT), Zero)

Firmware ==
  \/ \E o \in {"duty", "phase", "cycle", "clear"} : Receive(o)
  \/ write_duty \/ write_phase \/ SetCycle \/ clear

PathNext == Walk \/ Firmware

PathSpec == StartUp /\ [][PathNext]_pathVars
-----------------------------------------------------------------------------
(* Type invariant.                                                         *)
PathTypeOK ==
  /\ TypeOK
  /\ dev \in 0 .. Devices - 1 /\ op \in {"none", "duty", "phase", "cycle", "clear"}
  /\ at \in 0 .. 2 * TRANS_NUM + 2
  /\ tr \in [0 .. 511 -> Words] /\ config \in [0 .. 255 -> Words]

(* A word that reaches a transducer was computed for this device and for   *)
(* the place of this very transducer on the grid, and is of the kind it is *)
(* taken for; the cycle is that of the device, and no command writes over  *)
(* the version.                                                            *)
IsFor(w, kind, i) ==
  w # Zero => w.kind = kind /\ w.dev = dev /\ Pin(position[w.no]) = CvtUid(i)
PlayedInPlace ==
  /\ \A i \in Numbers : IsFor(DutyOf(i), "duty", i) /\ IsFor(PhaseOf(i), "phase", i)
  /\ config[CYCLE_ADDR] \in {Zero, [kind |-> "cycle", dev |-> dev, no |-> 0]}
  /\ config[FPGA_VER_ADDR] = Version

(* A command that is done has got to every transducer: each duty or phase  *)
(* is there, and after a CLEAR no word is left of the old ones.            *)
Done(o) == op = o /\ op' = "none"
CommandsComplete ==
  [][/\ Done("duty") => \A i \in Numbers : DutyOf(i)'.kind = "duty"
     /\ Done("phase") => \A i \in Numbers : PhaseOf(i)'.kind = "phase"
     /\ Done("cycle") => config'[CYCLE_ADDR].kind = "cycle"
     /\ Done("clear") => /\ config'[CYCLE_ADDR] = Zero
                         /\ \A i \in Numbers : DutyOf(i)' = Zero /\ PhaseOf(i)' = Zero]_pathVars
=============================================================================
