----------------------------- MODULE CpuFirmware -----------------------------
(***************************************************************************)
(* The firmware of a device's CPU (cpu/src/app.c): the state it keeps      *)
(* between two frames and what recv_ethercat makes of a frame.  The frame  *)
(* in the receive registers is handled again at every exchange until       *)
(* another one replaces it; _header_id keeps it from being executed twice. *)
(*                                                                         *)
(* A frame is [id, cmd, body, no]: msg_id and command of the header, the   *)
(* body, and the number of the message, which is not in the code: it tells *)
(* messages with equal ids apart.  A body is [kind, gain]: what the client *)
(* last packed into it and for which gain, 0 standing for zeroed memory.   *)
(***************************************************************************)
EXTENDS Integers

Reads == {"READ_CPU_VER_LSB", "READ_CPU_VER_MSB", "READ_FPGA_VER_LSB", "READ_FPGA_VER_MSB"}
Writes == {"ULTRASOUND_CYCLE_CNT", "WRITE_DUTY", "WRITE_PHASE"}
Commands == Reads \cup Writes \cup {"CLEAR", "OP"}

(* A mutant: the last byte of the versions is not acknowledged.            *)
BugAcked == (Reads \cup Writes) \ {"READ_FPGA_VER_MSB"}

(* The commands whose case in recv_ethercat sets _sTx.ack.                 *)
Acked == Reads \cup Writes

Zeroed == [kind |-> "zero", gain |-> 0]

(* What CLEAR, and the start of the firmware, leave in the FPGA.           *)
Memories == {"duty", "phase", "cycle"}
Cleared == [m \in Memories |-> Zeroed]

(* The ack word: an id, and the number of the message it was set for.      *)
NoAck == [id |-> 0, of |-> 0]

PowerOn == [headerId |-> 0, ack |-> NoAck, fpga |-> Cleared, done |-> 0, runs |-> 0]

Executed(fpga, f) ==
  CASE f.cmd = "WRITE_DUTY"           -> [fpga EXCEPT !.duty = f.body]
    [] f.cmd = "WRITE_PHASE"          -> [fpga EXCEPT !.phase = f.body]
    [] f.cmd = "ULTRASOUND_CYCLE_CNT" -> [fpga EXCEPT !.cycle = f.body]
    [] f.cmd = "CLEAR"                -> Cleared
    [] OTHER                          -> fpga

(* The number of a message is a history of the model: done is the last one *)
(* executed and runs counts the executions.  The frames an image is zeroed *)
(* to, numbered 0, are no message.                                         *)
Execute(s, f) ==
  [headerId |-> f.id,
   ack      |-> IF f.cmd \in Acked THEN [id |-> f.id, of |-> f.no] ELSE s.ack,
   fpga     |-> Executed(s.fpga, f),
   done     |-> IF f.no = 0 THEN s.done ELSE f.no,
   runs     |-> IF f.no = 0 THEN s.runs ELSE s.runs + 1]

(* Mutants: every frame is executed, repeated or not; only a greater id is *)
(* taken for a new one, wrapped or not.                                    *)
BugNoDedup(s, f) == Execute(s, f)
BugGreaterOnly(s, f) == IF f.id <= s.headerId THEN s ELSE Execute(s, f)

recv_ethercat(s, f) == IF f.id = s.headerId THEN s ELSE Execute(s, f)
=============================================================================
