--------------------------- MODULE FirmwareVersion ---------------------------
(***************************************************************************)
(* The version of a firmware on its way from the device to the user: a     *)
(* 16-bit number, asked for in two bytes, taken out of the inputs of all   *)
(* devices and put together by firmware_info_list, and given a name by     *)
(* FirmwareInfo.                                                           *)
(***************************************************************************)
EXTENDS Integers

Numbers == 0 .. 65535
Byte == 0 .. 255
Version == [cpu : Numbers, fpga : Numbers]

(* The four queries: what a device with version v answers each of them.    *)
Lsb(v) == v % 256
Msb(v) == (v \div 256) % 256
Answer(query, v) ==
  CASE query = 1 -> Lsb(v.cpu)
    [] query = 2 -> Msb(v.cpu)
    [] query = 3 -> Lsb(v.fpga)
    [] query = 4 -> Msb(v.fpga)

(* The inputs of num devices as read() leaves them in _rx_buf: two bytes   *)
(* for each, its answer and the id of the message it answers.              *)
Inputs(query, versions, num, id) ==
  [b \in 0 .. 2 * num - 1 |-> IF b % 2 = 0 THEN Answer(query, versions[b \div 2 + 1]) ELSE id]

(* The byte of the i-th device.  A mutant: the bytes of the next follow    *)
(* its own at once.                                                        *)
BugAnswerOf(rx, i) == rx[i - 1]
AnswerOf(rx, i) == rx[2 * (i - 1)]

concat_byte(high, low) == high * 256 + low

(* What is known of a device's versions with one more byte of them.        *)
NoVersion == [cpu |-> 0, fpga |-> 0]
Taken(query, words, byte) ==
  CASE query = 1 -> [words EXCEPT !.cpu = byte]
    [] query = 2 -> [words EXCEPT !.cpu = concat_byte(byte, words.cpu)]
    [] query = 3 -> [words EXCEPT !.fpga = byte]
    [] query = 4 -> [words EXCEPT !.fpga = concat_byte(byte, words.fpga)]

(* The four answers of the i-th device put together.                       *)
Answers(versions, num, id, i) ==
  LET With(query, words) == Taken(query, words, AnswerOf(Inputs(query, versions, num, id), i)) IN
    With(4, With(3, With(2, With(1, NoVersion))))

firmware_version_map(v) ==
  CASE v = 0           -> [series |-> "older than v0.4", n |-> 0]
    [] v \in 1 .. 6    -> [series |-> "v0", n |-> v + 3]
    [] v \in 10 .. 18  -> [series |-> "v1", n |-> v - 10]
    [] v = 65535       -> [series |-> "emulator", n |-> 0]
    [] v \in 61440 .. 65534 -> [series |-> "freq-shift", n |-> v - 61440 + 1]
    [] OTHER           -> [series |-> "unknown", n |-> v]

FirmwareInfo(idx, words) ==
  [idx |-> idx, cpu |-> firmware_version_map(words.cpu), fpga |-> firmware_version_map(words.fpga)]
=============================================================================
