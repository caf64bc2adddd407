---------------------------- MODULE TransducerMap ----------------------------
(***************************************************************************)
(* Which transducer is number i?  The client numbers the positions of a    *)
(* device in the constructor of Device (geometry.hpp), which walks the     *)
(* grid row by row and leaves out the missing transducers.  The FPGA       *)
(* connects output i to the pin that cvt_uid.vh computes.  Data for i are  *)
(* right only if both mean the same transducer; the board numbers its pins *)
(* row by row over the whole grid.                                         *)
(***************************************************************************)
EXTENDS Integers

NUM_TRANS_X == 18
NUM_TRANS_Y == 14
NUM_TRANS_IN_UNIT == 249

VARIABLES
  y, x,       \* the loop variables of the constructor
  index,      \* the number of the next transducer
  position    \* global_trans_positions: the grid place of each number

vars == <<y, x, index, position>>

Numbers == 0 .. NUM_TRANS_IN_UNIT - 1
Nowhere == <<-1, -1>>
Places == (0 .. NUM_TRANS_X - 1) \X (0 .. NUM_TRANS_Y - 1)

IsMissing(px, py) == py = 1 /\ px \in {1, 2, 16}

(* The pin of output i, counted from 0.                                    *)
CvtUid(i) == IF i < 19 THEN i ELSE IF i < 32 THEN i + 2 ELSE i + 3

Pin(p) == p[2] * NUM_TRANS_X + p[1]

Init ==
  /\ y = 0 /\ x = 0 /\ index = 0
  /\ position = [i \in Numbers |-> Nowhere]

NextPlace == IF x = NUM_TRANS_X - 1 THEN x' = 0 /\ y' = y + 1 ELSE x' = x + 1 /\ y' = y

Skip ==
  /\ y < NUM_TRANS_Y /\ IsMissing(x, y) /\ NextPlace
  /\ UNCHANGED <<index, position>>

Place ==
  /\ y < NUM_TRANS_Y /\ ~IsMissing(x, y) /\ NextPlace
  /\ position' = [position EXCEPT ![index] = <<x, y>>]
  /\ index' = index + 1

Next == Skip \/ Place

Spec == Init /\ [][Next]_vars
-----------------------------------------------------------------------------
(* Type invariant: above all, the loop never writes behind the array.      *)
TypeOK ==
  /\ y \in 0 .. NUM_TRANS_Y /\ x \in 0 .. NUM_TRANS_X - 1
  /\ index \in 0 .. NUM_TRANS_IN_UNIT
  /\ position \in [Numbers -> Places \cup {Nowhere}]
  /\ y < NUM_TRANS_Y /\ ~IsMissing(x, y) => index \in Numbers

(* Client and FPGA mean the same transducer by every number.               *)
SameTransducer ==
  \A i \in Numbers : i < index => Pin(position[i]) = CvtUid(i)

(* At the end every number has its place.                                  *)
AllPlaced == y = NUM_TRANS_Y => index = NUM_TRANS_IN_UNIT
=============================================================================
