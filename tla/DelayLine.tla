----------------------------- MODULE DelayLine -----------------------------
(***************************************************************************)
(* What a pipelined pulse generator promises: whatever its ports do, the   *)
(* level it puts out is the one its ports asked for Depth clocks ago, all  *)
(* of them taken at the same clock.  Ports that ask for nothing it was     *)
(* made for leave the level of their own clock open, and of no other.      *)
(* Clocks are told apart by their parity, so that one in which no level    *)
(* changes is not a stutter.                                               *)
(***************************************************************************)
EXTENDS Naturals

CONSTANTS Depth,     \* clocks from the ports to the output
          Inputs,    \* what the ports may ask for
          Level(_)   \* the levels an input allows

VARIABLES ports,     \* what is asked for now
          line,      \* the levels under way, the one put out at Depth
          tick       \* the parity of the clock

Init == ports \in Inputs /\ line \in [1 .. Depth -> BOOLEAN] /\ tick \in BOOLEAN

Next ==
  /\ \E l \in Level(ports) :
       line' = [k \in 1 .. Depth |-> IF k = 1 THEN l ELSE line[k - 1]]
  /\ ports' \in Inputs
  /\ tick' = ~tick

Spec == Init /\ [][Next]_<<ports, line, tick>>
=============================================================================
