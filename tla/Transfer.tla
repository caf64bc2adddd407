------------------------------ MODULE Transfer ------------------------------
(***************************************************************************)
(* What the transfer of messages to the devices promises, however often    *)
(* frames are repeated, lost, or torn, and whoever crashes: a device       *)
(* executes messages that were issued, each once, in the order in which    *)
(* they were issued, though maybe not all of them.                         *)
(***************************************************************************)
EXTENDS Integers

CONSTANT Devices

VARIABLES
  issued,  \* number of messages issued
  done,    \* the message each device executed last
  runs     \* how many it executed

vars == <<issued, done, runs>>

Init == issued = 0 /\ done = [d \in Devices |-> 0] /\ runs = [d \in Devices |-> 0]

Issue == issued' = issued + 1 /\ UNCHANGED <<done, runs>>

Rests(d) == done'[d] = done[d] /\ runs'[d] = runs[d]
Executes(d) == done'[d] \in done[d] + 1 .. issued /\ runs'[d] = runs[d] + 1

Execute == UNCHANGED issued /\ \A d \in Devices : Rests(d) \/ Executes(d)

Next == Issue \/ Execute

Spec == Init /\ [][Next]_vars
=============================================================================
