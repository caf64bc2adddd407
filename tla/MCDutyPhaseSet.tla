--------------------------- MODULE MCDutyPhaseSet ---------------------------
(***************************************************************************)
(* DutyPhaseSet for TLC: no cycle, one that ends in the middle of a pass,  *)
(* and the shortest period a pass fits in.  The counter runs past it while *)
(* there is no cycle.                                                      *)
(***************************************************************************)
EXTENDS DutyPhaseSet

SomeCycles == {0, 2, PASS}
=============================================================================
