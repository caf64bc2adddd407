---------------------------- MODULE MCController ----------------------------
(* Instances of Controller for TLC: the devices are interchangeable.       *)
EXTENDS Controller, TLC

Symmetry == Permutations(Devices)
=============================================================================
