----------------------------- MODULE MCSession -----------------------------
(* Instances of Session for TLC: versions that differ in all their bytes,  *)
(* and cycles that are interchangeable.                                    *)
EXTENDS Session

MCVersions == << [cpu |-> 61441, fpga |-> 18], [cpu |-> 6, fpga |-> 65535] >>

Symmetry == Permutations(Cycles)
=============================================================================
