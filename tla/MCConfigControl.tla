--------------------------- MODULE MCConfigControl ---------------------------
(***************************************************************************)
(* ConfigControl for TLC: three cycle counts and two flag words, one with  *)
(* bits beyond its low byte; none but 0 can be taken for the state of the  *)
(* device, or its low byte for a cycle.                                    *)
(***************************************************************************)
EXTENDS ConfigControl

SomeCycles == {0, 6, 7}
SomeFlags == {0, 260}
=============================================================================
