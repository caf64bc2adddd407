----------------------------- MODULE LinkHealth -----------------------------
(***************************************************************************)
(* What a link promises about itself: it opens once, it is given up once   *)
(* at most, with one call of on_lost, and then on_lost is not called again *)
(* whatever else happens; who has closed it, or found it closed, will not  *)
(* see it open again, unless it was given up before it had opened.         *)
(***************************************************************************)
EXTENDS Integers

VARIABLES
  isOpen,  \* what is_open() returns
  opened,  \* has open() returned?
  onLost   \* calls of on_lost

vars == <<isOpen, opened, onLost>>

Init == ~isOpen /\ ~opened /\ onLost = 0

Open == ~opened /\ opened' /\ isOpen' /\ UNCHANGED onLost
GiveUp == onLost = 0 /\ onLost' = 1 /\ ~isOpen' /\ UNCHANGED opened
Close == opened /\ ~isOpen' /\ UNCHANGED <<opened, onLost>>

Spec == Init /\ [][Open \/ GiveUp \/ Close]_vars
=============================================================================
