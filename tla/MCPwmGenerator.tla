--------------------------- MODULE MCPwmGenerator ---------------------------
(***************************************************************************)
(* PwmGenerator for TLC: ports with a short and with the longest period,   *)
(* without a period, and with a counter, a pulse or a delay beyond it.     *)
(* They are held until the pipeline has settled on them and then change to *)
(* any others, the period included, so that every pair of ports gets to be *)
(* in the pipeline together.                                               *)
(***************************************************************************)
EXTENDS PwmGenerator

Short == {i \in Ports : Sensible(i) /\ i.CYCLE = 3}
Longest == {i \in Ports : Sensible(i) /\ i.CYCLE = 7 /\ i.TIME \in {0, 3, 6} /\ i.DUTY \in {0, 3, 4, 7}}
None == {i \in Ports : i.CYCLE = 0 /\ i.TIME \in {0, 7} /\ i.DUTY \in {0, 1, 7} /\ i.PHASE_DELAY \in {0, 1, 7}}
Beyond == {i \in Ports : ~Sensible(i) /\ i.CYCLE = 3 /\ i.TIME \in {1, 5} /\ i.DUTY \in {1, 7} /\ i.PHASE_DELAY \in {2, 7}}
SomeInputs == Short \cup Longest \cup None \cup Beyond

Settled ==
  edges = Edges(ports) /\ sums = Sums(edges) /\ tests = Tests(sums) /\ pwm = Output(tests)
Moves == (Settled \/ UNCHANGED ports) /\ Next
MovingSpec == Init /\ [][Moves]_vars
=============================================================================
