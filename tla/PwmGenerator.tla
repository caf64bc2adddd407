---------------------------- MODULE PwmGenerator ----------------------------
(***************************************************************************)
(* pwm_generator.sv: a pulse of DUTY clocks in a period of CYCLE clocks,   *)
(* centred PHASE_DELAY clocks before the end of the period and wrapped     *)
(* round the ends of it, computed in a pipeline of four registers.  All    *)
(* registers are written at every clock from the values before it, so one  *)
(* clock is one step.  Each stage is a record of its registers.            *)
(***************************************************************************)
EXTENDS Integers

CONSTANTS WORDS,    \* 2 ^ WIDTH, the values of TIME, CYCLE, DUTY, PHASE_DELAY
          Inputs    \* the values the four ports may take

Word == 0 .. WORDS - 1
Long == 0 .. 4 * WORDS - 1    \* two bits wider
Ports == [TIME : Word, CYCLE : Word, DUTY : Word, PHASE_DELAY : Word]

(* The inputs the generator is made for: a counter below the period, a     *)
(* pulse and a delay of a period at most (to_duty stops at half a period,  *)
(* to_phase at a whole one).  Others occur: while the period changes the   *)
(* duties are those of the one before, a counter can be past the new end,  *)
(* and CLEAR sets the period to 0.                                         *)
Sensible(i) == i.TIME < i.CYCLE /\ i.DUTY <= i.CYCLE /\ i.PHASE_DELAY <= i.CYCLE

ASSUME PwmAssumption ==
  /\ WORDS \in Nat \ {0}
  /\ Inputs \subseteq Ports

VARIABLES
  ports,    \* TIME, CYCLE, DUTY and PHASE_DELAY
  edges,    \* t, C, P, DL, DR: counter, period, centre, halves of the pulse
  sums,     \* left, right, t2, p2, dl2, pc, tc, c2
  tests,    \* pwm1, pwm2, pwm1o, pwm2o, cond_1, cond_2
  pwm,      \* the output
  tick      \* the parity of the clock

vars == <<ports, edges, sums, tests, pwm, tick>>

(* A mutant: the odd clock of the pulse is lost.                           *)
BugEvenPulse(i) ==
  [t |-> i.TIME, C |-> i.CYCLE, P |-> (i.CYCLE - i.PHASE_DELAY) % WORDS,
   DL |-> i.DUTY \div 2, DR |-> i.DUTY \div 2]

(* A mutant: the left edge in the place of the centre, below zero for a    *)
(* pulse that sticks out to the left.                                      *)
BugLeftEdge(i) ==
  [t |-> i.TIME, C |-> i.CYCLE, P |-> i.CYCLE - i.PHASE_DELAY - i.DUTY \div 2,
   DL |-> 0, DR |-> i.DUTY]

(* First registers.  The subtraction is one of WIDTH bits.                 *)
Edges(i) ==
  [t |-> i.TIME, C |-> i.CYCLE, P |-> (i.CYCLE - i.PHASE_DELAY) % WORDS,
   DL |-> i.DUTY \div 2, DR |-> (i.DUTY \div 2) + (i.DUTY % 2)]

(* Second: two bits wider than a word, so that no sum overflows.           *)
Sums(e) ==
  [left |-> e.t + e.DL, right |-> e.P + e.DR, t2 |-> e.t, p2 |-> e.P, dl2 |-> e.DL,
   pc |-> e.C + e.P, tc |-> e.C + e.t, c2 |-> e.C]

(* Third: in the pulse after its left and before its right edge, the same  *)
(* one period on, and whether the pulse sticks out of the period.          *)
Tests(s) ==
  [pwm1 |-> s.p2 <= s.left, pwm2 |-> s.t2 < s.right,
   pwm1o |-> s.pc <= s.left, pwm2o |-> s.tc < s.right,
   cond_1 |-> s.p2 < s.dl2, cond_2 |-> s.c2 < s.right]

Output(x) ==
  \/ x.pwm1 /\ x.pwm2
  \/ (x.pwm2 \/ x.pwm1o) /\ x.cond_1
  \/ (x.pwm2o \/ x.pwm1) /\ x.cond_2

(* The registers have no reset: they start as the FPGA does, all zero.     *)
Init ==
  /\ ports \in Inputs
  /\ edges = [t |-> 0, C |-> 0, P |-> 0, DL |-> 0, DR |-> 0]
  /\ sums = [left |-> 0, right |-> 0, t2 |-> 0, p2 |-> 0, dl2 |-> 0, pc |-> 0, tc |-> 0, c2 |-> 0]
  /\ tests = [pwm1 |-> FALSE, pwm2 |-> FALSE, pwm1o |-> FALSE, pwm2o |-> FALSE,
              cond_1 |-> FALSE, cond_2 |-> FALSE]
  /\ pwm = FALSE /\ tick \in BOOLEAN

(* A mutant: the counter skips the first register.                        *)
BugClock ==
  /\ edges' = Edges(ports) /\ sums' = [Sums(edges) EXCEPT !.t2 = ports.TIME]
  /\ tests' = Tests(sums) /\ pwm' = Output(tests)

Clock ==
  /\ edges' = Edges(ports)
  /\ sums' = Sums(edges)
  /\ tests' = Tests(sums)
  /\ pwm' = Output(tests)

Next == Clock /\ ports' \in Inputs /\ tick' = ~tick

Spec == Init /\ [][Next]_vars
-----------------------------------------------------------------------------
(* Type invariant: every register fits its width.                          *)
TypeOK ==
  /\ ports \in Inputs
  /\ edges \in [t : Word, C : Word, P : Word, DL : Word, DR : Word]
  /\ sums \in [left : Long, right : Long, t2 : Long, p2 : Long, dl2 : Long,
               pc : Long, tc : Long, c2 : Long]
  /\ tests \in [pwm1 : BOOLEAN, pwm2 : BOOLEAN, pwm1o : BOOLEAN, pwm2o : BOOLEAN,
                cond_1 : BOOLEAN, cond_2 : BOOLEAN]
  /\ pwm \in BOOLEAN /\ tick \in BOOLEAN

(* The level the inputs ask for: with the pulse starting half its width    *)
(* before its centre, this instant or the same one in the period before or *)
(* after lies in the pulse.                                                *)
Pulse(i) ==
  LET start == i.CYCLE - i.PHASE_DELAY - i.DUTY \div 2
  IN  \E k \in {-1, 0, 1} :
        /\ start <= i.TIME + k * i.CYCLE
        /\ i.TIME + k * i.CYCLE < start + i.DUTY

(* Without a period the comparisons make a constant level of what duty and *)
(* phase are left over: high, unless both are zero.                        *)
Constant(i) == i.DUTY > 0 \/ i.PHASE_DELAY > 0

(* What the ports ask for; ports outside of all this may give any level.   *)
LevelsOf(i) ==
  IF Sensible(i) THEN {Pulse(i)} ELSE IF i.CYCLE = 0 THEN {Constant(i)} ELSE BOOLEAN

(* The levels under way in the pipeline, from each stage's registers.      *)
Levels ==
  [k \in 1 .. 4 |->
     CASE k = 1 -> Output(Tests(Sums(edges)))
       [] k = 2 -> Output(Tests(sums))
       [] k = 3 -> Output(tests)
       [] k = 4 -> pwm]

(* The pipeline implements a delay line of four clocks for the pulse: even *)
(* when duty, phase or period change from one clock to the next, no output *)
(* mixes the inputs of two clocks, the wrapped pulse is the ideal one, and *)
(* ports that are not sensible spoil the level of no clock but their own.  *)
Line == INSTANCE DelayLine
          WITH Depth <- 4, Level <- LevelsOf, line <- Levels
PulsesDelayed == Line!Spec
=============================================================================
