------------------------ MODULE PwmGenerator_proofs ------------------------
(***************************************************************************)
(* Proofs about PwmGenerator, for words of any width and any inputs: no    *)
(* register overflows, and the pipeline puts out what the inputs asked for *)
(* four clocks ago, the ideal pulse if they were sensible.                 *)
(***************************************************************************)
EXTENDS PwmGenerator, TLAPS

(* What is known of the ports as numbers.                                  *)
LEMMA PortFacts ==
  ASSUME NEW i \in Inputs
  PROVE  /\ i.TIME \in Nat /\ i.CYCLE \in Nat /\ i.DUTY \in Nat /\ i.PHASE_DELAY \in Nat
         /\ i.TIME < WORDS /\ i.CYCLE < WORDS /\ i.DUTY < WORDS /\ i.PHASE_DELAY < WORDS
         /\ WORDS \in Nat
  BY PwmAssumption DEF Ports, Word

(* The subtraction of the first stage never borrows for sensible ports.    *)
LEMMA CentreIsExact ==
  ASSUME NEW i \in Inputs, Sensible(i)
  PROVE  (i.CYCLE - i.PHASE_DELAY) % WORDS = i.CYCLE - i.PHASE_DELAY
<1> DEFINE x == i.CYCLE - i.PHASE_DELAY
<1>1. x \in 0 .. WORDS - 1
  BY PortFacts DEF Sensible
<1> HIDE DEF x
<1>2. WORDS \in Nat \ {0}
  BY PwmAssumption
<1>3. x % WORDS = x
  BY <1>1, <1>2
<1> QED
  BY <1>3 DEF x

(* Where it borrows it still gives a word.                                 *)
LEMMA CentreIsWord ==
  ASSUME NEW i \in Inputs
  PROVE  (i.CYCLE - i.PHASE_DELAY) % WORDS \in Word
<1> DEFINE x == i.CYCLE - i.PHASE_DELAY
<1>1. x \in Int
  BY PortFacts
<1> HIDE DEF x
<1>2. WORDS \in Nat \ {0}
  BY PwmAssumption
<1>3. x % WORDS \in 0 .. WORDS - 1
  BY <1>1, <1>2
<1> QED
  BY <1>3 DEF x, Word

(* Without a period the centre is above zero exactly if there is a delay.  *)
LEMMA CentreWithoutPeriod ==
  ASSUME NEW i \in Inputs, i.CYCLE = 0
  PROVE  (i.CYCLE - i.PHASE_DELAY) % WORDS = 0 <=> i.PHASE_DELAY = 0
<1> DEFINE p == i.PHASE_DELAY
<1>1. p \in 0 .. WORDS - 1 /\ i.CYCLE - i.PHASE_DELAY = 0 - p
  BY PortFacts
<1> HIDE DEF p
<1>2. WORDS \in Nat \ {0}
  BY PwmAssumption
<1>3. CASE p = 0
  <2>1. 0 % WORDS = 0
    BY <1>2
  <2> QED
    BY <1>1, <1>3, <2>1 DEF p
<1>4. CASE p # 0
  <2>1. (0 - p) % WORDS # 0
    BY <1>1, <1>2, <1>4
  <2> QED
    BY <1>1, <1>4, <2>1 DEF p
<1> QED
  BY <1>3, <1>4

(* The two halves of a pulse.                                              *)
LEMMA Halves ==
  ASSUME NEW n \in Nat
  PROVE  /\ n \div 2 \in Nat /\ n % 2 \in {0, 1}
         /\ n = 2 * (n \div 2) + (n % 2)
  OBVIOUS

(* The comparisons of the pipeline, with the two wrapped cases, decide     *)
(* whether the ideal pulse covers the clock: for every period, pulse,      *)
(* delay and counter.                                                      *)
THEOREM OutputIsPulse ==
  ASSUME NEW i \in Inputs, Sensible(i)
  PROVE  Output(Tests(Sums(Edges(i)))) <=> Pulse(i)
<1> DEFINE T == i.TIME  C == i.CYCLE  P == i.CYCLE - i.PHASE_DELAY
           L == i.DUTY \div 2  R == (i.DUTY \div 2) + (i.DUTY % 2)
<1>1. /\ T \in Nat /\ C \in Nat /\ P \in Nat /\ L \in Nat /\ R \in Nat
      /\ T < C /\ P <= C /\ L <= R /\ R <= L + 1 /\ L + R <= C /\ i.DUTY = L + R
  <2>1. /\ i.DUTY \div 2 \in Nat /\ i.DUTY % 2 \in {0, 1}
        /\ i.DUTY = 2 * (i.DUTY \div 2) + (i.DUTY % 2)
    BY PortFacts, Halves
  <2>2. P \in Nat /\ P <= C /\ T \in Nat /\ C \in Nat /\ T < C
    BY PortFacts DEF Sensible
  <2>3. L + R = i.DUTY /\ L <= R /\ R <= L + 1 /\ L \in Nat /\ R \in Nat
    BY <2>1
  <2> QED
    BY <2>2, <2>3, PortFacts DEF Sensible
<1>2. Output(Tests(Sums(Edges(i)))) <=>
        \/ P <= T + L /\ T < P + R
        \/ (T < P + R \/ C + P <= T + L) /\ P < L
        \/ (C + T < P + R \/ P <= T + L) /\ C < P + R
  BY CentreIsExact, Zenon DEF Output, Tests, Sums, Edges
<1>3. Pulse(i) <=> \E k \in {-1, 0, 1} : P - L <= T + k * C /\ T + k * C < P - L + i.DUTY
  BY Zenon DEF Pulse
<1>4. Pulse(i) <=>
        \/ P - L <= T - C /\ T - C < P + R
        \/ P - L <= T /\ T < P + R
        \/ P - L <= T + C /\ T + C < P + R
  <2> HIDE DEF T, C, P, L, R
  <2>1. P - L + i.DUTY = P + R
    BY <1>1
  <2>2. /\ T + (-1) * C = T - C
        /\ T + 0 * C = T
        /\ T + 1 * C = T + C
    BY <1>1
  <2> QED
    BY <1>3, <2>1, <2>2
<1> HIDE DEF T, C, P, L, R
<1> QED
  BY <1>1, <1>2, <1>4

(* With CYCLE = 0, as CLEAR leaves it, the comparisons make a constant     *)
(* level: a transducer with a duty or a delay left over is driven high.    *)
THEOREM OutputWithoutPeriod ==
  ASSUME NEW i \in Inputs, i.CYCLE = 0
  PROVE  Output(Tests(Sums(Edges(i)))) <=> Constant(i)
<1> DEFINE T == i.TIME  P == (i.CYCLE - i.PHASE_DELAY) % WORDS
           L == i.DUTY \div 2  R == (i.DUTY \div 2) + (i.DUTY % 2)
<1>1. /\ i.DUTY \in Nat /\ i.DUTY \div 2 \in Nat /\ i.DUTY % 2 \in {0, 1}
      /\ i.DUTY = 2 * (i.DUTY \div 2) + (i.DUTY % 2)
  BY PortFacts, Halves
<1>2. T \in Nat /\ L \in Nat /\ R \in Nat /\ L <= R /\ (R = 0 <=> i.DUTY = 0)
  <2> DEFINE q == i.DUTY \div 2  b == i.DUTY % 2  n == i.DUTY
  <2>1. T \in Nat
    BY PortFacts
  <2>2. q \in Nat /\ b \in {0, 1} /\ n \in Nat /\ n = 2 * q + b /\ L = q /\ R = q + b
    BY <1>1
  <2> HIDE DEF q, b, n, T, L, R
  <2>3. L \in Nat /\ R \in Nat /\ L <= R /\ (R = 0 <=> n = 0)
    BY <2>2
  <2> QED
    BY <2>1, <2>3 DEF n
<1>3. P \in Nat /\ (P = 0 <=> i.PHASE_DELAY = 0)
  BY CentreIsWord, CentreWithoutPeriod DEF Word
<1>4. Output(Tests(Sums(Edges(i)))) <=>
        \/ P <= T + L /\ T < P + R
        \/ (T < P + R \/ i.CYCLE + P <= T + L) /\ P < L
        \/ (i.CYCLE + T < P + R \/ P <= T + L) /\ i.CYCLE < P + R
  BY Zenon DEF Output, Tests, Sums, Edges
<1>5. Constant(i) <=> ~(R = 0 /\ P = 0)
  BY <1>2, <1>3, PortFacts DEF Constant
<1> HIDE DEF T, P, L, R
<1> QED
  BY <1>2, <1>3, <1>4, <1>5

(* So the comparisons give a level that the ports allow.                   *)
LEMMA OutputIsAllowed ==
  ASSUME NEW i \in Inputs
  PROVE  Output(Tests(Sums(Edges(i)))) \in LevelsOf(i)
<1> DEFINE o == Output(Tests(Sums(Edges(i))))
<1>1. o \in BOOLEAN /\ Pulse(i) \in BOOLEAN /\ Constant(i) \in BOOLEAN
  BY DEF Output, Pulse, Constant
<1>2. Sensible(i) => (o <=> Pulse(i))
  BY OutputIsPulse
<1>3. i.CYCLE = 0 => (o <=> Constant(i))
  BY OutputWithoutPeriod
<1> HIDE DEF o
<1>4. /\ Sensible(i) => o = Pulse(i)
      /\ i.CYCLE = 0 => o = Constant(i)
  BY <1>1, <1>2, <1>3, Zenon
<1>5. o \in LevelsOf(i)
  BY <1>1, <1>4, Zenon DEF LevelsOf
<1> QED
  BY <1>5 DEF o
-----------------------------------------------------------------------------
(* Every register fits its width: the two extra bits of the sums are       *)
(* enough, whatever the ports.                                             *)
THEOREM TypeCorrect == Spec => []TypeOK
<1>1. Init => TypeOK
  <2>1. 0 \in Word /\ 0 \in Long
    BY PwmAssumption DEF Word, Long
  <2>2. Init => edges \in [t : Word, C : Word, P : Word, DL : Word, DR : Word]
    BY <2>1 DEF Init
  <2>3. Init => sums \in [left : Long, right : Long, t2 : Long, p2 : Long, dl2 : Long,
                          pc : Long, tc : Long, c2 : Long]
    BY <2>1 DEF Init
  <2>4. Init => tests \in [pwm1 : BOOLEAN, pwm2 : BOOLEAN, pwm1o : BOOLEAN,
                           pwm2o : BOOLEAN, cond_1 : BOOLEAN, cond_2 : BOOLEAN]
    BY SMT DEF Init
  <2> QED
    BY <2>2, <2>3, <2>4, Zenon DEF Init, TypeOK
<1>2. TypeOK /\ [Next]_vars => TypeOK'
  <2> SUFFICES ASSUME TypeOK, [Next]_vars PROVE TypeOK'
    OBVIOUS
  <2>1. CASE UNCHANGED vars
    BY <2>1 DEF vars, TypeOK
  <2>2. CASE Next
    <3> DEFINE i == ports
    <3>0. i \in Inputs
      BY DEF TypeOK
    <3>1. Edges(i) \in [t : Word, C : Word, P : Word, DL : Word, DR : Word]
      <4>1. (i.CYCLE - i.PHASE_DELAY) % WORDS \in Word /\ i.TIME \in Word /\ i.CYCLE \in Word
        BY <3>0, PortFacts, CentreIsWord DEF Word
      <4>2. i.DUTY \div 2 \in Word /\ (i.DUTY \div 2) + (i.DUTY % 2) \in Word
        BY <3>0, PortFacts, Halves DEF Word
      <4> QED
        BY <4>1, <4>2 DEF Edges
    <3>2. Sums(edges) \in
            [left : Long, right : Long, t2 : Long, p2 : Long, dl2 : Long,
             pc : Long, tc : Long, c2 : Long]
      <4>1. \A a, b \in Word : a + b \in Long /\ a \in Long
        BY PwmAssumption DEF Word, Long
      <4>2. /\ edges.t \in Word /\ edges.C \in Word /\ edges.P \in Word
            /\ edges.DL \in Word /\ edges.DR \in Word
        BY DEF TypeOK
      <4> QED
        BY <4>1, <4>2 DEF Sums
    <3>3. Tests(sums) \in [pwm1 : BOOLEAN, pwm2 : BOOLEAN, pwm1o : BOOLEAN,
                         pwm2o : BOOLEAN, cond_1 : BOOLEAN, cond_2 : BOOLEAN]
      BY DEF Tests
    <3>4. Output(tests) \in BOOLEAN
      BY DEF Output
    <3> QED
      BY <2>2, <3>1, <3>2, <3>3, <3>4 DEF Next, Clock, TypeOK
  <2> QED
    BY <2>1, <2>2
<1> QED
  BY <1>1, <1>2, PTL DEF Spec

(* The levels under way are Booleans.                                      *)
LEMMA LevelsAt ==
  /\ Levels = [k \in 1 .. 4 |-> Levels[k]]
  /\ Levels[1] = Output(Tests(Sums(edges)))
  /\ Levels[2] = Output(Tests(sums))
  /\ Levels[3] = Output(tests)
  /\ Levels[4] = pwm
  BY DEF Levels

(* The pipeline implements the delay line: whatever the ports do from one  *)
(* clock to the next, the output of a clock is what the ports asked for    *)
(* four clocks before it, all read at the same clock.                      *)
THEOREM PipelineDelaysPulse == Spec => PulsesDelayed
<1>1. Init => Line!Init
  <2>1. Levels[1] \in BOOLEAN /\ Levels[2] \in BOOLEAN /\ Levels[3] \in BOOLEAN
    <3>1. \A x : Output(x) \in BOOLEAN
      BY DEF Output
    <3> QED
      BY <3>1, LevelsAt
  <2>2. Init => Levels[4] \in BOOLEAN
    BY LevelsAt DEF Init
  <2> QED
    BY <2>1, <2>2, LevelsAt DEF Line!Init, Init
<1>2. TypeOK /\ TypeOK' /\ [Next]_vars => [Line!Next]_<<ports, Levels, tick>>
  <2> SUFFICES ASSUME TypeOK, TypeOK', [Next]_vars PROVE [Line!Next]_<<ports, Levels, tick>>
    OBVIOUS
  <2>1. CASE UNCHANGED vars
    BY <2>1 DEF vars, Levels
  <2>2. CASE Next
    <3>a. ports \in Inputs /\ ports' \in Inputs /\ Clock /\ tick' = ~tick
      BY <2>2 DEF Next, TypeOK
    <3> DEFINE i == ports
    <3>0. /\ Levels' = [k \in 1 .. 4 |-> Levels'[k]]
          /\ Levels'[1] = Output(Tests(Sums(edges')))
          /\ Levels'[2] = Output(Tests(sums'))
          /\ Levels'[3] = Output(tests')
          /\ Levels'[4] = pwm'
      BY DEF Levels
    <3>1. Levels'[1] \in LevelsOf(i)
      <4>1. Levels'[1] = Output(Tests(Sums(Edges(i))))
        BY <3>0, <3>a, Zenon DEF Clock
      <4> QED
        BY <3>a, <4>1, OutputIsAllowed, Zenon
    <3>2. Levels'[2] = Levels[1] /\ Levels'[3] = Levels[2] /\ Levels'[4] = Levels[3]
      BY <3>0, <3>a, LevelsAt, Zenon DEF Clock
    <3>3. Levels' = [k \in 1 .. 4 |-> IF k = 1 THEN Levels'[1] ELSE Levels[k - 1]]
      <4>1. \A k \in 1 .. 4 : Levels'[k] = IF k = 1 THEN Levels'[1] ELSE Levels[k - 1]
        BY <3>2
      <4> QED
        BY <3>0, <4>1, Zenon
    <3> QED
      BY <3>a, <3>1, <3>3 DEF Line!Next
  <2> QED
    BY <2>1, <2>2
<1> QED
  BY <1>1, <1>2, TypeCorrect, PTL DEF Spec, PulsesDelayed, Line!Spec
=============================================================================
