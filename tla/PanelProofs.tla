---------------------------- MODULE PanelProofs ----------------------------
(***************************************************************************)
(* What the web panel shows is true, for every WIDTH and whatever is typed *)
(* into the fields.  The invariant has three parts.  The circuit is armed, *)
(* working or at its end, and the counter of the harness tells which.      *)
(* While no demonstration is on, the operands of the panel, of the circuit *)
(* and of the interval that may run are the same.  While one is on, no     *)
(* interval runs, so nothing clocks the circuit but the demonstration.     *)
(***************************************************************************)
EXTENDS DemoPanel, WordsProofs, FiniteSetTheorems

\* The lemmas about the datapath, for the operands that are at its ports.
mul == INSTANCE MulModProofs WITH
  f_a <- ports.in.a, f_b <- ports.in.b, f_m <- ports.in.m, f_running <- TRUE

\* Operands as every handler prepares them: the modulus clamped, a reduced.
Prepared(in) == in \in Operands /\ in.m >= 2 /\ in.a < in.m

Primed ==
  /\ g_cycles = 0 /\ ~g_latched /\ ports.start
  /\ ~busy /\ cnt = 0 /\ acc = 0 /\ ~done

\* The product of the two powers is what a bit of b is found by.
Working ==
  /\ g_cycles \in 1 .. WIDTH /\ g_latched /\ ~ports.start
  /\ busy /\ cnt = WIDTH + 1 - g_cycles /\ ~done
  /\ mul!Running
  /\ Pow2[WIDTH - cnt] * Pow2[cnt] = Radix

Ended ==
  /\ g_cycles = WIDTH + 1 /\ ~busy /\ done
  /\ result = bigMulMod(ports.in) /\ acc = result

Circuit == Prepared(ports.in) /\ (Primed \/ Working \/ Ended)

CircuitTypes ==
  /\ TypeOK
  /\ ports \in [start : BOOLEAN, in : Operands]
  /\ g_cycles \in 0 .. WIDTH + 1 /\ g_latched \in BOOLEAN

-----------------------------------------------------------------------------
(* The circuit.                                                            *)

\* sim_load, whatever was there.
LEMMA LoadArms ==
  ASSUME NEW in, Prepared(in), sim_load(in)
  PROVE  CircuitTypes' /\ Circuit' /\ Primed' /\ ports'.in = in
<1>1. 0 \in Word /\ 0 \in WideWord /\ 0 \in 0 .. WIDTH /\ 0 \in 0 .. WIDTH + 1
  BY RadixFacts, WidthAssumption DEF Word, WideWord
<1>2. ports'.in = in /\ ports'.start = TRUE
  BY DEF sim_load
<1>3. ports' \in [start : BOOLEAN, in : Operands]
  BY DEF sim_load, Prepared
<1>4. CircuitTypes'
  BY <1>1, <1>3 DEF sim_load, Reset, CircuitTypes, TypeOK
<1>5. Primed'
  BY <1>2 DEF sim_load, Reset, Primed, busy
<1>6. QED
  BY <1>2, <1>4, <1>5 DEF Circuit, Prepared

\* The datapath of the instance is that of the model.
LEMMA SameCircuit ==
  /\ mul!TypeOK <=> TypeOK
  /\ mul!busy <=> busy
  /\ mul!Radix = Radix
  /\ mul!Word = Word
  /\ mul!WideWord = WideWord
  /\ mul!Step = Step
  /\ mul!ShiftLeft(b_reg) = ShiftLeft(b_reg)
  /\ mul!Msb(b_reg) = Msb(b_reg)
<1>1. /\ mul!Radix = Radix /\ mul!WideRadix = WideRadix
  BY DEF mul!Radix, mul!WideRadix, Radix, WideRadix
<1>2. mul!Word = Word /\ mul!WideWord = WideWord
  BY <1>1 DEF mul!Word, mul!WideWord, Word, WideWord
<1>3. mul!TypeOK <=> TypeOK
  BY <1>2 DEF mul!TypeOK, TypeOK
<1>4. mul!Msb(b_reg) = Msb(b_reg)
  BY DEF mul!Msb, Msb
<1>5. mul!Doubled = Doubled
  BY <1>1 DEF mul!Doubled, Doubled, mul!CondSub, CondSub
<1>6. mul!Added = Added
  BY <1>1, <1>5 DEF mul!Added, Added, mul!CondSub, CondSub
<1>7. mul!Step = Step
  BY <1>4, <1>5, <1>6 DEF mul!Step, Step
<1>8. mul!ShiftLeft(b_reg) = ShiftLeft(b_reg)
  BY <1>1 DEF mul!ShiftLeft, ShiftLeft
<1>9. QED
  BY <1>1, <1>2, <1>3, <1>4, <1>7, <1>8 DEF mul!busy, busy

\* The first clock of an armed circuit takes the operands.
LEMMA FirstClock ==
  ASSUME CircuitTypes, Prepared(ports.in), Primed, sim_step
  PROVE  /\ CircuitTypes' /\ Circuit' /\ Working' /\ ~done'
         /\ ports'.in = ports.in /\ g_cycles' = 1
<1>1. /\ WIDTH \in 0 .. WIDTH /\ WIDTH \in 1 .. WIDTH /\ 0 \in WideWord
      /\ 1 \in 0 .. WIDTH + 1 /\ WIDTH + 1 - 1 = WIDTH /\ WIDTH - WIDTH = 0
      /\ 1 \in 1 .. WIDTH
  BY RadixFacts, WidthAssumption DEF WideWord
<1>2. g_cycles' = 1 /\ g_latched'
  BY DEF sim_step, Primed
<1>3. /\ ports' = [ports EXCEPT !.start = FALSE]
      /\ ports'.in = ports.in /\ ~ports'.start
      /\ ports' \in [start : BOOLEAN, in : Operands]
  BY DEF sim_step, Primed, CircuitTypes
<1> DEFINE in == ports.in
<1>4. /\ in.a \in Word /\ in.b \in Word /\ in.m \in Word /\ in.a < in.m
  BY DEF Prepared, Operands
<1>5. Latch(TRUE, in.a, in.b, in.m)
  BY DEF sim_step, Primed, Clock, Rest, Latch, Iterate, Finish, busy
<1>6. /\ TypeOK' /\ busy' /\ ~done' /\ cnt' = WIDTH
  BY <1>1, <1>4, <1>5 DEF Latch, TypeOK, busy, CircuitTypes
<1>7. mul!Running'
  <2>1. mul!Latch(TRUE, in.a, in.b, in.m)
    BY <1>5 DEF Latch, mul!Latch
  <2>2. in.a \in mul!Word /\ in.b \in mul!Word /\ in.m \in mul!Word
    BY <1>4, SameCircuit
  <2>3. ports'.in.a = in.a /\ ports'.in.b = in.b /\ ports'.in.m = in.m
    BY <1>3
  <2>4. QED
    BY <1>4, <2>1, <2>2, <2>3, mul!LatchRuns, WidthAssumption, Pow2Assumption
<1>8. Pow2[0] * Pow2[WIDTH] = Radix
  BY RadixFacts, Pow2Assumption DEF Radix
<1>9. Working'
  BY <1>1, <1>2, <1>3, <1>6, <1>7, <1>8 DEF Working, Radix
<1>10. QED
  BY <1>1, <1>2, <1>3, <1>6, <1>9 DEF Circuit, CircuitTypes, Prepared

\* A quotient is recognised by its remainder.
LEMMA DivUnique ==
  ASSUME NEW h \in Nat, h > 0, NEW q \in Nat, NEW e \in Nat, e < h
  PROVE  (q * h + e) \div h = q
OBVIOUS

\* b, shifted left so far that its top bits have left the word: what is left
\* has its top bit set exactly if that bit of b is.
LEMMA TopBitLeft ==
  ASSUME NEW b \in Nat, NEW P \in Nat, P > 0, NEW h \in Nat, h > 0,
         NEW p \in Nat, NEW rest \in Nat, rest < P * (2 * h),
         b * P = p * (P * (2 * h)) + rest
  PROVE  rest >= P * h <=> (b \div h) % 2 = 1
<1> DEFINE s == b - p * (2 * h)
<1>1. s \in Int /\ b = p * (2 * h) + s
  OBVIOUS
<1>2. P * s = rest
  <2>1. P * (p * (2 * h)) = p * (P * (2 * h))
    OBVIOUS
  <2>2. P * s = b * P - P * (p * (2 * h))
    OBVIOUS
  <2>3. QED
    BY <2>1, <2>2
<1> HIDE DEF s
<1>3. s >= 0
  <2>1. ASSUME s <= -1 PROVE FALSE
    <3>1. P * s <= -1
      BY <1>1, <2>1
    <3>2. QED
      BY <1>2, <3>1
  <2>2. QED
    BY <1>1, <2>1
<1>4. s < 2 * h
  <2>1. ASSUME s >= 2 * h PROVE FALSE
    <3>1. P * s >= P * (2 * h)
      BY <1>1, <2>1
    <3>2. QED
      BY <1>2, <3>1
  <2>2. QED
    BY <1>1, <2>1
<1>5. CASE s >= h
  <2>1. rest >= P * h
    BY <1>1, <1>2, <1>5
  <2>2. b = (2 * p + 1) * h + (s - h) /\ s - h \in Nat /\ s - h < h
    BY <1>1, <1>4, <1>5
  <2>3. b \div h = 2 * p + 1
    BY <2>2, DivUnique
  <2>4. (2 * p + 1) % 2 = 1
    OBVIOUS
  <2>5. QED
    BY <2>1, <2>3, <2>4
<1>6. CASE s < h
  <2>1. P * h - P * s >= 1
    <3>1. P * h - P * s = P * (h - s) /\ h - s >= 1
      BY <1>1, <1>6
    <3>2. QED
      BY <1>1, <3>1
  <2>2. ~(rest >= P * h)
    BY <1>2, <2>1
  <2>3. b = (2 * p) * h + s /\ s \in Nat
    BY <1>1, <1>3
  <2>4. b \div h = 2 * p
    BY <1>6, <2>3, DivUnique
  <2>5. (2 * p) % 2 = 0
    OBVIOUS
  <2>6. QED
    BY <2>2, <2>4, <2>5
<1>7. QED
  BY <1>1, <1>5, <1>6

\* The powers on both sides of the bit that is up next.
LEMMA PowersAround ==
  ASSUME NEW c \in 1 .. WIDTH, Pow2[WIDTH - c] * Pow2[c] = Radix
  PROVE  /\ Pow2[WIDTH - c] \in Nat /\ Pow2[WIDTH - c] > 0
         /\ Pow2[c - 1] \in Nat /\ Pow2[c - 1] > 0
         /\ Pow2[c] = 2 * Pow2[c - 1]
         /\ Pow2[WIDTH - c] * Pow2[c - 1] = Pow2[WIDTH - 1]
         /\ Pow2[WIDTH - (c - 1)] * Pow2[c - 1] = Radix
<1>1. /\ c - 1 \in 0 .. WIDTH /\ (c - 1) + 1 = c
      /\ WIDTH - c \in 0 .. WIDTH /\ (WIDTH - c) + 1 = WIDTH - (c - 1)
      /\ c - 1 \in 0 .. WIDTH + 1 /\ WIDTH - c \in 0 .. WIDTH + 1
  BY WidthAssumption
<1>2. /\ Pow2[WIDTH - c] \in Nat \ {0} /\ Pow2[c - 1] \in Nat \ {0}
      /\ Pow2[(c - 1) + 1] = 2 * Pow2[c - 1]
      /\ Pow2[(WIDTH - c) + 1] = 2 * Pow2[WIDTH - c]
  BY <1>1, Pow2Assumption
<1>3. PICK x \in Nat, y \in Nat : x = Pow2[WIDTH - c] /\ y = Pow2[c - 1]
  BY <1>2
<1>4. x * (2 * y) = 2 * (x * y) /\ (2 * x) * y = 2 * (x * y)
  OBVIOUS
<1>5. x * (2 * y) = Radix
  BY <1>1, <1>2, <1>3
<1>6. x * y \in Nat /\ Radix = 2 * Pow2[WIDTH - 1] /\ Pow2[WIDTH - 1] \in Nat
  BY RadixFacts
<1>7. x * y = Pow2[WIDTH - 1]
  BY <1>4, <1>5, <1>6
<1>8. QED
  BY <1>1, <1>2, <1>3, <1>4, <1>5, <1>7

\* The bit the datapath is about to consume is the one the page names.
LEMMA BitUpNext ==
  ASSUME CircuitTypes, Working
  PROVE  Msb(b_reg) = 1 <=> (ports.in.b \div Pow2[WIDTH - g_cycles]) % 2 = 1
<1>1. /\ cnt \in 1 .. WIDTH /\ cnt - 1 = WIDTH - g_cycles
      /\ Pow2[WIDTH - cnt] * Pow2[cnt] = Radix
  BY WidthAssumption DEF Working, CircuitTypes
<1>2. PICK p \in Nat : ports.in.b * Pow2[WIDTH - cnt] = p * Radix + b_reg
  BY SameCircuit DEF Working, mul!Running, mul!Accumulated
<1>3. /\ ports.in.b \in Nat /\ b_reg \in Nat /\ b_reg < Radix
  BY RadixFacts DEF CircuitTypes, TypeOK, Word, Operands
<1>4. PICK P \in Nat, h \in Nat :
        /\ P = Pow2[WIDTH - cnt] /\ h = Pow2[cnt - 1] /\ P > 0 /\ h > 0
        /\ P * (2 * h) = Radix /\ P * h = Pow2[WIDTH - 1]
  BY <1>1, PowersAround
<1>5. /\ ports.in.b \in Nat /\ b_reg \in Nat /\ P > 0 /\ h > 0
      /\ b_reg < P * (2 * h)
      /\ ports.in.b * P = p * (P * (2 * h)) + b_reg
  BY <1>2, <1>3, <1>4
<1>6. b_reg >= P * h <=> (ports.in.b \div h) % 2 = 1
  BY <1>5, TopBitLeft, Zenon
<1>7. QED
  BY <1>1, <1>4, <1>6 DEF Msb

\* A later clock: one more bit, or the product.
LEMMA LaterClock ==
  ASSUME CircuitTypes, Prepared(ports.in), Working, sim_step
  PROVE  /\ CircuitTypes' /\ Circuit'
         /\ ports'.in = ports.in /\ g_cycles' = g_cycles + 1
         /\ IF done' THEN Ended' ELSE Working'
<1>1. /\ cnt \in 1 .. WIDTH /\ cnt # 0 /\ g_cycles \in 1 .. WIDTH
      /\ g_cycles + 1 \in 0 .. WIDTH + 1
      /\ cnt = WIDTH + 1 - g_cycles
  BY WidthAssumption DEF Working, CircuitTypes
<1>2. /\ ports' = ports /\ g_cycles' = g_cycles + 1 /\ g_latched'
  BY DEF sim_step, Working
<1>3. Clock(FALSE, ports.in.a, ports.in.b, ports.in.m)
  <2>1. ports.start = FALSE
    BY DEF Working, CircuitTypes
  <2>2. QED
    BY <2>1 DEF sim_step
<1>4. /\ ports.in.a \in Word /\ ports.in.b \in Word /\ ports.in.m \in Word
  BY DEF Prepared, Operands
<1>5. mul!Clock(FALSE, ports.in.a, ports.in.b, ports.in.m)
  BY <1>3, SameCircuit
     DEF Clock, Rest, Latch, Iterate, Finish, LastBit, mul!Clock, mul!Rest,
         mul!Latch, mul!Iterate, mul!Finish, mul!LastBit
<1>6. mul!FTypeOK
  BY <1>4, SameCircuit DEF CircuitTypes, mul!FTypeOK
<1>7. TypeOK'
  <2>1. mul!TypeOK'
    BY <1>1, <1>4, <1>5, SameCircuit, mul!ClockTypeOK, WidthAssumption,
       Pow2Assumption DEF CircuitTypes
  <2>2. mul!Word = Word /\ mul!WideWord = WideWord
    BY SameCircuit
  <2>3. QED
    BY <2>1, <2>2 DEF mul!TypeOK, TypeOK
<1>8. CircuitTypes'
  BY <1>1, <1>2, <1>7 DEF CircuitTypes
<1>9. CASE Iterate
  <2>1. mul!Iterate
    BY <1>9, SameCircuit DEF Iterate, LastBit, mul!Iterate, mul!LastBit
  <2>2. mul!Running'
    BY <1>2, <1>6, <2>1, mul!IterateRuns, WidthAssumption, Pow2Assumption
       DEF Working
  <2>3. /\ busy' /\ ~done' /\ cnt' = cnt - 1 /\ cnt # 1
    BY <1>9 DEF Iterate, busy, LastBit
  <2>4. Pow2[WIDTH - (cnt - 1)] * Pow2[cnt - 1] = Radix
    BY <1>1, PowersAround DEF Working
  <2>5. g_cycles + 1 \in 1 .. WIDTH /\ cnt - 1 = WIDTH + 1 - (g_cycles + 1)
    BY <1>1, <2>3, WidthAssumption
  <2>6. Working'
    BY <1>2, <2>2, <2>3, <2>4, <2>5 DEF Working, Radix
  <2>7. QED
    BY <1>2, <1>8, <2>3, <2>6 DEF Circuit, Prepared
<1>10. CASE Finish
  <2>1. cnt = 1 /\ done' /\ ~busy' /\ result' = Step % Radix
    BY <1>10 DEF Finish, LastBit, busy
  <2>2. /\ mul!Step % mul!Radix = mul!Step
        /\ mul!Step = (ports.in.a * ports.in.b) % ports.in.m
    BY <1>6, <2>1, mul!LastBitEquiv, WidthAssumption, Pow2Assumption
       DEF Working
  <2>3. g_cycles' = WIDTH + 1
    BY <1>1, <1>2, <2>1, WidthAssumption
  <2>4. result' = bigMulMod(ports.in)
    BY <2>1, <2>2, SameCircuit DEF bigMulMod
  <2>5. acc' = result'
    BY <1>10, <2>1, <2>2, SameCircuit DEF Finish
  <2>6. Ended'
    BY <1>2, <2>1, <2>3, <2>4, <2>5 DEF Ended, bigMulMod
  <2>7. QED
    BY <1>2, <1>8, <2>1, <2>6 DEF Circuit, Prepared
<1>11. QED
  BY <1>3, <1>9, <1>10 DEF Clock, Rest, Latch, Working, busy

\* A step of the harness, of a circuit that is not at its end.
LEMMA StepClocks ==
  ASSUME CircuitTypes, Prepared(ports.in), Primed \/ Working, sim_step
  PROVE  /\ CircuitTypes' /\ Circuit'
         /\ ports'.in = ports.in
         /\ g_cycles' = g_cycles + 1 /\ g_cycles' \in 1 .. WIDTH + 1
         /\ IF done' THEN Ended' ELSE Working'
         /\ g_cycles = 0 => Working'
         /\ Primed <=> g_cycles = 0
         /\ acc' \in Word /\ acc' % Radix = acc'
<1>1. Primed <=> g_cycles = 0
  BY DEF Primed, Working
<1>2. g_cycles + 1 \in 1 .. WIDTH + 1
  BY WidthAssumption DEF Primed, Working
<1>3. Primed => Working' /\ ~done' /\ g_cycles' = g_cycles + 1
  BY FirstClock DEF Primed
<1>4. /\ CircuitTypes' /\ Circuit'
      /\ ports'.in = ports.in /\ g_cycles' = g_cycles + 1
  BY <1>3, FirstClock, LaterClock
<1>5. IF done' THEN Ended' ELSE Working'
  BY <1>3, LaterClock
<1>6. acc' \in Word
  <2>1. CASE done'
    BY <1>4, <1>5, <2>1 DEF Ended, CircuitTypes, TypeOK
  <2>2. CASE ~done'
    <3>1. acc' < m_reg'
      BY <1>5, <2>2 DEF Working, mul!Running
    <3>2. acc' \in WideWord /\ m_reg' \in Word
      BY <1>4 DEF CircuitTypes, TypeOK
    <3>3. QED
      BY <3>1, <3>2, RadixFacts DEF WideWord, Word
  <2>3. QED
    BY <2>1, <2>2
<1>7. acc' % Radix = acc'
  <2>1. PICK r \in Word : r = acc'
    BY <1>6
  <2>2. r % Radix = r
    BY RadixFacts DEF Word
  <2>3. QED
    BY <2>1, <2>2
<1>8. QED
  BY <1>1, <1>2, <1>3, <1>4, <1>5, <1>6, <1>7

\* The product of prepared operands is a word.
LEMMA ProductFits ==
  ASSUME NEW in, Prepared(in)
  PROVE  bigMulMod(in) \in Word
<1>1. in.a \in Nat /\ in.b \in Nat /\ in.m \in Nat /\ in.m > 0
      /\ in.m < Radix
  BY RadixFacts DEF Prepared, Operands, Word
<1>2. in.a * in.b \in Nat
  BY <1>1
<1>3. (in.a * in.b) % in.m \in Nat /\ (in.a * in.b) % in.m < in.m
  BY <1>1, <1>2, ModFacts
<1>4. QED
  BY <1>1, <1>3, RadixFacts DEF bigMulMod, Word

-----------------------------------------------------------------------------
(* The page: what each of its operators draws, and what it leaves alone.   *)

Counts == {Dash} \cup {Reading(x) : x \in 0 .. WIDTH + 1}
Words == {Dash} \cup {Reading(x) : x \in Word}

Page ==
  [cyc : Counts, bits : Word, acc : Words, adds : 0 .. WIDTH, lit : BOOLEAN,
   active : SUBSET Stages, res : {Pending} \cup Words, caveat : BOOLEAN]

\* No operand has more set bits than WIDTH.
LEMMA PopcountBounded ==
  ASSUME NEW x
  PROVE  popcount(x) \in 0 .. WIDTH
<1> DEFINE bits == {i \in 0 .. WIDTH - 1 : (x \div Pow2[i]) % 2 = 1}
<1>1. /\ IsFiniteSet(0 .. WIDTH - 1) /\ Cardinality(0 .. WIDTH - 1) = WIDTH
  BY FS_Interval, WidthAssumption
<1>2. bits \subseteq 0 .. WIDTH - 1
  OBVIOUS
<1>3. IsFiniteSet(bits) /\ Cardinality(bits) <= Cardinality(0 .. WIDTH - 1)
  BY <1>1, <1>2, FS_Subset
<1>4. Cardinality(bits) \in Nat
  BY <1>3, FS_CardinalityType
<1>5. QED
  BY <1>1, <1>3, <1>4, WidthAssumption DEF popcount

\* What is drawn has its types.
LEMMA PageOK == shown \in Page => ShownTypeOK
BY DEF Page, Counts, Words, ShownTypeOK

\* The texts that are written.
LEMMA Written ==
  /\ Dash \in Counts /\ Dash \in Words
  /\ \A x \in 0 .. WIDTH + 1 : Reading(x) \in Counts
  /\ \A x \in Word : Reading(x) \in Words
  /\ 0 \in 0 .. WIDTH + 1 /\ 0 \in Word
BY WidthAssumption, RadixFacts DEF Counts, Words, Word

\* Preparing a run lights the box and shows the bits of b.
LEMMA ArmedShows ==
  ASSUME shown \in Page, NEW in, in.b \in Word, NEW s, s = Armed(in)
  PROVE  /\ s \in Page
         /\ s.cyc = Reading(0) /\ s.bits = in.b /\ s.acc = shown.acc
         /\ s.adds = popcount(in.b) /\ s.lit /\ s.active = shown.active
         /\ s.res = Pending /\ s.caveat = shown.caveat
<1>1. popcount(in.b) \in 0 .. WIDTH
  BY PopcountBounded
<1>2. Reading(0) \in Counts
  BY Written
<1> HIDE DEF popcount, Pending, Reading, Counts, Words
<1>3. s = [shown EXCEPT !.adds = popcount(in.b), !.bits = in.b, !.lit = TRUE,
                        !.cyc = Reading(0), !.res = Pending]
  BY DEF Armed, setAccLit, renderBits, updateContrast, Page
<1>4. QED
  BY <1>1, <1>2, <1>3 DEF Page

\* A drawn clock shows the registers after it, and the path they took.
LEMMA SteppedShows ==
  ASSUME shown \in Page, acc' \in Word, acc' % Radix = acc', b_reg' \in Word,
         NEW c \in 0 .. WIDTH + 1, NEW s, s = Stepped(c)
  PROVE  /\ s \in Page
         /\ s.cyc = Reading(c) /\ s.bits = b_reg' /\ s.acc = Reading(acc')
         /\ s.adds = shown.adds /\ s.lit = shown.lit
         /\ s.res = shown.res /\ s.caveat = shown.caveat
         /\ s.active = {} <=> c < 2
         /\ "s_add" \in s.active <=> c >= 2 /\ Msb(b_reg) = 1
<1> DEFINE path == IF c < 2 THEN {}
                   ELSE IF Msb(b_reg) = 1 THEN Stages
                   ELSE Stages \ {"s_add", "s_red2"}
<1>1. /\ path \subseteq Stages
      /\ path = {} <=> c < 2
      /\ "s_add" \in path <=> c >= 2 /\ Msb(b_reg) = 1
  BY DEF Stages, Msb
<1>2. Reading(c) \in Counts /\ Reading(acc') \in Words
  BY Written
<1> HIDE DEF Reading, Counts, Words, path
<1>3. s = [shown EXCEPT !.bits = b_reg', !.cyc = Reading(c),
                        !.acc = Reading(acc'), !.active = path]
  BY DEF Stepped, Clocked, showActive, setActive, renderBits, Page, path
<1>4. QED
  BY <1>1, <1>2, <1>3 DEF Page

\* The end of a run shows the result and whether a was reduced, and puts
\* the light out.
LEMMA FinishedShows ==
  ASSUME shown \in Page, acc' \in Word, acc' % Radix = acc', b_reg' \in Word,
         result' \in Word, g_cycles' \in 0 .. WIDTH + 1, reducedA \in BOOLEAN,
         shown' = Finished(g_cycles', TRUE, reducedA)
  PROVE  /\ shown' \in Page
         /\ shown'.cyc = Reading(g_cycles') /\ shown'.bits = b_reg'
         /\ shown'.acc = Reading(acc') /\ shown'.adds = shown.adds
         /\ ~shown'.lit /\ shown'.active = {}
         /\ shown'.res = Reading(result') /\ shown'.caveat = reducedA
<1>1. PICK d : d = Stepped(g_cycles')
  OBVIOUS
<1>2. /\ d \in Page /\ d.cyc = Reading(g_cycles') /\ d.bits = b_reg'
      /\ d.acc = Reading(acc') /\ d.adds = shown.adds
  BY <1>1, SteppedShows
<1>3. Reading(result') \in Words /\ {} \in SUBSET Stages
  BY Written
<1> HIDE DEF Reading, Counts, Words, Stages
<1>4. shown' = [d EXCEPT !.active = {}, !.lit = FALSE,
                         !.res = Reading(result'), !.caveat = reducedA]
  BY <1>1, <1>2 DEF Finished, setActive, setAccLit, Page
<1>5. QED
  BY <1>2, <1>3, <1>4 DEF Page

\* Clearing the panel puts the light out and leaves the result.
LEMMA ClearedShows ==
  ASSUME shown \in Page, NEW in, in.b \in Word, NEW s, s = Cleared(in)
  PROVE  /\ s \in Page
         /\ s.cyc = Reading(0) /\ s.bits = in.b /\ s.acc = Reading(0)
         /\ s.adds = popcount(in.b) /\ ~s.lit /\ s.active = {}
         /\ s.res = shown.res
<1>1. popcount(in.b) \in 0 .. WIDTH
  BY PopcountBounded
<1>2. Reading(0) \in Counts /\ Reading(0) \in Words /\ {} \in SUBSET Stages
  BY Written
<1> HIDE DEF popcount, Reading, Counts, Words, Stages
<1>3. s = [shown EXCEPT !.bits = in.b, !.adds = popcount(in.b),
                        !.active = {}, !.lit = FALSE, !.cyc = Reading(0),
                        !.acc = Reading(0)]
  BY DEF Cleared, setActive, setAccLit, renderBits, updateContrast, Page
<1>4. QED
  BY <1>1, <1>2, <1>3 DEF Page

\* Starting the demonstration puts the light and the path out, and a dash in
\* the counter and the accumulator.
LEMMA ProvingShows ==
  ASSUME shown \in Page, NEW s, s = Proving
  PROVE  /\ s \in Page
         /\ s.cyc = Dash /\ s.acc = Dash /\ s.adds = shown.adds
         /\ ~s.lit /\ s.active = {} /\ s.res = shown.res
<1>1. Dash \in Counts /\ Dash \in Words /\ {} \in SUBSET Stages
  BY Written
<1> HIDE DEF Dash, Counts, Words, Stages
<1>2. s = [shown EXCEPT !.active = {}, !.lit = FALSE, !.cyc = Dash,
                        !.acc = Dash]
  BY DEF Proving, setAccLit, setActive, Page
<1>3. QED
  BY <1>1, <1>2 DEF Page

\* Its end shows the clocks it counted and the bits that are loaded.
LEMMA ProvedShows ==
  ASSUME shown \in Page, readInputs.b \in Word,
         demo.allOk, demo.allSame, demo.refCyc \in 0 .. WIDTH + 1,
         shown' = Proved(readInputs, demo.allOk /\ demo.allSame, demo.refCyc)
  PROVE  /\ shown' \in Page
         /\ shown'.cyc = Reading(demo.refCyc) /\ shown'.bits = readInputs.b
         /\ shown'.acc = shown.acc /\ shown'.adds = popcount(readInputs.b)
         /\ shown'.lit = shown.lit /\ shown'.active = shown.active
         /\ shown'.res = shown.res
<1> DEFINE b == readInputs.b
<1>1. popcount(b) \in 0 .. WIDTH
  BY PopcountBounded
<1>2. Reading(demo.refCyc) \in Counts
  BY Written
<1> HIDE DEF popcount, Reading, Counts, Words, Stages, readInputs
<1>3. shown' = [shown EXCEPT !.cyc = Reading(demo.refCyc), !.bits = b,
                             !.adds = popcount(b), !.caveat = FALSE]
  BY DEF Proved, renderBits, updateContrast, Page
<1>4. QED
  BY <1>1, <1>2, <1>3 DEF Page

\* The contrast bar is redrawn alone.
LEMMA ContrastShows ==
  ASSUME shown \in Page, NEW b, NEW s, s = updateContrast(shown, b)
  PROVE  /\ s \in Page
         /\ s.cyc = shown.cyc /\ s.bits = shown.bits /\ s.acc = shown.acc
         /\ s.adds = popcount(b) /\ s.lit = shown.lit
         /\ s.active = shown.active /\ s.res = shown.res
         /\ s.caveat = shown.caveat
<1>1. popcount(b) \in 0 .. WIDTH
  BY PopcountBounded
<1> HIDE DEF popcount, Counts, Words, Stages
<1>2. QED
  BY <1>1 DEF updateContrast, Page

\* The page before the circuit is loaded.
LEMMA BlankShows ==
  Blank \in Page /\ ~Blank.lit /\ Blank.active = {} /\ Blank.res = Dash
<1>1. 0 \in 0 .. WIDTH /\ 0 \in Word /\ {} \in SUBSET Stages
  BY WidthAssumption, RadixFacts DEF Word
<1>2. Reading(0) \in Counts /\ Reading(0) \in Words /\ Dash \in Words
  BY Written
<1> HIDE DEF Reading, Dash, Counts, Words, Stages
<1>3. QED
  BY <1>1, <1>2 DEF Blank, Page

-----------------------------------------------------------------------------
(* The invariant.                                                          *)

PanelTypes ==
  /\ CircuitTypes
  /\ fields \in Fields /\ typed \in Fields
  /\ inputs_disabled \in BOOLEAN /\ run_disabled \in BOOLEAN
  /\ word \in {"LOADING", "RUN", "DONE", "FAULT", "STANDBY"}
  /\ shown \in Page
  /\ sim \in BOOLEAN /\ reducedA \in BOOLEAN
  /\ loaded \in [a : Word, b : Word, m : Nat] /\ due \in Words
  /\ timer \in {NoTimer} \cup TimerIds
  /\ live \subseteq [id : TimerIds, in : Operands]
  /\ timeouts \in 0 .. 1 /\ proved \in BOOLEAN
  /\ js \in {"idle", "step", "load", "clock", "prime"}

\* The demonstration is set off once, and finds nothing wrong.
Findings ==
  /\ ~proved => timeouts = 0
  /\ demo.k \in 1 .. 5 /\ demo.allOk = TRUE /\ demo.allSame = TRUE
  /\ demo.refCyc \in {0, WIDTH + 1}

BeforeBoot ==
  /\ js = "idle" /\ live = {} /\ timer = NoTimer /\ timeouts = 0
  /\ word \in {"LOADING", "FAULT"} /\ ~done
  /\ shown = Blank /\ due = Dash

\* The operands of the circuit and of the panel, and the fields they are from.
Agreed ==
  /\ ports.in = loaded
  /\ typed.b = loaded.b
  /\ loaded.m = IF typed.m < 2 THEN 2 ELSE typed.m

Standby ==
  /\ Primed
  /\ shown.bits = loaded.b
  /\ \/ shown.cyc = Reading(0) /\ shown.acc = Reading(0)
     \/ shown.cyc = Reading(WIDTH + 1) /\ shown.acc = Dash

\* From the first clock on the lit path is that of the bit just consumed.
Lit ==
  g_cycles >= 1 =>
    /\ shown.active = {} <=> g_cycles = 1
    /\ "s_add" \in shown.active <=>
         /\ g_cycles >= 2
         /\ (typed.b \div Pow2[WIDTH + 1 - g_cycles]) % 2 = 1

Running ==
  /\ Primed \/ Working
  /\ shown.cyc = Reading(g_cycles) /\ shown.res = Pending
  /\ IF g_cycles = 0 THEN shown.bits = typed.b
     ELSE shown.bits = b_reg /\ shown.acc = Reading(acc)
  /\ reducedA <=> typed.a >= loaded.m
  /\ Lit

Completed ==
  /\ Ended
  /\ shown.cyc = Reading(WIDTH + 1)
  /\ shown.bits = b_reg /\ shown.acc = Reading(acc)
  /\ shown.res = Reading(result)
  /\ shown.caveat <=> typed.a >= loaded.m

\* The state word is that of the circuit, and the page is that of both.
Told ==
  /\ Agreed
  /\ word = "STANDBY" => Standby
  /\ word = "RUN" => Running
  /\ word = "DONE" => Completed
  /\ word \in {"RUN", "DONE"} => due = Reading(bigMulMod(loaded))
  /\ shown.lit <=> word = "RUN"
  /\ word # "RUN" => shown.active = {}

\* The interval that may run is the one whose handle is kept, and has the
\* operands of the circuit.
OneInterval ==
  /\ live = IF timer = NoTimer THEN {} ELSE {[id |-> timer, in |-> loaded]}
  /\ live # {} => word = "RUN" /\ js = "idle"
  /\ js = "step" => word = "RUN"

\* While the demonstration clocks the circuit nothing else can.
AtDemo ==
  /\ live = {} /\ timer = NoTimer
  /\ ~shown.lit /\ shown.active = {} /\ shown.cyc = Dash /\ shown.acc = Dash
  /\ js # "prime" => demo.k < 5
  /\ demo.k > 1 => demo.refCyc = WIDTH + 1
  /\ js = "clock" => Primed \/ Working
  /\ js = "prime" => demo.refCyc = WIDTH + 1

AfterBoot ==
  /\ word \in {"RUN", "DONE", "STANDBY"}
  /\ Circuit
  /\ shown.adds = popcount(fields.b)
  /\ shown.res \in {Pending, due}
  /\ js \in {"idle", "step"} => Told /\ OneInterval
  /\ js \in {"load", "clock", "prime"} => AtDemo

PanelInv ==
  /\ PanelTypes /\ Findings
  /\ ~sim => BeforeBoot
  /\ sim => AfterBoot

-----------------------------------------------------------------------------
(* What the handlers share.                                                *)

\* The operands that are read are prepared, whatever is in the fields.
LEMMA InputsPrepared ==
  ASSUME PanelTypes
  PROVE  /\ Prepared(readInputs)
         /\ readInputs.b = fields.b /\ readInputs.m = pm
         /\ pm \in Word /\ pm >= 2
         /\ fields.a \in Word /\ fields.b \in Word /\ fields.m \in Word
<1>1. fields.a \in Word /\ fields.b \in Word /\ fields.m \in Word
  BY FieldsAssumption DEF PanelTypes
<1>2. Radix >= 4
  <2>1. WIDTH - 2 \in 0 .. WIDTH /\ WIDTH - 2 \in 0 .. WIDTH + 1
        /\ (WIDTH - 2) + 1 = WIDTH - 1
    BY WidthAssumption
  <2>2. Pow2[WIDTH - 2] \in Nat \ {0}
        /\ Pow2[WIDTH - 1] = 2 * Pow2[WIDTH - 2]
    BY <2>1, Pow2Assumption
  <2>3. QED
    BY <2>2, RadixFacts
<1>3. pm \in Word /\ pm >= 2
  BY <1>1, <1>2, RadixFacts DEF pm, Word
<1>4. fields.a % pm \in Nat /\ fields.a % pm < pm
  BY <1>1, <1>3, RadixFacts, ModFacts DEF Word
<1>5. fields.a % pm \in Word
  BY <1>3, <1>4, RadixFacts DEF Word
<1>6. QED
  BY <1>1, <1>3, <1>4, <1>5 DEF readInputs, Prepared, Operands

\* A load makes the operands of the panel and of the circuit those of the
\* fields, and primes the circuit.
LEMMA LoadAgrees ==
  ASSUME PanelTypes, LoadFields, sim_load(readInputs), UNCHANGED fields
  PROVE  /\ CircuitTypes' /\ Circuit' /\ Primed' /\ Agreed'
         /\ acc' = 0 /\ g_cycles' = 0 /\ ~done'
         /\ typed' \in Fields /\ reducedA' \in BOOLEAN
         /\ loaded' = readInputs /\ typed'.b = fields.b
         /\ loaded' \in [a : Word, b : Word, m : Nat]
         /\ reducedA' <=> typed'.a >= loaded'.m
<1>1. /\ Prepared(readInputs) /\ readInputs.b = fields.b
      /\ readInputs.m = pm /\ pm \in Word /\ pm >= 2
  BY InputsPrepared
<1>2. /\ CircuitTypes' /\ Circuit' /\ Primed' /\ ports'.in = readInputs
  BY <1>1, LoadArms
<1>3. loaded' = readInputs /\ typed' = fields /\ reducedA' = (fields.a >= pm)
  BY DEF LoadFields
<1>4. readInputs \in [a : Word, b : Word, m : Nat]
  BY <1>1, RadixFacts DEF Prepared, Operands, Word, readInputs
<1>5. Agreed'
  BY <1>1, <1>2, <1>3 DEF Agreed, pm
<1>6. acc' = 0 /\ g_cycles' = 0 /\ ~done'
  BY <1>2 DEF Primed
<1>7. reducedA' \in BOOLEAN /\ (reducedA' <=> typed'.a >= loaded'.m)
  <2>1. typed'.a = fields.a /\ loaded'.m = pm
    BY <1>1, <1>3
  <2>2. (fields.a >= pm) \in BOOLEAN
    BY InputsPrepared, RadixFacts DEF Word
  <2>3. QED
    BY <1>3, <2>1, <2>2, Zenon
<1>8. typed' \in Fields /\ typed'.b = fields.b
  BY <1>3 DEF PanelTypes
<1> HIDE DEF LoadFields
<1>9. QED
  BY <1>2, <1>3, <1>4, <1>5, <1>6, <1>7, <1>8

\* Nothing of the circuit changes when its registers and the harness do not.
LEMMA CircuitKept ==
  ASSUME UNCHANGED simVars
  PROVE  /\ CircuitTypes' <=> CircuitTypes
         /\ Circuit' <=> Circuit
         /\ Primed' <=> Primed
         /\ Working' <=> Working
         /\ Ended' <=> Ended
<1>1. UNCHANGED <<state, a_reg, b_reg, m_reg, acc, cnt, result, done, ports,
                  g_cycles, g_latched>>
  BY DEF simVars, vars
<1>2. mul!Running' <=> mul!Running
  BY <1>1 DEF mul!Running, mul!Accumulated, mul!Radix
<1>3. Working' <=> Working
  BY <1>1, <1>2 DEF Working, busy, Radix
<1>4. (Primed' <=> Primed) /\ (Ended' <=> Ended)
  BY <1>1 DEF Primed, Ended, busy, bigMulMod
<1>5. Circuit' <=> Circuit
  BY <1>1, <1>3, <1>4 DEF Circuit, Prepared
<1>6. CircuitTypes' <=> CircuitTypes
  BY <1>1 DEF CircuitTypes, TypeOK
<1>7. QED
  BY <1>3, <1>4, <1>5, <1>6

\* The types of a state in which an interval or the Step button may clock.
LEMMA TypesAtClock ==
  ASSUME CircuitTypes'
  PROVE  /\ b_reg' \in Word /\ result' \in Word
         /\ g_cycles' \in 0 .. WIDTH + 1
BY DEF CircuitTypes, TypeOK

\* The path that is lit after a clock is that of the bit of the typed b.
LEMMA LitByClock ==
  ASSUME PanelTypes, Prepared(ports.in), Primed \/ Working, sim_step,
         Agreed, shown' = Stepped(g_cycles'), UNCHANGED typed, ~done'
  PROVE  Lit'
<1>1. /\ CircuitTypes' /\ g_cycles' = g_cycles + 1
      /\ g_cycles' \in 1 .. WIDTH + 1
      /\ Primed <=> g_cycles = 0
  BY StepClocks DEF PanelTypes
<1>2. /\ shown'.active = {} <=> g_cycles' < 2
      /\ "s_add" \in shown'.active <=> g_cycles' >= 2 /\ Msb(b_reg) = 1
  BY <1>1, StepClocks, TypesAtClock, SteppedShows DEF PanelTypes
<1>3. g_cycles' < 2 <=> g_cycles' = 1
  BY <1>1, WidthAssumption
<1>4. ASSUME g_cycles' >= 2
      PROVE  Msb(b_reg) = 1
               <=> (typed'.b \div Pow2[WIDTH + 1 - g_cycles']) % 2 = 1
  <2>1. g_cycles # 0 /\ g_cycles \in 0 .. WIDTH + 1
    BY <1>1, <1>4 DEF PanelTypes, CircuitTypes
  <2>2. Working
    BY <1>1, <2>1
  <2>3. Msb(b_reg) = 1 <=> (ports.in.b \div Pow2[WIDTH - g_cycles]) % 2 = 1
    BY <2>2, BitUpNext DEF PanelTypes
  <2>4. WIDTH - g_cycles = WIDTH + 1 - g_cycles'
    BY <1>1, <2>1, WidthAssumption
  <2>5. typed'.b = ports.in.b
    BY DEF Agreed
  <2>6. QED
    BY <2>3, <2>4, <2>5
<1>5. QED
  BY <1>2, <1>3, <1>4 DEF Lit

\* A clock of an operation of the panel, by an interval or by the button.
LEMMA ClockTold ==
  ASSUME PanelInv, sim, js \in {"idle", "step"}, word = "RUN", sim_step,
         IF done' THEN finish(loaded) ELSE GoesOn,
         UNCHANGED <<fields, sim, inputVars>>
  PROVE  /\ CircuitTypes' /\ Circuit' /\ Told'
         /\ word' = IF done' THEN "DONE" ELSE "RUN"
         /\ shown' \in Page /\ shown'.adds = popcount(fields'.b)
         /\ due' \in Words /\ shown'.res \in {Pending, due'}
         /\ inputs_disabled' \in BOOLEAN /\ run_disabled' \in BOOLEAN
         /\ timeouts' \in 0 .. 1 /\ proved' \in BOOLEAN
         /\ ~proved' => timeouts' = 0
<1>1. /\ PanelTypes /\ CircuitTypes /\ Prepared(ports.in)
      /\ Primed \/ Working
      /\ Agreed /\ shown \in Page /\ Running /\ shown.lit
      /\ due = Reading(bigMulMod(loaded)) /\ due \in Words
      /\ shown.adds = popcount(fields.b)
  BY DEF PanelInv, PanelTypes, AfterBoot, Circuit, Told, Running
<1>2. /\ CircuitTypes' /\ Circuit' /\ ports'.in = ports.in
      /\ g_cycles' = g_cycles + 1 /\ g_cycles' \in 1 .. WIDTH + 1
      /\ IF done' THEN Ended' ELSE Working'
      /\ acc' % Radix = acc'
  BY <1>1, StepClocks
<1>3. /\ fields' = fields /\ loaded' = loaded /\ reducedA' = reducedA
      /\ typed' = typed /\ due' = due
      /\ due' = Reading(bigMulMod(loaded')) /\ due' \in Words
  BY <1>1 DEF inputVars, bigMulMod
<1>4. Agreed'
  BY <1>1, <1>2, <1>3 DEF Agreed
<1>5. /\ acc' \in Word /\ b_reg' \in Word /\ result' \in Word
      /\ g_cycles' \in 0 .. WIDTH + 1
  BY <1>1, <1>2, StepClocks, TypesAtClock
<1>6. CASE ~done'
  <2>1. /\ shown' = Stepped(g_cycles')
        /\ UNCHANGED <<word, run_disabled, inputs_disabled, timeouts, proved>>
    BY <1>6 DEF GoesOn, onceVars
  <2>2. /\ shown' \in Page
        /\ shown'.cyc = Reading(g_cycles') /\ shown'.bits = b_reg'
        /\ shown'.acc = Reading(acc')
        /\ shown'.adds = shown.adds /\ shown'.lit = shown.lit
        /\ shown'.res = shown.res
    BY <1>1, <1>2, <1>5, <2>1, SteppedShows
  <2>3. Lit'
    BY <1>1, <1>3, <1>6, <2>1, LitByClock
  <2>4. Running'
    BY <1>1, <1>2, <1>3, <1>6, <2>2, <2>3 DEF Running
  <2>5. Told'
    BY <1>1, <1>3, <1>4, <2>1, <2>2, <2>4 DEF Told
  <2>6. shown'.res = Pending
    BY <1>1, <2>2 DEF Running
  <2>7. QED
    BY <1>1, <1>2, <1>3, <1>6, <2>1, <2>2, <2>5, <2>6
       DEF PanelInv, PanelTypes, Findings
<1>7. CASE done'
  <2>1. result' = bigMulMod(loaded)
    BY <1>1, <1>2, <1>7 DEF Ended, Agreed, bigMulMod
  <2>2. /\ word' = "DONE" /\ shown' = Finished(g_cycles', TRUE, reducedA)
        /\ run_disabled' = FALSE /\ inputs_disabled' = FALSE
        /\ IF ~proved THEN proved' = TRUE /\ timeouts' = timeouts + 1
           ELSE UNCHANGED <<timeouts, proved>>
    BY <1>7, <2>1 DEF finish, setRunning, onceVars
  <2>3. /\ shown' \in Page
        /\ shown'.cyc = Reading(g_cycles') /\ shown'.bits = b_reg'
        /\ shown'.acc = Reading(acc') /\ shown'.adds = shown.adds
        /\ ~shown'.lit /\ shown'.active = {}
        /\ shown'.res = Reading(result') /\ shown'.caveat = reducedA
    <3>1. reducedA \in BOOLEAN
      BY <1>1 DEF PanelTypes
    <3>2. QED
      BY <1>1, <1>2, <1>5, <2>2, <3>1, FinishedShows
  <2>4. Ended' /\ g_cycles' = WIDTH + 1
    BY <1>2, <1>7 DEF Ended
  <2>5. Completed'
    BY <1>1, <1>3, <2>3, <2>4 DEF Completed, Running
  <2>6. Told'
    BY <1>3, <1>4, <2>2, <2>3, <2>5 DEF Told
  <2>7. /\ timeouts' \in 0 .. 1 /\ proved' \in BOOLEAN
        /\ ~proved' => timeouts' = 0
    <3>1. CASE proved
      BY <2>2, <3>1 DEF PanelInv, PanelTypes
    <3>2. CASE ~proved
      BY <2>2, <3>2 DEF PanelInv, Findings
    <3>3. QED
      BY <3>1, <3>2
  <2>8. QED
    <3>1. shown'.res = due'
      BY <1>1, <1>3, <2>1, <2>3
    <3>2. QED
      BY <1>1, <1>2, <1>3, <1>7, <2>2, <2>3, <2>6, <2>7, <3>1
<1>8. QED
  BY <1>6, <1>7

-----------------------------------------------------------------------------
(* Every handler keeps the invariant.                                      *)

\* Clearing the interval whose handle is kept leaves none.
LEMMA StopStops == PanelInv /\ js = "idle" => Stopped = {}
<1> SUFFICES ASSUME PanelInv, js = "idle" PROVE Stopped = {}
  OBVIOUS
<1>1. live = {} \/ live = {[id |-> timer, in |-> loaded]}
  BY DEF PanelInv, BeforeBoot, AfterBoot, OneInterval
<1>2. \A t \in live : t.id = timer
  BY <1>1
<1>3. QED
  BY <1>2 DEF Stopped

\* A click on Run.
LEMMA RunKeeps ==
  ASSUME PanelInv, js = "idle", run, sim' = TRUE
  PROVE  PanelInv'
<1>1. /\ PanelTypes /\ Findings /\ shown \in Page
  BY DEF PanelInv, PanelTypes
<1>2. /\ CircuitTypes' /\ Circuit' /\ Primed' /\ Agreed'
      /\ g_cycles' = 0 /\ ~done'
      /\ typed' \in Fields /\ reducedA' \in BOOLEAN
      /\ loaded' = readInputs /\ typed'.b = fields.b
      /\ loaded' \in [a : Word, b : Word, m : Nat]
      /\ reducedA' <=> typed'.a >= loaded'.m
  BY <1>1, LoadAgrees DEF run
<1>3. /\ word' = "RUN" /\ shown' = Armed(readInputs) /\ fields' = fields
      /\ run_disabled' = TRUE /\ inputs_disabled' = TRUE
      /\ due' = Reading(bigMulMod(readInputs))
      /\ js' = js /\ demo' = demo /\ timeouts' = timeouts /\ proved' = proved
  BY DEF run, setRunning, onceVars
<1>4. /\ Prepared(readInputs) /\ readInputs.b = fields.b
      /\ readInputs.b \in Word
  BY <1>1, InputsPrepared
<1>5. /\ shown' \in Page
      /\ shown'.cyc = Reading(0) /\ shown'.bits = fields.b
      /\ shown'.adds = popcount(fields.b) /\ shown'.lit
      /\ shown'.res = Pending
  BY <1>1, <1>3, <1>4, ArmedShows
<1>5a. due' = Reading(bigMulMod(loaded')) /\ due' \in Words
  BY <1>2, <1>3, <1>4, ProductFits, Written DEF bigMulMod
<1>6. /\ timer' \in TimerIds
      /\ live' = {[id |-> timer', in |-> readInputs]}
  <2>1. Stopped = {}
    BY StopStops
  <2>2. (CHOOSE i \in TimerIds : \A t \in Stopped : t.id # i) \in TimerIds
    BY <2>1 DEF TimerIds
  <2>3. QED
    BY <2>1, <2>2 DEF run
<1>7. timer' # NoTimer
  BY <1>6 DEF TimerIds, NoTimer
<1>8. PanelTypes'
  BY <1>1, <1>2, <1>3, <1>4, <1>5, <1>5a, <1>6 DEF PanelTypes, Prepared
<1>9. Findings'
  BY <1>1, <1>3 DEF Findings
<1>10. Running'
  BY <1>2, <1>5 DEF Running, Lit
<1>11. Told'
  BY <1>2, <1>3, <1>5, <1>5a, <1>10 DEF Told
<1>12. OneInterval'
  BY <1>2, <1>3, <1>6, <1>7 DEF OneInterval
<1>13. AfterBoot'
  BY <1>2, <1>3, <1>5, <1>11, <1>12 DEF AfterBoot
<1>14. QED
  BY <1>8, <1>9, <1>13 DEF PanelInv

\* A click on Reset.
LEMMA ResetKeeps ==
  ASSUME PanelInv, js = "idle", resetPanel, sim' = TRUE
  PROVE  PanelInv'
<1>1. /\ PanelTypes /\ Findings /\ shown \in Page
  BY DEF PanelInv, PanelTypes
<1>2. /\ CircuitTypes' /\ Circuit' /\ Primed' /\ Agreed'
      /\ acc' = 0 /\ g_cycles' = 0 /\ ~done'
      /\ typed' \in Fields /\ reducedA' \in BOOLEAN
      /\ loaded' = readInputs
      /\ loaded' \in [a : Word, b : Word, m : Nat]
  BY <1>1, LoadAgrees DEF resetPanel
<1>3. /\ word' = "STANDBY" /\ shown' = Cleared(readInputs) /\ fields' = fields
      /\ run_disabled' = FALSE /\ inputs_disabled' = FALSE /\ due' = due
      /\ js' = js /\ demo' = demo /\ timeouts' = timeouts /\ proved' = proved
  BY DEF resetPanel, setRunning, onceVars
<1>4. /\ readInputs.b = fields.b /\ readInputs.b \in Word
  BY <1>1, InputsPrepared
<1>5. /\ shown' \in Page
      /\ shown'.cyc = Reading(0) /\ shown'.bits = readInputs.b
      /\ shown'.acc = Reading(0) /\ shown'.res = shown.res
      /\ shown'.adds = popcount(fields.b) /\ ~shown'.lit /\ shown'.active = {}
  BY <1>1, <1>3, <1>4, ClearedShows
<1>5a. shown.res \in {Pending, due}
  BY BlankShows DEF PanelInv, BeforeBoot, AfterBoot
<1>6. live' = {} /\ timer' = NoTimer
  BY StopStops DEF resetPanel, stop
<1>7. PanelTypes'
  BY <1>1, <1>2, <1>3, <1>5, <1>6 DEF PanelTypes
<1>8. Findings'
  BY <1>1, <1>3 DEF Findings
<1>9. Standby'
  BY <1>2, <1>5 DEF Standby
<1>10. Told'
  BY <1>2, <1>3, <1>5, <1>9 DEF Told
<1>11. OneInterval'
  BY <1>3, <1>6 DEF OneInterval
<1>12. AfterBoot'
  BY <1>2, <1>3, <1>5, <1>5a, <1>10, <1>11 DEF AfterBoot
<1>13. QED
  BY <1>7, <1>8, <1>12 DEF PanelInv

\* A click on Step.
LEMMA StepOneKeeps ==
  ASSUME PanelInv, js = "idle", sim, stepOne, UNCHANGED sim
  PROVE  PanelInv'
<1>1. /\ PanelTypes /\ Findings /\ shown \in Page
      /\ Circuit /\ Told /\ word \in {"RUN", "DONE", "STANDBY"}
      /\ shown.adds = popcount(fields.b) /\ shown.res \in {Pending, due}
  BY DEF PanelInv, PanelTypes, AfterBoot
<1>2. /\ live' = {} /\ timer' = NoTimer /\ js' = "step" /\ demo' = demo
      /\ fields' = fields /\ timeouts' = timeouts /\ proved' = proved
      /\ inputs_disabled' = inputs_disabled
  BY StopStops DEF stepOne, stop, onceVars
<1>3. Findings'
  BY <1>1, <1>2 DEF Findings
<1>4. CASE g_cycles = 0 \/ g_cycles >= WIDTH + 1
  <2>1. /\ LoadFields /\ sim_load(readInputs)
        /\ word' = "RUN" /\ shown' = Armed(readInputs)
        /\ run_disabled' = FALSE /\ due' = Reading(bigMulMod(readInputs))
    BY <1>4 DEF stepOne
  <2>2. /\ CircuitTypes' /\ Circuit' /\ Primed' /\ Agreed'
        /\ g_cycles' = 0 /\ ~done'
        /\ typed' \in Fields /\ reducedA' \in BOOLEAN
        /\ loaded' = readInputs /\ typed'.b = fields.b
        /\ loaded' \in [a : Word, b : Word, m : Nat]
        /\ reducedA' <=> typed'.a >= loaded'.m
    BY <1>1, <1>2, <2>1, LoadAgrees
  <2>3. /\ Prepared(readInputs) /\ readInputs.b = fields.b
        /\ readInputs.b \in Word
    BY <1>1, InputsPrepared
  <2>3a. due' = Reading(bigMulMod(loaded')) /\ due' \in Words
    BY <2>1, <2>2, <2>3, ProductFits, Written DEF bigMulMod
  <2>4. /\ shown' \in Page
        /\ shown'.cyc = Reading(0) /\ shown'.bits = fields.b
        /\ shown'.adds = popcount(fields.b) /\ shown'.lit
        /\ shown'.res = Pending
    BY <1>1, <2>1, <2>3, ArmedShows
  <2>5. PanelTypes'
    BY <1>1, <1>2, <2>1, <2>2, <2>3a, <2>4 DEF PanelTypes
  <2>6. Running'
    BY <2>2, <2>4 DEF Running, Lit
  <2>7. Told'
    BY <2>1, <2>2, <2>3a, <2>4, <2>6 DEF Told
  <2>8. OneInterval'
    BY <1>2, <2>1 DEF OneInterval
  <2>9. AfterBoot'
    BY <1>2, <2>1, <2>2, <2>4, <2>7, <2>8 DEF AfterBoot
  <2>10. QED
    BY <1>3, <2>5, <2>9 DEF PanelInv
<1>5. CASE ~(g_cycles = 0 \/ g_cycles >= WIDTH + 1)
  <2>1. /\ UNCHANGED <<loaded, reducedA, typed, due>> /\ UNCHANGED simVars
        /\ UNCHANGED <<word, shown, run_disabled>>
    BY <1>5 DEF stepOne, inputVars
  <2>2. /\ CircuitTypes' <=> CircuitTypes
        /\ Circuit' <=> Circuit
        /\ Primed' <=> Primed
        /\ Working' <=> Working
        /\ g_cycles' = g_cycles /\ ports' = ports /\ b_reg' = b_reg
        /\ acc' = acc
    BY <2>1, CircuitKept DEF simVars, vars
  <2>3. word = "RUN"
    BY <1>1, <1>5, WidthAssumption DEF Told, Standby, Completed, Primed, Ended
  <2>4. PanelTypes'
    BY <1>1, <1>2, <2>1, <2>2 DEF PanelTypes
  <2>5. Running'
    BY <1>1, <2>1, <2>2, <2>3 DEF Told, Running, Lit
  <2>6. Told'
    BY <1>1, <2>1, <2>2, <2>3, <2>5 DEF Told, Agreed, bigMulMod
  <2>7. OneInterval'
    BY <1>2, <2>1, <2>3 DEF OneInterval
  <2>8. AfterBoot'
    BY <1>1, <1>2, <2>1, <2>2, <2>3, <2>6, <2>7 DEF AfterBoot
  <2>9. QED
    BY <1>3, <2>4, <2>8 DEF PanelInv
<1>6. QED
  BY <1>4, <1>5

\* What is told stays true while the circuit and the panel stay as they are
\* and no more than the contrast bar is drawn.
LEMMA ToldKept ==
  ASSUME Told, UNCHANGED simVars, UNCHANGED <<word, loaded, reducedA, typed, due>>,
         shown'.cyc = shown.cyc, shown'.bits = shown.bits,
         shown'.acc = shown.acc, shown'.lit = shown.lit,
         shown'.active = shown.active, shown'.res = shown.res,
         shown'.caveat = shown.caveat
  PROVE  Told'
<1>1. /\ Primed' <=> Primed
      /\ Working' <=> Working
      /\ Ended' <=> Ended
      /\ g_cycles' = g_cycles /\ ports' = ports /\ b_reg' = b_reg
      /\ acc' = acc /\ result' = result
  BY CircuitKept DEF simVars, vars
<1>2. Standby' <=> Standby
  BY <1>1 DEF Standby
<1>3. Running' <=> Running
  BY <1>1 DEF Running, Lit
<1>4. Completed' <=> Completed
  BY <1>1 DEF Completed
<1>5. Agreed' <=> Agreed
  BY <1>1 DEF Agreed
<1>6. QED
  BY <1>2, <1>3, <1>4, <1>5 DEF Told, bigMulMod

\* An edit of the fields.
LEMMA EditKeeps ==
  ASSUME PanelInv, js = "idle", NEW f \in Fields, Edit(f)
  PROVE  PanelInv'
<1>1. /\ PanelTypes /\ Findings /\ shown \in Page
  BY DEF PanelInv, PanelTypes
<1>2. /\ fields' = f /\ UNCHANGED simVars
      /\ UNCHANGED <<inputs_disabled, run_disabled, word, sim, loaded,
                     reducedA, typed, due, timer, live, timeouts, proved, js,
                     demo>>
  BY DEF Edit, inputVars, timerVars, onceVars
<1>3. /\ CircuitTypes' <=> CircuitTypes
      /\ Circuit' <=> Circuit
      /\ done' = done
  BY <1>2, CircuitKept DEF simVars, vars
<1>4. Findings'
  BY <1>1, <1>2 DEF Findings
<1>5. CASE sim
  <2>1. shown' = updateContrast(shown, f.b)
    BY <1>5 DEF Edit
  <2>2. /\ shown' \in Page
        /\ shown'.cyc = shown.cyc /\ shown'.bits = shown.bits
        /\ shown'.acc = shown.acc
        /\ shown'.adds = popcount(f.b) /\ shown'.lit = shown.lit
        /\ shown'.active = shown.active /\ shown'.res = shown.res
        /\ shown'.caveat = shown.caveat
    BY <1>1, <2>1, ContrastShows
  <2>3. AfterBoot
    BY <1>5 DEF PanelInv
  <2>4. Told'
    BY <1>2, <2>2, <2>3, ToldKept DEF AfterBoot
  <2>5. OneInterval'
    BY <1>2, <2>3 DEF OneInterval, AfterBoot
  <2>6. AfterBoot'
    BY <1>2, <1>3, <2>2, <2>3, <2>4, <2>5 DEF AfterBoot
  <2>7. PanelTypes'
    BY <1>1, <1>2, <1>3, <2>2 DEF PanelTypes
  <2>8. QED
    BY <1>2, <1>4, <1>5, <2>6, <2>7 DEF PanelInv
<1>6. CASE ~sim
  <2>1. shown' = shown
    BY <1>6 DEF Edit
  <2>2. BeforeBoot'
    BY <1>2, <1>3, <1>6, <2>1 DEF PanelInv, BeforeBoot
  <2>3. PanelTypes'
    BY <1>1, <1>2, <1>3, <2>1 DEF PanelTypes
  <2>4. QED
    BY <1>2, <1>4, <1>6, <2>2, <2>3 DEF PanelInv
<1>7. QED
  BY <1>5, <1>6

\* The circuit cannot be loaded.
LEMMA LoadFailsKeeps ==
  ASSUME PanelInv, LoadFails
  PROVE  PanelInv'
<1>1. /\ word = "LOADING" /\ word' = "FAULT" /\ UNCHANGED simVars
      /\ UNCHANGED <<fields, inputs_disabled, run_disabled, shown, sim, loaded,
                     reducedA, typed, due, timer, live, timeouts, proved, js,
                     demo>>
  BY DEF LoadFails, inputVars, timerVars, onceVars
<1>2. ~sim
  BY <1>1 DEF PanelInv, AfterBoot
<1>3. (CircuitTypes' <=> CircuitTypes) /\ done' = done
  BY <1>1, CircuitKept DEF simVars, vars
<1>4. PanelTypes'
  BY <1>1, <1>3 DEF PanelInv, PanelTypes
<1>5. Findings'
  BY <1>1 DEF PanelInv, Findings
<1>6. BeforeBoot'
  BY <1>1, <1>2, <1>3 DEF PanelInv, BeforeBoot
<1>7. QED
  BY <1>1, <1>2, <1>4, <1>5, <1>6 DEF PanelInv

\* The demonstration begins, by the button or by its timeout.
LEMMA StartProvingKeeps ==
  ASSUME PanelInv, js = "idle", sim, StartProving, UNCHANGED simVars,
         UNCHANGED <<fields, inputs_disabled, run_disabled, word, sim, loaded,
                     typed, due, proved>>,
         timeouts' = timeouts \/ (timeouts > 0 /\ timeouts' = timeouts - 1)
  PROVE  PanelInv'
<1>1. /\ PanelTypes /\ Findings /\ shown \in Page /\ AfterBoot
  BY DEF PanelInv, PanelTypes
<1>2. /\ live' = {} /\ timer' = NoTimer /\ js' = "load" /\ demo' = Untried
      /\ shown' = Proving /\ reducedA' = (fields.a >= pm)
  BY StopStops DEF StartProving, stop
<1>3. /\ shown' \in Page
      /\ shown'.cyc = Dash /\ shown'.acc = Dash /\ shown'.res = shown.res
      /\ shown'.adds = shown.adds /\ ~shown'.lit /\ shown'.active = {}
  BY <1>1, <1>2, ProvingShows
<1>4. /\ CircuitTypes' <=> CircuitTypes
      /\ Circuit' <=> Circuit
  BY CircuitKept
<1>5. reducedA' \in BOOLEAN
  <2>1. (fields.a >= pm) \in BOOLEAN
    BY <1>1, InputsPrepared, RadixFacts DEF Word
  <2>2. QED
    BY <1>2, <2>1, Zenon
<1>6. timeouts' \in 0 .. 1 /\ (timeouts = 0 => timeouts' = 0)
  BY <1>1 DEF PanelTypes
<1>7. PanelTypes'
  BY <1>1, <1>2, <1>3, <1>4, <1>5, <1>6 DEF PanelTypes
<1>8. /\ demo'.k = 1 /\ demo'.allOk = TRUE /\ demo'.allSame = TRUE
      /\ demo'.refCyc = 0
  BY <1>2 DEF Untried
<1>9. Findings'
  BY <1>1, <1>6, <1>8 DEF Findings
<1>10. AtDemo'
  BY <1>2, <1>3, <1>8 DEF AtDemo
<1>11. AfterBoot'
  BY <1>1, <1>2, <1>3, <1>4, <1>10 DEF AfterBoot
<1>12. QED
  BY <1>7, <1>9, <1>11 DEF PanelInv

\* An interval fires: the end of its run, or the first clock of its
\* callback.
LEMMA TickKeeps ==
  ASSUME PanelInv, js = "idle", NEW t \in live, Tick(t)
  PROVE  PanelInv'
<1>1. sim
  BY DEF PanelInv, BeforeBoot
<1>2. /\ PanelTypes /\ Findings /\ AfterBoot /\ OneInterval
  BY <1>1 DEF PanelInv, AfterBoot
<1>3. /\ live = {[id |-> timer, in |-> loaded]} /\ timer # NoTimer
      /\ word = "RUN" /\ t.in = loaded
  BY <1>2 DEF OneInterval
<1>4. /\ sim_step
      /\ IF done' THEN finish(loaded) ELSE GoesOn
      /\ fields' = fields /\ sim' = sim /\ inputVars' = inputVars
      /\ js' = js /\ demo' = demo
      /\ IF done' THEN stop ELSE UNCHANGED <<timer, live>>
  BY <1>3 DEF Tick, timerVars
<1>5. /\ CircuitTypes' /\ Circuit' /\ Told'
      /\ word' = IF done' THEN "DONE" ELSE "RUN"
      /\ shown' \in Page /\ shown'.adds = popcount(fields'.b)
      /\ due' \in Words /\ shown'.res \in {Pending, due'}
      /\ inputs_disabled' \in BOOLEAN /\ run_disabled' \in BOOLEAN
      /\ timeouts' \in 0 .. 1 /\ proved' \in BOOLEAN
      /\ ~proved' => timeouts' = 0
  BY <1>1, <1>3, <1>4, ClockTold
<1>6. /\ loaded' = loaded /\ reducedA' = reducedA /\ typed' = typed
      /\ due' = due
  BY <1>4 DEF inputVars
<1>7. /\ OneInterval'
      /\ timer' \in {NoTimer} \cup TimerIds
      /\ live' \subseteq [id : TimerIds, in : Operands]
  <2>1. CASE done'
    <3>1. live' = {} /\ timer' = NoTimer
      BY <1>4, <2>1, StopStops DEF stop
    <3>2. QED
      BY <1>4, <3>1 DEF OneInterval
  <2>2. CASE ~done'
    <3>1. live' = live /\ timer' = timer /\ word' = "RUN"
      BY <1>4, <1>5, <2>2
    <3>2. QED
      BY <1>2, <1>4, <1>6, <3>1 DEF OneInterval, PanelTypes
  <2>3. QED
    BY <2>1, <2>2
<1>8. PanelTypes'
  BY <1>2, <1>4, <1>5, <1>6, <1>7 DEF PanelTypes
<1>9. Findings'
  BY <1>2, <1>4, <1>5 DEF Findings
<1>10. AfterBoot'
  BY <1>4, <1>5, <1>7 DEF AfterBoot
<1>11. QED
  BY <1>1, <1>4, <1>8, <1>9, <1>10 DEF PanelInv

\* A callback clocks the circuit and draws it.
LEMMA StepTheCircuitKeeps ==
  ASSUME PanelInv, StepTheCircuit
  PROVE  PanelInv'
<1>1. js = "step" /\ sim
  BY DEF StepTheCircuit, PanelInv, BeforeBoot
<1>2. /\ PanelTypes /\ Findings /\ OneInterval /\ word = "RUN"
  BY <1>1 DEF PanelInv, AfterBoot, OneInterval
<1>3. live = {} /\ timer = NoTimer
  BY <1>1, <1>2 DEF OneInterval
<1>4. /\ sim_step
      /\ IF done' THEN finish(loaded) ELSE GoesOn
      /\ fields' = fields /\ sim' = sim /\ inputVars' = inputVars
      /\ js' = "idle" /\ demo' = demo /\ timer' = timer /\ live' = live
  BY DEF StepTheCircuit, timerVars
<1>5. /\ CircuitTypes' /\ Circuit' /\ Told'
      /\ word' = IF done' THEN "DONE" ELSE "RUN"
      /\ shown' \in Page /\ shown'.adds = popcount(fields'.b)
      /\ due' \in Words /\ shown'.res \in {Pending, due'}
      /\ inputs_disabled' \in BOOLEAN /\ run_disabled' \in BOOLEAN
      /\ timeouts' \in 0 .. 1 /\ proved' \in BOOLEAN
      /\ ~proved' => timeouts' = 0
  BY <1>1, <1>2, <1>4, ClockTold
<1>6. /\ loaded' = loaded /\ reducedA' = reducedA /\ typed' = typed
      /\ due' = due
  BY <1>4 DEF inputVars
<1>7. OneInterval'
  BY <1>3, <1>4 DEF OneInterval
<1>8. PanelTypes'
  BY <1>2, <1>4, <1>5, <1>6 DEF PanelTypes
<1>9. Findings'
  BY <1>2, <1>4, <1>5 DEF Findings
<1>10. AfterBoot'
  BY <1>4, <1>5, <1>7 DEF AfterBoot
<1>11. QED
  BY <1>1, <1>4, <1>8, <1>9, <1>10 DEF PanelInv

-----------------------------------------------------------------------------
(* The demonstration.                                                      *)

\* Each of its multiplicands and multipliers is one the fields could hold.
LEMMA CasesPrepared ==
  ASSUME PanelTypes, demo.k \in 1 .. 4
  PROVE  Prepared([a |-> pm - 1, b |-> Cases(pm)[demo.k], m |-> pm])
<1>1. pm \in Nat /\ pm < Radix /\ pm >= 2 /\ Radix \in Nat
  BY InputsPrepared, RadixFacts DEF Word
<1>2. /\ pm - 1 \in Word /\ pm \in Word /\ 0 \in Word /\ Radix - 1 \in Word
  BY <1>1 DEF Word
<1>3. (2 * Radix) \div 3 \in Word
  BY <1>1 DEF Word
<1>4. Cases(pm)[demo.k] \in Word
  BY <1>2, <1>3 DEF Cases
<1>5. pm - 1 < pm
  BY <1>1
<1>6. QED
  BY <1>1, <1>2, <1>4, <1>5 DEF Prepared, Operands

\* The demonstration loads its next operands.
LEMMA ProveLoadKeeps ==
  ASSUME PanelInv, ProveLoad
  PROVE  PanelInv'
<1>1. js = "load" /\ sim
  BY DEF ProveLoad, PanelInv, BeforeBoot
<1>2. PanelTypes /\ Findings /\ AfterBoot /\ AtDemo
  BY <1>1 DEF PanelInv, AfterBoot
<1>3. /\ js' = "clock"
      /\ sim_load([a |-> pm - 1, b |-> Cases(pm)[demo.k], m |-> pm])
      /\ UNCHANGED <<fields, inputs_disabled, run_disabled, word, shown, sim,
                     loaded, reducedA, typed, due, timer, live, timeouts,
                     proved, demo>>
  BY DEF ProveLoad, pageVars, inputVars, timerVars, onceVars
<1>4. demo.k \in 1 .. 4
  BY <1>1, <1>2 DEF AtDemo, Findings
<1>5. CircuitTypes' /\ Circuit' /\ Primed'
  BY <1>2, <1>3, <1>4, CasesPrepared, LoadArms
<1>6. PanelTypes'
  BY <1>2, <1>3, <1>5 DEF PanelTypes
<1>7. Findings'
  BY <1>2, <1>3 DEF Findings
<1>8. AtDemo'
  BY <1>1, <1>2, <1>3, <1>5 DEF AtDemo
<1>9. AfterBoot'
  BY <1>2, <1>3, <1>5, <1>8 DEF AfterBoot
<1>10. QED
  BY <1>1, <1>3, <1>6, <1>7, <1>9 DEF PanelInv

\* The demonstration clocks the circuit.
LEMMA ProveClockKeeps ==
  ASSUME PanelInv, ProveClock
  PROVE  PanelInv'
<1>1. js = "clock" /\ sim
  BY DEF ProveClock, PanelInv, BeforeBoot
<1>2. /\ PanelTypes /\ Findings /\ AfterBoot /\ AtDemo
      /\ CircuitTypes /\ Prepared(ports.in)
      /\ Primed \/ Working
  BY <1>1 DEF PanelInv, PanelTypes, AfterBoot, AtDemo, Circuit
<1>3. /\ sim_step
      /\ UNCHANGED <<fields, inputs_disabled, run_disabled, word, shown, sim,
                     loaded, reducedA, typed, due, timer, live, timeouts,
                     proved>>
  BY DEF ProveClock, pageVars, inputVars, timerVars, onceVars
<1>4. /\ CircuitTypes' /\ Circuit' /\ ports'.in = ports.in
      /\ IF done' THEN Ended' ELSE Working'
  BY <1>2, <1>3, StepClocks
<1>5. demo.k \in 1 .. 4 /\ demo.allOk = TRUE /\ demo.allSame = TRUE
      /\ demo.refCyc \in {0, WIDTH + 1}
  BY <1>1, <1>2 DEF AtDemo, Findings
<1>6. CASE ~done'
  <2>1. js' = js /\ demo' = demo
    BY <1>6 DEF ProveClock
  <2>2. PanelTypes'
    BY <1>2, <1>3, <1>4, <2>1 DEF PanelTypes
  <2>3. Findings'
    BY <1>2, <1>3, <2>1 DEF Findings
  <2>4. AtDemo'
    BY <1>1, <1>2, <1>3, <1>4, <1>6, <2>1 DEF AtDemo
  <2>5. AfterBoot'
    BY <1>1, <1>2, <1>3, <1>4, <2>1, <2>4 DEF AfterBoot
  <2>6. QED
    BY <1>1, <1>3, <2>2, <2>3, <2>5 DEF PanelInv
<1>7. CASE done'
  <2>1. /\ js' = IF demo.k < 4 THEN "load" ELSE "prime"
        /\ demo' = [k |-> demo.k + 1,
                    refCyc |-> IF demo.k = 1 THEN g_cycles' ELSE demo.refCyc,
                    allSame |-> demo.allSame
                                  /\ (demo.k > 1 => g_cycles' = demo.refCyc),
                    allOk |-> demo.allOk /\ result' = bigMulMod(ports.in)]
    BY <1>7 DEF ProveClock
  <2>2. g_cycles' = WIDTH + 1 /\ result' = bigMulMod(ports.in)
    BY <1>4, <1>7 DEF Ended, bigMulMod
  <2>3. demo.k # 1 => demo.refCyc = WIDTH + 1
    BY <1>2, <1>5 DEF AtDemo
  <2>4. /\ demo'.k = demo.k + 1 /\ demo'.refCyc = WIDTH + 1
        /\ demo'.allSame = TRUE /\ demo'.allOk = TRUE
    <3>1. /\ demo.allSame /\ (demo.k > 1 => g_cycles' = demo.refCyc)
          /\ demo.allOk /\ result' = bigMulMod(ports.in)
      BY <1>5, <2>2, <2>3
    <3>2. demo'.allSame = TRUE /\ demo'.allOk = TRUE
      BY <2>1, <3>1, Zenon
    <3>3. demo'.k = demo.k + 1
      BY <2>1
    <3>4. demo'.refCyc = IF demo.k = 1 THEN g_cycles' ELSE demo.refCyc
      BY <2>1
    <3>5. QED
      BY <2>2, <2>3, <3>2, <3>3, <3>4
  <2>5. js' \in {"load", "prime"} /\ (js' = "load" => demo'.k < 5)
    BY <1>5, <2>1, <2>4
  <2>6. PanelTypes'
    BY <1>2, <1>3, <1>4, <2>5 DEF PanelTypes
  <2>7. Findings'
    BY <1>2, <1>3, <1>5, <2>4 DEF Findings
  <2>8. AtDemo'
    BY <1>2, <1>3, <2>4, <2>5 DEF AtDemo
  <2>9. AfterBoot'
    BY <1>2, <1>3, <1>4, <2>5, <2>8 DEF AfterBoot
  <2>10. QED
    BY <1>1, <1>3, <2>6, <2>7, <2>9 DEF PanelInv
<1>8. QED
  BY <1>6, <1>7

\* The demonstration gives the panel back.
LEMMA ProvePrimeKeeps ==
  ASSUME PanelInv, ProvePrime
  PROVE  PanelInv'
<1>1. js = "prime" /\ sim
  BY DEF ProvePrime, PanelInv, BeforeBoot
<1>2. /\ PanelTypes /\ Findings /\ AfterBoot /\ AtDemo /\ shown \in Page
  BY <1>1 DEF PanelInv, PanelTypes, AfterBoot
<1>3. /\ js' = "idle" /\ LoadFields /\ sim_load(readInputs)
      /\ word' = "STANDBY"
      /\ shown' = Proved(readInputs, demo.allOk /\ demo.allSame, demo.refCyc)
      /\ UNCHANGED <<fields, run_disabled, inputs_disabled, sim, due, timer,
                     live, timeouts, proved, demo>>
  BY DEF ProvePrime, timerVars, onceVars
<1>4. /\ CircuitTypes' /\ Circuit' /\ Primed' /\ Agreed' /\ acc' = 0
      /\ typed' \in Fields /\ reducedA' \in BOOLEAN
      /\ loaded' = readInputs
      /\ loaded' \in [a : Word, b : Word, m : Nat]
  BY <1>2, <1>3, LoadAgrees
<1>5. readInputs.b = fields.b /\ readInputs.b \in Word
  BY <1>2, InputsPrepared
<1>6. /\ demo.refCyc = WIDTH + 1 /\ WIDTH + 1 \in 0 .. WIDTH + 1
      /\ demo.allOk /\ demo.allSame
  BY <1>1, <1>2, WidthAssumption DEF AtDemo, Findings
<1>7. /\ shown' \in Page
      /\ shown'.cyc = Reading(WIDTH + 1) /\ shown'.bits = readInputs.b
      /\ shown'.acc = Dash /\ shown'.adds = popcount(fields.b)
      /\ shown'.lit = shown.lit /\ shown'.active = shown.active
      /\ shown'.res = shown.res
  BY <1>2, <1>3, <1>5, <1>6, ProvedShows DEF AtDemo
<1>8. PanelTypes'
  BY <1>2, <1>3, <1>4, <1>7 DEF PanelTypes
<1>9. Findings'
  BY <1>2, <1>3 DEF Findings
<1>10. Standby'
  BY <1>4, <1>7 DEF Standby
<1>11. Told'
  BY <1>2, <1>3, <1>4, <1>7, <1>10 DEF Told, AtDemo
<1>12. OneInterval'
  BY <1>2, <1>3 DEF OneInterval, AtDemo
<1>13. AfterBoot'
  BY <1>2, <1>3, <1>4, <1>7, <1>11, <1>12 DEF AfterBoot
<1>14. QED
  BY <1>1, <1>3, <1>8, <1>9, <1>13 DEF PanelInv

-----------------------------------------------------------------------------

\* The page before anything has happened.
LEMMA PanelInvInit == PanelInit => PanelInv
<1> SUFFICES ASSUME PanelInit PROVE PanelInv
  OBVIOUS
<1>1. /\ 0 \in Word /\ 0 \in WideWord /\ 0 \in 0 .. WIDTH
      /\ 0 \in 0 .. WIDTH + 1 /\ 0 \in Nat /\ 7 \in Nat /\ 0 \in 0 .. 1
  BY RadixFacts, WidthAssumption DEF Word, WideWord
<1>2. TypeOK
  BY <1>1 DEF PanelInit, Init, TypeOK
<1>3. ports \in [start : BOOLEAN, in : Operands]
  BY <1>1 DEF PanelInit, Operands
<1>4. CircuitTypes
  BY <1>1, <1>2, <1>3 DEF PanelInit, CircuitTypes
<1>5. loaded \in [a : Word, b : Word, m : Nat]
  BY <1>1 DEF PanelInit
<1>6. shown = Blank /\ shown \in Page /\ due = Dash /\ due \in Words
  BY BlankShows, Written DEF PanelInit
<1>7. PanelTypes
  BY <1>1, <1>4, <1>5, <1>6 DEF PanelInit, PanelTypes
<1>8. Findings
  BY DEF PanelInit, Findings, Untried
<1>9. BeforeBoot
  BY DEF PanelInit, Init, BeforeBoot
<1>10. QED
  BY <1>7, <1>8, <1>9 DEF PanelInit, PanelInv

\* Every event and every step of a callback.
LEMMA PanelInvStep == PanelInv /\ [PanelNext]_panelVars => PanelInv'
<1> SUFFICES ASSUME PanelInv, [PanelNext]_panelVars PROVE PanelInv'
  OBVIOUS
<1>1. ASSUME js = "idle", boot PROVE PanelInv'
  BY <1>1, RunKeeps, ResetKeeps DEF boot
<1>2. ASSUME LoadFails PROVE PanelInv'
  BY <1>2, LoadFailsKeeps
<1>3. ASSUME js = "idle", NEW f \in Fields, Edit(f) PROVE PanelInv'
  BY <1>3, EditKeeps
<1>4. ASSUME js = "idle", sim, UNCHANGED sim, ClickRun PROVE PanelInv'
  <2>1. sim' = TRUE
    BY <1>4 DEF PanelInv, PanelTypes
  <2>2. QED
    BY <1>4, <2>1, RunKeeps DEF ClickRun
<1>5. ASSUME js = "idle", sim, UNCHANGED sim, stepOne PROVE PanelInv'
  BY <1>5, StepOneKeeps
<1>6. ASSUME js = "idle", sim, UNCHANGED sim, resetPanel PROVE PanelInv'
  <2>1. sim' = TRUE
    BY <1>6 DEF PanelInv, PanelTypes
  <2>2. QED
    BY <1>6, <2>1, ResetKeeps
<1>7. ASSUME js = "idle", sim, UNCHANGED sim, prove PROVE PanelInv'
  BY <1>7, StartProvingKeeps DEF prove, onceVars
<1>8. ASSUME js = "idle", NEW t \in live, Tick(t) PROVE PanelInv'
  BY <1>8, TickKeeps
<1>9. ASSUME js = "idle", ProveTimeout PROVE PanelInv'
  <2>1. sim
    BY <1>9 DEF ProveTimeout, PanelInv, BeforeBoot
  <2>2. QED
    BY <1>9, <2>1, StartProvingKeeps DEF ProveTimeout
<1>10. ASSUME Callback PROVE PanelInv'
  BY <1>10, StepTheCircuitKeeps, ProveLoadKeeps, ProveClockKeeps,
     ProvePrimeKeeps DEF Callback, Demonstrates
<1>11. ASSUME UNCHANGED panelVars PROVE PanelInv'
  <2>1. /\ UNCHANGED simVars
        /\ UNCHANGED <<fields, inputs_disabled, run_disabled, word, shown, sim,
                       loaded, reducedA, typed, due, timer, live, timeouts,
                       proved, js, demo>>
    BY <1>11 DEF panelVars, pageVars, inputVars, timerVars, onceVars
  <2>2. /\ CircuitTypes' <=> CircuitTypes
        /\ Circuit' <=> Circuit
        /\ Primed' <=> Primed
        /\ Working' <=> Working
        /\ done' = done
    BY <2>1, CircuitKept DEF simVars, vars
  <2>3. PanelTypes'
    BY <2>1, <2>2 DEF PanelInv, PanelTypes
  <2>4. Findings'
    BY <2>1 DEF PanelInv, Findings
  <2>5. ~sim => BeforeBoot'
    BY <2>1, <2>2 DEF PanelInv, BeforeBoot
  <2>6. ASSUME Told PROVE Told'
    BY <2>1, <2>6, ToldKept
  <2>7. (OneInterval' <=> OneInterval) /\ (AtDemo' <=> AtDemo)
    BY <2>1, <2>2 DEF OneInterval, AtDemo
  <2>8. sim => AfterBoot'
    BY <2>1, <2>2, <2>6, <2>7 DEF PanelInv, AfterBoot
  <2>9. QED
    BY <2>1, <2>3, <2>4, <2>5, <2>8 DEF PanelInv
<1>12. QED
  BY <1>1, <1>2, <1>3, <1>4, <1>5, <1>6, <1>7, <1>8, <1>9, <1>10, <1>11
     DEF PanelNext, User, Timers

\* The invariant holds at every step, for every WIDTH and every Fields.
THEOREM PanelInvAlways == PanelSpec => []PanelInv
<1>1. QED
  BY PanelInvInit, PanelInvStep, PTL DEF PanelSpec

\* Every variable of the panel, of the harness and of the page keeps its
\* type: the counter never passes WIDTH + 1, and there is one timeout at most.
THEOREM TypeCorrect == PanelSpec => []PanelTypeOK
<1>1. PanelInv => PanelTypeOK
  BY PageOK DEF PanelInv, PanelTypes, CircuitTypes, PanelTypeOK, Words
<1>2. QED
  BY <1>1, PanelInvAlways, PTL

\* The cross-check of app.js never fails, whatever is edited, clicked and
\* demonstrated while an operation runs.
THEOREM CrossCheckNeverFails == PanelSpec => []NeverFault
<1>1. PanelInv => NeverFault
  BY DEF PanelInv, AfterBoot, NeverFault
<1>2. QED
  BY <1>1, PanelInvAlways, PTL

\* STANDBY, RUN and DONE say of the circuit what is true of it.
THEOREM StateWordTrue == PanelSpec => []WordTellsCircuit
<1>1. ASSUME PanelInv PROVE WordTellsCircuit
  <2>1. ASSUME js = "idle", word \in {"STANDBY", "RUN", "DONE"}
        PROVE  Told /\ OneInterval
    BY <1>1, <2>1 DEF PanelInv, BeforeBoot, AfterBoot
  <2>2. ASSUME js = "idle", word = "STANDBY"
        PROVE  live = {} /\ g_cycles = 0 /\ ports.in = loaded
    BY <2>1, <2>2 DEF Told, Agreed, Standby, Primed, OneInterval
  <2>3. ASSUME js = "idle", word = "RUN"
        PROVE  g_cycles <= WIDTH /\ ports.in = loaded
    BY <2>1, <2>3, WidthAssumption DEF Told, Agreed, Running, Primed, Working
  <2>4. ASSUME js = "idle", word = "DONE"
        PROVE  /\ live = {} /\ g_cycles = WIDTH + 1
               /\ result = bigMulMod(loaded)
    BY <2>1, <2>4 DEF Told, Agreed, Completed, Ended, OneInterval
  <2>5. QED
    BY <2>2, <2>3, <2>4 DEF WordTellsCircuit
<1>2. QED
  BY <1>1, PanelInvAlways, PTL

\* An interval that runs is the one that can be stopped.
THEOREM IntervalsHeld == PanelSpec => []NoOrphanInterval
<1>1. ASSUME PanelInv PROVE NoOrphanInterval
  <2>1. live = {} \/ live = {[id |-> timer, in |-> loaded]}
    BY <1>1 DEF PanelInv, PanelTypes, BeforeBoot, AfterBoot, OneInterval,
                AtDemo
  <2>2. QED
    BY <2>1 DEF NoOrphanInterval
<1>2. QED
  BY <1>1, PanelInvAlways, PTL

\* The demonstration's claim holds of the compiled circuit, whatever modulus
\* is in the field: right every time, and on cycle WIDTH + 1 every time.
THEOREM DemonstrationTrue == PanelSpec => []DemonstrationHolds
<1>1. ASSUME PanelInv PROVE DemonstrationHolds
  <2>1. done => g_cycles = WIDTH + 1
    BY <1>1 DEF PanelInv, BeforeBoot, AfterBoot, Circuit, Primed, Working,
                Ended
  <2>2. QED
    BY <1>1, <2>1 DEF PanelInv, Findings, DemonstrationHolds
<1>2. QED
  BY <1>1, PanelInvAlways, PTL

\* The box of the accumulator glows in RUN and in no other resting state.
THEOREM GlowTrue == PanelSpec => []LitWhileComputing
<1>1. ASSUME PanelInv, js = "idle" PROVE shown.lit <=> word = "RUN"
  <2>1. CASE sim
    BY <1>1, <2>1 DEF PanelInv, AfterBoot, Told
  <2>2. CASE ~sim
    BY <1>1, <2>2, BlankShows DEF PanelInv, BeforeBoot
  <2>3. QED
    BY <2>1, <2>2
<1>2. PanelInv => LitWhileComputing
  BY <1>1 DEF LitWhileComputing
<1>3. QED
  BY <1>2, PanelInvAlways, PTL

\* The path that is lit is the one of the bit of the typed b that the
\* circuit has just consumed.
THEOREM PathTrue == PanelSpec => []LivePath
<1>1. ASSUME PanelInv, js = "idle", sim PROVE LivePath
  BY <1>1 DEF PanelInv, AfterBoot, Told, Running, Lit, LivePath
<1>2. ASSUME PanelInv, ~sim PROVE LivePath
  BY <1>2, BlankShows DEF PanelInv, BeforeBoot, LivePath
<1>3. PanelInv => LivePath
  BY <1>1, <1>2 DEF LivePath
<1>4. QED
  BY <1>3, PanelInvAlways, PTL

\* In RUN and DONE the readouts are the registers of the circuit; in STANDBY
\* they tell what is loaded and whether a reset or a demonstration loaded it.
THEOREM ReadoutsTrue == PanelSpec => []ReadoutsTellCircuit
<1>1. ASSUME PanelInv, js = "idle", sim PROVE ReadoutsTellCircuit
  <2>1. Told /\ WIDTH + 1 # 0
    BY <1>1, WidthAssumption DEF PanelInv, AfterBoot
  <2>2. QED
    BY <2>1 DEF Told, Standby, Running, Completed, Ended, ReadoutsTellCircuit
<1>2. ASSUME PanelInv, ~sim PROVE ReadoutsTellCircuit
  BY <1>2 DEF PanelInv, BeforeBoot, ReadoutsTellCircuit
<1>3. PanelInv => ReadoutsTellCircuit
  BY <1>1, <1>2 DEF ReadoutsTellCircuit
<1>4. QED
  BY <1>3, PanelInvAlways, PTL

\* The result on the page is that of the last operation a run or a step has
\* armed, or its ellipsis, through every reset and demonstration after it.
THEOREM ResultTrue == PanelSpec => []ResultOfLastRun
<1>1. ASSUME PanelInv, sim PROVE ResultOfLastRun
  <2>1. shown.res \in {Pending, due}
    BY <1>1 DEF PanelInv, AfterBoot
  <2>2. ASSUME js = "idle" PROVE Told
    BY <1>1, <2>2 DEF PanelInv, AfterBoot
  <2>3. ASSUME js = "idle", word = "DONE"
        PROVE  shown.res = due /\ shown.acc = due
    <3>1. /\ shown.res = Reading(result) /\ shown.acc = Reading(acc)
          /\ acc = result /\ result = bigMulMod(loaded)
          /\ due = Reading(bigMulMod(loaded))
      BY <2>2, <2>3 DEF Told, Agreed, Completed, Ended
    <3>2. QED
      BY <3>1, Zenon
  <2>4. QED
    BY <2>1, <2>2, <2>3 DEF Told, Running, ResultOfLastRun
<1>2. ASSUME PanelInv, ~sim PROVE ResultOfLastRun
  BY <1>2, BlankShows DEF PanelInv, BeforeBoot, ResultOfLastRun
<1>3. QED
  BY <1>1, <1>2, PanelInvAlways, PTL

\* The contrast bar follows the field of b from boot on.
THEOREM ContrastTrue == PanelSpec => []ContrastTracksField
<1>1. PanelInv => ContrastTracksField
  BY DEF PanelInv, AfterBoot, ContrastTracksField
<1>2. QED
  BY <1>1, PanelInvAlways, PTL

\* A result has the caveat exactly when its operand had to be reduced.
THEOREM CaveatTrue == PanelSpec => []CaveatTold
<1>1. PanelInv => CaveatTold
  BY DEF PanelInv, BeforeBoot, AfterBoot, Told, Completed, CaveatTold
<1>2. QED
  BY <1>1, PanelInvAlways, PTL

=============================================================================
