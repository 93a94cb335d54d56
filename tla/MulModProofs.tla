---------------------------- MODULE MulModProofs ----------------------------
(***************************************************************************)
(* mulmod is correct and constant-time for every WIDTH and every operand   *)
(* that meets its precondition.  The inductive invariant says what the     *)
(* registers are half way: acc is the product of the multiplicand and the  *)
(* prefix of the multiplier consumed so far, less a multiple of the        *)
(* modulus.                                                                *)
(***************************************************************************)
EXTENDS MulModFormal, WordsProofs

\* b has been split into a prefix p, already consumed, and the bits still in
\* b_reg; acc is congruent to a*p.
Accumulated ==
  \E p, q \in Nat :
    /\ f_b * Pow2[WIDTH - cnt] = p * Radix + b_reg
    /\ acc + q * m_reg = a_reg * p

\* What a run in flight has established.
Running ==
  /\ f_running /\ ~done
  /\ cnt \in 1 .. WIDTH
  /\ a_reg = f_a /\ m_reg = f_m
  /\ a_reg < m_reg /\ acc < m_reg
  /\ Accumulated

IInv ==
  /\ FTypeOK
  /\ busy => Running
  /\ ~busy => cnt = 0
  /\ EquivInvariant

-----------------------------------------------------------------------------

\* One clock of the datapath: the new accumulator is reduced, and congruent
\* to twice the old one plus the multiplicand if the bit is set.
LEMMA StepReduces ==
  ASSUME FTypeOK, a_reg < m_reg, acc < m_reg
  PROVE  /\ Step \in Nat /\ Step < m_reg
         /\ Msb(b_reg) \in {0, 1}
         /\ \E k \in Nat : Step + k * m_reg = 2 * acc + Msb(b_reg) * a_reg
<1> USE RadixFacts
<1>1. /\ a_reg \in Nat /\ m_reg \in Nat /\ acc \in Nat
      /\ m_reg < Radix /\ b_reg \in Word
  BY DEF FTypeOK, TypeOK, Word, WideWord
<1>2. Msb(b_reg) \in {0, 1}
  BY DEF Msb
<1>3. 2 * acc \in Nat /\ 2 * acc < 2 * m_reg /\ 2 * acc < WideRadix
  BY <1>1
<1>4. (2 * acc) % WideRadix = 2 * acc
  BY <1>3, ModBelow
<1>5. /\ Doubled \in Nat /\ Doubled < m_reg
      /\ \E k \in {0, 1} : Doubled + k * m_reg = 2 * acc
  BY <1>1, <1>3, <1>4, CondSubReduces DEF Doubled
<1>6. /\ Doubled + a_reg \in Nat /\ Doubled + a_reg < 2 * m_reg
      /\ Doubled + a_reg < WideRadix
  BY <1>1, <1>5
<1>7. (Doubled + a_reg) % WideRadix = Doubled + a_reg
  BY <1>6, ModBelow
<1>8. /\ Added \in Nat /\ Added < m_reg
      /\ \E k \in {0, 1} : Added + k * m_reg = Doubled + a_reg
  BY <1>1, <1>6, <1>7, CondSubReduces DEF Added
<1>9. CASE Msb(b_reg) = 1
  <2>1. PICK k \in {0, 1} : Doubled + k * m_reg = 2 * acc
    BY <1>5
  <2>2. PICK l \in {0, 1} : Added + l * m_reg = Doubled + a_reg
    BY <1>8
  <2>3. k + l \in Nat /\ Added + (k + l) * m_reg = 2 * acc + 1 * a_reg
    BY <1>1, <1>5, <1>8, <2>1, <2>2
  <2>4. QED
    BY <1>8, <1>9, <2>3 DEF Step
<1>10. CASE Msb(b_reg) = 0
  <2>1. PICK k \in {0, 1} : Doubled + k * m_reg = 2 * acc
    BY <1>5
  <2>2. k \in Nat /\ Doubled + k * m_reg = 2 * acc + 0 * a_reg
    BY <1>1, <2>1
  <2>3. QED
    BY <1>5, <1>10, <2>2 DEF Step
<1>11. QED
  BY <1>2, <1>9, <1>10

\* What the registers say after one more bit: the prefix has grown by it.
LEMMA StepAccumulates ==
  ASSUME FTypeOK, Running
  PROVE  \E p, q \in Nat :
           /\ f_b * Pow2[WIDTH - (cnt - 1)] = p * Radix + ShiftLeft(b_reg)
           /\ Step + q * m_reg = a_reg * p
<1> USE RadixFacts
<1>1. /\ a_reg \in Nat /\ m_reg \in Nat /\ acc \in Nat /\ f_b \in Nat
      /\ b_reg \in Nat /\ b_reg \in Word /\ cnt \in 1 .. WIDTH
  BY DEF FTypeOK, TypeOK, Running, Word, WideWord
<1>2. PICK p \in Nat, q \in Nat :
        /\ f_b * Pow2[WIDTH - cnt] = p * Radix + b_reg
        /\ acc + q * m_reg = a_reg * p
  BY DEF Running, Accumulated
<1>3. /\ Step \in Nat
      /\ Msb(b_reg) \in {0, 1}
      /\ \E k \in Nat : Step + k * m_reg = 2 * acc + Msb(b_reg) * a_reg
  BY StepReduces DEF Running
<1>4. PICK k \in Nat : Step + k * m_reg = 2 * acc + Msb(b_reg) * a_reg
  BY <1>3
<1>5. /\ 2 * b_reg = Msb(b_reg) * Radix + ShiftLeft(b_reg)
      /\ ShiftLeft(b_reg) \in Nat
  BY <1>1, ShiftSplits DEF Word
<1>6. /\ Pow2[WIDTH - cnt] \in Nat
      /\ Pow2[WIDTH - (cnt - 1)] = 2 * Pow2[WIDTH - cnt]
  BY <1>1, Pow2Down
<1> DEFINE P == 2 * p + Msb(b_reg)
           Q == 2 * q + k
<1>7. P \in Nat /\ Q \in Nat
  BY <1>3
<1>8. f_b * Pow2[WIDTH - (cnt - 1)] = P * Radix + ShiftLeft(b_reg)
  <2>1. f_b * (2 * Pow2[WIDTH - cnt]) = 2 * (f_b * Pow2[WIDTH - cnt])
    BY <1>1, <1>6
  <2>2. Msb(b_reg) \in Nat
    BY <1>3
  <2>3. /\ P * Radix = 2 * (p * Radix) + Msb(b_reg) * Radix
        /\ p * Radix \in Nat /\ Msb(b_reg) * Radix \in Nat
    BY <2>2, DoubledProduct
  <2>4. QED
    BY <1>1, <1>2, <1>5, <1>6, <2>1, <2>3
<1>9. Step + Q * m_reg = a_reg * P
  <2>1. /\ Q * m_reg = 2 * (q * m_reg) + k * m_reg
        /\ q * m_reg \in Nat /\ k * m_reg \in Nat
    BY <1>1, DoubledProduct
  <2>2. Msb(b_reg) \in Nat
    BY <1>3
  <2>3. /\ P * a_reg = 2 * (p * a_reg) + Msb(b_reg) * a_reg
        /\ p * a_reg \in Nat /\ Msb(b_reg) * a_reg \in Nat
    BY <1>1, <2>2, DoubledProduct
  <2>4. acc + q * m_reg = a_reg * p
    BY <1>2
  <2>5. a_reg * p = p * a_reg /\ a_reg * P = P * a_reg
    BY <1>1, <1>7
  <2>6. Step + Q * m_reg = P * a_reg
    BY <1>1, <1>3, <1>4, <2>1, <2>3, <2>4, <2>5
  <2>7. QED
    BY <2>5, <2>6
<1>10. QED
  BY <1>7, <1>8, <1>9

\* The result published on the last bit is the product modulo the modulus.
LEMMA LastBitEquiv ==
  ASSUME FTypeOK, Running, cnt = 1
  PROVE  /\ Step \in Word
         /\ Step % Radix = Step
         /\ Step < f_m /\ Step = (f_a * f_b) % f_m
<1> USE RadixFacts
<1>1. /\ m_reg \in Nat /\ m_reg < Radix /\ a_reg \in Nat /\ f_b \in Word
      /\ f_b \in Nat /\ b_reg \in Word /\ a_reg = f_a /\ m_reg = f_m
      /\ a_reg < m_reg
  BY DEF FTypeOK, TypeOK, Running, Word
<1>2. Step \in Nat /\ Step < m_reg
  BY StepReduces DEF Running
<1>3. PICK p \in Nat, q \in Nat :
        /\ f_b * Pow2[WIDTH - (cnt - 1)] = p * Radix + ShiftLeft(b_reg)
        /\ Step + q * m_reg = a_reg * p
  BY StepAccumulates
<1>4. WIDTH - (cnt - 1) = WIDTH
  BY WidthAssumption
<1>5. f_b * Radix = p * Radix + ShiftLeft(b_reg)
  BY <1>3, <1>4 DEF Radix
<1>6. ShiftLeft(b_reg) \in Word
  BY <1>1, ShiftSplits
<1>7. p = f_b
  BY <1>1, <1>5, <1>6, AllConsumed
<1>8. (q * m_reg + Step) % m_reg = Step
  BY <1>1, <1>2, ModUnique
<1>9. q * m_reg + Step = a_reg * f_b
  BY <1>1, <1>2, <1>3, <1>7
<1>10. Step % Radix = Step
  BY <1>1, <1>2, ModBelow
<1>11. QED
  BY <1>1, <1>2, <1>8, <1>9, <1>10 DEF Word

-----------------------------------------------------------------------------
(* The three steps of a run, in a form that needs nothing of who starts    *)
(* it: the proofs about the peripheral cite them too.                      *)

\* An accepted operation has consumed nothing yet.
LEMMA LatchRuns ==
  ASSUME NEW a \in Word, NEW b \in Word, NEW m \in Word, a < m,
         Latch(TRUE, a, b, m),
         f_a' = a, f_b' = b, f_m' = m, f_running'
  PROVE  Running'
<1>1. a \in Nat /\ b \in Nat /\ m \in Nat /\ m > 0 /\ WIDTH \in 1 .. WIDTH
  BY RadixFacts, WidthAssumption DEF Word
<1>2. Accumulated'
  <2>1. Pow2[WIDTH - WIDTH] = 1
    BY WidthAssumption, Pow2Assumption
  <2>2. b * Pow2[WIDTH - WIDTH] = 0 * Radix + b
    BY <1>1, <2>1, RadixFacts
  <2>3. 0 + 0 * m = a * 0
    BY <1>1
  <2>4. QED
    BY <2>2, <2>3 DEF Latch, Accumulated
<1>3. QED
  BY <1>1, <1>2 DEF Latch, Running

\* One more bit.
LEMMA IterateRuns ==
  ASSUME FTypeOK, Running, Iterate,
         UNCHANGED <<f_a, f_b, f_m>>, f_running'
  PROVE  Running'
<1>1. cnt - 1 \in 1 .. WIDTH
  BY WidthAssumption DEF Iterate, LastBit, Running
<1>2. Step < m_reg
  BY StepReduces DEF Running
<1>3. Accumulated'
  BY StepAccumulates DEF Iterate, Accumulated
<1>4. QED
  BY <1>1, <1>2, <1>3 DEF Iterate, Running

\* The registers keep their widths whatever the operands are, as long as the
\* counter of a run has not reached zero.
LEMMA ClockTypeOK ==
  ASSUME TypeOK, busy => cnt # 0,
         NEW start \in BOOLEAN,
         NEW a \in Word, NEW b \in Word, NEW m \in Word,
         Clock(start, a, b, m)
  PROVE  TypeOK'
<1> USE RadixFacts DEF busy
<1>0. /\ 0 \in Word /\ 0 \in WideWord
      /\ WIDTH \in 0 .. WIDTH /\ 0 \in 0 .. WIDTH
  BY WidthAssumption DEF Word, WideWord
<1>1. /\ m_reg \in Nat /\ a_reg \in Nat /\ acc \in Nat
      /\ b_reg \in Word
  BY DEF TypeOK, Word, WideWord
<1>2. (2 * acc) % WideRadix \in Nat /\ (2 * acc) % WideRadix < WideRadix
  BY <1>1, ModFacts
<1>3. Doubled \in Nat /\ Doubled < WideRadix
  BY <1>1, <1>2 DEF Doubled, CondSub
<1>4. /\ (Doubled + a_reg) % WideRadix \in Nat
      /\ (Doubled + a_reg) % WideRadix < WideRadix
  BY <1>1, <1>3, ModFacts
<1>5. Added \in Nat /\ Added < WideRadix
  BY <1>1, <1>4 DEF Added, CondSub
<1>6. Step \in Nat /\ Step \in WideWord
  BY <1>3, <1>5 DEF Step, WideWord
<1>7. Step % Radix \in Word
  BY <1>6, ModFacts DEF Word
<1>8. ShiftLeft(b_reg) \in Word
  BY <1>1, ShiftSplits
<1>9. CASE Rest(start)
  BY <1>9 DEF Rest, TypeOK
<1>10. CASE Latch(start, a, b, m)
  BY <1>0, <1>10 DEF Latch, TypeOK
<1>11. CASE Iterate
  <2>1. cnt - 1 \in 0 .. WIDTH
    BY <1>11, WidthAssumption DEF Iterate, TypeOK
  <2>2. QED
    BY <1>6, <1>8, <1>11, <2>1 DEF Iterate, TypeOK
<1>12. CASE Finish
  BY <1>0, <1>6, <1>7, <1>8, <1>12 DEF Finish, LastBit, TypeOK
<1>13. QED
  BY <1>9, <1>10, <1>11, <1>12 DEF Clock

-----------------------------------------------------------------------------

\* Nothing has been started at power-up.
LEMMA IInvInit == FInit => IInv
<1> SUFFICES ASSUME FInit PROVE IInv
  OBVIOUS
<1>1. 0 \in Word /\ 0 \in WideWord /\ 0 \in 0 .. WIDTH
  BY RadixFacts, WidthAssumption DEF Word, WideWord
<1>2. QED
  BY <1>1 DEF FInit, Init, IInv, FTypeOK, TypeOK, busy, EquivInvariant

\* Every step of the harness keeps the account of the bits consumed.
LEMMA IInvStep == IInv /\ [FNext]_fvars => IInv'
<1> SUFFICES ASSUME IInv, [FNext]_fvars PROVE IInv'
  OBVIOUS
<1> USE DEF IInv, busy
<1>0. /\ 0 \in Word /\ 0 \in WideWord /\ 0 \in 0 .. WIDTH
      /\ WIDTH \in 1 .. WIDTH /\ WIDTH \in 0 .. WIDTH
  BY RadixFacts, WidthAssumption DEF Word, WideWord
<1>1. CASE FReset
  BY <1>0, <1>1 DEF FReset, Reset, FTypeOK, TypeOK, EquivInvariant
<1>2. ASSUME NEW a \in Word, NEW b \in Word, NEW m \in Word, FStart(a, b, m)
      PROVE  IInv'
  <2>1. FTypeOK'
    BY <1>0, <1>2 DEF FStart, Latch, FTypeOK, TypeOK
  <2>2. Running'
    BY <1>2, LatchRuns DEF FStart, Precondition
  <2>3. busy' /\ ~done'
    BY <1>2 DEF FStart, Latch
  <2>4. QED
    BY <2>1, <2>2, <2>3 DEF EquivInvariant
<1>3. CASE FClock /\ Rest(FALSE)
  BY <1>3 DEF FClock, Rest, FTypeOK, TypeOK, EquivInvariant
<1>4. CASE FClock /\ Iterate
  <2>1. Running
    BY <1>4 DEF Iterate
  <2>2. Clock(FALSE, 0, 0, 0) /\ cnt # 0
    BY <1>4, <2>1 DEF Clock, Running
  <2>3. FTypeOK'
    BY <1>0, <1>4, <2>2, ClockTypeOK DEF FClock, FTypeOK
  <2>4. f_running'
    BY <1>4, <2>1 DEF FClock, Running
  <2>5. Running'
    BY <1>4, <2>1, <2>4, IterateRuns DEF FClock
  <2>6. busy' /\ ~done'
    BY <1>4 DEF Iterate
  <2>7. QED
    BY <2>3, <2>5, <2>6 DEF EquivInvariant
<1>5. CASE FClock /\ Finish
  <2>1. Running /\ cnt = 1
    BY <1>5 DEF Finish, LastBit
  <2>2. /\ Step % Radix = Step
        /\ Step < f_m /\ Step = (f_a * f_b) % f_m
    BY <2>1, LastBitEquiv
  <2>3. Clock(FALSE, 0, 0, 0) /\ cnt # 0
    BY <1>5, <2>1 DEF Clock
  <2>4. FTypeOK'
    BY <1>0, <1>5, <2>3, ClockTypeOK DEF FClock, FTypeOK
  <2>5. EquivInvariant'
    BY <1>5, <2>2 DEF FClock, Finish, EquivInvariant
  <2>6. ~busy' /\ cnt' = 0
    BY <1>5, <2>1 DEF Finish
  <2>7. QED
    BY <2>4, <2>5, <2>6
<1>6. CASE UNCHANGED fvars
  BY <1>6 DEF fvars, FTypeOK, TypeOK, Running, Accumulated, EquivInvariant
<1>7. QED
  BY <1>1, <1>2, <1>3, <1>4, <1>5, <1>6 DEF FNext, FClock

\* The strengthened invariant holds of every reachable state.
THEOREM IInvAlways == FSpec => []IInv
BY IInvInit, IInvStep, PTL DEF FSpec

\* Every register keeps its declared width for every WIDTH: no assignment of
\* mulmod.v drops a bit that matters.
THEOREM TypeCorrect == FSpec => []FTypeOK
<1>1. IInv => FTypeOK
  BY DEF IInv
<1>2. QED
  BY <1>1, IInvAlways, PTL

\* The harness's reduction invariant, for every WIDTH: one subtract per add
\* keeps the accumulator below the modulus at every clock of a run.
THEOREM ReductionHolds == FSpec => []ReductionInvariant
<1>1. IInv => ReductionInvariant
  <2>1. SUFFICES ASSUME IInv, state = "S_RUN"
                 PROVE  m_reg # 0 /\ a_reg < m_reg /\ acc < m_reg
    BY DEF ReductionInvariant
  <2>2. a_reg < m_reg /\ acc < m_reg /\ a_reg \in Nat /\ m_reg \in Nat
    BY <2>1, RadixFacts DEF IInv, Running, busy, FTypeOK, TypeOK, Word
  <2>3. QED
    BY <2>2
<1>2. QED
  BY <1>1, IInvAlways, PTL

\* The harness's end-to-end equivalence, which formal/mulmod.sby checks at
\* WIDTH = 5, for every WIDTH: the result shown with done is (a*b) mod m.
THEOREM EquivHolds == FSpec => []EquivInvariant
<1>1. IInv => EquivInvariant
  BY DEF IInv
<1>2. QED
  BY <1>1, IInvAlways, PTL

\* mulmod implements the constant-time unit for every WIDTH: whatever the
\* operands, the answer comes WIDTH clocks after the start and is (a*b) mod m.
THEOREM UnitImplemented == FSpec => UnitSpec
<1> USE DEF Unit!vars
<1>1. FInit => Unit!Init
  BY DEF FInit, Init, Unit!Init
<1>2. IInv /\ [FNext]_fvars => [Unit!Next]_Unit!vars
  <2> SUFFICES ASSUME IInv, [FNext]_fvars PROVE [Unit!Next]_Unit!vars
    OBVIOUS
  <2> USE DEF Unit!Next
  <2>1. CASE FReset
    BY <2>1 DEF FReset, Reset, Unit!Abandon
  <2>2. ASSUME NEW a \in Word, NEW b \in Word, NEW m \in Word, ~busy,
               FStart(a, b, m)
        PROVE  Unit!Accept
    BY <2>2 DEF IInv, FStart, Latch, Unit!Accept
  <2>3. CASE FClock /\ Rest(FALSE)
    BY <2>3 DEF IInv, busy, FClock, Rest, Unit!EndPulse
  <2>4. CASE FClock /\ Iterate
    <3>1. cnt > 1
      BY <2>4 DEF IInv, busy, Running, Iterate, LastBit
    <3>2. QED
      BY <2>4, <3>1 DEF FClock, Iterate, Unit!Work
  <2>5. CASE FClock /\ Finish
    <3>1. cnt = 1 /\ Step % Radix = (f_a * f_b) % f_m
      BY <2>5, LastBitEquiv DEF IInv, busy, Finish, LastBit
    <3>2. QED
      BY <2>5, <3>1 DEF FClock, Finish, Unit!Answer
  <2>6. CASE UNCHANGED fvars
    BY <2>6 DEF fvars
  <2>7. QED
    BY <2>1, <2>2, <2>3, <2>4, <2>5, <2>6 DEF FNext, FClock
<1>3. QED
  BY <1>1, <1>2, IInvAlways, PTL DEF FSpec, UnitSpec, Unit!Spec

=============================================================================
