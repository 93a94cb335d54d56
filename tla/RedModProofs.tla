---------------------------- MODULE RedModProofs ----------------------------
(***************************************************************************)
(* redmod is correct and constant-time for every WIDTH: the invariant says *)
(* that r is congruent to the prefix of the operand consumed so far, as in *)
(* MulModProofs.                                                           *)
(***************************************************************************)
EXTENDS RedModUser, WordsProofs

Consumed ==
  \E p, q \in Nat :
    /\ op.x * Pow2[WIDTH - cnt] = p * Radix + x_reg
    /\ r + q * m_reg = p

Running ==
  /\ op \in Ops
  /\ cnt \in 1 .. WIDTH
  /\ m_reg = op.m
  /\ r < m_reg
  /\ Consumed

IInv ==
  /\ UTypeOK
  /\ busy => Running
  /\ ~busy => cnt = 0

-----------------------------------------------------------------------------

\* One clock of the datapath: the remainder is reduced again, and congruent
\* to twice the old one plus the bit that left x_reg.
LEMMA StepReduces ==
  ASSUME TypeOK, r < m_reg
  PROVE  /\ next_r \in Nat /\ next_r < m_reg /\ next_r \in Word
         /\ Msb(x_reg) \in {0, 1}
         /\ \E k \in Nat : next_r + k * m_reg = 2 * r + Msb(x_reg)
<1> USE RadixFacts
<1>1. m_reg \in Nat /\ m_reg < Radix /\ r \in Nat
  BY DEF TypeOK, Word
<1>2. Msb(x_reg) \in {0, 1}
  BY DEF Msb
<1>3. 2 * r + Msb(x_reg) \in Nat /\ 2 * r + Msb(x_reg) < 2 * m_reg
  BY <1>1, <1>2
<1>4. PICK s \in Nat : s = 2 * r + Msb(x_reg)
  BY <1>3
<1>5. /\ CondSub(s, m_reg) \in Nat /\ CondSub(s, m_reg) < m_reg
      /\ \E k \in {0, 1} : CondSub(s, m_reg) + k * m_reg = s
  BY <1>1, <1>3, <1>4, CondSubReduces
<1>6. CondSub(s, m_reg) % Radix = CondSub(s, m_reg)
  BY <1>1, <1>5, ModBelow
<1>7. next_r = CondSub(s, m_reg)
  BY <1>4, <1>6 DEF next_r
<1>8. QED
  BY <1>1, <1>2, <1>4, <1>5, <1>7 DEF Word

\* What the registers say after one more bit.
LEMMA StepConsumes ==
  ASSUME UTypeOK, Running
  PROVE  \E p, q \in Nat :
           /\ op.x * Pow2[WIDTH - (cnt - 1)] = p * Radix + ShiftLeft(x_reg)
           /\ next_r + q * m_reg = p
<1> USE RadixFacts
<1>1. /\ m_reg \in Nat /\ r \in Nat /\ x_reg \in Nat /\ x_reg \in Word
      /\ op.x \in Nat /\ cnt \in 1 .. WIDTH
  BY DEF UTypeOK, TypeOK, Running, Ops, Word
<1>2. PICK p \in Nat, q \in Nat :
        /\ op.x * Pow2[WIDTH - cnt] = p * Radix + x_reg
        /\ r + q * m_reg = p
  BY DEF Running, Consumed
<1>3. /\ next_r \in Nat
      /\ Msb(x_reg) \in {0, 1}
      /\ \E k \in Nat : next_r + k * m_reg = 2 * r + Msb(x_reg)
  BY StepReduces DEF Running, UTypeOK
<1>4. PICK k \in Nat : next_r + k * m_reg = 2 * r + Msb(x_reg)
  BY <1>3
<1>5. /\ 2 * x_reg = Msb(x_reg) * Radix + ShiftLeft(x_reg)
      /\ ShiftLeft(x_reg) \in Nat
  BY <1>1, ShiftSplits DEF Word
<1>6. /\ Pow2[WIDTH - cnt] \in Nat
      /\ Pow2[WIDTH - (cnt - 1)] = 2 * Pow2[WIDTH - cnt]
  BY <1>1, Pow2Down
<1> DEFINE P == 2 * p + Msb(x_reg)
           Q == 2 * q + k
<1>7. P \in Nat /\ Q \in Nat
  BY <1>3
<1>8. op.x * Pow2[WIDTH - (cnt - 1)] = P * Radix + ShiftLeft(x_reg)
  <2>1. op.x * (2 * Pow2[WIDTH - cnt]) = 2 * (op.x * Pow2[WIDTH - cnt])
    BY <1>1, <1>6
  <2>2. Msb(x_reg) \in Nat
    BY <1>3
  <2>3. /\ P * Radix = 2 * (p * Radix) + Msb(x_reg) * Radix
        /\ p * Radix \in Nat /\ Msb(x_reg) * Radix \in Nat
    BY <2>2, DoubledProduct
  <2>4. QED
    BY <1>1, <1>2, <1>5, <1>6, <2>1, <2>3
<1>9. next_r + Q * m_reg = P
  <2>1. /\ Q * m_reg = 2 * (q * m_reg) + k * m_reg
        /\ q * m_reg \in Nat /\ k * m_reg \in Nat
    BY <1>1, DoubledProduct
  <2>2. r + q * m_reg = p
    BY <1>2
  <2>3. QED
    BY <1>1, <1>3, <1>4, <2>1, <2>2
<1>10. QED
  BY <1>7, <1>8, <1>9

\* The result published on the last bit is the remainder.
LEMMA LastBitRemainder ==
  ASSUME UTypeOK, Running, cnt = 1
  PROVE  next_r = op.x % op.m
<1> USE RadixFacts
<1>1. /\ m_reg \in Nat /\ op.x \in Word /\ op.x \in Nat /\ x_reg \in Word
      /\ m_reg = op.m /\ m_reg > 0
  BY DEF UTypeOK, TypeOK, Running, Ops, Word
<1>2. next_r \in Nat /\ next_r < m_reg
  BY StepReduces DEF Running, UTypeOK
<1>3. PICK p \in Nat, q \in Nat :
        /\ op.x * Pow2[WIDTH - (cnt - 1)] = p * Radix + ShiftLeft(x_reg)
        /\ next_r + q * m_reg = p
  BY StepConsumes
<1>4. WIDTH - (cnt - 1) = WIDTH
  BY WidthAssumption
<1>5. op.x * Radix = p * Radix + ShiftLeft(x_reg)
  BY <1>3, <1>4 DEF Radix
<1>6. p = op.x
  BY <1>1, <1>5, ShiftSplits, AllConsumed
<1>7. (q * m_reg + next_r) % m_reg = next_r
  BY <1>1, <1>2, ModUnique
<1>8. q * m_reg + next_r = op.x
  BY <1>1, <1>2, <1>3, <1>6
<1>9. QED
  BY <1>1, <1>7, <1>8

-----------------------------------------------------------------------------
(* The three steps of a run, in a form that needs nothing of who starts    *)
(* it: the proofs about the peripheral cite them too.                      *)

\* An accepted operation has consumed nothing yet.
LEMMA LatchRuns ==
  ASSUME NEW o \in Ops, Latch(TRUE, o.x, o.m), op' = o
  PROVE  Running'
<1>1. /\ o.x \in Nat /\ o.m \in Nat /\ o.m > 0 /\ WIDTH \in 1 .. WIDTH
  BY RadixFacts, WidthAssumption DEF Ops, Word
<1>2. Consumed'
  <2>1. Pow2[WIDTH - WIDTH] = 1
    BY WidthAssumption, Pow2Assumption
  <2>2. o.x * Pow2[WIDTH - WIDTH] = 0 * Radix + o.x
    BY <1>1, <2>1, RadixFacts
  <2>3. 0 + 0 * o.m = 0
    BY <1>1
  <2>4. QED
    BY <2>2, <2>3 DEF Latch, Consumed
<1>3. QED
  BY <1>1, <1>2 DEF Latch, Running

\* One more bit.
LEMMA IterateRuns ==
  ASSUME UTypeOK, Running, Iterate, UNCHANGED op
  PROVE  Running'
<1>1. cnt - 1 \in 1 .. WIDTH
  BY WidthAssumption DEF Iterate, LastBit, Running
<1>2. next_r < m_reg
  BY StepReduces DEF Running, UTypeOK
<1>3. Consumed'
  BY StepConsumes DEF Iterate, Consumed
<1>4. QED
  BY <1>1, <1>2, <1>3 DEF Iterate, Running

\* The registers keep their widths whatever the operands are, as long as the
\* counter of a run has not reached zero.
LEMMA ClockTypeOK ==
  ASSUME TypeOK, busy => cnt # 0,
         NEW start \in BOOLEAN, NEW x \in Word, NEW m \in Word,
         Clock(start, x, m)
  PROVE  TypeOK'
<1> USE RadixFacts DEF busy
<1>0. 0 \in Word /\ WIDTH \in 0 .. WIDTH /\ 0 \in 0 .. WIDTH
  BY WidthAssumption DEF Word
<1>1. m_reg \in Nat /\ r \in Nat /\ x_reg \in Word
  BY DEF TypeOK, Word
<1>2. next_r \in Word
  <2>1. PICK s \in Nat : s = 2 * r + Msb(x_reg)
    BY <1>1 DEF Msb
  <2>2. CondSub(s, m_reg) \in Nat
    BY <1>1 DEF CondSub
  <2>3. QED
    BY <2>1, <2>2, ModFacts DEF next_r, Word
<1>3. ShiftLeft(x_reg) \in Word
  BY <1>1, ShiftSplits
<1>4. CASE Rest(start)
  BY <1>4 DEF Rest, TypeOK
<1>5. CASE Latch(start, x, m)
  BY <1>0, <1>5 DEF Latch, TypeOK
<1>6. CASE Iterate
  <2>1. cnt - 1 \in 0 .. WIDTH
    BY <1>6, WidthAssumption DEF Iterate, TypeOK
  <2>2. QED
    BY <1>2, <1>3, <1>6, <2>1 DEF Iterate, TypeOK
<1>7. CASE Finish
  BY <1>0, <1>2, <1>3, <1>7 DEF Finish, LastBit, TypeOK
<1>8. QED
  BY <1>4, <1>5, <1>6, <1>7 DEF Clock

-----------------------------------------------------------------------------

\* Nothing has been started at power-up.
LEMMA IInvInit == UInit => IInv
<1>1. 0 \in Word /\ 0 \in 0 .. WIDTH
  BY RadixFacts, WidthAssumption DEF Word
<1>2. QED
  BY <1>1 DEF UInit, Init, IInv, UTypeOK, TypeOK, busy

\* Every step keeps the account of the bits consumed.
LEMMA IInvStep == IInv /\ [UNext]_uvars => IInv'
<1> SUFFICES ASSUME IInv, [UNext]_uvars PROVE IInv'
  OBVIOUS
<1> USE DEF IInv, busy
<1>0. /\ 0 \in Word /\ 0 \in 0 .. WIDTH
      /\ WIDTH \in 1 .. WIDTH /\ WIDTH \in 0 .. WIDTH
  BY RadixFacts, WidthAssumption DEF Word
<1>1. CASE UReset
  BY <1>0, <1>1 DEF UReset, Reset, UTypeOK, TypeOK
<1>2. ASSUME NEW o \in Ops, Latch(TRUE, o.x, o.m), op' = o
      PROVE  IInv'
  <2>1. o.x \in Word /\ o.m \in Word
    BY DEF Ops
  <2>2. UTypeOK'
    BY <1>0, <1>2, <2>1 DEF Latch, UTypeOK, TypeOK
  <2>3. Running'
    BY <1>2, LatchRuns
  <2>4. busy'
    BY <1>2 DEF Latch
  <2>5. QED
    BY <2>2, <2>3, <2>4
<1>3. CASE Rest(FALSE) /\ UNCHANGED op
  BY <1>3 DEF Rest, UTypeOK, TypeOK
<1>4. CASE Iterate /\ UNCHANGED op
  <2>1. Running
    BY <1>4 DEF Iterate
  <2>2. Clock(FALSE, 0, 0) /\ cnt # 0
    BY <1>4, <2>1 DEF Clock, Running
  <2>3. UTypeOK'
    BY <1>0, <1>4, <2>2, ClockTypeOK DEF UTypeOK
  <2>4. Running'
    BY <1>4, <2>1, IterateRuns
  <2>5. busy'
    BY <1>4 DEF Iterate
  <2>6. QED
    BY <2>3, <2>4, <2>5
<1>5. CASE Finish /\ UNCHANGED op
  <2>1. Running /\ cnt = 1
    BY <1>5 DEF Finish, LastBit
  <2>2. Clock(FALSE, 0, 0) /\ cnt # 0
    BY <1>5, <2>1 DEF Clock
  <2>3. UTypeOK'
    BY <1>0, <1>5, <2>2, ClockTypeOK DEF UTypeOK
  <2>4. QED
    BY <1>5, <2>1, <2>3 DEF Finish
<1>6. CASE UNCHANGED uvars
  BY <1>6 DEF uvars, UTypeOK, TypeOK, Running, Consumed
<1>7. QED
  BY <1>1, <1>2, <1>3, <1>4, <1>5, <1>6
     DEF UNext, UStart, UClock, Clock, Rest, Latch, Iterate, Finish

\* The strengthened invariant holds of every reachable state.
THEOREM IInvAlways == USpec => []IInv
BY IInvInit, IInvStep, PTL DEF USpec

\* The registers of redmod keep their widths, and cnt never runs past WIDTH,
\* for every WIDTH and at every clock (redmod.v:27-40).
THEOREM TypeCorrect == USpec => []UTypeOK
<1>1. IInv => UTypeOK
  BY DEF IInv
<1>2. QED
  BY <1>1, IInvAlways, PTL

\* The comment of redmod.v:39 for every WIDTH: the remainder is below the
\* modulus at every clock of a run.
THEOREM RemainderHolds == USpec => []RemainderReduced
<1>1. IInv => RemainderReduced
  BY DEF IInv, Running, RemainderReduced
<1>2. QED
  BY <1>1, IInvAlways, PTL

\* redmod implements the constant-time unit for every WIDTH: the answer
\* comes WIDTH clocks after the start that was accepted and is x mod m.
THEOREM UnitImplemented == USpec => UnitSpec
<1>1. UInit => Unit!Init
  BY DEF UInit, Init, Unit!Init
<1>2. IInv /\ [UNext]_uvars => [Unit!Next]_Unit!vars
  <2> SUFFICES ASSUME IInv, [UNext]_uvars PROVE [Unit!Next]_Unit!vars
    OBVIOUS
  <2> USE DEF Unit!Next, Unit!vars
  <2>1. CASE UReset
    BY <2>1 DEF UReset, Reset, Unit!Abandon
  <2>2. ASSUME NEW o \in Ops, Latch(TRUE, o.x, o.m), op' = o
        PROVE  Unit!Accept
    BY <2>2 DEF IInv, busy, Latch, Unit!Accept
  <2>3. CASE Rest(FALSE) /\ UNCHANGED op
    BY <2>3 DEF IInv, busy, Rest, Unit!EndPulse
  <2>4. CASE Iterate /\ UNCHANGED op
    <3>1. cnt > 1
      BY <2>4 DEF IInv, busy, Running, Iterate, LastBit
    <3>2. QED
      BY <2>4, <3>1 DEF Iterate, Unit!Work
  <2>5. CASE Finish /\ UNCHANGED op
    <3>1. cnt = 1 /\ next_r = op.x % op.m
      BY <2>5, LastBitRemainder DEF IInv, busy, Finish, LastBit
    <3>2. QED
      BY <2>5, <3>1 DEF Finish, Unit!Answer
  <2>6. CASE UNCHANGED uvars
    BY <2>6 DEF uvars
  <2>7. QED
    BY <2>1, <2>2, <2>3, <2>4, <2>5, <2>6
       DEF UNext, UStart, UClock, Clock, busy, Rest, Latch, Iterate, Finish
<1>3. QED
  BY <1>1, <1>2, IInvAlways, PTL DEF USpec, UnitSpec, Unit!Spec

=============================================================================
