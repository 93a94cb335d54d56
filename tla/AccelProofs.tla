---------------------------- MODULE AccelProofs ----------------------------
(***************************************************************************)
(* The accelerator, for every WIDTH and every set of words.                *)
(*                                                                         *)
(* First what no host can break.  The status flags need no more than       *)
(* themselves.  That the multiplier never loses a start rests on a race    *)
(* between the two datapaths: MulLeft, the clocks until mulmod is free,    *)
(* never exceeds by more than one the clocks a reduction in flight still   *)
(* takes.                                                                  *)
(*                                                                         *)
(* Then what it does for a careful host: it implements the squaring        *)
(* service.  The inductive invariant follows an operation through the      *)
(* pipeline: in each phase one datapath at most is working, on the         *)
(* operands of the job in flight, and its own invariant (RedModProofs,     *)
(* MulModProofs) says how far it is.                                       *)
(***************************************************************************)
EXTENDS AccelCarefulHost, WordsProofs

USE DEF commandVars, pipelineVars, rdVars, mlVars, accelVars

\* The lemmas about the datapaths, of the two instances.
red == INSTANCE RedModProofs WITH
  state <- rd_state, x_reg <- rd_x, m_reg <- rd_m, r <- rd_r, cnt <- rd_cnt,
  result <- redmod_out, done <- redmod_done, op <- 0
mul == INSTANCE MulModProofs WITH
  state <- ml_state, a_reg <- ml_a, b_reg <- ml_b, m_reg <- ml_m,
  acc <- ml_acc, cnt <- ml_cnt, result <- mulmod_out, done <- mulmod_done,
  f_a <- 0, f_b <- 0, f_m <- 0, f_running <- TRUE

\* Clocks until mulmod is free, a start it has still to see included.
MulLeft == IF mulmod_start THEN WIDTH + 1 ELSE ml_cnt

Race ==
  /\ rd_cnt \in 0 .. WIDTH
  /\ ml_cnt \in 0 .. WIDTH
  /\ rd_state \in {"S_IDLE", "S_RUN"} /\ (rd_state = "S_IDLE" <=> rd_cnt = 0)
  /\ ml_state \in {"S_IDLE", "S_RUN"} /\ (ml_state = "S_IDLE" <=> ml_cnt = 0)
  /\ rd_state = "S_RUN" => ~redmod_done
  /\ MulStartKept
  /\ rd_state = "S_RUN" => MulLeft <= rd_cnt + 1
  /\ redmod_done => MulLeft <= 1

-----------------------------------------------------------------------------

\* A multiplication is started in one case only, with the datapaths' clocks
\* independent of the host.
LEMMA ClockStartsMul ==
  ASSUME NEW w, Clock(w)
  PROVE  mulmod_start' <=> Reduced
BY DEF Clock, Pipeline, PassReduced, PublishProduct, ClearPipeline,
       RefuseStart, AcceptStart, HoldPipeline, Reduced, Multiplied, IsStart

\* Nothing runs at power-up.
LEMMA RaceInit == Init => Race
BY WidthAssumption
   DEF Init, u_redmod!Init, u_mulmod!Init, Race, MulStartKept, MulLeft

\* No clock lets a multiplication outlast the reduction that follows it.
LEMMA RaceStep ==
  ASSUME Race, NEW w, Clock(w)
  PROVE  Race'
<1> USE WidthAssumption
<1>1. mulmod_start' <=> Reduced
  BY ClockStartsMul
<1>2. Reduced => redmod_done
  BY DEF Reduced
<1>3. /\ u_redmod!Clock(redmod_start, operand, modulus)
      /\ u_mulmod!Clock(mulmod_start, a_reduced, a_reduced, modulus)
  BY DEF Clock
<1>4. /\ rd_cnt' \in 0 .. WIDTH /\ rd_state' \in {"S_IDLE", "S_RUN"}
      /\ (rd_state' = "S_IDLE" <=> rd_cnt' = 0)
      /\ rd_state' = "S_RUN" => ~redmod_done'
      /\ rd_state' = "S_RUN" =>
           rd_cnt' = WIDTH \/ (rd_state = "S_RUN" /\ rd_cnt' = rd_cnt - 1)
      /\ redmod_done' => rd_state = "S_RUN" /\ rd_cnt = 1
  BY <1>3 DEF Race, u_redmod!Clock, u_redmod!Rest, u_redmod!Latch,
              u_redmod!Iterate, u_redmod!Finish, u_redmod!LastBit
<1>5. /\ ml_cnt' \in 0 .. WIDTH /\ ml_state' \in {"S_IDLE", "S_RUN"}
      /\ (ml_state' = "S_IDLE" <=> ml_cnt' = 0)
      /\ ml_cnt' = IF mulmod_start THEN WIDTH
                   ELSE IF ml_cnt = 0 THEN 0 ELSE ml_cnt - 1
  BY <1>3 DEF Race, MulStartKept, u_mulmod!Clock, u_mulmod!Rest,
              u_mulmod!Latch, u_mulmod!Iterate, u_mulmod!Finish,
              u_mulmod!LastBit
<1>6. mulmod_start' => ml_cnt' = 0 /\ rd_state = "S_IDLE"
  BY <1>1, <1>2, <1>5 DEF Race, MulLeft
<1>7. MulStartKept'
  BY <1>5, <1>6 DEF MulStartKept
<1>8. rd_state' = "S_RUN" => MulLeft' <= rd_cnt' + 1
  <2>1. CASE mulmod_start'
    <3>1. MulLeft' = WIDTH + 1
      BY <2>1 DEF MulLeft
    <3>2. rd_state' = "S_RUN" => rd_cnt' = WIDTH
      BY <1>4, <1>6, <2>1
    <3>3. QED
      BY <3>1, <3>2
  <2>2. CASE ~mulmod_start'
    <3>1. MulLeft' = ml_cnt'
      BY <2>2 DEF MulLeft
    <3>2. CASE rd_cnt' = WIDTH
      BY <1>5, <3>1, <3>2
    <3>3. CASE rd_state = "S_RUN" /\ rd_cnt' = rd_cnt - 1
      <4>1. MulLeft <= rd_cnt + 1
        BY <3>3 DEF Race
      <4>2. CASE mulmod_start
        BY <1>5, <3>1, <3>3, <4>1, <4>2 DEF MulLeft, Race
      <4>3. CASE ~mulmod_start
        BY <1>4, <1>5, <3>1, <3>3, <4>1, <4>3 DEF MulLeft, Race
      <4>4. QED
        BY <4>2, <4>3
    <3>4. QED
      BY <1>4, <3>2, <3>3
  <2>3. QED
    BY <2>1, <2>2
<1>9. redmod_done' => MulLeft' <= 1
  BY <1>4, <1>5, <1>6 DEF MulLeft, Race
<1>10. QED
  BY <1>4, <1>5, <1>7, <1>8, <1>9 DEF Race

\* Nor does any other step of a host.
LEMMA RaceNext == Race /\ [Next]_accelVars => Race'
<1> SUFFICES ASSUME Race, [Next]_accelVars PROVE Race'
  OBVIOUS
<1>1. CASE HardReset
  BY <1>1, WidthAssumption
     DEF HardReset, u_redmod!Reset, u_mulmod!Reset, Race, MulStartKept,
         MulLeft
<1>2. CASE HostClock
  BY <1>2, RaceStep DEF HostClock
<1>3. CASE UNCHANGED accelVars
  BY <1>3 DEF Race, MulStartKept, MulLeft
<1>4. QED
  BY <1>1, <1>2, <1>3 DEF Next

\* No host makes the pipeline start a multiplier that is busy: a one-clock
\* start pulse is never lost on it.
THEOREM MulStartNeverLost == Spec => []MulStartKept
<1>1. Race => MulStartKept
  BY DEF Race
<1>2. QED
  BY RaceInit, RaceNext, <1>1, PTL DEF Spec

-----------------------------------------------------------------------------

\* What the host writes is a word.
LEMMA WritesWords ==
  ASSUME NEW w \in Writes
  PROVE  w.reg \in {"OPERAND", "MODULUS"} => w.word \in Word
BY HostAssumption
   DEF Writes, NoWrite, CtrlWrite, OperandWrite, ModulusWrite

\* A clock keeps the registers of redmod within their widths.
LEMMA RedmodTypeStep ==
  ASSUME TypeOK, Race, NEW w, Clock(w)
  PROVE  u_redmod!TypeOK'
<1>1. red!TypeOK /\ (red!busy => rd_cnt # 0)
  BY DEF TypeOK, Race, u_redmod!TypeOK, u_redmod!Word, u_redmod!Radix,
         red!TypeOK, red!Word, red!Radix, red!busy
<1>2. /\ redmod_start \in BOOLEAN
      /\ operand \in red!Word /\ modulus \in red!Word
  BY DEF TypeOK, Word, Radix, red!Word, red!Radix
<1>3. red!Clock(redmod_start, operand, modulus)
  BY DEF Clock, u_redmod!Clock, red!Clock, u_redmod!Rest, red!Rest,
         u_redmod!Latch, red!Latch, u_redmod!Iterate, red!Iterate,
         u_redmod!Finish, red!Finish, u_redmod!LastBit, red!LastBit,
         u_redmod!next_r, red!next_r, u_redmod!Msb, red!Msb,
         u_redmod!CondSub, red!CondSub, u_redmod!ShiftLeft, red!ShiftLeft,
         u_redmod!Radix, red!Radix
<1>4. red!TypeOK'
  BY <1>1, <1>2, <1>3, red!ClockTypeOK, WidthAssumption, Pow2Assumption
<1>5. QED
  BY <1>4 DEF u_redmod!TypeOK, u_redmod!Word, u_redmod!Radix,
              red!TypeOK, red!Word, red!Radix

\* A clock keeps those of mulmod within theirs.
LEMMA MulmodTypeStep ==
  ASSUME TypeOK, Race, NEW w, Clock(w)
  PROVE  u_mulmod!TypeOK'
<1>1. mul!TypeOK /\ (mul!busy => ml_cnt # 0)
  BY DEF TypeOK, Race, u_mulmod!TypeOK, u_mulmod!Word, u_mulmod!Radix,
         u_mulmod!WideWord, u_mulmod!WideRadix, mul!TypeOK, mul!Word,
         mul!Radix, mul!WideWord, mul!WideRadix, mul!busy
<1>2. /\ mulmod_start \in BOOLEAN
      /\ a_reduced \in mul!Word /\ modulus \in mul!Word
  BY DEF TypeOK, Word, Radix, mul!Word, mul!Radix
<1>3. mul!Clock(mulmod_start, a_reduced, a_reduced, modulus)
  BY DEF Clock, u_mulmod!Clock, mul!Clock, u_mulmod!Rest, mul!Rest,
         u_mulmod!Latch, mul!Latch, u_mulmod!Iterate, mul!Iterate,
         u_mulmod!Finish, mul!Finish, u_mulmod!LastBit, mul!LastBit,
         u_mulmod!Step, mul!Step, u_mulmod!Added, mul!Added,
         u_mulmod!Doubled, mul!Doubled, u_mulmod!Msb, mul!Msb,
         u_mulmod!CondSub, mul!CondSub, u_mulmod!ShiftLeft, mul!ShiftLeft,
         u_mulmod!Radix, mul!Radix, u_mulmod!WideRadix, mul!WideRadix
<1>4. mul!TypeOK'
  BY <1>1, <1>2, <1>3, mul!ClockTypeOK, WidthAssumption, Pow2Assumption
<1>5. QED
  BY <1>4 DEF u_mulmod!TypeOK, u_mulmod!Word, u_mulmod!Radix,
              u_mulmod!WideWord, u_mulmod!WideRadix, mul!TypeOK, mul!Word,
              mul!Radix, mul!WideWord, mul!WideRadix

\* The registers of the peripheral proper.
LEMMA PeripheralTypeStep ==
  ASSUME TypeOK, NEW w \in Writes, Clock(w)
  PROVE  /\ cstate' \in {"C_IDLE", "C_REDUCE", "C_MUL", "C_DONE"}
         /\ operand' \in Word /\ modulus' \in Word /\ result' \in Word
         /\ a_reduced' \in Word
         /\ flag_busy' \in BOOLEAN /\ flag_done' \in BOOLEAN
         /\ flag_error' \in BOOLEAN
         /\ load_op_armed' \in BOOLEAN /\ load_mod_armed' \in BOOLEAN
         /\ redmod_start' \in BOOLEAN /\ mulmod_start' \in BOOLEAN
<1>1. 0 \in Word
  BY RadixFacts DEF Word
<1>2. redmod_out \in Word /\ mulmod_out \in Word
  BY DEF TypeOK, u_redmod!TypeOK, u_mulmod!TypeOK, Word, Radix,
         u_redmod!Word, u_redmod!Radix, u_mulmod!Word, u_mulmod!Radix
<1>3. /\ operand' \in Word /\ modulus' \in Word
      /\ flag_error' \in BOOLEAN /\ redmod_start' \in BOOLEAN
      /\ load_op_armed' \in BOOLEAN /\ load_mod_armed' \in BOOLEAN
  BY <1>1, WritesWords
     DEF Clock, TypeOK, Command, ResetCommand, StartCommand, LoadOpCommand,
         LoadModCommand, WriteOperand, WriteModulus, NoCommand, IsOperand,
         IsModulus
<1>4. /\ cstate' \in {"C_IDLE", "C_REDUCE", "C_MUL", "C_DONE"}
      /\ result' \in Word /\ a_reduced' \in Word
      /\ flag_busy' \in BOOLEAN /\ flag_done' \in BOOLEAN
      /\ mulmod_start' \in BOOLEAN
  BY <1>1, <1>2
     DEF Clock, TypeOK, Pipeline, PassReduced, PublishProduct,
         ClearPipeline, RefuseStart, AcceptStart, HoldPipeline
<1>5. QED
  BY <1>3, <1>4

\* The registers have their widths at power-up.
LEMMA TypeInit == Init => TypeOK
<1>1. 0 \in Word /\ 0 \in WideWord /\ 0 \in 0 .. WIDTH
  BY RadixFacts, WidthAssumption DEF Word, WideWord
<1>2. QED
  BY <1>1 DEF Init, u_redmod!Init, u_mulmod!Init, TypeOK,
     u_redmod!TypeOK, u_mulmod!TypeOK, Word, WideWord, Radix, WideRadix,
     u_redmod!Word, u_redmod!Radix, u_mulmod!Word, u_mulmod!Radix,
     u_mulmod!WideWord, u_mulmod!WideRadix

\* Every step of a host keeps them.
LEMMA TypeNext == TypeOK /\ Race /\ [Next]_accelVars => TypeOK'
<1> SUFFICES ASSUME TypeOK, Race, [Next]_accelVars PROVE TypeOK'
  OBVIOUS
<1>1. CASE HardReset
  <2>1. 0 \in Word /\ 0 \in WideWord /\ 0 \in 0 .. WIDTH
    BY RadixFacts, WidthAssumption DEF Word, WideWord
  <2>2. QED
    BY <1>1, <2>1 DEF HardReset, u_redmod!Reset, u_mulmod!Reset, TypeOK,
       u_redmod!TypeOK, u_mulmod!TypeOK, Word, WideWord, Radix, WideRadix,
       u_redmod!Word, u_redmod!Radix, u_mulmod!Word, u_mulmod!Radix,
       u_mulmod!WideWord, u_mulmod!WideRadix
<1>2. ASSUME NEW w \in Writes, Clock(w) PROVE TypeOK'
  BY <1>2, RedmodTypeStep, MulmodTypeStep, PeripheralTypeStep DEF TypeOK
<1>3. CASE UNCHANGED accelVars
  BY <1>3 DEF TypeOK, u_redmod!TypeOK, u_mulmod!TypeOK
<1>4. QED
  BY <1>1, <1>2, <1>3 DEF Next, HostClock

\* Every register of the peripheral and of its datapaths keeps its width,
\* whatever the host does: also with a zero modulus or an operand that is
\* not reduced, which RESET and a reload in flight can bring about.
THEOREM TypeCorrect == Spec => []TypeOK
BY RaceInit, RaceNext, TypeInit, TypeNext, PTL DEF Spec

-----------------------------------------------------------------------------

\* A clock keeps BUSY, DONE and ERROR coherent, whatever is written in it.
LEMMA StatusStep ==
  ASSUME StatusCoherent, NEW w, Clock(w)
  PROVE  StatusCoherent'
<1> USE DEF StatusCoherent
<1>1. Command(w) /\ Pipeline(w)
  BY DEF Clock
<1>2. flag_error' => (flag_error /\ ~IsReset(w) /\ ~IsStart(w))
                     \/ (IsStart(w) /\ modulus = 0)
  BY <1>1 DEF Command, ResetCommand, StartCommand, LoadOpCommand,
              LoadModCommand, WriteOperand, WriteModulus, NoCommand,
              IsStart, IsLoadOp, IsLoadMod, IsReset, Ctrl, IsOperand,
              IsModulus
<1>3. CASE PassReduced(w)
  BY <1>2, <1>3 DEF PassReduced, Reduced, IsStart
<1>4. CASE PublishProduct(w)
  BY <1>2, <1>4 DEF PublishProduct, Multiplied, IsStart
<1>5. CASE ClearPipeline(w)
  BY <1>2, <1>5 DEF ClearPipeline, IsStart
<1>6. CASE RefuseStart(w)
  BY <1>2, <1>6 DEF RefuseStart, IsStart
<1>7. CASE AcceptStart(w)
  BY <1>2, <1>7 DEF AcceptStart, IsStart
<1>8. CASE HoldPipeline(w)
  BY <1>2, <1>8 DEF HoldPipeline
<1>9. QED
  BY <1>1, <1>3, <1>4, <1>5, <1>6, <1>7, <1>8 DEF Pipeline

\* What STATUS says is coherent at every clock, whatever the host writes: a
\* driver that polls BUSY and then reads ERROR is not misled.
THEOREM StatusAlwaysCoherent == Spec => []StatusCoherent
<1>1. Init => StatusCoherent
  BY DEF Init, StatusCoherent
<1>2. StatusCoherent /\ [Next]_accelVars => StatusCoherent'
  <2> SUFFICES ASSUME StatusCoherent, [Next]_accelVars
               PROVE  StatusCoherent'
    OBVIOUS
  <2>1. CASE HardReset
    BY <2>1 DEF HardReset, StatusCoherent
  <2>2. CASE HostClock
    BY <2>2, StatusStep DEF HostClock
  <2>3. CASE UNCHANGED accelVars
    BY <2>3 DEF StatusCoherent
  <2>4. QED
    BY <2>1, <2>2, <2>3 DEF Next
<1>3. QED
  BY <1>1, <1>2, PTL DEF Spec

\* The pipeline never waits for a datapath that has nothing to do: it has
\* been told to start, it runs, be it for an operation of before, or its
\* pulse is up.
Awaited ==
  /\ cstate = "C_REDUCE" =>
       redmod_start \/ rd_state = "S_RUN" \/ redmod_done
  /\ cstate = "C_MUL" =>
       mulmod_start \/ ml_state = "S_RUN" \/ mulmod_done

\* A clock takes a reduction that is waited for one nearer to its pulse.
LEMMA ReductionCounts ==
  ASSUME Race, NEW w, Clock(w), ~redmod_done,
         redmod_start \/ rd_state = "S_RUN"
  PROVE  /\ rd_state' = "S_RUN" \/ redmod_done'
         /\ ReductionLeft \in Nat /\ ReductionLeft' = ReductionLeft - 1
<1>1. u_redmod!Clock(redmod_start, operand, modulus)
  BY DEF Clock
<1>2. PICK n \in 0 .. WIDTH : n = rd_cnt
  BY DEF Race
<1>3. CASE rd_state = "S_IDLE"
  <2>1. rd_state' = "S_RUN" /\ rd_cnt' = WIDTH /\ ~redmod_done'
    BY <1>1, <1>3
       DEF u_redmod!Clock, u_redmod!Rest, u_redmod!Latch, u_redmod!Iterate,
           u_redmod!Finish
  <2>2. ReductionLeft = WIDTH + 2 /\ ReductionLeft' = WIDTH + 1
    BY <1>3, <2>1 DEF ReductionLeft
  <2>3. QED
    BY <2>1, <2>2, WidthAssumption
<1>4. CASE rd_state = "S_RUN"
  <2>1. ReductionLeft = n + 1 /\ n # 0
    BY <1>2, <1>4 DEF ReductionLeft, Race
  <2>2. CASE n = 1
    <3>1. redmod_done'
      BY <1>1, <1>2, <1>4, <2>2
         DEF u_redmod!Clock, u_redmod!Rest, u_redmod!Latch, u_redmod!Iterate,
             u_redmod!Finish, u_redmod!LastBit
    <3>2. ReductionLeft' = 1
      BY <3>1 DEF ReductionLeft
    <3>3. QED
      BY <2>1, <2>2, <3>1, <3>2
  <2>3. CASE n # 1
    <3>1. /\ rd_state' = "S_RUN" /\ ~redmod_done'
          /\ rd_cnt' = n - 1
      BY <1>1, <1>2, <1>4, <2>3
         DEF u_redmod!Clock, u_redmod!Rest, u_redmod!Latch, u_redmod!Iterate,
             u_redmod!Finish, u_redmod!LastBit
    <3>2. ReductionLeft' = (n - 1) + 1
      BY <3>1 DEF ReductionLeft
    <3>3. QED
      BY <2>1, <3>1, <3>2, WidthAssumption
  <2>4. QED
    BY <2>2, <2>3
<1>5. QED
  BY <1>3, <1>4 DEF Race

\* A clock takes a multiplication that is waited for one nearer to its pulse.
LEMMA ProductCounts ==
  ASSUME Race, NEW w, Clock(w), ~mulmod_done,
         mulmod_start \/ ml_state = "S_RUN"
  PROVE  /\ ml_state' = "S_RUN" \/ mulmod_done'
         /\ ProductLeft \in Nat /\ ProductLeft' = ProductLeft - 1
<1>1. u_mulmod!Clock(mulmod_start, a_reduced, a_reduced, modulus)
  BY DEF Clock
<1>2. PICK n \in 0 .. WIDTH : n = ml_cnt
  BY DEF Race
<1>3. CASE ml_state = "S_IDLE"
  <2>1. ml_state' = "S_RUN" /\ ml_cnt' = WIDTH /\ ~mulmod_done'
    BY <1>1, <1>3
       DEF u_mulmod!Clock, u_mulmod!Rest, u_mulmod!Latch, u_mulmod!Iterate,
           u_mulmod!Finish
  <2>2. ProductLeft = WIDTH + 2 /\ ProductLeft' = WIDTH + 1
    BY <1>3, <2>1 DEF ProductLeft
  <2>3. QED
    BY <2>1, <2>2, WidthAssumption
<1>4. CASE ml_state = "S_RUN"
  <2>1. ProductLeft = n + 1 /\ n # 0
    BY <1>2, <1>4 DEF ProductLeft, Race
  <2>2. CASE n = 1
    <3>1. mulmod_done'
      BY <1>1, <1>2, <1>4, <2>2
         DEF u_mulmod!Clock, u_mulmod!Rest, u_mulmod!Latch, u_mulmod!Iterate,
             u_mulmod!Finish, u_mulmod!LastBit
    <3>2. ProductLeft' = 1
      BY <3>1 DEF ProductLeft
    <3>3. QED
      BY <2>1, <2>2, <3>1, <3>2
  <2>3. CASE n # 1
    <3>1. /\ ml_state' = "S_RUN" /\ ~mulmod_done'
          /\ ml_cnt' = n - 1
      BY <1>1, <1>2, <1>4, <2>3
         DEF u_mulmod!Clock, u_mulmod!Rest, u_mulmod!Latch, u_mulmod!Iterate,
             u_mulmod!Finish, u_mulmod!LastBit
    <3>2. ProductLeft' = (n - 1) + 1
      BY <3>1 DEF ProductLeft
    <3>3. QED
      BY <2>1, <3>1, <3>2, WidthAssumption
  <2>4. QED
    BY <2>2, <2>3
<1>5. QED
  BY <1>3, <1>4 DEF Race

\* Whatever is written, a clock takes an operation in flight nearer to the
\* fall of BUSY, and one that begins is given its time.
LEMMA BusyStep ==
  ASSUME Race, Awaited, StatusCoherent, NEW w, Clock(w)
  PROVE  /\ Awaited' /\ BusyLeft' \in 1 .. 2 * WIDTH + 4
         /\ flag_busy' =>
              BusyLeft' \in 1 .. (IF flag_busy THEN BusyLeft - 1
                                  ELSE 2 * WIDTH + 4)
<1> USE WidthAssumption
<1>1. /\ rd_cnt' \in 0 .. WIDTH /\ ml_cnt' \in 0 .. WIDTH
      /\ rd_cnt \in 0 .. WIDTH /\ ml_cnt \in 0 .. WIDTH
      /\ rd_state \in {"S_IDLE", "S_RUN"} /\ ml_state \in {"S_IDLE", "S_RUN"}
  BY RaceStep DEF Race
<1>2. PICK R \in Nat, M \in Nat :
        R = ReductionLeft' /\ M = ProductLeft' /\ R \in 1 .. WIDTH + 2
        /\ M \in 1 .. WIDTH + 2
  <2>1. /\ ReductionLeft' \in 1 .. WIDTH + 2
        /\ ProductLeft' \in 1 .. WIDTH + 2
    <3>1. PICK x \in 0 .. WIDTH, y \in 0 .. WIDTH : x = rd_cnt' /\ y = ml_cnt'
      BY <1>1
    <3>2. /\ ReductionLeft' \in {1, x + 1, WIDTH + 2}
          /\ ProductLeft' \in {1, y + 1, WIDTH + 2}
      BY <3>1 DEF ReductionLeft, ProductLeft
    <3>3. \A z \in 0 .. WIDTH : {1, z + 1, WIDTH + 2} \subseteq 1 .. WIDTH + 2
      OBVIOUS
    <3>4. QED
      BY <3>2, <3>3
  <2>2. QED
    BY <2>1
<1>3. SUFFICES /\ Awaited'
               /\ flag_busy' =>
                    BusyLeft' \in 1 .. (IF flag_busy THEN BusyLeft - 1
                                        ELSE 2 * WIDTH + 4)
  <2>1. BusyLeft' \in {R + WIDTH + 2, M}
    BY <1>2 DEF BusyLeft
  <2>2. R + WIDTH + 2 \in 1 .. 2 * WIDTH + 4 /\ M \in 1 .. 2 * WIDTH + 4
    <3>1. R \in 1 .. WIDTH + 2 /\ M \in 1 .. WIDTH + 2
      BY <1>2
    <3>2. QED
      BY <3>1
  <2>3. QED
    BY <2>1, <2>2
<1>4. CASE PassReduced(w)
  <2>1. cstate' = "C_MUL" /\ mulmod_start' /\ (flag_busy' => flag_busy)
    BY <1>4 DEF PassReduced
  <2>2. BusyLeft = 1 + WIDTH + 2
    BY <1>4 DEF PassReduced, Reduced, BusyLeft, ReductionLeft
  <2>3. BusyLeft' = M
    BY <1>2, <2>1 DEF BusyLeft
  <2>4. BusyLeft' \in 1 .. BusyLeft - 1
    BY <1>2, <2>2, <2>3
  <2>5. QED
    BY <2>1, <2>4 DEF Awaited
<1>5. CASE AcceptStart(w)
  <2>1. /\ cstate = "C_IDLE" /\ cstate' = "C_REDUCE" /\ modulus # 0
        /\ IsStart(w)
    BY <1>5 DEF AcceptStart, IsStart
  <2>2. redmod_start'
    BY <2>1
       DEF Clock, Command, ResetCommand, StartCommand, LoadOpCommand,
           LoadModCommand, WriteOperand, WriteModulus, NoCommand, IsStart,
           IsReset, IsLoadOp, IsLoadMod, IsOperand, IsModulus, Ctrl
  <2>3. ~flag_busy
    BY <2>1 DEF StatusCoherent
  <2>4. BusyLeft' \in 1 .. 2 * WIDTH + 4
    <3>1. BusyLeft' = R + WIDTH + 2
      BY <1>2, <2>1 DEF BusyLeft
    <3>2. R \in 1 .. WIDTH + 2
      BY <1>2
    <3>3. QED
      BY <3>1, <3>2
  <2>5. QED
    BY <2>1, <2>2, <2>3, <2>4 DEF Awaited
<1>6. CASE HoldPipeline(w)
  <2>1. /\ cstate' = cstate /\ flag_busy' = flag_busy
        /\ ~Reduced /\ ~Multiplied
    BY <1>6 DEF HoldPipeline
  <2>2. CASE cstate = "C_REDUCE"
    <3>1. ~redmod_done /\ (redmod_start \/ rd_state = "S_RUN")
      BY <2>1, <2>2 DEF Awaited, Reduced
    <3>2. Awaited'
      BY <2>1, <2>2, <3>1, ReductionCounts DEF Awaited
    <3>3. BusyLeft' \in 1 .. BusyLeft - 1
      <4>1. ReductionLeft \in Nat /\ ReductionLeft' = ReductionLeft - 1
        BY <3>1, ReductionCounts
      <4>2. /\ BusyLeft = ReductionLeft + WIDTH + 2
            /\ BusyLeft' = R + WIDTH + 2
        BY <1>2, <2>1, <2>2 DEF BusyLeft
      <4>3. QED
        BY <1>2, <4>1, <4>2
    <3>4. QED
      BY <2>1, <3>2, <3>3
  <2>3. CASE cstate = "C_MUL"
    <3>1. ~mulmod_done /\ (mulmod_start \/ ml_state = "S_RUN")
      BY <2>1, <2>3 DEF Awaited, Multiplied
    <3>2. Awaited'
      BY <2>1, <2>3, <3>1, ProductCounts DEF Awaited
    <3>3. BusyLeft' \in 1 .. BusyLeft - 1
      <4>1. ProductLeft \in Nat /\ ProductLeft' = ProductLeft - 1
        BY <3>1, ProductCounts
      <4>2. BusyLeft = ProductLeft /\ BusyLeft' = M
        BY <1>2, <2>1, <2>3 DEF BusyLeft
      <4>3. QED
        BY <1>2, <4>1, <4>2
    <3>4. QED
      BY <2>1, <3>2, <3>3
  <2>4. CASE cstate \notin {"C_REDUCE", "C_MUL"}
    BY <2>1, <2>4 DEF Awaited, StatusCoherent
  <2>5. QED
    BY <2>2, <2>3, <2>4
<1>7. CASE PublishProduct(w) \/ ClearPipeline(w) \/ RefuseStart(w)
  BY <1>7 DEF PublishProduct, ClearPipeline, RefuseStart, IsStart, Awaited
<1>8. QED
  BY <1>4, <1>5, <1>6, <1>7 DEF Clock, Pipeline

\* Whatever the host does, BUSY falls in time: nothing that it writes, no
\* reset of either kind and no operation left behind in a datapath, holds an
\* operation up.  It is the measure on which BusyEnds rests.
THEOREM BusyAlwaysEnds == Spec => BusyCountsDown
<1> DEFINE InTime ==
      flag_busy' => BusyLeft' \in 1 .. (IF flag_busy THEN BusyLeft - 1
                                        ELSE 2 * WIDTH + 4)
<1>1. Init => Awaited
  BY DEF Init, Awaited
<1>2. Race /\ Awaited /\ StatusCoherent /\ [Next]_accelVars =>
        Awaited' /\ [InTime]_accelVars
  <2> SUFFICES ASSUME Race, Awaited, StatusCoherent, [Next]_accelVars
               PROVE  Awaited' /\ [InTime]_accelVars
    OBVIOUS
  <2>1. CASE HardReset
    BY <2>1 DEF HardReset, Awaited
  <2>2. CASE HostClock
    BY <2>2, BusyStep DEF HostClock
  <2>3. CASE UNCHANGED accelVars
    BY <2>3 DEF Awaited
  <2>4. QED
    BY <2>1, <2>2, <2>3 DEF Next
<1>3. QED
  BY <1>1, <1>2, RaceInit, RaceNext, StatusAlwaysCoherent, PTL
     DEF Spec, BusyCountsDown

-----------------------------------------------------------------------------
(* A careful host.                                                         *)

\* The datapaths, seen as working on the job in flight.
RP == INSTANCE RedModProofs WITH
  state <- rd_state, x_reg <- rd_x, m_reg <- rd_m, r <- rd_r, cnt <- rd_cnt,
  result <- redmod_out, done <- redmod_done, op <- job
MP == INSTANCE MulModProofs WITH
  state <- ml_state, a_reg <- ml_a, b_reg <- ml_b, m_reg <- ml_m,
  acc <- ml_acc, cnt <- ml_cnt, result <- mulmod_out, done <- mulmod_done,
  f_a <- a_reduced, f_b <- a_reduced, f_m <- modulus, f_running <- TRUE

Job == [x : Word, m : Word \ {0}]

RedIdle == rd_state = "S_IDLE" /\ rd_cnt = 0 /\ ~redmod_start
RedFree == RedIdle /\ ~redmod_done
MulIdle == ml_state = "S_IDLE" /\ ml_cnt = 0 /\ ~mulmod_start
MulFree == MulIdle /\ ~mulmod_done

\* Nothing in flight.
AtRest ==
  /\ ~flag_busy
  /\ flag_done <=> (flag_error \/ cstate = "C_DONE")
  /\ RedFree /\ MulFree

\* The job in flight, with the modulus it was started with.
InFlight == flag_busy /\ job \in Job /\ modulus = job.m

Reducing ==
  /\ InFlight
  /\ MulFree
  /\ \/ /\ redmod_start /\ operand = job.x
        /\ rd_state = "S_IDLE" /\ rd_cnt = 0 /\ ~redmod_done
     \/ rd_state = "S_RUN" /\ ~redmod_start /\ ~redmod_done /\ RP!Running
     \/ RedIdle /\ redmod_done /\ redmod_out = job.x % job.m

Multiplying ==
  /\ InFlight
  /\ a_reduced = job.x % job.m
  /\ RedFree
  /\ \/ /\ mulmod_start
        /\ ml_state = "S_IDLE" /\ ml_cnt = 0 /\ ~mulmod_done
     \/ ml_state = "S_RUN" /\ ~mulmod_start /\ MP!Running
     \/ /\ MulIdle /\ mulmod_done
        /\ mulmod_out = (a_reduced * a_reduced) % modulus

CInv ==
  /\ cstate \in {"C_IDLE", "C_DONE"} => AtRest
  /\ cstate = "C_REDUCE" => Reducing
  /\ cstate = "C_MUL" => Multiplying

-----------------------------------------------------------------------------
(* The clocks of the datapaths, as the instances that carry the lemmas     *)
(* name them.                                                              *)

\* redmod takes its clock from the pipeline.
LEMMA RedClock ==
  ASSUME NEW w, Clock(w)
  PROVE  RP!Clock(redmod_start, operand, modulus)
BY DEF Clock, u_redmod!Clock, RP!Clock, u_redmod!Rest, RP!Rest,
       u_redmod!Latch, RP!Latch, u_redmod!Iterate, RP!Iterate,
       u_redmod!Finish, RP!Finish, u_redmod!LastBit, RP!LastBit,
       u_redmod!next_r, RP!next_r, u_redmod!Msb, RP!Msb,
       u_redmod!CondSub, RP!CondSub, u_redmod!ShiftLeft, RP!ShiftLeft,
       u_redmod!Radix, RP!Radix

\* mulmod takes its clock from the pipeline.
LEMMA MulClock ==
  ASSUME NEW w, Clock(w)
  PROVE  MP!Clock(mulmod_start, a_reduced, a_reduced, modulus)
BY DEF Clock, u_mulmod!Clock, MP!Clock, u_mulmod!Rest, MP!Rest,
       u_mulmod!Latch, MP!Latch, u_mulmod!Iterate, MP!Iterate,
       u_mulmod!Finish, MP!Finish, u_mulmod!LastBit, MP!LastBit,
       u_mulmod!Step, MP!Step, u_mulmod!Added, MP!Added,
       u_mulmod!Doubled, MP!Doubled, u_mulmod!Msb, MP!Msb,
       u_mulmod!CondSub, MP!CondSub, u_mulmod!ShiftLeft, MP!ShiftLeft,
       u_mulmod!Radix, MP!Radix, u_mulmod!WideRadix, MP!WideRadix

\* A datapath nobody starts stays free; its done pulse ends.
LEMMA RedRests ==
  ASSUME NEW w, Clock(w), RedIdle
  PROVE  rd_state' = "S_IDLE" /\ rd_cnt' = 0 /\ ~redmod_done'
BY RedClock DEF RedIdle, RP!Clock, RP!Rest, RP!Latch, RP!Iterate, RP!Finish

\* The multiplier too.
LEMMA MulRests ==
  ASSUME NEW w, Clock(w), MulIdle
  PROVE  ml_state' = "S_IDLE" /\ ml_cnt' = 0 /\ ~mulmod_done'
BY MulClock DEF MulIdle, MP!Clock, MP!Rest, MP!Latch, MP!Iterate, MP!Finish

\* What a careful host leaves alone while the peripheral is busy.
LEMMA BusyKept ==
  ASSUME NEW w, Clock(w), Careful(w), flag_busy, cstate # "C_IDLE"
  PROVE  /\ modulus' = modulus
         /\ flag_error' = flag_error
         /\ ~redmod_start'
         /\ ~IsReset(w) /\ ~IsStart(w)
BY DEF Clock, Careful, Command, ResetCommand, StartCommand, LoadOpCommand,
       LoadModCommand, WriteOperand, WriteModulus, NoCommand, IsStart

\* The types, as the lemmas about the datapaths want them.
LEMMA DatapathTypes ==
  ASSUME TypeOK, job \in Job
  PROVE  RP!UTypeOK /\ MP!FTypeOK
BY DEF TypeOK, Job, Word, Radix, u_redmod!TypeOK, u_redmod!Word,
       u_redmod!Radix, RP!UTypeOK, RP!TypeOK, RP!Word, RP!Radix, RP!Ops,
       u_mulmod!TypeOK, u_mulmod!Word, u_mulmod!Radix, u_mulmod!WideWord,
       u_mulmod!WideRadix, MP!FTypeOK, MP!TypeOK, MP!Word, MP!Radix,
       MP!WideWord, MP!WideRadix

-----------------------------------------------------------------------------
(* One clock in each phase, with what the service sees of it.              *)

\* A clock at rest leaves the peripheral at rest or accepts a START.
LEMMA RestStep ==
  ASSUME NEW w, Clock(w), cstate \in {"C_IDLE", "C_DONE"}, AtRest,
         StatusCoherent
  PROVE  \/ /\ cstate' \in {"C_IDLE", "C_DONE"} /\ AtRest'
            /\ ~(IsStart(w) /\ modulus # 0)
         \/ /\ IsStart(w) /\ modulus # 0
            /\ cstate' = "C_REDUCE" /\ flag_busy'
            /\ redmod_start' /\ operand' = operand /\ modulus' = modulus
            /\ rd_state' = "S_IDLE" /\ rd_cnt' = 0 /\ ~redmod_done'
            /\ MulFree'
<1>1. /\ rd_state' = "S_IDLE" /\ rd_cnt' = 0 /\ ~redmod_done'
      /\ ml_state' = "S_IDLE" /\ ml_cnt' = 0 /\ ~mulmod_done'
  BY RedRests, MulRests DEF AtRest, RedFree, MulFree
<1>2. ~Reduced /\ ~Multiplied
  BY DEF Reduced, Multiplied
<1>3. ~mulmod_start'
  BY <1>2 DEF Clock, Pipeline, PassReduced, PublishProduct, ClearPipeline,
              RefuseStart, AcceptStart, HoldPipeline
<1>4. CASE IsReset(w)
  <2>1. ~IsStart(w)
    BY <1>4 DEF IsStart
  <2>2. ~redmod_start' /\ ~flag_error'
    BY <1>4, <2>1
       DEF Clock, Command, ResetCommand, StartCommand, LoadOpCommand,
           LoadModCommand, WriteOperand, WriteModulus, NoCommand, IsLoadOp,
           IsLoadMod, IsOperand, IsModulus, IsReset, Ctrl
  <2>3. cstate' = "C_IDLE" /\ ~flag_busy' /\ ~flag_done'
    BY <1>2, <1>4, <2>1
       DEF Clock, Pipeline, PassReduced, PublishProduct, ClearPipeline,
           RefuseStart, AcceptStart, HoldPipeline
  <2>4. QED
    BY <1>1, <1>3, <2>1, <2>2, <2>3
       DEF AtRest, RedFree, RedIdle, MulFree, MulIdle
<1>5. CASE IsStart(w)
  <2>1. ~IsReset(w) /\ cstate = "C_IDLE"
    BY <1>5 DEF IsStart
  <2>2. StartCommand(w)
    BY <1>5
       DEF Clock, Command, ResetCommand, StartCommand, LoadOpCommand,
           LoadModCommand, WriteOperand, WriteModulus, NoCommand, IsLoadOp,
           IsLoadMod, IsOperand, IsModulus, IsReset, IsStart, Ctrl
  <2>3. RefuseStart(w) \/ AcceptStart(w)
    BY <1>2, <1>5, <2>1
       DEF Clock, Pipeline, PassReduced, PublishProduct, ClearPipeline,
           HoldPipeline
  <2>4. QED
    BY <1>1, <1>3, <1>5, <2>1, <2>2, <2>3
       DEF StartCommand, RefuseStart, AcceptStart, AtRest, RedFree, RedIdle,
           MulFree, MulIdle
<1>6. CASE ~IsReset(w) /\ ~IsStart(w)
  <2>1. ~redmod_start' /\ flag_error' = flag_error
    BY <1>6
       DEF Clock, Command, ResetCommand, StartCommand, LoadOpCommand,
           LoadModCommand, WriteOperand, WriteModulus, NoCommand
  <2>2. UNCHANGED <<cstate, flag_busy, flag_done>>
    BY <1>2, <1>6
       DEF Clock, Pipeline, PassReduced, PublishProduct, ClearPipeline,
           RefuseStart, AcceptStart, HoldPipeline
  <2>3. QED
    BY <1>1, <1>3, <1>6, <2>1, <2>2
       DEF AtRest, RedFree, RedIdle, MulFree, MulIdle
<1>7. QED
  BY <1>4, <1>5, <1>6

\* A clock of the reduction, the multiplier not yet told.
LEMMA ReduceStep ==
  ASSUME NEW w, Clock(w), Careful(w), TypeOK, cstate = "C_REDUCE", Reducing,
         job' = job
  PROVE  /\ result' = result /\ modulus' = modulus /\ InFlight'
         /\ ClocksLeft > 1 /\ ClocksLeft' = ClocksLeft - 1
         /\ \/ cstate' = "C_REDUCE" /\ Reducing'
            \/ cstate' = "C_MUL" /\ Multiplying'
<1> USE DEF InFlight
<1>1. /\ modulus' = modulus /\ ~redmod_start'
      /\ ~IsReset(w) /\ ~IsStart(w)
  BY BusyKept DEF Reducing
<1>2. ml_state' = "S_IDLE" /\ ml_cnt' = 0 /\ ~mulmod_done'
  BY MulRests DEF Reducing, MulFree
<1>3. ~Multiplied
  BY DEF Multiplied
<1>4. /\ job \in RP!Ops /\ RP!UTypeOK /\ WIDTH \in Nat /\ WIDTH > 0
      /\ rd_cnt \in Nat
  BY DatapathTypes, WidthAssumption
     DEF Reducing, Job, RP!Ops, RP!Word, RP!Radix, Word, Radix, TypeOK,
         u_redmod!TypeOK
<1>5. CASE ~Reduced
  <2>1. /\ UNCHANGED <<cstate, result, a_reduced, flag_busy, flag_done>>
        /\ ~mulmod_start'
    BY <1>1, <1>3, <1>5
       DEF Clock, Pipeline, PassReduced, PublishProduct, ClearPipeline,
           RefuseStart, AcceptStart, HoldPipeline
  <2>2. MulFree'
    BY <1>2, <2>1 DEF MulFree, MulIdle
  <2>3. CASE redmod_start /\ operand = job.x /\ rd_state = "S_IDLE"
    <3>1. RP!Latch(TRUE, job.x, job.m)
      BY <2>3, RedClock
         DEF Reducing, RP!Clock, RP!Rest, RP!Latch, RP!Iterate, RP!Finish
    <3>2. RP!Running'
      BY <1>4, <3>1, RP!LatchRuns, WidthAssumption, Pow2Assumption
    <3>3. rd_state' = "S_RUN" /\ ~redmod_done' /\ rd_cnt' = WIDTH
      BY <3>1 DEF RP!Latch
    <3>4. QED
      BY <1>1, <1>4, <2>1, <2>2, <2>3, <3>2, <3>3 DEF Reducing, ClocksLeft
  <2>4. CASE rd_state = "S_RUN" /\ ~redmod_start /\ RP!Running
    <3>1. CASE RP!Iterate
      <4>1. RP!Running'
        BY <1>4, <2>4, <3>1, RP!IterateRuns, WidthAssumption,
           Pow2Assumption
      <4>2. rd_state' = "S_RUN" /\ ~redmod_done' /\ rd_cnt' = rd_cnt - 1
        BY <2>4, <3>1 DEF RP!Iterate
      <4>3. QED
        BY <1>1, <1>4, <2>1, <2>2, <2>4, <4>1, <4>2
           DEF Reducing, ClocksLeft
    <3>2. CASE RP!Finish
      <4>1. rd_cnt = 1
        BY <3>2 DEF RP!Finish, RP!LastBit
      <4>2. redmod_out' = job.x % job.m
        BY <1>4, <2>4, <3>2, <4>1, RP!LastBitRemainder, WidthAssumption,
           Pow2Assumption DEF RP!Finish
      <4>3. rd_state' = "S_IDLE" /\ redmod_done' /\ rd_cnt' = 0
        BY <3>2, <4>1 DEF RP!Finish
      <4>4. QED
        BY <1>1, <1>4, <2>1, <2>2, <2>4, <4>1, <4>2, <4>3
           DEF Reducing, RedIdle, ClocksLeft
    <3>3. QED
      BY <2>4, <3>1, <3>2, RedClock DEF RP!Clock, RP!Rest, RP!Latch
  <2>5. QED
    BY <1>5, <2>3, <2>4 DEF Reducing, Reduced
<1>6. CASE Reduced
  <2>1. RedIdle /\ redmod_out = job.x % job.m
    BY <1>6 DEF Reducing, Reduced
  <2>2. PassReduced(w)
    BY <1>1, <1>3, <1>6
       DEF Clock, Pipeline, PublishProduct, ClearPipeline, RefuseStart,
           AcceptStart, HoldPipeline
  <2>3. RedFree'
    BY <1>1, <2>1, RedRests DEF RedFree, RedIdle
  <2>4. QED
    BY <1>1, <1>2, <1>4, <2>1, <2>2, <2>3
       DEF PassReduced, Reducing, Multiplying, RedIdle, ClocksLeft
<1>7. QED
  BY <1>5, <1>6

\* A clock of the multiplication; the last one publishes the square.
LEMMA MultiplyStep ==
  ASSUME NEW w, Clock(w), Careful(w), TypeOK, StatusCoherent,
         cstate = "C_MUL", Multiplying, job' = job
  PROVE  /\ modulus' = modulus
         /\ \/ /\ cstate' = "C_MUL" /\ Multiplying'
               /\ result' = result
               /\ ClocksLeft > 1 /\ ClocksLeft' = ClocksLeft - 1
            \/ /\ cstate' = "C_DONE" /\ AtRest'
               /\ result' = (job.x * job.x) % job.m
               /\ ClocksLeft = 1
<1> USE DEF InFlight
<1>1. /\ modulus' = modulus /\ ~redmod_start' /\ flag_error' = flag_error
      /\ ~IsReset(w) /\ ~IsStart(w)
  BY BusyKept DEF Multiplying
<1>2. RedFree'
  BY <1>1, RedRests DEF Multiplying, RedFree, RedIdle
<1>3. ~Reduced
  BY DEF Reduced
<1>4. /\ MP!FTypeOK /\ WIDTH \in Nat /\ WIDTH > 0
      /\ a_reduced \in MP!Word /\ modulus \in MP!Word
      /\ ml_cnt \in Nat
  BY DatapathTypes, WidthAssumption
     DEF Multiplying, MP!Word, MP!Radix, Word, Radix, TypeOK,
         u_mulmod!TypeOK
<1>5. job.x \in Nat /\ job.m \in Nat /\ job.m > 0
  BY RadixFacts DEF Multiplying, Job, Word
<1>6. CASE ~Multiplied
  <2>1. /\ UNCHANGED <<cstate, result, a_reduced, flag_busy, flag_done>>
        /\ ~mulmod_start'
    BY <1>1, <1>3, <1>6
       DEF Clock, Pipeline, PassReduced, PublishProduct, ClearPipeline,
           RefuseStart, AcceptStart, HoldPipeline
  <2>2. CASE mulmod_start /\ ml_state = "S_IDLE"
    <3>1. MP!Latch(TRUE, a_reduced, a_reduced, modulus)
      BY <2>2, MulClock
         DEF MP!Clock, MP!Rest, MP!Latch, MP!Iterate, MP!Finish
    <3>2. a_reduced < modulus
      BY <1>5, ModFacts DEF Multiplying
    <3>3. a_reduced' = a_reduced
      BY <2>1
    <3>4. MP!Running'
      BY <1>1, <1>4, <3>1, <3>2, <3>3, MP!LatchRuns, WidthAssumption,
         Pow2Assumption
    <3>5. ml_state' = "S_RUN" /\ ml_cnt' = WIDTH
      BY <3>1 DEF MP!Latch
    <3>6. QED
      BY <1>1, <1>2, <1>4, <2>1, <2>2, <3>4, <3>5
         DEF Multiplying, ClocksLeft
  <2>3. CASE ml_state = "S_RUN" /\ ~mulmod_start /\ MP!Running
    <3>1. CASE MP!Iterate
      <4>1. MP!Running'
        BY <1>1, <1>4, <2>1, <2>3, <3>1, MP!IterateRuns, WidthAssumption,
           Pow2Assumption
      <4>2. /\ ml_state' = "S_RUN" /\ ml_cnt' = ml_cnt - 1
            /\ ml_cnt > 0
        BY <2>3, <3>1, <1>4 DEF MP!Iterate, MP!Running
      <4>3. QED
        BY <1>1, <1>2, <1>4, <2>1, <2>3, <4>1, <4>2
           DEF Multiplying, ClocksLeft
    <3>2. CASE MP!Finish
      <4>1. ml_cnt = 1
        BY <3>2 DEF MP!Finish, MP!LastBit
      <4>2. mulmod_out' = (a_reduced * a_reduced) % modulus
        BY <1>4, <2>3, <3>2, <4>1, MP!LastBitEquiv, WidthAssumption,
           Pow2Assumption DEF MP!Finish, MP!Radix
      <4>3. ml_state' = "S_IDLE" /\ mulmod_done' /\ ml_cnt' = 0
        BY <3>2, <4>1 DEF MP!Finish
      <4>4. QED
        BY <1>1, <1>2, <1>4, <2>1, <2>3, <4>1, <4>2, <4>3
           DEF Multiplying, MulIdle, ClocksLeft
    <3>3. QED
      BY <2>3, <3>1, <3>2, MulClock DEF MP!Clock, MP!Rest, MP!Latch
  <2>4. QED
    BY <1>6, <2>2, <2>3 DEF Multiplying, Multiplied
<1>7. CASE Multiplied
  <2>1. MulIdle /\ mulmod_out = (a_reduced * a_reduced) % modulus
    BY <1>7 DEF Multiplying, Multiplied, MP!Running
  <2>2. PublishProduct(w)
    BY <1>1, <1>3, <1>7
       DEF Clock, Pipeline, PassReduced, ClearPipeline, RefuseStart,
           AcceptStart, HoldPipeline
  <2>3. result' = (job.x * job.x) % job.m
    BY <1>5, <2>1, <2>2, SquareOfRemainder DEF PublishProduct, Multiplying
  <2>4. MulFree'
    BY <2>1, <2>2, MulRests DEF PublishProduct, MulFree, MulIdle
  <2>5. ~flag_error
    BY DEF StatusCoherent
  <2>6. QED
    BY <1>1, <1>2, <2>1, <2>2, <2>3, <2>4, <2>5
       DEF PublishProduct, AtRest, MulIdle, ClocksLeft
<1>8. QED
  BY <1>6, <1>7

-----------------------------------------------------------------------------

\* What a careful host does, any host may do.
LEMMA CarefulIsHost == CarefulSpec => Spec
<1>1. CarefulInit => Init
  BY DEF CarefulInit
<1>2. [CarefulNext]_carefulVars => [Next]_accelVars
  BY DEF CarefulNext, CarefulClock, Next, HostClock, carefulVars
<1>3. QED
  BY <1>1, <1>2, PTL DEF CarefulSpec, Spec

\* Every register and every pulse at its reset value is a state of rest.
LEMMA ResetRests ==
  ASSUME HardReset
  PROVE  cstate' = "C_IDLE" /\ AtRest'
BY DEF HardReset, u_redmod!Reset, u_mulmod!Reset, AtRest, RedFree, RedIdle,
       MulFree, MulIdle

\* A START that is accepted puts its job in flight.
LEMMA StartsJob ==
  ASSUME NEW w, TypeOK, IsStart(w), modulus # 0, cstate' = "C_REDUCE",
         job' = [x |-> operand, m |-> modulus],
         flag_busy', redmod_start', operand' = operand, modulus' = modulus,
         rd_state' = "S_IDLE", rd_cnt' = 0, ~redmod_done', MulFree'
  PROVE  Reducing'
<1>1. job' \in Job /\ job'.x = operand' /\ job'.m = modulus'
  BY DEF TypeOK, Job
<1>2. InFlight'
  BY <1>1 DEF InFlight, Job
<1>3. QED
  BY <1>1, <1>2 DEF Reducing

\* The peripheral is at rest at power-up.
LEMMA CInvInit == CarefulInit => CInv
BY DEF CarefulInit, Init, u_redmod!Init, u_mulmod!Init, CInv, AtRest,
       RedFree, RedIdle, MulFree, MulIdle

\* Every step of a careful host keeps the operation in flight on course.
LEMMA CInvNext ==
  TypeOK /\ StatusCoherent /\ CInv /\ [CarefulNext]_carefulVars => CInv'
<1> SUFFICES ASSUME TypeOK, StatusCoherent, CInv, [CarefulNext]_carefulVars
             PROVE  CInv'
  OBVIOUS
<1>1. CASE HardReset
  BY <1>1, ResetRests DEF CInv
<1>2. ASSUME NEW w \in Writes, Careful(w), Clock(w),
             job' = IF IsReset(w) THEN NoJob
                    ELSE IF IsStart(w) /\ modulus # 0
                    THEN [x |-> operand, m |-> modulus]
                    ELSE job
      PROVE  CInv'
  <2>1. CASE cstate \in {"C_IDLE", "C_DONE"}
    <3>1. CASE cstate' \in {"C_IDLE", "C_DONE"} /\ AtRest'
      BY <3>1 DEF CInv
    <3>2. CASE ~(cstate' \in {"C_IDLE", "C_DONE"} /\ AtRest')
      <4>1. /\ IsStart(w) /\ modulus # 0
            /\ cstate' = "C_REDUCE" /\ flag_busy'
            /\ redmod_start' /\ operand' = operand /\ modulus' = modulus
            /\ rd_state' = "S_IDLE" /\ rd_cnt' = 0 /\ ~redmod_done'
            /\ MulFree'
        BY <1>2, <2>1, <3>2, RestStep DEF CInv
      <4>2. job' = [x |-> operand, m |-> modulus]
        BY <1>2, <4>1 DEF IsStart
      <4>3. Reducing'
        BY <4>1, <4>2, StartsJob
      <4>4. QED
        BY <4>1, <4>3 DEF CInv
    <3>3. QED
      BY <3>1, <3>2
  <2>2. CASE cstate = "C_REDUCE"
    <3>1. job' = job
      BY <1>2, <2>2, BusyKept DEF CInv, Reducing, InFlight
    <3>2. QED
      BY <1>2, <2>2, <3>1, ReduceStep DEF CInv
  <2>3. CASE cstate = "C_MUL"
    <3>1. job' = job
      BY <1>2, <2>3, BusyKept DEF CInv, Multiplying, InFlight
    <3>2. QED
      BY <1>2, <2>3, <3>1, MultiplyStep DEF CInv
  <2>4. QED
    BY <2>1, <2>2, <2>3 DEF TypeOK
<1>3. CASE UNCHANGED carefulVars
  <2>1. UNCHANGED <<RP!Running, MP!Running>>
    BY <1>3 DEF carefulVars, RP!Running, RP!Consumed, RP!Radix, MP!Running,
                MP!Accumulated, MP!Radix
  <2>2. UNCHANGED <<AtRest, InFlight, RedFree, RedIdle, MulFree, MulIdle>>
    BY <1>3 DEF carefulVars, AtRest, InFlight, RedFree, RedIdle, MulFree,
                MulIdle
  <2>3. UNCHANGED <<Reducing, Multiplying>>
    BY <1>3, <2>1, <2>2 DEF carefulVars, Reducing, Multiplying
  <2>4. QED
    BY <1>3, <2>2, <2>3 DEF carefulVars, CInv
<1>4. QED
  BY <1>1, <1>2, <1>3 DEF CarefulNext, CarefulClock

\* So it always is.
LEMMA CInvAlways == CarefulSpec => [](CInv /\ TypeOK /\ StatusCoherent)
BY CInvInit, CInvNext, CarefulIsHost, TypeCorrect, StatusAlwaysCoherent,
   PTL DEF CarefulSpec

\* A careful host never has a datapath started outside its precondition,
\* although neither checks it: the operand given to mulmod is reduced by
\* the very modulus that mulmod is given.
THEOREM PreconditionsKept == CarefulSpec => []PreconditionsMet
<1>1. CInv /\ TypeOK => PreconditionsMet
  <2> SUFFICES ASSUME CInv, TypeOK PROVE PreconditionsMet
    OBVIOUS
  <2>1. CASE cstate \in {"C_IDLE", "C_DONE"}
    BY <2>1 DEF CInv, AtRest, RedFree, RedIdle, MulFree, MulIdle,
                PreconditionsMet
  <2>2. CASE cstate = "C_REDUCE"
    <3>1. modulus \in Nat /\ modulus # 0 /\ ~mulmod_start
      BY <2>2, RadixFacts
         DEF CInv, Reducing, InFlight, Job, Word, MulFree, MulIdle
    <3>2. QED
      BY <3>1 DEF PreconditionsMet
  <2>3. CASE cstate = "C_MUL"
    <3>1. /\ job.x \in Nat /\ job.m \in Nat /\ job.m > 0
          /\ modulus = job.m /\ a_reduced = job.x % job.m
      BY <2>3, RadixFacts DEF CInv, Multiplying, InFlight, Job, Word
    <3>2. QED
      BY <3>1, ModFacts DEF PreconditionsMet
  <2>4. QED
    BY <2>1, <2>2, <2>3 DEF TypeOK
<1>2. QED
  BY <1>1, CInvAlways, PTL

-----------------------------------------------------------------------------

\* The accelerator implements the squaring service for every WIDTH: what it
\* answers is the square of the operand loaded at the START modulo the
\* modulus of that moment, 2*WIDTH + 4 clocks later whatever the two are.
THEOREM ServiceImplemented == CarefulSpec => ServiceSpec
<1> USE DEF Service!vars
<1>1. CarefulInit => Service!Init
  BY DEF CarefulInit, Init, Service!Init, Service!NoJob, NoJob, Phase,
         ClocksLeft
<1>2. /\ TypeOK /\ TypeOK' /\ StatusCoherent /\ CInv
      /\ [CarefulNext]_carefulVars
      => [Service!Next]_Service!vars
  <2> SUFFICES ASSUME TypeOK, TypeOK', StatusCoherent, CInv,
                      [CarefulNext]_carefulVars
               PROVE  [Service!Next]_Service!vars
    OBVIOUS
  <2> USE DEF Service!Next
  <2>1. operand' \in Word /\ modulus' \in Word
    BY DEF TypeOK
  <2>2. CASE HardReset /\ job' = NoJob
    BY <2>2 DEF HardReset, Service!Clear, Service!NoJob, NoJob, Phase,
       ClocksLeft
  <2>3. ASSUME NEW w \in Writes, Careful(w), Clock(w),
               job' = IF IsReset(w) THEN NoJob
                      ELSE IF IsStart(w) /\ modulus # 0
                      THEN [x |-> operand, m |-> modulus]
                      ELSE job
        PROVE  [Service!Next]_Service!vars
    <3>1. CASE cstate \in {"C_IDLE", "C_DONE"}
      <4>1. AtRest /\ ClocksLeft = 0 /\ Phase # "busy"
        BY <3>1 DEF CInv, AtRest, ClocksLeft, Phase
      <4>2. ~Reduced /\ ~Multiplied
        BY <3>1 DEF Reduced, Multiplied
      <4>3. CASE IsReset(w)
        BY <2>3, <4>2, <4>3
           DEF Clock, Command, ResetCommand, StartCommand, LoadOpCommand,
               LoadModCommand, WriteOperand, WriteModulus, NoCommand,
               IsStart, IsLoadOp, IsLoadMod, IsOperand, IsModulus, IsReset,
               Ctrl, Pipeline, PassReduced, PublishProduct, ClearPipeline,
               RefuseStart, AcceptStart, HoldPipeline, Service!Clear,
               Service!NoJob, NoJob, Phase, ClocksLeft
      <4>4. CASE IsStart(w)
        <5>1. ~IsReset(w) /\ cstate = "C_IDLE"
          BY <4>4 DEF IsStart
        <5>2. StartCommand(w)
          BY <2>3, <4>4
             DEF Clock, Command, ResetCommand, StartCommand, LoadOpCommand,
                 LoadModCommand, WriteOperand, WriteModulus, NoCommand,
                 IsLoadOp, IsLoadMod, IsOperand, IsModulus, IsReset,
                 IsStart, Ctrl
        <5>3. RefuseStart(w) \/ AcceptStart(w)
          BY <2>3, <4>2, <4>4, <5>1
             DEF Clock, Pipeline, PassReduced, PublishProduct,
                 ClearPipeline, HoldPipeline
        <5>4. Phase \in {"ready", "refused"}
          BY <4>1, <5>1 DEF AtRest, Phase
        <5>5. CASE AcceptStart(w)
          BY <2>3, <4>4, <5>1, <5>2, <5>4, <5>5
             DEF StartCommand, AcceptStart, Service!Start, Phase,
                 ClocksLeft
        <5>6. CASE RefuseStart(w)
          BY <2>3, <4>1, <5>1, <5>2, <5>4, <5>6
             DEF StartCommand, RefuseStart, Service!Refuse, Phase,
                 ClocksLeft
        <5>7. QED
          BY <5>3, <5>5, <5>6
      <4>5. CASE ~IsReset(w) /\ ~IsStart(w)
        <5>1. flag_error' = flag_error
          BY <2>3, <4>5
             DEF Clock, Command, ResetCommand, StartCommand, LoadOpCommand,
                 LoadModCommand, WriteOperand, WriteModulus, NoCommand
        <5>2. UNCHANGED <<cstate, result, flag_busy, flag_done>>
          BY <2>3, <4>2, <4>5
             DEF Clock, Pipeline, PassReduced, PublishProduct,
                 ClearPipeline, RefuseStart, AcceptStart, HoldPipeline
        <5>3. UNCHANGED <<Phase, ClocksLeft, job>>
          BY <2>3, <3>1, <4>5, <5>1, <5>2 DEF Phase, ClocksLeft
        <5>4. QED
          BY <2>1, <4>1, <5>2, <5>3 DEF Service!Load
      <4>6. QED
        BY <4>3, <4>4, <4>5
    <3>2. CASE cstate = "C_REDUCE"
      <4>1. job' = job
        BY <2>3, <3>2, BusyKept DEF CInv, Reducing, InFlight
      <4>2. /\ result' = result /\ modulus' = modulus /\ InFlight'
            /\ ClocksLeft > 1 /\ ClocksLeft' = ClocksLeft - 1
        BY <2>3, <3>2, <4>1, ReduceStep DEF CInv
      <4>3. Phase = "busy" /\ Phase' = "busy"
        BY <3>2, <4>2 DEF CInv, Reducing, InFlight, Phase
      <4>4. QED
        BY <2>1, <4>1, <4>2, <4>3 DEF Service!Work
    <3>3. CASE cstate = "C_MUL"
      <4>1. job' = job
        BY <2>3, <3>3, BusyKept DEF CInv, Multiplying, InFlight
      <4>2. Phase = "busy"
        BY <3>3 DEF CInv, Multiplying, InFlight, Phase
      <4>3. modulus' = modulus
        BY <2>3, <3>3, <4>1, MultiplyStep DEF CInv
      <4>4. CASE /\ cstate' = "C_MUL" /\ Multiplying' /\ result' = result
                 /\ ClocksLeft > 1 /\ ClocksLeft' = ClocksLeft - 1
        <5>1. Phase' = "busy"
          BY <4>4 DEF Multiplying, InFlight, Phase
        <5>2. QED
          BY <2>1, <4>1, <4>2, <4>3, <4>4, <5>1 DEF Service!Work
      <4>5. CASE /\ cstate' = "C_DONE" /\ AtRest'
                 /\ result' = (job.x * job.x) % job.m /\ ClocksLeft = 1
        <5>1. ~flag_error /\ flag_error' = flag_error
          BY <2>3, <3>3, BusyKept
             DEF StatusCoherent, CInv, Multiplying, InFlight
        <5>2. Phase' = "done" /\ ClocksLeft' = 0
          BY <4>5, <5>1 DEF AtRest, Phase, ClocksLeft
        <5>3. QED
          BY <2>1, <4>1, <4>2, <4>3, <4>5, <5>2 DEF Service!Answer
      <4>6. QED
        BY <2>3, <3>3, <4>1, <4>4, <4>5, MultiplyStep DEF CInv
    <3>4. QED
      BY <3>1, <3>2, <3>3 DEF TypeOK
  <2>4. CASE UNCHANGED carefulVars
    <3>1. UNCHANGED <<Phase, ClocksLeft>>
      BY <2>4 DEF carefulVars, Phase, ClocksLeft
    <3>2. UNCHANGED Service!vars
      BY <2>4, <3>1 DEF carefulVars
    <3>3. QED
      BY <3>2
  <2>5. QED
    BY <2>2, <2>3, <2>4 DEF CarefulNext, CarefulClock
<1>3. QED
  BY <1>1, <1>2, CInvAlways, PTL DEF CarefulSpec, ServiceSpec, Service!Spec

=============================================================================
