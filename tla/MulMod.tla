------------------------------- MODULE MulMod -------------------------------
(***************************************************************************)
(* The constant-time bit-serial modular multiplier,                        *)
(* blindsig-rtl/rtl/mulmod.v.  The variables are its registers; every      *)
(* action is what one rising edge of clk does, with the input ports as     *)
(* parameters.  Exactly one of Rest, Latch, Iterate and Finish is enabled  *)
(* at an edge, so Clock is the always block of the module.                 *)
(*                                                                         *)
(* cnt is a plain number: CW = clog2(WIDTH) + 1 bits hold every value it   *)
(* takes, WIDTH down to 0.                                                 *)
(***************************************************************************)
EXTENDS Words

VARIABLES
  state,    \* S_IDLE or S_RUN
  a_reg,    \* multiplicand of the operation in flight
  b_reg,    \* multiplier, shifted left each clock
  m_reg,    \* modulus
  acc,      \* accumulator, WIDTH + 1 bits
  cnt,      \* bits of b left to consume
  result,
  done      \* one-clock pulse

vars == <<state, a_reg, b_reg, m_reg, acc, cnt, result, done>>

\* assign busy = (state == S_RUN)
busy == state = "S_RUN"

TypeOK ==
  /\ state \in {"S_IDLE", "S_RUN"}
  /\ a_reg \in Word
  /\ b_reg \in Word
  /\ m_reg \in Word
  /\ acc \in WideWord
  /\ cnt \in 0 .. WIDTH
  /\ result \in Word
  /\ done \in BOOLEAN

-----------------------------------------------------------------------------
(* The combinational step.                                                 *)

\* The subtract after the doubling is lost.
Doubled_Unreduced == (2 * acc) % WideRadix

\* red1 = 2*acc mod m
Doubled == CondSub((2 * acc) % WideRadix, m_reg)

\* An add whose reduction compares with > instead of >=.
Added_LeavesModulus ==
  LET add == (Doubled + a_reg) % WideRadix
  IN  IF add > m_reg THEN add - m_reg ELSE add

\* red2 = (red1 + a) mod m
Added == CondSub((Doubled + a_reg) % WideRadix, m_reg)

\* step = b_reg[WIDTH-1] ? red2 : red1
Step == IF Msb(b_reg) = 1 THEN Added ELSE Doubled

-----------------------------------------------------------------------------
(* One action per case of the always block.                                *)

\* A run that stops once no bit of the multiplier is left to add: correct,
\* but its length tells how many low zeros b has.
LastBit_EarlyExit == cnt = 1 \/ b_reg = 0

\* One bit too many.
LastBit_OffByOne == cnt = 0

\* cnt == 1
LastBit == cnt = 1

\* !rst_n, asynchronous
Reset ==
  /\ state' = "S_IDLE"
  /\ a_reg' = 0
  /\ b_reg' = 0
  /\ m_reg' = 0
  /\ acc' = 0
  /\ cnt' = 0
  /\ result' = 0
  /\ done' = FALSE

\* S_IDLE without start: only the done pulse ends
Rest(start) ==
  /\ state = "S_IDLE"
  /\ ~start
  /\ done' = FALSE
  /\ UNCHANGED <<state, a_reg, b_reg, m_reg, acc, cnt, result>>

\* S_IDLE with start: the operands are captured
Latch(start, a, b, m) ==
  /\ state = "S_IDLE"
  /\ start
  /\ state' = "S_RUN"
  /\ a_reg' = a
  /\ b_reg' = b
  /\ m_reg' = m
  /\ acc' = 0
  /\ cnt' = WIDTH
  /\ done' = FALSE
  /\ UNCHANGED result

\* S_RUN before the last bit; start is not looked at
Iterate ==
  /\ state = "S_RUN"
  /\ ~LastBit
  /\ acc' = Step
  /\ b_reg' = ShiftLeft(b_reg)
  /\ cnt' = cnt - 1
  /\ done' = FALSE
  /\ UNCHANGED <<state, a_reg, m_reg, result>>

\* S_RUN on the last bit: the result is published with the done pulse
Finish ==
  /\ state = "S_RUN"
  /\ LastBit
  /\ acc' = Step
  /\ b_reg' = ShiftLeft(b_reg)
  /\ cnt' = cnt - 1
  /\ result' = Step % Radix
  /\ done' = TRUE
  /\ state' = "S_IDLE"
  /\ UNCHANGED <<a_reg, m_reg>>

\* posedge clk with rst_n high
Clock(start, a, b, m) ==
  \/ Rest(start)
  \/ Latch(start, a, b, m)
  \/ Iterate
  \/ Finish

Init ==
  /\ state = "S_IDLE"
  /\ a_reg = 0
  /\ b_reg = 0
  /\ m_reg = 0
  /\ acc = 0
  /\ cnt = 0
  /\ result = 0
  /\ done = FALSE

=============================================================================
