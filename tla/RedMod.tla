------------------------------- MODULE RedMod -------------------------------
(***************************************************************************)
(* The constant-time bit-serial modular reduction, blindsig-rtl/rtl/       *)
(* redmod.v.  The variables are its registers; every action is what one    *)
(* rising edge of clk does, with the input ports as parameters.  As in     *)
(* MulMod, exactly one of Rest, Latch, Iterate and Finish is enabled.      *)
(***************************************************************************)
EXTENDS Words

VARIABLES
  state,    \* S_IDLE or S_RUN
  x_reg,    \* operand, shifted left each clock
  m_reg,    \* modulus
  r,        \* remainder so far, WIDTH bits
  cnt,      \* bits of x left to consume
  result,
  done      \* one-clock pulse

vars == <<state, x_reg, m_reg, r, cnt, result, done>>

\* assign busy = (state == S_RUN)
busy == state = "S_RUN"

TypeOK ==
  /\ state \in {"S_IDLE", "S_RUN"}
  /\ x_reg \in Word
  /\ m_reg \in Word
  /\ r \in Word
  /\ cnt \in 0 .. WIDTH
  /\ result \in Word
  /\ done \in BOOLEAN

-----------------------------------------------------------------------------

\* A compare with > instead of >=: a remainder equal to the modulus stays.
next_r_LeavesModulus ==
  LET shifted == 2 * r + Msb(x_reg)
  IN  (IF shifted > m_reg THEN shifted - m_reg ELSE shifted) % Radix

\* shifted = {r, x_reg[WIDTH-1]} in WIDTH + 1 bits, less the modulus once if
\* it is not below it, and back to WIDTH bits.
next_r == CondSub(2 * r + Msb(x_reg), m_reg) % Radix

\* A run whose length depends on the operand.
LastBit_EarlyExit == cnt = 1 \/ (x_reg = 0 /\ r = 0)

\* One bit too many.
LastBit_OffByOne == cnt = 0

\* cnt == 1
LastBit == cnt = 1

\* !rst_n, asynchronous
Reset ==
  /\ state' = "S_IDLE"
  /\ x_reg' = 0
  /\ m_reg' = 0
  /\ r' = 0
  /\ cnt' = 0
  /\ result' = 0
  /\ done' = FALSE

\* S_IDLE without start: only the done pulse ends
Rest(start) ==
  /\ state = "S_IDLE"
  /\ ~start
  /\ done' = FALSE
  /\ UNCHANGED <<state, x_reg, m_reg, r, cnt, result>>

\* S_IDLE with start: the operand is captured
Latch(start, x, m) ==
  /\ state = "S_IDLE"
  /\ start
  /\ state' = "S_RUN"
  /\ x_reg' = x
  /\ m_reg' = m
  /\ r' = 0
  /\ cnt' = WIDTH
  /\ done' = FALSE
  /\ UNCHANGED result

\* S_RUN before the last bit; start is not looked at
Iterate ==
  /\ state = "S_RUN"
  /\ ~LastBit
  /\ r' = next_r
  /\ x_reg' = ShiftLeft(x_reg)
  /\ cnt' = cnt - 1
  /\ done' = FALSE
  /\ UNCHANGED <<state, m_reg, result>>

\* S_RUN on the last bit
Finish ==
  /\ state = "S_RUN"
  /\ LastBit
  /\ r' = next_r
  /\ x_reg' = ShiftLeft(x_reg)
  /\ cnt' = cnt - 1
  /\ result' = next_r
  /\ done' = TRUE
  /\ state' = "S_IDLE"
  /\ UNCHANGED m_reg

\* posedge clk with rst_n high
Clock(start, x, m) ==
  \/ Rest(start)
  \/ Latch(start, x, m)
  \/ Iterate
  \/ Finish

Init ==
  /\ state = "S_IDLE"
  /\ x_reg = 0
  /\ m_reg = 0
  /\ r = 0
  /\ cnt = 0
  /\ result = 0
  /\ done = FALSE

=============================================================================
