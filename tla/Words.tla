------------------------------- MODULE Words -------------------------------
(***************************************************************************)
(* Machine words of the two bit-serial datapaths (blindsig-rtl/rtl).  A    *)
(* register or wire of n bits is a number below Pow2[n]; an assignment     *)
(* that drops high bits is a remainder by Pow2[n].                         *)
(*                                                                         *)
(* Pow2, the table of powers of two, is a constant and not written 2^n:    *)
(* the two equations assumed of it are all that the proofs need, and the   *)
(* provers know nothing of exponentiation.                                 *)
(***************************************************************************)
EXTENDS Integers

CONSTANTS
  WIDTH,   \* parameter WIDTH of mulmod and redmod
  Pow2     \* Pow2[i] = 2^i for every width in use, WIDTH + 1 the largest

\* b_reg[WIDTH-2:0] is a part select, so a width of 1 does not elaborate.
ASSUME WidthAssumption == WIDTH \in Nat /\ WIDTH >= 2

ASSUME Pow2Assumption ==
  /\ Pow2 \in [0 .. WIDTH + 1 -> Nat \ {0}]
  /\ Pow2[0] = 1
  /\ \A i \in 0 .. WIDTH : Pow2[i + 1] = 2 * Pow2[i]

Radix == Pow2[WIDTH]            \* a WIDTH-bit word is below it
WideRadix == Pow2[WIDTH + 1]    \* a wire [WIDTH:0] is below it

Word == 0 .. Radix - 1
WideWord == 0 .. WideRadix - 1

\* x_reg[WIDTH-1], the bit a datapath consumes in this clock.
Msb(w) == IF w >= Pow2[WIDTH - 1] THEN 1 ELSE 0

\* {x_reg[WIDTH-2:0], 1'b0}: the shift drops the consumed bit.
ShiftLeft(w) == (2 * w) % Radix

\* (x >= m_ext) ? x - m_ext : x, the conditional subtract both datapaths
\* reduce with.
CondSub(x, m) == IF x >= m THEN x - m ELSE x

=============================================================================
