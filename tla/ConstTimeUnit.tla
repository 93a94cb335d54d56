--------------------------- MODULE ConstTimeUnit ---------------------------
(***************************************************************************)
(* What a datapath of the accelerator promises, whatever it computes: an   *)
(* operation accepted while the unit is free is answered exactly LATENCY   *)
(* clocks later by a one-clock pulse next to Value of that operation, and  *)
(* the unit takes nothing else on in between.  This is the header comment  *)
(* of mulmod.v and of redmod.v ("exactly WIDTH clocks after `start`,       *)
(* independent of" the operands, result "valid when `done`"), as a         *)
(* specification for the two modules to implement.                         *)
(***************************************************************************)
EXTENDS Naturals

CONSTANTS
  LATENCY,     \* clocks from acceptance to the answer
  Ops,         \* the operations a user may ask for
  NoOp,        \* what op is before the first of them
  Value(_)     \* the answer to an operation

VARIABLES
  op,      \* the operation accepted last
  left,    \* clocks until its answer, 0 when the unit is free
  out,     \* the answer shown
  ready    \* the pulse

vars == <<op, left, out, ready>>

Init ==
  /\ op = NoOp
  /\ left = 0
  /\ out = 0
  /\ ready = FALSE

Accept ==
  /\ left = 0
  /\ op' \in Ops
  /\ left' = LATENCY
  /\ ready' = FALSE
  /\ UNCHANGED out

Work ==
  /\ left > 1
  /\ left' = left - 1
  /\ ready' = FALSE
  /\ UNCHANGED <<op, out>>

Answer ==
  /\ left = 1
  /\ left' = 0
  /\ out' = Value(op)
  /\ ready' = TRUE
  /\ UNCHANGED op

EndPulse ==
  /\ left = 0
  /\ ready' = FALSE
  /\ UNCHANGED <<op, left, out>>

\* The hardware reset abandons whatever is in flight.
Abandon ==
  /\ left' = 0
  /\ out' = 0
  /\ ready' = FALSE
  /\ op' = NoOp

Next == Accept \/ Work \/ Answer \/ EndPulse \/ Abandon

Spec == Init /\ [][Next]_vars

=============================================================================
