---------------------------- MODULE MulModFormal ----------------------------
(***************************************************************************)
(* mulmod under the environment of its SymbiYosys harness (the `ifdef      *)
(* FORMAL part of mulmod.v): the operands of the operation in flight are   *)
(* shadowed, and a start is only given with m > 0 and a < m.  b is         *)
(* unconstrained, as in the harness.  Beyond the harness, rst_n may fall   *)
(* at any clock and not only at the first.                                 *)
(***************************************************************************)
EXTENDS MulMod

VARIABLES
  f_a, f_b, f_m,   \* operands of the operation in flight
  f_running        \* one was started since the last reset or answer

fvars == <<state, a_reg, b_reg, m_reg, acc, cnt, result, done,
           f_a, f_b, f_m, f_running>>

FTypeOK ==
  /\ TypeOK
  /\ f_a \in Word
  /\ f_b \in Word
  /\ f_m \in Word
  /\ f_running \in BOOLEAN

FInit ==
  /\ Init
  /\ f_a = 0 /\ f_b = 0 /\ f_m = 0
  /\ f_running = FALSE

\* !rst_n.  f_a, f_b and f_m have no reset in the harness; f_running says
\* when they mean something, so clearing them loses nothing.
FReset ==
  /\ Reset
  /\ f_a' = 0 /\ f_b' = 0 /\ f_m' = 0
  /\ f_running' = FALSE

\* The preconditions the harness assumes of an operation about to run.
Precondition(a, b, m) == m > 0 /\ a < m

\* state == S_IDLE && start
FStart(a, b, m) ==
  /\ Precondition(a, b, m)
  /\ Latch(TRUE, a, b, m)
  /\ f_a' = a
  /\ f_b' = b
  /\ f_m' = m
  /\ f_running' = TRUE

\* any other clock
FClock ==
  /\ \/ Rest(FALSE)
     \/ Iterate
     \/ Finish
  /\ f_running' = (f_running /\ ~done)
  /\ UNCHANGED <<f_a, f_b, f_m>>

FNext ==
  \/ FReset
  \/ ~busy /\ \E a, b, m \in Word : FStart(a, b, m)
  \/ FClock

FSpec == FInit /\ [][FNext]_fvars

-----------------------------------------------------------------------------
(* The harness asserts that the accumulator is reduced at every clock of   *)
(* a run, with the two facts about the operands that make it inductive.    *)
ReductionInvariant ==
  state = "S_RUN" => m_reg # 0 /\ a_reg < m_reg /\ acc < m_reg

(* The harness asserts, when done pulses, that the result is reduced and   *)
(* equals (a*b) mod m of the shadowed operands.                            *)
EquivInvariant ==
  done /\ f_running => result < f_m /\ result = (f_a * f_b) % f_m

(* mulmod keeps the promise of a constant-time unit: (a*b) mod m, exactly  *)
(* WIDTH clocks after the start, whatever the operands are.                *)
Unit == INSTANCE ConstTimeUnit WITH
  LATENCY <- WIDTH,
  Ops <- [a : Word, b : Word, m : Word],
  NoOp <- [a |-> 0, b |-> 0, m |-> 0],
  Value <- LAMBDA o : (o.a * o.b) % o.m,
  op <- [a |-> f_a, b |-> f_b, m |-> f_m],
  left <- cnt,
  out <- result,
  ready <- done

UnitSpec == Unit!Spec

=============================================================================
