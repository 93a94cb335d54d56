--------------------------- MODULE SquareService ---------------------------
(***************************************************************************)
(* What the accelerator promises a driver that waits for BUSY to fall      *)
(* before it resets or changes the modulus (the header of                  *)
(* blindsig_accel.v: "Write in an operand and a modulus, set the START     *)
(* bit, then read back (operand^2 mod modulus)", "a fixed number of cycles *)
(* independent of the operand values").  No datapath and no pipeline: an   *)
(* operation is a job that is answered LATENCY clocks after its START.     *)
(***************************************************************************)
EXTENDS Naturals

CONSTANTS
  Words,          \* what a register holds
  LATENCY,        \* clocks from the START to the answer
  Value(_)        \* the answer to a job

VARIABLES
  x, m,           \* the operand and the modulus loaded
  phase,          \* "ready", "busy", "done" or "refused"
  job,            \* the operation started last
  left,           \* clocks until its answer
  answer

vars == <<x, m, phase, job, left, answer>>

NoJob == [x |-> 0, m |-> 0]

Init ==
  /\ x = 0 /\ m = 0
  /\ phase = "ready"
  /\ job = NoJob
  /\ left = 0
  /\ answer = 0

\* The registers may be loaded while nothing is in flight.
Load ==
  /\ phase # "busy"
  /\ x' \in Words
  /\ m' \in Words
  /\ UNCHANGED <<phase, job, left, answer>>

Start ==
  /\ phase \in {"ready", "refused"}
  /\ m # 0
  /\ phase' = "busy"
  /\ job' = [x |-> x, m |-> m]
  /\ left' = LATENCY
  /\ UNCHANGED <<x, m, answer>>

\* There is no remainder by zero.
Refuse ==
  /\ phase \in {"ready", "refused"}
  /\ m = 0
  /\ phase' = "refused"
  /\ UNCHANGED <<x, m, job, left, answer>>

\* The operand was taken at the START: the next one may be loaded already.
Work ==
  /\ phase = "busy" /\ left > 1
  /\ left' = left - 1
  /\ x' \in Words
  /\ UNCHANGED <<m, phase, job, answer>>

Answer ==
  /\ phase = "busy" /\ left = 1
  /\ phase' = "done"
  /\ left' = 0
  /\ answer' = Value(job)
  /\ x' \in Words
  /\ UNCHANGED <<m, job>>

\* RESET of a peripheral at rest, or the reset of the whole system.
Clear ==
  /\ x' = 0 /\ m' = 0
  /\ phase' = "ready"
  /\ job' = NoJob
  /\ left' = 0
  /\ answer' = 0

Next == Load \/ Start \/ Refuse \/ Work \/ Answer \/ Clear

Spec == Init /\ [][Next]_vars

=============================================================================
