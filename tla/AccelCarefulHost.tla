-------------------------- MODULE AccelCarefulHost --------------------------
(***************************************************************************)
(* The accelerator under a host that neither resets it nor changes the     *)
(* modulus while BUSY is up, as a driver that polls BUSY does.  It may     *)
(* still write anything else at any time: a START in flight or after DONE, *)
(* CTRL words with several bits, the next operand, data nobody armed.      *)
(*                                                                         *)
(* job shadows the operation in flight; it is not a register.              *)
(***************************************************************************)
EXTENDS AccelAnyHost

VARIABLE job

carefulVars == <<accelVars, job>>

NoJob == [x |-> 0, m |-> 0]

Careful(w) == flag_busy => ~IsReset(w) /\ ~IsModulus(w)

CarefulClock ==
  \E w \in Writes :
    /\ Careful(w)
    /\ Clock(w)
    /\ job' = IF IsReset(w) THEN NoJob
              ELSE IF IsStart(w) /\ modulus # 0
              THEN [x |-> operand, m |-> modulus]
              ELSE job

CarefulInit == Init /\ job = NoJob

CarefulNext ==
  \/ HardReset /\ job' = NoJob
  \/ CarefulClock

CarefulSpec == CarefulInit /\ [][CarefulNext]_carefulVars

-----------------------------------------------------------------------------
(* The accelerator implements the squaring service: the answer is the      *)
(* square of the operand that was loaded when START was written, modulo    *)
(* the modulus of that moment, and DONE comes 2*WIDTH + 4 clocks after it  *)
(* whatever the two are.                                                   *)
Phase ==
  IF flag_busy THEN "busy"
  ELSE IF flag_error THEN "refused"
  ELSE IF flag_done THEN "done"
  ELSE "ready"

ClocksLeft ==
  IF cstate = "C_REDUCE"
  THEN IF redmod_start THEN 2 * WIDTH + 4 ELSE WIDTH + 3 + rd_cnt
  ELSE IF cstate = "C_MUL"
  THEN IF mulmod_start THEN WIDTH + 2 ELSE ml_cnt + 1
  ELSE 0

Service == INSTANCE SquareService WITH
  Words <- Word,
  LATENCY <- 2 * WIDTH + 4,
  Value <- LAMBDA j : (j.x * j.x) % j.m,
  x <- operand,
  m <- modulus,
  phase <- Phase,
  left <- ClocksLeft,
  answer <- result

ServiceSpec == Service!Spec

=============================================================================
