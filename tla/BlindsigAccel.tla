--------------------------- MODULE BlindsigAccel ---------------------------
(***************************************************************************)
(* The accelerator peripheral, blindsig-rtl/rtl/blindsig_accel.v, with the *)
(* two datapaths it instantiates (32 bits wide in the code, WIDTH here).   *)
(*                                                                         *)
(* One step is one rising edge of clk for the three modules at once.  Each *)
(* reads the registers of the others as they are before the edge, so the   *)
(* datapaths see the start pulses one clock after they are raised, and the *)
(* peripheral sees a done pulse one clock after the datapath raises it.    *)
(* The bus port is the parameter w, the write of this clock.               *)
(*                                                                         *)
(* The always block assigns some registers twice: by the command and then  *)
(* by the pipeline, and the last assignment wins.  Command holds the       *)
(* registers only commands touch, Pipeline those both touch, with the      *)
(* pipeline's assignment taken first.                                      *)
(***************************************************************************)
EXTENDS Words

VARIABLES
  cstate,                          \* C_IDLE, C_REDUCE, C_MUL or C_DONE
  operand, modulus, result,
  a_reduced,                       \* operand mod modulus
  flag_busy, flag_done, flag_error,
  load_op_armed, load_mod_armed,
  redmod_start, mulmod_start,      \* one-clock pulses to the datapaths
  \* registers of u_redmod
  rd_state, rd_x, rd_m, rd_r, rd_cnt, redmod_out, redmod_done,
  \* registers of u_mulmod
  ml_state, ml_a, ml_b, ml_m, ml_acc, ml_cnt, mulmod_out, mulmod_done

commandVars == <<operand, modulus, flag_error, load_op_armed, load_mod_armed,
                 redmod_start>>
pipelineVars == <<cstate, result, a_reduced, flag_busy, flag_done,
                  mulmod_start>>
rdVars == <<rd_state, rd_x, rd_m, rd_r, rd_cnt, redmod_out, redmod_done>>
mlVars == <<ml_state, ml_a, ml_b, ml_m, ml_acc, ml_cnt, mulmod_out,
            mulmod_done>>
accelVars == <<commandVars, pipelineVars, rdVars, mlVars>>

u_redmod == INSTANCE RedMod WITH
  state <- rd_state, x_reg <- rd_x, m_reg <- rd_m, r <- rd_r, cnt <- rd_cnt,
  result <- redmod_out, done <- redmod_done

u_mulmod == INSTANCE MulMod WITH
  state <- ml_state, a_reg <- ml_a, b_reg <- ml_b, m_reg <- ml_m,
  acc <- ml_acc, cnt <- ml_cnt, result <- mulmod_out, done <- mulmod_done

-----------------------------------------------------------------------------
(* The bus port.  A write to any other offset changes nothing: NoWrite.    *)

CtrlBits == {"START", "RESET", "LOAD_OP", "LOAD_MOD"}

NoWrite == [reg |-> "NONE"]
CtrlWrite(bits) == [reg |-> "CTRL", bits |-> bits]
OperandWrite(word) == [reg |-> "OPERAND", word |-> word]
ModulusWrite(word) == [reg |-> "MODULUS", word |-> word]

\* The CTRL bits written in this clock.
Ctrl(w) == IF w.reg = "CTRL" THEN w.bits ELSE {}

\* The commands, by priority: RESET, a START the pipeline is free for,
\* LOAD_OP, LOAD_MOD.  A START that is not accepted hides no LOAD.
IsReset(w) == "RESET" \in Ctrl(w)

\* START is taken whatever the pipeline is doing.
IsStart_Ungated(w) == "START" \in Ctrl(w) /\ ~IsReset(w)

IsStart(w) == "START" \in Ctrl(w) /\ ~IsReset(w) /\ cstate = "C_IDLE"
IsLoadOp(w) == "LOAD_OP" \in Ctrl(w) /\ ~IsReset(w) /\ ~IsStart(w)
IsLoadMod(w) ==
  "LOAD_MOD" \in Ctrl(w) /\ ~IsReset(w) /\ ~IsStart(w) /\ ~IsLoadOp(w)

IsOperand(w) == w.reg = "OPERAND" /\ load_op_armed
IsModulus(w) == w.reg = "MODULUS" /\ load_mod_armed

\* The combinational read mux.
Status == [busy |-> flag_busy, done |-> flag_done, error |-> flag_error]
ResultWord == result

-----------------------------------------------------------------------------
(* Registers that only commands and data writes assign.                    *)

ResetCommand(w) ==
  /\ IsReset(w)
  /\ operand' = 0
  /\ modulus' = 0
  /\ flag_error' = FALSE
  /\ load_op_armed' = FALSE
  /\ load_mod_armed' = FALSE
  /\ redmod_start' = FALSE

\* An error START leaves the flag that an earlier one raised.
StartCommand_StickyError(w) ==
  /\ IsStart(w)
  /\ flag_error' = (flag_error \/ modulus = 0)
  /\ redmod_start' = (modulus # 0)
  /\ load_op_armed' = FALSE
  /\ load_mod_armed' = FALSE
  /\ UNCHANGED <<operand, modulus>>

\* A zero modulus is refused with the error flag.
StartCommand(w) ==
  /\ IsStart(w)
  /\ flag_error' = (modulus = 0)
  /\ redmod_start' = (modulus # 0)
  /\ load_op_armed' = FALSE
  /\ load_mod_armed' = FALSE
  /\ UNCHANGED <<operand, modulus>>

LoadOpCommand(w) ==
  /\ IsLoadOp(w)
  /\ load_op_armed' = TRUE
  /\ redmod_start' = FALSE
  /\ UNCHANGED <<operand, modulus, flag_error, load_mod_armed>>

LoadModCommand(w) ==
  /\ IsLoadMod(w)
  /\ load_mod_armed' = TRUE
  /\ redmod_start' = FALSE
  /\ UNCHANGED <<operand, modulus, flag_error, load_op_armed>>

WriteOperand(w) ==
  /\ IsOperand(w)
  /\ operand' = w.word
  /\ load_op_armed' = FALSE
  /\ redmod_start' = FALSE
  /\ UNCHANGED <<modulus, flag_error, load_mod_armed>>

WriteModulus(w) ==
  /\ IsModulus(w)
  /\ modulus' = w.word
  /\ load_mod_armed' = FALSE
  /\ redmod_start' = FALSE
  /\ UNCHANGED <<operand, flag_error, load_op_armed>>

\* No write, one to a register that is not armed, or CTRL bits with no
\* command among them.
NoCommand(w) ==
  /\ ~IsReset(w) /\ ~IsStart(w) /\ ~IsLoadOp(w) /\ ~IsLoadMod(w)
  /\ ~IsOperand(w) /\ ~IsModulus(w)
  /\ redmod_start' = FALSE
  /\ UNCHANGED <<operand, modulus, flag_error, load_op_armed, load_mod_armed>>

Command(w) ==
  \/ ResetCommand(w)
  \/ StartCommand(w)
  \/ LoadOpCommand(w)
  \/ LoadModCommand(w)
  \/ WriteOperand(w)
  \/ WriteModulus(w)
  \/ NoCommand(w)

-----------------------------------------------------------------------------
(* Registers of the reduce -> multiply pipeline.                           *)

\* The reduction is taken for finished once its start pulse is gone.
Reduced_NoWait == cstate = "C_REDUCE" /\ ~redmod_start

Reduced == cstate = "C_REDUCE" /\ redmod_done
Multiplied == cstate = "C_MUL" /\ mulmod_done

\* The reduced operand goes on to the multiplier.  A RESET in this clock
\* clears the flags and the result, and does not stop the pipeline.
PassReduced(w) ==
  /\ Reduced
  /\ a_reduced' = redmod_out
  /\ mulmod_start' = TRUE
  /\ cstate' = "C_MUL"
  /\ IF IsReset(w)
     THEN flag_busy' = FALSE /\ flag_done' = FALSE /\ result' = 0
     ELSE UNCHANGED <<flag_busy, flag_done, result>>

\* The product is published, over a RESET in this clock too.
PublishProduct(w) ==
  /\ Multiplied
  /\ result' = mulmod_out
  /\ flag_busy' = FALSE
  /\ flag_done' = TRUE
  /\ cstate' = "C_DONE"
  /\ mulmod_start' = FALSE
  /\ a_reduced' = IF IsReset(w) THEN 0 ELSE a_reduced

\* RESET clears the peripheral.  The datapaths have no such input: one that
\* is running runs on.
ClearPipeline(w) ==
  /\ ~Reduced /\ ~Multiplied
  /\ IsReset(w)
  /\ cstate' = "C_IDLE"
  /\ result' = 0
  /\ a_reduced' = 0
  /\ flag_busy' = FALSE
  /\ flag_done' = FALSE
  /\ mulmod_start' = FALSE

RefuseStart(w) ==
  /\ IsStart(w)
  /\ modulus = 0
  /\ flag_busy' = FALSE
  /\ flag_done' = TRUE
  /\ mulmod_start' = FALSE
  /\ UNCHANGED <<cstate, result, a_reduced>>

AcceptStart(w) ==
  /\ IsStart(w)
  /\ modulus # 0
  /\ flag_busy' = TRUE
  /\ flag_done' = FALSE
  /\ cstate' = "C_REDUCE"
  /\ mulmod_start' = FALSE
  /\ UNCHANGED <<result, a_reduced>>

HoldPipeline(w) ==
  /\ ~Reduced /\ ~Multiplied
  /\ ~IsReset(w) /\ ~IsStart(w)
  /\ mulmod_start' = FALSE
  /\ UNCHANGED <<cstate, result, a_reduced, flag_busy, flag_done>>

Pipeline(w) ==
  \/ PassReduced(w)
  \/ PublishProduct(w)
  \/ ClearPipeline(w)
  \/ RefuseStart(w)
  \/ AcceptStart(w)
  \/ HoldPipeline(w)

-----------------------------------------------------------------------------

\* posedge clk with rst_n high
Clock(w) ==
  /\ Command(w)
  /\ Pipeline(w)
  /\ u_redmod!Clock(redmod_start, operand, modulus)
  /\ u_mulmod!Clock(mulmod_start, a_reduced, a_reduced, modulus)

\* !rst_n
HardReset ==
  /\ cstate' = "C_IDLE"
  /\ operand' = 0
  /\ modulus' = 0
  /\ result' = 0
  /\ a_reduced' = 0
  /\ flag_busy' = FALSE
  /\ flag_done' = FALSE
  /\ flag_error' = FALSE
  /\ load_op_armed' = FALSE
  /\ load_mod_armed' = FALSE
  /\ redmod_start' = FALSE
  /\ mulmod_start' = FALSE
  /\ u_redmod!Reset
  /\ u_mulmod!Reset

Init ==
  /\ cstate = "C_IDLE"
  /\ operand = 0
  /\ modulus = 0
  /\ result = 0
  /\ a_reduced = 0
  /\ flag_busy = FALSE
  /\ flag_done = FALSE
  /\ flag_error = FALSE
  /\ load_op_armed = FALSE
  /\ load_mod_armed = FALSE
  /\ redmod_start = FALSE
  /\ mulmod_start = FALSE
  /\ u_redmod!Init
  /\ u_mulmod!Init

TypeOK ==
  /\ cstate \in {"C_IDLE", "C_REDUCE", "C_MUL", "C_DONE"}
  /\ operand \in Word /\ modulus \in Word /\ result \in Word
  /\ a_reduced \in Word
  /\ flag_busy \in BOOLEAN /\ flag_done \in BOOLEAN /\ flag_error \in BOOLEAN
  /\ load_op_armed \in BOOLEAN /\ load_mod_armed \in BOOLEAN
  /\ redmod_start \in BOOLEAN /\ mulmod_start \in BOOLEAN
  /\ u_redmod!TypeOK
  /\ u_mulmod!TypeOK

\* Clocks until BUSY falls, if nobody resets the peripheral before: those
\* until the pulse of the reduction is taken, then those of the product.
ReductionLeft ==
  IF redmod_done THEN 1 ELSE IF rd_state = "S_RUN" THEN rd_cnt + 1
  ELSE WIDTH + 2
ProductLeft ==
  IF mulmod_done THEN 1 ELSE IF ml_state = "S_RUN" THEN ml_cnt + 1
  ELSE WIDTH + 2
BusyLeft ==
  IF cstate = "C_REDUCE" THEN ReductionLeft + WIDTH + 2 ELSE ProductLeft

=============================================================================
