------------------------------ MODULE BusWrap ------------------------------
(***************************************************************************)
(* blindsig-soc/rtl/blindsig_bus_wrap.v: the accelerator behind the        *)
(* valid/ready handshake of the processor's bus.  The parameter b is what  *)
(* the bus carries in this clock: [valid, off, wdata, wstrb], off being    *)
(* the word offset and wstrb the set of byte lanes written.  A byte lane   *)
(* is one bit wide here, so wdata is a word of WIDTH lanes, WIDTH >= 4.    *)
(***************************************************************************)
EXTENDS BlindsigAccel

VARIABLE bus_ready

ASSUME LanesAssumption == WIDTH >= 4

Lanes == 0 .. WIDTH - 1
Lane(word, i) == (word \div Pow2[i]) % 2

\* The register at an offset: bus_addr is mem_addr[4:0], so every eighth word
\* is the same register.
Registers == <<"CTRL", "STATUS", "OPERAND", "RESULT", "MODULUS">>
Reg(off) == IF off % 8 < 5 THEN Registers[(off % 8) + 1] ELSE "NONE"

CtrlBit == [i \in 0 .. 3 |-> <<"START", "RESET", "LOAD_OP", "LOAD_MOD">>[i + 1]]

\* The accelerator takes the whole word, whichever lanes are strobed.
PortWrite(off, word) ==
  CASE Reg(off) = "CTRL" ->
         CtrlWrite({CtrlBit[i] : i \in {j \in 0 .. 3 : Lane(word, j) = 1}})
    [] Reg(off) = "OPERAND" -> OperandWrite(word)
    [] Reg(off) = "MODULUS" -> ModulusWrite(word)
    [] OTHER -> NoWrite

\* The enable lasts as long as the transaction.
accel_wen_Level(b) == b.valid /\ b.wstrb # {}

\* bus_valid && !bus_ready && |bus_wstrb
accel_wen(b) == b.valid /\ ~bus_ready /\ b.wstrb # {}

\* {29'b0, flag_error, flag_done, flag_busy}
StatusWord ==
  (IF Status.busy THEN 1 ELSE 0) + (IF Status.done THEN 2 ELSE 0)
    + (IF Status.error THEN 4 ELSE 0)

rdata(off) ==
  CASE Reg(off) = "STATUS" -> StatusWord
    [] Reg(off) = "RESULT" -> ResultWord
    [] OTHER -> 0

WrapClock(b) ==
  /\ Clock(IF accel_wen(b) THEN PortWrite(b.off, b.wdata) ELSE NoWrite)
  /\ bus_ready' = (b.valid /\ ~bus_ready)

WrapReset == HardReset /\ bus_ready' = FALSE

WrapInit == Init /\ bus_ready = FALSE

=============================================================================
