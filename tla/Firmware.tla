------------------------------ MODULE Firmware ------------------------------
(***************************************************************************)
(* Programs on the SoC.  Two are the integration programs: blindsig-soc/fw *)
(* (start.S and test_accel.c) and blindsig-soc/fw-rust (main.rs).  Each is *)
(* a table of its accesses outside the RAM, in order; between two of them  *)
(* the processor fetches instructions and uses the stack, any accesses to  *)
(* the RAM in any number up to MaxGap clocks.  A string is printed by one  *)
(* store, not by one for each character.  The third is "wild": any other   *)
(* program, which makes any access at any time.                            *)
(***************************************************************************)
EXTENDS SocTop, SequencesExt

CONSTANTS
  Programs,      \* what may be in the RAM: "c", "rust", "wild"
  RamAccesses,   \* the fetches and stack accesses of the first two
  WildRequests,  \* the accesses of the third
  MaxEffects,    \* how often it prints or writes the accelerator (a bound)
  MaxGap,        \* clocks before the next access outside the RAM (a bound)
  MaxResets      \* how often resetn falls on the first two (a bound)

ASSUME FirmwareAssumption ==
  /\ RamAccesses \subseteq {r \in Requests : r.sel = 0}
  /\ WildRequests \subseteq Requests
  /\ MaxEffects \in Nat /\ MaxGap \in Nat /\ MaxResets \in Nat

VARIABLES
  fw,       \* the program
  pc,       \* the point of it the processor has reached
  answer,   \* what it read from RESULT
  gap, resets,
  before    \* lines on the console when the program started, kept for the
            \* properties

fwVars == <<fw, pc, answer, gap, resets, before>>
firmwareVars == <<socVars, fwVars>>

-----------------------------------------------------------------------------
(* The program.                                                            *)

\* What a string is on the console.
Text == [banner |-> 1, result |-> 2, value |-> 3, PASS |-> 4, FAIL |-> 5]

Store(sel, off, value) ==
  [sel |-> sel, off |-> off, wdata |-> value, wstrb |-> Lanes]
Load(off) == [sel |-> 2, off |-> off, wdata |-> 0, wstrb |-> {}]
PrintLine(text) == Store(1, 0, text)
WriteCtrl(bit) == Store(2, 0, bit)

START == 1
RESET == 2
LOAD_OP == 4
LOAD_MOD == 8

Operand == 10
Modulus == 7

\* The access made at each point.
Accesses ==
  [banner |-> PrintLine(Text.banner), reset |-> WriteCtrl(RESET),
   armMod |-> WriteCtrl(LOAD_MOD), modulus |-> Store(2, 4, Modulus),
   armOp |-> WriteCtrl(LOAD_OP), operand |-> Store(2, 2, Operand),
   start |-> WriteCtrl(START), poll |-> Load(1), status |-> Load(1),
   read |-> Load(3), label |-> PrintLine(Text.result),
   value |-> PrintLine(Text.value), pass |-> PrintLine(Text.PASS),
   fail |-> PrintLine(Text.FAIL), halt |-> Store(1, 0, HALT)]

ASSUME AccessesAssumption ==
  \A p \in DOMAIN Accesses : Accesses[p] \in Requests

\* Straight-line code.
Following ==
  [banner |-> "reset", reset |-> "armMod", armMod |-> "modulus",
   modulus |-> "armOp", armOp |-> "operand", operand |-> "start",
   start |-> "poll", read |-> "label", label |-> "value", pass |-> "halt",
   fail |-> "halt", halt |-> "hang"]

Busy(status) == status % 2 = 1
Done(status) == (status \div 2) % 2 = 1
Error(status) == (status \div 4) % 2 = 1

\* The C program reads STATUS once for both flags; compute() in Rust only
\* asks for the error.
StatusOk(status) == ~Error(status) /\ (fw = "c" => Done(status))

\* The mask STATUS_BUSY is dropped: while (REG_STATUS)
After_NoMask(word) ==
  CASE pc = "poll"   -> IF word # 0 THEN "poll" ELSE "status"
    [] pc = "status" -> IF StatusOk(word) THEN "read" ELSE "fail"
    [] pc = "value"  -> IF answer = 2 THEN "pass" ELSE "fail"
    [] OTHER         -> Following[pc]

\* The poll loop is left after one look.
After_NoPoll(word) ==
  CASE pc = "poll"   -> "status"
    [] pc = "status" -> IF StatusOk(word) THEN "read" ELSE "fail"
    [] pc = "value"  -> IF answer = 2 THEN "pass" ELSE "fail"
    [] OTHER         -> Following[pc]

\* Where the program goes when its access has been answered with word.
After(word) ==
  CASE pc = "poll"   -> IF Busy(word) THEN "poll" ELSE "status"
    [] pc = "status" -> IF StatusOk(word) THEN "read" ELSE "fail"
    [] pc = "value"  -> IF answer = 2 THEN "pass" ELSE "fail"
    [] OTHER         -> Following[pc]

-----------------------------------------------------------------------------
(* The processor: its memory port, driven by the program.                  *)

DataAccess ==
  /\ pc # "hang"
  /\ Ask(Accesses[pc])
  /\ gap' = 0
  /\ UNCHANGED <<pc, answer>>

\* Executing, fetching, using the stack.
Between ==
  /\ pc = "hang" \/ gap < MaxGap
  /\ Quiet \/ \E r \in RamAccesses : Ask(r)
  /\ gap' = IF pc = "hang" THEN gap ELSE gap + 1
  /\ UNCHANGED <<pc, answer>>

Waiting == Wait /\ UNCHANGED <<pc, answer, gap>>

Answered ==
  /\ Take
  /\ IF mem_req.sel = 0 THEN UNCHANGED <<pc, answer>>
     ELSE /\ pc' = After(mem_rdata)
          /\ answer' = IF pc = "read" THEN mem_rdata ELSE answer
  /\ UNCHANGED gap

Executes == fw # "wild" /\ (DataAccess \/ Between \/ Waiting \/ Answered)

RunsWild ==
  /\ fw = "wild"
  /\ CpuPort({r \in WildRequests :
                Writes(r) /\ r.sel \in {1, 2} =>
                  Len(console) + Len(port) < MaxEffects})
  /\ UNCHANGED <<pc, answer, gap>>

FirmwareClock ==
  /\ Executes \/ RunsWild
  /\ Devices
  /\ UNCHANGED <<fw, resets, before>>

\* The program starts over; the RAM and the console are as they were.
StartsOver ==
  /\ fw # "wild" /\ resets < MaxResets
  /\ resets' = resets + 1
  /\ pc' = "banner" /\ answer' = 0 /\ gap' = 0
  /\ before' = Len(console')
  /\ UNCHANGED fw

FirmwareReset == SocReset /\ (StartsOver \/ (fw = "wild" /\ UNCHANGED fwVars))

FirmwareInit ==
  /\ SocInit
  /\ fw \in Programs
  /\ pc = "banner" /\ answer = 0 /\ gap = 0
  /\ resets = 0 /\ before = 0

FirmwareNext == FirmwareClock \/ FirmwareReset

FirmwareSpec == FirmwareInit /\ [][FirmwareNext]_firmwareVars

\* The clock does not stop.
FairFirmwareSpec == FirmwareSpec /\ WF_firmwareVars(FirmwareClock)

-----------------------------------------------------------------------------

FirmwareTypeOK ==
  /\ SocTypeOK
  /\ fw \in Programs /\ pc \in DOMAIN Accesses \cup {"hang"}
  /\ answer \in Word /\ gap \in 0 .. MaxGap /\ resets \in 0 .. MaxResets

Report == <<Text.banner, Text.result, Text.value, Text.PASS>>

(* What the program has printed since it started is its report, as far as  *)
(* it has got, and all of it once it has halted: no line is printed twice  *)
(* or lost on the bus, and never FAIL, also when the reset that started it *)
(* hit the accelerator in an operation (test_accel.c:5, 88-94).            *)
ReportRight ==
  LET printed == SubSeq(console, before + 1, Len(console))
  IN  fw # "wild" => /\ IsPrefix(printed, Report)
                     /\ pc = "hang" => printed = Report

(* The program ends, and stays there: it leaves its poll loop and halts at *)
(* whatever speed the processor runs, once resetn stays up (start.S:20-27). *)
Halts == <>[](fw = "wild" \/ (simio_halt /\ pc = "hang"))

=============================================================================
