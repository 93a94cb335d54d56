----------------------------- MODULE TestBench -----------------------------
(***************************************************************************)
(* blindsig-soc/tb/tb_soc.v around the SoC, and the verdict that the       *)
(* Makefile reads off its log.  The bench holds resetn low, then lets the  *)
(* processor run until the firmware halts, the processor traps or a number *)
(* of clocks has gone by.  The firmware in the RAM is one of the two       *)
(* integration programs, or "wild": any other, which may access anything   *)
(* at any time and may make the processor trap.                            *)
(***************************************************************************)
EXTENDS Firmware

CONSTANTS
  CYCLES,       \* of the watchdog, 100000 in the code
  ResetEdges    \* clocks for which resetn is low, 10 in the code

ASSUME BenchAssumption == CYCLES \in Nat /\ ResetEdges \in Nat \ {0}

\* The clocks in which an integration program has halted: those of the reset,
\* its fourteen accesses, each after up to MaxGap others of three clocks, and
\* the operation, from the answer to its START on.
ClocksNeeded == ResetEdges + 14 * (3 * (MaxGap + 1)) + (2 * WIDTH + 3)

\* The watchdog leaves the programs this time: with the numbers in the code,
\* for up to 2378 accesses to the RAM in a row.
ASSUME WatchdogAssumption == ClocksNeeded <= CYCLES

VARIABLES
  resetn, cycle_count,
  trap,       \* the output of the processor
  log,        \* the last lines of the log: what the bench has displayed
  finished    \* $finish

benchVars == <<firmwareVars, resetn, cycle_count, trap, log, finished>>

-----------------------------------------------------------------------------

\* The clocks in which the processor waits for the bus are not counted.
CountClock_NotWaiting ==
  cycle_count' = cycle_count + (IF mem_valid THEN 0 ELSE 1)

CountClock == cycle_count' = cycle_count + 1

\* The three conditions are looked at in one clock, each with its display.
Displays ==
  {line \in {"TIMEOUT", "HALTED", "TRAP"} :
     CASE line = "TIMEOUT" -> cycle_count >= CYCLES
       [] line = "HALTED"  -> resetn /\ simio_halt
       [] line = "TRAP"    -> resetn /\ trap}

Watch ==
  /\ CountClock
  /\ log' = log \cup Displays
  /\ finished' = (Displays # {})

\* resetn rises at the last of these edges: whether the registers already see
\* it there is up to the order the simulator runs the processes in.
InReset ==
  /\ ~resetn
  /\ SocReset
  /\ resetn' \in {cycle_count + 1 >= ResetEdges, cycle_count + 2 >= ResetEdges}
  /\ UNCHANGED <<fwVars, trap>>

\* Any other program may make the processor trap, which then asks for
\* nothing more.
Runs ==
  /\ resetn
  /\ FirmwareClock
  /\ trap => (mem_valid' => mem_valid)
  /\ trap' \in {trap, fw = "wild"}
  /\ UNCHANGED resetn

BenchInit ==
  /\ FirmwareInit
  /\ resetn = FALSE /\ cycle_count = 0 /\ trap = FALSE
  /\ log = {} /\ finished = FALSE

BenchNext == ~finished /\ Watch /\ (InReset \/ Runs)

BenchSpec == BenchInit /\ [][BenchNext]_benchVars

\* The clock does not stop; the processor need not trap.
FairBenchSpec == BenchSpec /\ WF_benchVars(BenchNext /\ UNCHANGED trap)

-----------------------------------------------------------------------------
(* The Makefile greps the log for these words, in this order.              *)

Printed(text) == text \in {console[i] : i \in DOMAIN console}

Verdict ==
  IF Printed(Text.PASS) THEN "PASS"
  ELSE IF Printed(Text.FAIL) THEN "FAIL"
  ELSE IF "TRAP" \in log THEN "CPU trapped"
  ELSE IF "TIMEOUT" \in log THEN "timed out"
  ELSE "no output"

-----------------------------------------------------------------------------

(* The bench always ends, whatever the firmware does: an access to a range *)
(* that no device answers (soc_top.v:147) leaves the processor waiting for *)
(* ever, and the watchdog must count through it (tb_soc.v:40-47).          *)
BenchEnds == <>finished

(* With one of the two integration programs the verdict is PASS, reached   *)
(* by the firmware's own halt and not by the watchdog, however slow the    *)
(* processor is within its bound (tb_soc.v:49-53, Makefile:44-58).         *)
IntegrationPasses ==
  finished /\ fw # "wild" => Verdict = "PASS" /\ log = {"HALTED"}

(* And it has halted within ClocksNeeded: the watchdog need not be longer, *)
(* so that one that does go off (tb_soc.v:44) has found a program that     *)
(* hangs, and not one that is slow.                                        *)
HaltsInTime == fw # "wild" /\ ~finished => cycle_count < ClocksNeeded

=============================================================================
