---------------------------- MODULE AccelAnyHost ----------------------------
(***************************************************************************)
(* The accelerator under a host that may do anything: every write in every *)
(* clock, RESET and new operands in the middle of an operation included,   *)
(* and rst_n at any time.  What holds here no software can break.          *)
(***************************************************************************)
EXTENDS BlindsigAccel

CONSTANTS
  Operands,    \* the words the host writes to OPERAND
  Moduli       \* the words the host writes to MODULUS

ASSUME HostAssumption == Operands \subseteq Word /\ Moduli \subseteq Word

Writes ==
  {NoWrite}
    \cup {CtrlWrite(bits) : bits \in SUBSET CtrlBits}
    \cup {OperandWrite(x) : x \in Operands}
    \cup {ModulusWrite(m) : m \in Moduli}

HostClock == \E w \in Writes : Clock(w)

Next == HardReset \/ HostClock

Spec == Init /\ [][Next]_accelVars

\* The clock does not stop while the system runs.
FairSpec == Spec /\ WF_accelVars(HostClock)

-----------------------------------------------------------------------------
(* What STATUS tells a driver that polls BUSY and then reads ERROR: an     *)
(* operation is in flight whenever BUSY is up, BUSY and DONE are never up  *)
(* together, and ERROR only ever comes with DONE, from a peripheral that   *)
(* is free again (lib.rs:73-79, test_accel.c:67-81).                       *)
StatusCoherent ==
  /\ flag_busy => cstate \in {"C_REDUCE", "C_MUL"} /\ ~flag_done
  /\ flag_error => cstate = "C_IDLE" /\ flag_done

(* mulmod is free in every clock it is told to start: although RESET      *)
(* leaves a multiplication running, a later operation never loses its      *)
(* start pulse on it.  There is no clock to spare: the two latencies must  *)
(* be equal and fixed.                                                     *)
MulStartKept == mulmod_start => ml_state = "S_IDLE"

(* The datapaths are started within their preconditions only, which the    *)
(* harness of mulmod assumes and neither module checks: m > 0 for redmod   *)
(* (redmod.v:14), m > 0 and a < m for mulmod (mulmod.v:17).  It takes a    *)
(* careful host; any other can break it.                                   *)
PreconditionsMet ==
  /\ redmod_start => modulus > 0
  /\ mulmod_start => modulus > 0 /\ a_reduced < modulus

(* A poll loop ends: BUSY falls again whatever the host does meanwhile,    *)
(* even when RESET has left the datapaths out of step with the pipeline.   *)
BusyEnds == flag_busy ~> ~flag_busy

(* How long it takes does not depend on the host either: BUSY is up for    *)
(* 2 * WIDTH + 4 clocks at most, also when a datapath is still at work on  *)
(* an operation that RESET has abandoned and swallows the start pulse of   *)
(* this one (blindsig_accel.v:132, 178-189).                               *)
BusyCountsDown ==
  [][flag_busy' =>
       BusyLeft' \in 1 .. (IF flag_busy THEN BusyLeft - 1
                           ELSE 2 * WIDTH + 4)]_accelVars

=============================================================================
