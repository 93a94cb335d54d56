------------------------------- MODULE Driver -------------------------------
(***************************************************************************)
(* The firmware driver, blindsig-fw/src/lib.rs, over the peripheral.  Each *)
(* volatile access of a method is one clock of the register port, in       *)
(* program order; any number of clocks may pass between two of them, which *)
(* covers the instructions in between and the handshake of any bus.  The   *)
(* methods take &self: the program may call them in any order.             *)
(***************************************************************************)
EXTENDS BlindsigAccel, SequencesExt

CONSTANTS
  Methods,       \* the methods of BlindSigAccel the program calls
  ModulusArgs,   \* the slices it passes as modulus
  OperandArgs    \* and as operand

ASSUME ArgsAssumption ==
  /\ ModulusArgs \subseteq Seq(Word)
  /\ OperandArgs \subseteq Seq(Word)

VARIABLES
  call,    \* the call made last
  pc,      \* "idle" between calls, or the access the call is at
  todo,    \* the register writes it has still to make
  ret,     \* what it returned: None, Err or Ok
  pending  \* "start": a start() has not been waited for; "lost": nor will it
           \* be, for reset or compute came first; kept for the properties

driverVars == <<call, pc, todo, ret, pending>>
systemVars == <<accelVars, driverVars>>

\* A method that takes no slice has the empty one.
Calls ==
  LET Taken(method, by, args) == IF method \in by THEN args ELSE {<<>>}
  IN  UNION {[method : {m},
              modulus : Taken(m, {"compute", "load_modulus"}, ModulusArgs),
              operand : Taken(m, {"compute", "load_operand"}, OperandArgs)] :
               m \in Methods}

None == [is |-> "None"]
Err == [is |-> "Err"]
Ok(word) == [is |-> "Ok", word |-> word]
NoCall == [method |-> "none"]

-----------------------------------------------------------------------------
(* The writes of each method.                                              *)

reset == <<CtrlWrite({"RESET"})>>
start == <<CtrlWrite({"START"})>>
load_modulus_word(word) == <<CtrlWrite({"LOAD_MOD"}), ModulusWrite(word)>>
load_operand_word(word) == <<CtrlWrite({"LOAD_OP"}), OperandWrite(word)>>
load_modulus(words) ==
  FlattenSeq([i \in DOMAIN words |-> load_modulus_word(words[i])])
load_operand(words) ==
  FlattenSeq([i \in DOMAIN words |-> load_operand_word(words[i])])

\* The operand is armed in one write for both registers.
compute_ArmsTogether(modulus_words, operand_words) ==
  reset \o <<CtrlWrite({"LOAD_OP", "LOAD_MOD"})>>
    \o [i \in DOMAIN modulus_words |-> ModulusWrite(modulus_words[i])]
    \o [i \in DOMAIN operand_words |-> OperandWrite(operand_words[i])]
    \o start

compute(modulus_words, operand_words) ==
  reset \o load_modulus(modulus_words) \o load_operand(operand_words) \o start

Writes(c) ==
  CASE c.method = "reset"        -> reset
    [] c.method = "load_modulus" -> load_modulus(c.modulus)
    [] c.method = "load_operand" -> load_operand(c.operand)
    [] c.method = "start"        -> start
    [] c.method = "compute"      -> compute(c.modulus, c.operand)
    [] OTHER                     -> <<>>

\* The methods that end in wait_and_read_result.
Waits(c) == c.method \in {"compute", "wait_and_read_result"}

\* The access a call is at when these writes are left.
At(c, writes) ==
  IF writes # <<>> THEN "write" ELSE IF Waits(c) THEN "poll" ELSE "idle"

\* What has been started, after a call of c.
Pending(c) ==
  CASE pending = "none" /\ c.method = "start" -> "start"
    [] pending = "start" /\ c.method = "wait_and_read_result" -> "none"
    [] pending = "start" /\ c.method \in {"reset", "compute"} -> "lost"
    [] OTHER -> pending

-----------------------------------------------------------------------------

Call(c) ==
  /\ pc = "idle"
  /\ call' = c
  /\ todo' = Writes(c)
  /\ pc' = At(c, Writes(c))
  /\ ret' = None
  /\ pending' = Pending(c)
  /\ UNCHANGED accelVars

\* mmio_write
Write ==
  /\ pc = "write"
  /\ Clock(Head(todo))
  /\ todo' = Tail(todo)
  /\ pc' = At(call, Tail(todo))
  /\ UNCHANGED <<call, ret, pending>>

\* while self.is_busy() {}: the loop leaves as soon as DONE is up instead.
Poll_UntilDone ==
  /\ pc = "poll"
  /\ Clock(NoWrite)
  /\ pc' = IF Status.done THEN "check" ELSE "poll"
  /\ UNCHANGED <<call, todo, ret, pending>>

\* while self.is_busy() {}
Poll ==
  /\ pc = "poll"
  /\ Clock(NoWrite)
  /\ pc' = IF Status.busy THEN "poll" ELSE "check"
  /\ UNCHANGED <<call, todo, ret, pending>>

\* if self.is_error() { return Err(()) }: a second read of STATUS
Check ==
  /\ pc = "check"
  /\ Clock(NoWrite)
  /\ IF Status.error THEN pc' = "idle" /\ ret' = Err
                     ELSE pc' = "read" /\ UNCHANGED ret
  /\ UNCHANGED <<call, todo, pending>>

\* Ok(mmio_read(RESULT))
Read ==
  /\ pc = "read"
  /\ Clock(NoWrite)
  /\ pc' = "idle"
  /\ ret' = Ok(ResultWord)
  /\ UNCHANGED <<call, todo, pending>>

\* A clock in which the processor does not access the peripheral.
Pause == Clock(NoWrite) /\ UNCHANGED driverVars

\* resetn of the SoC: processor and peripheral start over.
SystemReset ==
  /\ HardReset
  /\ call' = NoCall
  /\ pc' = "idle"
  /\ todo' = <<>>
  /\ ret' = None
  /\ pending' = "none"

Access == Write \/ Poll \/ Check \/ Read

DriverInit ==
  /\ Init
  /\ call = NoCall
  /\ pc = "idle"
  /\ todo = <<>>
  /\ ret = None
  /\ pending = "none"

DriverNext ==
  \/ \E c \in Calls : Call(c)
  \/ Access
  \/ Pause
  \/ SystemReset

DriverSpec == DriverInit /\ [][DriverNext]_systemVars

\* The processor keeps executing the method it is in.
FairDriverSpec == DriverSpec /\ WF_systemVars(Access)

-----------------------------------------------------------------------------

DriverTypeOK ==
  /\ TypeOK
  /\ call \in Calls \cup {NoCall}
  /\ pc \in {"idle", "write", "poll", "check", "read"}
  /\ ret \in {None, Err} \cup {Ok(word) : word \in Word}

(* compute returns operand^2 mod modulus of the last words of its two      *)
(* slices ("compute(&[7], &[10])?; // 10^2 mod 7 = 2", lib.rs:11), an      *)
(* empty slice being a zero register, and Err exactly for a zero modulus.  *)
LastWord(words) == IF words = <<>> THEN 0 ELSE Last(words)

Expected(c) ==
  LET m == LastWord(c.modulus)
      x == LastWord(c.operand)
  IN  IF m = 0 THEN Err ELSE Ok((x * x) % m)

ComputeCorrect ==
  pc = "idle" /\ call.method = "compute" => ret = Expected(call)

(* It does so in any order with the other methods, whatever they have      *)
(* loaded, armed or left behind, provided that a started operation is      *)
(* waited for before reset or compute is called.                           *)
ComputeCorrectIfWaited == pending = "none" => ComputeCorrect

(* Every call returns, whatever was called before it: no sequence of       *)
(* methods leaves a poll loop spinning.                                    *)
CallsReturn == pc # "idle" ~> pc = "idle"

\* Accesses left to a call, at most: its writes; the poll, once more for each
\* clock for which BUSY is up; and two reads.
CallLeft ==
  CASE pc = "write" ->
         Len(todo) + (IF Waits(call) THEN (2 * WIDTH + 4) + 3 ELSE 0)
    [] pc = "poll"  -> (IF flag_busy THEN BusyLeft ELSE 0) + 3
    [] pc = "check" -> 2
    [] pc = "read"  -> 1
    [] OTHER        -> 0

(* And it returns in time: with each access a call has fewer left, which   *)
(* no clock between two accesses gives back.  A wait polls 2 * WIDTH + 5   *)
(* times at most, whatever was started, reset and lost before it.          *)
CallsCountDown ==
  [][pc # "idle" =>
       CallLeft' \in 0 .. (IF Access THEN CallLeft - 1
                           ELSE CallLeft)]_systemVars

=============================================================================
