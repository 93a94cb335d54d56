----------------------------- MODULE DemoPanel -----------------------------
(***************************************************************************)
(* The web demonstration: web/app.js over web/sim/mulmod_sim.cpp, which    *)
(* clocks the compiled mulmod.  Events are clicks, edits, the interval of  *)
(* a run and the timeout of the demonstration.  A callback runs to         *)
(* completion: js tells how far it is, and no event happens until it is    *)
(* "idle" again.  What the page shows is in Annunciator.                   *)
(***************************************************************************)
EXTENDS Annunciator

CONSTANTS Fields   \* what is typed into the three fields: [a, b, m]

ASSUME FieldsAssumption == Fields \subseteq [a : Word, b : Word, m : Word]

VARIABLES
  ports, g_cycles, g_latched,      \* the harness of the circuit
  fields, inputs_disabled, run_disabled, word,    \* the page
  sim,                             \* boot has made the harness
  loaded, reducedA,                \* inA, inB, inM; what readInputs found
  typed, due,                      \* the fields as the last load read them; the
                                   \* product of the operands a run or a step
                                   \* armed last: both kept for the properties
  timer, live,                     \* the handle kept; the intervals running
  timeouts, proved,                \* setTimeout(prove) pending; once only
  js, demo                         \* the callback at work; what prove found

simVars == <<vars, ports, g_cycles, g_latched>>
pageVars == <<fields, inputs_disabled, run_disabled, word, shown>>
timerVars == <<timer, live>>
onceVars == <<timeouts, proved>>
inputVars == <<loaded, reducedA, typed, due>>
panelVars ==
  <<simVars, pageVars, sim, inputVars, timerVars, onceVars, js, demo>>

NoTimer == 0
TimerIds == 1 .. 2

\* u32((a * b) % m) in BigInts
bigMulMod(in) == (in.a * in.b) % in.m

pm == IF fields.m < 2 THEN 2 ELSE fields.m
readInputs == [a |-> fields.a % pm, b |-> fields.b, m |-> pm]

\* What is read is kept, but for the flag of the caveat.
LoadFields_OldCaveat == loaded' = readInputs /\ typed' = fields
                          /\ UNCHANGED reducedA

\* readInputs with the assignments of inA, inB and inM
LoadFields == loaded' = readInputs /\ typed' = fields
                /\ reducedA' = (fields.a >= pm)

-----------------------------------------------------------------------------
(* The harness: sim_reset with sim_load, which always follows, and         *)
(* sim_step, which drops start after the clock that latched.               *)

sim_load(in) ==
  /\ Reset
  /\ ports' = [start |-> TRUE, in |-> in]
  /\ g_cycles' = 0
  /\ g_latched' = FALSE

sim_step ==
  /\ Clock(ports.start, ports.in.a, ports.in.b, ports.in.m)
  /\ g_cycles' = g_cycles + 1
  /\ ports' = IF g_latched THEN ports ELSE [ports EXCEPT !.start = FALSE]
  /\ g_latched' = TRUE

-----------------------------------------------------------------------------
(* The shared pieces of the callbacks.                                     *)

\* The handle is dropped and the interval goes on.
Stopped_Forgets == live

\* clearInterval(timer)
Stopped == {t \in live : t.id # timer}

stop == live' = Stopped /\ timer' = NoTimer

setRunning(on) == run_disabled' = on /\ inputs_disabled' = on

\* The cross-check, the controls and, the first time, the demonstration.
finish(in) ==
  /\ word' = IF result' = bigMulMod(in) THEN "DONE" ELSE "FAULT"
  /\ shown' = Finished(g_cycles', result' = bigMulMod(in), reducedA)
  /\ setRunning(FALSE)
  /\ IF result' = bigMulMod(in) /\ ~proved
     THEN proved' = TRUE /\ timeouts' = timeouts + 1
     ELSE UNCHANGED onceVars

-----------------------------------------------------------------------------
(* The events.                                                             *)

run ==
  LET id == CHOOSE i \in TimerIds : \A t \in Stopped : t.id # i
  IN  /\ LoadFields
      /\ sim_load(readInputs)
      /\ due' = Reading(bigMulMod(readInputs))
      /\ word' = "RUN"
      /\ shown' = Armed(readInputs)
      /\ setRunning(TRUE)
      /\ live' = Stopped \cup {[id |-> id, in |-> readInputs]}
      /\ timer' = id
      /\ UNCHANGED <<fields, onceVars, js, demo>>

\* A clock that is not the last of its operation.
GoesOn ==
  /\ shown' = Stepped(g_cycles')
  /\ UNCHANGED <<word, run_disabled, inputs_disabled, onceVars>>

\* The interval that finds the circuit done goes on.
Tick_NoStop(t) ==
  /\ sim_step
  /\ IF done' THEN finish(t.in) ELSE GoesOn
  /\ UNCHANGED <<fields, sim, inputVars, timerVars, js, demo>>

\* The interval of a run, with the operands that run was given.
Tick(t) ==
  /\ sim_step
  /\ IF done' THEN stop /\ finish(t.in) ELSE GoesOn /\ UNCHANGED timerVars
  /\ UNCHANGED <<fields, sim, inputVars, js, demo>>

\* A step before the first clock or after the last loads the fields.
stepOne ==
  /\ stop
  /\ IF g_cycles = 0 \/ g_cycles >= WIDTH + 1
     THEN /\ LoadFields
          /\ sim_load(readInputs)
          /\ due' = Reading(bigMulMod(readInputs))
          /\ word' = "RUN"
          /\ shown' = Armed(readInputs)
          /\ run_disabled' = FALSE     \* setRunning(true, true)
     ELSE UNCHANGED <<inputVars, simVars, word, shown, run_disabled>>
  /\ js' = "step"
  /\ UNCHANGED <<fields, inputs_disabled, onceVars, demo>>

StepTheCircuit ==
  /\ js = "step"
  /\ js' = "idle"
  /\ sim_step
  /\ IF done' THEN finish(loaded) ELSE GoesOn
  /\ UNCHANGED <<fields, sim, inputVars, timerVars, demo>>

\* The interval of the run that is given up goes on.
resetPanel_KeepsTimer ==
  /\ LoadFields
  /\ sim_load(readInputs)
  /\ word' = "STANDBY"
  /\ shown' = Cleared(readInputs)
  /\ setRunning(FALSE)
  /\ UNCHANGED <<fields, due, timerVars, onceVars, js, demo>>

resetPanel ==
  /\ stop
  /\ LoadFields
  /\ sim_load(readInputs)
  /\ word' = "STANDBY"
  /\ shown' = Cleared(readInputs)
  /\ setRunning(FALSE)
  /\ UNCHANGED <<fields, due, onceVars, js, demo>>

-----------------------------------------------------------------------------
(* prove: four multiplications, one after the other, in one callback.      *)

Cases(m) == <<0, Radix - 1, (2 * Radix) \div 3, m - 1>>

Untried == [k |-> 1, refCyc |-> 0, allSame |-> TRUE, allOk |-> TRUE]

\* The run under way goes on after the demonstration.
StartProving_KeepsTimer ==
  /\ UNCHANGED timerVars
  /\ js' = "load"
  /\ demo' = Untried
  /\ shown' = Proving
  /\ reducedA' = (fields.a >= pm)

\* readInputs is called for the modulus, and sets the flag of the caveat.
StartProving ==
  /\ stop
  /\ js' = "load"
  /\ demo' = Untried
  /\ shown' = Proving
  /\ reducedA' = (fields.a >= pm)

prove ==
  /\ StartProving
  /\ UNCHANGED <<simVars, fields, inputs_disabled, run_disabled, word, loaded,
                 typed, due, onceVars>>

ProveLoad ==
  /\ js = "load"
  /\ js' = "clock"
  /\ sim_load([a |-> pm - 1, b |-> Cases(pm)[demo.k], m |-> pm])
  /\ UNCHANGED <<pageVars, sim, inputVars, timerVars, onceVars, demo>>

ProveClock ==
  /\ js = "clock"
  /\ sim_step
  /\ IF ~done' THEN UNCHANGED <<js, demo>>
     ELSE /\ js' = IF demo.k < 4 THEN "load" ELSE "prime"
          /\ demo' =
               [k |-> demo.k + 1,
                refCyc |-> IF demo.k = 1 THEN g_cycles' ELSE demo.refCyc,
                allSame |-> demo.allSame
                              /\ (demo.k > 1 => g_cycles' = demo.refCyc),
                allOk |-> demo.allOk /\ result' = bigMulMod(ports.in)]
  /\ UNCHANGED <<pageVars, sim, inputVars, timerVars, onceVars>>

\* "leave the live panel primed for a fresh Run"
ProvePrime ==
  /\ js = "prime"
  /\ js' = "idle"
  /\ LoadFields
  /\ sim_load(readInputs)
  /\ word' = "STANDBY"
  /\ shown' = Proved(readInputs, demo.allOk /\ demo.allSame, demo.refCyc)
  /\ UNCHANGED <<fields, run_disabled, inputs_disabled, sim, due, timerVars,
                 onceVars, demo>>

-----------------------------------------------------------------------------

\* Without and with prefers-reduced-motion.
boot ==
  /\ word = "LOADING"
  /\ sim' = TRUE
  /\ run \/ resetPanel

\* The module is missing, or does not initialise: no button is connected.
LoadFails ==
  /\ word = "LOADING"
  /\ word' = "FAULT"
  /\ UNCHANGED <<simVars, fields, inputs_disabled, run_disabled, shown, sim,
                 inputVars, timerVars, onceVars, js, demo>>

\* The contrast bar is only drawn when an operation is loaded.
Edit_NotHeard(f) ==
  /\ ~inputs_disabled
  /\ fields' = f
  /\ UNCHANGED <<simVars, inputs_disabled, run_disabled, word, shown, sim,
                 inputVars, timerVars, onceVars, js, demo>>

\* boot connects the field of b to the contrast bar.
Edit(f) ==
  /\ ~inputs_disabled
  /\ fields' = f
  /\ shown' = IF sim THEN updateContrast(shown, f.b) ELSE shown
  /\ UNCHANGED <<simVars, inputs_disabled, run_disabled, word, sim, inputVars,
                 timerVars, onceVars, js, demo>>

\* setTimeout(prove, 900) fires.
ProveTimeout ==
  /\ timeouts > 0
  /\ timeouts' = timeouts - 1
  /\ StartProving
  /\ UNCHANGED <<simVars, fields, inputs_disabled, run_disabled, word, sim,
                 loaded, typed, due, proved>>

\* The button, or Enter in a field.
ClickRun == (~run_disabled \/ ~inputs_disabled) /\ run

User ==
  \/ \E f \in Fields : Edit(f)
  \/ sim /\ UNCHANGED sim /\ (ClickRun \/ stepOne \/ resetPanel \/ prove)

Timers == (\E t \in live : Tick(t)) \/ ProveTimeout

Demonstrates == ProveLoad \/ ProveClock \/ ProvePrime

Callback == StepTheCircuit \/ Demonstrates

PanelInit ==
  /\ Init
  /\ ports = [start |-> FALSE, in |-> [a |-> 0, b |-> 0, m |-> 0]]
  /\ g_cycles = 0 /\ g_latched = FALSE
  /\ fields \in Fields
  /\ inputs_disabled = FALSE /\ run_disabled = FALSE
  /\ word = "LOADING" /\ shown = Blank
  /\ sim = FALSE
  /\ loaded = [a |-> 0, b |-> 0, m |-> 7]
  /\ reducedA = FALSE /\ typed = fields /\ due = Dash
  /\ timer = NoTimer /\ live = {}
  /\ timeouts = 0 /\ proved = FALSE
  /\ js = "idle" /\ demo = Untried

PanelNext == (js = "idle" /\ (boot \/ LoadFails \/ User \/ Timers)) \/ Callback

PanelSpec == PanelInit /\ [][PanelNext]_panelVars

\* A running interval fires again, and a callback runs to its end, whatever
\* the user does; the user owes nothing.
FairPanelSpec ==
  /\ PanelSpec
  /\ WF_panelVars(js = "idle" /\ \E t \in live : Tick(t))
  /\ WF_panelVars(Callback)

-----------------------------------------------------------------------------

Operands == [a : Word, b : Word, m : Word]

PanelTypeOK ==
  /\ TypeOK
  /\ ports \in [start : BOOLEAN, in : Operands]
  /\ g_cycles \in 0 .. WIDTH + 1 /\ g_latched \in BOOLEAN
  /\ fields \in Fields
  /\ inputs_disabled \in BOOLEAN /\ run_disabled \in BOOLEAN
  /\ word \in {"LOADING", "RUN", "DONE", "FAULT", "STANDBY"}
  /\ ShownTypeOK
  /\ sim \in BOOLEAN /\ reducedA \in BOOLEAN /\ typed \in Fields
  /\ loaded \in [a : Word, b : Word, m : Nat]
  /\ due \in {Dash} \cup {Reading(n) : n \in Word}
  /\ timer \in {NoTimer} \cup TimerIds
  /\ live \subseteq [id : TimerIds, in : Operands]
  /\ timeouts \in 0 .. 1 /\ proved \in BOOLEAN
  /\ js \in {"idle", "step", "load", "clock", "prime"}

(* The cross-check of a completed run never fails, although the fields,    *)
(* the circuit and the operands a run closed over can each be changed by   *)
(* another event while it runs (app.js:179-232).                           *)
NeverFault == sim => word # "FAULT"

(* At rest the state word tells the truth about the circuit: STANDBY means *)
(* loaded and untouched with no interval left, RUN an operation under way, *)
(* DONE one that ended with the result of what was loaded.                 *)
WordTellsCircuit ==
  js = "idle" =>
    /\ word = "STANDBY" => live = {} /\ g_cycles = 0 /\ ports.in = loaded
    /\ word = "RUN" => g_cycles <= WIDTH /\ ports.in = loaded
    /\ word = "DONE" => /\ live = {} /\ g_cycles = WIDTH + 1
                        /\ result = bigMulMod(loaded)

(* No interval runs that the panel has lost the handle of: it could not be *)
(* stopped, and two intervals would clock one circuit (app.js:167, 220).   *)
NoOrphanInterval == \A t \in live : t.id = timer

(* The demonstration finds what the page says of the circuit: the four     *)
(* multiplications are right and end on the same cycle, WIDTH + 1          *)
(* (app.js:114-142), as does every run.                                    *)
DemonstrationHolds ==
  /\ demo.allOk /\ demo.allSame
  /\ demo.refCyc \in {0, WIDTH + 1}
  /\ done => g_cycles = WIDTH + 1

(* A run that was started is over after a while, or was given up: the      *)
(* interval does not go on for ever (app.js:220-231).                      *)
RunEnds == timer # NoTimer ~> timer = NoTimer

(* "leave the live panel primed for a fresh Run" (app.js:143): in STANDBY  *)
(* the Run button and the fields can be used.                              *)
PrimedForRun ==
  js = "idle" /\ word = "STANDBY" => ~run_disabled /\ ~inputs_disabled

(* "acc box glows only while a computation is in progress" (app.js:35),    *)
(* and always then: in RUN, however it was entered and whatever ends it,   *)
(* and in no other state the panel rests in.                               *)
LitWhileComputing == js = "idle" => (shown.lit <=> word = "RUN")

(* "dim at rest, the b-bit lights the live path" (app.js:42): outside RUN  *)
(* no stage is lit, nor after the clock that loads; after each later clock *)
(* n the add is lit exactly when bit WIDTH + 1 - n of the b typed is set.  *)
LivePath ==
  js = "idle" =>
    /\ word # "RUN" => shown.active = {}
    /\ word = "RUN" /\ g_cycles >= 1 =>
         /\ shown.active = {} <=> g_cycles = 1
         /\ "s_add" \in shown.active <=>
              /\ g_cycles >= 2
              /\ (typed.b \div Pow2[WIDTH + 1 - g_cycles]) % 2 = 1

(* The counter, the accumulator and the shift register tell the operation  *)
(* of the state word.  In RUN and DONE they are the registers, the         *)
(* accumulator without its carry bit.  In STANDBY the bits are those of    *)
(* the b that is loaded, and the other two tell how it came to that: by a  *)
(* reset, or by a demonstration that found the cycle it is pinned to       *)
(* (app.js:112, 140, 171, 224-226, 244-246, 261).                          *)
ReadoutsTellCircuit ==
  js = "idle" =>
    /\ word = "STANDBY" =>
         /\ shown.bits = loaded.b
         /\ \/ shown.cyc = Reading(0) /\ shown.acc = Reading(0)
            \/ shown.cyc = Reading(WIDTH + 1) /\ shown.acc = Dash
    /\ word \in {"RUN", "DONE"} =>
         /\ shown.cyc = Reading(g_cycles)
         /\ IF g_cycles = 0 THEN shown.bits = typed.b
            ELSE shown.bits = b_reg /\ shown.acc = Reading(acc)

(* The result on the page is that of the last operation a run or a step    *)
(* has armed, or the ellipsis: never one of the demonstration's four, nor  *)
(* of an operation before.  RUN has the ellipsis, DONE the result, which   *)
(* the accumulator shows as well.  A reset and a demonstration write only  *)
(* over the other readouts, so that STANDBY may have either                *)
(* (app.js:170, 183, 253-265).                                             *)
ResultOfLastRun ==
  /\ shown.res \in {Pending, due}
  /\ js = "idle" =>
       /\ word \in {"RUN", "DONE"} => due = Reading(bigMulMod(loaded))
       /\ word = "RUN" => shown.res = Pending
       /\ word = "DONE" => shown.res = due /\ shown.acc = due

(* The bar of the software contrast is that of the b in the field, "live   *)
(* as the reviewer edits b" (app.js:292), from boot on.                    *)
ContrastTracksField == sim => shown.adds = popcount(fields.b)

(* A result is shown with the caveat exactly when the a that was typed for *)
(* it had to be reduced (app.js:162, 189), although the flag is global and *)
(* every handler that reads the fields sets it.                            *)
CaveatTold ==
  js = "idle" /\ word = "DONE" =>
    (shown.caveat <=> typed.a >= loaded.m)

=============================================================================
