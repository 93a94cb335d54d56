---------------------------- MODULE Annunciator ----------------------------
(***************************************************************************)
(* What the page of web/app.js shows: the readouts #cyc, #accv and #resv,  *)
(* the shift register of b, the lit stages of the datapath, the contrast   *)
(* bar and the caveat.  One record, and one operator per way in which a    *)
(* callback changes it.  index.html has no #acchex, #res2 and #prog, so    *)
(* setProg, setRes and updateAcc do nothing on it and are left out.  What  *)
(* is shown after a clock is read from the circuit, so it is written with  *)
(* the primed registers of MulMod.                                         *)
(***************************************************************************)
EXTENDS MulMod, FiniteSets

VARIABLE shown

Stages == {"s_dbl", "s_red1", "s_add", "s_red2", "s_mux"}

\* The text of a readout.
Dash == [is |-> "-"]
Pending == [is |-> "..."]     \* the ellipsis of a run
Reading(n) == [is |-> "number", value |-> n]

\* The bits set in a word.
popcount(x) == Cardinality({i \in 0 .. WIDTH - 1 : (x \div Pow2[i]) % 2 = 1})

-----------------------------------------------------------------------------
(* The setters: the page s with one thing on it drawn anew.                *)

setActive(s, ids) == [s EXCEPT !.active = ids]
setAccLit(s, on) == [s EXCEPT !.lit = on]
renderBits(s, v) == [s EXCEPT !.bits = v]

\* The adds that software would do.
updateContrast(s, b) == [s EXCEPT !.adds = popcount(b)]

\* The first clock loads; later ones take the path of the bit they consumed.
showActive(s, cyc, bit) ==
  setActive(s, IF cyc < 2 THEN {}
               ELSE IF bit = 1 THEN Stages ELSE Stages \ {"s_add", "s_red2"})

-----------------------------------------------------------------------------
(* What a callback does to the page.                                       *)

\* The result of the operation before stays until the new one has its own.
Armed_OldResult(in) ==
  LET drawn == renderBits(updateContrast(shown, in.b), in.b)
  IN  [setAccLit(drawn, TRUE) EXCEPT !.cyc = Reading(0)]

\* An operation is loaded and armed; the path lit last and the accumulator
\* shown last stay.
Armed(in) ==
  LET drawn == renderBits(updateContrast(shown, in.b), in.b)
  IN  [setAccLit(drawn, TRUE) EXCEPT !.cyc = Reading(0), !.res = Pending]

\* The registers after a clock: the accumulator without its carry bit.
Clocked(cyc) ==
  [renderBits(shown, b_reg')
     EXCEPT !.cyc = Reading(cyc), !.acc = Reading(acc' % Radix)]

\* bbit is read after the clock, when the next bit is up.
Stepped_BitAfter(cyc) == showActive(Clocked(cyc), cyc, Msb(b_reg'))

\* The readouts after a clock; bbit is read before it.
Stepped(cyc) == showActive(Clocked(cyc), cyc, Msb(b_reg))

\* finish, after the readouts of the last clock; a FAULT shows its result too.
Finished(cyc, ok, reduced) ==
  LET dim == setAccLit(setActive(Stepped(cyc), {}), FALSE)
  IN  [dim EXCEPT !.res = Reading(result'), !.caveat = ok /\ reduced]

\* The panel of resetPanel.  The result shown last stays.
Cleared(in) ==
  LET drawn == updateContrast(renderBits(shown, in.b), in.b)
      dim == setAccLit(setActive(drawn, {}), FALSE)
  IN  [dim EXCEPT !.cyc = Reading(0), !.acc = Reading(0)]

\* The box of the accumulator is left glowing.
Proving_LeavesLit ==
  [setActive(shown, {}) EXCEPT !.cyc = Dash, !.acc = Dash]

\* The demonstration begins; the result shown last stays.
Proving ==
  [setAccLit(setActive(shown, {}), FALSE) EXCEPT !.cyc = Dash, !.acc = Dash]

\* It ends: the headline is pinned to the cycle it has proved.
Proved(in, holds, refCyc) ==
  LET drawn == updateContrast(renderBits(shown, in.b), in.b)
  IN  [drawn EXCEPT !.cyc = IF holds THEN Reading(refCyc) ELSE @,
                    !.caveat = FALSE]

\* The page as index.html has it.
Blank ==
  [cyc |-> Reading(0), bits |-> 0, acc |-> Reading(0), adds |-> 0,
   lit |-> FALSE, active |-> {}, res |-> Dash, caveat |-> FALSE]

ShownTypeOK ==
  /\ shown.cyc \in {Dash} \cup {Reading(n) : n \in 0 .. WIDTH + 1}
  /\ shown.acc \in {Dash} \cup {Reading(n) : n \in Word}
  /\ shown.res \in {Dash, Pending} \cup {Reading(n) : n \in Word}
  /\ shown.bits \in Word /\ shown.adds \in 0 .. WIDTH
  /\ shown.lit \in BOOLEAN /\ shown.caveat \in BOOLEAN
  /\ shown.active \subseteq Stages

=============================================================================
