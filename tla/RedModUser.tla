----------------------------- MODULE RedModUser -----------------------------
(***************************************************************************)
(* redmod under a user that keeps its precondition, m > 0 (redmod.v:14).   *)
(* redmod has no harness in the repository; this is the counterpart of the *)
(* one mulmod has.  The user may start an operation in any clock, while    *)
(* the unit is running too: such a start is not looked at.  The operation  *)
(* in flight is shadowed in op.                                            *)
(***************************************************************************)
EXTENDS RedMod

VARIABLE op       \* [x, m] of the operation accepted last

uvars == <<state, x_reg, m_reg, r, cnt, result, done, op>>

NoOp == [x |-> 0, m |-> 0]
Ops == [x : Word, m : Word \ {0}]

UTypeOK == TypeOK /\ op \in Ops \cup {NoOp}

UInit == Init /\ op = NoOp

UReset == Reset /\ op' = NoOp

\* One clock with start high; o is taken on only by an idle unit.
UStart(o) ==
  /\ Clock(TRUE, o.x, o.m)
  /\ op' = IF busy THEN op ELSE o

\* One clock with start low.
UClock == Clock(FALSE, 0, 0) /\ UNCHANGED op

UNext ==
  \/ UReset
  \/ \E o \in Ops : UStart(o)
  \/ UClock

USpec == UInit /\ [][UNext]_uvars

-----------------------------------------------------------------------------
(* "remainder so far, always < m" (redmod.v:39): what lets one subtract    *)
(* per bit suffice and the WIDTH-bit register hold the remainder.          *)
RemainderReduced == busy => r < m_reg

(* redmod keeps the promise of a constant-time unit: x mod m, exactly      *)
(* WIDTH clocks after the start it accepted, whatever x and m are and      *)
(* however start is wiggled meanwhile.                                     *)
Unit == INSTANCE ConstTimeUnit WITH
  LATENCY <- WIDTH,
  Value <- LAMBDA o : o.x % o.m,
  left <- cnt,
  out <- result,
  ready <- done

UnitSpec == Unit!Spec

=============================================================================
