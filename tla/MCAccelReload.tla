---------------------------- MODULE MCAccelReload ----------------------------
(* A host that never resets the peripheral, and does not wait for BUSY.     *)
EXTENDS AccelAnyHost

MCPow2 == [i \in 0 .. WIDTH + 1 |-> 2 ^ i]

NoResetNext == \E w \in Writes : ~IsReset(w) /\ Clock(w)

NoResetSpec == Init /\ [][NoResetNext]_accelVars

=============================================================================
