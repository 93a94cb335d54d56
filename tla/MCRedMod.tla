------------------------------ MODULE MCRedMod ------------------------------
(* redmod with operations back to back, starts while it runs, and resets.   *)
EXTENDS RedModUser

MCPow2 == [i \in 0 .. WIDTH + 1 |-> 2 ^ i]

=============================================================================
