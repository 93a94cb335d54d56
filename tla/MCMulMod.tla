------------------------------ MODULE MCMulMod ------------------------------
(* mulmod with operations back to back and resets at any clock. *)
EXTENDS MulModFormal

MCPow2 == [i \in 0 .. WIDTH + 1 |-> 2 ^ i]

=============================================================================
