--------------------------- MODULE MCAccelAnyHost ---------------------------
(* Four bits are the least at which a RESET, a reload and a START fit into  *)
(* one reduction.                                                           *)
EXTENDS AccelAnyHost

MCPow2 == [i \in 0 .. WIDTH + 1 |-> 2 ^ i]

=============================================================================
