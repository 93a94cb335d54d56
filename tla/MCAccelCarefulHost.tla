------------------------- MODULE MCAccelCarefulHost -------------------------
EXTENDS AccelCarefulHost

MCPow2 == [i \in 0 .. WIDTH + 1 |-> 2 ^ i]

=============================================================================
