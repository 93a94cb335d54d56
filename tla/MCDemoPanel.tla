---------------------------- MODULE MCDemoPanel ----------------------------
EXTENDS DemoPanel

MCPow2 == [i \in 0 .. WIDTH + 1 |-> 2 ^ i]

\* Reduced and unreduced operands, moduli that are clamped, and the largest.
MCFields == [a : {3, 7}, b : {0, 5, 7}, m : {0, 1, 5, 7}]

=============================================================================
