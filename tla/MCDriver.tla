------------------------------ MODULE MCDriver ------------------------------
EXTENDS Driver

MCPow2 == [i \in 0 .. WIDTH + 1 |-> 2 ^ i]

\* A zero modulus, an empty slice, and slices of which only the last word
\* counts.
MCModulusArgs == {<<>>, <<7>>, <<7, 0>>, <<0, 11>>}
MCOperandArgs == {<<10>>, <<15, 3>>}

\* One modulus and one operand, for the run that finds a counterexample.
MCOneModulus == {<<7>>}
MCOneOperand == {<<10>>}

=============================================================================
