----------------------------- MODULE MCMakeHex -----------------------------
EXTENDS MakeHex

\* Images of no byte to one word and a half.
MCImages == UNION {[1 .. n -> {0, 1, 2}] : n \in 0 .. 6}

============================================================================
