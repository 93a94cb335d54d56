------------------------------ MODULE MCSocTop ------------------------------
EXTENDS Firmware

MCPow2 == [i \in 0 .. WIDTH + 1 |-> 2 ^ i]

Access(sel, off, wdata, wstrb) ==
  [sel |-> sel, off |-> off, wdata |-> wdata, wstrb |-> wstrb]

\* A fetch, and ra pushed on the stack.
MCRamAccesses == {Access(0, 0, 0, {}), Access(0, 1, 9, Lanes)}

\* Word and partial writes, an address above the RAM, registers that cannot
\* be written or read, and a range no device answers.
MCWildRequests ==
  {Access(0, 0, 13, Lanes), Access(0, 2, 2, {0, 1}),
   Access(0, 0, 0, {}), Access(0, 1, 0, {}),
   Access(1, 0, 5, Lanes), Access(1, 0, 15, {0}), Access(1, 0, 0, {}),
   Access(2, 0, 1, Lanes), Access(2, 8, 8, Lanes), Access(2, 4, 7, {0}),
   Access(2, 3, 6, Lanes),
   Access(2, 1, 0, {}), Access(2, 3, 0, {}), Access(3, 0, 0, {})}

MCRequests ==
  MCRamAccesses \cup MCWildRequests \cup {Accesses[p] : p \in DOMAIN Accesses}

=============================================================================
