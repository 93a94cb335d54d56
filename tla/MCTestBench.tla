---------------------------- MODULE MCTestBench ----------------------------
EXTENDS TestBench

MCPow2 == [i \in 0 .. WIDTH + 1 |-> 2 ^ i]

MCRamAccesses ==
  {[sel |-> 0, off |-> 0, wdata |-> 0, wstrb |-> {}],
   [sel |-> 0, off |-> 1, wdata |-> 9, wstrb |-> Lanes]}

\* Any other program: a fetch, the lines of the verdict, the halt, STATUS, a
\* command, and a range that no device decodes.
MCWildRequests ==
  MCRamAccesses \cup
    {PrintLine(Text.PASS), PrintLine(Text.FAIL), Accesses.halt, Load(1),
     Accesses.start, [Load(0) EXCEPT !.sel = 3]}

MCRequests ==
  MCRamAccesses \cup MCWildRequests \cup {Accesses[p] : p \in DOMAIN Accesses}

============================================================================
