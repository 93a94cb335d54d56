----------------------------- MODULE MemoryMap -----------------------------
(***************************************************************************)
(* What the memory map of the SoC promises the processor (the header of    *)
(* soc_top.v): every access to a mapped address is served by exactly one   *)
(* device and takes effect there exactly once, however many clocks the     *)
(* handshake takes; a read answers what the device holds.                  *)
(***************************************************************************)
EXTENDS Naturals, Sequences

CONSTANTS
  Requests,            \* the accesses: [sel, off, wdata, wstrb]
  HALT,                \* the character that halts the simulation
  RamIndex(_),         \* the word of the RAM a request is about
  Merge(_, _, _),      \* a word with some lanes of it written
  Words                \* what a read can answer

VARIABLES
  phase,      \* "idle", "asked" or "served"
  req,        \* the access in flight
  ram,
  console,    \* the characters printed
  halted,
  port,       \* the writes the accelerator has been given
  regs,       \* what its registers read, offset by offset
  got         \* the answer the processor took last

vars == <<phase, req, ram, console, halted, port, regs, got>>

Writes(r) == r.wstrb # {}

Ask ==
  /\ phase = "idle"
  /\ phase' = "asked"
  /\ req' \in Requests
  /\ UNCHANGED <<ram, console, halted, port, got>>

\* The one effect of an access, by device.
RamEffect ==
  /\ req.sel = 0
  /\ ram' = [ram EXCEPT ![RamIndex(req)] = Merge(@, req.wdata, req.wstrb)]
  /\ UNCHANGED <<console, halted, port>>

SimioEffect ==
  /\ req.sel = 1
  /\ IF ~Writes(req) THEN UNCHANGED <<console, halted>>
     ELSE IF req.wdata = HALT
     THEN halted' = TRUE /\ UNCHANGED console
     ELSE console' = Append(console, req.wdata) /\ UNCHANGED halted
  /\ UNCHANGED <<ram, port>>

AccelEffect ==
  /\ req.sel = 2
  /\ port' = IF Writes(req) THEN Append(port, <<req.off, req.wdata>>)
             ELSE port
  /\ UNCHANGED <<ram, console, halted>>

Serve ==
  /\ phase = "asked"
  /\ phase' = "served"
  /\ RamEffect \/ SimioEffect \/ AccelEffect
  /\ UNCHANGED <<req, got>>

\* The answer is what the device holds; that of a write is not used.
Answer(g, registers) ==
  ~Writes(req) => g = CASE req.sel = 0 -> ram[RamIndex(req)]
                        [] req.sel = 2 -> registers[req.off]
                        [] OTHER -> 0

Finish ==
  /\ phase = "served"
  /\ phase' = "idle"
  /\ got' \in Words /\ Answer(got', regs)
  /\ UNCHANGED <<req, ram, console, halted, port>>

\* resetn: the access in flight is given up.  The memory and the console are
\* not reset: they may still take a write in that clock, or answer a read.
Reset ==
  /\ phase' = "idle"
  /\ \/ phase = "asked" /\ (RamEffect \/ SimioEffect)
     \/ UNCHANGED <<ram, console, halted>>
  /\ \/ phase = "served" /\ got' \in Words /\ Answer(got', regs')
     \/ UNCHANGED got
  /\ UNCHANGED <<req, port>>

\* The registers of the accelerator change on their own.
Device == UNCHANGED <<phase, req, ram, console, halted, port, got>>

Init ==
  /\ phase = "idle"
  /\ console = <<>>
  /\ halted = FALSE
  /\ port = <<>>

Next == Ask \/ Serve \/ Finish \/ Reset \/ Device

Spec == Init /\ [][Next]_vars

=============================================================================
