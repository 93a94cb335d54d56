------------------------------- MODULE SocTop -------------------------------
(***************************************************************************)
(* blindsig-soc/rtl/soc_top.v: RAM, simulation I/O and the accelerator on  *)
(* the bus of the processor.  Of the processor (picorv32.v) only its       *)
(* memory port is here, free to ask for any access at any time: it holds   *)
(* mem_valid and what goes with it until mem_ready, and lets it fall for a *)
(* clock before the next access.                                           *)
(*                                                                         *)
(* An address is [sel, off]: the decoded bits 31:28 and the word offset.   *)
(***************************************************************************)
EXTENDS BusWrap, Sequences

CONSTANTS
  RamWords,    \* words of RAM, 4096 in the code
  Requests     \* the accesses the processor makes

ASSUME SocAssumption ==
  /\ RamWords \in Nat \ {0}
  /\ Requests \subseteq
       [sel : 0 .. 15, off : Nat, wdata : Word, wstrb : SUBSET Lanes]

VARIABLES
  mem_valid, mem_req,            \* what the processor drives
  mem_rdata_q,                   \* what it has read
  ram, ram_rdata, ram_ready_r,
  simio_halt, simio_ready_r,
  console,                       \* what $write has printed
  port                           \* the writes the accelerator has been given,
                                 \* kept for the properties

cpuVars == <<mem_valid, mem_req, mem_rdata_q>>
busVars == <<bus_ready, ram, ram_rdata, ram_ready_r, simio_halt,
             simio_ready_r, console, port>>
socVars == <<accelVars, cpuVars, busVars>>

\* The low byte 8'hFF.
HALT == Radix - 1

Writes(r) == r.wstrb # {}

NoRequest == [sel |-> 0, off |-> 0, wdata |-> 0, wstrb |-> {}]

-----------------------------------------------------------------------------
(* Address decode and the read multiplexer.                                *)

sel_ram == mem_req.sel = 0
sel_simio == mem_req.sel = 1
sel_accel == mem_req.sel = 2

\* mem_addr[13:2]: what lies above the RAM in its range is the RAM again.
ram_word_addr(r) == r.off % RamWords

\* Nothing answers for the other thirteen ranges.
mem_ready ==
  \/ sel_ram /\ ram_ready_r
  \/ sel_simio /\ simio_ready_r
  \/ sel_accel /\ bus_ready

mem_rdata ==
  CASE sel_ram -> ram_rdata
    [] sel_accel -> rdata(mem_req.off)
    [] OTHER -> 0

-----------------------------------------------------------------------------
(* The devices.                                                            *)

\* The lanes of a word that are strobed, written.
Merge(old, word, strobes) ==
  LET Bit(i) == IF i \in strobes THEN Lane(word, i) ELSE Lane(old, i)
      Sum[i \in 0 .. WIDTH] ==
        IF i = 0 THEN 0 ELSE Sum[i - 1] + Bit(i - 1) * Pow2[i - 1]
  IN  Sum[WIDTH]

\* The write is not gated by ram_ready_r: it happens twice, with the same
\* data.  The read port gives the word from before the write.
RamData ==
  LET i == ram_word_addr(mem_req)
  IN  /\ ram' = IF mem_valid /\ sel_ram
                THEN [ram EXCEPT ![i] =
                        Merge(@, mem_req.wdata, mem_req.wstrb)]
                ELSE ram
      /\ ram_rdata' = ram[i]

\* The write is not gated by simio_ready_r.
Prints_Ungated == mem_valid /\ sel_simio /\ Writes(mem_req)

Prints == mem_valid /\ sel_simio /\ Writes(mem_req) /\ ~simio_ready_r

SimioData ==
  /\ simio_halt' = (simio_halt \/ (Prints /\ mem_req.wdata = HALT))
  /\ console' = IF Prints /\ mem_req.wdata # HALT
                THEN Append(console, mem_req.wdata) ELSE console

\* A read of the console, which holds nothing, is not answered.
ReadyPulses_WritesOnly ==
  /\ ram_ready_r' = (mem_valid /\ sel_ram /\ ~ram_ready_r)
  /\ simio_ready_r' = Prints

ReadyPulses ==
  /\ ram_ready_r' = (mem_valid /\ sel_ram /\ ~ram_ready_r)
  /\ simio_ready_r' = (mem_valid /\ sel_simio /\ ~simio_ready_r)

ToWrap == [valid |-> mem_valid /\ sel_accel, off |-> mem_req.off,
           wdata |-> mem_req.wdata, wstrb |-> mem_req.wstrb]

Accelerator ==
  /\ WrapClock(ToWrap)
  /\ port' = IF accel_wen(ToWrap)
             THEN Append(port, <<mem_req.off, mem_req.wdata>>) ELSE port

-----------------------------------------------------------------------------
(* The memory port of the processor.                                       *)

Ask(r) ==
  /\ ~mem_valid
  /\ mem_valid' = TRUE
  /\ mem_req' = r
  /\ UNCHANGED mem_rdata_q

Quiet == ~mem_valid /\ UNCHANGED cpuVars
Wait == mem_valid /\ ~mem_ready /\ UNCHANGED cpuVars

\* mem_xfer
Take ==
  /\ mem_valid /\ mem_ready
  /\ mem_valid' = FALSE
  /\ mem_rdata_q' = mem_rdata
  /\ UNCHANGED mem_req

CpuPort(requests) == (\E r \in requests : Ask(r)) \/ Quiet \/ Wait \/ Take

-----------------------------------------------------------------------------

Devices == RamData /\ SimioData /\ ReadyPulses /\ Accelerator

SocClock == CpuPort(Requests) /\ Devices

\* resetn low at a clock edge: the always blocks of the RAM and of the
\* console do not look at it.
\* An answer that is up at that edge is still taken; the registers of the
\* accelerator, reset asynchronously, read 0 by then.
SocReset ==
  /\ mem_valid' = FALSE
  /\ mem_rdata_q' = IF ~(mem_valid /\ mem_ready) THEN mem_rdata_q
                    ELSE IF sel_accel THEN 0 ELSE mem_rdata
  /\ UNCHANGED <<mem_req, port>>
  /\ RamData
  /\ SimioData
  /\ ram_ready_r' = FALSE
  /\ simio_ready_r' = FALSE
  /\ WrapReset

SocInit ==
  /\ WrapInit
  /\ mem_valid = FALSE
  /\ mem_req = NoRequest
  /\ mem_rdata_q = 0
  /\ ram = [i \in 0 .. RamWords - 1 |-> 0]
  /\ ram_rdata = 0
  /\ ram_ready_r = FALSE
  /\ simio_halt = FALSE
  /\ simio_ready_r = FALSE
  /\ console = <<>>
  /\ port = <<>>

SocNext == SocClock \/ SocReset

SocSpec == SocInit /\ [][SocNext]_socVars

-----------------------------------------------------------------------------

SocTypeOK ==
  /\ TypeOK
  /\ bus_ready \in BOOLEAN
  /\ mem_valid \in BOOLEAN /\ mem_req \in Requests \cup {NoRequest}
  /\ mem_rdata_q \in Word
  /\ ram \in [0 .. RamWords - 1 -> Word] /\ ram_rdata \in Word
  /\ ram_ready_r \in BOOLEAN /\ simio_ready_r \in BOOLEAN
  /\ simio_halt \in BOOLEAN

(* The SoC keeps the promise of its memory map: each access is served by   *)
(* one device, once, and a read answers what that device holds.  The RAM   *)
(* write that happens twice and the three separate ready flags must not    *)
(* show (soc_top.v:80-87, 138-158).                                        *)
Map == INSTANCE MemoryMap WITH
  RamIndex <- ram_word_addr,
  Words <- Word,
  phase <- IF ~mem_valid THEN "idle"
           ELSE IF mem_ready THEN "served" ELSE "asked",
  req <- mem_req,
  halted <- simio_halt,
  regs <- [off \in {r.off : r \in Requests} |-> rdata(off)],
  got <- mem_rdata_q

MapSpec == Map!Spec

(* Every access to a mapped address ends: the processor, which has no bus  *)
(* timeout, is not left waiting.                                           *)
AccessEnds == mem_valid /\ mem_req.sel \in 0 .. 2 ~> ~mem_valid

=============================================================================
