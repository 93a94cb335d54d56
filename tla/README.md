# Formal models of blindsig-accel

TLA+ models of the blind-signature accelerator, the hardware and software
around it and its web demonstration; TLC configurations that check them on
small words; and TLAPS proofs of the central results for every word width.

Contents: [the system](#the-system) · [modules](#modules-and-the-code) ·
[runs](#what-the-runs-show) · [bounds](#bounds) · [fairness](#fairness) ·
[proofs](#what-is-proved) · [disagreements](#disagreements-with-the-repository) ·
[not modelled](#what-is-not-modelled) · [plan](#plan)

## The system

A RISC-V processor squares a number modulo another by writing it to a
memory-mapped peripheral. The peripheral reduces the operand with one
constant-time datapath and squares it with a second one.

```
 firmware (C / Rust, blindsig-fw driver)
      | loads and stores
 PicoRV32 -- mem_valid/mem_ready --> soc_top:  RAM | sim I/O | bus wrapper
                                                                  | wen, addr, wdata
                                                            blindsig_accel
                                                    start/done |          | start/done
                                                            redmod ----> mulmod
 web panel (app.js) -- sim_step() --> mulmod, compiled by Verilator
```

All hardware shares one clock and one reset; the peripheral and the datapaths
are reset asynchronously, the bus at a clock edge, the RAM and the console not
at all.

| component | state | operations | what is hard | what makes it correct |
|---|---|---|---|---|
| `mulmod.v` | operand registers, accumulator of WIDTH+1 bits, bit counter, result, done pulse | start, one clock, reset | carries lost at the top bit; one iteration too many or few; data-dependent latency; start ignored while busy | accumulator below the modulus at every clock; result `(a*b) mod m`; the same number of clocks whatever the operands |
| `redmod.v` | the same with a remainder of WIDTH bits | the same | the carry of the doubled remainder is dropped | remainder below the modulus; result `x mod m`; constant latency |
| `blindsig_accel.v` | operand, modulus, result, three flags, two arm flags, pipeline state, two start pulses | CTRL bits START, RESET, LOAD_OP, LOAD_MOD; data writes; two-stage pipeline | commands and pipeline write the same registers in one clock (the later assignment wins); RESET does not reach the datapaths; the modulus is read again for the second stage | STATUS coherent; no start pulse lost; datapath preconditions met; the square of what was loaded, in constant time |
| `lib.rs` driver | none: sequences of volatile accesses | reset, load, start, wait, compute | BUSY and ERROR are two reads; the poll loop has no timeout; methods take `&self` and can be called in any order | `compute` returns the square of the last operand word, or `Err` for a zero modulus; every call returns |
| bus wrapper | one ready flag | read and write transactions | enables must pulse once in a two-clock handshake; read data is of the clock it is taken | one register write per store |
| `soc_top.v` | RAM, its read register, ready pulses, halt flag | decode, three devices, ready multiplexer | RAM write repeated in both clocks, a reset between them; an access that nothing answers | one device, one effect, one answer per access |
| PicoRV32 (third party) | its memory port: request held, word read | ask, wait, take the answer | has no bus timeout | (only its port is modelled) a request is held until it is answered |
| C and Rust firmware | locals | fixed programs of bus accesses | a reset in the middle of an operation starts the program over, the RAM and the console stay; the processor's pace decides what the poll loop sees | the report is printed once and in order, ends in PASS, and the program halts |
| `tb_soc.v` and the `Makefile` that greps its log | clock counter, log | reset, watchdog, halt, trap | three ends may fall in one clock; an access nothing answers stops the processor and nothing else | the simulation ends whatever the firmware does; the verdict is PASS by the firmware's own halt |
| `makehex.py` | none | bytes to words | a tail that is not a whole word; an image longer or shorter than the RAM | the processor finds byte `k` at address `k`, zeros behind the image |
| `app.js` + `mulmod_sim.cpp` | fields, disabled flags, state word, interval, timeout, circuit, what is drawn | run, step, prove, reset, edit, interval, timeout, boot, failed boot | callbacks of earlier runs firing into later ones; closures over old operands; one global flag written by every handler | the cross-check never fails; state word, readouts, lit path and caveat tell the truth about the circuit; no interval is lost; a run ends |

## Modules and the code

An action models a rising edge of `clk` or a JavaScript callback; variables
have the names of the registers. Registers that the Verilog assigns in one
edge are primed together, and where two assignments of one `always` block
collide the later wins, as in the code.

| module | models | how it corresponds |
|---|---|---|
| `Words` | machine words | a register of *n* bits is a number below `Pow2[n]`; a dropped carry is a remainder |
| `MulMod` | `mulmod.v` | one action per case of the always block (`Rest`, `Latch`, `Iterate`, `Finish`); ports are parameters; `Clock` is the whole block |
| `MulModFormal` | the `FORMAL` block of `mulmod.v` | the harness (`f_*` registers, the assumed precondition, the asserted range and equality) as environment of `MulMod` |
| `RedMod`, `RedModUser` | `redmod.v` and an environment for it | the same, for the reduction |
| `ConstTimeUnit` | nothing: abstract | what both datapaths promise: an operation is answered with its value after a fixed number of clocks |
| `BlindsigAccel` | `blindsig_accel.v` | instances of both datapaths; `Command` (CTRL and data writes) and `Pipeline` are the two halves of the always block, in its order; `Clock(w)` is one edge with the register write `w` |
| `AccelAnyHost` | the peripheral under any software | any write in any clock, `rst_n` at any time |
| `AccelCarefulHost` | the peripheral under software that polls | no RESET and no MODULUS write while BUSY; everything else is still free |
| `SquareService` | nothing: abstract | the promise of the peripheral: a job, a fixed number of clocks, an answer |
| `Driver` | `lib.rs` over `BlindsigAccel` | a method is the sequence of its register writes, then the poll loop, the ERROR read and the RESULT read; any number of clocks passes between accesses; methods come in any order. `pending` is a history variable: it records whether a `start()` was waited for |
| `BusWrap` | `blindsig_bus_wrap.v` over `BlindsigAccel` | enables as operators, the ready flag as a variable |
| `SocTop` | `soc_top.v` over `BusWrap`, with the memory port of `picorv32.v` | one operator per always block, conjoined in `Devices`; `CpuPort(requests)` is the processor's port, which holds its request until it is answered |
| `MemoryMap` | nothing: abstract | an access takes effect once, in one device, and is then answered |
| `Firmware` | `start.S` with `test_accel.c`, and `main.rs`, over `SocTop` | a program is a table of its accesses outside the RAM (`Accesses`) and of what follows each (`After`); between two of them, fetches and stack accesses at any pace. The program `"wild"` is any other: it makes any access at any time |
| `TestBench` | `tb_soc.v` over `Firmware`, and the verdict of `blindsig-soc/Makefile` | one clock of the bench is one of the SoC; `Displays` are the three conditions of its always block, `Verdict` the order of the greps |
| `MakeHex` | `makehex.py`, and what `$readmemh` makes of its output | a step prints one line, that is, one word of the RAM |
| `Annunciator` | what `app.js` draws, over `MulMod` | one record, and one operator per way in which a callback changes it, built from the setters of the code; `cyc`, `acc` and `res` are the readouts `#cyc`, `#accv` and `#resv`, each a number, a dash or the ellipsis of a run |
| `DemoPanel` | `app.js` over `mulmod_sim.cpp`, over `Annunciator` | one action per event; a callback that clocks the circuit several times is several steps during which `js` is not `"idle"` and no event happens, as JavaScript runs a callback to its end. `typed` and `due` are history variables: the fields as they were read last, and the product of the operands a run or a step armed last |

The modules named `...Proofs` hold the theorems: `WordsProofs` the arithmetic and
the induction that the others share, `AccelProofs` the peripheral under both
hosts, `SocProofs` the SoC, the programs and the bench, each other the module it is named
for. `SocProofs` and `DriverProofs` are each an instance of `AccelProofs` for the
host they have, and so use its lemmas on a single clock.

Operators named `X_SomethingWrong` beside an operator `X` are plausible faults
of the code, kept to show that the properties notice them; nothing uses them.

Abstractions. Words are 3 or 4 bits wide in the runs, any width in the proofs.
A byte lane of the bus is one bit. Only the word offset of an address is kept,
with the decoded top bits. In `MulMod` and `RedMod`, `cnt` is a number and not
a bit vector: type correctness shows it stays within the bits it has. `ren` and
`accel_ren` drive nothing in the code and are left out. A string that the
firmware prints is one store and not one for each character, so a line of the
report is one entry of `console`; each single store is covered by `MapSpec`. A
byte of an image is a number below `ByteRadix`. Of the page, the log of
finished operations, the rows of the demonstration's table and all wording are
left out; everything that is redrawn while the circuit runs is in `shown`.
`setProg`, `setRes` and `updateAcc` write to `#prog`, `#res2` and `#acchex`,
which `index.html` does not have: they do nothing on this page, and nothing is
modelled for them.

## What the runs show

| run | model, configuration | properties | states |
|---|---|---|---|
| `mulmod` | `MCMulMod`, WIDTH 4, operations back to back, resets at any clock, all operands that meet the precondition | widths; the accumulator below the modulus at every clock; with `done`, `result = (a*b) mod m`; **implements `ConstTimeUnit`**: exactly WIDTH clocks after the start | 119 041 |
| `redmod` | `MCRedMod`, WIDTH 4, starts also while it runs | widths; the remainder below the modulus; **implements `ConstTimeUnit`** | 14 881 |
| `accel_any_host` | `MCAccelAnyHost`, WIDTH 4 | widths; STATUS coherent; `mulmod` idle whenever it is told to start; BUSY falls again, at most 2·WIDTH+4 clocks after it rose | 65 896 |
| `accel_careful_host` | `MCAccelCarefulHost`, WIDTH 4 | datapaths started within their preconditions; **implements `SquareService`**: the square of the operand loaded at START, 2·WIDTH+4 clocks later | 40 224 |
| `driver_compute` | `MCDriver`, `MCDriverCompute.cfg`, WIDTH 4, all methods in any order, slices of 0 to 2 words | `compute` returns the square of the last operand word modulo the last modulus word, `Err` exactly when that is 0, unless an earlier `start()` was not waited for; every call returns, with each access fewer left | 369 213 |
| `soc_bus` | `MCSocTop`, WIDTH 4, the C program, the Rust program and any other, resets at any clock | **implements `MemoryMap`**; every mapped access ends; the two programs print their report and halt | 59 328 |
| `soc_bench` | `MCTestBench`, WIDTH 4 | the simulation ends whatever the firmware does; with the two programs the verdict is PASS, by their own halt, within the clocks they are shown to need | 278 617 |
| `make_hex` | `MCMakeHex`, all images up to six bytes, memories of up to three words | byte `k` of the image is at address `k`, zeros behind it | 10 930 |
| `demo_panel` | `MCDemoPanel`, WIDTH 3 | no FAULT; state word, lit box, lit path, readouts, contrast bar and caveat agree with the circuit and the fields; the result shown is that of the last run; no orphan interval; the demonstration's verdict; a run ends | 593 224 |
| `driver_abandoned`, `accel_reload`, `demo_primed` | | see [disagreements](#disagreements-with-the-repository) | |

Two configurations stop by themselves and say so (`CHECK_DEADLOCK FALSE`): the
bench at its `$finish` and `make_hex` at its last line.

Why the less obvious ones matter:

- `MulStartKept` (`accel_any_host`): RESET returns the pipeline to idle but
  leaves a datapath running. A later operation meets a `redmod` or `mulmod`
  that is still at work, and both ignore `start` while they run. It holds only
  because the two latencies are equal and constant: the second operation's
  `mulmod_start` comes no earlier than the clock after the abandoned product.
  There is no clock to spare. (That the *result* of an operation started
  after a RESET in flight is its own is not claimed: see below.)
- `StatusCoherent`: the driver reads BUSY and ERROR in two accesses.
- `BusyCountsDown` (`accel_any_host`): a start pulse that comes while a datapath
  is still at work on an abandoned operation is swallowed, and the pipeline
  goes on with that operation's done pulse instead. The new operation then ends
  *early*; no host can make one that ends late, or not at all.
- `CallsCountDown` (`driver_compute`): the poll loop of `lib.rs` has no timeout.
  A wait polls 2·WIDTH+5 times at most, whatever was called before it, the
  sequences that make the result wrong (disagreement 1) included.
- `ComputeCorrectIfWaited` (`driver_compute`): the boundary of disagreement 1.
  Armed registers, loaded operands and results that other methods leave behind
  do not matter to `compute`; only an operation nobody waited for does.
- `MapSpec` (`soc_bus`): the RAM is written in both clocks of the handshake,
  the console must print in one, the accelerator must be written in one, and a
  reset can fall between them. Refinement to `MemoryMap` says none of it shows.
- `ReportRight` (`soc_bus`): `resetn` may fall in the middle of a print, of the
  poll loop or of an operation. The program starts over on a console, a RAM and
  a halt flag that keep what they had, and must still print its four lines, in
  order, with the right result.
- `BenchEnds` (`soc_bench`): thirteen address ranges have no device, so an
  access to one is never answered and the processor has no timeout of its own.
  What saves the simulation is the watchdog of the bench, which must count
  through it.
- `HaltsInTime` (`soc_bench`): the watchdog must not end a simulation of a
  program that is merely slow. `ClocksNeeded` is a formula in WIDTH, the pace
  of the processor and the length of the reset, and is tight: at its value for
  the bounds of the run the run passes, with a watchdog one clock shorter it
  does not.
- `LitWhileComputing`, `LivePath`, `ReadoutsTellCircuit`, `CaveatTold`
  (`demo_panel`): a run can be left by its last interval, a step, a reset, the
  demonstration or the timeout that starts it, and each of these draws a part
  of the page of its own; `reducedA` is one global flag that a demonstration
  between a run and its end overwrites. In STANDBY the counter and the
  accumulator show which of two ways led there: 0 and 0 after a reset, the
  proven cycle and a dash after a demonstration.
- `ResultOfLastRun` (`demo_panel`): the result is written only when an operation
  is armed and when it ends, so resets and demonstrations leave it standing.
  What stands there is never a product of the demonstration's, nor of any
  operation but the one armed last, although the circuit and the operands
  loaded have changed meanwhile.
- `NeverFault` (`demo_panel`): a run compares its result with the operands its
  closure was given, on a circuit every other handler can reload.

## Bounds

- WIDTH. The datapaths treat every bit alike, so 3 or 4 bits reach every
  comparison and every lost carry; `mulmod` takes all operands of 4 bits, and
  the proofs cover every width. WIDTH 4 is the least at which a RESET, a reload
  of the operands and a second START fit into one running reduction, so that
  the abandoned operation overlaps the new one (`accel_any_host`). It is also
  the least that holds the operand 10 of the integration programs.
- `Operands`, `Moduli`: sets with zero, one, operands above and below the
  moduli and moduli above half the range. The control of the peripheral tells
  apart only a zero modulus; the values matter to the datapaths.
- `ModulusArgs`, `OperandArgs`: slices of zero, one and two words, zero words
  first and last; a method loops over a slice and only the last word stays. The
  run that finds a counterexample has one of each.
- `soc_bus`, `soc_bench`: two RAM words, and for the program `"wild"` one access
  of each kind (whole and partial writes, an address above the RAM, registers
  that cannot be written or read, a range nothing answers). `MaxEffects` bounds
  its prints and accelerator writes to 2, enough for one to follow another and
  for the accelerator to be started; whole operations are what the two programs
  are for. Reads and RAM accesses are not bounded.
- `MaxGap` 2: clocks between two accesses of a program. Every sequence of none,
  one or two RAM accesses and pauses occurs, so that the poll loop looks at
  every phase of an operation. `MaxResets` 1 in `soc_bus`: one reset at any
  clock, and the program once more; the bench itself resets only at its start.
- `CYCLES` 139 (100 000 in the code): `ClocksNeeded` for this `MaxGap`, the
  shortest watchdog that lets every program halt. `ResetEdges` 2 (10): the registers have their
  reset values after the first.
- `make_hex`: `ByteRadix` 3, so that 0, 1 and the largest byte differ; images
  of up to a word and a half and up to three words of memory, so that the image
  is shorter than, as long as and longer than the memory, with every tail. The
  proofs cover every radix, image and size.
- `demo_panel`: 24 contents of the fields: operands below and above the
  modulus, moduli that are clamped, all bits of `b` set, some and none. Two
  interval identifiers suffice, since one is in use at most. The timeout of
  900 ms and the interval of 70 ms have no fixed order: the run takes 33
  intervals, 2.3 s, so the timeout may fall anywhere in a second run.

## Fairness

- The clock does not stop: `WF` of the clock action in `AccelAnyHost` and
  `Firmware` (it is free-running in the SoC). The host owes nothing in
  `AccelAnyHost`: it may write or not. Nor does the program `"wild"`; the two
  integration programs make their next access after `MaxGap` clocks, by their
  guard and not by fairness.
- The bench toggles its clock until `$finish` (`FairBenchSpec`). The fairness is
  of clocks in which `trap` does not change, so `BenchEnds` does not
  rest on the processor trapping.
- The program makes the next access of a call it is in (`WF` of `Access` in
  `Driver`, each access being a clock); it may call a method or not.
- An interval that runs fires again, and a callback runs to its end
  (`DemoPanel`); the user does whatever he likes.

Resets are allowed at any time and never fair; `Halts` holds because there are
finitely many (`MaxResets`), as it must: a program that is reset for ever does
not halt.

## What is proved

TLAPS checks, for every WIDTH and all sets of operands, slices, fields and
images:

| theorem | says |
|---|---|
| `MulModProofs!TypeCorrect`, `ReductionHolds`, `EquivHolds` | the three assertions of the harness of `mulmod.v`, there checked up to a depth and (equality) at 5 bits |
| `MulModProofs!UnitImplemented`, `RedModProofs!UnitImplemented` | both datapaths implement the constant-time unit |
| `RedModProofs!TypeCorrect`, `RemainderHolds` | the registers keep their widths; the remainder stays below the modulus |
| `AccelProofs!TypeCorrect`, `StatusAlwaysCoherent`, `MulStartNeverLost` | under any host whatsoever |
| `AccelProofs!BusyAlwaysEnds` | under any host, BUSY counts down from 2·WIDTH+4 clocks: it falls again |
| `AccelProofs!PreconditionsKept` | a host that leaves a busy peripheral its modulus never starts a datapath outside its precondition |
| `AccelProofs!ServiceImplemented` | under such a host the peripheral implements `SquareService`: the right value, in constant time |
| `DriverProofs!DriverTypeCorrect`, `ComputeCorrectAfterWaits` | `compute` is right after any calls of the other methods, for slices of any length, unless a `start()` was not waited for |
| `DriverProofs!CallsAlwaysEnd` | every access leaves a call fewer to make, and no clock gives one back: it returns, after any other calls |
| `SocProofs!SocTypeCorrect`, `MapImplemented` | the SoC implements `MemoryMap` for a processor that asks for anything, with resets at any clock |
| `SocProofs!FirmwareTypeCorrect`, `FirmwareOnMap`, `ReportCorrect` | the same under the programs, and the report of the two integration programs is right at every clock |
| `SocProofs!IntegrationCorrect`, `ProgramsInTime`, `BenchOnMap` | the simulation of either program ends by its own halt with the verdict PASS, within `ClocksNeeded` and so before the watchdog; what is simulated implements `MemoryMap` |
| `PanelProofs!TypeCorrect`, `CrossCheckNeverFails`, `StateWordTrue`, `IntervalsHeld`, `DemonstrationTrue`, `GlowTrue`, `PathTrue`, `ReadoutsTrue`, `ResultTrue`, `ContrastTrue`, `CaveatTrue` | the eleven invariants of the panel |
| `MakeHexProofs!TypeCorrect`, `ImageIsFaithful` | the image builder, for every image, memory size and byte radix |

Assumptions. `WidthAssumption` (WIDTH is a number of at least 2: the part
selects of the code need it) and `Pow2Assumption` (the table of powers of two
satisfies its two equations; the provers know nothing of exponentiation);
`HostAssumption` and `ArgsAssumption` (a host writes words, a program passes
slices of words); `LanesAssumption` (on the bus WIDTH is at least 4: STATUS and
CTRL have four bits, and the integration programs load 10); `SocAssumption`
and `FirmwareAssumption` (the form of a request and the kinds of the bounds);
`AccessesAssumption` (what the programs ask for is among the requests the SoC
is looked at under); `BenchAssumption` (the reset of the bench is at least one clock long) and
`WatchdogAssumption` (`ClocksNeeded <= CYCLES`; with the code's 100 000 clocks,
a reset of 10 and WIDTH 32 it holds for up to 2378 RAM accesses in a row
between two accesses of a program); `FieldsAssumption` (the fields hold words; the page clamps
them); `HexAssumption` (bytes are below `ByteRadix`, which is not 0). Nothing
else; TLC evaluates each in a run.

Arguments.

- *Datapaths.* That the accumulator is right at the end is not inductive. The
  invariant (`Accumulated`) follows the bits already consumed: there are
  numbers `p`, the prefix of `b`, and `q` with
  `b * 2^(WIDTH - cnt) = p * 2^WIDTH + b_reg` and `acc + q*m = a*p`, and
  `acc < m`. A clock doubles `p` and adds a bit. `WordsProofs` has the facts
  about shifting and the uniqueness of the remainder. `redmod` has the same
  argument with `Consumed`.
- *Any host* (`Race`). `MulStartKept` does not mention the datapaths'
  counters, so it says nothing of the clock before. The invariant bounds the
  counter of a running multiplier by that of the running reduction for every
  pipeline state: a multiplication that RESET has left behind ends no later
  than the reduction that must precede the next one.
- *Careful host* (`CInv`). Three cases, one per pipeline stage: at rest both
  datapaths are idle; while reducing, `redmod` works on the shadowed job and
  `mulmod` is idle; while multiplying, `mulmod` works on its remainder. Each
  case instantiates the invariants of the datapaths and the last step uses
  `(x mod m)^2 mod m = x^2 mod m`.
- *BUSY* (`BusyLeft`, `Awaited`). `BusyLeft` reads off the pipeline state and
  the counter of the datapath it waits for how many clocks are left at most.
  That it falls needs `Awaited`: whoever reduces or multiplies waits for a
  datapath that is at work, has just been told to start, or is answering.
- *Driver* (`DInv`). The driver is not a careful host: between `start()` and
  the wait it may load another modulus. So the invariant has two layers.
  `Control` is the state of the pipeline and of the datapaths without their
  data: whatever is loaded in flight, the operation ends and leaves both
  datapaths idle, as long as nobody resets a busy peripheral. It holds until an
  operation is lost (`pending = "lost"`), and a wait turns it into a peripheral
  at rest. `Stage` is about data, and only for a `compute` that began at rest:
  `Loaded(k)` says what the first `k` writes have put where, by the place of a
  write in the flattened sequence; after START it is `CInv` of the job that the
  call asks for, until `Squared`. That the flattened sequence is what it looks
  like (`ComputeWrites`) is an induction over the slices; `FiniteInduction`
  proves the one form of induction needed, over an interval, from the
  cardinality of finite sets.
  `CallLeft`, the accesses left to a call, adds to the writes and reads to come
  one poll for each clock of `BusyLeft`: the poll that finds BUSY up is the
  clock that takes one off.
- *SoC* (`SocInv`). At most one of the three ready pulses is up, only while the
  request is held, and only for its device; the RAM then already has the word
  written, and `ram_rdata` the word read. The effect of an access in `MemoryMap`
  is the clock that raises its pulse. The second clock of a RAM write writes
  the same lanes over the same word (`Merge` is idempotent), and a reset between
  the two finds it already written.
- *Programs* (`ProgramInv`). Four parts: the request on the bus is that of the
  point the program is at; the accelerator is as far as the writes made by then
  (`Prepared`, `Loading`), at rest or at work on the job 10 mod 7, on `CInv`
  again; the console is what it was when the program started and the lines of
  the points passed; the answer read is 2. A point whose access has taken
  effect and is not yet answered counts as passed. A reset of the SoC keeps the
  console and moves the start of the report.
- *Bench* (`BenchInv`). `ProgramInv`, and a timer: `HaltLeft` bounds the clocks
  left from the state of the program (the accesses to come, each of `Period`
  clocks), of the access under way (`AccessLeft`) and of the operation
  (`Latency`), and `cycle_count + HaltLeft <= ClocksNeeded` at every clock. A
  poll that finds BUSY up costs a period and gives none back, so the polls are
  paid for by the clocks of the operation and what is left of one period. So
  neither the watchdog nor a trap ends the simulation, and at the halt
  `ReportCorrect` gives the log its PASS.
- *Panel* (`PanelInv`). Before boot, after boot, and in the middle of a callback
  are three states of their own. After boot: the circuit runs the operands
  loaded, with the datapath invariant carried as a product of powers of two so
  that `LivePath` can read the bit out of it; the one interval and its closure
  belong to the operation the state word names; and the page drawn follows the
  registers. `due` is the product of the operands loaded while the operation
  armed last has not been replaced by a reset or a demonstration, which is what
  makes the result shown at its end the right one. A callback of several clocks keeps the circuit's part and has its
  own account of the demonstration. One lemma per handler.
- *Image builder*. Each printed word is a number in base `ByteRadix`; the lemmas
  take its lanes by division, one after the other, using only that each byte is
  below the radix. `ImageFaithful` together with the length of the RAM is
  inductive: a line adds one word and changes none.

TLC also finds the invariants of the driver, the SoC, the programs and the panel
to hold on the small instances of the runs, with their quantifiers over all
numbers bounded.

What stays with TLC: liveness (`BusyEnds`, `CallsReturn`, `AccessEnds`, `Halts`,
`BenchEnds`, `RunEnds`), which the prover does not reach. For the first two
and for the programs in the bench the measure that falls is proved, and only the
step from there to "eventually", by fairness, is left to TLC. The three properties of the
[disagreements](#disagreements-with-the-repository) are false.

## Disagreements with the repository

1. **RESET lost on one clock** (`driver_abandoned`, `blindsig_accel.v:178`,
   also `:186`). The pipeline's assignments come after RESET's in the same
   always block. A RESET written in the clock in which `redmod_done` or
   `mulmod_done` is up clears the flags but not the pipeline state; BUSY reads
   0 and the next START is ignored. With `start()` called earlier and never
   waited for, `compute(&[7], &[10])`, documented in `lib.rs:11` to return 2,
   returns `Ok(0)`. Programs that wait for what they start before they call
   `reset` or `compute` are not exposed (`ComputeCorrectIfWaited`,
   `driver_compute`), among them every program that only calls `compute`.
2. **Modulus replaced in flight** (`accel_reload`, `blindsig_accel.v:171`).
   MODULUS writes are accepted while BUSY is up; `mulmod` then starts with an
   operand reduced by the old modulus, against its stated precondition
   (`mulmod.v:17`).
3. **Panel left disabled** (`demo_primed`, `app.js:149`). `prove` during a run,
   clicked or fired by its timeout, ends in STANDBY with the Run button and
   the fields disabled, where `app.js:143` says "leave the live panel primed
   for a fresh Run". Reset enables them again. So does Step: its first step
   loads a new operation and enables the Run button, its last the fields.

Beside these: `index.html:41` says that every readout is live from the registers
of the circuit. Two are not, at rest. Reset and the demonstration leave in
`#resv` the result of an operation that is gone, or the ellipsis of one that
never ended (`resetPanel` clears it only through `setRes`, and so in `#res2`,
which is not on the page); the demonstration leaves a dash in `#accv`.
`ResultOfLastRun` and `ReadoutsTellCircuit` state what these two do show.

`mulmod.v:17` asks for `b < m`, which the demonstration does not
respect (`app.js:105`). `DemonstrationHolds` shows that the result is right all
the same.

## What is not modelled

- The inside of PicoRV32, a third-party core that is kept in the repository as
  it is. `SocTop` has its memory port; what it may ask for is any sequence of
  accesses (`"wild"`) or those of the two programs. That it executes their
  instructions in order is assumed. Its compressed-instruction decoder,
  interrupts, co-processors, look-ahead interface and trace port are configured
  out by `soc_top.v`.
- The panic handler of `main.rs`: no access of that program panics.
- The unit testbenches: straight lines of tests, read for what they expect. The
  sequence of `tb_blindsig.v` is one that `Driver` makes.
- Build and CI scripts: they run tools one after the other and keep no state.
- The generated loader of the compiled circuit. That loading it may fail is
  `LoadFails` of `DemoPanel`.
- On the page, the log of finished operations, the rows of the demonstration,
  wording, and `copyCode`, which it does not use.
- The electrical side: metastability, reset that is removed near a clock edge.

## Plan

Done, in this order: words and datapaths, their abstract unit, the peripheral
under two hosts, the service it implements, the driver, the proofs of the
datapaths and the peripheral, the SoC bus, the panel and what it draws, the two
integration programs, the simulation bench, the image builder and its proof; the
proofs of the panel, of the memory map, of the two programs and of the driver;
the proofs that BUSY falls, that calls return and that the bench passes, in time.

Next:

1. Optionally the memory interface of `picorv32.v` with its own assertions, in
   place of the arbitrary requester.
