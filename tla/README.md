# Tiny Vedas: a TLA+ model of the core, its accelerator and its tools

Tiny Vedas is an in-order RV32IM + Zve32x core in SystemVerilog (`rtl/`), a SoC
around it (AXI4 bridges, data memory, an 8x8 int8 GEMM accelerator), an
instruction-set simulator and a trace comparer (`tools/`), PyVedas, a JIT that
compiles PyTorch graphs to C for the core (`pyvedas/`), and the host programs of
an FPGA card (`fpga/`, `models/`). In the RTL the difficulty is concurrency:
units with different latencies, two beats of one access, one-cycle pulses between
state machines, masters that share a memory port; one step of those modules is
one clock cycle, in which all the registers of the part change together. In the
compiler it is aliasing and tiling over a memory that is given back and reused;
in the tools it is state that outlives a process, threads, hangs and kills.

| file | what it is |
|---|---|
| `Pipeline.tla`, `MCPipeline.tla`, `Pipeline*.cfg` | issue, hazards, scoreboard, writeback of the core |
| `PipelineProofs.tla` | theorems about `Pipeline` |
| `LsuEngine.tla`, `MCLsuEngine.tla`, `Lsu*.cfg` | the load/store engine, the store CAM, the memory ports |
| `LsuProofs.tla` | theorems about `LsuEngine` |
| `GemmJob.tla`, `Gemm*.cfg` | the accelerator: CSRs, job FSM, DMA, datapath, array |
| `GemmProofs.tla` | theorems about `GemmJob` |
| `Storage.tla` | abstract: what an allocator promises |
| `DramImage.tla` | the JIT's first-fit allocator, which implements `Storage` |
| `Shapes.tla`, `Tiles.tla` | the JIT's shape rules and tile planners, as operators |
| `Jit.tla`, `MCJit.tla`, `Jit.cfg`, `JitTwice.cfg` | lowering a graph and running the program; extends the three above |
| `JitProofs.tla` | theorems about `DramImage`, `Tiles` and `Jit` |
| `SimSuite.tla`, `MCSimSuite.tla`, `SimSuite.cfg` | the simulation manager |
| `SuiteProofs.tla` | theorems about `SimSuite` |
| `Card.tla`, `MCCard.tla`, `Card*.cfg` | the FPGA card's driver, tools and programmer |
| `CardProofs.tla` | theorems about `Card` |
| `Words.tla` | the simulator's arithmetic, by size of word |
| `Iss.tla`, `MCIss.tla`, `Iss.cfg` | the instruction-set simulator and its trace |
| `IssProofs.tla` | theorems about `Iss` and `Words` |
| `Divider.tla`, `MCDivider.tla`, `Divider.cfg` | the core's divider, against `Words` |
| `DivisionProofs.tla` | theorems about `Words` and `Divider` |
| `PROJECT.json` | components, runs, mutants, source map, findings, hazards, theorems |

## 1. Inventory

**Pipeline control** (`core_top.sv`, `idu/idu0.sv`, `idu1.sv`, `rsb.sv`,
`scalar/reg_file.sv`). *State*: `idu0_out`, `idu1_out_reg`,
`last_issued_instr`, one scoreboard bit per register, the register file.
*Operations per cycle*: advance, interlock on a pending source (IDU0 waits, an
illegal copy goes to IDU1), stall, redirect (flush). *Interactions*: gets busy
signals and writebacks of the units, `pc_load` of the ALU, `accel_hold` of the
SoC. *Hard*: a stall decision looks only at the previous instruction
(`last_issued_instr`); forwarding lasts one cycle; one scoreboard bit stands
for all writers of a register. *Correct when*: every operand is the result of
the youngest older writer; writebacks of a register are in order; a bit is
cleared by its owner; the front end never stops for good.

**Execution units and writeback** (`exu.sv`, `alu.sv`, `exu_mul.sv`, `div.sv`).
*State*: the ALU's, divider's and vector unit's writeback registers, the
multiplier's sideband pipeline, the divider's FSM. *Hard*: the writeback port
is an OR of the units' buses, with no arbitration. *Correct when*: one unit
drives it at a time; the divider is never asked while it runs; quotient and
remainder are those of the RISC-V manual.

**Instruction fetch** (`ifu.sv`, `imem_to_axi4.sv`, `axi4_iccm.sv`). *State*:
PC, one outstanding AXI read with its tag, a held beat. *Hard*: a redirect while
a beat is in flight. *Correct when*: IDU0 sees each instruction of the path
once, in order.

**LSU** (`lsu_engine.sv`, `lsu_top.sv`, `lsu_store_queue.sv`,
`lsu_load_queue.sv`, `lsu_addr.svh`, `lsu_dccm_bridge.sv`). *State*: DC1, DC2,
DC3, the beat flip-flops, `line_cross_word0`, the store CAM. *Operations*:
accept a request, hold, read one or two words, write one or two beats, forward.
*Interactions*: the core's requests, two memory ports, the DCCM or DRAM behind
them. *Hard*: two beats, three reasons to hold, forwarding from DC2 and the CAM
by byte. *Correct when*: a load returns the youngest store of each byte; a store
reaches memory; nothing holds for good.

**Vector unit** (`vector_top.sv`, `vrf.sv`, `csr_file.sv`). *State*: FSM
(IDLE, REQ, WAIT, ALU, TAIL), element counters, `vl`/`vtype`. *Hard*: element
loop against its own memory port, tail handling. *Correct when*: each element
below `vl` is done once and the others keep or take their tail value.

**GEMM accelerator** (`accel/*.sv`). *State*: CSRs, the seven-state job FSM, tile
position and size, ping-pong buffers, DMA FSM, datapath FSM, pipelined array.
*Operations*: CSR store, START, soft reset; per cycle one FSM step each.
*Interactions*: one-cycle pulses between the FSMs; MMIO stores of the core;
`accel_hold`; the DCCM. *Hard*: pulses that are seen only in IDLE; remainders of
three nested loops; accumulators behind a pipeline; stores already in flight when
a job starts. *Correct when*: DONE means C is the product; a job ends; the core
and a job never touch memory at once.

**Memory ports and bridges** (`dccm_mux.sv`, `gemm_dccm_pair.sv`,
`axi32_to_dccm.sv`, `dmem_to_axi4.sv`, `mmio_axil_bridge.sv`, `axi4_dram.sv`,
`axi4_dram_fpga.sv`). *State*: held requests (one deep), burst counters, last
grant. *Hard*: a held request is replaced by a newer one; reads and writes on
independent channels. *Correct when*: each request is served once, in order.

**PyVedas JIT** (`pyvedas/jit`). *State*: `LoweringCtx` (the buffer, shape and
layout of each node, statements, DCCM needs), the DRAM image with its cursor and
holes, pinned buffers. *Operations*: one handler per kind of node; release of dead
buffers after each node; the op limit and the golden check of the program.
*Interactions*: handlers share the allocator; the program runs over what the
compiler laid out, several times on the card. *Hard*: a buffer has several names;
ragged tiles; one DCCM buffer for all layers. *Correct when*: a statement leaves
what the graph asks for; a buffer dies neither early nor never; what is touched is
declared.

**Simulation manager** (`tools/sim_manager.py`). *State*: the test's work directory
(ELF, images, two logs), which outlives the invocation; the threads of the pool.
*Operations*: build, ISS, build and run the RTL, merge, compare, statistics. *Hard*:
leftovers; a tool that fails, hangs or logs half a line; an exception in one thread.
*Correct when*: a verdict is about this source and this run, and is true.

**Instruction-set simulator** (`tools/rv_iss.py`, `gemm_ref.py`). *State*: pc,
registers, byte memory, vector state, GEMM CSRs, trace. *Hard*: RISC-V arithmetic
in Python's integers; the trace is all the RTL is compared on. *Correct when*: the
arithmetic is the manual's and the trace says what changed.

**Card host** (`vedas_host.py`, `fpga_runner.py`, `fpga_smoke.py`,
`program_fpga.py`, `card.py`). *State*: on the card memories, sticky EOT, UART FIFO,
DRAM window, posted writes; on disk the build directory. *Operations*: halt, load,
start, poll, read back; build or reuse; program the bitstream. *Hard*: none of this
state goes away with the process that made it. *Correct when*: the core starts on
what its tool means, and an answer is of the tool's own run.

**Generated decoders, hardware configuration, the network definition** hold no
protocol state.

`PROJECT.json` lists every component with its sources and status, and under
`hazards` what is hard to test in each, at its line.

## 2. Plan

Done: `Pipeline`, `LsuEngine`, `GemmJob`, `Divider`, the allocator, `SimSuite`, `Card`,
the simulator and the JIT, with their theorems. Left, in order of worth:

1. *`DramPath`*: `dmem_to_axi4` with the FPGA DRAM (single held AW/W/AR, six-cycle
   writes), composed with the order of accesses `LsuEngine` sends. Abstract
   specification: a memory that serves requests in order.
2. *Proofs* of `ResultsRight` and `FitsMemory` (section 11 says what they need).
3. *`DccmArb`* (`dccm_mux`, `gemm_dccm_pair`, `axi32_to_dccm`), which discharges
   the fairness `GemmJob` assumes of the memory; *`MmioBridge`*.
4. *`VectorLsu`*: the element loop against its memory port.

The modules compose where components do: `Jit` extends `DramImage`, `Shapes` and
`Tiles` and is checked and proved to use the allocator as its proofs assume (`ImageSpec`);
`DramImage` implements `Storage`; the order of accesses `LsuEngine` assumes is a
theorem of `Pipeline`, and so is that the divider is asked only when idle; `Iss`
computes with `Words`, and `Divider` is proved to agree with it. The runs are few on
purpose: each asks one question.

## 3. Pipeline

**Abstraction.** Data are the one bit the hazards are about. `rfOld` is the set
of registers whose register-file cell is not the result of the youngest *issued*
writer; a result in flight carries `new`, cleared when a younger writer of the
same register is issued (`Age`). `stale` are the sources of IDU1 captured with a
value that is not current; `WrongOperands` are those still wrong after
forwarding, in the cycle of issue. A register address is the set of its one
bits: the OR-merge of the buses is a union, so a clash can name a third register.
An instruction is a kind, a destination and sources. The illegal copies IDU0
sends while it waits are kept: they are what `last_issued_instr` forgets an
instruction to.

**Correspondence.** `Redirect`, `Stall`, `Interlock`, `Advance` are the four
cases of the front end; each is conjoined with `BackEnd`, the clock edge of the
units, register file and scoreboard. `Environment` chooses whether a START store
in DC2 begins a job (`hold`), whether the access in DC1 or DC2 crosses a line or
waits for DRAM (`mem`), and when they end; `Vector` chooses when the vector unit
finishes and `Div` how long a division takes (1..`DivLat`).

**Hazards the interlocks do not cover.** `Clash`, `EarlyRelease`, `ZeroForward`
and `Overwrite` are reachable (section 12). `taint` records that one has happened, and
the properties of programs that can meet one promise nothing afterwards: what is
checked is that *these four are the only ways* to a wrong operand. `HazardFree` is
checked without multiplies, loads and jumps: it is about divider, vector unit and ALU
on one port, and does not exclude the clash of a load with a multiply or the overtaken
multiply, which the code has.

| run | programs | properties |
|---|---|---|
| `PipelinePlain` | two registers; ALU, branch, nop, div, store, vset, vector | `TypeOK`, `OperandsCurrent`, `HazardFree` |
| `PipelineHeld` | one register, `MulLat` 4; ALU, jal, nop, mul, div, load, store, vector, with jobs and slow memory | `OperandsCovered`, `BitsOwned`, `NothingLost`, `NoMixing`, `ForwardKept`, `KeepsMoving` |

`OperandsCurrent` relates an instruction at issue to the youngest writer of each
source, over forwarding, capture and stalls. `BitsOwned`: each scoreboard bit has
a multiply or load that will clear it. `NothingLost`: each stale register has its
youngest result on the way. `OperandsCovered`: a wrong operand at issue is one of
the four. All three are theorems (section 11), the last for multipliers as deep as
this build's. `NoMixing`: no load and store in DC1 and DC2 together,
which is what makes the LSU engine correct (section 4). `ForwardKept`: the port is
forwarded for one cycle and IDU1 does not keep the value, yet no instruction that
lacks the port's value is ever stalled in that cycle. It depends on who may stall: with a
hold that may rise in any cycle it is false; it holds because `accel_hold` rises
only while a store is in DC2, and no writer is issued right behind a store.

**Bounds.** Interference needs one shared register, and a second to be
independent of; a multiply of four stages outlives the two of the LSU and leaves room
for a wait, a nop and a younger writer in between. `Refill` 2 covers the empty front end after a redirect. `MaxSrcs` 1
suffices since operands do not interact, except that the interlock is a
disjunction over them.

**Fairness.** `FairSpec` asks that cycles keep coming in which no job, slow
access or vector instruction is in progress: WF of `Next /\ Quiet'`. A job ends
(`JobsEnd` of GemmJob), the DCCM answers in the next cycle, DRAM within a bounded
time, and the vector FSM counts down. `KeepsMoving` is then that no scoreboard
bit or stall condition stays for good.

## 4. LsuEngine

**Abstraction.** As above: a byte copy is *current* when the youngest accepted
store wrote it. `old` is the set of memory bytes that are not; every buffer (DC2's
data, `line_cross_word0`, the read ports, the CAM's slot, forwarded words) is the
set of bytes it holds current. `dc3` is "bad" when a load finishes without all its
bytes. The lookup of the CAM uses a word address against an index that is always
0, and the FIFO halves of the queues are never pushed (`lsu_top.sv:328-335`), so
slot 0 is all the state the queues have. Sign extension is left out.

**Correspondence.** `Accept` takes the request of the cycle into DC1, `Hold` is a
cycle with `engine_stall`; both contain the whole clock edge (`Clock`: DC2, DC3,
beats, ports, CAM, memory). `OtherWrite` is a write of the vector unit or the
accelerator, which the core allows only while the engine is empty.
`Serial` is the order of accesses the core guarantees, `NoMixing`, which
`PipelineProofs` proves: the assumption of this module is the theorem of the other.

| run | instance | properties |
|---|---|---|
| `LsuCore` | DCCM, all alignments | `TypeOK`, `LoadsCurrent`, `StoresLand`, `EngineMoves` |
| `LsuShared` | two DRAM lines, one DCCM line, other clients | `OnlyTheCam` |

`EngineMoves` is checked where memory is in the DCCM: a load of DRAM may wait for
ever (section 12). `LoadsCurrent` needs that nobody else writes memory; `OnlyTheCam`
says that the CAM is else the only way a load goes wrong. Both are theorems wherever
DRAM is (section 11). Without `Serial` a line-crossing load
right behind a store loses its first beat (`load_cross_beat` toggles although the
read was blocked); the core never sends that pair.

**Bounds.** A word has two byte lanes, enough for aligned and unaligned accesses; a
line two words, so an access stays in a word, crosses a word or crosses a line;
four words (two lines) let it wrap at the end of the address space. `LsuShared`
has a third line. **Fairness** is the clock (WF of `Next`): the DCCM and the DRAM
stub answer in one cycle, which is part of the model.

## 5. GemmJob

**Abstraction.** Data are symbolic: element e of row-major A or B is the number
e + 1, zero padding is 0, an accumulator is the sequence of the pairs it summed, so
C is right when each cell holds exactly the pairs of its dot product in order.
Addresses are offsets (`aBase = m0*K + k0` and so on): a wrong stride or position
is a wrong pair. A DMA row is one step, at the memory's pace on each port; the
packing of a row into 32-bit beats and the base registers are left out, and so are
reads of the CSRs. `c` is emptied at START so that it shows what *this* job wrote.

**Correspondence.** `Top` is the case statement of `gemm_top.sv` (one action per
state, `Wait` for a state whose condition is false, `Reset` for the soft reset);
`Dma`, `Datapath`, `Array` are the other state machines and all move in every
`Clock`. `cmd`, `dmaDone` and `dpDone` are the registered one-cycle pulses. `Lsu`
is the core: a store issued in a cycle is in DC1, then in DC2 where it takes
effect; `AccelHold` stops the issue, not what is in the LSU.

| run | instance | properties |
|---|---|---|
| `GemmJobs` | sizes 1 and 3 on a 2x2 array with K tiles of 2; job after job | `TypeOK`, `ProductReady`, `PulsesTaken`, `JobsEnd` |
| `GemmBehind` | a store may follow right behind START | violates `JobAlone` |

`ProductReady` is the functional specification: DONE implies that C is the matrix
product of the sizes START saw, for every order of jobs and any pace of the memory
(leftovers of tiles and jobs, ping-pong, `clear_acc`, padding, the drain of the
array); without stores behind START it is a theorem for every size (section 11).
**Finding** `GemmBehind`: stores are pipelined, so the store behind START is
in DC1 when `accel_hold` rises and in DC2 when the job runs: a DCCM store is gated
off (`soc_top.sv:690`) and lost, a CSR store changes the sizes or bases of the
running job. A load or any other instruction behind START waits for the LSU and is safe.

**Bounds.** With tiles of 2, size 3 is a whole and a partial tile and size 1 a
partial one, in each of the three loops; the CSRs start at 0, so jobs of size zero
occur; `MulLat` 1 is the value of `mul_pd_config.svh`. **Fairness**: WF of the cycle
in which the memory answers both ports; the round-robin of `gemm_dccm_pair` and a
core that is held justify it.

## 6. Jit

**Abstraction.** Memory is symbolic: element i of buffer c is an atom, a sum of
products the set of pairs it has added up, so a cell says what was computed and not
only where it is. A 32-bit word of DRAM is kept at its first byte. A graph is a
sequence of nodes with the operation, inputs and sizes a handler reads; values,
names of C variables and the text of the program are left out.

**Correspondence.** `Lower` is `generate`: `VisitInput`, `VisitSkip`, `VisitOutput`
and the `Emit...` actions are the handlers (which may fail as they do), the
allocations they make follow one by one from `todo`, then `_release_dead` looks at
the node's inputs. `Run` executes the statements, one step
of a loop nest at a time, with the op limit and the golden check. `Shapes` has the
shape rules; `Tiles` the planners of `gemm_tiles.py` and the loop nests with their
panels. `DramImage` is `dram.py`; `held` is the only variable the code lacks, the
region each buffer was last given and has not given back. `Storage` is what any
allocator promises: what it hands out is nobody else's.

| property | what it says |
|---|---|
| `TypeOK` | a node's view has as many elements as the buffer it aliases |
| `Tiled` | holes and buffers in use tile the image: no byte in two, none lost |
| `ImageSpec` | on graphs in which no node is the last user of a buffer under two names, the compiler allocates a buffer once and frees what it holds: it is the client the proofs assume |
| `StoreSpec` | the allocator in the compiler's hands implements `Storage` |
| `ResultsRight` | a finished statement left every element the graph asks for, in each run; the golden check passes |
| `FitsMemory` | a step writes its outputs and declared DCCM arrays only; the scratch fits every cut tile |
| `ReleasesRight` | no input is given away before its last use; nothing dead is kept |

**Bounds** (run `Jit`, 24,422 states). Some 350 graphs: one or more for every handler and
every nest (plain, both GEMM panel orders, the three streamed convolution nests, pools in
slabs), shapes that the handlers refuse, and *all* graphs of three operations over
two earlier values, which is enough for two names of one buffer to die in either
order with an allocation between. Sizes leave whole and ragged tiles for a 2x2 array
with K tiles of 2. Two runs, since the second finds the memory the first left, and
each op limit between. Graphs in which one node is the last user of a buffer under
two names are left out (`Clean`): the compiler gives that buffer back twice, and
`JitTwice.cfg` shows what becomes of it (section 12). No fairness: nothing waits.
All but `ResultsRight` and `FitsMemory` are theorems for every set of graphs (section 11).

## 7. SimSuite

**Correspondence.** A thread of the pool goes through `run_gen`, compilation, ISS,
`imem`, the simulator, log processing, comparison and statistics; `at[t]` is where it
is. `Main` waits for the threads in the order of the list and leaves at the first
exception. `work[t]` is the directory that stays. A program is the number of the
checkout it was built from, a logged value the sequence of its `Digits` digits, so that
the cutting and joining of `process_rtl_log` is modelled by what it does: `Joining` says
which lines take the next one in, `Joined` what becomes of the first lines, and `Rows`
which of them `read_rtl_log` keeps, all functions of the number of lines read. The
environment chooses which compiler or simulator step fails, whether the simulator
hangs, and what the RTL logs: the right trace or one with a line wrong, lost, doubled,
missing at the end, or left from an earlier log.

| property | what it says |
|---|---|
| `FreshVerdict` | ELF, images and both logs behind a verdict are of this source and invocation |
| `VerdictRight` | PASSED: the RTL's lines follow the ISS's events, split stores joined; a right core is not FAILED |
| `ExitHonest` | when the manager exits each test has ended; exit 0 means each has a verdict and statistics |
| `Ends` | an invocation with Verilator ends |

**Bounds** (422,846 states). Two invocations with a change of the checkout between,
two threads for up to three tests of each kind; two programs, one a loop whose two
stores differ in the cycle only, one with a jump and a store split over two lines.
Every simulation may log wrong; at most one test of a checkout does not build, since
the builds of different tests do not interact. **Fairness**: each thread and the main thread are scheduled (WF), and
Verilator's `timeout` is a step of the thread; XSim has none, and `Ends` does not
claim it. The four invariants are theorems for any number of each and any programs
(`VerdictRight` for those that `Joins` admits). Assembly tests are left out of the ELF part of `FreshVerdict`, because
their failed build is not noticed (section 12).

## 8. Card

**Correspondence.** A tool is the list of driver calls it has still to make
(`todo`), one step each, `finally` blocks included; `Driver` executes the next,
`Tool` continues with what the source does next. A loop of the source is a call that
puts one round and itself in front of what follows: `FillDram` over the windows of
`load_dram_range`, `RunChunk` over the ops, `PrepareTest` over the runner's tests, each
of which leaves one result (`Judged`). `Core` runs, prints, reaches EOT or
hangs at its own pace. `Kill` ends the process between any two steps and runs no
`finally`. A program that has data changes it while it runs (`CoreStore`), so that a
run that is not preceded by a load of DCCM starts on data of the last. `Program` is `program_fpga.py` with each of its steps failing. A word of
memory says which image and value it holds. Card and `files` survive.

| run | properties |
|---|---|
| `Card` | `StartsLoaded`: the core starts on the image, weights, op limit and picture its tool means. `AnswersOurs`: EOT, UART bytes and results are of the tool's own run. `ExitHonest`: codes keep their word, and a tool that ends by itself stops its core and unmaps the window. `Ends`. |
| `CardStale` | violates `BuildMatches` |

**Finding** `CardStale`: `card.py:124` says the build is reused when it is for this
key, but `ensure_card_elf` writes the stamp apart from the files: a build for another
key that stops between two files leaves a directory whose stamp names the old key.

**Bounds** (168,458 states). Two tools, so that each finds what any other left,
killed anywhere; windows of six words with bursts of four, so that a posted write can
be dropped; two windows of DRAM; a UART of one byte against tests that print one.
`Card` lets builds finish; `CardStale` uses three tools and does not. The safety
properties, and `BuildMatches` for whole builds, are theorems for any number of tools
and any sizes (section 11).
**Fairness**: the tool's process runs (WF of `Driver \/ Tool`); its waits have
timeouts, so `Ends` needs nothing of the core.

## 9. Iss

**Correspondence.** One action per class of instruction, `Leave` and `Misaligned`
for the ends of a run; `Words` is the arithmetic, bit operations and the int8 GEMM
reference at any size of word. An instruction is a record of its fields. Loading
(memory file, DRAM file, data sections) is `Init`. `hidden`, the bytes vector stores
and GEMM jobs wrote since the last line that names them, is the only variable the
code lacks.

| property | what it says |
|---|---|
| `TypeOK` | x0 stays 0, `vl` is at most the register and 0 with an illegal type, no program reaches its text |
| `Replays` | replayed line by line, the trace gives registers, pc, CSRs and memory but `hidden`: what the comparison with the RTL can see is all there is |
| `Arithmetic` | division, remainder, shifts, comparisons, high products and the vector operations are RISC-V's for every pair of words |

**Bounds** (286,711 states). Words of 8 bits (bytes of 2): every pair of operands is
enumerated, once, at the empty program. 32,705 programs: a prefix that loads a
positive word, a negative word and the vector type, then every triple from a pool of
scalar instructions (with negative offsets, misaligned targets, illegal encodings),
quadruples of vector instructions, or jobs of the GEMM block. The
programs neither read nor write their text, which is kept apart; `TypeOK` checks it.
All three properties are theorems, of words of every size (section 11).

## 10. Divider

**Correspondence.** One action per branch of the FSM of `div.sv`: `NextDivision` takes
the division the pipeline brings (`Issue` captures the operands and chooses the path),
`Run` is one step of the iteration, `Done` the last cycle, `Wait` an idle one; each
contains the writeback register (`Writeback`). Registers have the code's widths and
wrap, the partial remainder in two's complement with one bit more. `QuotMag`,
`RemMag` and `ResultFast` are the shortcut; `small_div.sv`, a table in gates, is what
the table holds (its equations give quotient and remainder of all 240 pairs). `taken`
and `shown` remember which division an answer is for.

| property | what it says |
|---|---|
| `AnswersRight` | the answer on the writeback port is the simulator's for the division it belongs to, and goes to that division's register |
| `DividedSoFar` | the bits divided so far are the quotient so far times the divisor plus a remainder below the divisor |

A negative dividend over zero is the one exception, and `AnswersRight` says what it
gets: all ones and the dividend are already signed, and the shortcut applies the sign
again, so that DIV gives 1 and REM the negated dividend. `tests/asm/div_regression.s:6`
claims the semantics of the M extension, and divides only a positive number by zero.

**Bounds** (507,848 states). Words of 8 bits, `small_div` of 4: every dividend with the
divisors around zero, half, both ends of `small_div` and their negatives, signed and
unsigned, quotient and remainder; then pairs of divisions of every path, since the
second finds the registers of the first. No fairness: the iteration counts to the
width; that the pipeline waits for it is in `Pipeline`.

## 11. Proofs

`PipelineProofs` holds for every register width, set of instructions, latency and
environment, from `PipelineAssumption` alone (types of the constants).

* `PipelineTypes`: `Spec => []TypeOK`, by `BackEndTypes` and `FrontEndTypes`.
* `DividerBlocksIssue`: `Spec => []DivBlocks`, nothing is issued while the divider
  runs: what `Divider` assumes of the pipeline. `DivBlocks` is not inductive: it
  needs that while the divider runs, `last_issued_instr` still is the division,
  which in turn holds because a stalled pipeline keeps it (`DivInv`).
* `LoadsAndStoresApart`: `Spec => []NoMixing`. The strengthening `MixInv` adds
  that the kind of the access in DC1 is the one `last_issued_instr` holds: the
  stall of the other kind rests on nothing else. It discharges the assumption
  `Serial` of `LsuEngine`.
* `PlainOperands`, `PlainHazards`, `PlainForward`: under `Plain` (no multiply or
  load, x0 is not a destination, nothing holds the core) `OperandsCurrent`,
  `HazardFree` and `ForwardKept` always hold. `PlainInv` says that at most one
  result is outstanding (`OneResult`), that a stale operand or cell is explained
  by it (`StaleExplained`), and that the vector unit runs alone. The assumption
  cannot be dropped: section 12 has programs with multiplies and loads that break it.

The other theorems of `PipelineProofs` admit multiplies, loads, slow memory and jobs.

* `ResultsArrive`: `Spec => []NothingLost`. Each result is one stage nearer to the
  port in the next cycle (`ResultsMove`), and what reaches it alone is what it shows
  (`PortShows`); that the divider, which keeps its result for several cycles, is not
  started again meanwhile is `DivBlocks`.
* `BitsAlwaysOwned`: `Spec => []BitsOwned`; the owner of a bit moves with its
  operation, and the write that ends it clears the bit.
* `OperandsAlwaysCovered` and `ForwardsKept`: `OperandsCovered` and `ForwardKept`
  always hold if `MulLat <= Refill + 5` (`RefillCovers`; the build's is 5). In
  `CoverInv`, `BitsSet` says that the result of a multiply or load has its bit in the
  scoreboard, or has lost it to a redirect whose refill it will not outlast, which is
  where the assumption comes from (section 12 shows that it is needed); `UnitsAlone`,
  that nothing which could hold the core is under way when any other unit brings its
  result; `Explained`, that an operand captured without its value is what one of those
  units brings next, or the divider at the end of its stall.

`LsuProofs` holds for every size of words, lines and memory (a whole number of
lines) and every set of access sizes up to a word, from `LsuAssumption`.

* `LsuTypes`: `Spec => []TypeOK`.
* `StoresReachMemory`: `Spec => []StoresLand`, wherever DRAM is, in any order of
  accesses, and whatever other clients write. `StoreInv` adds what makes it
  inductive: a store in DC1 is whole, what a store in DC2 has lost the store in
  DC1 replaces, and after the first beat of a crossing store only its second word
  is left. `AfterInLine` (a word that is not the last of its line has its
  successor in the line) is what makes one beat enough for the others.
* `CamForwardsYoungest`: without other clients, `Spec => []CamAgrees`; the slot
  holds bytes of its tag's word (`CamTagged`), so a store to another word leaves
  it right. With other clients it is false (section 12).
* `LoadsReturnYoungest`: in the core's order of accesses (`Serial`) and without
  other clients, `Spec => []LoadsCurrent`, wherever DRAM is. `LoadGood` says that the
  first word of a crossing load is answered or forwarded after its first beat, that a
  load in DC2 already has all it needs, and that a load which waits for DRAM and has
  no answer to come was forwarded whole. `Serial` is `LoadsAndStoresApart` of the
  pipeline; without it the first beat can be lost.
* `StaleOnlyFromCam`: with other clients, `Spec => []OnlyTheCam`. It needs that a
  crossing store never leaves its second word in the CAM behind a load (`CamLine`: the
  beat that writes it clears the slot the first beat filled).

`GemmProofs` holds for every size of the array, its tiles and the matrices, every
latency of the multiplier, any number of jobs and resets, and any pace of the memory,
from `GemmAssumption`.

* `GemmTypes`: `Spec => []TypeOK`.
* `PulsesAlwaysTaken` and `JobsUndisturbed`: if no store follows right behind a START
  (`~Behind`), `PulsesTaken` and `JobAlone` always hold. `Turn` says that the job FSM,
  the DMA and the sequencer take turns, and which of them the next step is up to;
  `Unmet`, that the stages of the LSU are empty while they do. `Behind` is what
  `GemmBehind` violates `JobAlone` with.
* `ProductsAreRight`: under the same condition, `Spec => []ProductReady`. The
  invariant `Products` has a part for each thing a unit leaves to the next: the tile
  lies in the matrices and is as large as they allow (`Walk`); the rows the DMA has
  fetched are those of the tile (`Loaded`); each stage of the array has the operands
  of its step, and each sum the products of the steps that have left the array, in
  order (`Summed`); C has the cells of the tiles that are done and of the rows
  written of this one, and no other (`Written`). A job walks over tiles in row-major
  order, so which cells those are is a matter of three comparisons (`Covered`).

`JitProofs` begins with the image, for every set of buffers, every set of sizes and
every limit.

* `RegionsApart`: `ImageSpec => [](ImageTypeOK /\ Apart)`, which is inductive. A
  hole that is taken is replaced by its head (the buffer) and its tail (a new hole at
  the end of the list); `PartsApart` says that parts of a region are apart from what
  the region was apart from, and `TakeHoleHoles` where each hole of the new list comes
  from.
* `ImageTiled`: `ImageSpec => []Tiled`. No byte is lost because sizes and offsets are
  multiples of four: a remainder is empty or at least four bytes.
* `AllocatorImplementsStorage`: `ImageSpec => StoreSpec`, `held` of `Storage` being
  the addresses of the region each buffer has.

Then the compiler: any set of graphs, of any length, with every handler. From
`GraphAssumption` (what torch.fx promises: nodes in an order in which each reads
earlier ones, one output at the end), `RunsAssumption` and `TilesAssumption` (which has
`AlignPad >= 3`: the C tile behind the operands is aligned to a word,
`gemm_tiles.py:24`), and `[]Lawful`, which has four parts:

| part of `Lawful` | what it leaves out | the code |
|---|---|---|
| `NamesApart` | two nodes, or two buffers of one, with one C name | sections 6 and 12: a part of a meshgrid may take another node's name |
| `Asks` | a size below zero, or not one of `Bytes` | `torch.export` refuses the first; `Bytes` are the sizes the image is instantiated with |
| `~Twins` | a node that is the last user of one buffer under two names | section 12: it is given back twice |
| `~LatePart` | a `getitem` of a part whose other names are all dead | section 12: it aliases a buffer given back |

The last two are the two ways in which the code does give a buffer back twice, so they
cannot be dropped. Every state of the run `Jit` satisfies `Lawful`, but for the graph
with a clash of names, where `NamesApart` is false.

* `CompilerIsClient`: `Spec /\ []Lawful => ImageSpec`; `CompilerTiles` and
  `CompilerStores` follow with the theorems about the image. That a buffer is allocated
  while it is not held needs that names are fresh (`NamesInv`); that what is freed is
  held, with the bytes it was given, needs `HeldInv`: a buffer with a place is held,
  unless all its names had their last use. Handlers are of five kinds (`VisitCases`):
  one fails, makes buffers (`Makes`), names one that is there (`Aliases`), skips, or is
  the output.
* `ReleasesAreRight`: `Spec /\ []Lawful => []ReleasesRight`. `StmtInv` says that a
  buffer a statement makes is placed apart from its inputs: they are held when it is
  placed (`InputGiven`), since a node is not done before its own release. `UseInv` says
  that a buffer which is held, and not pinned, has a use to come or never had one.
* `CompilerTypes`: `Spec /\ []Lawful /\ []Stepped => []TypeOK`. The part that is not
  about ranges is that a name has as many elements as its buffer: an alias keeps them
  (`Aliases`), and a buffer takes its size from the shape its maker gave it
  (`ShapesOK`). `Stepped` leaves out statements of no steps, which only tensors without
  elements give.

`CompilerInv` is the invariant of all but the last: `IInv` of the image and, while the
program is being compiled, `NamesInv`, `HeldInv`, `StmtInv` and `UseInv`. None is
inductive alone: what is placed is apart from the inputs because they are held, and
they are because their last use is to come. TLC found it to hold on the run's graphs
before it was proved. `TypesInv` adds `TypeOK`, `ShapesOK` and the place in the program.

Last, the planner of GEMMs, for all sizes, with no condition on the graph:

* `JobsCoverProduct`: each product of the GEMM is in exactly one job, and the jobs of
  one piece of C are in the order of K, so that the first, which overwrites C, comes
  first. It is the uniqueness of quotient and remainder, once for each dimension
  (`PieceOf`) and twice for the nest (`PairFacts`, `PairIndex`). It assumes that there is
  a tile: without one there are no jobs, and the compiler falls back or refuses.
* `JobsFitScratch`: what `pyvedas_gemm_job` lays out for a cut job fits what
  `tile_scratch_bytes` counts for the whole tile, and that fits the scratch; the part
  of `FitsMemory` that is about plain GEMMs.

`SuiteProofs` holds for any lists of tests, threads and invocations, and whatever the
compiler and the simulator do.

* `SuiteTypes`: `Spec => []TypeOK`, from the same invariant.
* `ExitsHonestly`: `Spec => []ExitHonest`. The main thread has passed a test only when
  its thread has ended, and it leaves with 0 only behind the last.
* `VerdictsAreFresh`: `Spec => []FreshVerdict`. `SuiteInv` says of every step of a
  thread which files of the test's directory are of this invocation by then (`Done`),
  and that a test whose verdict is told is past all of them (`Told`); threads touch
  their own directory only (`ThreadMoves`), and the checkout does not change under
  a running manager.
* `VerdictsAreRight`: `Spec => []VerdictRight`, for traces and logs of any length, if
  `TracesJoinable`: every split store of the programs is one whose halves the merge can
  join (`Joins`). Without it PASSED is not sound (section 12). `Rests` is inductive and
  says what a verdict rests on: the ISS's log of the ELF, and a log that the simulator
  may write of it, processed once. The rest is about the two logs.
  `LogsFine`: whatever the simulator logs, what is in front of a NUL is `Sound`: its
  lines have digits the merge does not lose, and two that it joins are the halves of one
  store, or one line twice in a log that was right so far. `PassRight`: if the rows of
  such a log agree with the events, then so do its lines, half by half. By induction
  over the lines (`PassFollows`): a row is either a line, and then of an event that does
  not split, since no half shows a whole word (`SingleStep`); or joined from two, and
  then their digits are those of the word's halves (`MergeRight`, `PairStep`), or a
  line that came twice, whose joined digits are never its own (`TwiceWrong`).
* `CorrectIsPassed`: `Spec => []CorrectPasses`, the other half of `VerdictRight`, without
  `TracesJoinable`. By induction over the events (`CorrectAgrees`): two lines of one
  cycle are the halves of one store (`RtlPairs`), and their digits join to the word
  (`MergeBack`).

`CardProofs` holds for any sets of images and graphs, any lists of tests, memories of
any sizes, any number of tools, and kills and failures at every step, from
`CardAssumption` (types, and that an image fits) and `DrainCovers`: the bridge takes
the four words `write_bytes` posts between two reads of VERSION.

A tool is a list of calls, so its proof is that of a program. An assertion names what
is known between two calls: facts about the board, the registers and the files, the
word each cell of memory holds, the DRAM window. `Step` is the rule of one call,
`Triple` that of a list, `Goal` what a tool knows when it has ended. `CardInv` says
that the calls left lead from an assertion that holds now to the goal of the tool; the
assertion after a call that starts the core has to survive what the core does (it says
nothing of the results in DRAM nor of the data a program changes, `Untouched`), and the
one a tool starts from is empty: nothing is known of what an earlier tool left.

* `CardSafe`: `Spec => []CardInv`, call by call, with one lemma for each action; from
  it `CardTypes` (`TypeOK`) and `ExitsAreHonest` (`ExitHonest`), also where builds break.
* `RunsStartLoaded`, `AnswersAreOurs` and `WholeBuildsMatch`: `StartsLoaded`,
  `AnswersOurs` and `BuildMatches` always hold if no build is killed or fails between
  two of its files (`~BuildBreaks`); with such builds `CardStale` refutes the last, and
  the first two rest on it. As the properties, they claim nothing of a runner that
  finds a window mapped or an old bitstream (section 12).

`DivisionProofs` holds for every size of word and of `small_div`, and any sequence of
divisions, from `PowerAssumption` of `Words`: powers of two are positive and double
from one exponent to the next, which the provers do not know and TLC evaluates.

* `DivisionTruncates`: the corrected floor division of `rv_iss.py` rounds towards zero
  and its remainder has the sign of the dividend, for every pair of signed operands
  with a divisor other than 0.
* `DividerDivides`: `Spec => []DividedSoFar`. A trial is below the divisor on either
  side of zero (`TrialFits`), which is why one bit more than the word is enough, and
  moves one bit of the dividend into the quotient (`ShiftsOne`).
* `DividerAgrees`: `Spec => []AnswersRight`. When no bit is left, uniqueness of
  quotient and remainder (`OneQuotient`) makes the registers those of the magnitudes,
  and `SignsBack` that their signs are restored as the simulator truncates;
  `ShortcutRight` is the same for each branch of the fast path. `Captured`, in the
  invariant, says that the unit keeps what it was issued with.
* `DividerFits`: `Spec => []TypeOK`, no register overflows.

`IssProofs` holds for every size of word, program, memory file, placement of the
devices and length of the vector registers, from `PowerAssumption`, `ByteBitsAssumption`,
`IssAssumption` (types of the constants) and `TextAssumption` (the text is words, at an
address of words, inside the address space). The trace and the sums are folds over data
of any length; induction over the naturals is proved for sets from their
well-foundedness (`NatSetInduction`), that folds are what one step more makes of them by
it (`FoldExists`, `TraceAppend`).

* `TraceReplays`: `Spec => []Replays`. `Typed` has the ranges; `Followed` says that
  the replayed machine is the simulated one but for `hidden`, and that it is behind by
  instructions that leave no line only. `QuietStep` is the step without a line,
  `LineStep` the step with one; there is a lemma for each class of instruction. A
  narrow store logs a masked word: `MaskedByte` is why its bytes are the ones stored.
* `IssTypes`: `Spec => [](TextApart => TypeOK)`, from `Typed`, which is inductive.
  `TextApart`, that no data lies in the text, is the part of `TypeOK` which is up to
  the program: the code has one memory, where a program can overwrite itself.
* `ArithmeticRight`: `Spec => []Arithmetic`, by one lemma for each law. Operands agree
  up to multiples of the modulus (`Same`), which sums and products keep (`SameSum`);
  the corrected quotient fits the signed range but for the overflow (`QuotientFits`);
  a word is the sum of its bits (`OfItsBits`), sums over disjoint sets of bits add
  (`OfBitsUnion`), and with them `and` and `or` of two words sum to the words.

TLC checks the same properties on the instances of the sections above. Only
model-checked are two invariants: `ResultsRight`, which needs for each kernel what a
walk over its steps leaves in memory, by induction over data of any shape;
and `FitsMemory`, whose bounds are those of the same walks, for the streamed nests over
sums that `StreamNest` searches. Out of the prover's reach: liveness and ENABLED
(`KeepsMoving`, `EngineMoves`, `JobsEnd`, `Ends`).

## 12. Findings outside the runs

Met while modelling; the counterexamples come from the same modules under
other instances, or from reading where said. The runs exclude them by name, as given.

*Core.* `Pipeline` keeps the four hazards (`Clash`, `EarlyRelease`, `ZeroForward`,
`Overwrite`) reachable and `taint`s what follows them.

* `exu.sv:248`: `lw a; lw b; lw c; add d,a`. The add waits in IDU0, the illegal copies
  replace the loads in `last_issued_instr`, the add issues with `lw c` in DC2; both
  write back in one cycle and the buses are ORed.
* `idu1.sv:225`: a nop does not stall behind a multiply and then hides it; a later
  ALU write of the same register is overwritten by the older multiply (the comment
  says that everything stalls after a multiply).
* `rsb.sv:87`: an ALU writeback clears the scoreboard bit that a younger load of the
  same register has set.
* `idu1.sv:204`: a redirect clears the scoreboard, also the bit of a multiply in
  flight; only the refill of the front end hides the multiplies that are left. With
  `MulLat` 7 and `Refill` 0, `mul; nop; branch` leaves a consumer behind the branch
  with the old value (`OperandsCovered` fails). `MUL_LAT` is 5 here (`exu_mul.sv:47`).
* `idu1.sv:118`: an instruction that writes x0 is forwarded to a reader of x0.
* `lsu_engine.sv:246`: a misaligned DRAM store leaves its second word in the CAM; a
  load of it is fully forwarded, sends no read, and waits for the answer forever.
* `lsu_top.sv:353`: only scalar stores clear the CAM, so the word it holds hides a
  later write of the accelerator or the vector unit.
* `div.sv:152`: a negative dividend over zero gets its sign twice (section 10).

*Compiler.*

* `codegen.py:131`: a node that is the last user of one buffer under two names (`x`
  and a view of `x`) gives it back twice; two later buffers then share it. `Clean`
  leaves such graphs out; with them `ImageSpec` and `Tiled` fail. `tlc -config
  JitTwice.cfg MCJit` violates `GoldensMatch` on one: `y` and a view of it are last
  used by a `cat`, both results behind it get one address, and the second overwrites
  the first, so that a correct program spins at its golden check (`compile.py:68`).
* `codegen.py:136`, `codegen_handlers.py:500`: a part of a meshgrid fetched again after
  the last use of its first name aliases a buffer already given back, and it is given
  back a second time: only the meshgrid's own name protects its parts, and that name
  stands for part 0.
* `codegen.py:205`: a `get_attr` behind the first release bakes its constant into a
  hole that an earlier operation writes when the program runs.
* `codegen_handlers.py:650`: permute and select hand a negative dimension to C;
  slice, stack and cat normalise it.
* `codegen_handlers.py:530`: the name of a part of a meshgrid may be another node's.
* An op limit equal to the number of operations jumps past the golden check.

*Simulation manager.*

* `sim_manager.py:194-212`: the exit code of gcc is not looked at for assembly and ELF
  tests; a test that no longer builds runs its old ELF, and may pass.
* A FAILED verdict leaves the exit code at 0; only exceptions change it.
* `sim_manager.py:800`: a failing step raises `SystemExit`, which `except Exception`
  does not catch.
* `sim_manager.py:628-636`: the merge of a split store drops leading zeros and cuts
  both halves to one length, so that alignment 3, or a half that starts with a zero
  digit, is not joined (`Joins` names the others), and a core that splits at the wrong
  byte could pass. Where the upper half is zero, a core that writes the lower half alone
  passes and one that writes both fails: `VerdictsAreRight` needs `TracesJoinable`.
* An RTL log longer than the ISS's passes, also when the ISS was cut at its limit.
* XSim has no timeout; the kill after Verilator's reaches the shell only; a
  `dram.hex` of an earlier program is reused; a log of one event divides by zero (664).

*Card.*

* `fpga_runner.py` neither resets `DRAM_SEL` nor looks at the window: after a tool
  killed in `load_dram` or `read_dram`, its DCCM writes go to DRAM. `StartsLoaded`
  leaves out a runner that finds a window mapped, or a bitstream without one, where an
  image with DRAM overwrites the DCCM (`fpga_runner.py:256`).
* `run_card_chunks` returns without halting the core after the last EOT.
* `run_gen`'s `sys.exit` aborts the runner; no lock keeps two host processes apart
  (`vedas_host.py:58`); the key of weights is their path, not their content.

*Simulator.*

* `rv_iss.py:422`: with an illegal `vtype`, vector arithmetic that is masked or cannot
  be decoded is skipped silently.
* `rv_iss.py:1126`: the instruction limit ends a run like its own end, with exit code 0.
* CSRs of the GEMM block repeat every 256 bytes; SB and SH to them are logged and
  dropped; EOT compares the start address of a store only.

## 13. Not modelled

Arithmetic of the ALU and multiplier in RTL (`Words` is what it would be compared with);
decode tables (generated, combinational); memory arbiters and AXI bridges and the
vector unit's element loop (in the plan), UART and EOT devices; the fetch handshake,
because it rests on `program_counter` of SVLib, a submodule that is not in the
repository: whether a stalled cycle presents the stalled PC cannot be read; CSR reads of the accelerator and the packing of rows into beats. Of the
JIT, the text of the C and its arithmetic; of the C runtime, the kernels that are
plain loops; of the simulator, the disassembler and the command line; of the
manager, command lines and reports; of the card's host, `--no-verify`,
`--no-driver` and detection decoded on the host. The network definition, its
training data and the hardware configuration keep no state.
