# A TLA+ model of DHRUT-V

DHRUT-V is a 2-wide, in-order RV32IM_Zicsr core in SystemVerilog (`src/rtl`),
with an FPGA system around it (`src/fpga`), a Python testbench
(`src/test_bench`) and tools (`src/tools`). This directory models the core,
its testbench, the program loader with its host tool, and the tools as TLA+
modules, checks them with TLC on small instances, and proves central results
with TLAPS for every instance. Paths below are relative to `src/`.

## 1. Inventory

| Component | State | Operations | Talks to |
|---|---|---|---|
| **Fetch** `rtl/pipeline/ifetch.sv` | `pc_q` | fetch a block, assemble a group, redirect | imem (request/answer), BPU and RAS (same cycle), fetch queue (push) |
| **Fetch queue** `fetch_queue.sv` | ring of 8 entries, two pointers | push 0-2, pop 0-2, flush | decode pops; its fullness gates the request |
| **Decode buffer** `decode.sv` | two entries | accept, compact, refill, flush | Issue says how many it accepts |
| **Decoder** `decoder.sv` | none | instruction to `uop_t` | - |
| **Predictors** `bpu.sv`, `ras.sv` | branch table; return stack | predict, allocate, train; push, pop | fetch, and training from Issue |
| **Issue** `issue.sv` with `issue_hazard.sv`, `forward_unit.sv`, `scoreboard.sv`, `ARF.sv` | bundle buffer, register file, scoreboard counters, protected MDU destination | pair, latch, check operands, resolve branches, dispatch, redirect | every unit; write-backs come in from retire |
| **Execution** `alu_stage.sv` x2, `lsu.sv`, `mdu.sv` | one operation each | take, hold on a stall, complete | retire; dmem (request/answer) |
| **Retire** `retire.sv` x2 | one result each | take a result, write it back | register file, bypass, scoreboard |
| **CSR unit** `csr_unit.sv`, generated `csr_regfile_gen.sv` | the CSRs | access, trap entry, MRET, count | Issue, in the dispatch cycle |
| **Block RAM** `fpga/rtl/bram_slave.sv` | captured address, contents | capture, answer or drop | imem, dmem, loader port |
| **Program loader** `fpga/rtl/prog_loader.sv`, `cpu_top.sv` | frame state, sums, timer, `image_valid` | greet, match the header, load, check, time out, release the core | UART, memories, core reset |
| **Upload tool** `fpga/loadprog.py` | position in the frame | wait for the greeting, write chunks, wait for the answer, capture a result | the board, over a USB bridge |
| **UART, splitter** `fpga/rtl/uart.sv`, `dmem_splitter.sv` | FIFO, bit counters | send, receive | loader, core |
| **Memory drivers** `test_bench/tb_pyuvm/{imem,dmem}_agent`, `bram_responder.py` | memory, coroutine position | answer at once, after a random stall, or as the block RAM does | the core's memory ports |
| **Test verdict** `dmem_monitor.py`, `scoreboard.py`, `test_dhrut_v.py` | shadow words, two FIFOs, rebuilt memory | merge writes, publish, collect, end the test, write the signature | the data bus, `run_test.py` |
| **Tracer** `cpu_agent/cpu_tracer.py` | queue of accepted instructions | queue, match completions, print lines | the core's internal signals |
| **Memory image tool** `fpga/mkmem.py` | byte map, arrays | parse, validate, pack, bake | the hex file; `loadprog.py` and the drivers parse it too |
| **Trace comparison** `tools/legacy/*.py` | log, CSV rows | convert, remap, compare, rewrite pseudo instructions | Spike's log and the RTL's logs |
| **Result flow** `tools/simulate_c.sh`, `bench_report.py`, `fpga/build_benchmark.py` | the files of a test directory | build, describe, run, report, upload | each other, through files |

Everything in the core shares one clock; the concurrency is that of pipeline
stages which all move at each edge, and of the two memories, which answer
after any number of cycles. Around the core it is that of coroutines woken by
the same edge, of two ends of a serial line, and of commands that meet in
files.

What is hard here, and the property that answers it:

- *No reorder buffer.* Results come out of five places with different
  latencies and must look as if instructions ran one by one: `ExecutesInOrder`.
- *Age order by position.* The bypass network orders producers by where they
  are, while stalls hold some stages and not others: `OperandsCurrent`.
- *All or nothing bundles.* Lane 0 leaving empties both slots of the buffer,
  whether lane 1 was ready or not: `Lane1KeepsUp`.
- *Shared resources without arbitration.* Three units feed one retire
  register; two write ports have a fixed priority: `UnitsExclusive`,
  `WritersDistinct`.
- *Counting.* A scoreboard counter that is off by one stops the machine for
  ever or lets a stale operand through: `ScoreboardExact`, `BundleLeaves`.
- *Late answers.* A redirect abandons a memory access whose answer arrives
  later: `PathContinuous`, `DeliversStream`, `NeverStarves`.
- *Combinational handshake.* The fetch request depends on what decode pops in
  the same cycle: `RequestStable`, `TypeOK` of `Frontend`.
- *Two writers of one CSR in a cycle:* `TrapEntryAtomic`, `TicksThenWrites`,
  `CountsExactly`; *nested traps:* `MretResumes`, `HandlerMasked`.

- *A driver that sleeps across a redirect,* and one that imitates the block RAM
  from outside: `FetchedIsWanted`, `FixedIsBram`, `FetchRequestAnswered`.
- *Writes and verdict through separate queues:* `SignatureComplete`,
  `VerdictIsToHost`; *byte lanes:* `LoadsSeeStores`.
- *A trace reconstructed from PCs,* with wrong-path entries never flushed:
  `TraceFollowsProgram`, `DueIsQueued`.
- *A frame cut off, damaged or timed out,* a reset in the middle, a host that
  gives up: `RunsCheckedImage`, `CleanIsAccepted`, `DamageIsRefused`,
  `LoaderEnds`; *a program that prints what the loader answers:*
  `DoneMeansLoaded`.
- *One file for many memories:* `MemoriesAgree`, `Unaliased`.
- *Parallel lists, columns of different length:* `RemapKeepsRows`,
  `PassMeansAgreement`, `RowsAreTheRun`.
- *Rewriting by hand, case by case:* `OthersMeanBase`, `PseudoMeansBase`.
- *Files that outlive the command that wrote them:*
  `ResultsAreOfTheirProgram`.

`PROJECT.json` lists the hazards at their lines, also those that no property
covers, with the reason.

## 2. Modules

    Uop  ------ Isa                    what the core promises a program
      \          ^ (refinement)
       Backend --+                     issue, execution, retire
        |   \___ MCBackend             finite instances
        |   \___ BackendProofs ---+
        +-- Tracer --- MCTracer   |    the tracer beside the core
               \--- TracerProofs -+

    FetchStream                        what the front end promises Issue
      ^ (refinement)
    Frontend --- MCFrontend            fetch, queue, decode buffer, imem
       \--- FrontendProofs

    CsrPort -+- Csr ------ MCCsr ---+  traps, MRET, CSR accesses
             +- Counters -----------+  the 64-bit counters
                   \--- UnitsProofs |  (Csr and Counters)
                                    +- MCParts
    LoadStore --- DataBench --------+  LSU lanes; data side of the testbench
                  FetchBench -------+  its fetch side
                   \--- BenchProofs    (DataBench and FetchBench)

    Upload --- MCUpload                host tool, serial line, loader
       \--- UploadProofs

    Images, SpikeTrace, PseudoOps, Reports --- MCTools
    Images, SpikeTrace, Reports --- ToolsProofs

    NaturalFacts                       for ToolsProofs, UploadProofs, TracerProofs

**`Uop`** is the decoded instruction reduced to a class, registers, an
immediate, a PC and the prediction. Words are members of a constant set; what
the ALU, the MDU and the branch comparator compute are the constants `Fn` and
`Cond`, about which only `0 + w = w + 0 = w` is assumed. Its operators are the
decoder's flags, the pairing rule, operand selection and branch resolution.

**`Isa`** is the abstract machine: one architectural state (PC, registers,
memory, one CSR) and steps that execute zero, one or two instructions, each
found at the PC its predecessor left.

**`Backend`** is everything behind decode. A variable is a register of the
circuit (the comments in the module say which), an operator without a prime is
a wire, an action is one clock edge of the whole back end. The actions
partition the cycles by what lane 0 dispatches: nothing, an ALU operation, a
memory operation, an MDU operation, a branch, a SYSTEM operation; in every one
of them all stages advance (`Advance`) and the buffer is refilled (`Refill`).
Three abstractions are made. An ALU stage stores the result instead of the
operands, since it computes the same in every cycle of its stay. The MDU
stores its result and the number of cycles left, drawn from `MduLatency`, in
place of its iteration. Memory is accessed in whole words, and data memory is
a function inside the model that answers when the free variable `rdy` says so.
One CSR stands for `mepc`: a trap saves the PC there, MRET jumps there, CSRRW
exchanges it. `mtvec` is the constant `TVec`.

Decode is replaced by its contract: it may offer, in any cycle, any bundle
that follows the predicted path from `fpc`. The contract is `FetchStream`.

**`Frontend`** is the other side. Addresses count half-words so that a target
with bit 1 set differs from its word. Queue and decode buffer are sequences;
the predictors answer anything (`Hint`); instruction memory follows
`bram_slave.sv`: it captures an address when idle, answers once, after any
time, and the answer counts only if the core still asks for that address. The
choices of Issue (hold, take one or two, drain, redirect) are the actions.

**`CsrPort`, `Csr`, `Counters`** model `csr_unit.sv` over the generated
register file. `CsrPort` has the decisions on the uop, shared by the other
two. `Csr` holds the five trap CSRs with two ghost variables that remember
the last trap; `Counters` holds the four counter CSRs and has a set of issued
uops (`Issued`) of its own. Words are numbers below
`Radix`; `And`, `Or`, `Not` are constants, bitwise operators in the instances.

**`Tracer`** extends `Backend` with `cpu_tracer.py` at the same clock edge: the
PCs that the units register beside their uops, the tracer's queue, and a
history (`due`) of the lines that a simulator of the architecture would
print. An entry is a PC, since the instruction word is a function of it. The
completions of a cycle are matched one after the other (`Traced`), in the
order of the code: lane 0, lane 1, the branch.

**`LoadStore`** is `lsu.sv`'s strobes, lane shifts and load alignment over
bytes. **`DataBench`** puts the LSU's request register, `DMemDriver` in its
stall and its fixed mode, `DMemMonitor` and the scoreboard's two coroutines
together. A clock edge is one action (LSU, then the driver's coroutine, then
the monitor at `ReadOnly`); `Collect` and `Watch` are the coroutines, which
run in any order before time goes on. Requests go on after the one that ends
the test, as they do in hardware: `crt0` loops. **`FetchBench`** is the instruction
side. Here a cycle has two steps, because the driver at the rising edge reads
wires that the data side may still change in the same cycle; `bram_slave.sv`
runs beside the driver as the reference of its fixed mode.

**`Upload`** has both ends of the serial line. The bytes in flight to the board
stand for the line and the receive FIFO together; a byte may be lost or
changed on the way. Timeouts are free: one may run out whenever its timer
runs. `image_valid` falls with the first payload byte and rises when the
loader is done; in the RTL it follows `ld_en` and `accepted` by one cycle, in
which the core is still in reset. Two history variables say what the loader
took: `taken`, the payload bytes since the last frame began, and `frame`, the
length and the sum that the last accepted frame carried. A third, `clean`, says
that nothing has disturbed the upload that runs: it turns true with a reset
under a host that waits for the greeting, if no byte is under way to the host
(`back = << >>`: what a program printed before would be read as the greeting)
and what is left on the line holds no header by itself (`HeaderIn`); it turns
false with the next fault, reset or expired timeout. The fourth, `damaged`,
says that one byte of payload or checksum of a clean upload was lost or changed
and nothing else has happened to it since. Programs print any byte, the
loader's answers included (`Chatter`).

**`Images`** relates `mkmem.py`, the payload of `loadprog.py` and the drivers'
loaders. The five parsers are one operator, `LoadHex`: they take the same bytes
from the byte-wise files that `objcopy` writes (`scoreboard.py:39-48` would also
split longer entries, which those files do not have). What the properties
compare is what each does with the bytes. **`SpikeTrace`** is the flow from
Spike's log to the verdict of `compare.py`, in the order of
`tools/legacy/Makefile:50-62`; a log line is a record of what the regular
expressions tell apart. All four columns that decide the verdict are compared,
each with the log it is compared with in
`compare.py`: pc and instruction with `IF_log.csv`, gpr with `ID_log.csv`, csr
with `MEM_log.csv`. In the csr column stand the addresses of loads: the memory
stage writes `mem:<address>` there (`rtl/legacy/MEM.v:76`), and `RD_RE` takes
the mem and address of a load's commit line for a CSR
(`spike_log_to_trace_csv.py:33`, `:182-183`). The RTL's logs are correct or
have, one of them, one wrong, missing, blank or additional row. Instructions
that write `x0` are not among the program's: the commit line of a load to `x0`
names no register, so that `RD_RE` matches nothing, while `MEM.v` logs its
address. The loops over the log and over the rows are recursive functions of a
position (`ReadLines`, `Matching`), of which proofs can speak. **`PseudoOps`**
gives each pseudo instruction and each base instruction its effect and compares
them; an operand is a number, so the change of a jal offset's notation in
`process_instr` is left out; bit-manipulation instructions act on all 32 bit
positions. **`Reports`** follows the ELF, its two descriptions, the log and the board through the
commands, each of which may fail at each step or be interrupted between two.

## 3. Runs

Independent parts share a run (a variable says which one moves): `parts` is what
stands beside the pipeline in the core and in the testbench, `tools` the programs
around it.

| Run | Instance | Distinct states | Checks |
|---|---|---|---|
| `backend_mem` | three registers, one-bit words; ALU uops, a load, a store, a branch and an MDU uop that depend on each other, MDU latencies 1 and 2; fair memory | 19,776 | `ExecutesInOrder`, `OperandsCurrent`, `Lane1KeepsUp`, `WritersDistinct`, `BundleLeaves`, `ScoreboardExact`, `UnitsExclusive`, `TypeOK` |
| `backend_flow` | two registers, three PCs; branches, JAL, JALR with right and wrong predictions, traps, MRET, CSR accesses | 23,951 | `ExecutesInOrder`, `IInv` |
| `frontend` | three fetch blocks, a queue of four, branches in both slots, a JAL, a return, a plain JALR, one aligned and one misaligned redirect target | 11,713 | `DeliversStream`, `PathContinuous`, `RequestStable`, `NeverStarves`, `TypeOK` |
| `csr_reserved` | the reserved funct3 on trap CSRs | counterexample | `TrapEntryAtomic`, violated |
| `tracer` | two PCs, one register, loops, wrong paths, dual completions, a queue of up to four | 25,821 | `TraceFollowsProgram`, `DueIsQueued` |
| `tracer_mdu` | the same | counterexample | `EveryCompletionTraced`, violated |
| `parts` | CSR unit: two-bit CSRs, every form of access, all kinds of traps; two-bit counter halves, one or two instructions a cycle. Testbench, data: two words, sixteen accesses of all sizes and offsets, two of them misaligned words, stalls 0 to 2 and fixed timing; fetch: three blocks, four timing models | 28,460 | `MretResumes`, `HandlerMasked`, `CountsExactly`, `TicksThenWrites`, `LoadsSeeStores`, `SignatureComplete`, `VerdictIsToHost`, `DataResultReported`, `FixedIsBram`, `FetchedIsWanted`, `FetchRequestAnswered` |
| `upload` | base-4 bytes, fields of two bytes, capacity three, images of one and three bytes, one of them the magic word itself, programs that print `R`, `K` and `E`; two uploads, two resets, one fault at any byte, three bytes in flight | 1,626,984 | `RunsCheckedImage`, `CleanIsAccepted`, `DamageIsRefused`, `LoaderEnds`, `UploadTypeOK` |
| `upload_chatter` | the same with one upload, no fault and no reset after power-on | counterexample | `DoneMeansLoaded`, violated |
| `tools` | every hex file of up to two sections among 21; every log of up to three instructions, loads among them, with any one wrong row in one of the RTL's logs; all pseudo instructions but `csrr` with six register contents; two programs built again and again | 617,381 | `MemoriesAgree`, `Unaliased`, `RowsAreTheRun`, `RemapKeepsRows`, `PassMeansAgreement`, `ResultsAreOfTheirProgram`, `OthersMeanBase` |
| `remap` | a log whose program writes `ra` | counterexample | `RemapKeepsRows`, violated |
| `csrr` | all pseudo instructions | counterexample | `PseudoMeansBase`, violated |

Why the bounds are enough for what they look for. A register value matters to
the pipeline only in whether it is the right one: one bit tells two writers
apart, three registers (one of them x0) are enough for a bundle whose lanes
read and write different registers. At most two bundles are behind Issue at a
time, so hazards need at most three bundles; the uop sets hold every kind of
producer and consumer (in `backend_mem` the MDU's result is waited for while the
bypass still holds an older value of its register) and the runs are not bounded
in length. Three PCs allow
a right target, a wrong one and the fall-through. A queue of four lets
fullness, emptiness and the same-cycle pop meet within one group; the depth
in the RTL is eight. The counters wrap after four counts instead of 2^32.

The tracer's queue grows without bound only while wrong paths follow each
other and nothing completes; the constraint `QueueBound` (four) still has two
iterations of a loop with a wrong path between them. In the testbench one word is
enough for overlapping accesses of every size, the second is `tohost`; a
stall of two is a stall that is counted down.

In `upload`, that the host reports success and the image is not in memory is
excluded for two kinds of upload: undisturbed ones (`CleanIsAccepted`) and those
with one byte of payload or checksum lost or changed (`DamageIsRefused`). It
happens for others. A program that runs because the boot window is over may
print a `K`: the finding `upload_chatter`. With a changed length field the board
sums other bytes as payload, which 32-bit sums catch for nearly all images and
two-byte sums for few. With a line that holds a whole frame (six bytes in
flight), the frame of an upload that was given up is still on it when the board
is reset, and its acknowledgement is taken for that of the next one. And if the
board is reset while the host sends an image that contains a frame of its own,
the loader loads and acknowledges that. In each case what runs is a whole frame
with a good sum (`RunsCheckedImage`), but not the one that was sent. None of
these is assumed away: `clean` and `damaged` are false there, and
`DoneMeansLoaded` without them is refuted.

The inductive invariant `CleanInv` of section 4 was checked with three
and with six bytes in flight. The capacity stands for 32764 bytes, the limit that
`mkmem.py` enforces with the board's depths and `cpu_top.sv` with `CAPACITY`.

*Fairness.* `Backend!LiveSpec`: the clock runs, and the data memory does not
leave a request waiting for ever; `bram_slave.sv` and the drivers answer in a
bounded number of cycles. The MDU needs no assumption: its countdown is part of the clock.
`Frontend!LiveSpec`: the clock runs, a captured request is answered in the
end, and Issue lets its bundle go in the end; the last is what
`Backend!BundleLeaves` says of Issue. `DataFairness`: the clock runs, and the
scoreboard's coroutines run when their FIFOs have something; cocotb's
scheduler starves nobody. `FetchFairness`: the two halves of a cycle follow
each other. `UploadSpec`: the loader moves; the host, the line and the
operator owe nothing.

*Deadlock* is checked except in `parts` (a test ends with its verdict),
`upload` and `upload_chatter` (a loader in `RUN` or `FAILED` waits for a reset,
and resets are bounded), `tools`, `remap` and `csrr` (a command ends).

Every property of a passing run has a mutant in `PROJECT.json`: an operator
of the model replaced by a plausible mistake (a dropped condition, a swapped
priority), under which TLC finds that property violated.

## 4. Proofs

**`BackendProofs`** hold for all registers, words,
functions `Fn` and `Cond`, programs `Uops` and latencies, under the
assumptions named in `Uop` and `Backend`.

The inductive invariant is `IInv` in `Backend`. None of the interesting
properties is inductive alone; the parts that make it so are

- `WellFormed`: a stage that writes a register is valid and not about x0;
- `UnitsExclusive`: ALU0 and LSU are not busy together, and a busy MDU is
  alone. This is what the global stall in `issue.sv:100` buys;
- `WritersDistinct` and `BufferOk`: the buffered bundle is a legal pair, so
  that the two lanes never carry writers of one register;
- `ScoreboardExact`: with the two above, a counter is the number of busy
  places out of two (executing, retiring), hence below eight;
- `PendExact`: the protected MDU destination is the destination of the MDU.

| Theorem | Says |
|---|---|
| `Consistent` | `Spec => []IInv` |
| `TypeCorrect`, `ScoreboardCorrect`, `SharedLaneIsFree`, `WritersStayDistinct` | the parts of it that the runs check |
| `OperandsAlwaysCurrent` | when Issue is free to dispatch, bypass and architectural state agree on every register |
| `BundlesStayWhole` | lane 1 is never left behind |
| `Implements` | `Spec => Program!Spec`: the pipeline implements `Isa` |

`OperandsAlwaysCurrent` explains the design: in a cycle in which Issue may
dispatch, MDU and LSU have nothing outstanding that is not on the bypass, so
the scoreboard and the MDU protection never hold an instruction back on their
own. This is why lane 1 can be dropped with lane 0 safely, and why the
unguarded JALR operand is right. It also means that relaxing the global stall
would put weight on checks that carry none today.

`Implements` maps registers to the register file overlaid with the writes in
flight, youngest on top (`ArchReg`), memory to the data memory with the LSU's
pending store, and the PC to the oldest buffered instruction's, or `fpc`. Each
clock edge is the step of `Isa` that executes the instructions dispatched at
that edge: the proof shows that everything else about the edge leaves the
mapped state alone.

**`FrontendProofs`** hold for every program over an address space of whole
fetch blocks, every queue depth of at least two and every prediction.
`QueueNeverOverflows` is `TypeOK`, `UnbrokenPath` is `PathContinuous`,
`StreamDelivered` is `Spec => Stream!Spec`. The invariant is `FrontInv`: what
is under way is a legal path, and `pc_q` is where its last instruction leads.
`PathContinuous` alone is not inductive: it says nothing of `pc_q` when only
Issue's bundle is left, and the next fetch would have nothing to join. The
argument is that a fetch only ever extends the path (`Extends`): the answer
counts only for the block that `pc_q` asks for, a group starts at `pc_q` and
`pc_q` moves to where the group leads (`GroupFacts`); decode's refill regroups
the path without changing it (`RefillStep`), and Issue cuts it at the front.
`RequestStands` (`RequestStable`) adds `OpenRequest`: while a request is open,
the queue has room for two entries even if decode pops none, so that the gate
cannot close.
`Backend` offers Issue what follows the predicted path because
`StreamDelivered` says that the front end does; the two share the contract
`FetchStream`, not a variable.

**`UnitsProofs`.** `HandlersAreMasked` and `MretAlwaysResumes` hold for words of
any width, any masks that are two different bits (`MstatusAssumption`) and any
uops, under `TrapsWriteNothing`: no encoding that traps also writes `mstatus`
or `mepc`. That assumption is what the finding `csr_reserved` breaks, and the
theorems show that nothing else does. The invariant is `DescribesLastTrap`:
while software leaves them alone, `mepc` is the last trap's PC and MPIE the
interrupt enable before it. A nested trap re-establishes it by overwriting
both; MRET consumes it.
`CountersExact` and `WritesAfterTick` are about the counters, for halves of
every width and every set of uops, legal or not. The argument is one lemma:
what hardware writes in a cycle (`HardwareCount`, two halves with a carry) is
the two halves of `Ticked`, the 64-bit sum modulo `Radix * Radix`
(`HardwareCounts`, `HalvesOfCount`); with it, software's half either
replaces one of them or none.

**`BenchProofs`,** instruction side. `DriverIsBlockRam`: the fixed-latency
driver gives, at every moment and for any number of blocks, the answer that
`bram_slave.sv` gives. The two do not have the same state - the responder
keeps its request through a reset, the RAM's read register has no reset - so
the invariant (`SlotsAgree`) asks them to agree only while an answer is held.
`NoForeignInstruction`: in all timing models the answer on the wires is for
the address that fetch had at the edge.

Data side. `LoadsReturnStores`, `SignatureHasAllStores` and
`VerdictIsTheProgram` hold for any words, any requests (misaligned words
included) and any stalls, under `DataAssumption`; of it, only that `tohost`
is zero when the program starts says something about a program, and
`tests/crt0.S:36` and the assembly tests declare it so. The invariant is
`DataInv`. Its three parts are the three hand-overs of a store: `BusInOrder` says that an answer belongs to
the request on the bus, `AccessOnce` that memory changes, as the program means
the access, with the answer and not before or again, `MirrorsFollow` that what
the monitor and the scoreboard know of memory is behind by exactly the one
write that is queued. `MergeStores` and `AlignLoads` are the lemmas on the byte
lanes: strobes, shift and merge together store the bytes that the program
means, and shift and extension load them, at every offset.

**`TracerProofs`** hold for every program, prediction, memory delay and MDU
latency and for a queue of any length (the run's constraint `QueueBound` is no
part of them). `TraceIsTheProgram` is `TraceFollowsProgram`, `NothingDueIsLost`
is `DueIsQueued`. The invariant `TraceInv` adds to `IInv` that the lines that
are due are those of the results in ALU0 or LSU and in ALU1, and that the PCs
of these and of the bundle buffer, in this order, occur in order in the queue.
The second is what `DueIsQueued` lacks: an accepted instruction may still be
flushed from the buffer, so it is not due, but it must be in the queue when it
is dispatched. That `a` occurs in order in `q` means an increasing map of its
positions into those of `q`; three lemmas carry the argument: what is accepted
extends both (`OrderGrows`), what is dropped from the middle leaves order
(`OrderComposes`), and popping up to the first entry with the PC that is due
next finds it and drops nothing that is due later (`PopFinds`). The last is the
answer to a loop that brings the same PC back: an older copy may be taken for
the right one, and no harm is done. That a line has the right content rests on
`OperandsAlwaysCurrent`.

**`UploadProofs`** hold for any number of resets, uploads, faults
at any place of a frame and bytes in flight, for fields of any width and any capacity they can
express. `NeverBootsPartialImage` is `RunsCheckedImage`, `UploadTypes` is
`UploadTypeOK`, whose content is that no byte is written past the memory. The
invariant is `UploadInv`: what was taken is in memory in every state
(`Holds(taken)`), while the payload comes, `offset` and `sum` are its length
and sum (`TakingPayload`), and a memory that is valid, or that a good loader is
about to declare valid, is as the last accepted frame described it
(`Described`). `valid` falls with the first byte that overwrites, which is why
the last part survives an upload that breaks off. `SumExtends` says that the
sum over one more byte is the sum and that byte; `Totals` and `SameRecursion`
reach it without induction over data, from the first argument at which two
recursive functions differ. `UploadAssumption` has what the source fixes: the
magic does not repeat its first byte (the loader's matching depends on it) and
the capacity fits the length field. Of what programs print nothing is assumed.

`CleanUploadIsAccepted` (`CleanIsAccepted`: not rejected, and in memory when it
returns) is about the whole history of one upload, from the reset to the host's
return, for every image, every number of bytes in flight and
whatever an earlier upload left on the line. `CleanIsAccepted` says nothing of
the way there; the invariant `CleanInv` says how far the loader has come in the
host's frame. `Arriving`: of the frame the loader has taken the first `n` bytes,
and the line carries the rest of what was sent, behind `k` bytes that were left
on it. `Taken`: in each state of the loader, `n` is what the state's fields say,
and they hold the frame's own length, payload and sum so far. Before the header
is complete there are two cases, since bytes that were left may begin a header
and not end one (`NoHeaderLeft`): then `n` is zero, and the loader's match falls
back without losing the first byte of the true header. That is where the
assumption that the magic does not repeat its first byte is needed. `Turn` says who waits for
whom; without it an old answer could reach the host.

**`ToolsProofs`.** `NoStaleResult`: the invariant `LogIsDescribed` says that a
log is only there while `build.json` describes the program that wrote it,
because `simulate_c.sh` removes the log before it describes another one
(`tools/simulate_c.sh:70`); a rebuild by the other flow changes the ELF, not
the description, and `bench_report.py` then refuses. `BoardIsOpened` says the
same of the upload: hash and payload come from the one ELF that was read.
`BytesAtTheirAddresses` (`MemoriesAgree`) and `ProgramsUnaliased` (`Unaliased`)
hold for every depth, width, number of sections and contents. The invariant
`ImagesInv` says what the tool knew when it went on: the memory is the hex
file's, the layout passed `Valid`, no two bytes of different value fell on one
place. From there the theorems are about the definitions: an array holds at
each place the one packed word that belongs there (`ArrayHolds`,
`PackIsMemory`), and a layout that passes the checks lies within one period of
the array (`PlaceOf`, `BaseIsAligned`).

On the trace comparison: `CsvIsTheRun` (`RowsAreTheRun`), `RemappedIsTheRun`
(`RemapKeepsRows`) and `VerdictIsTrue` (`PassMeansAgreement`), for programs of
any length, all values and, the first, all registers. The other two have the
hypothesis `NamesAreFound`: every register that the program writes has an ABI
name of one letter and one digit. The run `tools` satisfies it; the finding
`remap` is a program that does not. The inductive invariant (`SpikeInv`, and in
the words of the model `LogInv`, theorem `LogInvariant`) speaks of the log while
the program still runs, before any script has read it: a reader of the log so
far would have passed the trampoline, would stop if there was an ECALL, and has
made of each instruction its row, of the last one perhaps only in hand
(`Reading`). It needs that the reader of a longer log continues the reader of
the shorter one (`ReadsOn`), and what each kind of line does to it (`AfterCore`,
`AfterCommit`, `AfterTrap`, `AfterStop`). From there the theorems are about the
scripts: the rows kept before and after remapping are the same (`KeptAlike`),
with the found names every row has one entry in each of the two lists, so that
they are as long as the rows (`OneEntry`, `FlatSingles`, `ListsOf`), and two
columns are found equal, neither different nor with a crash, exactly if they
have the same nonblank values in the same rows (`EqualMeans`): blanks at the end
add none (`PaddedUpdates`), and of columns of one length the nonblank values
tell all (`UpdatesDecide`). Of the four comparisons a `"pass"` needs each.
There is no induction over the log in this. Where a loop had to be followed to
its end, the proof takes the shortest beginning for which the claim would fail
(`ReaderExists`, `UpTo`).

**`NaturalFacts`** has what these share: a nonempty set of numbers has a first
element, and a bounded one a last (`FirstOf`, `LastOf`), functions that start
and go on alike are alike (`SameRecursion`), quotients and remainders.

*Only model-checked.* Liveness (`BundleLeaves`, `NeverStarves`,
`FetchRequestAnswered`, `DataResultReported`, `LoaderEnds`): fairness and ENABLED
are out of the prover's reach. `DamageIsRefused`: that no sum is right for one
wrong byte is arithmetic of sums modulo a power, by induction over the payload.
`OthersMeanBase`:
bitwise operators, which no prover here has. The refuted properties are findings.

## 5. Plan

*Done,* in this order: `Uop`, `Isa`, `Backend`; `FetchStream`, `Frontend`;
`CsrPort`, `Csr`, `Counters`; `Tracer`; `LoadStore`, `DataBench`, `FetchBench`;
`Upload`; `Images`, `SpikeTrace`, `PseudoOps`, `Reports`; then the proofs of
section 4, for every safety invariant and action property that a run checks
except the two named above.

*Left:* a proof of `DamageIsRefused`; the arithmetic of the MDU's restoring
division; the UART's receive FIFO at its limit.

## 6. Findings

`csr_reserved`: a SYSTEM instruction with the reserved funct3 `100`, a nonzero
rs1 field and the number of `mepc`, `mcause`, `mtval` or `mstatus` traps as
illegal, and in the same cycle writes the CSR's old value through the software
port (`csr_unit.sv:131` does not look at the illegal flag). The generated
register file prefers the software write, so trap entry does not update that
CSR. `rtl/csr/csr_regfile.rdl:66-69` and `:128-129` say hardware has priority,
and `csr_unit.sv:185-187` says that the two cannot coincide. `MretResumes` and
`HandlerMasked` are checked without these encodings, in the run `parts`.

`tracer_mdu`: the tracer looks at the completions of ALU0, ALU1, the LSU and
of branches (`cpu_tracer.py:210-219`), not at the MDU's. A multiply or divide
has no line in the trace, although the module's header says "Emit Spike-style
instruction traces from decode handshakes and completion events". All other
completions have theirs, in program order (`TraceFollowsProgram`).

`remap`: `register_remapping.py:56` and `:68` recognize only register names of
one letter and one digit. A row that writes `ra`, `sp`, `gp`, `tp`, `s10` or
`s11` adds to one of two lists and not to the other, which shifts the values
of the rows behind it. `RemapKeepsRows` holds for programs that write only
registers with such names (run `tools`).

`upload_chatter`: `loadprog.py:73-82` takes any `K` for the loader's. If the boot
window runs out before the magic word is complete (`prog_loader.sv:58-61`), the
board runs the image it has, and the next `K` that the program prints makes the
host report success; CoreMark prints one (`core_main.c:310`).
`fpga/loadprog.py:163` discards what came before, not what comes until the reset.
`fpga/README.md:301` says "`K` accepts the image and starts the CPU; `E` rejects
it", `fpga/UART_PLAN.md:143` "`K` means accepted". The `E` of `DHRUTV_RESULT`
(`fpga/UART_PLAN.md:117`) reads as a rejection likewise. Without a program that
runs meanwhile, an upload has what it reports (`CleanIsAccepted`).

`csrr`: `lib.py:408-410` rewrites `csrr rd, csr` to `csrrw rd, csr, zero`, which
clears the CSR where the original reads it (`csrrs` would not); the docstring,
`lib.py:347`, says "Convert pseudo instruction to regular instruction". All
others keep their effect (`OthersMeanBase`, run `tools`).

A smaller divergence is stated here only. `compare.py:51` indexes past the rows
of the first file when the second one is longer and has a value there, although
the columns were padded to one length (`:33`); the model calls this outcome
`"crash"`, and it is no pass.

## 7. Not modelled

- *Predictor contents.* `Frontend` and `Backend` admit every prediction, so no
  content of the BPU or the RAS can affect correctness; what they cost in
  cycles is not a property here.
- *Arithmetic of the ALU and the MDU.* Functions of their operands, open in
  `Backend`; the repository proves them at the bit level (`fpga/formal`).
- *UART bit timing, FIFO and splitter.* `Upload` starts at received bytes.
- *The reset synchronizer, LED snoop and wiring* of `cpu_top.sv`.
- *`cpu_monitor.py`, `env.py`, `tb_top.sv`:* they observe or connect.
- *Texts:* the disassembly of the tracer, the signature file's layout, the
  notation of jal offsets, score formulas.
- *Compilers, `area_report.py`, the check scripts,* and in `lib.py` the helpers
  that run commands and read regression lists.
- *`zext.w`,* an RV64 instruction; `zext.h` is the RV32 form.
- *Overlapping commands* on one test directory, and a `simulation.log` that is
  left in the testbench's own directory by another tool and moved over by
  `simulate_c.sh:186-190`.
- *Test programs and the legacy core* (`rtl/legacy`), which the build does not
  use. Interrupts do not exist in the RTL (`mip` is constant). Instruction
  memory is read-only while the core runs; data and instruction memory are
  separate, as in the RTL.
