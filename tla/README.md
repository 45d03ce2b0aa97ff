# Verification of js68xkjit

js68xkjit runs 68000-family guest programs on a small machine built around a
block compiler (`src/j68.js`): a bus with ROM, RAM and devices, a run loop, an
interrupt controller, and a ROM monitor that a user reaches through a UART and
a terminal. This directory holds TLA+ models of that machine, the TLC runs that
check them on small instances, and TLAPS proofs about them. Paths below are
relative to the root of the repository; `src/j68.js` is the core.

To check a model: `tlc -config machine.cfg MCMachine.tla`; to check proofs:
`tlapm MachineProofs.tla`. `PROJECT.json` lists the runs, the mutants that show
each property can fail, the theorems, the source lines behind every definition
and the hazards of the code.

## Inventory

| Component | State | Operations | Hard part | What makes it correct |
|---|---|---|---|---|
| Processor context, `src/j68.js`, `src/instructions/line4.js` | SR with lazily synchronised condition codes, a7 and the banked USP and SSP, PC, VBR, halt | syncSr, setSr, exception, RTE, STOP, MOVEC, MOVE to SR and USP, TRAP #0 | banking and frames interleave with interrupts at any depth | a return resumes what was suspended; SSP survives user mode |
| Run loop, `src/machine/test_machine.js` | overlay, lastFault, monitor hooks | pollInterrupts, acceptInterrupt, runBlock, stepInstruction, captureFault, reset | errors between two assignments; order of poll, halt test and advance | handlers nest by level; no level lost; STOP wakes |
| Interrupt controller, `src/machine/devices/intc.js` | pending and mask bits, one acknowledge handler for a level | raise, acknowledge, mask stores, highestPending | shared levels, level 7 against the default mask | a raised level stays until served |
| Timer, `src/machine/devices/timer.js` | COUNT, RELOAD, CONTROL, pending flag, fractional ticks | register stores, advance, advanceTime, acknowledge | many periods in one advance, expiry while a handler runs | bulk advance equals tick by tick; flag and level agree |
| Code cache, `context.c` in `src/j68.js` and the run loop | address to compiled function | compile on a miss, cleared by writes, interrupts, reset | memory changed behind the bus | cached code is current code |
| UART, `src/machine/devices/uart.js` | rx and tx queues | readData, writeData, enqueue, consume, reset | two readers (monitor and guest) | bytes in order |
| Command loop and commands, `src/monitor/command_loop.js`, `commands.js` | active, buffer, mode | poll, enter, execute | commands that hand the machine to the guest and get it back | one owner at a time; sessions do not leak |
| Host terminal, `tools/monitor.js` | pendingRun, settled ticks, exit request | the tick, stdin, Ctrl-C | budget, fault and monitor entry in one slice | a run ends, a fault is shown |
| Line editor, `tools/support/line_editor.js` | line, cursor, history, expected echo | keys, commit, handleOutput, resetTransientInput | echo arrives ticks later, or never | a line is shown once, other output always |
| Bus and regions, `src/machine/bus/`, `memory_map.js`; reads, writes and loaders of `test_machine.js` | regions, RAM, ROM, overlay | map, decode, width fallback, overlay split, loaders, reset | accesses across regions, the overlay's end and the last address; patches and files that fail half-way | the machine shows one memory; a store is whole or refused |
| Block compiler and decoders, `src/j68.js`, `src/instructions/` | none beyond the context | decode, translate, eliminate dead condition codes | what a block may drop when an exception leaves it | a block does what its instructions do one by one |
| Assembler, `src/monitor/assembler.js` | symbols, location, output, session | two passes, org, equ, labels, interactive session | forward references measured before they are known; names that are also numbers; a store that fails half-way | the passes agree; references land on their labels |
| Sound, `src/machine/devices/sound.js` | channels with gate, envelope and status; samples due | register stores, reset, advance, sample | gate, enable, mute and samples in any order | notes follow gates; status follows notes; releases end |
| RTC, video, `src/machine/devices/rtc.js`, `video.js` | control bit; cursor and cells | byte reads and writes | long accesses taken apart, torn by time or reduced by bytes | how far a torn value may be off; the cursor ends where it was put |
| Cooperative scheduler, `work/programs/lib/task.inc`, `coop_demo.s`, `coop_regs.s` | control blocks, current task, stacks | start, yield, exit, select, dispatch, resume | contexts saved by hand under interrupts; a restart over an old run | round robin, registers and stacks kept |
| Disassembler, tools | none | formatting, running an assembler | none | not modelled |

The parts are driven by one JavaScript thread. The tick of `tools/monitor.js`
(every 10 ms) advances the real-time devices, then lets either the monitor or a
slice of the guest run, then settles budgets and faults and flushes output. The
guest reaches devices through the bus, devices reach the processor through the
interrupt controller, the guest reaches the monitor through TRAP #0, and the
monitor reaches the guest through `g`, `gl`, `t`, `reset` and `bench`. So the
interleavings that matter are those of parts of a tick with what a previous
tick left behind, of guest instructions with device events between blocks, and
of keys with ticks.

## Modules

**Context** translates the processor context: `Sr`, `SyncSr`, `SetSr`,
`ExceptionOpen`/`ExceptionEntry` (Context.exception before and after its
pushes), `InterruptOpen`, `InterruptPushed` and `InterruptEntry` (acceptInterrupt before
its pushes, before it reads the vector, and complete), `HalfFrame` (what two pushes leave
if one fails) and `RteReturn`.
Memory is a row of stack slots; a slot holds one pushed word, so a frame is two
slots. The order of assignments is kept, because it is where `RTE` and
`acceptInterrupt` go wrong for user code.

**Machine** is the run loop. The variable `at` is the part to run next:
`idle` (between two calls, where pollInterrupts begins), `execute`, `advance`,
and `threw` when pollInterrupts failed outside the try block, at a push
(`AcceptFails`) or at the vector (`VectorFails`); a command catches the error and the
machine goes on as it is (`ErrorCaught`). `MonitorSets` is what the commands do to PC and
halt. `Execute` has one disjunct for each kind of instruction that touches the context; data processing
is nondeterministic. `frames` is a history variable that no code reads: the
activities suspended. The guest is any program that pops what it pushed and
returns from a handler with a7 on its frame. `TrapThenContinue` is the group of
decoders that raise an exception and go on.

**Host** says who calls the run loop: `caller` is a tick without a pending run, a run
under a budget, the rest of a slice in which the guest called the monitor, or nobody,
while the monitor is active. Its actions are those of Machine under the conditions of
`tools/monitor.js` and of the commands. The properties of Machine are stated with callers
that may do anything at any time, which holds of these too; only liveness needs to know.

**Activities** is the abstract specification: an exception suspends the current
activity, a return resumes the one suspended last exactly as it was. Machine
implements it under the mapping in `Nested`, for guests that stay in supervisor
mode.

**Timers** has the registers, the controller and the loop of Timer.advance, one
iteration for each action, for any list of timers. `signalled`, `start` and
`fired` are history.

**RunControl** is the tick, the command loop and the commands that decide who
runs. `at` is the part of the tick: `poll`, `command`, `step` (a slice of a
pending run, by instructions), `blocks` (a slice by blocks), `settle`. What a
guest instruction does is one of four outcomes: goes on, stops, calls the
monitor, faults; it may also read waiting keys. `crashed` is an error no one
catches. Two variables are history: `met`, that guest code met a fault in this tick, and
`told`, what the tick has reported.

**Console** puts the line editor in front of the command loop and the guest,
with the UART's queues between them; lines are committed at any time between ticks,
ahead of the answer to the last and to a guest too. Two variables are history:
`hurried`, that the last line was committed with another under way or to a guest, and
`unechoed`, that no monitor echoes it, because a guest has it or a reset cleared it.
`Eaten` is what a flush swallows.

**CodeCache** has memory as cells and blocks compiled from cells, with
everything that writes code memory and everything that empties `context.c`.
`behind` is history: cells changed behind the bus since a block was compiled.

**Decoders** says of every instruction `decode()` answers with what its decoder
declares to the compiler (`in`, `out`, which outputs are the flag itself, whether
it ends the block) and, apart from that, what the code it emits does: the
condition codes it assigns and reads, whether it may throw, whether it writes PC.
One definition stands for one group of `if`s of a decoder; operands, sizes and
effective addresses are left out.

**Blocks** runs a compiled block and `stepInstruction` side by side over the same
decoded instructions. `DecodeNext` is a turn of the loop of `compile`, `Unused`
the scan for dead condition codes, `Prepared` and `CompiledPc` what is inserted
for PC and SR. A flag is represented by the instruction that gave it its value,
so that a flag that differs is one an engine has from the wrong instruction.
What an instruction decides from data (whether CHK traps, where RTS goes, which
flags a shift keeps) is one choice for both engines. `ExecuteFails` is an error
with some of the flags of the text already assigned; `DecodeFails` is one in `compile`,
after which nothing of the block is executed, while `StepAlone` goes on to the
instruction that cannot be decoded. `Faithful` is the condition
under which the compiler is right: every decoder of the block declares what its
code does.

**Bus** is the bus with the memories and the passive devices behind it. An address
is a byte address. `RegionsOf`, `Accepted` and `Holder` are the decoding by first
and last byte, `FromBus` and `StoreBytes` an access through a region, `Read8` to
`Read32` the split at the overlay. `Load` picks an instant for each byte, since a
device is asked byte by byte and the clock goes on meanwhile; a memory answers at
one instant. `Fill` is a command that stores byte by byte (`Patch` is m, which
also shows bytes, `LoadFile` is load), `LoadImage` the loaders, which pass the bus
by, `Map` a device that is attached or refused. Of the clock the control bit and
the seconds are kept, of the display the cursor and its cells. `reply` is the
answer of the last access.

**Memory** is the abstract specification of Bus: bytes, ROM over address 0, loads
that see one moment, stores whole or refused, fills up to the first refused byte.

**Tasks** is guest code: the scheduler of `task.inc` with the start of the programs
that include it. A task computes, calls, yields or exits; the runtime goes
instruction group by instruction group (`PushD0`, `PushA0`, `Save`, `Select`,
`Dispatch`, `Resume`), and between any two an interrupt may overwrite the stack
below a7 and the user may start the program again. `Own(t, r, v)` is a value that
only task t puts into register r. **RoundRobin** is its abstract specification: two
contexts, one turn, and a context that nobody else changes.

**Sound** has the channels' envelopes, the mixer's switches and what an advance
still has to generate: `Advance` and `AdvanceTime` compute `due`, `GenerateSample` is
one turn of their loop, and no store falls into it. Levels are whole numbers.

**Assembler** has assembleText entry by entry: `LoadAsm` collects and validates,
`Org`, `Equ`, `Label` and `Measure` are the first pass, `Skip`, `Emit` (and `Org`) the
second, `Store` what loadasm does with the result; `StartSession`, `SessionLine` and
`EndSession` are command a. An address counts words, an entry is the form of its
reference, and `Encode` gives the words with the field a reference ends in. `Reading`
is what names that are hex digits read as: the parsers of addresses
(`AddressLiteral`) and of expressions (`Expression`, `Atom`) try number and symbol in
opposite order, and a sum is an expression for both. `Anchored` is the premise under
which that does no harm: no org adds to a name defined behind it.

`MCMachine`, `MCHost`, `MCTimers`, `MCCodeCache`, `MCBlocks`, `MCBus` and `MCAssembler` give
constants their values; MCBlocks also evaluates which decoders are not faithful.
`MachineProofs`, `RunControlProofs`, `TimersProofs`, `TasksProofs`, `ConsoleProofs`,
`BlocksProofs` (with CodeCache), `DevicesProofs` (Bus and Sound) and
`AssemblerProofs` hold lemmas and theorems. So that one module can extend both of its
subjects, the specifications of Sound and CodeCache are called `SoundSpec` and
`CacheSpec`.

## Runs

| Run | Question | Instance |
|---|---|---|
| machine | TypeOK, StackInvariant, MaskCoversHandlers, LevelsNest; refinement of Activities | a supervisor guest, levels 2 and 5, one condition code, four slots: two frames, so a level 5 handler or a trap above a level 2 handler, and a push that does not fit |
| host | SupervisorStackKept, NoInterruptLost, and with fairness StopWakes | the machine under the callers of Host; user and supervisor status words with separate stacks, level 7, which is outside the default mask, a mask with and one without it, vectors that can and cannot be read; two supervisor slots, so that a second entry fails; one code address |
| timers | TypeOK, SignalKept, AdvanceExact, and with fairness AdvanceReturns | one timer, reloads 0 to 2, advances up to 5 ticks and half ticks: several periods, exact hits, remainders, a reload value of 0 |
| run_control | TypeOK, OneOwner, BudgetHeld, FaultsSurface, NoSessionInRun, TickParts, and with fairness RunEnds | both ways to run `g` (`asyncRun` is chosen once, in Init), budgets 2 and 3 against a slice of 2, two waiting keys, lines of one character |
| console | TypeOK, EchoHidden, OutputShown | two characters, lines of two, two lines in the queue, a guest that prints and reads, resets |
| cache | Coherent | three cells, one under the overlay, two overlapping blocks |
| bus | refinement of Memory | memories of four bytes and one byte side by side, two bytes of overlay over the first, a hole, ROM at the last addresses, a device to attach; accesses at every edge, in all widths |
| devices | TypeOK, SecondsRead, CursorStored | clock, display and a device that overlaps the clock, attached in any order; three seconds with a carry between two of them, a byte of four values, a display of two cells |
| tasks | TypeOK, and with fairness TakesTurns (refinement of RoundRobin), TurnComesBack | two tasks as in the programs, calls one deep, two starts, the second over whatever the first left |
| sound | SoundTypeOK, NotesFollowGates, StatusFresh, and with fairness ReleaseEnds | two channels, levels 0 to 2, advances with and without remainders, several samples in one |
| assembler | TypeOK, PassesAgree, ReferencesLand | all sources of up to three entries out of 28: two names, one of which reads as a number, every form of reference to each, jumps to a near and a far number, org and equ by number, by name and by sum; one address that refuses a store, behind eight words that take one |
| blocks | TypeOK, LiveFlagsAgree, BlocksFollowSteps | blocks of up to four of the twenty kinds of `Representatives`, one for every way decoders treat condition codes and ends of blocks, faithful or not |

Bounds. Stack slots bound the depth of nesting: with two slots for a frame, four
slots hold two nested frames and a third does not fit, and nothing in the code
looks deeper than the top frame. A slice of 2 against budgets of 2 and 3 has a
budget met at, before and after the end of a slice. `Counted` stops
counting where a run can no longer be told from a spent one. `RxBound` and
`LineBound` in RunControl and the constants `LineBound`, `QueueBound`, `HistoryBound`
and `AnswerBound` of Console bound what is typed, kept and answered (`history` grows
without bound in the code); `FiredBound`
(a constant) bounds the count of expiries and exceeds what one advance can bring
(which `AdvancesAreExact` proves), except for a timer that spins, which
`AdvanceReturns` is about; `MaxBlock` is four,
one more than a value needs to be assigned, read and assigned again; `SpBound` stops
following a stack pointer that has left the stacks, and the machine goes on behind an
error only while a7 is `Followed`, one failed entry below the stack and not a second, and
commands set it going only `OnStack`. In Bus, `LastTime` ends time, and
a byte has two or four values, of which the properties need two. `MaxCalls` and
`MaxStarts` in Tasks bound the nesting of calls and the restarts; a restart only sees
what the one before it left. `MaxLines` in Assembler bounds a source: a reference, its
label and one line between or before them, whose length may be wrong; `Short` and
`Near` are small, so that labels in and out of reach occur. The address in `Absent` is
eight words behind the start: all sources but three long references load without an
org, and those show a store that fails in its last word.

Fairness. The interval timer keeps firing and JavaScript runs each callback to
its end, which gives weak fairness of the parts of a tick (`RunControl!FairSpec`)
and of poll, execute and advance (`Host!HostFairness`), of the poll only where a tick or
a run calls it: not while the monitor is active, nor for a halted processor under a run.
A compiled block is a finite sequence of instructions, which gives the fairness of a step
of `HostExecutes` that ends it. No
fairness is assumed of guests, users, devices or interrupts. The loop of an
advance is one call and is not left (`Timers!FairSpec`). Devices are advanced after
every block or tick, so that samples keep coming (`Sound!SoundFairSpec`); `ReleaseEnds`
asks in its premise for a mixer that stays on. In Tasks the processor goes on through
the runtime, and each task yields or exits in the end, as tasks of a cooperative
scheduler must (`Tasks!Fairness`): the programs do so in each turn of their loops.

Deadlock is checked except in RunControl and Host, whose process really ends, and in the
run of Assembler, which follows one command from the prompt back to it.

### Departures the models contain

The models follow the code where it does not do what one would expect of it. The
properties above are stated beside these places, and the definitions named here show
each of them; no run of its own is spent on them.

RTE to user mode banks a7 before the frame is consumed
(`src/instructions/line4.js:52`, `ReturnSp`): the PC is popped from the user stack and
the supervisor stack keeps the frame, where a correct RTE would leave SSP behind it;
`SupervisorStackKept` allows either. If nothing answers where the PC is popped, the fault
comes with the mode already changed (`RteFails`). A vector that cannot be read leaves the
interrupted code at the raised level above a frame nobody pops
(`src/machine/test_machine.js:339`, `VectorFails`). A run whose guest executes STOP neither
goes on nor ends (`src/machine/test_machine.js:439`): `runBlock` polls interrupts first, so
that a processor stopped without a pending run is woken (`StopWakes`);
`runUntilInstruction` tests halt first, so that under a run it is not, which is why
`RunEnds` excepts a halted guest, although `docs/MONITOR.md:151` gives such runs a
"safety budget". A second `bench` with another count runs the block compiled for the
first (`src/monitor/commands.js:279`, `Bench`): its program comes in behind the bus.
ADDX, SUBX, shifts by a register and rotates use condition codes they do not declare,
and `compile` drops them (`src/j68.js:822`): after BTST and ADDX a block has the z of
neither. The end of a block stores PC over what Bcc, RTS or JMP left there
(`src/j68.js:803`, `CompiledPc`); single steps follow them. MCBlocks lists these
decoders in `UnfaithfulDecoders`.

ANDI, ORI and EORI to CCR read `c.sr` without declaring it (`ImmediateToCcr`). JSR
pushes its return address and goes on behind itself in both engines
(`src/instructions/line4.js:563`, `Jsr`). An interrupt of user code banks a7 twice
and loses USP (`src/machine/test_machine.js:338`, `InterruptPushed`). A reset does
not enable the overlay, although `src/machine/memory_map.js:106` says that ROM is
visible after a reset (`Reset`). A fault in the slice that spends the budget is
hidden behind RUN LIMIT (`tools/monitor.js:203`, `Reportable`), one that comes after the
guest called the monitor in the same slice is not reported at all (213), and one in
a benchmark passes for its completion (`src/monitor/commands.js:310`, `RunBenchmark`);
`FaultsSurface` names the first two and is not about the third. Decoders that
raise exception 4 and go on (`src/instructions/line5.js:77`, `TrapThenContinue`)
leave a frame that no handler pops. An interrupt entry that fails in a benchmark
(`src/monitor/commands.js:305`, `RunBenchmark`) leaves the monitor inactive and
the benchmark's trap handler set. Of two lines committed at once the
first is shown twice (`tools/support/line_editor.js:60`), so `EchoHidden` is stated of
lines committed with nothing under way. Output of a guest that begins like the line
typed to it is swallowed (140), and so is what the first block prints after `reset`
(`src/monitor/commands.js:558`), whose own echo went with the queue: `OutputShown`
excepts these two (`unechoed`).
And of two timers at one level, which no machine of the repository attaches, the
one attached first keeps its flag after the level was served: `SignalKept` is
stated of the owner of a level, and proved for any number of timers.

Of the devices: a gate switched on before its channel is enabled is forgotten by the
next sample (`src/machine/devices/sound.js:474`, `Silenced`). A display whose size does
not divide 256 would lose the cursor between the bytes of a store
(`src/machine/devices/video.js:45`, `CursorByte`).

Of the assembler: word branches, dbra and `lea` keep the low bits of a displacement
that does not fit (`src/monitor/assembler.js:779`, `Encode`). `lea` of a name that
nobody defines assembles as address 0 (1586, `Target`). An org that is not the first
entry moves the labels but not the code, which is stored without the gap (1852, `Org`);
END is then reported from the wrong base. In `.l` operands and org a name of hex digits
is always a number, in expressions it is a number only until a symbol of that name is
defined: an equ of a later label that looks like a number silently keeps the number
(1866, `Immediate`). An org with a sum goes by the same rule, and is read in each pass:
with `b1` a later label, `org 1000+b1` adds the number in the first pass and the label
in the second, which then meets other addresses (1893, 183, `Org`, `Expression`), while
the code is stored at the base of the first (1854): `PassesAgree` and `ReferencesLand`
are stated of `Anchored` sources, and without that premise TLC finds both violated.
A store that faults leaves a session through its caller, its words
half written and its location unmoved (1954, `SessionLine`).

## Proofs

All theorems hold for every value of the constants under the named assumptions of the
modules (`StackAssumption`, `MachineAssumption`, `RunControlAssumption`,
`TimersAssumption`, `TasksAssumption`, `ConsoleAssumption`, `CodeCacheAssumption`,
`BlocksAssumption`, `BusAssumption`, `SoundAssumption`, `AssemblerAssumption`), which
TLC evaluates in the runs. Every safety property a run checks is the statement of a
theorem, and so are the three refinements. Most assumptions only give the constants
their types; these say more. In `TimersAssumption` the bound of the counted expiries
is above every advance. In `BusAssumption` the last address is odd, the regions are
intervals of which no two memories share an address and ROM ends at the last one, no
device answers at the overlay or in the three bytes behind it, as none of
`src/machine/memory_map.js` does, the clock's register lies in its region, and the
time fits into the four bytes it is read in. In `ConsoleAssumption` the prompt and the
line break are not among the characters of a line.

What holds after each of the elements of a sequence is shown by the least number at which
it would fail (`LeastNumber`, from `WFMin` of the library): no induction theorem with an
operator parameter is needed for it. The modules that are proved about write folds as
recursive functions for that reason.

*Machine.* `TypeCorrect` is a step for each action, over lemmas that say what each
Context operator does to a context. For guests that stay in supervisor mode, every
step has one of four shapes: it stays on the stack (`StaysOnStack`: nothing at or
above the latest frame changes), suspends under the stack (`SuspendsUnderStack`),
resumes the last activity (`ResumesLast`) or starts over (`StartsOver`). `StepShape`
proves this once; `StackSafe`, `NestingSafe` and `Refinement` then argue about four
shapes and not fifteen instructions. `StackInvariant` is inductive together with
`TypeOK`: that frames are intact needs that they are stacked and that a7 is not above
the latest, and that RTE restores the activity needs that its frame is intact. Entries
that fail, at a push or at the vector, stay on the stack: what they leave lies under it.
That the PC of a frame cannot be popped is impossible for these guests and only for these.
`LevelsNest` is not inductive: after a return only the mask keeps a level from
entering again, which is what `MaskCoversHandlers` adds.

For guests that do switch modes there are two action properties, proved from the types
alone, by what each operator makes of the banked stack pointers (`Banked`):
`SupervisorStackSafe`, also for entries that fail on a full stack, and
`InterruptsAreKept`, that a raised level leaves the controller only through the entry of
its own handler, the acknowledge register or a reset.

*RunControl.* `OneOwner`, `BudgetHeld`, `FaultsSurface` and `NoSessionInRun` are
proved together as `RunInvariant`. Between ticks they speak for themselves;
`TickParts`, proved with them, adds what holds inside a tick, that only an active
monitor polls, that a command starts with an empty line and no session, and that the part of a
slice still to be run fits under the budget plus a slice. `FaultsSurface` compares
`met` with `told` and is kept by each part of a tick in turn (`FaultsKept`). Commands are reduced
to one shape (`CommandLeaves`) before the invariant is looked at.

*Timers.* `SignalKept` is inductive as it stands: an acknowledgement clears the
flag of exactly the timer that owns the level, so a timer that stays signalled
keeps both flag and level. `AdvanceExact` compares the end of a loop with a formula, and
what makes it inductive is that the formula can be applied in the middle of the loop:
`Expiries` and `Remainder` of what is left, with what was counted so far, are those of
the whole advance (`Exact`), because one iteration takes one period off a division
(`ExpiryStep`, over lemmas on quotient and remainder). A timer that reloads itself with
0 is excepted (`Starved`): its loop does not end.

*Tasks.* The invariant says what the runtime relies on and never checks: a task runs on
its own stack, with the longs of yield above its return addresses (`RunningShape`); the
stack of a parked task ends with the return from yield, under any a7 an interrupt
may push from (`ParkedShape`); control blocks point to the stacks of their tasks
(`BlocksShape`); and who is alive in which phase (`SchedulerShape`). `TypeOK` follows,
that is, every pop finds what it takes it for. For the refinement, the view of a task is
worked out once for each state the task can be in (`RunningSees`, `YieldingSees`,
`ReturningSees`, `RestingSees`), so that each group of instructions of the runtime is a
step of RoundRobin or leaves all views as they were.

*Console.* Neither property of the echo is inductive. `EchoInvariant` adds where lines
are on their way. Whenever a line is expected that the monitor echoes, what is printed
begins with an echo that goes on to a line break (`EchoFirst`): queues hold whole lines,
and no expected line holds a line break, so a flush swallows nothing behind it
(`FirstEaten`). If the line was committed with nothing under way, what the monitor has
echoed (`tx`) followed by what it has still to read (`rx`) is the line
(`LineExpected`), or nothing is on its way any more (`Silent`); a flush then finds the
whole line with the answer behind it or no echo at all (`WholeEcho`).

*CodeCache* (in `BlocksProofs`). `Coherent` is proved cell by cell: a store empties the cache, and
whatever else changes what is visible enters `behind`.

*Blocks.* The theorems are of any set of decoders and blocks of any length.
`LiveFlagsAgree` says in which flags the engines may differ: those that are
unused from the next instruction on. It is what makes the argument inductive: a
flag that a reader needs is not unused before it (`DeclaredIsUsed`), an unused
flag stays unused until it is assigned (`UnusedNext`), and nothing is unused at
the end of a block (`UsedAtEnd`). `BlocksFollowSteps` follows, with `EndsAgree`
for PC and count.

*Bus* (in `DevicesProofs`). Types: an access ends within one region, whatever is attached
in whatever order, and the bytes of a store take the display from one cursor and
contents to another (`VideoStepsType`). `CursorStored`: the cursor is the last byte a
store leaves, modulo the cells, and that is the long modulo the cells if these divide the
values of a byte (`ValueModulo`), which is the premise of the property. `SecondsRead` is
an argument about digits: a long is loaded at four instants, each byte is a digit of its
own instant (`Shifted`), and as instants do not go back, the value is never ahead of the
last one (`TornBytes`). The refinement of Memory goes by the ways of an access: each
read of one, two or four bytes shows the visible bytes or nothing (`Read8Shows` to
`Read32Shows`, two halves by `JoinShows`), because an address where no device answers is
of one memory at most (`Clear`, `Territory`); a store reaches the RAM beneath the overlay or
devices that are not memory (`DevicesLeaveRam`); and a file ends at its least refused
byte (`AcceptsFacts`, `FillShows`).

*Sound* (in `DevicesProofs`). One predicate of a channel, `Sane`, says its type, that its
phase agrees with gate and level, and that its status is up to date. Each of the operators
a store or a sample is made of keeps it; `SoundInvariant` says it of all channels, together with the
ranges of the mixer's variables, and `SoundTypeOK`, `NotesFollowGates` and `StatusFresh` are
parts of it. Nothing depends on the number of channels or the rates of the envelopes.

*Assembler.* `PassesAgree` is not inductive: at the start of the second pass nothing
relates the addresses the first one noted. `Measured` adds that each noted address is
the one before it plus the length of its line, which is a function of the
line's form (`EncodeSized`: the same length whatever a symbol's value is), and that labels
known so far name the noted addresses; that an org it has passed keeps its value is where
`Anchored` is needed (`AnchoredKeeps`). `Emitted` keeps all that
and says that the second pass is where the first one was. `PassInvariant` is their
conjunction with `TypeOK`, for sources of any length. `ReferencesLand` speaks of memory
after both passes, and needs that each entry's words are in the output behind those of
the entries before it (`Written`) and that the base is where the first entry was
(`Based`). An entry's address is then the base plus the words before it
(`AddressLands`), a displacement leads back to its target (`DistanceLeads`,
`SignedIs`, `HalvesMeet`), and a store in one piece puts the k-th word at the k-th address
as long as the code does not overlap itself (`StoredAt`), which is where
`Len(output) <= Top + 1` comes from. A branch with a word and `lea` are proved to reach
their label only where the displacement fits, since nothing looks at it; that an org
comes first, if at all, is a premise of the property for the reason given above.

Model-checked only: liveness under fairness (`StopWakes`, `AdvanceReturns`,
`RunEnds`, `ReleaseEnds`, `TurnComesBack`), which the installed provers do not handle
together with ENABLED. Which decoders are faithful, the premise of `BlocksFollowSteps`,
is evaluated by TLC (`UnfaithfulDecoders`).

## Abstractions

Instruction operands, addresses and data are not modelled: a code address is one
of a few values, a status word keeps S, the mask and some condition codes. Guest
programs are nondeterministic. A read of a slot as a word of another kind gives
any word. Register stores are whole values, not bytes. Messages and numbers the
monitor prints are left out; in Console a line break is one character. Time is
counted in ticks and parts of ticks; floating point is not modelled.

Bytes of the bus have a few values and addresses a few bits. The clock keeps one
control bit and the seconds; its calendar registers are formatted from the same
instant, and a torn calendar is a torn second. The display clears its cells to 0 for a
blank; its control and size registers are plain storage. In Sound an envelope moves by
whole levels. In Assembler addresses count words, so that a dc.b of odd length is left
out; an expression is a name, a number or the sum of the two, without differences and
ors; a source with a label and an instruction on one line is two
entries; one command is followed. Every write empties the code cache, which is in
CodeCache and not repeated in Bus.

### Not modelled

The disassembler formats and keeps no state. The toolchain scripts and the audio
backends are I/O on the host. The register maps of `src/machine/registers/dma.js` and
`ipc.js` are constants no code uses. The opcode tables of assembler and decoders and the
arithmetic of the instructions are functions of operands without state, for which the
repository's tests compare single values; the interactions that depend on them (which
flags, which PC, which length) are in Decoders and Assembler. Options, terminal modes
and files are I/O.

## Where to go on

1. **Proofs**: the safety part of the liveness properties, that is, the measures that
   fall: the ticks left in an advance with no timer starved, the level of a released
   note, the budget of a run; and the stack of a guest that switches modes, as far as
   the two ways in which user code loses it allow.
2. **Arithmetic**: BCD, shifts and rotates, bit fields and MOVEM order against reference
   definitions; with it, the choices of `may` in Decoders become functions of data.
3. **Composition**: Sound and Timers under one advance of the bus, and the reset of the
   machine over all devices.

The order in which the modules were written follows what a mistake costs: the machine
first, since every guest rests on it; then who runs; then what is run; then memory, the
programs' runtime, the assembler and the devices.
