------------------------------- MODULE Machine -------------------------------
(* The run loop of src/machine/test_machine.js: poll the interrupt            *)
(* controller, execute guest code, advance the devices, around the processor  *)
(* context of module Context. JavaScript runs this on one thread, so the only *)
(* interleavings are those of the three parts of runBlock and stepInstruction *)
(* with what their callers do between two calls; "at" is the part to run      *)
(* next. Here the callers may do so at any time: module Host says when.       *)
(*                                                                            *)
(* The guest program is nondeterministic but keeps the stack discipline of a  *)
(* compiled program: it pops what it pushed, and a handler executes RTE with  *)
(* a7 back on the frame that entered it.                                      *)
EXTENDS Context, Sequences, FiniteSetsExt

CONSTANTS
    Levels,        \* interrupt levels some device uses
    GuestBases,    \* vector bases the guest loads with MOVEC
    GuestMasks,    \* masks the guest stores in the interrupt controller
    OverlayStates, \* values the host gives the overlay
    GuestSr,       \* status words the guest loads with MOVE to SR and STOP
    HandlersUnmask, \* whether handlers may lower the interrupt mask
    Traps,         \* vectors of the traps the guest raises, of 4, 6, 7 and 8
    CpuHasVbr,     \* TRUE for a 68020 or later: interrupts go through VBR
    VectorTables   \* "rom", "ram", "moved" |-> vector number |-> handler

VectorNumbers == {1} \cup Traps \cup {24 + l : l \in Levels}

ASSUME MachineAssumption ==
    /\ Levels \subseteq 1 .. 7
    /\ GuestBases \subseteq Bases
    /\ GuestMasks \subseteq SUBSET Levels
    /\ OverlayStates \subseteq BOOLEAN
    /\ GuestSr \subseteq Sr
    /\ HandlersUnmask \in BOOLEAN
    /\ 8 \in Traps /\ Traps \subseteq {4, 6, 7, 8}
    /\ CpuHasVbr \in BOOLEAN
    /\ VectorTables \in [{"rom", "ram", "moved"} -> [VectorNumbers -> Pcs]]

VARIABLES
    c,         \* the processor context
    mem,       \* the stacks
    overlay,   \* overlayEnabled: ROM answers at address 0
    pending,   \* Intc: levels raised and not acknowledged
    mask,      \* Intc: levels enabled
    at,        \* the part of the run loop to run next
    frames     \* history: the activities suspended, the latest first

vars == <<c, mem, overlay, pending, mask, at, frames>>
intc == <<pending, mask>>

-----------------------------------------------------------------------------
(* The history of suspended activities, which no code reads: what was         *)
(* interrupted, at which level (0 for a trap) and where its frame lies.       *)

\* The words on the stack, those below the stack pointer blotted out.
StackFrom(m, sp) == [a \in Slots |-> IF a >= sp THEN m[a] ELSE Data]

CurrentActivity ==
    [pc |-> c.pc, sr |-> SyncSr(c).sr, sp |-> c.a7, stack |-> StackFrom(mem, c.a7)]

Suspended(level, framePc, sp) ==
    [at |-> sp, level |-> level, act |-> [CurrentActivity EXCEPT !.pc = framePc]]

Suspend(level, framePc, sp) ==
    frames' = <<Suspended(level, framePc, sp)>> \o frames

\* Bound: a stack pointer that user code sees drift off the stacks (RteReturn)
\* is followed this far; one that a failed entry moves below them, while it is
\* Followed when the error is caught, and OnStack when a command sets the machine
\* going.
SpBound == 2
Followed == c.a7 > -SpBound
OnStack == c.a7 >= 0

\* The guest may pop what lies below this slot: it pushed it.
StackBase ==
    IF ~c.sr.s THEN MemTop ELSE IF frames = <<>> THEN SspTop ELSE frames[1].at

-----------------------------------------------------------------------------
(* Vectors. Reads at address 0 see ROM while the overlay is enabled.          *)

AtZero == IF overlay THEN "rom" ELSE "ram"
TrapHandler(vector) == VectorTables[AtZero][vector]
VectorReadable == ~CpuHasVbr \/ c.vbr # "hole"
InterruptHandler(level) ==
    LET base == IF CpuHasVbr THEN c.vbr ELSE "zero"
    IN VectorTables[IF base = "zero" THEN AtZero ELSE base][24 + level]

-----------------------------------------------------------------------------
(* Interrupt controller. *)

AllEnabled == Levels \ {7}
HighestPending == IF pending \cap mask = {} THEN 0 ELSE Max(pending \cap mask)
Acknowledge(level) == pending' = pending \ {level} /\ UNCHANGED mask

-----------------------------------------------------------------------------
(* pollInterrupts, the first part of runBlock and stepInstruction. *)

\* Mutant: the status word is pushed before its condition codes are synchronised.
AcceptInterruptUnsynced(level) ==
    LET sp == InterruptOpen(c).a7 IN
    /\ FrameFits(sp) /\ VectorReadable
    /\ c' = InterruptEntry(c, level, InterruptHandler(level))
    /\ mem' = StoreFrame(mem, sp, c.sr, c.pc)
    /\ Suspend(level, c.pc, sp)
    /\ Acknowledge(level)
    /\ at' = "execute"
    /\ UNCHANGED overlay

AcceptInterrupt(level) ==
    LET sp == InterruptOpen(c).a7 IN
    /\ FrameFits(sp) /\ VectorReadable
    /\ c' = InterruptEntry(c, level, InterruptHandler(level))
    /\ mem' = StoreFrame(mem, sp, SyncSr(c).sr, c.pc)
    /\ Suspend(level, c.pc, sp)
    /\ Acknowledge(level)
    /\ at' = "execute"
    /\ UNCHANGED overlay

\* Mutant: the level is acknowledged before the frame is pushed.
AcceptFailsAcknowledged(level) ==
    LET sp == InterruptOpen(c).a7 IN
    /\ ~FrameFits(sp)
    /\ c' = InterruptOpen(c)
    /\ mem' = HalfFrame(mem, sp, SyncSr(c).sr)
    /\ Acknowledge(level)
    /\ at' = "threw"
    /\ UNCHANGED <<overlay, frames>>

\* A push outside RAM throws, and pollInterrupts is outside the try block: the
\* error leaves runBlock with a7 already moved.
AcceptFails(level) ==
    LET sp == InterruptOpen(c).a7 IN
    /\ ~FrameFits(sp)
    /\ c' = InterruptOpen(c)
    /\ mem' = HalfFrame(mem, sp, SyncSr(c).sr)
    /\ at' = "threw"
    /\ UNCHANGED <<overlay, intc, frames>>

\* The read of the vector throws behind the pushes and setSr: the interrupted
\* code stays current, at the raised level and above a frame nobody will pop.
VectorFails(level) ==
    LET sp == InterruptOpen(c).a7 IN
    /\ FrameFits(sp) /\ ~VectorReadable
    /\ c' = InterruptPushed(c, level)
    /\ mem' = StoreFrame(mem, sp, SyncSr(c).sr, c.pc)
    /\ at' = "threw"
    /\ UNCHANGED <<overlay, intc, frames>>

Accept(level) == AcceptInterrupt(level) \/ AcceptFails(level) \/ VectorFails(level)

\* Mutant: a level equal to the mask preempts.
PollInterruptsEqual ==
    /\ at = "idle"
    /\ IF HighestPending >= c.sr.ipl /\ HighestPending # 0
       THEN Accept(HighestPending)
       ELSE /\ at' = IF c.halt THEN "idle" ELSE "execute"
            /\ UNCHANGED <<c, mem, overlay, intc, frames>>

PollInterrupts ==
    /\ at = "idle"
    /\ IF HighestPending > c.sr.ipl
       THEN Accept(HighestPending)
       ELSE /\ at' = IF c.halt THEN "idle" ELSE "execute"
            /\ UNCHANGED <<c, mem, overlay, intc, frames>>

-----------------------------------------------------------------------------
(* Instructions. k is the context the instruction starts from: every bus      *)
(* access runs syncSr, so the condition codes of SR may or may not be current *)
(* when an instruction of a compiled block begins.                            *)

\* An instruction that does not end its block may be followed by another one
\* before the devices advance; stepInstruction always stops after one.
MayContinue == at' \in {"execute", "advance"}
EndsBlock == at' = "advance"

\* captureFault: the error stops the processor where it is, with what it has
\* stored until then. The record it leaves in lastFault is for the monitor's
\* report.
Faults(k, m) ==
    /\ \E pc \in Pcs : c' = [k EXCEPT !.halt = TRUE, !.pc = pc]
    /\ mem' = m
    /\ at' = "idle"
    /\ UNCHANGED <<overlay, intc, frames>>

Trap(k, vector, framePc) ==
    LET sp == ExceptionOpen(k).a7 IN
    IF FrameFits(sp)
    THEN /\ c' = ExceptionEntry(k, TrapHandler(vector))
         /\ mem' = StoreFrame(mem, sp, SyncSr(k).sr, framePc)
         /\ Suspend(0, framePc, sp)
         /\ EndsBlock
         /\ UNCHANGED <<overlay, intc>>
    ELSE Faults(ExceptionOpen(k), HalfFrame(mem, sp, SyncSr(k).sr))

\* Data processing and branches.
Compute(k) ==
    /\ \E pc \in Pcs, flags \in SUBSET Flags :
           c' = [k EXCEPT !.pc = pc, !.flags = flags]
    /\ MayContinue
    /\ UNCHANGED <<mem, overlay, intc, frames>>

\* MOVE, ANDI, ORI and EORI to CCR.
MoveToCcr(k) ==
    /\ \E pc \in Pcs, ccr \in SUBSET Flags :
           c' = [SetCcr(k, ccr) EXCEPT !.pc = pc]
    /\ MayContinue
    /\ UNCHANGED <<mem, overlay, intc, frames>>

Jsr(k) ==
    LET sp == k.a7 - 1 IN
    sp >= -SpBound /\
    IF sp \in Slots
    THEN /\ \E pc, return \in Pcs :
               /\ c' = [k EXCEPT !.a7 = sp, !.pc = pc]
               /\ mem' = [mem EXCEPT ![sp] = return]
         /\ EndsBlock
         /\ UNCHANGED <<overlay, intc, frames>>
    ELSE Faults([k EXCEPT !.a7 = sp], mem)

\* A step leaves PC at the address popped; a block stores the next one over it.
Rts(k) ==
    /\ k.a7 < StackBase
    /\ \E pc \in AsPc(Load(mem, k.a7)) \cup Pcs : c' = [k EXCEPT !.a7 = @ + 1, !.pc = pc]
    /\ EndsBlock
    /\ UNCHANGED <<mem, overlay, intc, frames>>

\* A handler returns with RTE, not by leaving supervisor mode, and lowers the
\* mask only where the constant says so.
GuestLoads(k, sr) ==
    \/ frames = <<>>
    \/ sr.s /\ (HandlersUnmask \/ sr.ipl >= k.sr.ipl)

\* MOVE, ANDI, ORI and EORI to SR, which the code does not privilege.
MoveToSr(k) ==
    /\ \E pc \in Pcs, sr \in GuestSr :
           GuestLoads(k, sr) /\ c' = [SetSr(k, sr) EXCEPT !.pc = pc]
    /\ MayContinue
    /\ UNCHANGED <<mem, overlay, intc, frames>>

Rte(k) ==
    /\ k.sr.s
    /\ frames # <<>> /\ k.a7 = frames[1].at
    /\ \E sr \in AsSr(Load(mem, k.a7)) :
           ReturnSp(k, sr) < MemTop + SpBound /\
           \E pc \in AsPc(Load(mem, ReturnSp(k, sr))) : c' = RteReturn(k, sr, pc)
    /\ frames' = Tail(frames)
    /\ EndsBlock
    /\ UNCHANGED <<mem, overlay, intc>>

\* The PC lies where nothing answers: the pop of SR has banked the stacks by then.
RteFails(k) ==
    /\ k.sr.s
    /\ frames # <<>> /\ k.a7 = frames[1].at
    /\ \E sr \in AsSr(Load(mem, k.a7)) :
           /\ ReturnSp(k, sr) \notin Slots /\ ReturnSp(k, sr) < MemTop + SpBound
           /\ Faults([SetSr(k, sr) EXCEPT !.a7 = ReturnSp(k, sr)], mem)

Stop(k) ==
    /\ k.sr.s
    /\ \E pc \in Pcs, sr \in GuestSr :
           GuestLoads(k, sr) /\ c' = [SetSr(k, sr) EXCEPT !.pc = pc, !.halt = TRUE]
    /\ EndsBlock
    /\ UNCHANGED <<mem, overlay, intc, frames>>

MoveToVbr(k) ==
    /\ k.sr.s
    /\ \E pc \in Pcs, base \in GuestBases : c' = [k EXCEPT !.pc = pc, !.vbr = base]
    /\ EndsBlock
    /\ UNCHANGED <<mem, overlay, intc, frames>>

\* RTE, STOP and MOVEC check S and trap to vector 8 on their own address.
PrivilegeViolation(k) == ~k.sr.s /\ Trap(k, 8, k.pc)

\* CHK, CHK2 and illegal forms on their own address, TRAPcc on the next.
TrapInstruction(k) ==
    \E vector \in Traps \ {8}, framePc \in Pcs : Trap(k, vector, framePc)

\* Decoders that call exception(4) without declaring that they write PC: the
\* block stores the next address over the handler's.
TrapThenContinue(k) ==
    LET sp == ExceptionOpen(k).a7 IN
    IF FrameFits(sp)
    THEN /\ \E pc \in Pcs : c' = ExceptionEntry(k, pc)
         /\ mem' = StoreFrame(mem, sp, SyncSr(k).sr, k.pc)
         /\ EndsBlock
         /\ UNCHANGED <<overlay, intc, frames>>
    ELSE Faults(ExceptionOpen(k), HalfFrame(mem, sp, SyncSr(k).sr))

\* The main program points USP at the user stack before it enters user mode.
MoveToUsp(k) ==
    /\ k.sr.s /\ frames = <<>>
    /\ \E pc \in Pcs : c' = [k EXCEPT !.pc = pc, !.usp = MemTop]
    /\ MayContinue
    /\ UNCHANGED <<mem, overlay, intc, frames>>

\* TRAP #0 calls the monitor, which halts the processor; it is resumed by an
\* interrupt or by the monitor.
MonitorTrap(k) ==
    /\ \E pc \in Pcs : c' = [k EXCEPT !.pc = pc, !.halt = TRUE]
    /\ EndsBlock
    /\ UNCHANGED <<mem, overlay, intc, frames>>

\* Stores to the interrupt controller's mask and acknowledge registers.
IntcStore(k) ==
    /\ \E pc \in Pcs : c' = [k EXCEPT !.pc = pc]
    /\ \/ \E level \in Levels : Acknowledge(level)
       \/ mask' \in GuestMasks /\ UNCHANGED pending
    /\ MayContinue
    /\ UNCHANGED <<mem, overlay, frames>>

Execute ==
    /\ at = "execute"
    /\ \E k \in {c, SyncSr(c)} :
           \/ Compute(k) \/ MoveToCcr(k) \/ Jsr(k) \/ Rts(k)
           \/ MoveToSr(k) \/ Rte(k) \/ RteFails(k) \/ Stop(k) \/ MoveToVbr(k) \/ MoveToUsp(k)
           \/ PrivilegeViolation(k) \/ TrapInstruction(k) \/ TrapThenContinue(k)
           \/ MonitorTrap(k) \/ IntcStore(k) \/ Faults(k, mem)

-----------------------------------------------------------------------------
(* The devices and the callers of the run loop. *)

\* A device that is advanced may call Intc.raise, any number of them at once.
Raise == \E levels \in SUBSET Levels : pending' = pending \cup levels

\* The last part of runBlock and stepInstruction, after code that did not fail.
AdvanceDevices ==
    /\ at = "advance"
    /\ Raise
    /\ at' = "idle"
    /\ UNCHANGED <<c, mem, overlay, mask, frames>>

\* The host advances real-time devices between two calls.
AdvanceRealTime ==
    /\ at = "idle"
    /\ Raise
    /\ UNCHANGED <<c, mem, overlay, mask, at, frames>>

SetOverlay ==
    /\ at = "idle"
    /\ overlay' \in OverlayStates
    /\ UNCHANGED <<c, mem, intc, at, frames>>

\* The commands g, gl, t and bench set PC and end a halt, bench puts both back,
\* and a run that has spent its budget is halted.
MonitorSets ==
    /\ at = "idle" /\ OnStack
    /\ \E pc \in Pcs, halt \in BOOLEAN : c' = [c EXCEPT !.pc = pc, !.halt = halt]
    /\ UNCHANGED <<mem, overlay, intc, at, frames>>

\* An error that leaves the run loop in a command is reported by the monitor, and
\* the machine stays as it is; in a tick it ends the process, and nothing follows.
ErrorCaught ==
    /\ at = "threw" /\ Followed
    /\ at' = "idle"
    /\ UNCHANGED <<c, mem, overlay, intc, frames>>

\* The constructor leaves SR and the stack pointers at these values; both
\* vector tables hold the same initial stack pointer.
Constructed ==
    [sr |-> [s |-> FALSE, ipl |-> 0, ccr |-> {}], flags |-> {}, a7 |-> MemTop,
     usp |-> MemTop, ssp |-> MemTop, pc |-> VectorTables["rom"][1],
     vbr |-> "zero", halt |-> FALSE]

ResetContext(k) ==
    [SetSr(k, [s |-> TRUE, ipl |-> 7, ccr |-> {}]) EXCEPT
        !.vbr = "zero", !.halt = FALSE, !.a7 = SspTop, !.ssp = SspTop,
        !.pc = VectorTables[AtZero][1]]

\* bus.reset() resets the interrupt controller; the overlay stays as it is.
Reset ==
    /\ at \in {"idle", "threw"}
    /\ c' = ResetContext(c)
    /\ pending' = {} /\ mask' = AllEnabled
    /\ at' = "idle"
    /\ frames' = <<>>
    /\ UNCHANGED <<mem, overlay>>

\* A machine is built with the overlay enabled and is reset once.
Init ==
    /\ overlay = TRUE
    /\ c = ResetContext(Constructed)
    /\ mem = [a \in Slots |-> Data]
    /\ pending = {} /\ mask = AllEnabled
    /\ at = "idle"
    /\ frames = <<>>

Next ==
    \/ PollInterrupts \/ Execute \/ AdvanceDevices
    \/ AdvanceRealTime \/ SetOverlay \/ MonitorSets \/ ErrorCaught \/ Reset

Spec == Init /\ [][Next]_vars

-----------------------------------------------------------------------------
(* Properties. *)

Activity == [pc : Pcs, sr : Sr, sp : Int, stack : Memory]
Frame == [at : Int, level : Levels \cup {0}, act : Activity]

\* The types of the variables of runBlock's machine.
TypeOK ==
    /\ c \in ContextType
    /\ mem \in Memory
    /\ overlay \in BOOLEAN
    /\ pending \in SUBSET Levels /\ mask \in SUBSET Levels
    /\ at \in {"idle", "execute", "advance", "threw"}
    /\ frames \in Seq(Frame)

\* Guests that stay in supervisor mode, as every program in the repository does.
SupervisorGuest == \A sr \in GuestSr : sr.s

\* The frame of each suspended activity holds its status word and its return
\* address, and the stack above the frame holds what it held at the suspension:
\* no later push, interrupt, trap or failed entry has touched them
\* (acceptInterrupt, Context.exception).
FramesIntact ==
    \A i \in 1 .. Len(frames) :
        LET f == frames[i] IN
        /\ FrameFits(f.at)
        /\ f.act.sp = f.at + 2
        /\ mem[f.at] = f.act.sr
        /\ mem[f.at + 1] = f.act.pc
        /\ f.act.stack = StackFrom(mem, f.act.sp)

\* Frames lie one below the other under the initial stack pointer, and a7 never
\* rises above the latest.
FramesStacked ==
    /\ c.a7 <= SspTop
    /\ frames # <<>> => c.a7 <= frames[1].at
    /\ \A i \in 1 .. Len(frames) : frames[i].act.sp <= SspTop
    /\ \A i, j \in 1 .. Len(frames) : i < j => frames[i].act.sp <= frames[j].at

\* Every activity, the current one and the suspended ones, is in supervisor mode.
AllSupervisor ==
    /\ c.sr.s
    /\ \A i \in 1 .. Len(frames) : frames[i].act.sr.s

\* The stack of a supervisor guest: what the return from every handler rests on.
StackInvariant == AllSupervisor /\ FramesStacked /\ FramesIntact

\* While handlers keep the mask, interrupt handlers nest in strictly rising
\* level: none is entered again before it returns, so the stack needs room for
\* at most one frame per level (pollInterrupts, acceptInterrupt, RTE).
LevelsNest ==
    \A i, j \in 1 .. Len(frames) :
        i < j /\ frames[i].level # 0 => frames[i].level > frames[j].level

\* The mask covers the levels being served, in the current activity and in every
\* one suspended above such a handler: what makes LevelsNest inductive.
MaskCoversHandlers ==
    \A i \in 1 .. Len(frames) : frames[i].level # 0 =>
        /\ frames[i].level <= c.sr.ipl
        /\ frames[i].act.sr.ipl < frames[i].level
        /\ \A j \in 1 .. i - 1 : frames[i].level <= frames[j].act.sr.ipl

\* A raised level is forgotten only when its handler is entered, by a store of
\* the guest to the acknowledge register, or by a reset: not by a poll that
\* finds it masked, nor by an entry that fails (acceptInterrupt, acknowledge).
NoInterruptLost ==
    [][\A level \in pending \ pending' :
          \/ at = "execute"
          \/ frames' = <<>> /\ c' = ResetContext(c)
          \/ Len(frames') = Len(frames) + 1 /\ frames'[1].level = level]_vars

\* Exception handling implements nested activities: an interrupt or a trap
\* suspends the current one, and RTE resumes the one suspended last with its
\* PC, status register, stack pointer and stack unchanged (module Activities).
Nested == INSTANCE Activities WITH
    current <- CurrentActivity,
    suspended <- [i \in 1 .. Len(frames) |-> frames[i].act]
ResumesSuspended == Nested!Spec

\* The supervisor stack pointer survives user mode: it is a7 as supervisor code
\* left it, or behind the frame if it left through one (RTE takes it off before
\* or after a7 is banked), user code does not change it, and the next entry
\* pushes below it (setSr, exception, acceptInterrupt, STOP with S clear).
SupervisorStackKept ==
    [][/\ c.sr.s /\ ~c'.sr.s =>
             \/ c'.ssp = c.a7
             \/ Len(frames') < Len(frames) /\ c'.ssp = c.a7 + 2
       /\ ~c.sr.s /\ ~c'.sr.s => c'.ssp = c.ssp
       /\ ~c.sr.s /\ c'.sr.s /\ c' # ResetContext(c) => c'.a7 \in {c.ssp, c.ssp - 2}]_vars

=============================================================================
