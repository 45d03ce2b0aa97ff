--------------------------------- MODULE Tasks ---------------------------------
(* The cooperative runtime of the guest programs (work/programs/lib/task.inc) *)
(* with the start of the programs that use it (coop_demo.s, coop_regs.s).     *)
(*                                                                            *)
(* Two tasks share one processor and its registers. A task computes, calls    *)
(* subroutines and calls yield, which keeps its registers and stack pointer   *)
(* in its control block; the scheduler then goes on with the other one.       *)
(* Between any two steps an interrupt may use the stack below a7, and the     *)
(* user may stop the run and start the program again.                         *)
EXTENDS Naturals, Sequences, FiniteSets

CONSTANTS
    Version,   \* values a task may compute; each names the task and the register
    MaxCalls,  \* bound: nesting of subroutine calls
    MaxStarts  \* bound: times the program is started

Task == {1, 2}
Other(t) == 3 - t
Reg == {"d", "d0", "a0", "a1", "a2", "a3"}
Slots == MaxCalls + 3 + MaxStarts

ASSUME TasksAssumption ==
    Version # {} /\ MaxCalls \in Nat /\ MaxStarts \in Nat

\* d stands for the registers that the runtime only saves and restores.
Own(t, r, v) == <<"own", t, r, v>>
OwnValue == {Own(t, r, v) : t \in Task, r \in Reg, v \in Version}
Tcb(t) == <<"tcb", t>>
Return(t, place) == <<"return", t, place>>
Code(t) == <<"code", t>>
Junk == <<"junk">>
Place == {"call", "yield"}
Value ==
    OwnValue \cup {Tcb(t) : t \in Task} \cup {Code(t) : t \in Task} \cup {Junk}
        \cup {Return(t, p) : t \in Task, p \in Place}

VARIABLES
    phase,     \* where the processor is in the runtime, or in a task
    code,      \* whose instructions it executes when it is in a task
    regs,      \* its registers but a7
    a7,        \* its stack pointer: a stack and the longs on it
    stack,     \* the longs of the stacks, those below a7 included
    current,   \* current_tcb
    tcb,       \* the control blocks
    starts     \* times the program was started

vars == <<phase, code, regs, a7, stack, current, tcb, starts>>

\* The stack of the monitor is number 0.
Push(v) ==
    /\ a7' = [a7 EXCEPT !.depth = @ + 1]
    /\ stack' = [stack EXCEPT ![a7.of][a7.depth + 1] = v]

FromTop(i) == stack[a7.of][a7.depth - i]

-------------------------------------------------------------------------------
(* A task. *)

Running(t) == phase = "task" /\ code = t

\* A task may use every register; which it does not matter.
Compute(t, v) ==
    /\ Running(t)
    /\ regs' = [r \in Reg |-> Own(t, r, v)]
    /\ UNCHANGED <<phase, code, a7, stack, current, tcb, starts>>

Call(t) ==
    /\ Running(t) /\ a7.depth < MaxCalls
    /\ Push(Return(t, "call"))
    /\ UNCHANGED <<phase, code, regs, current, tcb, starts>>

\* rts: the processor goes on where the long on the stack says.
Rts ==
    IF a7.depth > 0 /\ FromTop(0) \in {Return(t, p) : t \in Task, p \in Place}
    THEN /\ a7' = [a7 EXCEPT !.depth = @ - 1]
         /\ phase' = "task" /\ code' = FromTop(0)[2]
    ELSE phase' = "lost" /\ UNCHANGED <<code, a7>>

ReturnFromCall(t) ==
    /\ Running(t) /\ a7.depth > 0
    /\ Rts
    /\ UNCHANGED <<regs, stack, current, tcb, starts>>

CallYield(t) ==
    /\ Running(t)
    /\ Push(Return(t, "yield"))
    /\ phase' = "yield"
    /\ UNCHANGED <<code, regs, current, tcb, starts>>

TaskExit(t) ==
    /\ Running(t) /\ a7.depth = 0
    /\ tcb' = [tcb EXCEPT ![current].active = FALSE]
    /\ regs' = [regs EXCEPT !["a0"] = Tcb(current)]
    /\ phase' = "select"
    /\ UNCHANGED <<code, a7, stack, current, starts>>

-------------------------------------------------------------------------------
(* yield and the scheduler. *)

PushD0 ==
    /\ phase = "yield"
    /\ Push(regs["d0"])
    /\ phase' = "yield_a0"
    /\ UNCHANGED <<code, regs, current, tcb, starts>>

PushA0 ==
    /\ phase = "yield_a0"
    /\ Push(regs["a0"])
    /\ regs' = [regs EXCEPT !["a0"] = Tcb(current)]
    /\ phase' = "save"
    /\ UNCHANGED <<code, current, tcb, starts>>

\* Mutant: the stack pointer is kept with the two scratch longs on the stack.
SavedDepthLow == a7.depth

SavedDepth == a7.depth - 2

Save ==
    /\ phase = "save"
    /\ tcb' = [tcb EXCEPT
                  ![current].regs = [regs EXCEPT !["d0"] = FromTop(1), !["a0"] = FromTop(0)],
                  ![current].sp = [of |-> a7.of, depth |-> SavedDepth]]
    /\ regs' = [regs EXCEPT !["a1"] = Junk]
    /\ phase' = "select"
    /\ UNCHANGED <<code, a7, stack, current, starts>>

\* Mutant: the first task is tried first, whoever yields.
TriedInOrder == <<1, 2>>

\* The tasks in the order the scheduler tries them.
Tried == IF current = 1 THEN <<2, 1>> ELSE <<1, 2>>

Candidates == {i \in 1 .. 2 : tcb[Tried[i]].active}

Select ==
    /\ phase = "select"
    /\ \/ /\ Candidates = {}
          /\ phase' = "done"
          /\ regs' = [regs EXCEPT !["a0"] = Tcb(1), !["a2"] = Tcb(1)]
       \/ \E i \in Candidates :
              /\ \A j \in Candidates : i <= j
              /\ phase' = "dispatch"
              /\ regs' = [regs EXCEPT !["a0"] = Tcb(Tried[i]), !["a2"] = Tcb(1)]
    /\ UNCHANGED <<code, a7, stack, current, tcb, starts>>

Dispatch ==
    LET next == regs["a0"][2]
    IN /\ phase = "dispatch"
       /\ current' = next
       /\ a7' = tcb[next].sp
       /\ IF tcb[next].started
          THEN phase' = "resume" /\ UNCHANGED <<code, regs, tcb>>
          ELSE /\ phase' = "task" /\ code' = next
               /\ tcb' = [tcb EXCEPT ![next].started = TRUE]
               /\ regs' = [regs EXCEPT !["a2"] = Junk, !["a3"] = Code(next)]
       /\ UNCHANGED <<stack, starts>>

Resume ==
    /\ phase = "resume"
    /\ regs' = tcb[current].regs
    /\ phase' = "return"
    /\ UNCHANGED <<code, a7, stack, current, tcb, starts>>

ReturnFromYield ==
    /\ phase = "return"
    /\ Rts
    /\ UNCHANGED <<regs, stack, current, tcb, starts>>

-------------------------------------------------------------------------------
(* The machine around them. *)

\* An interrupt handler saves and restores what it uses, below a7.
Interrupt ==
    /\ phase # "monitor"
    /\ stack' = [stack EXCEPT ![a7.of] =
                    [i \in 1 .. Slots |-> IF i > a7.depth THEN Junk ELSE @[i]]]
    /\ UNCHANGED <<phase, code, regs, a7, current, tcb, starts>>

\* Mutant: the control blocks are set once, by the image.
FreshOnce(t) == [tcb[t] EXCEPT !.active = TRUE, !.sp = [of |-> t, depth |-> 0]]

Fresh(t) == [sp |-> [of |-> t, depth |-> 0], active |-> TRUE, started |-> FALSE,
             regs |-> [r \in Reg |-> Junk]]

\* g: the program starts over, on whatever stack and with whatever registers
\* the last run left.
Start ==
    /\ starts < MaxStarts
    /\ starts' = starts + 1
    /\ tcb' = [t \in Task |-> Fresh(t)]
    /\ current' = 2
    /\ Push(Junk)
    /\ regs' = [regs EXCEPT !["a0"] = Tcb(2), !["a1"] = Junk, !["a2"] = Code(2), !["d0"] = Junk]
    /\ phase' = "select"
    /\ UNCHANGED code

Init ==
    /\ phase = "monitor" /\ code = 1
    /\ regs = [r \in Reg |-> Junk]
    /\ a7 = [of |-> 0, depth |-> 0]
    /\ stack = [s \in {0} \cup Task |-> [i \in 1 .. Slots |-> Junk]]
    /\ current = 2
    /\ tcb = [t \in Task |-> [sp |-> [of |-> t, depth |-> 0], active |-> FALSE,
                              started |-> FALSE, regs |-> [r \in Reg |-> Junk]]]
    /\ starts = 0

Scheduler ==
    \/ PushD0 \/ PushA0 \/ Save \/ Select \/ Dispatch \/ Resume \/ ReturnFromYield

Next ==
    \/ \E t \in Task :
        \/ \E v \in Version : Compute(t, v)
        \/ Call(t) \/ ReturnFromCall(t) \/ CallYield(t) \/ TaskExit(t)
    \/ Scheduler
    \/ Interrupt
    \/ Start

Spec == Init /\ [][Next]_vars

Fairness ==
    /\ WF_vars(Scheduler)
    /\ \A t \in Task : WF_vars(CallYield(t) \/ TaskExit(t))

FairSpec == Spec /\ Fairness

-------------------------------------------------------------------------------
(* Properties. *)

\* Every long popped as a return address is one, and registers, stacks and
\* control blocks hold nothing but values, whenever a run is stopped and started.
TypeOK ==
    /\ phase \in {"monitor", "task", "yield", "yield_a0", "save", "select", "dispatch",
                  "resume", "return", "done"}
    /\ code \in Task /\ current \in Task
    /\ regs \in [Reg -> Value]
    /\ a7 \in [of : {0} \cup Task, depth : 0 .. Slots]
    /\ stack \in [{0} \cup Task -> [1 .. Slots -> Value]]
    /\ tcb \in [Task -> [sp : [of : Task, depth : 0 .. Slots], active : BOOLEAN,
                         started : BOOLEAN, regs : [Reg -> Value]]]
    /\ starts \in 0 .. MaxStarts

\* What task t sees when it runs, reconstructed where the runtime has it.
Longs(sp, n) == [i \in 1 .. sp.depth - n |-> stack[sp.of][i]]

Processor(r, n) == [regs |-> r, stack |-> Longs(a7, n)]
Saved(t) == [regs |-> tcb[t].regs, stack |-> Longs(tcb[t].sp, 1)]

Unborn == [regs |-> << >>, stack |-> << >>]

View(t) ==
    CASE ~(tcb[t].active /\ tcb[t].started) -> Unborn
      [] OTHER ->
            IF t # current THEN Saved(t)
            ELSE CASE phase = "task" -> Processor(regs, 0)
                   [] phase \in {"yield", "return"} -> Processor(regs, 1)
                   [] phase = "yield_a0" -> Processor(regs, 2)
                   [] phase = "save" -> Processor([regs EXCEPT !["a0"] = FromTop(0)], 3)
                   [] OTHER -> Saved(t)

Nobody == 0

Turn ==
    IF phase = "done" \/ \A t \in Task : ~tcb[t].started THEN Nobody ELSE current

Turns ==
    INSTANCE RoundRobin WITH
        First <- 1, turn <- Turn, inside <- phase = "task",
        active <- {t \in Task : tcb[t].active},
        ctx <- [t \in Task |-> View(t)],
        Ctx <- [regs : [Reg -> Value], stack : Seq(Value)],
        Newborn <- [regs : [Reg -> Value], stack : {<< >>}]

\* Each task finds registers and stack as it left them when it yielded, however
\* the other one used the processor meanwhile, and the turn goes to the other
\* task whenever there is one; also when a stopped run is started again.
TakesTurns == Turns!Spec

\* A task that has not ended gets the processor again, provided that the tasks
\* yield.
TurnComesBack ==
    \A t \in Task : tcb[t].active ~> Running(t) \/ ~tcb[t].active

=============================================================================
