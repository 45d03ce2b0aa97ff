----------------------------- MODULE TasksProofs -----------------------------
(* The tasks take turns on one processor, each with registers and a stack of  *)
(* its own, for any values they compute, any nesting of calls and any number  *)
(* of starts of the program.                                                  *)
EXTENDS Tasks, TLAPS

-----------------------------------------------------------------------------
(* The inductive invariant. *)

\* A task that has started and not ended has a context, which the runtime keeps
\* in the control block and on the stack of the task while another one runs.
Alive(t) == tcb[t].active /\ tcb[t].started

Parked(t) == Alive(t) /\ (t # current \/ phase \in {"select", "dispatch", "resume", "return"})

\* The n longs at the bottom of the stack of a task are calls it is to return from.
Calls(t, n) == \A i \in 1 .. n : stack[t][i] = Return(t, "call")

\* The longs that yield has pushed on the calls of the task so far.
InYield == {"task", "yield", "yield_a0", "save"}
Pushed ==
    IF phase = "task" THEN 0 ELSE IF phase = "yield" THEN 1 ELSE IF phase = "yield_a0" THEN 2 ELSE 3

\* A task runs on its own stack, and yield has pushed what it takes off again.
RunningShape ==
    phase \in InYield =>
        /\ code = current /\ a7.of = current /\ Alive(current)
        /\ Pushed <= a7.depth /\ a7.depth <= MaxCalls + Pushed
        /\ Calls(current, a7.depth - Pushed)
        /\ phase # "task" => stack[current][a7.depth - Pushed + 1] = Return(current, "yield")
        /\ phase = "yield_a0" => stack[current][a7.depth] = regs["d0"]
        /\ phase = "save" => stack[current][a7.depth - 1] = regs["d0"]

\* The stack of a parked task ends with the return from yield, and lies below a7
\* if a7 is still on it: an interrupt finds only longs it may use.
ParkedOn(t) ==
    LET sp == tcb[t].sp IN
    /\ 1 <= sp.depth /\ sp.depth <= MaxCalls + 1
    /\ Calls(t, sp.depth - 1)
    /\ stack[t][sp.depth] = Return(t, "yield")
    /\ a7.of = t => sp.depth <= a7.depth

ParkedShape == \A t \in Task : Parked(t) => ParkedOn(t)

\* A control block keeps a stack pointer on the stack of its task, which is empty
\* until the task has started.
BlocksShape ==
    \A t \in Task :
        /\ tcb[t].sp.of = t
        /\ ~tcb[t].started => tcb[t].sp.depth = 0

\* Where the scheduler is, and that a start of the program ends what was before.
SchedulerShape ==
    /\ phase \in {"monitor", "done"} => \A t \in Task : ~tcb[t].active
    /\ phase = "dispatch" => \E t \in Task :
           regs["a0"] = Tcb(t) /\ tcb[t].active /\ (t # current \/ ~tcb[Other(t)].active)
    /\ phase \in {"resume", "return"} => Alive(current) /\ a7 = tcb[current].sp
    /\ phase \in {"select", "dispatch"} /\ (\A t \in Task : ~tcb[t].started) =>
           current = 2 /\ \A t \in Task : tcb[t].active
    /\ a7.depth <= MaxCalls + 3 + starts

Inv ==
    /\ TypeOK
    /\ RunningShape /\ ParkedShape /\ BlocksShape /\ SchedulerShape

-----------------------------------------------------------------------------
(* Lemmas about the operators. *)

LEMMA ValueFacts ==
    /\ Junk \in Value
    /\ \A t \in Task : Tcb(t) \in Value /\ Code(t) \in Value
    /\ \A t \in Task, p \in Place : Return(t, p) \in Value
    /\ \A t \in Task, r \in Reg, v \in Version : Own(t, r, v) \in Value
BY DEF Value, OwnValue

Block == [sp : [of : Task, depth : 0 .. Slots], active : BOOLEAN, started : BOOLEAN,
          regs : [Reg -> Value]]

LEMMA BlockFields ==
    ASSUME NEW b \in Block
    PROVE  /\ b.sp \in [of : Task, depth : 0 .. Slots]
           /\ b.sp.of \in Task /\ b.sp.depth \in 0 .. Slots
           /\ b.active \in BOOLEAN /\ b.started \in BOOLEAN
           /\ b.regs \in [Reg -> Value]
<1>1. b.sp \in [of : Task, depth : 0 .. Slots]
  BY DEF Block
<1> QED BY <1>1 DEF Block

LEMMA BlockType ==
    ASSUME TypeOK, NEW t \in Task
    PROVE  /\ tcb[t] \in Block
           /\ tcb[t].sp \in [of : Task, depth : 0 .. Slots]
           /\ tcb[t].sp.of \in Task /\ tcb[t].sp.depth \in 0 .. Slots
           /\ tcb[t].active \in BOOLEAN /\ tcb[t].started \in BOOLEAN
           /\ tcb[t].regs \in [Reg -> Value]
<1>1. tcb[t] \in Block
  BY DEF TypeOK, Block
<1> QED BY <1>1, BlockFields

LEMMA BlockEnded ==
    ASSUME NEW b \in Block, NEW c, c = [b EXCEPT !.active = FALSE]
    PROVE  /\ c \in Block
           /\ ~c.active /\ c.started = b.started /\ c.sp = b.sp /\ c.regs = b.regs
BY DEF Block

LEMMA BlockStarted ==
    ASSUME NEW b \in Block, NEW c, c = [b EXCEPT !.started = TRUE]
    PROVE  /\ c \in Block
           /\ c.active = b.active /\ c.started /\ c.sp = b.sp /\ c.regs = b.regs
BY DEF Block

LEMMA SlotsNat == Slots \in Nat /\ MaxCalls \in Nat /\ MaxStarts \in Nat
                  /\ Slots = MaxCalls + 3 + MaxStarts
BY TasksAssumption DEF Slots

LEMMA PushFacts ==
    ASSUME TypeOK, a7.depth < Slots, NEW v \in Value, Push(v)
    PROVE  /\ a7' \in [of : {0} \cup Task, depth : 0 .. Slots]
           /\ a7'.of = a7.of /\ a7'.depth = a7.depth + 1
           /\ stack' \in [{0} \cup Task -> [1 .. Slots -> Value]]
           /\ stack'[a7.of][a7.depth + 1] = v
           /\ \A s \in {0} \cup Task, i \in 1 .. Slots :
                  s # a7.of \/ i # a7.depth + 1 => stack'[s][i] = stack[s][i]
<1>1. a7 \in [of : {0} \cup Task, depth : 0 .. Slots] /\ a7.of \in {0} \cup Task /\ a7.depth \in 0 .. Slots
  BY DEF TypeOK
<1>2. a7' = [a7 EXCEPT !.depth = a7.depth + 1] /\ a7.depth + 1 \in 1 .. Slots
  BY <1>1, SlotsNat DEF Push
<1>3. /\ stack' = [stack EXCEPT ![a7.of] = [stack[a7.of] EXCEPT ![a7.depth + 1] = v]]
      /\ stack \in [{0} \cup Task -> [1 .. Slots -> Value]]
      /\ stack[a7.of] \in [1 .. Slots -> Value]
  BY <1>1 DEF Push, TypeOK
<1>4. stack'[a7.of] = [stack[a7.of] EXCEPT ![a7.depth + 1] = v]
  BY <1>1, <1>3
<1>5. stack'[a7.of] \in [1 .. Slots -> Value] /\ stack'[a7.of][a7.depth + 1] = v
  BY <1>2, <1>3, <1>4
<1>6. \A s \in {0} \cup Task : s # a7.of => stack'[s] = stack[s]
  BY <1>3
<1>7. stack' \in [{0} \cup Task -> [1 .. Slots -> Value]]
  BY <1>3, <1>5
<1>8. ASSUME NEW s \in {0} \cup Task, NEW i \in 1 .. Slots, s # a7.of \/ i # a7.depth + 1
      PROVE  stack'[s][i] = stack[s][i]
  BY <1>3, <1>4, <1>6, <1>8
<1> QED BY <1>1, <1>2, <1>5, <1>7, <1>8

\* rts goes on in the task whose return address is on the stack.
LEMMA RtsFacts ==
    ASSUME TypeOK, NEW t \in Task, NEW p \in Place, a7.depth > 0,
           stack[a7.of][a7.depth] = Return(t, p), Rts
    PROVE  /\ a7' \in [of : {0} \cup Task, depth : 0 .. Slots]
           /\ a7'.of = a7.of /\ a7'.depth = a7.depth - 1
           /\ phase' = "task" /\ code' = t
<1>1. a7 \in [of : {0} \cup Task, depth : 0 .. Slots] /\ a7.depth \in 0 .. Slots
  BY DEF TypeOK
<1>2. FromTop(0) = Return(t, p)
  BY <1>1, SlotsNat DEF FromTop
<1>3. FromTop(0) \in {Return(u, q) : u \in Task, q \in Place} /\ FromTop(0)[2] = t
  BY <1>2 DEF Return
<1>4. a7' = [a7 EXCEPT !.depth = a7.depth - 1] /\ phase' = "task" /\ code' = FromTop(0)[2]
  BY <1>3 DEF Rts
<1> QED BY <1>1, <1>3, <1>4, SlotsNat

\* A parked task stays so as long as its control block and its longs do.
LEMMA ParkedKept ==
    ASSUME TypeOK, NEW t \in Task, ParkedOn(t), tcb'[t] = tcb[t],
           \A i \in 1 .. tcb[t].sp.depth : stack'[t][i] = stack[t][i],
           a7'.of = t => tcb[t].sp.depth <= a7'.depth
    PROVE  ParkedOn(t)'
<1>1. tcb[t].sp.depth \in Nat
  BY BlockType, SlotsNat
<1>2. stack'[t][tcb[t].sp.depth] = stack[t][tcb[t].sp.depth]
  BY <1>1 DEF ParkedOn
<1>3. Calls(t, tcb[t].sp.depth - 1)'
  BY <1>1 DEF ParkedOn, Calls
<1> QED BY <1>2, <1>3 DEF ParkedOn

-----------------------------------------------------------------------------
(* The steps of a task and of yield. *)

\* While one task runs or yields, the other one and its stack are left alone.
LEMMA OthersKept ==
    ASSUME Inv, TypeOK', RunningShape', phase \in InYield, phase' \in InYield,
           UNCHANGED <<current, tcb, starts>>,
           \A s \in {0} \cup Task, i \in 1 .. Slots : s # current => stack'[s][i] = stack[s][i]
    PROVE  Inv'
<1>1. a7.of = current /\ a7'.of = current
  BY DEF Inv, RunningShape
<1>2. ParkedShape'
  <2> SUFFICES ASSUME NEW u \in Task, Parked(u)' PROVE ParkedOn(u)'
    BY DEF ParkedShape
  <2>1. u # current /\ Alive(u)
    BY DEF Parked, Alive, InYield
  <2>2. ParkedOn(u)
    BY <2>1 DEF Inv, ParkedShape, Parked
  <2>3. \A i \in 1 .. tcb[u].sp.depth : stack'[u][i] = stack[u][i]
    <3>1. tcb[u].sp.depth \in 0 .. Slots
      BY BlockType DEF Inv
    <3>2. \A i \in 1 .. tcb[u].sp.depth : i \in 1 .. Slots
      BY <3>1, SlotsNat
    <3> QED BY <2>1, <3>2
  <2> QED BY <1>1, <2>1, <2>2, <2>3, ParkedKept DEF Inv
<1>3. BlocksShape'
  BY DEF Inv, BlocksShape
<1>4. SchedulerShape'
  <2>1. a7'.depth <= MaxCalls + Pushed' /\ Pushed' \in 0 .. 3
    BY DEF RunningShape, Pushed
  <2>2. starts' \in Nat /\ MaxCalls \in Nat /\ a7'.depth \in Nat
    BY SlotsNat DEF TypeOK
  <2>3. a7'.depth <= MaxCalls + 3 + starts'
    BY <2>1, <2>2
  <2> QED BY <2>3 DEF SchedulerShape, InYield
<1> QED BY <1>2, <1>3, <1>4 DEF Inv

\* What holds in a task: its stack holds what it has called.
LEMMA TaskFacts ==
    ASSUME Inv, NEW t \in Task, Running(t)
    PROVE  /\ phase = "task" /\ phase \in InYield /\ code = t /\ current = t /\ a7.of = t
           /\ Alive(t)
           /\ a7.depth \in 0 .. MaxCalls /\ Calls(t, a7.depth)
<1>1. phase = "task" /\ code = t /\ a7.depth \in 0 .. Slots
  BY DEF Running, Inv, TypeOK
<1> QED BY <1>1, SlotsNat DEF Inv, RunningShape, Pushed, InYield

LEMMA ComputeKept ==
    ASSUME Inv, NEW t \in Task, NEW v \in Version, Compute(t, v)
    PROVE  Inv'
<1>1. /\ regs' \in [Reg -> Value]
      /\ UNCHANGED <<phase, code, a7, stack, current, tcb, starts>>
      /\ Running(t)
  BY ValueFacts DEF Compute
<1>2. TypeOK'
  BY <1>1 DEF Inv, TypeOK
<1>3. RunningShape'
  BY <1>1, TaskFacts DEF Inv, RunningShape, Pushed, Calls, Alive
<1> QED BY <1>1, <1>2, <1>3, TaskFacts, OthersKept

LEMMA CallKept ==
    ASSUME Inv, NEW t \in Task, Call(t)
    PROVE  Inv'
<1>1. /\ Running(t) /\ a7.depth < MaxCalls /\ Push(Return(t, "call"))
      /\ UNCHANGED <<phase, code, regs, current, tcb, starts>>
  BY DEF Call
<1>2. a7.depth < Slots /\ Return(t, "call") \in Value /\ a7.depth \in Nat
  BY <1>1, TaskFacts, SlotsNat, ValueFacts DEF Place
<1>3. /\ a7' \in [of : {0} \cup Task, depth : 0 .. Slots]
      /\ a7'.of = a7.of /\ a7'.depth = a7.depth + 1
      /\ stack' \in [{0} \cup Task -> [1 .. Slots -> Value]]
      /\ stack'[a7.of][a7.depth + 1] = Return(t, "call")
      /\ \A s \in {0} \cup Task, i \in 1 .. Slots :
             s # a7.of \/ i # a7.depth + 1 => stack'[s][i] = stack[s][i]
  BY <1>1, <1>2, PushFacts DEF Inv
<1>4. TypeOK'
  BY <1>1, <1>3 DEF Inv, TypeOK
<1>5. Calls(t, a7.depth)'
  <2> SUFFICES ASSUME NEW i \in 1 .. a7.depth + 1 PROVE stack'[t][i] = Return(t, "call")
    BY <1>2, <1>3 DEF Calls
  <2>1. i \in 1 .. Slots /\ a7.of = t /\ t \in {0} \cup Task
    BY <1>1, <1>2, TaskFacts, SlotsNat
  <2> QED BY <1>1, <1>2, <1>3, <2>1, TaskFacts DEF Calls
<1>6. RunningShape'
  <2>1. /\ phase = "task" /\ code = t /\ current = t /\ a7.of = t
        /\ a7.depth \in 0 .. MaxCalls /\ tcb[t].active /\ tcb[t].started
    BY <1>1, TaskFacts DEF Alive
  <2> QED BY <1>1, <1>2, <1>3, <1>5, <2>1, SlotsNat DEF RunningShape, Pushed, Alive
<1> QED BY <1>1, <1>3, <1>4, <1>6, TaskFacts, OthersKept

LEMMA ReturnKept ==
    ASSUME Inv, NEW t \in Task, ReturnFromCall(t)
    PROVE  Inv'
<1>1. /\ Running(t) /\ a7.depth > 0 /\ Rts
      /\ UNCHANGED <<regs, stack, current, tcb, starts>>
  BY DEF ReturnFromCall
<1>2. stack[a7.of][a7.depth] = Return(t, "call") /\ a7.depth \in Nat
  BY <1>1, TaskFacts DEF Calls
<1>3. /\ a7' \in [of : {0} \cup Task, depth : 0 .. Slots]
      /\ a7'.of = a7.of /\ a7'.depth = a7.depth - 1
      /\ phase' = "task" /\ code' = t
  BY <1>1, <1>2, RtsFacts DEF Inv, Place
<1>4. TypeOK'
  BY <1>1, <1>3 DEF Inv, TypeOK
<1>5. Calls(t, a7.depth)'
  <2>1. a7.of = t /\ Calls(t, a7.depth)
    BY <1>1, TaskFacts
  <2> QED BY <1>1, <1>2, <1>3, <2>1 DEF Calls
<1>6. RunningShape'
  <2>1. /\ phase = "task" /\ code = t /\ current = t /\ a7.of = t
        /\ a7.depth \in 0 .. MaxCalls /\ tcb[t].active /\ tcb[t].started
    BY <1>1, TaskFacts DEF Alive
  <2> QED BY <1>1, <1>2, <1>3, <1>5, <2>1, SlotsNat DEF RunningShape, Pushed, Alive
<1> QED BY <1>1, <1>3, <1>4, <1>6, TaskFacts, OthersKept DEF InYield

LEMMA CallYieldKept ==
    ASSUME Inv, NEW t \in Task, CallYield(t)
    PROVE  Inv'
<1>1. /\ Running(t) /\ Push(Return(t, "yield")) /\ phase' = "yield"
      /\ UNCHANGED <<code, regs, current, tcb, starts>>
  BY DEF CallYield
<1>2. a7.depth < Slots /\ Return(t, "yield") \in Value /\ a7.depth \in Nat
  BY <1>1, TaskFacts, SlotsNat, ValueFacts DEF Place
<1>3. /\ a7' \in [of : {0} \cup Task, depth : 0 .. Slots]
      /\ a7'.of = a7.of /\ a7'.depth = a7.depth + 1
      /\ stack' \in [{0} \cup Task -> [1 .. Slots -> Value]]
      /\ stack'[a7.of][a7.depth + 1] = Return(t, "yield")
      /\ \A s \in {0} \cup Task, i \in 1 .. Slots :
             s # a7.of \/ i # a7.depth + 1 => stack'[s][i] = stack[s][i]
  BY <1>1, <1>2, PushFacts DEF Inv
<1>4. TypeOK'
  BY <1>1, <1>3 DEF Inv, TypeOK
<1>5. Calls(t, a7.depth - 1)'
  <2> SUFFICES ASSUME NEW i \in 1 .. a7.depth PROVE stack'[t][i] = Return(t, "call")
    BY <1>2, <1>3 DEF Calls
  <2>1. i \in 1 .. Slots /\ a7.of = t /\ t \in {0} \cup Task
    BY <1>1, <1>2, TaskFacts, SlotsNat
  <2> QED BY <1>1, <1>2, <1>3, <2>1, TaskFacts DEF Calls
<1>6. RunningShape'
  <2>1. /\ phase = "task" /\ code = t /\ current = t /\ a7.of = t
        /\ a7.depth \in 0 .. MaxCalls /\ tcb[t].active /\ tcb[t].started
    BY <1>1, TaskFacts DEF Alive
  <2> QED BY <1>1, <1>2, <1>3, <1>5, <2>1, SlotsNat DEF RunningShape, Pushed, Alive
<1> QED BY <1>1, <1>3, <1>4, <1>6, TaskFacts, OthersKept DEF InYield

LEMMA PushD0Kept ==
    ASSUME Inv, PushD0
    PROVE  Inv'
<1>0. PICK t \in Task : t = current
  BY DEF Inv, TypeOK
<1>1. /\ phase = "yield" /\ Push(regs["d0"]) /\ phase' = "yield_a0"
      /\ UNCHANGED <<code, regs, current, tcb, starts>>
  BY <1>0 DEF PushD0
<1>2. /\ code = t /\ a7.of = t /\ t \in Task /\ tcb[t].active /\ tcb[t].started
      /\ a7.depth \in 1 .. MaxCalls + 1
      /\ Calls(t, a7.depth - 1) /\ stack[t][a7.depth] = Return(t, "yield")
  <2>1. a7.depth \in 0 .. Slots /\ t \in Task
    BY DEF Inv, TypeOK
  <2> QED BY <1>0, <1>1, <2>1, SlotsNat DEF Inv, RunningShape, InYield, Pushed, Alive
<1>3. a7.depth < Slots /\ regs["d0"] \in Value /\ a7.depth \in Nat
  BY <1>2, SlotsNat DEF Inv, TypeOK, Reg
<1>4. /\ a7' \in [of : {0} \cup Task, depth : 0 .. Slots]
      /\ a7'.of = a7.of /\ a7'.depth = a7.depth + 1
      /\ stack' \in [{0} \cup Task -> [1 .. Slots -> Value]]
      /\ stack'[a7.of][a7.depth + 1] = regs["d0"]
      /\ \A s \in {0} \cup Task, i \in 1 .. Slots :
             s # a7.of \/ i # a7.depth + 1 => stack'[s][i] = stack[s][i]
  BY <1>1, <1>3, PushFacts DEF Inv
<1>5. TypeOK'
  BY <1>1, <1>4 DEF Inv, TypeOK
<1>6. \A i \in 1 .. a7.depth : stack'[t][i] = stack[t][i]
  <2>1. \A i \in 1 .. a7.depth : i \in 1 .. Slots /\ i # a7.depth + 1
    BY <1>2, SlotsNat
  <2> QED BY <1>2, <1>4, <2>1
<1>7. Calls(t, a7.depth - 2)' /\ stack'[t][a7.depth] = Return(t, "yield")
  <2>1. Calls(t, a7.depth - 2)'
    BY <1>2, <1>3, <1>4, <1>6 DEF Calls
  <2> QED BY <1>2, <1>3, <1>6, <2>1
<1>8. RunningShape'
  BY <1>0, <1>1, <1>2, <1>3, <1>4, <1>7, SlotsNat DEF RunningShape, Pushed, Alive
<1> QED BY <1>0, <1>1, <1>2, <1>4, <1>5, <1>8, OthersKept DEF InYield

LEMMA PushA0Kept ==
    ASSUME Inv, PushA0
    PROVE  Inv'
<1>0. PICK t \in Task : t = current
  BY DEF Inv, TypeOK
<1>1. /\ phase = "yield_a0" /\ Push(regs["a0"]) /\ phase' = "save"
      /\ regs' = [regs EXCEPT !["a0"] = Tcb(t)]
      /\ UNCHANGED <<code, current, tcb, starts>>
  BY <1>0 DEF PushA0
<1>2. /\ code = t /\ a7.of = t /\ t \in Task /\ tcb[t].active /\ tcb[t].started
      /\ a7.depth \in 2 .. MaxCalls + 2
      /\ Calls(t, a7.depth - 2) /\ stack[t][a7.depth - 1] = Return(t, "yield")
      /\ stack[t][a7.depth] = regs["d0"]
  <2>1. a7.depth \in 0 .. Slots /\ t \in Task
    BY DEF Inv, TypeOK
  <2> QED BY <1>0, <1>1, <2>1, SlotsNat DEF Inv, RunningShape, InYield, Pushed, Alive
<1>3. /\ a7.depth < Slots /\ regs["a0"] \in Value /\ a7.depth \in Nat
      /\ regs' \in [Reg -> Value] /\ regs'["d0"] = regs["d0"]
  BY <1>1, <1>2, SlotsNat, ValueFacts DEF Inv, TypeOK, Reg
<1>4. /\ a7' \in [of : {0} \cup Task, depth : 0 .. Slots]
      /\ a7'.of = a7.of /\ a7'.depth = a7.depth + 1
      /\ stack' \in [{0} \cup Task -> [1 .. Slots -> Value]]
      /\ \A s \in {0} \cup Task, i \in 1 .. Slots :
             s # a7.of \/ i # a7.depth + 1 => stack'[s][i] = stack[s][i]
  BY <1>1, <1>3, PushFacts DEF Inv
<1>5. TypeOK'
  BY <1>1, <1>3, <1>4 DEF Inv, TypeOK
<1>6. \A i \in 1 .. a7.depth : stack'[t][i] = stack[t][i]
  <2>1. \A i \in 1 .. a7.depth : i \in 1 .. Slots /\ i # a7.depth + 1
    BY <1>2, SlotsNat
  <2> QED BY <1>2, <1>4, <2>1
<1>7. /\ Calls(t, a7.depth - 3)' /\ stack'[t][a7.depth - 1] = Return(t, "yield")
      /\ stack'[t][a7.depth] = regs["d0"]
  <2>1. Calls(t, a7.depth - 3)'
    BY <1>2, <1>3, <1>4, <1>6 DEF Calls
  <2> QED BY <1>2, <1>3, <1>6, <2>1
<1>8. RunningShape'
  BY <1>0, <1>1, <1>2, <1>3, <1>4, <1>7, SlotsNat DEF RunningShape, Pushed, Alive
<1> QED BY <1>0, <1>1, <1>2, <1>4, <1>5, <1>8, OthersKept DEF InYield

-----------------------------------------------------------------------------
(* The end of a task and the scheduler. *)

\* While the scheduler works, nothing about the parked tasks changes.
LEMMA ParkedStay ==
    ASSUME Inv, NEW t \in Task, Parked(t), tcb'[t] = tcb[t],
           \A i \in 1 .. tcb[t].sp.depth : stack'[t][i] = stack[t][i],
           a7'.of = t => a7' = tcb[t].sp \/ a7' = a7
    PROVE  ParkedOn(t)'
<1>1. ParkedOn(t)
  BY DEF Inv, ParkedShape
<1>2. a7'.of = t => tcb[t].sp.depth <= a7'.depth
  <2>1. tcb[t].sp.depth \in Nat
    BY BlockType, SlotsNat DEF Inv
  <2> QED BY <1>1, <2>1 DEF ParkedOn
<1> QED BY <1>1, <1>2, ParkedKept DEF Inv

LEMMA TaskExitKept ==
    ASSUME Inv, NEW t \in Task, TaskExit(t)
    PROVE  Inv'
<1>1. /\ Running(t) /\ a7.depth = 0 /\ phase' = "select"
      /\ tcb' = [tcb EXCEPT ![current] = [tcb[current] EXCEPT !.active = FALSE]]
      /\ regs' = [regs EXCEPT !["a0"] = Tcb(current)]
      /\ UNCHANGED <<code, a7, stack, current, starts>>
  BY DEF TaskExit
<1>2. phase = "task" /\ current = t /\ a7.of = t /\ Alive(t)
  BY <1>1, TaskFacts
<1>3. /\ ~tcb'[t].active /\ tcb'[t].started /\ tcb'[t].sp = tcb[t].sp
      /\ \A u \in Task : u # t => tcb'[u] = tcb[u]
      /\ tcb' \in [Task -> Block]
  <2>1. tcb' = [tcb EXCEPT ![t] = [tcb[t] EXCEPT !.active = FALSE]] /\ tcb \in [Task -> Block]
    BY <1>1, <1>2 DEF Inv, TypeOK, Block
  <2>2. tcb'[t] = [tcb[t] EXCEPT !.active = FALSE] /\ tcb[t] \in Block
    BY <2>1
  <2>3. ~tcb'[t].active /\ tcb'[t].started /\ tcb'[t].sp = tcb[t].sp /\ tcb'[t] \in Block
    BY <1>2, <2>2, BlockEnded DEF Alive
  <2> QED BY <2>1, <2>2, <2>3
<1>4. TypeOK'
  BY <1>1, <1>3, ValueFacts DEF Inv, TypeOK, Reg, Block
<1>5. RunningShape'
  BY <1>1 DEF RunningShape, InYield
<1>6. ParkedShape'
  <2> SUFFICES ASSUME NEW u \in Task, Parked(u)' PROVE ParkedOn(u)'
    BY DEF ParkedShape
  <2>1. u # t /\ tcb'[u] = tcb[u] /\ Parked(u)
    BY <1>1, <1>2, <1>3 DEF Parked, Alive
  <2> QED BY <1>1, <2>1, ParkedStay
<1>7. BlocksShape'
  BY <1>3 DEF Inv, BlocksShape
<1>8. SchedulerShape'
  BY <1>1, <1>3, SlotsNat DEF Inv, SchedulerShape, TypeOK
<1> QED BY <1>4, <1>5, <1>6, <1>7, <1>8 DEF Inv

LEMMA SaveKept ==
    ASSUME Inv, Save
    PROVE  Inv'
<1>0. PICK t \in Task : t = current
  BY DEF Inv, TypeOK
<1> DEFINE kept == [regs EXCEPT !["d0"] = FromTop(1), !["a0"] = FromTop(0)]
           sp == [of |-> a7.of, depth |-> SavedDepth]
<1>1. /\ phase = "save" /\ phase' = "select"
      /\ tcb' = [tcb EXCEPT ![t] = [tcb[t] EXCEPT !.regs = kept, !.sp = sp]]
      /\ regs' = [regs EXCEPT !["a1"] = Junk]
      /\ UNCHANGED <<code, a7, stack, current, starts>>
  BY <1>0 DEF Save
<1>2. /\ code = t /\ a7.of = t /\ tcb[t].active /\ tcb[t].started
      /\ a7.depth \in 3 .. MaxCalls + 3
      /\ Calls(t, a7.depth - 3) /\ stack[t][a7.depth - 2] = Return(t, "yield")
  <2>1. a7.depth \in 0 .. Slots
    BY DEF Inv, TypeOK
  <2> QED BY <1>0, <1>1, <2>1, SlotsNat DEF Inv, RunningShape, InYield, Pushed, Alive
<1>3. kept \in [Reg -> Value]
  <2>1. FromTop(0) \in Value /\ FromTop(1) \in Value
    <3>1. a7.depth \in 1 .. Slots /\ a7.depth - 1 \in 1 .. Slots /\ a7.depth - 0 = a7.depth
      BY <1>2, SlotsNat
    <3>2. stack[t][a7.depth] \in Value /\ stack[t][a7.depth - 1] \in Value
      <4>1. stack[t] \in [1 .. Slots -> Value]
        BY DEF Inv, TypeOK
      <4> QED BY <3>1, <4>1
    <3> QED BY <1>2, <3>1, <3>2 DEF FromTop
  <2> QED BY <2>1 DEF Inv, TypeOK
<1>4. sp = [of |-> t, depth |-> a7.depth - 2] /\ sp \in [of : Task, depth : 0 .. Slots]
      /\ sp.of = t /\ sp.depth = a7.depth - 2
  BY <1>2, SlotsNat DEF SavedDepth
<1> HIDE DEF kept, sp
<1>5. /\ tcb'[t].active /\ tcb'[t].started /\ tcb'[t].sp = sp
      /\ tcb' \in [Task -> Block]
      /\ \A u \in Task : u # t => tcb'[u] = tcb[u]
  <2>1. tcb \in [Task -> Block] /\ tcb[t] \in Block
    BY DEF Inv, TypeOK, Block
  <2>2. tcb'[t] = [tcb[t] EXCEPT !.regs = kept, !.sp = sp]
    BY <1>1, <2>1
  <2>3. tcb'[t] \in Block /\ tcb'[t].active = tcb[t].active /\ tcb'[t].started = tcb[t].started
        /\ tcb'[t].sp = sp
    <3>1. PICK b \in Block : b = tcb[t]
      BY <2>1
    <3>2. tcb'[t] = [b EXCEPT !.regs = kept, !.sp = sp]
      BY <2>2, <3>1
    <3>3. tcb'[t] \in Block
      BY <1>3, <1>4, <3>2 DEF Block
    <3>4. tcb'[t].active = b.active /\ tcb'[t].started = b.started /\ tcb'[t].sp = sp
      BY <3>2 DEF Block
    <3> QED BY <3>1, <3>3, <3>4
  <2> QED BY <1>1, <1>2, <2>1, <2>3
<1>6. TypeOK'
  BY <1>1, <1>5, ValueFacts DEF Inv, TypeOK, Block
<1>7. RunningShape'
  BY <1>1 DEF RunningShape, InYield
<1>8. ParkedShape'
  <2> SUFFICES ASSUME NEW u \in Task, Parked(u)' PROVE ParkedOn(u)'
    BY DEF ParkedShape
  <2>1. CASE u = t
    <3>1. stack'[t][sp.depth] = Return(t, "yield")
      BY <1>1, <1>2, <1>4
    <3>2. 1 <= sp.depth /\ sp.depth <= MaxCalls + 1 /\ sp.depth <= a7.depth
      BY <1>2, <1>4, SlotsNat
    <3>3. (tcb[t].sp)' = sp
      BY <1>5
    <3>4. Calls(t, tcb[t].sp.depth - 1)'
      BY <1>1, <1>2, <1>4, <3>3 DEF Calls
    <3> QED BY <1>1, <2>1, <3>1, <3>2, <3>3, <3>4 DEF ParkedOn
  <2>2. CASE u # t
    <3>1. tcb'[u] = tcb[u] /\ Parked(u)
      BY <1>0, <1>5, <2>2 DEF Parked, Alive
    <3> QED BY <1>1, <3>1, ParkedStay
  <2> QED BY <2>1, <2>2
<1>9. BlocksShape'
  BY <1>4, <1>5 DEF Inv, BlocksShape
<1>10. SchedulerShape'
  BY <1>1, <1>5, SlotsNat DEF Inv, SchedulerShape, TypeOK
<1> QED BY <1>6, <1>7, <1>8, <1>9, <1>10 DEF Inv

\* The scheduler finds the other task, or the same one if the other has ended.
LEMMA SelectFacts ==
    ASSUME Inv, Select
    PROVE  /\ phase = "select" /\ UNCHANGED <<code, a7, stack, current, tcb, starts>>
           /\ regs' \in [Reg -> Value]
           /\ \/ phase' = "done" /\ \A t \in Task : ~tcb[t].active
              \/ /\ phase' = "dispatch"
                 /\ \E t \in Task : /\ regs'["a0"] = Tcb(t) /\ tcb[t].active
                                    /\ t # current \/ ~tcb[Other(t)].active
<1>1. current \in {1, 2} /\ regs \in [Reg -> Value]
  BY DEF Inv, TypeOK, Task
<1>2. CASE Candidates = {}
  <2>1. /\ phase' = "done"
        /\ regs' = [regs EXCEPT !["a0"] = Tcb(1), !["a2"] = Tcb(1)]
    BY <1>2 DEF Select
  <2>2. ~tcb[Tried[1]].active /\ ~tcb[Tried[2]].active
    BY <1>2 DEF Candidates
  <2>3. \A t \in Task : ~tcb[t].active
    BY <1>1, <2>2 DEF Tried, Task
  <2>4. regs' \in [Reg -> Value]
    BY <1>1, <2>1, ValueFacts DEF Task
  <2> QED BY <2>1, <2>3, <2>4 DEF Select
<1>3. ASSUME NEW i \in Candidates, \A j \in Candidates : i <= j, phase' = "dispatch",
             regs' = [regs EXCEPT !["a0"] = Tcb(Tried[i]), !["a2"] = Tcb(1)]
      PROVE  /\ regs' \in [Reg -> Value]
             /\ \E t \in Task : /\ regs'["a0"] = Tcb(t) /\ tcb[t].active
                                /\ t # current \/ ~tcb[Other(t)].active
  <2>1. i \in {1, 2} /\ tcb[Tried[i]].active /\ (i = 2 => ~tcb[Tried[1]].active)
    BY <1>3 DEF Candidates
  <2>2. /\ Tried[i] \in Task
        /\ i = 1 => Tried[i] # current
        /\ i = 2 => Tried[1] = Other(Tried[i])
    BY <1>1, <2>1 DEF Tried, Task, Other
  <2>3. Tcb(Tried[i]) \in Value /\ Tcb(1) \in Value
    BY <2>2, ValueFacts DEF Task
  <2>4. regs' \in [Reg -> Value] /\ regs'["a0"] = Tcb(Tried[i])
    BY <1>1, <1>3, <2>3 DEF Reg
  <2> QED BY <2>1, <2>2, <2>4
<1> QED BY <1>2, <1>3 DEF Select

LEMMA SelectKept ==
    ASSUME Inv, Select
    PROVE  Inv'
<1>1. TypeOK'
  BY SelectFacts DEF Inv, TypeOK
<1>2. RunningShape'
  BY SelectFacts DEF RunningShape, InYield
<1>3. ParkedShape'
  <2> SUFFICES ASSUME NEW u \in Task, Parked(u)' PROVE ParkedOn(u)'
    BY DEF ParkedShape
  <2>1. Parked(u)
    BY SelectFacts DEF Parked, Alive
  <2> QED BY <2>1, SelectFacts, ParkedStay
<1>4. BlocksShape'
  BY SelectFacts DEF Inv, BlocksShape
<1>5. SchedulerShape'
  <2>1. \/ phase' = "done" /\ \A t \in Task : ~tcb'[t].active
        \/ /\ phase' = "dispatch"
           /\ \E t \in Task : /\ regs'["a0"] = Tcb(t) /\ tcb'[t].active
                              /\ t # current' \/ ~tcb'[Other(t)].active
    BY SelectFacts
  <2>2. /\ phase = "select" /\ UNCHANGED <<a7, current, tcb, starts>>
    BY SelectFacts
  <2> QED BY <2>1, <2>2 DEF Inv, SchedulerShape
<1> QED BY <1>1, <1>2, <1>3, <1>4, <1>5 DEF Inv

\* The scheduler goes on with the task it found, where it yielded or from its start.
LEMMA DispatchFacts ==
    ASSUME Inv, Dispatch
    PROVE  \E t \in Task :
        /\ phase = "dispatch" /\ UNCHANGED <<stack, starts>>
        /\ tcb[t].active /\ (t # current \/ ~tcb[Other(t)].active)
        /\ current' = t /\ a7' = tcb[t].sp
        /\ tcb[t].started => phase' = "resume" /\ UNCHANGED <<code, regs, tcb>>
        /\ ~tcb[t].started =>
               /\ phase' = "task" /\ code' = t
               /\ tcb' = [tcb EXCEPT ![t] = [tcb[t] EXCEPT !.started = TRUE]]
               /\ regs' = [regs EXCEPT !["a2"] = Junk, !["a3"] = Code(t)]
<1>1. PICK t \in Task : regs["a0"] = Tcb(t) /\ tcb[t].active /\ (t # current \/ ~tcb[Other(t)].active)
  BY DEF Inv, SchedulerShape, Dispatch
<1>2. regs["a0"][2] = t
  BY <1>1 DEF Tcb
<1>3. /\ phase = "dispatch" /\ UNCHANGED <<stack, starts>>
      /\ current' = t /\ a7' = tcb[t].sp
      /\ tcb[t].started => phase' = "resume" /\ UNCHANGED <<code, regs, tcb>>
      /\ ~tcb[t].started =>
             /\ phase' = "task" /\ code' = t
             /\ tcb' = [tcb EXCEPT ![t] = [tcb[t] EXCEPT !.started = TRUE]]
             /\ regs' = [regs EXCEPT !["a2"] = Junk, !["a3"] = Code(t)]
  BY <1>2 DEF Dispatch
<1> QED BY <1>1, <1>3

LEMMA DispatchKept ==
    ASSUME Inv, Dispatch
    PROVE  Inv'
<1>1. PICK t \in Task :
        /\ phase = "dispatch" /\ UNCHANGED <<stack, starts>>
        /\ tcb[t].active /\ (t # current \/ ~tcb[Other(t)].active)
        /\ current' = t /\ a7' = tcb[t].sp
        /\ tcb[t].started => phase' = "resume" /\ UNCHANGED <<code, regs, tcb>>
        /\ ~tcb[t].started =>
               /\ phase' = "task" /\ code' = t
               /\ tcb' = [tcb EXCEPT ![t] = [tcb[t] EXCEPT !.started = TRUE]]
               /\ regs' = [regs EXCEPT !["a2"] = Junk, !["a3"] = Code(t)]
  BY DispatchFacts
<1>2. /\ tcb[t].sp \in [of : {0} \cup Task, depth : 0 .. Slots] /\ tcb[t].sp.of = t
      /\ tcb[t].sp.depth \in 0 .. Slots /\ (~tcb[t].started => tcb[t].sp.depth = 0)
  <2>1. tcb[t].sp \in [of : Task, depth : 0 .. Slots]
    BY BlockType DEF Inv
  <2> QED BY <2>1 DEF Inv, BlocksShape
<1>3. CASE tcb[t].started
  <2>1. phase' = "resume" /\ UNCHANGED <<code, regs, tcb>>
    BY <1>1, <1>3
  <2>2. TypeOK'
    BY <1>1, <1>2, <2>1 DEF Inv, TypeOK
  <2>3. RunningShape'
    BY <2>1 DEF RunningShape, InYield
  <2>4. ParkedShape'
    <3> SUFFICES ASSUME NEW u \in Task, Parked(u)' PROVE ParkedOn(u)'
      BY DEF ParkedShape
    <3>1. Parked(u) /\ tcb'[u] = tcb[u] /\ (a7'.of = u => a7' = tcb[u].sp)
      BY <1>1, <1>2, <2>1 DEF Parked, Alive
    <3> QED BY <1>1, <3>1, ParkedStay
  <2>5. BlocksShape'
    BY <2>1 DEF Inv, BlocksShape
  <2>6. SchedulerShape'
    <3>1. tcb[t].sp.depth <= MaxCalls + 1
      BY <1>1, <1>3 DEF Inv, ParkedShape, ParkedOn, Parked, Alive
    <3>2. a7'.depth <= MaxCalls + 3 + starts'
      BY <1>1, <1>2, <3>1, SlotsNat DEF Inv, TypeOK
    <3> QED BY <1>1, <1>3, <2>1, <3>2 DEF SchedulerShape, Alive
  <2> QED BY <2>2, <2>3, <2>4, <2>5, <2>6 DEF Inv
<1>4. CASE ~tcb[t].started
  <2>1. /\ phase' = "task" /\ code' = t
        /\ tcb' = [tcb EXCEPT ![t] = [tcb[t] EXCEPT !.started = TRUE]]
        /\ regs' = [regs EXCEPT !["a2"] = Junk, !["a3"] = Code(t)]
    BY <1>1, <1>4
  <2>2. /\ tcb' \in [Task -> Block]
        /\ tcb'[t].active /\ tcb'[t].started /\ tcb'[t].sp = tcb[t].sp
        /\ \A u \in Task : u # t => tcb'[u] = tcb[u]
    <3>1. tcb \in [Task -> Block] /\ tcb[t] \in Block
      BY DEF Inv, TypeOK, Block
    <3>2. tcb'[t] = [tcb[t] EXCEPT !.started = TRUE]
      BY <2>1, <3>1
    <3>3. tcb'[t] \in Block /\ tcb'[t].active /\ tcb'[t].started /\ tcb'[t].sp = tcb[t].sp
      BY <1>1, <3>1, <3>2, BlockStarted
    <3> QED BY <2>1, <3>1, <3>3
  <2>3. a7'.depth = 0 /\ a7'.of = t
    BY <1>1, <1>2, <1>4
  <2>4. TypeOK'
    <3>1. regs' \in [Reg -> Value]
      BY <2>1, ValueFacts DEF Inv, TypeOK
    <3> QED BY <1>1, <1>2, <2>1, <2>2, <3>1 DEF Inv, TypeOK, Block
  <2>5. RunningShape'
    <3>1. Calls(current, a7.depth - 0)'
      BY <2>3 DEF Calls
    <3> QED BY <1>1, <2>1, <2>2, <2>3, <3>1, SlotsNat DEF RunningShape, InYield, Pushed, Alive
  <2>6. ParkedShape'
    <3> SUFFICES ASSUME NEW u \in Task, Parked(u)' PROVE ParkedOn(u)'
      BY DEF ParkedShape
    <3>1. u # t
      BY <1>1, <2>1 DEF Parked
    <3>2. Parked(u) /\ tcb'[u] = tcb[u]
      BY <1>1, <2>2, <3>1 DEF Parked, Alive
    <3> QED BY <1>1, <2>3, <3>1, <3>2, ParkedStay
  <2>7. BlocksShape'
    BY <1>2, <2>2 DEF Inv, BlocksShape
  <2>8. SchedulerShape'
    <3>1. a7'.depth <= MaxCalls + 3 + starts'
      BY <1>1, <2>3, SlotsNat DEF Inv, TypeOK
    <3> QED BY <2>1, <3>1 DEF SchedulerShape
  <2> QED BY <2>4, <2>5, <2>6, <2>7, <2>8 DEF Inv
<1> QED BY <1>3, <1>4

LEMMA ResumeKept ==
    ASSUME Inv, Resume
    PROVE  Inv'
<1>1. /\ phase = "resume" /\ phase' = "return" /\ regs' = tcb[current].regs
      /\ UNCHANGED <<code, a7, stack, current, tcb, starts>>
  BY DEF Resume
<1>2. TypeOK'
  <2>1. tcb[current].regs \in [Reg -> Value]
    BY BlockType DEF Inv, TypeOK
  <2> QED BY <1>1, <2>1 DEF Inv, TypeOK
<1>3. RunningShape'
  BY <1>1 DEF RunningShape, InYield
<1>4. ParkedShape'
  <2> SUFFICES ASSUME NEW u \in Task, Parked(u)' PROVE ParkedOn(u)'
    BY DEF ParkedShape
  <2>1. Parked(u)
    BY <1>1 DEF Parked, Alive
  <2> QED BY <1>1, <2>1, ParkedStay
<1>5. BlocksShape'
  BY <1>1 DEF Inv, BlocksShape
<1>6. SchedulerShape'
  BY <1>1 DEF Inv, SchedulerShape, Alive
<1> QED BY <1>2, <1>3, <1>4, <1>5, <1>6 DEF Inv

\* The task that comes back finds the return from yield on its stack.
LEMMA ReturnFacts ==
    ASSUME Inv, ReturnFromYield, NEW t \in Task, t = current
    PROVE  /\ phase = "return" /\ Parked(t) /\ ParkedOn(t)
           /\ a7 = tcb[t].sp /\ a7.of = t /\ a7.depth \in 1 .. MaxCalls + 1
           /\ a7' \in [of : {0} \cup Task, depth : 0 .. Slots]
           /\ a7'.of = t /\ a7'.depth = a7.depth - 1
           /\ phase' = "task" /\ code' = t
           /\ UNCHANGED <<regs, stack, current, tcb, starts>>
<1>1. phase = "return" /\ Rts /\ UNCHANGED <<regs, stack, current, tcb, starts>>
  BY DEF ReturnFromYield
<1>2. Alive(t) /\ a7 = tcb[t].sp
  BY <1>1 DEF Inv, SchedulerShape
<1>3. Parked(t)
  BY <1>1, <1>2 DEF Parked
<1>4. ParkedOn(t)
  BY <1>3 DEF Inv, ParkedShape
<1>5. a7.of = t /\ a7.depth \in 1 .. MaxCalls + 1 /\ stack[t][a7.depth] = Return(t, "yield")
  <2>1. tcb[t].sp.depth \in 0 .. Slots
    BY BlockType DEF Inv
  <2> QED BY <1>2, <1>4, <2>1, SlotsNat DEF Inv, BlocksShape, ParkedOn
<1>6. /\ a7' \in [of : {0} \cup Task, depth : 0 .. Slots]
      /\ a7'.of = a7.of /\ a7'.depth = a7.depth - 1 /\ phase' = "task" /\ code' = t
  BY <1>1, <1>5, SlotsNat, RtsFacts DEF Inv, Place
<1> QED BY <1>1, <1>2, <1>3, <1>4, <1>5, <1>6

LEMMA ReturnFromYieldKept ==
    ASSUME Inv, ReturnFromYield
    PROVE  Inv'
<1>0. PICK t \in Task : t = current
  BY DEF Inv, TypeOK
<1>1. /\ phase = "return" /\ Parked(t) /\ ParkedOn(t)
      /\ a7 = tcb[t].sp /\ a7.of = t /\ a7.depth \in 1 .. MaxCalls + 1
      /\ a7' \in [of : {0} \cup Task, depth : 0 .. Slots]
      /\ a7'.of = t /\ a7'.depth = a7.depth - 1
      /\ phase' = "task" /\ code' = t
      /\ UNCHANGED <<regs, stack, current, tcb, starts>>
  BY <1>0, ReturnFacts
<1>2. TypeOK'
  BY <1>1 DEF Inv, TypeOK
<1>3. RunningShape'
  <2>1. Calls(t, a7.depth)'
    BY <1>1 DEF ParkedOn, Calls
  <2>2. tcb[t].active /\ tcb[t].started
    BY <1>1 DEF Parked, Alive
  <2> QED BY <1>0, <1>1, <2>1, <2>2, SlotsNat DEF RunningShape, Pushed, Alive
<1>4. ParkedShape'
  <2> SUFFICES ASSUME NEW u \in Task, Parked(u)' PROVE ParkedOn(u)'
    BY DEF ParkedShape
  <2>1. u # t /\ Parked(u)
    BY <1>0, <1>1 DEF Parked, Alive
  <2> QED BY <1>1, <2>1, ParkedStay
<1>5. BlocksShape'
  BY <1>1 DEF Inv, BlocksShape
<1>6. SchedulerShape'
  <2>1. a7'.depth <= MaxCalls + 3 + starts'
    BY <1>1, SlotsNat DEF Inv, TypeOK
  <2> QED BY <1>1, <2>1 DEF SchedulerShape
<1> QED BY <1>2, <1>3, <1>4, <1>5, <1>6 DEF Inv

-----------------------------------------------------------------------------
(* Interrupts and the start of the program. *)

\* An interrupt leaves what a7 and the stack pointers of parked tasks protect.
LEMMA InterruptFacts ==
    ASSUME Inv, Interrupt
    PROVE  /\ UNCHANGED <<phase, code, regs, a7, current, tcb, starts>>
           /\ stack' \in [{0} \cup Task -> [1 .. Slots -> Value]]
           /\ \A s \in {0} \cup Task : \A i \in 1 .. Slots :
                  s # a7.of \/ i <= a7.depth => stack'[s][i] = stack[s][i]
<1>1. /\ stack \in [{0} \cup Task -> [1 .. Slots -> Value]]
      /\ a7.of \in {0} \cup Task /\ a7.depth \in Nat
  BY SlotsNat DEF Inv, TypeOK
<1> DEFINE used == [i \in 1 .. Slots |-> IF i > a7.depth THEN Junk ELSE stack[a7.of][i]]
<1>2. stack' = [stack EXCEPT ![a7.of] = used]
  BY DEF Interrupt
<1>3. stack[a7.of] \in [1 .. Slots -> Value] /\ Junk \in Value
  BY <1>1, ValueFacts
<1>4. used \in [1 .. Slots -> Value]
  BY <1>3
<1>5. \A i \in 1 .. Slots : i <= a7.depth => used[i] = stack[a7.of][i]
  BY <1>1, SlotsNat
<1> HIDE DEF used
<1>6. stack'[a7.of] = used /\ \A s \in {0} \cup Task : s # a7.of => stack'[s] = stack[s]
  BY <1>1, <1>2
<1> QED BY <1>1, <1>2, <1>4, <1>5, <1>6 DEF Interrupt

\* The longs of a parked task are among those.
LEMMA ParkedLongs ==
    ASSUME Inv, Interrupt, NEW u \in Task, Parked(u)
    PROVE  \A i \in 1 .. tcb[u].sp.depth : stack'[u][i] = stack[u][i]
<1>1. tcb[u].sp.depth \in 0 .. Slots /\ a7.depth \in Nat
  BY BlockType, SlotsNat DEF Inv, TypeOK
<1>2. a7.of = u => tcb[u].sp.depth <= a7.depth
  BY DEF Inv, ParkedShape, ParkedOn
<1>3. \A i \in 1 .. tcb[u].sp.depth : i \in 1 .. Slots /\ (u # a7.of \/ i <= a7.depth)
  BY <1>1, <1>2, SlotsNat
<1> QED BY <1>3, InterruptFacts

LEMMA InterruptKept ==
    ASSUME Inv, Interrupt
    PROVE  Inv'
<1>1. UNCHANGED <<phase, code, regs, a7, current, tcb, starts>>
  BY InterruptFacts
<1>2. TypeOK'
  BY <1>1, InterruptFacts DEF Inv, TypeOK
<1>3. RunningShape'
  <2> SUFFICES ASSUME phase \in InYield PROVE RunningShape'
    BY <1>1 DEF RunningShape
  <2>1. a7.depth \in 0 .. Slots /\ a7.of = current /\ current \in Task /\ Pushed \in 0 .. 3
        /\ Pushed <= a7.depth
    BY DEF Inv, TypeOK, RunningShape, Pushed
  <2>2. \A i \in 1 .. a7.depth : stack'[current][i] = stack[current][i]
    <3>1. \A i \in 1 .. a7.depth : i \in 1 .. Slots /\ i <= a7.depth
      BY <2>1, SlotsNat
    <3> QED BY <2>1, <3>1, InterruptFacts
  <2>3. Pushed' = Pushed
    BY <1>1 DEF Pushed
  <2> QED BY <1>1, <2>1, <2>2, <2>3 DEF Inv, RunningShape, Calls, Alive, InYield, Pushed
<1>4. ParkedShape'
  <2> SUFFICES ASSUME NEW u \in Task, Parked(u)' PROVE ParkedOn(u)'
    BY DEF ParkedShape
  <2>1. Parked(u)
    BY <1>1 DEF Parked, Alive
  <2> QED BY <1>1, <2>1, ParkedLongs, ParkedStay
<1>5. BlocksShape'
  BY <1>1 DEF Inv, BlocksShape
<1>6. SchedulerShape'
  BY <1>1 DEF Inv, SchedulerShape, Alive
<1> QED BY <1>2, <1>3, <1>4, <1>5, <1>6 DEF Inv

LEMMA StartKept ==
    ASSUME Inv, Start
    PROVE  Inv'
<1>1. /\ starts < MaxStarts /\ starts' = starts + 1
      /\ tcb' = [t \in Task |-> Fresh(t)] /\ current' = 2 /\ Push(Junk)
      /\ regs' = [regs EXCEPT !["a0"] = Tcb(2), !["a1"] = Junk, !["a2"] = Code(2), !["d0"] = Junk]
      /\ phase' = "select" /\ code' = code
  BY DEF Start
<1>2. /\ starts \in Nat /\ a7.depth \in 0 .. Slots /\ a7.depth <= MaxCalls + 3 + starts
      /\ a7.depth < Slots /\ starts' \in 0 .. MaxStarts
  BY <1>1, SlotsNat DEF Inv, TypeOK, SchedulerShape
<1>3. /\ a7' \in [of : {0} \cup Task, depth : 0 .. Slots] /\ a7'.depth = a7.depth + 1
      /\ stack' \in [{0} \cup Task -> [1 .. Slots -> Value]]
  BY <1>1, <1>2, ValueFacts, PushFacts DEF Inv
<1>4. /\ tcb' \in [Task -> Block]
      /\ \A t \in Task : /\ tcb'[t].sp = [of |-> t, depth |-> 0] /\ tcb'[t].sp.of = t
                         /\ tcb'[t].sp.depth = 0 /\ tcb'[t].active /\ ~tcb'[t].started
  <2>1. \A t \in Task : tcb'[t] = Fresh(t)
    BY <1>1
  <2>2. \A t \in Task :
            /\ Fresh(t) \in Block /\ Fresh(t).sp = [of |-> t, depth |-> 0]
            /\ Fresh(t).active /\ ~Fresh(t).started
    BY SlotsNat, ValueFacts DEF Fresh, Block
  <2>3. tcb' \in [Task -> Block]
    BY <1>1, <2>2
  <2>4. \A t \in Task : tcb'[t].sp = [of |-> t, depth |-> 0] /\ tcb'[t].active /\ ~tcb'[t].started
    BY <2>1, <2>2
  <2>5. ASSUME NEW t \in Task PROVE tcb'[t].sp.of = t /\ tcb'[t].sp.depth = 0
    <3>1. tcb'[t].sp = [of |-> t, depth |-> 0]
      BY <2>4
    <3> QED BY <3>1
  <2> QED BY <2>3, <2>4, <2>5
<1>5. TypeOK'
  <2>1. regs' \in [Reg -> Value]
    BY <1>1, ValueFacts DEF Inv, TypeOK, Task
  <2>2. current' \in Task /\ code' \in Task
    BY <1>1 DEF Inv, TypeOK, Task
  <2> QED BY <1>1, <1>2, <1>3, <1>4, <2>1, <2>2 DEF TypeOK, Block
<1>6. RunningShape'
  BY <1>1 DEF RunningShape, InYield
<1>7. ParkedShape'
  BY <1>4 DEF ParkedShape, Parked, Alive
<1>8. BlocksShape'
  BY <1>4 DEF BlocksShape
<1>9. SchedulerShape'
  <2>1. a7'.depth <= MaxCalls + 3 + starts'
    BY <1>1, <1>2, <1>3, SlotsNat
  <2> QED BY <1>1, <1>4, <2>1 DEF SchedulerShape
<1> QED BY <1>5, <1>6, <1>7, <1>8, <1>9 DEF Inv

-----------------------------------------------------------------------------
(* What the tasks see. *)

\* The context of a task is in its control block, if it has one.
Resting(t) == t # current \/ phase \in {"monitor", "select", "dispatch", "resume", "done"}

\* The longs of two stacks.
LEMMA LongsSame ==
    ASSUME NEW n, NEW f, NEW g, \A i \in 1 .. n : f[i] = g[i]
    PROVE  [i \in 1 .. n |-> f[i]] = [i \in 1 .. n |-> g[i]]
OBVIOUS

LEMMA LongsType ==
    ASSUME NEW n \in 0 .. Slots, NEW f \in [1 .. Slots -> Value]
    PROVE  [i \in 1 .. n |-> f[i]] \in Seq(Value)
<1>1. \A i \in 1 .. n : f[i] \in Value
  BY SlotsNat
<1>2. n \in Nat /\ [i \in 1 .. n |-> f[i]] \in [1 .. n -> Value]
  BY <1>1, SlotsNat
<1> QED BY <1>2

\* Whatever others do, a task that rests sees what it saw.
LEMMA RestingSame ==
    ASSUME Inv, NEW u \in Task, Resting(u), Resting(u)', tcb'[u] = tcb[u],
           Alive(u) => \A i \in 1 .. tcb[u].sp.depth : stack'[u][i] = stack[u][i]
    PROVE  View(u)' = View(u)
<1>1. CASE ~Alive(u)
  BY <1>1 DEF View, Alive
<1>2. CASE Alive(u)
  <2>1. View(u) = Saved(u) /\ View(u)' = Saved(u)'
    BY <1>2 DEF View, Alive, Resting
  <2>2. tcb[u].sp.of = u /\ tcb[u].sp.depth \in Nat
    BY BlockType, SlotsNat DEF Inv, BlocksShape
  <2>3. \A i \in 1 .. tcb[u].sp.depth - 1 : stack'[u][i] = stack[u][i]
    BY <1>2, <2>2
  <2>4. [i \in 1 .. tcb[u].sp.depth - 1 |-> stack'[u][i]]
            = [i \in 1 .. tcb[u].sp.depth - 1 |-> stack[u][i]]
    BY <2>3
  <2>5. Longs(tcb[u].sp, 1)' = Longs(tcb[u].sp, 1)
    BY <2>2, <2>4 DEF Longs
  <2> QED BY <2>1, <2>5 DEF Saved
<1> QED BY <1>1, <1>2

\* The running task sees the registers and its stack.
RunningSees ==
    \A t \in Task : Running(t) =>
        /\ View(t) = [regs |-> regs, stack |-> [i \in 1 .. a7.depth |-> stack[t][i]]]
        /\ View(t) \in [regs : [Reg -> Value], stack : Seq(Value)]

LEMMA RunningView == Inv => RunningSees
<1> SUFFICES ASSUME Inv, NEW t \in Task, Running(t)
             PROVE  /\ View(t) = [regs |-> regs, stack |-> [i \in 1 .. a7.depth |-> stack[t][i]]]
                    /\ View(t) \in [regs : [Reg -> Value], stack : Seq(Value)]
  BY DEF RunningSees
<1>1. phase = "task" /\ current = t /\ a7.of = t /\ Alive(t) /\ a7.depth \in 0 .. Slots
  BY TaskFacts, SlotsNat
<1>2. View(t) = Processor(regs, 0)
  BY <1>1 DEF View, Alive
<1>3. Longs(a7, 0) = [i \in 1 .. a7.depth |-> stack[t][i]]
  BY <1>1, SlotsNat DEF Longs
<1>4. View(t) = [regs |-> regs, stack |-> [i \in 1 .. a7.depth |-> stack[t][i]]]
  BY <1>2, <1>3 DEF Processor
<1>5. [i \in 1 .. a7.depth |-> stack[t][i]] \in Seq(Value)
  <2>1. stack[t] \in [1 .. Slots -> Value]
    BY DEF Inv, TypeOK
  <2> QED BY <1>1, <2>1, LongsType
<1>6. regs \in [Reg -> Value]
  BY DEF Inv, TypeOK
<1> QED BY <1>4, <1>5, <1>6

LEMMA RunningViewNext == Inv' => RunningSees'
BY RunningView, PTL

\* The task that yields sees the same until its context is kept.
LEMMA YieldingView ==
    ASSUME Inv, NEW t \in Task, t = current, phase \in {"yield", "yield_a0", "save"}
    PROVE  View(t) = [regs  |-> IF phase = "save" THEN [regs EXCEPT !["a0"] = stack[t][a7.depth]]
                                ELSE regs,
                      stack |-> [i \in 1 .. a7.depth - Pushed |-> stack[t][i]]]
<1>1. a7.of = t /\ Alive(t) /\ a7.depth \in Nat
  BY SlotsNat DEF Inv, TypeOK, RunningShape, InYield
<1>2. CASE phase = "yield"
  <2>1. View(t) = Processor(regs, 1) /\ Pushed = 1
    BY <1>1, <1>2 DEF View, Alive, Pushed
  <2> QED BY <1>1, <1>2, <2>1 DEF Processor, Longs
<1>3. CASE phase = "yield_a0"
  <2>1. View(t) = Processor(regs, 2) /\ Pushed = 2
    BY <1>1, <1>3 DEF View, Alive, Pushed
  <2> QED BY <1>1, <1>3, <2>1 DEF Processor, Longs
<1>4. CASE phase = "save"
  <2>1. View(t) = Processor([regs EXCEPT !["a0"] = FromTop(0)], 3) /\ Pushed = 3
    BY <1>1, <1>4 DEF View, Alive, Pushed
  <2>2. FromTop(0) = stack[t][a7.depth]
    BY <1>1 DEF FromTop
  <2> QED BY <1>1, <1>4, <2>1, <2>2 DEF Processor, Longs
<1> QED BY <1>2, <1>3, <1>4

YieldingSees ==
    \A t \in Task : t = current /\ phase \in {"yield", "yield_a0", "save"} =>
        View(t) = [regs  |-> IF phase = "save" THEN [regs EXCEPT !["a0"] = stack[t][a7.depth]]
                             ELSE regs,
                   stack |-> [i \in 1 .. a7.depth - Pushed |-> stack[t][i]]]

LEMMA YieldingViewNow == Inv => YieldingSees
BY YieldingView DEF YieldingSees

LEMMA YieldingViewNext == Inv' => YieldingSees'
BY YieldingViewNow, PTL

\* A task that comes back sees it again before it has returned.
ReturningSees ==
    \A t \in Task : t = current /\ phase = "return" =>
        View(t) = [regs |-> regs, stack |-> [i \in 1 .. a7.depth - 1 |-> stack[t][i]]]

LEMMA ReturningView == Inv => ReturningSees
<1> SUFFICES ASSUME Inv, NEW t \in Task, t = current, phase = "return"
             PROVE  View(t) = [regs |-> regs, stack |-> [i \in 1 .. a7.depth - 1 |-> stack[t][i]]]
  BY DEF ReturningSees
<1>1. Alive(t) /\ a7 = tcb[t].sp
  BY DEF Inv, SchedulerShape
<1>2. a7.of = t
  BY <1>1 DEF Inv, BlocksShape
<1>3. View(t) = Processor(regs, 1)
  BY <1>1 DEF View, Alive
<1> QED BY <1>2, <1>3 DEF Processor, Longs

LEMMA ReturningViewNext == Inv' => ReturningSees'
BY ReturningView, PTL

\* The context a resting task has.
RestingSees ==
    \A t \in Task : Alive(t) /\ Resting(t) =>
        View(t) = [regs |-> tcb[t].regs, stack |-> [i \in 1 .. tcb[t].sp.depth - 1 |-> stack[t][i]]]

LEMMA RestingView == Inv => RestingSees
<1> SUFFICES ASSUME Inv, NEW t \in Task, Alive(t), Resting(t)
             PROVE  View(t) = [regs |-> tcb[t].regs,
                               stack |-> [i \in 1 .. tcb[t].sp.depth - 1 |-> stack[t][i]]]
  BY DEF RestingSees
<1>1. View(t) = Saved(t)
  BY DEF View, Alive, Resting
<1>2. tcb[t].sp.of = t
  BY DEF Inv, BlocksShape
<1> QED BY <1>1, <1>2 DEF Saved, Longs

LEMMA RestingViewNext == Inv' => RestingSees'
BY RestingView, PTL

-----------------------------------------------------------------------------
(* The steps of the tasks and the runtime are steps of RoundRobin. *)

Views == [t \in Task |-> View(t)]
ActiveTasks == {t \in Task : tcb[t].active}

\* What a step that nobody sees leaves alone.
LEMMA Unseen ==
    ASSUME Turn' = Turn, phase = "task" <=> phase' = "task",
           \A u \in Task : tcb'[u].active = tcb[u].active,
           \A u \in Task : View(u)' = View(u)
    PROVE  UNCHANGED Turns!vars
<1>1. ActiveTasks' = ActiveTasks
  BY DEF ActiveTasks
<1>2. Views' = Views
  BY DEF Views
<1>3. (phase = "task")' = (phase = "task")
  OBVIOUS
<1> QED BY <1>1, <1>2, <1>3 DEF Turns!vars, ActiveTasks, Views

\* Computing, calling and returning are work of the task whose turn it is.
LEMMA WorkStep ==
    ASSUME Inv, Inv', NEW t \in Task, Running(t), Running(t)', UNCHANGED <<current, tcb>>,
           \A u \in Task, i \in 1 .. Slots : u # t => stack'[u][i] = stack[u][i]
    PROVE  Turns!Work(t)
<1>1. phase = "task" /\ current = t /\ Alive(t)
  BY TaskFacts
<1>2. phase' = "task"
  BY DEF Running
<1>3. Turn = t /\ Turn' = t
  BY <1>1, <1>2 DEF Turn, Alive
<1>4. View(t)' \in [regs : [Reg -> Value], stack : Seq(Value)]
  BY RunningViewNext DEF RunningSees
<1>5. ASSUME NEW u \in Task, u # t
      PROVE  View(u)' = View(u)
  <2>1. Resting(u) /\ Resting(u)'
    BY <1>1, <1>5 DEF Resting
  <2>2. \A i \in 1 .. tcb[u].sp.depth : stack'[u][i] = stack[u][i]
    <3>1. tcb[u].sp.depth \in 0 .. Slots
      BY BlockType DEF Inv
    <3>2. \A i \in 1 .. tcb[u].sp.depth : i \in 1 .. Slots
      BY <3>1, SlotsNat
    <3> QED BY <1>5, <3>2
  <2> QED BY <2>1, <2>2, RestingSame
<1>6. Views'[t] = View(t)' /\ Views' = [Views EXCEPT ![t] = View(t)']
  BY <1>5 DEF Views
<1>7. ActiveTasks' = ActiveTasks
  BY DEF ActiveTasks
<1> QED BY <1>1, <1>2, <1>3, <1>4, <1>6, <1>7 DEF Turns!Work, Views, ActiveTasks

LEMMA ComputeStep ==
    ASSUME Inv, Inv', NEW t \in Task, NEW v \in Version, Compute(t, v)
    PROVE  Turns!Work(t)
<1>1. Running(t) /\ Running(t)' /\ UNCHANGED <<current, tcb, stack>>
  BY DEF Compute, Running
<1> QED BY <1>1, WorkStep

LEMMA CallStep ==
    ASSUME Inv, Inv', NEW t \in Task, Call(t)
    PROVE  Turns!Work(t)
<1>1. /\ Running(t) /\ a7.depth < MaxCalls /\ Push(Return(t, "call"))
      /\ UNCHANGED <<phase, code, regs, current, tcb, starts>>
  BY DEF Call
<1>2. a7.depth < Slots /\ Return(t, "call") \in Value /\ a7.of = t
  BY <1>1, TaskFacts, SlotsNat, ValueFacts DEF Place
<1>3. \A s \in {0} \cup Task, i \in 1 .. Slots :
          s # a7.of \/ i # a7.depth + 1 => stack'[s][i] = stack[s][i]
  BY <1>1, <1>2, PushFacts DEF Inv
<1>4. Running(t)'
  BY <1>1 DEF Running
<1> QED BY <1>1, <1>2, <1>3, <1>4, WorkStep

LEMMA ReturnStep ==
    ASSUME Inv, Inv', NEW t \in Task, ReturnFromCall(t)
    PROVE  Turns!Work(t)
<1>1. /\ Running(t) /\ a7.depth > 0 /\ Rts
      /\ UNCHANGED <<regs, stack, current, tcb, starts>>
  BY DEF ReturnFromCall
<1>2. stack[a7.of][a7.depth] = Return(t, "call") /\ a7.depth \in Nat
  BY <1>1, TaskFacts DEF Calls
<1>3. Running(t)'
  BY <1>1, <1>2, RtsFacts DEF Inv, Place, Running
<1> QED BY <1>1, <1>3, WorkStep

\* While the turn and the control blocks stay, so does what the other task sees.
LEMMA OtherSame ==
    ASSUME Inv, NEW t \in Task, t = current, UNCHANGED current, NEW u \in Task, u # t,
           tcb'[u] = tcb[u],
           \A i \in 1 .. Slots : stack'[u][i] = stack[u][i]
    PROVE  View(u)' = View(u)
<1>1. Resting(u) /\ Resting(u)'
  BY DEF Resting
<1>2. \A i \in 1 .. tcb[u].sp.depth : stack'[u][i] = stack[u][i]
  <2>1. tcb[u].sp.depth \in 0 .. Slots
    BY BlockType DEF Inv
  <2>2. \A i \in 1 .. tcb[u].sp.depth : i \in 1 .. Slots
    BY <2>1, SlotsNat
  <2> QED BY <2>2
<1> QED BY <1>1, <1>2, RestingSame

\* A call of yield shows nobody anything: the return address is the runtime's.
LEMMA CallYieldStep ==
    ASSUME Inv, Inv', NEW t \in Task, CallYield(t)
    PROVE  Turns!Yield
<1>1. /\ Running(t) /\ Push(Return(t, "yield")) /\ phase' = "yield"
      /\ UNCHANGED <<code, regs, current, tcb, starts>>
  BY DEF CallYield
<1>2. /\ a7.depth < Slots /\ Return(t, "yield") \in Value /\ a7.of = t /\ current = t
      /\ phase = "task" /\ Alive(t) /\ a7.depth \in 0 .. MaxCalls
  BY <1>1, TaskFacts, SlotsNat, ValueFacts DEF Place
<1>3. /\ a7'.depth = a7.depth + 1
      /\ \A s \in {0} \cup Task, i \in 1 .. Slots :
             s # a7.of \/ i # a7.depth + 1 => stack'[s][i] = stack[s][i]
  BY <1>1, <1>2, PushFacts DEF Inv
<1>4. View(t)' = View(t)
  <2>1. View(t) = [regs |-> regs, stack |-> [i \in 1 .. a7.depth |-> stack[t][i]]]
    BY <1>1, RunningView DEF RunningSees
  <2>2. View(t)' = [regs |-> regs', stack |-> [i \in 1 .. a7'.depth - 1 |-> stack'[t][i]]]
    BY <1>1, <1>2, YieldingViewNext DEF YieldingSees, Pushed
  <2>3. a7'.depth - 1 = a7.depth /\ \A i \in 1 .. a7.depth : stack'[t][i] = stack[t][i]
    <3>1. \A i \in 1 .. a7.depth : i \in 1 .. Slots /\ i # a7.depth + 1
      BY <1>2, SlotsNat
    <3>2. t \in {0} \cup Task /\ t = a7.of
      BY <1>2
    <3>3. \A i \in 1 .. a7.depth : stack'[t][i] = stack[t][i]
      BY <1>3, <3>1, <3>2
    <3>4. a7'.depth - 1 = a7.depth
      BY <1>2, <1>3
    <3> QED BY <3>3, <3>4
  <2>4. [i \in 1 .. a7.depth |-> stack'[t][i]] = [i \in 1 .. a7.depth |-> stack[t][i]]
    BY <2>3
  <2> QED BY <1>1, <2>1, <2>2, <2>3, <2>4
<1>5. ASSUME NEW u \in Task, u # t PROVE View(u)' = View(u)
  BY <1>1, <1>2, <1>3, <1>5, OtherSame
<1>6. Views' = Views
  BY <1>4, <1>5 DEF Views
<1>7. ActiveTasks' = ActiveTasks
  BY <1>1 DEF ActiveTasks
<1>8. Turn' = Turn
  BY <1>1, <1>2 DEF Turn
<1> QED BY <1>1, <1>2, <1>6, <1>7, <1>8 DEF Turns!Yield, Views, ActiveTasks

LEMMA TaskExitStep ==
    ASSUME Inv, Inv', NEW t \in Task, TaskExit(t)
    PROVE  Turns!End(t)
<1>1. /\ Running(t) /\ phase' = "select"
      /\ tcb' = [tcb EXCEPT ![current] = [tcb[current] EXCEPT !.active = FALSE]]
      /\ UNCHANGED <<code, a7, stack, current, starts>>
  BY DEF TaskExit
<1>2. phase = "task" /\ current = t /\ Alive(t)
  BY <1>1, TaskFacts
<1>3. /\ ~tcb'[t].active /\ tcb'[t].started
      /\ \A u \in Task : u # t => tcb'[u] = tcb[u]
  <2>1. tcb \in [Task -> Block] /\ tcb[t] \in Block
    BY DEF Inv, TypeOK, Block
  <2>2. tcb'[t] = [tcb[t] EXCEPT !.active = FALSE]
    BY <1>1, <1>2, <2>1
  <2> QED BY <1>1, <1>2, <2>1, <2>2, BlockEnded DEF Alive
<1>4. View(t)' = Unborn
  BY <1>3 DEF View
<1>5. ASSUME NEW u \in Task, u # t PROVE View(u)' = View(u)
  BY <1>1, <1>2, <1>3, <1>5, OtherSame
<1>6. Views' = [Views EXCEPT ![t] = Unborn]
  BY <1>4, <1>5 DEF Views
<1>7. ActiveTasks' = ActiveTasks \ {t}
  BY <1>3 DEF ActiveTasks
<1>8. Turn = t /\ Turn' = t
  BY <1>1, <1>2, <1>3 DEF Turn, Alive
<1> QED BY <1>1, <1>2, <1>6, <1>7, <1>8 DEF Turns!End, Views, ActiveTasks

\* The scratch longs of yield are not the task's either.
LEMMA PushD0Step ==
    ASSUME Inv, Inv', PushD0
    PROVE  UNCHANGED Turns!vars
<1>0. PICK t \in Task : t = current
  BY DEF Inv, TypeOK
<1>1. /\ phase = "yield" /\ Push(regs["d0"]) /\ phase' = "yield_a0"
      /\ UNCHANGED <<code, regs, current, tcb, starts>>
  BY DEF PushD0
<1>2. a7.of = t /\ a7.depth \in 1 .. MaxCalls + 1
  <2>1. a7.depth \in 0 .. Slots
    BY DEF Inv, TypeOK
  <2> QED BY <1>0, <1>1, <2>1, SlotsNat DEF Inv, RunningShape, InYield, Pushed
<1>3. a7.depth < Slots /\ regs["d0"] \in Value /\ t \in {0} \cup Task
  BY <1>2, SlotsNat DEF Inv, TypeOK, Reg
<1>4. /\ a7'.depth = a7.depth + 1
      /\ \A s \in {0} \cup Task, i \in 1 .. Slots :
             s # a7.of \/ i # a7.depth + 1 => stack'[s][i] = stack[s][i]
  BY <1>1, <1>3, PushFacts DEF Inv
<1>5. View(t)' = View(t)
  <2>1. View(t) = [regs |-> regs, stack |-> [i \in 1 .. a7.depth - 1 |-> stack[t][i]]]
    BY <1>0, <1>1, YieldingViewNow DEF YieldingSees, Pushed
  <2>2. View(t)' = [regs |-> regs', stack |-> [i \in 1 .. a7'.depth - 2 |-> stack'[t][i]]]
    BY <1>0, <1>1, YieldingViewNext DEF YieldingSees, Pushed
  <2>3. a7'.depth - 2 = a7.depth - 1
    BY <1>2, <1>4
  <2>4. \A i \in 1 .. a7.depth - 1 : stack'[t][i] = stack[t][i]
    <3>1. \A i \in 1 .. a7.depth - 1 : i \in 1 .. Slots /\ i # a7.depth + 1
      BY <1>2, SlotsNat
    <3> QED BY <1>3, <1>4, <3>1
  <2>5. [i \in 1 .. a7.depth - 1 |-> stack'[t][i]] = [i \in 1 .. a7.depth - 1 |-> stack[t][i]]
    BY <2>4
  <2> QED BY <1>1, <2>1, <2>2, <2>3, <2>5
<1>6. ASSUME NEW u \in Task, u # t PROVE View(u)' = View(u)
  BY <1>0, <1>1, <1>2, <1>4, <1>6, OtherSame
<1>7. Turn' = Turn
  BY <1>1 DEF Turn
<1> QED BY <1>1, <1>5, <1>6, <1>7, Unseen

LEMMA PushA0Step ==
    ASSUME Inv, Inv', PushA0
    PROVE  UNCHANGED Turns!vars
<1>0. PICK t \in Task : t = current
  BY DEF Inv, TypeOK
<1>1. /\ phase = "yield_a0" /\ Push(regs["a0"]) /\ phase' = "save"
      /\ regs' = [regs EXCEPT !["a0"] = Tcb(t)]
      /\ UNCHANGED <<code, current, tcb, starts>>
  BY <1>0 DEF PushA0
<1>2. a7.of = t /\ a7.depth \in 2 .. MaxCalls + 2
  <2>1. a7.depth \in 0 .. Slots
    BY DEF Inv, TypeOK
  <2> QED BY <1>0, <1>1, <2>1, SlotsNat DEF Inv, RunningShape, InYield, Pushed
<1>3. a7.depth < Slots /\ regs["a0"] \in Value /\ t \in {0} \cup Task
  BY <1>2, SlotsNat DEF Inv, TypeOK, Reg
<1>4. /\ a7'.depth = a7.depth + 1 /\ stack'[t][a7.depth + 1] = regs["a0"]
      /\ \A s \in {0} \cup Task, i \in 1 .. Slots :
             s # a7.of \/ i # a7.depth + 1 => stack'[s][i] = stack[s][i]
  BY <1>1, <1>2, <1>3, PushFacts DEF Inv
<1>5. View(t)' = View(t)
  <2>1. View(t) = [regs |-> regs, stack |-> [i \in 1 .. a7.depth - 2 |-> stack[t][i]]]
    BY <1>0, <1>1, YieldingViewNow DEF YieldingSees, Pushed
  <2>2. View(t)' = [regs |-> [regs' EXCEPT !["a0"] = stack'[t][a7'.depth]],
                    stack |-> [i \in 1 .. a7'.depth - 3 |-> stack'[t][i]]]
    BY <1>0, <1>1, YieldingViewNext DEF YieldingSees, Pushed
  <2>3. a7'.depth - 3 = a7.depth - 2
    BY <1>2, <1>4
  <2>4. \A i \in 1 .. a7.depth - 2 : stack'[t][i] = stack[t][i]
    <3>1. \A i \in 1 .. a7.depth - 2 : i \in 1 .. Slots /\ i # a7.depth + 1
      BY <1>2, SlotsNat
    <3> QED BY <1>3, <1>4, <3>1
  <2>5. [i \in 1 .. a7.depth - 2 |-> stack'[t][i]] = [i \in 1 .. a7.depth - 2 |-> stack[t][i]]
    BY <2>4
  <2>6. [regs' EXCEPT !["a0"] = stack'[t][a7'.depth]] = regs
    <3>1. stack'[t][a7'.depth] = regs["a0"] /\ regs \in [Reg -> Value]
      BY <1>4 DEF Inv, TypeOK
    <3> QED BY <1>1, <3>1
  <2> QED BY <2>1, <2>2, <2>3, <2>5, <2>6
<1>6. ASSUME NEW u \in Task, u # t PROVE View(u)' = View(u)
  BY <1>0, <1>1, <1>2, <1>4, <1>6, OtherSame
<1>7. Turn' = Turn
  BY <1>1 DEF Turn
<1> QED BY <1>1, <1>5, <1>6, <1>7, Unseen

\* What is kept is what the task sees.
LEMMA SaveStep ==
    ASSUME Inv, Inv', Save
    PROVE  UNCHANGED Turns!vars
<1>0. PICK t \in Task : t = current
  BY DEF Inv, TypeOK
<1> DEFINE kept == [regs EXCEPT !["d0"] = FromTop(1), !["a0"] = FromTop(0)]
           sp == [of |-> a7.of, depth |-> SavedDepth]
<1>1. /\ phase = "save" /\ phase' = "select"
      /\ tcb' = [tcb EXCEPT ![t] = [tcb[t] EXCEPT !.regs = kept, !.sp = sp]]
      /\ UNCHANGED <<code, a7, stack, current, starts>>
  BY <1>0 DEF Save
<1>2. /\ a7.of = t /\ a7.depth \in 3 .. MaxCalls + 3 /\ Alive(t)
      /\ stack[t][a7.depth - 1] = regs["d0"]
  <2>1. a7.depth \in 0 .. Slots
    BY DEF Inv, TypeOK
  <2> QED BY <1>0, <1>1, <2>1, SlotsNat DEF Inv, RunningShape, InYield, Pushed
<1>3. /\ FromTop(1) = regs["d0"] /\ FromTop(0) = stack[t][a7.depth]
      /\ SavedDepth = a7.depth - 2 /\ regs \in [Reg -> Value]
  BY <1>2 DEF FromTop, SavedDepth, Inv, TypeOK
<1>4. kept = [regs EXCEPT !["a0"] = stack[t][a7.depth]]
  BY <1>3
<1>5. sp.depth = a7.depth - 2
  BY <1>3
<1> HIDE DEF kept, sp
<1>6. /\ tcb'[t].active = tcb[t].active /\ tcb'[t].started = tcb[t].started
      /\ tcb'[t].sp = sp /\ tcb'[t].regs = kept
      /\ \A u \in Task : u # t => tcb'[u] = tcb[u]
  <2>1. tcb \in [Task -> Block]
    BY DEF Inv, TypeOK, Block
  <2>2. PICK b \in Block : b = tcb[t]
    BY <2>1
  <2>3. tcb'[t] = [b EXCEPT !.regs = kept, !.sp = sp]
    BY <1>1, <2>1, <2>2
  <2>4. /\ tcb'[t].active = b.active /\ tcb'[t].started = b.started
        /\ tcb'[t].sp = sp /\ tcb'[t].regs = kept
    BY <2>3 DEF Block
  <2> QED BY <1>1, <2>1, <2>2, <2>4
<1>7. View(t)' = View(t)
  <2>1. View(t) = [regs |-> kept, stack |-> [i \in 1 .. a7.depth - 3 |-> stack[t][i]]]
    BY <1>0, <1>1, <1>4, YieldingViewNow DEF YieldingSees, Pushed
  <2>2. View(t)' = [regs |-> tcb'[t].regs,
                    stack |-> [i \in 1 .. tcb'[t].sp.depth - 1 |-> stack'[t][i]]]
    BY <1>1, <1>2, <1>6, RestingViewNext DEF RestingSees, Resting, Alive
  <2>3. tcb'[t].sp.depth - 1 = a7.depth - 3
    BY <1>2, <1>5, <1>6
  <2> QED BY <1>1, <1>6, <2>1, <2>2, <2>3
<1>8. ASSUME NEW u \in Task, u # t PROVE View(u)' = View(u)
  BY <1>0, <1>1, <1>6, <1>8, OtherSame
<1>9. Turn' = Turn
  <2>1. \A u \in Task : tcb'[u].started = tcb[u].started
    BY <1>6
  <2> QED BY <1>1, <2>1 DEF Turn
<1>10. \A u \in Task : tcb'[u].active = tcb[u].active
  BY <1>6
<1> QED BY <1>1, <1>7, <1>8, <1>9, <1>10, Unseen

\* Looking for the next task shows nothing until there is none left.
LEMMA SelectStep ==
    ASSUME Inv, Inv', Select
    PROVE  [Turns!Next]_(Turns!vars)
<1>1. /\ phase = "select" /\ UNCHANGED <<a7, stack, current, tcb>>
      /\ phase' = "dispatch" \/ (phase' = "done" /\ \A t \in Task : ~tcb[t].active)
  BY SelectFacts
<1>2. ASSUME NEW u \in Task PROVE View(u)' = View(u)
  BY <1>1, RestingSame DEF Resting
<1>3. CASE phase' = "dispatch"
  <2>1. Turn' = Turn
    BY <1>1, <1>3 DEF Turn
  <2>2. UNCHANGED Turns!vars
    BY <1>1, <1>2, <1>3, <2>1, Unseen
  <2> QED BY <2>2
<1>4. CASE phase' = "done"
  <2>1. ActiveTasks = {} /\ ActiveTasks' = ActiveTasks
    BY <1>1, <1>4 DEF ActiveTasks
  <2>2. Views' = Views
    BY <1>2 DEF Views
  <2>3. Turn' = Nobody
    BY <1>4 DEF Turn
  <2>4. Turns!Stop
    BY <1>1, <1>4, <2>1, <2>2, <2>3 DEF Turns!Stop, ActiveTasks, Views
  <2> QED BY <2>4 DEF Turns!Next
<1> QED BY <1>1, <1>3, <1>4

\* The task the scheduler takes is the one whose turn it is.
LEMMA NextTurn ==
    ASSUME Inv, phase = "dispatch", NEW t \in Task, tcb[t].active,
           t # current \/ ~tcb[Other(t)].active
    PROVE  Turns!Successor(t)
<1>1. Task = {1, 2} /\ current \in Task /\ Nobody \notin Task
  BY DEF Task, Nobody, Inv, TypeOK
<1>2. CASE \A u \in Task : ~tcb[u].started
  <2>1. current = 2 /\ \A u \in Task : tcb[u].active
    BY <1>2 DEF Inv, SchedulerShape
  <2>2. t = 1 /\ Turn = Nobody
    BY <1>1, <1>2, <2>1 DEF Turn, Other
  <2> QED BY <2>2 DEF Turns!Successor
<1>3. CASE ~\A u \in Task : ~tcb[u].started
  <2>1. Turn = current /\ Turn # Nobody
    BY <1>1, <1>3 DEF Turn
  <2>2. t # current \/ ActiveTasks = {t}
    BY <1>1 DEF ActiveTasks, Other
  <2> QED BY <2>1, <2>2 DEF Turns!Successor, ActiveTasks
<1> QED BY <1>2, <1>3

\* It gets the turn, with what it left or as a newborn.
LEMMA DispatchStep ==
    ASSUME Inv, Inv', Dispatch
    PROVE  Turns!Next
<1>1. PICK t \in Task :
        /\ phase = "dispatch" /\ UNCHANGED <<stack, starts>>
        /\ tcb[t].active /\ (t # current \/ ~tcb[Other(t)].active)
        /\ current' = t /\ a7' = tcb[t].sp
        /\ tcb[t].started => phase' = "resume" /\ UNCHANGED <<code, regs, tcb>>
        /\ ~tcb[t].started =>
               /\ phase' = "task" /\ code' = t
               /\ tcb' = [tcb EXCEPT ![t] = [tcb[t] EXCEPT !.started = TRUE]]
               /\ regs' = [regs EXCEPT !["a2"] = Junk, !["a3"] = Code(t)]
  BY DispatchFacts
<1>2. Turns!Successor(t)
  BY <1>1, NextTurn
<1>3. t \in ActiveTasks
  BY <1>1 DEF ActiveTasks
<1>4. CASE tcb[t].started
  <2>1. phase' = "resume" /\ tcb' = tcb
    BY <1>1, <1>4
  <2>2. Turn' = t
    BY <1>1, <1>4, <2>1 DEF Turn
  <2>3. ASSUME NEW u \in Task PROVE View(u)' = View(u)
    <3>1. CASE u # t
      <4>1. Resting(u) /\ Resting(u)'
        BY <1>1, <3>1 DEF Resting
      <4> QED BY <1>1, <2>1, <4>1, RestingSame
    <3>2. CASE u = t
      <4>1. Alive(t) /\ Alive(t)' /\ Resting(t)
        BY <1>1, <1>4, <2>1 DEF Resting, Alive
      <4>2. View(t) = Saved(t) /\ View(t)' = Saved(t)'
        BY <1>1, <2>1, <4>1 DEF View, Alive, Resting
      <4> QED BY <1>1, <2>1, <3>2, <4>2 DEF Saved, Longs
    <3> QED BY <3>1, <3>2
  <2>4. Views' = Views /\ ActiveTasks' = ActiveTasks
    BY <2>1, <2>3 DEF Views, ActiveTasks
  <2>5. Turns!Pass(t)
    BY <1>1, <1>2, <1>3, <2>1, <2>2, <2>4 DEF Turns!Pass, Views, ActiveTasks
  <2> QED BY <2>5 DEF Turns!Next
<1>5. CASE ~tcb[t].started
  <2>1. /\ phase' = "task" /\ code' = t
        /\ tcb' = [tcb EXCEPT ![t] = [tcb[t] EXCEPT !.started = TRUE]]
    BY <1>1, <1>5
  <2>2. /\ tcb'[t].active /\ tcb'[t].started
        /\ \A u \in Task : u # t => tcb'[u] = tcb[u]
    <3>1. tcb \in [Task -> Block] /\ tcb[t] \in Block
      BY DEF Inv, TypeOK, Block
    <3>2. tcb'[t] = [tcb[t] EXCEPT !.started = TRUE]
      BY <2>1, <3>1
    <3> QED BY <1>1, <2>1, <3>1, <3>2, BlockStarted
  <2>3. Turn' = t
    BY <1>1, <2>1, <2>2 DEF Turn
  <2>4. View(t) = Unborn
    BY <1>5 DEF View
  <2>5. View(t)' \in [regs : [Reg -> Value], stack : {<< >>}]
    <3>1. a7'.depth = 0
      <4>1. tcb[t].sp.depth = 0
        BY <1>5 DEF Inv, BlocksShape
      <4> QED BY <1>1, <4>1
    <3>2. Running(t)'
      BY <2>1 DEF Running
    <3>3. View(t)' = [regs |-> regs', stack |-> [i \in 1 .. a7'.depth |-> stack'[t][i]]]
      BY <3>2, RunningViewNext DEF RunningSees
    <3>4. View(t)' = [regs |-> regs', stack |-> << >>]
      BY <3>1, <3>3
    <3>5. regs' \in [Reg -> Value]
      BY DEF Inv, TypeOK
    <3> QED BY <3>4, <3>5
  <2>6. ASSUME NEW u \in Task, u # t PROVE View(u)' = View(u)
    <3>1. Resting(u) /\ Resting(u)'
      BY <1>1, <2>6 DEF Resting
    <3> QED BY <1>1, <2>2, <2>6, <3>1, RestingSame
  <2>7. Views'[t] = View(t)' /\ Views' = [Views EXCEPT ![t] = View(t)'] /\ Views[t] = Unborn
    BY <2>4, <2>6 DEF Views
  <2>8. ActiveTasks' = ActiveTasks
    BY <1>1, <2>2 DEF ActiveTasks
  <2>9. Turns!Start(t)
    BY <1>1, <1>2, <1>3, <2>1, <2>3, <2>5, <2>7, <2>8 DEF Turns!Start, Views, ActiveTasks
  <2> QED BY <2>9 DEF Turns!Next
<1> QED BY <1>4, <1>5

\* The registers come back before the task does.
LEMMA ResumeStep ==
    ASSUME Inv, Inv', Resume
    PROVE  UNCHANGED Turns!vars
<1>0. PICK t \in Task : t = current
  BY DEF Inv, TypeOK
<1>1. /\ phase = "resume" /\ phase' = "return" /\ regs' = tcb[t].regs
      /\ UNCHANGED <<code, a7, stack, current, tcb, starts>>
  BY <1>0 DEF Resume
<1>2. Alive(t) /\ a7 = tcb[t].sp
  BY <1>0, <1>1 DEF Inv, SchedulerShape
<1>3. tcb[t].sp.of = t
  BY DEF Inv, BlocksShape
<1>4. View(t)' = View(t)
  <2>1. View(t) = [regs |-> tcb[t].regs, stack |-> Longs(tcb[t].sp, 1)]
    BY <1>0, <1>1, <1>2 DEF View, Alive, Saved
  <2>2. View(t)' = [regs |-> regs', stack |-> [i \in 1 .. a7'.depth - 1 |-> stack'[t][i]]]
    BY <1>0, <1>1, ReturningViewNext DEF ReturningSees
  <2> QED BY <1>1, <1>2, <1>3, <2>1, <2>2 DEF Longs
<1>5. ASSUME NEW u \in Task, u # t PROVE View(u)' = View(u)
  BY <1>0, <1>1, <1>5, OtherSame
<1>6. Turn' = Turn
  BY <1>1 DEF Turn
<1> QED BY <1>1, <1>4, <1>5, <1>6, Unseen

\* The task goes on behind its call of yield and finds what it left.
LEMMA ReturnFromYieldStep ==
    ASSUME Inv, Inv', ReturnFromYield
    PROVE  Turns!Next
<1>0. PICK t \in Task : t = current
  BY DEF Inv, TypeOK
<1>1. /\ phase = "return" /\ Parked(t) /\ a7.depth \in 1 .. MaxCalls + 1
      /\ a7'.depth = a7.depth - 1 /\ phase' = "task" /\ code' = t
      /\ UNCHANGED <<regs, stack, current, tcb, starts>>
  BY <1>0, ReturnFacts
<1>2. Running(t)'
  BY <1>1 DEF Running
<1>3. View(t)' = View(t)
  <2>1. View(t) = [regs |-> regs, stack |-> [i \in 1 .. a7.depth - 1 |-> stack[t][i]]]
    BY <1>0, <1>1, ReturningView DEF ReturningSees
  <2>2. View(t)' = [regs |-> regs', stack |-> [i \in 1 .. a7'.depth |-> stack'[t][i]]]
    BY <1>2, RunningViewNext DEF RunningSees
  <2> QED BY <1>1, <2>1, <2>2
<1>4. ASSUME NEW u \in Task, u # t PROVE View(u)' = View(u)
  BY <1>0, <1>1, <1>4, OtherSame
<1>5. Views' = Views /\ ActiveTasks' = ActiveTasks
  BY <1>1, <1>3, <1>4 DEF Views, ActiveTasks
<1>6. Turn = t /\ Turn' = t
  BY <1>0, <1>1 DEF Turn, Parked, Alive
<1>7. Turns!Enter(t)
  BY <1>1, <1>5, <1>6 DEF Turns!Enter, Views, ActiveTasks
<1> QED BY <1>7 DEF Turns!Next

\* Nobody sees an interrupt.
LEMMA InterruptStep ==
    ASSUME Inv, Inv', Interrupt
    PROVE  UNCHANGED Turns!vars
<1>0. PICK t \in Task : t = current
  BY DEF Inv, TypeOK
<1>1. UNCHANGED <<phase, code, regs, a7, current, tcb, starts>>
  BY InterruptFacts
<1>2. ASSUME NEW u \in Task, Resting(u) PROVE View(u)' = View(u)
  <2>1. Resting(u)'
    BY <1>1, <1>2 DEF Resting
  <2>2. CASE Parked(u)
    BY <1>1, <1>2, <2>1, <2>2, ParkedLongs, RestingSame
  <2>3. CASE ~Parked(u)
    <3>1. ~Alive(u)
      BY <1>2, <2>3 DEF Inv, SchedulerShape, Parked, Alive, Resting
    <3> QED BY <1>1, <1>2, <2>1, <3>1, RestingSame
  <2> QED BY <2>2, <2>3
<1>3. ASSUME ~Resting(t) PROVE View(t)' = View(t)
  <2>1. phase \in {"task", "yield", "yield_a0", "save", "resume", "return"}
    BY <1>0, <1>3 DEF Resting, Inv, TypeOK
  <2>2. a7.of = t /\ a7.depth \in 0 .. Slots
    BY <1>0, <2>1 DEF Inv, TypeOK, RunningShape, InYield, SchedulerShape, BlocksShape
  <2>3. \A i \in 1 .. a7.depth : stack'[t][i] = stack[t][i]
    <3>1. \A i \in 1 .. a7.depth : i \in 1 .. Slots /\ i <= a7.depth
      BY <2>2, SlotsNat
    <3>2. t \in {0} \cup Task
      OBVIOUS
    <3> QED BY <3>1, <3>2, InterruptFacts
  <2>4. CASE phase = "task"
    <3>1. Running(t) /\ Running(t)'
      BY <1>0, <1>1, <2>4 DEF Running, Inv, RunningShape, InYield
    <3>2. View(t) = [regs |-> regs, stack |-> [i \in 1 .. a7.depth |-> stack[t][i]]]
      BY <3>1, RunningView DEF RunningSees
    <3>3. View(t)' = [regs |-> regs', stack |-> [i \in 1 .. a7'.depth |-> stack'[t][i]]]
      BY <3>1, RunningViewNext DEF RunningSees
    <3> QED BY <1>1, <2>3, <3>2, <3>3
  <2>5. CASE phase = "return"
    BY <1>0, <1>1, <2>2, <2>3, <2>5, SlotsNat, ReturningView, ReturningViewNext DEF ReturningSees
  <2>6. CASE phase = "resume"
    <3>1. Alive(t) /\ a7 = tcb[t].sp
      BY <1>0, <2>6 DEF Inv, SchedulerShape
    <3>2. View(t) = Saved(t) /\ View(t)' = Saved(t)'
      BY <1>0, <1>1, <2>6, <3>1 DEF View, Alive
    <3>3. [i \in 1 .. a7.depth - 1 |-> stack'[t][i]] = [i \in 1 .. a7.depth - 1 |-> stack[t][i]]
      BY <2>2, <2>3
    <3> QED BY <1>1, <2>2, <3>1, <3>2, <3>3 DEF Saved, Longs
  <2>7. CASE phase \in {"yield", "yield_a0", "save"}
    <3>1. Pushed' = Pushed /\ Pushed \in 1 .. 3
      BY <1>1, <2>7 DEF Pushed
    <3>2. Pushed <= a7.depth
      BY <2>7 DEF Inv, RunningShape, InYield
    <3>3. stack'[t][a7.depth] = stack[t][a7.depth]
      BY <2>2, <2>3, <3>1, <3>2
    <3>4. [i \in 1 .. a7.depth - Pushed |-> stack'[t][i]]
              = [i \in 1 .. a7.depth - Pushed |-> stack[t][i]]
      BY <2>2, <2>3, <3>1
    <3>5. View(t) = [regs  |-> IF phase = "save" THEN [regs EXCEPT !["a0"] = stack[t][a7.depth]]
                               ELSE regs,
                     stack |-> [i \in 1 .. a7.depth - Pushed |-> stack[t][i]]]
      BY <1>0, <2>7, YieldingViewNow DEF YieldingSees
    <3>6. View(t)' = [regs  |-> IF phase' = "save" THEN [regs' EXCEPT !["a0"] = stack'[t][a7'.depth]]
                                ELSE regs',
                      stack |-> [i \in 1 .. a7'.depth - Pushed' |-> stack'[t][i]]]
      BY <1>0, <1>1, <2>7, YieldingViewNext DEF YieldingSees
    <3>7. phase' = phase /\ regs' = regs /\ a7' = a7
      BY <1>1
    <3> DEFINE seen == IF phase = "save" THEN [regs EXCEPT !["a0"] = stack[t][a7.depth]] ELSE regs
               seen2 == IF phase' = "save" THEN [regs' EXCEPT !["a0"] = stack'[t][a7'.depth]]
                        ELSE regs'
    <3>8. seen2 = seen
      BY <3>3, <3>7
    <3>9. [i \in 1 .. a7'.depth - Pushed' |-> stack'[t][i]]
              = [i \in 1 .. a7.depth - Pushed |-> stack'[t][i]]
      BY <3>1, <3>7
    <3> HIDE DEF seen, seen2
    <3>10. View(t) = [regs |-> seen, stack |-> [i \in 1 .. a7.depth - Pushed |-> stack[t][i]]]
      BY <3>5 DEF seen
    <3>11. View(t)' = [regs |-> seen2, stack |-> [i \in 1 .. a7'.depth - Pushed' |-> stack'[t][i]]]
      BY <3>6 DEF seen2
    <3> QED BY <3>4, <3>8, <3>9, <3>10, <3>11
  <2> QED BY <2>1, <2>4, <2>5, <2>6, <2>7
<1>4. Turn' = Turn
  BY <1>1 DEF Turn
<1>5. ASSUME NEW u \in Task PROVE View(u)' = View(u)
  <2>1. u = t \/ Resting(u)
    BY <1>0 DEF Resting
  <2> QED BY <1>2, <1>3, <2>1
<1> QED BY <1>1, <1>4, <1>5, Unseen

\* A start of the program gives everybody a new life.
LEMMA StartStep ==
    ASSUME Inv, Inv', Start
    PROVE  Turns!Restart
<1>1. /\ tcb' = [t \in Task |-> Fresh(t)] /\ phase' = "select"
  BY DEF Start
<1>2. \A t \in Task : tcb'[t].active /\ ~tcb'[t].started
  BY <1>1 DEF Fresh
<1>3. ActiveTasks' = Task
  BY <1>2 DEF ActiveTasks
<1>4. \A t \in Task : View(t)' = Unborn
  BY <1>2 DEF View
<1>5. Views' = [t \in Task |-> Unborn]
  BY <1>4 DEF Views
<1>6. Turn' = Nobody
  BY <1>2 DEF Turn
<1> QED BY <1>1, <1>3, <1>5, <1>6 DEF Turns!Restart, Views, ActiveTasks

-----------------------------------------------------------------------------
(* The theorems. *)

LEMMA Initially == Init => Inv
<1> SUFFICES ASSUME Init PROVE Inv
  OBVIOUS
<1>1. /\ a7 = [of |-> 0, depth |-> 0] /\ phase = "monitor" /\ starts = 0
      /\ \A t \in Task : /\ tcb[t].sp = [of |-> t, depth |-> 0] /\ ~tcb[t].active
                         /\ tcb[t].sp.of = t /\ tcb[t].sp.depth = 0
  BY DEF Init
<1>2. TypeOK
  BY SlotsNat, ValueFacts DEF Init, TypeOK, Task
<1>3. RunningShape
  BY <1>1 DEF RunningShape, InYield
<1>4. ParkedShape
  BY <1>1 DEF ParkedShape, Parked, Alive
<1>5. BlocksShape
  BY <1>1 DEF BlocksShape
<1>6. SchedulerShape
  <2>1. a7.depth <= MaxCalls + 3 + starts
    BY <1>1, SlotsNat
  <2> QED BY <1>1, <2>1 DEF SchedulerShape
<1> QED BY <1>2, <1>3, <1>4, <1>5, <1>6 DEF Inv

LEMMA Kept == Inv /\ [Next]_vars => Inv'
<1> SUFFICES ASSUME Inv, [Next]_vars PROVE Inv'
  OBVIOUS
<1>1. ASSUME NEW t \in Task, NEW v \in Version, Compute(t, v) PROVE Inv'
  BY <1>1, ComputeKept
<1>2. ASSUME NEW t \in Task, Call(t) \/ ReturnFromCall(t) \/ CallYield(t) \/ TaskExit(t) PROVE Inv'
  BY <1>2, CallKept, ReturnKept, CallYieldKept, TaskExitKept
<1>3. CASE Scheduler
  BY <1>3, PushD0Kept, PushA0Kept, SaveKept, SelectKept, DispatchKept, ResumeKept,
     ReturnFromYieldKept DEF Scheduler
<1>4. CASE UNCHANGED vars
  BY <1>4 DEF vars, Inv, TypeOK, RunningShape, ParkedShape, BlocksShape, SchedulerShape, Pushed,
              Calls, Alive, Parked, ParkedOn
<1> QED BY <1>1, <1>2, <1>3, <1>4, InterruptKept, StartKept DEF Next

LEMMA Always == Spec => []Inv
BY Initially, Kept, PTL DEF Spec

LEMMA TurnsInit == Init => Turns!Init
<1> SUFFICES ASSUME Init PROVE Turns!Init
  OBVIOUS
<1>1. phase = "monitor" /\ \A t \in Task : ~tcb[t].active /\ ~tcb[t].started
  BY DEF Init
<1>2. ActiveTasks = {}
  BY <1>1 DEF ActiveTasks
<1>3. Views = [t \in Task |-> Unborn]
  BY <1>1 DEF Views, View
<1>4. Turn = Nobody
  BY <1>1 DEF Turn
<1> QED BY <1>1, <1>2, <1>3, <1>4 DEF Turns!Init, Views, ActiveTasks

LEMMA TurnsNext == Inv /\ Inv' /\ [Next]_vars => [Turns!Next]_(Turns!vars)
<1> SUFFICES ASSUME Inv, Inv', [Next]_vars PROVE [Turns!Next]_(Turns!vars)
  OBVIOUS
<1>1. ASSUME NEW t \in Task,
             (\E v \in Version : Compute(t, v)) \/ Call(t) \/ ReturnFromCall(t)
      PROVE  Turns!Next
  <2>1. Turns!Work(t)
    BY <1>1, ComputeStep, CallStep, ReturnStep
  <2> QED BY <2>1 DEF Turns!Next
<1>2. ASSUME NEW t \in Task, CallYield(t) \/ TaskExit(t)
      PROVE  Turns!Next
  <2>1. Turns!Yield \/ Turns!End(t)
    BY <1>2, CallYieldStep, TaskExitStep
  <2> QED BY <2>1 DEF Turns!Next
<1>3. ASSUME PushD0 \/ PushA0 \/ Save \/ Resume \/ Interrupt
      PROVE  UNCHANGED Turns!vars
  BY <1>3, PushD0Step, PushA0Step, SaveStep, ResumeStep, InterruptStep
<1>4. ASSUME Dispatch \/ ReturnFromYield
      PROVE  Turns!Next
  BY <1>4, DispatchStep, ReturnFromYieldStep
<1>5. ASSUME Start
      PROVE  Turns!Next
  BY <1>5, StartStep DEF Turns!Next
<1>6. ASSUME UNCHANGED vars
      PROVE  UNCHANGED Turns!vars
  <2>1. UNCHANGED <<phase, regs, a7, stack, current, tcb>>
    BY <1>6 DEF vars
  <2>2. \A u \in Task : View(u)' = View(u)
    BY <2>1 DEF View, Saved, Processor, Longs, FromTop
  <2>3. Turn' = Turn
    BY <2>1 DEF Turn
  <2> QED BY <2>1, <2>2, <2>3, Unseen
<1> QED BY <1>1, <1>2, <1>3, <1>4, <1>5, <1>6, SelectStep DEF Next, Scheduler

\* Whenever the runtime takes a long for a return address, it is one, and a task
\* goes on there; registers, stacks and control blocks hold nothing but values.
THEOREM TypeCorrect == Spec => []TypeOK
<1>1. Inv => TypeOK
  BY DEF Inv
<1> QED BY <1>1, Always, PTL

\* The runtime implements RoundRobin: each task finds the registers and the stack
\* it left when it yielded, and the turn goes to the other task if there is one,
\* whatever the tasks, the interrupts and new starts of the program do meanwhile.
THEOREM TurnsAreTaken == Spec => TakesTurns
BY TurnsInit, TurnsNext, Always, PTL DEF Spec, TakesTurns, Turns!Spec

=============================================================================
