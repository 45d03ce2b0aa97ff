---------------------------- MODULE MachineProofs ----------------------------
(* Theorems about the machine of module Machine, for every stack size, every  *)
(* set of levels and every vector table: its types, the integrity of its      *)
(* stack under a supervisor guest, the nesting of levels, the refinement of   *)
(* nested activities, and for guests that change mode as they like, what      *)
(* becomes of the supervisor stack pointer and of raised levels.              *)
EXTENDS Machine, TLAPS

-----------------------------------------------------------------------------
(* What each operator of module Context does to the fields of a context. *)

\* syncSr copies the condition codes into SR and touches nothing else.
LEMMA SyncSrFacts ==
    ASSUME NEW k \in ContextType
    PROVE  /\ SyncSr(k) \in ContextType
           /\ SyncSr(k).a7 = k.a7 /\ SyncSr(k).usp = k.usp /\ SyncSr(k).ssp = k.ssp
           /\ SyncSr(k).pc = k.pc /\ SyncSr(k).sr.s = k.sr.s
           /\ SyncSr(k).sr.ipl = k.sr.ipl
           /\ SyncSr(SyncSr(k)) = SyncSr(k)
BY DEF SyncSr, ContextType, Sr

\* setCcr changes condition codes only.
LEMMA SetCcrFacts ==
    ASSUME NEW k \in ContextType, NEW ccr \in SUBSET Flags
    PROVE  /\ SetCcr(k, ccr) \in ContextType
           /\ SetCcr(k, ccr).a7 = k.a7
           /\ SetCcr(k, ccr).sr.s = k.sr.s /\ SetCcr(k, ccr).sr.ipl = k.sr.ipl
BY DEF SetCcr, ContextType, Sr

\* setSr loads SR and keeps a7 where S does not change.
LEMMA SetSrFacts ==
    ASSUME NEW k \in ContextType, NEW sr \in Sr
    PROVE  /\ SetSr(k, sr) \in ContextType
           /\ SetSr(k, sr).sr = sr
           /\ SetSr(k, sr).flags = sr.ccr
           /\ sr.s = k.sr.s => SetSr(k, sr).a7 = k.a7
BY DEF SetSr, ContextType, Sr

\* An exception opens its frame two slots below the supervisor stack pointer.
LEMMA ExceptionFacts ==
    ASSUME NEW k \in ContextType, NEW handler \in Pcs
    PROVE  /\ ExceptionOpen(k) \in ContextType
           /\ ExceptionEntry(k, handler) \in ContextType
           /\ ExceptionEntry(k, handler).a7 = ExceptionOpen(k).a7
           /\ ExceptionOpen(k).sr.s
           /\ ExceptionOpen(k).sr.ipl = k.sr.ipl
           /\ ExceptionEntry(k, handler).sr = ExceptionOpen(k).sr
           /\ k.sr.s => ExceptionOpen(k).a7 = k.a7 - 2
<1> DEFINE s == SyncSr(k)
           u == OnSupervisorStack(s)
<1>1. s \in ContextType /\ s.a7 = k.a7 /\ s.sr.s = k.sr.s /\ s.sr.ipl = k.sr.ipl
  BY SyncSrFacts
<1>2. u \in ContextType /\ u.sr = s.sr /\ (s.sr.s => u.a7 = s.a7)
  <2> HIDE DEF s
  <2> QED BY <1>1 DEF OnSupervisorStack, ContextType
<1> HIDE DEF u
<1>3. ExceptionOpen(k) = [u EXCEPT !.sr = [@ EXCEPT !.s = TRUE], !.a7 = @ - 2]
  BY DEF ExceptionOpen, u
<1>4. /\ ExceptionOpen(k) \in ContextType /\ ExceptionOpen(k).sr.s
      /\ ExceptionOpen(k).sr.ipl = u.sr.ipl /\ ExceptionOpen(k).a7 = u.a7 - 2
  <2> DEFINE sr == [u.sr EXCEPT !.s = TRUE]
  <2>1. sr \in Sr /\ sr.s = TRUE /\ sr.ipl = u.sr.ipl
    BY <1>2 DEF ContextType, Sr
  <2>2. ExceptionOpen(k) = [u EXCEPT !.sr = sr, !.a7 = @ - 2]
    BY <1>3
  <2> HIDE DEF s, sr
  <2>3. ExceptionOpen(k).sr = sr /\ ExceptionOpen(k).a7 = u.a7 - 2
    BY <1>2, <2>2 DEF ContextType
  <2>4. ExceptionOpen(k) = [u EXCEPT !.sr = sr, !.a7 = u.a7 - 2] /\ u.a7 - 2 \in Int
    BY <1>2, <2>2 DEF ContextType
  <2>5. ExceptionOpen(k) \in ContextType
    <3> DEFINE a == u.a7 - 2
    <3>1. a \in Int
      BY <2>4
    <3> HIDE DEF a
    <3>2. [u EXCEPT !.sr = sr, !.a7 = a] \in ContextType
      BY Zenon, <1>2, <2>1, <3>1 DEF ContextType
    <3> QED BY Zenon, <2>4, <3>2 DEF a
  <2> QED BY <2>1, <2>3, <2>5
<1>5. /\ ExceptionEntry(k, handler) \in ContextType
      /\ ExceptionEntry(k, handler).a7 = ExceptionOpen(k).a7
      /\ ExceptionEntry(k, handler).sr = ExceptionOpen(k).sr
  BY <1>4 DEF ExceptionEntry, ContextType
<1> QED BY <1>1, <1>2, <1>4, <1>5

\* Interrupt entry from supervisor mode: the frame lies two slots below a7.
LEMMA InterruptFacts ==
    ASSUME NEW k \in ContextType, NEW handler \in Pcs, NEW level \in Ipl
    PROVE  /\ InterruptOpen(k) \in ContextType
           /\ InterruptOpen(k).sr = SyncSr(k).sr
           /\ InterruptPushed(k, level) \in ContextType
           /\ InterruptPushed(k, level).sr.s
           /\ InterruptPushed(k, level).sr.ipl = level
           /\ InterruptEntry(k, level, handler) \in ContextType
           /\ InterruptEntry(k, level, handler).sr = InterruptPushed(k, level).sr
           /\ InterruptEntry(k, level, handler).a7 = InterruptPushed(k, level).a7
           /\ k.sr.s => /\ InterruptOpen(k).a7 = k.a7 - 2
                        /\ InterruptPushed(k, level).a7 = k.a7 - 2
<1> DEFINE s == SyncSr(k)
           u == OnSupervisorStack(s)
           o == InterruptOpen(k)
           sr == [s |-> TRUE, ipl |-> level, ccr |-> o.sr.ccr]
           p == [o EXCEPT !.ssp = o.a7]
<1>1. s \in ContextType /\ s.a7 = k.a7 /\ s.sr.s = k.sr.s
  BY SyncSrFacts
<1>2. u \in ContextType /\ u.sr = s.sr /\ (s.sr.s => u.a7 = s.a7)
  <2> HIDE DEF s
  <2> QED BY <1>1 DEF OnSupervisorStack, ContextType
<1>3. o = [u EXCEPT !.a7 = @ - 2]
  BY DEF InterruptOpen
<1> HIDE DEF s, u
<1>4. o \in ContextType /\ o.sr = s.sr /\ o.a7 = u.a7 - 2
  <2> HIDE DEF o
  <2> QED BY <1>2, <1>3 DEF ContextType
<1>5. /\ InterruptPushed(k, level) = SetSr(p, sr)
      /\ InterruptEntry(k, level, handler) = [SetSr(p, sr) EXCEPT !.pc = handler, !.halt = FALSE]
  BY DEF InterruptEntry, InterruptPushed
<1> HIDE DEF o
<1>6. p \in ContextType /\ sr \in Sr /\ p.a7 = o.a7 /\ p.sr = o.sr
  BY <1>4 DEF ContextType, Sr
<1> HIDE DEF p, sr
<1>7. /\ SetSr(p, sr) \in ContextType /\ SetSr(p, sr).sr = sr
      /\ (sr.s = p.sr.s => SetSr(p, sr).a7 = p.a7)
  BY <1>6, SetSrFacts
<1>8. /\ InterruptEntry(k, level, handler) \in ContextType
      /\ InterruptEntry(k, level, handler).sr = sr
      /\ InterruptEntry(k, level, handler).a7 = SetSr(p, sr).a7
  BY <1>5, <1>7 DEF ContextType
<1>9. sr.s = TRUE /\ sr.ipl = level
  BY DEF sr
<1>10. k.sr.s => sr.s = p.sr.s
  BY <1>1, <1>4, <1>6, <1>9 DEF ContextType, Sr
<1>11. /\ InterruptPushed(k, level).sr = sr
       /\ InterruptPushed(k, level).a7 = SetSr(p, sr).a7
       /\ InterruptPushed(k, level) \in ContextType
  BY <1>5, <1>7
<1>12. k.sr.s => SetSr(p, sr).a7 = k.a7 - 2 /\ o.a7 = k.a7 - 2
  BY <1>1, <1>2, <1>4, <1>6, <1>7, <1>10
<1> QED BY <1>4, <1>8, <1>9, <1>11, <1>12 DEF o, s

\* RTE within supervisor mode moves a7 past the frame.
LEMMA RteFacts ==
    ASSUME NEW k \in ContextType, NEW sr \in Sr, NEW pc \in Pcs
    PROVE  /\ RteReturn(k, sr, pc) \in ContextType
           /\ RteReturn(k, sr, pc).sr = sr
           /\ RteReturn(k, sr, pc).flags = sr.ccr
           /\ RteReturn(k, sr, pc).pc = pc
           /\ sr.s = k.sr.s => /\ ReturnSp(k, sr) = k.a7 + 1
                               /\ RteReturn(k, sr, pc).a7 = k.a7 + 2
<1>1. /\ SetSr(k, sr) \in ContextType /\ SetSr(k, sr).sr = sr
      /\ SetSr(k, sr).flags = sr.ccr
      /\ (sr.s = k.sr.s => SetSr(k, sr).a7 = k.a7)
  BY SetSrFacts
<1>2. ReturnSp(k, sr) = SetSr(k, sr).a7 + 1 /\ ReturnSp(k, sr) \in Int
  BY <1>1 DEF ReturnSp, ContextType
<1>3. RteReturn(k, sr, pc) = [SetSr(k, sr) EXCEPT !.a7 = ReturnSp(k, sr) + 1, !.pc = pc]
  BY DEF RteReturn
<1>4. /\ RteReturn(k, sr, pc) \in ContextType /\ RteReturn(k, sr, pc).sr = sr
      /\ RteReturn(k, sr, pc).flags = sr.ccr /\ RteReturn(k, sr, pc).pc = pc
      /\ RteReturn(k, sr, pc).a7 = ReturnSp(k, sr) + 1
  <2> DEFINE r == SetSr(k, sr)
             sp == ReturnSp(k, sr)
  <2> HIDE DEF r, sp
  <2>1. r \in ContextType /\ r.sr = sr /\ r.flags = sr.ccr /\ sp \in Int
    BY <1>1, <1>2 DEF r, sp
  <2>2. RteReturn(k, sr, pc) = [r EXCEPT !.a7 = sp + 1, !.pc = pc]
    BY <1>3 DEF r, sp
  <2>3. RteReturn(k, sr, pc) \in ContextType
    <3> DEFINE a == sp + 1
    <3>1. a \in Int
      BY <2>1
    <3> HIDE DEF a
    <3>2. [r EXCEPT !.a7 = a, !.pc = pc] \in ContextType
      BY Zenon, <2>1, <3>1 DEF ContextType
    <3> QED BY Zenon, <2>2, <3>2 DEF a
  <2>4. /\ RteReturn(k, sr, pc).sr = r.sr /\ RteReturn(k, sr, pc).flags = r.flags
        /\ RteReturn(k, sr, pc).pc = pc /\ RteReturn(k, sr, pc).a7 = sp + 1
    BY <2>1, <2>2 DEF ContextType
  <2> QED BY <2>1, <2>3, <2>4 DEF sp
<1> QED BY <1>1, <1>2, <1>4 DEF ContextType

\* A frame that fits keeps memory well typed and writes its two slots only.
LEMMA StoreFrameFacts ==
    ASSUME NEW m \in Memory, NEW sp \in Int, NEW sr \in Sr, NEW pc \in Pcs,
           FrameFits(sp)
    PROVE  /\ StoreFrame(m, sp, sr, pc) \in Memory
           /\ StoreFrame(m, sp, sr, pc)[sp] = sr
           /\ StoreFrame(m, sp, sr, pc)[sp + 1] = pc
           /\ \A a \in Slots : a >= sp + 2 => StoreFrame(m, sp, sr, pc)[a] = m[a]
BY DEF StoreFrame, FrameFits, Memory, Word, Slots

\* A frame that does not fit writes one slot at most.
LEMMA HalfFrameFacts ==
    ASSUME NEW m \in Memory, NEW sp \in Int, NEW sr \in Sr
    PROVE  /\ HalfFrame(m, sp, sr) \in Memory
           /\ \A a \in Slots : a > sp => HalfFrame(m, sp, sr)[a] = m[a]
BY DEF HalfFrame, Memory, Word, Slots

-----------------------------------------------------------------------------
(* Types. *)

\* The greatest of some levels is one of them.
LEMMA MaxOfLevels ==
    ASSUME NEW S \in SUBSET Levels, S # {}
    PROVE  Max(S) \in S
<1>1. S \subseteq 1 .. 7
  BY MachineAssumption
<1>2. \E x \in S : \A y \in S : x >= y
  <2>1. CASE 7 \in S
    BY <1>1, <2>1
  <2>2. CASE 7 \notin S /\ 6 \in S
    BY <1>1, <2>2
  <2>3. CASE 7 \notin S /\ 6 \notin S /\ 5 \in S
    BY <1>1, <2>3
  <2>4. CASE 7 \notin S /\ 6 \notin S /\ 5 \notin S /\ 4 \in S
    BY <1>1, <2>4
  <2>5. CASE 7 \notin S /\ 6 \notin S /\ 5 \notin S /\ 4 \notin S
    <3>1. S \subseteq 1 .. 3
      BY <1>1, <2>5
    <3>2. CASE 3 \in S
      BY <3>1, <3>2
    <3>3. CASE 3 \notin S /\ 2 \in S
      BY <3>1, <3>3
    <3>4. CASE 3 \notin S /\ 2 \notin S
      <4>1. \A y \in S : y = 1
        BY <3>1, <3>4
      <4> QED BY <4>1
    <3> QED BY <3>2, <3>3, <3>4
  <2> QED BY <2>1, <2>2, <2>3, <2>4, <2>5
<1> QED BY <1>2 DEF Max

\* What pollInterrupts finds is a level, or 0.
LEMMA HighestPendingFacts ==
    ASSUME TypeOK
    PROVE  /\ HighestPending \in Levels \cup {0}
           /\ HighestPending \in 0 .. 7
<1> DEFINE S == pending \cap mask
<1>1. S \in SUBSET Levels
  BY DEF TypeOK
<1>2. CASE S = {}
  BY <1>2 DEF HighestPending
<1>3. CASE S # {}
  <2>1. HighestPending = Max(S)
    BY <1>3, Zenon DEF HighestPending
  <2>2. Max(S) \in S
    BY <1>1, <1>3, MaxOfLevels
  <2>3. HighestPending \in Levels /\ Levels \subseteq 1 .. 7
    BY <1>1, <2>1, <2>2, MachineAssumption
  <2> HIDE DEF S
  <2> QED BY <2>3
<1> QED BY <1>2, <1>3

\* Every vector table that can be read holds code addresses.
LEMMA VectorFacts ==
    ASSUME TypeOK
    PROVE  /\ \A vector \in Traps : TrapHandler(vector) \in Pcs
           /\ VectorReadable => \A level \in Levels : InterruptHandler(level) \in Pcs
           /\ VectorTables[AtZero][1] \in Pcs
BY MachineAssumption
   DEF TypeOK, ContextType, Bases, TrapHandler, InterruptHandler, VectorReadable, AtZero,
       VectorNumbers

\* A suspended activity is a frame.
LEMMA SuspendedFacts ==
    ASSUME TypeOK, NEW level \in Levels \cup {0}, NEW pc \in Pcs, NEW sp \in Int
    PROVE  /\ Suspended(level, pc, sp) \in Frame
           /\ Suspended(level, pc, sp).at = sp
           /\ Suspended(level, pc, sp).level = level
           /\ Suspended(level, pc, sp).act = [CurrentActivity EXCEPT !.pc = pc]
           /\ [CurrentActivity EXCEPT !.pc = pc]
                = [pc |-> pc, sr |-> SyncSr(c).sr, sp |-> c.a7,
                   stack |-> StackFrom(mem, c.a7)]
<1>1. SyncSr(c).sr \in Sr /\ c.a7 \in Int /\ c.pc \in Pcs
  BY SyncSrFacts DEF TypeOK, ContextType
<1>2. StackFrom(mem, c.a7) \in Memory
  BY DEF TypeOK, StackFrom, Memory, Word
<1> QED BY <1>1, <1>2 DEF Suspended, CurrentActivity, Frame, Activity

\* The contexts from which an instruction may start.
LEMMA StartFacts ==
    ASSUME TypeOK, NEW k \in {c, SyncSr(c)}
    PROVE  /\ k \in ContextType
           /\ k.a7 = c.a7 /\ k.sr.s = c.sr.s /\ k.sr.ipl = c.sr.ipl
           /\ SyncSr(k).sr = SyncSr(c).sr
BY SyncSrFacts DEF TypeOK

\* An instruction that faults leaves everything well typed.
LEMMA FaultsType ==
    ASSUME TypeOK, NEW k \in ContextType, NEW m \in Memory, Faults(k, m)
    PROVE  TypeOK'
<1>1. PICK pc \in Pcs : c' = [k EXCEPT !.halt = TRUE, !.pc = pc]
  BY DEF Faults
<1>2. [k EXCEPT !.halt = TRUE, !.pc = pc] \in ContextType
  BY Zenon DEF ContextType
<1> QED BY <1>1, <1>2 DEF Faults, intc, TypeOK

\* So does one that traps.
LEMMA TrapType ==
    ASSUME TypeOK, NEW k \in {c, SyncSr(c)}, NEW vector \in Traps, NEW pc \in Pcs,
           Trap(k, vector, pc)
    PROVE  TypeOK'
<1> DEFINE sp == ExceptionOpen(k).a7
<1>1. k \in ContextType /\ SyncSr(k).sr \in Sr
  BY StartFacts, SyncSrFacts DEF ContextType
<1>2. /\ ExceptionOpen(k) \in ContextType /\ sp \in Int
      /\ ExceptionEntry(k, TrapHandler(vector)) \in ContextType
  BY <1>1, ExceptionFacts, VectorFacts DEF ContextType
<1>3. CASE FrameFits(sp)
  <2>1. /\ c' = ExceptionEntry(k, TrapHandler(vector))
        /\ mem' = StoreFrame(mem, sp, SyncSr(k).sr, pc)
        /\ frames' = <<Suspended(0, pc, sp)>> \o frames
        /\ at' = "advance" /\ UNCHANGED <<overlay, intc>>
    BY <1>3, Zenon DEF Trap, Suspend, EndsBlock
  <2>2. StoreFrame(mem, sp, SyncSr(k).sr, pc) \in Memory
    BY <1>1, <1>2, <1>3, StoreFrameFacts DEF TypeOK
  <2>3. Suspended(0, pc, sp) \in Frame
    BY <1>2, SuspendedFacts
  <2> HIDE DEF sp
  <2> QED BY <1>2, <2>1, <2>2, <2>3 DEF TypeOK, intc
<1>4. CASE ~FrameFits(sp)
  <2>1. Faults(ExceptionOpen(k), HalfFrame(mem, sp, SyncSr(k).sr))
    BY <1>4, Zenon DEF Trap
  <2>2. HalfFrame(mem, sp, SyncSr(k).sr) \in Memory
    BY <1>1, <1>2, HalfFrameFacts DEF TypeOK
  <2> QED BY <1>2, <2>1, <2>2, FaultsType
<1> QED BY <1>3, <1>4

\* So do the instructions.
LEMMA ExecuteType ==
    ASSUME TypeOK, Execute
    PROVE  TypeOK'
<1>1. PICK k \in {c, SyncSr(c)} :
           \/ Compute(k) \/ MoveToCcr(k) \/ Jsr(k) \/ Rts(k)
           \/ MoveToSr(k) \/ Rte(k) \/ RteFails(k) \/ Stop(k) \/ MoveToVbr(k) \/ MoveToUsp(k)
           \/ PrivilegeViolation(k) \/ TrapInstruction(k) \/ TrapThenContinue(k)
           \/ MonitorTrap(k) \/ IntcStore(k) \/ Faults(k, mem)
  BY DEF Execute
<1>2. k \in ContextType /\ k.a7 \in Int /\ k.pc \in Pcs
  BY StartFacts DEF ContextType
<1>3. GuestSr \subseteq Sr /\ GuestBases \subseteq Bases
  BY MachineAssumption
<1>4. CASE Compute(k)
  <2>1. PICK pc \in Pcs, flags \in SUBSET Flags : c' = [k EXCEPT !.pc = pc, !.flags = flags]
    BY <1>4 DEF Compute
  <2>2. [k EXCEPT !.pc = pc, !.flags = flags] \in ContextType
    BY Zenon, <1>2 DEF ContextType
  <2> QED BY <1>4, <2>1, <2>2 DEF Compute, MayContinue, TypeOK, intc
<1>5. CASE MoveToCcr(k)
  <2>1. PICK pc \in Pcs, ccr \in SUBSET Flags : c' = [SetCcr(k, ccr) EXCEPT !.pc = pc]
    BY <1>5 DEF MoveToCcr
  <2>2. SetCcr(k, ccr) \in ContextType
    BY <1>2, SetCcrFacts
  <2>3. [SetCcr(k, ccr) EXCEPT !.pc = pc] \in ContextType
    BY Zenon, <2>2 DEF ContextType
  <2> QED BY <1>5, <2>1, <2>3 DEF MoveToCcr, MayContinue, TypeOK, intc
<1>6. CASE Jsr(k)
  <2> DEFINE sp == k.a7 - 1
  <2>1. sp \in Int
    BY <1>2
  <2>2. CASE sp \in Slots
    <3>1. PICK pc \in Pcs, return \in Pcs :
              c' = [k EXCEPT !.a7 = sp, !.pc = pc] /\ mem' = [mem EXCEPT ![sp] = return]
      BY <1>6, <2>2 DEF Jsr
    <3>2. UNCHANGED <<overlay, pending, mask, frames>> /\ at' = "advance"
      BY <1>6, <2>2 DEF Jsr, EndsBlock, intc
    <3> HIDE DEF sp
    <3>3. [k EXCEPT !.a7 = sp, !.pc = pc] \in ContextType
      BY Zenon, <1>2, <2>1 DEF ContextType
    <3>4. mem' \in Memory
      BY <3>1 DEF TypeOK, Memory, Word
    <3> QED BY <3>1, <3>2, <3>3, <3>4 DEF TypeOK
  <2>3. CASE sp \notin Slots
    <3>1. Faults([k EXCEPT !.a7 = sp], mem)
      BY <1>6, <2>3 DEF Jsr
    <3> HIDE DEF sp
    <3>2. [k EXCEPT !.a7 = sp] \in ContextType /\ mem \in Memory
      BY Zenon, <1>2, <2>1 DEF ContextType, TypeOK
    <3> QED BY <3>1, <3>2, FaultsType
  <2> QED BY <2>2, <2>3
<1>7. CASE Rts(k)
  <2> DEFINE sp == k.a7 + 1
  <2>1. PICK pc \in AsPc(Load(mem, k.a7)) \cup Pcs :
            c' = [k EXCEPT !.a7 = sp, !.pc = pc]
    BY <1>7, Zenon DEF Rts
  <2>2. sp \in Int /\ pc \in Pcs
    BY <1>2 DEF AsPc
  <2> HIDE DEF sp
  <2>3. [k EXCEPT !.a7 = sp, !.pc = pc] \in ContextType
    BY Zenon, <1>2, <2>2 DEF ContextType
  <2> QED BY <1>7, <2>1, <2>3 DEF Rts, EndsBlock, TypeOK, intc
<1>8. CASE MoveToSr(k)
  <2>1. PICK pc \in Pcs, sr \in GuestSr : c' = [SetSr(k, sr) EXCEPT !.pc = pc]
    BY <1>8 DEF MoveToSr
  <2>2. SetSr(k, sr) \in ContextType
    BY <1>2, <1>3, SetSrFacts
  <2>3. [SetSr(k, sr) EXCEPT !.pc = pc] \in ContextType
    BY Zenon, <2>2 DEF ContextType
  <2> QED BY <1>8, <2>1, <2>3 DEF MoveToSr, MayContinue, TypeOK, intc
<1>9. CASE Rte(k)
  <2>1. PICK sr \in AsSr(Load(mem, k.a7)) :
            \E pc \in AsPc(Load(mem, ReturnSp(k, sr))) : c' = RteReturn(k, sr, pc)
    BY <1>9 DEF Rte
  <2>2. PICK pc \in AsPc(Load(mem, ReturnSp(k, sr))) : c' = RteReturn(k, sr, pc)
    BY <2>1
  <2>3. sr \in Sr /\ pc \in Pcs
    BY DEF AsSr, AsPc
  <2>4. c' \in ContextType
    BY <1>2, <2>2, <2>3, RteFacts
  <2>5. frames' \in Seq(Frame)
    BY <1>9 DEF Rte, TypeOK
  <2> QED BY <1>9, <2>4, <2>5 DEF Rte, EndsBlock, TypeOK, intc
<1>10. CASE Stop(k)
  <2>1. PICK pc \in Pcs, sr \in GuestSr :
            c' = [SetSr(k, sr) EXCEPT !.pc = pc, !.halt = TRUE]
    BY <1>10 DEF Stop
  <2>2. SetSr(k, sr) \in ContextType
    BY <1>2, <1>3, SetSrFacts
  <2>3. [SetSr(k, sr) EXCEPT !.pc = pc, !.halt = TRUE] \in ContextType
    BY Zenon, <2>2 DEF ContextType
  <2> QED BY <1>10, <2>1, <2>3 DEF Stop, EndsBlock, TypeOK, intc
<1>11. CASE MoveToVbr(k)
  <2>1. PICK pc \in Pcs, base \in GuestBases : c' = [k EXCEPT !.pc = pc, !.vbr = base]
    BY <1>11 DEF MoveToVbr
  <2>2. [k EXCEPT !.pc = pc, !.vbr = base] \in ContextType
    BY Zenon, <1>2, <1>3 DEF ContextType
  <2> QED BY <1>11, <2>1, <2>2 DEF MoveToVbr, EndsBlock, TypeOK, intc
<1>12. CASE MoveToUsp(k)
  <2>1. PICK pc \in Pcs : c' = [k EXCEPT !.pc = pc, !.usp = MemTop]
    BY <1>12 DEF MoveToUsp
  <2>2. MemTop \in Int
    BY StackAssumption
  <2>3. [k EXCEPT !.pc = pc, !.usp = MemTop] \in ContextType
    BY Zenon, <1>2, <2>2 DEF ContextType
  <2> QED BY <1>12, <2>1, <2>3 DEF MoveToUsp, MayContinue, TypeOK, intc
<1>13. CASE PrivilegeViolation(k)
  BY <1>2, <1>13, TrapType, MachineAssumption DEF PrivilegeViolation
<1>14. CASE TrapInstruction(k)
  BY <1>14, TrapType DEF TrapInstruction
<1>15. CASE TrapThenContinue(k)
  <2> DEFINE sp == ExceptionOpen(k).a7
  <2>1. ExceptionOpen(k) \in ContextType /\ sp \in Int /\ SyncSr(k).sr \in Sr
    BY <1>2, ExceptionFacts, SyncSrFacts DEF ContextType
  <2>2. CASE FrameFits(sp)
    <3>1. PICK pc \in Pcs : c' = ExceptionEntry(k, pc)
      BY <1>15, <2>2 DEF TrapThenContinue
    <3>2. c' \in ContextType
      BY <1>2, <3>1, ExceptionFacts
    <3>3. StoreFrame(mem, sp, SyncSr(k).sr, k.pc) \in Memory
      BY <1>2, <2>1, <2>2, StoreFrameFacts DEF TypeOK
    <3> QED BY <1>15, <2>2, <3>2, <3>3 DEF TrapThenContinue, EndsBlock, TypeOK, intc
  <2>3. CASE ~FrameFits(sp)
    <3>1. Faults(ExceptionOpen(k), HalfFrame(mem, sp, SyncSr(k).sr))
      BY <1>15, <2>3, Zenon DEF TrapThenContinue
    <3>2. HalfFrame(mem, sp, SyncSr(k).sr) \in Memory
      BY <2>1, HalfFrameFacts DEF TypeOK
    <3> QED BY <2>1, <3>1, <3>2, FaultsType
  <2> QED BY <2>2, <2>3
<1>16. CASE MonitorTrap(k)
  <2>1. PICK pc \in Pcs : c' = [k EXCEPT !.pc = pc, !.halt = TRUE]
    BY <1>16 DEF MonitorTrap
  <2>2. [k EXCEPT !.pc = pc, !.halt = TRUE] \in ContextType
    BY Zenon, <1>2 DEF ContextType
  <2> QED BY <1>16, <2>1, <2>2 DEF MonitorTrap, EndsBlock, TypeOK, intc
<1>17. CASE IntcStore(k)
  <2>1. PICK pc \in Pcs : c' = [k EXCEPT !.pc = pc]
    BY <1>17 DEF IntcStore
  <2>2. [k EXCEPT !.pc = pc] \in ContextType
    BY Zenon, <1>2 DEF ContextType
  <2>3. pending' \in SUBSET Levels /\ mask' \in SUBSET Levels
    BY <1>17, MachineAssumption DEF IntcStore, Acknowledge, TypeOK
  <2> QED BY <1>17, <2>1, <2>2, <2>3 DEF IntcStore, MayContinue, TypeOK
<1>18. CASE Faults(k, mem)
  BY <1>2, <1>18, FaultsType DEF TypeOK
<1>19. CASE RteFails(k)
  <2> DEFINE r(sr) == SetSr(k, sr)
             f(sr) == [r(sr) EXCEPT !.a7 = ReturnSp(k, sr)]
  <2>1. PICK sr \in AsSr(Load(mem, k.a7)) : Faults(f(sr), mem)
    BY <1>19 DEF RteFails
  <2>2. r(sr) \in ContextType /\ ReturnSp(k, sr) \in Int
    BY <1>2, SetSrFacts DEF AsSr, ReturnSp, ContextType
  <2> DEFINE d == r(sr)
             a == ReturnSp(k, sr)
  <2>3. d \in ContextType /\ a \in Int /\ Faults([d EXCEPT !.a7 = a], mem)
    BY <2>1, <2>2
  <2> HIDE DEF r, f, d, a
  <2>4. [d EXCEPT !.a7 = a] \in ContextType
    BY Zenon, <2>3 DEF ContextType
  <2> QED BY <2>3, <2>4, FaultsType DEF TypeOK
<1> QED BY <1>1, <1>4, <1>5, <1>6, <1>7, <1>8, <1>9, <1>10, <1>11, <1>12, <1>13,
           <1>14, <1>15, <1>16, <1>17, <1>18, <1>19

\* A reset leaves a supervisor context at the top of its stack.
LEMMA ResetFacts ==
    ASSUME NEW k \in ContextType, VectorTables[AtZero][1] \in Pcs
    PROVE  /\ ResetContext(k) \in ContextType
           /\ ResetContext(k).sr = [s |-> TRUE, ipl |-> 7, ccr |-> {}]
           /\ ResetContext(k).a7 = SspTop
<1> DEFINE sr == [s |-> TRUE, ipl |-> 7, ccr |-> {}]
           r == SetSr(k, sr)
           pc == VectorTables[AtZero][1]
<1>1. sr \in Sr
  BY DEF Sr, Ipl
<1>2. ResetContext(k) = [r EXCEPT !.vbr = "zero", !.halt = FALSE, !.a7 = SspTop,
                                  !.ssp = SspTop, !.pc = pc]
  BY DEF ResetContext
<1> HIDE DEF sr
<1>3. r \in ContextType /\ r.sr = sr
  BY <1>1, SetSrFacts
<1>4. SspTop \in Int /\ "zero" \in Bases /\ FALSE \in BOOLEAN
  BY StackAssumption DEF Bases
<1> HIDE DEF r, pc
<1>5. [r EXCEPT !.vbr = "zero", !.halt = FALSE, !.a7 = SspTop,
                !.ssp = SspTop, !.pc = pc] \in ContextType
  BY Zenon, <1>3, <1>4 DEF ContextType, pc
<1>6. ResetContext(k).sr = sr /\ ResetContext(k).a7 = SspTop
  BY <1>2, <1>3 DEF ContextType
<1> QED BY <1>2, <1>5, <1>6 DEF sr

\* The machine starts well typed.
LEMMA InitType == Init => TypeOK
<1> SUFFICES ASSUME Init PROVE TypeOK
  OBVIOUS
<1>1. VectorTables["rom"][1] \in Pcs /\ AtZero = "rom"
  BY MachineAssumption DEF Init, AtZero, VectorNumbers
<1>2. Constructed \in ContextType
  BY <1>1, StackAssumption DEF Constructed, ContextType, Sr, Ipl, Bases
<1>3. c \in ContextType
  BY <1>1, <1>2, ResetFacts DEF Init
<1> QED BY <1>3 DEF Init, TypeOK, Memory, Word, AllEnabled

\* The other parts of the run loop keep everything well typed.
LEMMA AcceptType ==
    ASSUME TypeOK, NEW level \in Levels, Accept(level)
    PROVE  TypeOK'
<1> DEFINE sp == InterruptOpen(c).a7
<1>1. c \in ContextType /\ c.pc \in Pcs /\ SyncSr(c).sr \in Sr /\ level \in Ipl
  BY SyncSrFacts, MachineAssumption DEF TypeOK, ContextType, Ipl
<1>2. /\ InterruptOpen(c) \in ContextType /\ sp \in Int
      /\ InterruptPushed(c, level) \in ContextType
      /\ \A h \in Pcs : InterruptEntry(c, level, h) \in ContextType
  BY <1>1, InterruptFacts DEF ContextType
<1>3. CASE AcceptInterrupt(level)
  <2>1. /\ FrameFits(sp) /\ mem' = StoreFrame(mem, sp, SyncSr(c).sr, c.pc)
        /\ c' = InterruptEntry(c, level, InterruptHandler(level))
        /\ frames' = <<Suspended(level, c.pc, sp)>> \o frames
        /\ pending' = pending \ {level} /\ at' = "execute" /\ UNCHANGED <<overlay, mask>>
        /\ VectorReadable
    BY <1>3 DEF AcceptInterrupt, Acknowledge, Suspend
  <2>2. mem' \in Memory
    BY <1>1, <1>2, <2>1, StoreFrameFacts DEF TypeOK
  <2>3. Suspended(level, c.pc, sp) \in Frame
    BY <1>1, <1>2, SuspendedFacts
  <2>4. c' \in ContextType
    BY <1>2, <2>1, VectorFacts
  <2> HIDE DEF sp
  <2> QED BY <2>1, <2>2, <2>3, <2>4 DEF TypeOK
<1>4. CASE AcceptFails(level)
  <2>1. HalfFrame(mem, sp, SyncSr(c).sr) \in Memory
    BY <1>1, <1>2, HalfFrameFacts DEF TypeOK
  <2> QED BY <1>2, <1>4, <2>1 DEF AcceptFails, TypeOK, intc
<1>5. CASE VectorFails(level)
  <2>1. FrameFits(sp) /\ mem' = StoreFrame(mem, sp, SyncSr(c).sr, c.pc)
    BY <1>5 DEF VectorFails
  <2>2. mem' \in Memory
    BY <1>1, <1>2, <2>1, StoreFrameFacts DEF TypeOK
  <2> QED BY <1>2, <1>5, <2>2 DEF VectorFails, TypeOK, intc
<1> QED BY <1>3, <1>4, <1>5 DEF Accept

\* Every step keeps the machine well typed.
LEMMA NextType == TypeOK /\ [Next]_vars => TypeOK'
<1> SUFFICES ASSUME TypeOK, [Next]_vars PROVE TypeOK'
  OBVIOUS
<1>1. CASE PollInterrupts
  <2>1. CASE HighestPending > c.sr.ipl
    <3>1. HighestPending \in Levels
      BY <2>1, HighestPendingFacts DEF TypeOK, ContextType, Sr, Ipl
    <3> QED BY <1>1, <2>1, <3>1, AcceptType DEF PollInterrupts
  <2>2. CASE ~(HighestPending > c.sr.ipl)
    BY <1>1, <2>2 DEF PollInterrupts, TypeOK, intc
  <2> QED BY <2>1, <2>2
<1>2. CASE Execute
  BY <1>2, ExecuteType
<1>3. CASE AdvanceDevices
  BY <1>3 DEF AdvanceDevices, Raise, TypeOK
<1>4. CASE AdvanceRealTime
  BY <1>4 DEF AdvanceRealTime, Raise, TypeOK
<1>5. CASE SetOverlay
  BY <1>5, MachineAssumption DEF SetOverlay, TypeOK, intc
<1>6. CASE Reset
  BY <1>6, ResetFacts, VectorFacts DEF Reset, TypeOK, AllEnabled
<1>7. CASE MonitorSets
  <2>1. PICK pc \in Pcs, halt \in BOOLEAN : c' = [c EXCEPT !.pc = pc, !.halt = halt]
    BY <1>7 DEF MonitorSets
  <2>2. [c EXCEPT !.pc = pc, !.halt = halt] \in ContextType
    BY Zenon DEF TypeOK, ContextType
  <2> QED BY <1>7, <2>1, <2>2 DEF MonitorSets, TypeOK, intc
<1>8. CASE ErrorCaught
  BY <1>8 DEF ErrorCaught, TypeOK, intc
<1>9. CASE UNCHANGED vars
  BY <1>9 DEF vars, TypeOK
<1> QED BY <1>1, <1>2, <1>3, <1>4, <1>5, <1>6, <1>7, <1>8, <1>9 DEF Next

\* Every reachable state of the machine is well typed.
THEOREM TypeCorrect == Spec => []TypeOK
BY InitType, NextType, PTL DEF Spec

-----------------------------------------------------------------------------
(* The stack of a supervisor guest. *)

\* A frame lies in the slots under the stack of the activity it holds.
LEMMA FrameFacts ==
    ASSUME TypeOK, StackInvariant, NEW i \in 1 .. Len(frames)
    PROVE  /\ frames[i] \in Frame /\ frames[i].at \in Int /\ frames[i].act \in Activity
           /\ frames[i].act.sp = frames[i].at + 2
           /\ frames[i].at + 2 <= SspTop
           /\ c.a7 <= frames[i].at
           /\ frames[1].at <= frames[i].at
           /\ FrameFits(frames[i].at)
           /\ mem[frames[i].at] = frames[i].act.sr
           /\ mem[frames[i].at + 1] = frames[i].act.pc
           /\ frames[i].act.stack = StackFrom(mem, frames[i].act.sp)
<1>1. /\ frames[i] \in Frame /\ frames[1] \in Frame /\ frames # <<>>
      /\ 1 \in 1 .. Len(frames)
  BY DEF TypeOK
<1>2. /\ frames[i].at \in Int /\ frames[1].at \in Int /\ frames[i].act \in Activity
      /\ c.a7 \in Int
  BY <1>1 DEF Frame, TypeOK, ContextType
<1>3. /\ FrameFits(frames[i].at)
      /\ frames[i].act.sp = frames[i].at + 2 /\ frames[1].act.sp = frames[1].at + 2
      /\ mem[frames[i].at] = frames[i].act.sr
      /\ mem[frames[i].at + 1] = frames[i].act.pc
      /\ frames[i].act.stack = StackFrom(mem, frames[i].act.sp)
  BY <1>1 DEF StackInvariant, FramesIntact
<1>4. /\ c.a7 <= frames[1].at /\ frames[i].act.sp <= SspTop
      /\ 1 < i => frames[1].act.sp <= frames[i].at
  BY <1>1 DEF StackInvariant, FramesStacked
<1>5. frames[1].at <= frames[i].at
  BY <1>2, <1>3, <1>4
<1> QED BY <1>1, <1>2, <1>3, <1>4, <1>5, StackAssumption

\* Memory that agrees from a slot on holds the same stack from there.
LEMMA StackFromFacts ==
    ASSUME NEW m \in Memory, NEW n \in Memory, NEW sp \in Int,
           \A a \in Slots : a >= sp => n[a] = m[a]
    PROVE  StackFrom(n, sp) = StackFrom(m, sp)
BY DEF StackFrom

\* The bottom of the words the guest may pop.
LEMMA StackBaseFacts ==
    ASSUME TypeOK, StackInvariant
    PROVE  /\ StackBase \in Int /\ StackBase <= SspTop /\ c.a7 <= StackBase
           /\ frames # <<>> => StackBase = frames[1].at
<1>1. CASE frames = <<>>
  BY <1>1, StackAssumption DEF StackBase, StackInvariant, AllSupervisor, FramesStacked
<1>2. CASE frames # <<>>
  <2>1. 1 \in 1 .. Len(frames)
    BY <1>2 DEF TypeOK
  <2>2. StackBase = frames[1].at
    BY <1>2 DEF StackBase, StackInvariant, AllSupervisor
  <2> QED BY <1>2, <2>1, <2>2, FrameFacts, StackAssumption
<1> QED BY <1>1, <1>2

\* A step that suspends and resumes nothing, keeps to its own part of the stack
\* and stays in supervisor mode.
StaysOnStack ==
    /\ frames' = frames
    /\ c'.sr.s
    /\ c'.a7 <= StackBase
    /\ \A a \in Slots : a >= c.a7 => mem'[a] = mem[a]
    /\ frames = <<>> \/ HandlersUnmask \/ c'.sr.ipl >= c.sr.ipl

\* It preserves the stack invariant.
LEMMA StackStays ==
    ASSUME TypeOK, TypeOK', StackInvariant, StaysOnStack
    PROVE  StackInvariant'
<1>1. AllSupervisor'
  BY DEF AllSupervisor, StackInvariant, StaysOnStack
<1>2. FramesStacked'
  <2>1. c'.a7 \in Int /\ c'.a7 <= SspTop /\ (frames # <<>> => c'.a7 <= frames[1].at)
    BY StackBaseFacts, StackAssumption DEF StaysOnStack, TypeOK, ContextType
  <2> QED BY <2>1 DEF FramesStacked, StackInvariant, StaysOnStack
<1>3. FramesIntact'
  <2> SUFFICES ASSUME NEW i \in 1 .. Len(frames)
               PROVE  /\ FrameFits(frames[i].at)
                      /\ frames[i].act.sp = frames[i].at + 2
                      /\ mem'[frames[i].at] = frames[i].act.sr
                      /\ mem'[frames[i].at + 1] = frames[i].act.pc
                      /\ frames[i].act.stack = StackFrom(mem', frames[i].act.sp)
    BY Zenon DEF FramesIntact, StaysOnStack
  <2> DEFINE a == frames[i].at
  <2>1. /\ c.a7 \in Int /\ a \in Int /\ c.a7 <= a /\ FrameFits(a)
        /\ frames[i].act.sp = a + 2
    BY FrameFacts DEF TypeOK, ContextType
  <2> HIDE DEF a
  <2>2. mem'[a] = mem[a] /\ mem'[a + 1] = mem[a + 1]
    BY <2>1 DEF StaysOnStack, FrameFits, Slots
  <2>3. \A b \in Slots : b >= a + 2 => mem'[b] = mem[b]
    BY <2>1 DEF StaysOnStack, Slots
  <2>4. StackFrom(mem', a + 2) = StackFrom(mem, a + 2)
    BY <2>1, <2>3, StackFromFacts DEF TypeOK
  <2> QED BY <2>1, <2>2, <2>4, FrameFacts DEF a
<1> QED BY <1>1, <1>2, <1>3 DEF StackInvariant

\* A step that suspends the current activity under its stack.
SuspendsUnderStack(level, pc) ==
    /\ FrameFits(c.a7 - 2)
    /\ mem' = StoreFrame(mem, c.a7 - 2, SyncSr(c).sr, pc)
    /\ frames' = <<Suspended(level, pc, c.a7 - 2)>> \o frames
    /\ c'.sr.s
    /\ c'.a7 = c.a7 - 2
    /\ IF level = 0 THEN c'.sr.ipl = c.sr.ipl ELSE c.sr.ipl < level /\ c'.sr.ipl = level

\* It preserves the stack invariant.
LEMMA StackPushed ==
    ASSUME TypeOK, TypeOK', StackInvariant, NEW level \in Levels \cup {0}, NEW pc \in Pcs,
           SuspendsUnderStack(level, pc)
    PROVE  StackInvariant'
<1> DEFINE sp == c.a7 - 2
           f == Suspended(level, pc, sp)
<1>1. c.a7 \in Int /\ sp \in Int /\ c.a7 = sp + 2 /\ SyncSr(c).sr \in Sr
  BY SyncSrFacts DEF TypeOK, ContextType
<1>2. /\ f.at = sp
      /\ f.act = [pc |-> pc, sr |-> SyncSr(c).sr, sp |-> c.a7, stack |-> StackFrom(mem, c.a7)]
  <2> HIDE DEF sp
  <2>1. f.at = sp
    BY DEF Suspended
  <2>2. f.act = [CurrentActivity EXCEPT !.pc = pc]
    BY DEF Suspended
  <2>3. [CurrentActivity EXCEPT !.pc = pc]
          = [pc |-> pc, sr |-> SyncSr(c).sr, sp |-> c.a7, stack |-> StackFrom(mem, c.a7)]
    BY DEF CurrentActivity
  <2> QED BY <2>1, <2>2, <2>3, Zenon
<1>3. f.act.pc = pc /\ f.act.sr = SyncSr(c).sr /\ f.act.sp = c.a7
      /\ f.act.stack = StackFrom(mem, c.a7)
  BY <1>2
<1>4. /\ mem'[sp] = SyncSr(c).sr /\ mem'[sp + 1] = pc
      /\ \A a \in Slots : a >= c.a7 => mem'[a] = mem[a]
  BY <1>1, StoreFrameFacts DEF SuspendsUnderStack, TypeOK
<1>5. FrameFits(sp) /\ frames' = <<f>> \o frames /\ c'.a7 = sp
  BY DEF SuspendsUnderStack
<1> HIDE DEF f, sp
<1>6. /\ Len(frames') = Len(frames) + 1 /\ frames'[1] = f
      /\ \A i \in 1 .. Len(frames') : i # 1 => i - 1 \in 1 .. Len(frames) /\ frames'[i] = frames[i - 1]
  BY <1>2, <1>5 DEF TypeOK
<1>7. AllSupervisor'
  <2>1. SyncSr(c).sr.s
    BY SyncSrFacts DEF TypeOK, StackInvariant, AllSupervisor
  <2>2. c'.sr.s
    BY DEF SuspendsUnderStack
  <2> QED BY <1>3, <1>6, <2>1, <2>2 DEF AllSupervisor, StackInvariant
<1>8. FramesStacked'
  <2>1. c'.a7 <= SspTop /\ c.a7 <= SspTop
    BY <1>1, <1>5, StackAssumption DEF StackInvariant, FramesStacked
  <2>2. c'.a7 <= frames'[1].at
    BY <1>1, <1>2, <1>5, <1>6
  <2>3. ASSUME NEW i \in 1 .. Len(frames')
        PROVE  frames'[i].act.sp <= SspTop
    BY <1>3, <1>6, <2>1 DEF StackInvariant, FramesStacked
  <2>4. ASSUME NEW i \in 1 .. Len(frames'), NEW j \in 1 .. Len(frames'), i < j
        PROVE  frames'[i].act.sp <= frames'[j].at
    <3>1. frames'[j] = frames[j - 1] /\ j - 1 \in 1 .. Len(frames)
      BY <1>6, <2>4
    <3>2. CASE i = 1
      BY <1>3, <1>6, <3>1, <3>2, FrameFacts
    <3>3. CASE i # 1
      <4>1. frames'[i] = frames[i - 1] /\ i - 1 \in 1 .. Len(frames) /\ i - 1 < j - 1
        BY <1>6, <2>4, <3>3
      <4> QED BY <3>1, <4>1 DEF StackInvariant, FramesStacked
    <3> QED BY <3>2, <3>3
  <2> QED BY <2>1, <2>2, <2>3, <2>4 DEF FramesStacked
<1>9. FramesIntact'
  <2> SUFFICES ASSUME NEW i \in 1 .. Len(frames')
               PROVE  /\ FrameFits(frames'[i].at)
                      /\ frames'[i].act.sp = frames'[i].at + 2
                      /\ mem'[frames'[i].at] = frames'[i].act.sr
                      /\ mem'[frames'[i].at + 1] = frames'[i].act.pc
                      /\ frames'[i].act.stack = StackFrom(mem', frames'[i].act.sp)
    BY Zenon DEF FramesIntact
  <2>1. CASE i = 1
    <3>1. StackFrom(mem', c.a7) = StackFrom(mem, c.a7)
      BY <1>1, <1>4, StackFromFacts DEF TypeOK
    <3> QED BY <1>1, <1>2, <1>3, <1>4, <1>5, <1>6, <2>1, <3>1
  <2>2. CASE i # 1
    <3> DEFINE g == frames[i - 1]
               a == g.at
    <3>1. frames'[i] = g /\ i - 1 \in 1 .. Len(frames)
      BY <1>6, <2>2
    <3>2. /\ a \in Int /\ c.a7 <= a /\ FrameFits(a) /\ g.act.sp = a + 2
          /\ mem[a] = g.act.sr /\ mem[a + 1] = g.act.pc
          /\ g.act.stack = StackFrom(mem, g.act.sp)
      BY <3>1, FrameFacts
    <3> HIDE DEF g, a
    <3>3. mem'[a] = mem[a] /\ mem'[a + 1] = mem[a + 1]
      BY <1>1, <1>4, <3>2 DEF FrameFits, Slots
    <3>4. \A b \in Slots : b >= a + 2 => mem'[b] = mem[b]
      BY <1>1, <1>4, <3>2 DEF Slots
    <3>5. StackFrom(mem', a + 2) = StackFrom(mem, a + 2)
      BY <3>2, <3>4, StackFromFacts DEF TypeOK
    <3> QED BY <3>1, <3>2, <3>3, <3>5 DEF a
  <2> QED BY <2>1, <2>2
<1> QED BY <1>7, <1>8, <1>9 DEF StackInvariant

\* A step that resumes the activity suspended last.
ResumesLast ==
    /\ frames # <<>>
    /\ frames' = Tail(frames)
    /\ mem' = mem
    /\ c'.sr.s
    /\ c'.a7 = frames[1].at + 2
    /\ c'.sr = frames[1].act.sr /\ c'.flags = c'.sr.ccr
    /\ c'.pc = frames[1].act.pc

\* It preserves the stack invariant.
LEMMA StackPopped ==
    ASSUME TypeOK, TypeOK', StackInvariant, ResumesLast
    PROVE  StackInvariant'
<1>1. /\ Len(frames') = Len(frames) - 1 /\ 1 \in 1 .. Len(frames)
      /\ \A i \in 1 .. Len(frames') : i + 1 \in 1 .. Len(frames) /\ frames'[i] = frames[i + 1]
  BY DEF ResumesLast, TypeOK
<1>2. AllSupervisor'
  BY <1>1 DEF AllSupervisor, StackInvariant, ResumesLast
<1>3. FramesStacked'
  <2>1. c'.a7 = frames[1].act.sp /\ c'.a7 <= SspTop
    BY <1>1, FrameFacts DEF ResumesLast
  <2>2. ASSUME NEW i \in 1 .. Len(frames')
        PROVE  frames'[i].act.sp <= SspTop /\ c'.a7 <= frames'[i].at
    <3>1. i + 1 \in 1 .. Len(frames) /\ frames'[i] = frames[i + 1] /\ 1 < i + 1
      BY <1>1
    <3> QED BY <1>1, <2>1, <3>1 DEF StackInvariant, FramesStacked
  <2>3. ASSUME NEW i \in 1 .. Len(frames'), NEW j \in 1 .. Len(frames'), i < j
        PROVE  frames'[i].act.sp <= frames'[j].at
    <3>1. /\ i + 1 \in 1 .. Len(frames) /\ frames'[i] = frames[i + 1]
          /\ j + 1 \in 1 .. Len(frames) /\ frames'[j] = frames[j + 1] /\ i + 1 < j + 1
      BY <1>1, <2>3
    <3> QED BY <3>1 DEF StackInvariant, FramesStacked
  <2>4. frames' # <<>> => 1 \in 1 .. Len(frames')
    BY DEF TypeOK
  <2> QED BY <2>1, <2>2, <2>3, <2>4 DEF FramesStacked
<1>4. FramesIntact'
  BY <1>1 DEF FramesIntact, StackInvariant, ResumesLast
<1> QED BY <1>2, <1>3, <1>4 DEF StackInvariant

\* A fault leaves the stack to the frames.
LEMMA FaultsShape ==
    ASSUME TypeOK, StackInvariant, NEW k \in ContextType,
           k.sr.s, k.a7 <= c.a7, k.sr.ipl = c.sr.ipl,
           NEW m, \A a \in Slots : a >= c.a7 => m[a] = mem[a], Faults(k, m)
    PROVE  StaysOnStack
<1>1. PICK pc \in Pcs : c' = [k EXCEPT !.halt = TRUE, !.pc = pc]
  BY DEF Faults
<1>2. c'.sr = k.sr /\ c'.a7 = k.a7
  BY <1>1 DEF ContextType
<1>3. k.a7 \in Int /\ c.a7 \in Int /\ k.sr.ipl \in Int
  BY DEF TypeOK, ContextType, Sr, Ipl
<1>4. k.a7 <= StackBase
  BY <1>3, StackBaseFacts
<1> QED BY <1>2, <1>3, <1>4 DEF Faults, StaysOnStack

\* A trap suspends the current activity or faults.
LEMMA TrapShape ==
    ASSUME TypeOK, StackInvariant, NEW k \in {c, SyncSr(c)}, NEW vector \in Traps,
           NEW pc \in Pcs, Trap(k, vector, pc)
    PROVE  StaysOnStack \/ SuspendsUnderStack(0, pc)
<1> DEFINE o == ExceptionOpen(k)
           e == ExceptionEntry(k, TrapHandler(vector))
<1>1. /\ k \in ContextType /\ k.a7 = c.a7 /\ k.sr.s /\ k.sr.ipl = c.sr.ipl
      /\ SyncSr(k).sr = SyncSr(c).sr /\ c.a7 \in Int
  BY StartFacts DEF StackInvariant, AllSupervisor, TypeOK, ContextType
<1>2. /\ o \in ContextType /\ o.a7 = c.a7 - 2 /\ o.sr.s /\ o.sr.ipl = c.sr.ipl
      /\ e.a7 = o.a7 /\ e.sr = o.sr
  BY <1>1, VectorFacts, ExceptionFacts
<1>3. CASE FrameFits(o.a7)
  <2>1. /\ c' = e /\ mem' = StoreFrame(mem, o.a7, SyncSr(k).sr, pc)
        /\ frames' = <<Suspended(0, pc, o.a7)>> \o frames
    BY <1>3, Zenon DEF Trap, Suspend
  <2> HIDE DEF o, e
  <2> QED BY <1>1, <1>2, <1>3, <2>1 DEF SuspendsUnderStack
<1>4. CASE ~FrameFits(o.a7)
  <2> DEFINE m == HalfFrame(mem, o.a7, SyncSr(k).sr)
  <2>1. Faults(o, m)
    BY <1>4, Zenon DEF Trap
  <2>2. SyncSr(k).sr \in Sr
    BY <1>1, SyncSrFacts DEF ContextType
  <2> HIDE DEF o, e
  <2>3. \A a \in Slots : a >= c.a7 => m[a] = mem[a]
    BY <1>1, <1>2, <2>2, HalfFrameFacts DEF TypeOK, Slots
  <2> HIDE DEF m
  <2> QED BY <1>1, <1>2, <2>1, <2>3, FaultsShape
<1> QED BY <1>3, <1>4

\* Every instruction of a supervisor guest keeps to its part of the stack,
\* suspends the current activity or resumes the one suspended last.
LEMMA ExecuteShape ==
    ASSUME TypeOK, StackInvariant, SupervisorGuest, Execute
    PROVE  \/ StaysOnStack
           \/ \E pc \in Pcs : SuspendsUnderStack(0, pc)
           \/ ResumesLast
<1>1. PICK k \in {c, SyncSr(c)} :
           \/ Compute(k) \/ MoveToCcr(k) \/ Jsr(k) \/ Rts(k)
           \/ MoveToSr(k) \/ Rte(k) \/ RteFails(k) \/ Stop(k) \/ MoveToVbr(k) \/ MoveToUsp(k)
           \/ PrivilegeViolation(k) \/ TrapInstruction(k) \/ TrapThenContinue(k)
           \/ MonitorTrap(k) \/ IntcStore(k) \/ Faults(k, mem)
  BY DEF Execute
<1>2. /\ k \in ContextType /\ k.a7 = c.a7 /\ k.sr.s /\ k.sr.ipl = c.sr.ipl
      /\ k.pc \in Pcs /\ c.a7 \in Int /\ c.sr.ipl \in Int
      /\ SyncSr(k).sr = SyncSr(c).sr
  <2>1. /\ k \in ContextType /\ k.a7 = c.a7 /\ k.sr.s = c.sr.s /\ k.sr.ipl = c.sr.ipl
        /\ SyncSr(k).sr = SyncSr(c).sr
    BY StartFacts
  <2>2. c.sr.s
    BY DEF StackInvariant, AllSupervisor
  <2>3. k.sr.s
    BY <2>1, <2>2, Zenon
  <2>4. k.pc \in Pcs /\ c.a7 \in Int /\ c.sr.ipl \in Int
    BY <2>1 DEF TypeOK, ContextType, Sr, Ipl
  <2> QED BY <2>1, <2>3, <2>4
<1>3. /\ StackBase \in Int /\ StackBase <= SspTop /\ c.a7 <= StackBase
      /\ (frames # <<>> => StackBase = frames[1].at)
  BY StackBaseFacts
<1>4. \A sr \in GuestSr : sr \in Sr /\ sr.s = k.sr.s /\ sr.s /\ sr.ipl \in Int
  <2> SUFFICES ASSUME NEW sr \in GuestSr
               PROVE  sr \in Sr /\ sr.s = k.sr.s /\ sr.s /\ sr.ipl \in Int
    OBVIOUS
  <2>1. sr \in Sr /\ sr.s
    BY MachineAssumption DEF SupervisorGuest
  <2>2. sr.s = TRUE /\ k.sr.s = TRUE
    BY <1>2, <2>1 DEF ContextType, Sr
  <2>3. sr.ipl \in Int
    BY <2>1 DEF Sr, Ipl
  <2> QED BY <2>1, <2>2, <2>3, Zenon
<1>5. CASE Compute(k)
  BY <1>2, <1>3, <1>5 DEF Compute, StaysOnStack, ContextType
<1>6. CASE MoveToCcr(k)
  <2>1. PICK pc \in Pcs, ccr \in SUBSET Flags : c' = [SetCcr(k, ccr) EXCEPT !.pc = pc]
    BY <1>6 DEF MoveToCcr
  <2>2. /\ SetCcr(k, ccr) \in ContextType /\ SetCcr(k, ccr).a7 = k.a7
        /\ SetCcr(k, ccr).sr.s = k.sr.s /\ SetCcr(k, ccr).sr.ipl = k.sr.ipl
    BY <1>2, SetCcrFacts
  <2>3. c'.sr = SetCcr(k, ccr).sr /\ c'.a7 = SetCcr(k, ccr).a7
    BY <2>1, <2>2 DEF ContextType
  <2>4. c'.sr.s = k.sr.s
    BY <2>2, <2>3, Zenon
  <2>5. c'.sr.s /\ c'.a7 = c.a7 /\ c'.sr.ipl = c.sr.ipl
    BY <1>2, <2>2, <2>3, <2>4
  <2> QED BY <1>2, <1>3, <1>6, <2>5 DEF MoveToCcr, StaysOnStack
<1>7. CASE Jsr(k)
  <2>1. CASE k.a7 - 1 \in Slots
    <3>1. PICK pc \in Pcs, return \in Pcs :
              /\ c' = [k EXCEPT !.a7 = k.a7 - 1, !.pc = pc]
              /\ mem' = [mem EXCEPT ![k.a7 - 1] = return]
      BY <1>7, <2>1 DEF Jsr
    <3>2. c'.sr = k.sr /\ c'.a7 = c.a7 - 1
      BY <1>2, <3>1 DEF ContextType
    <3>3. \A a \in Slots : a >= c.a7 => mem'[a] = mem[a]
      BY <1>2, <3>1 DEF TypeOK, Memory, Slots
    <3>4. frames' = frames
      BY <1>7, <2>1 DEF Jsr
    <3> QED BY <1>2, <1>3, <3>2, <3>3, <3>4 DEF StaysOnStack
  <2>2. CASE k.a7 - 1 \notin Slots
    <3> DEFINE sp == k.a7 - 1
               f == [k EXCEPT !.a7 = sp]
    <3>1. Faults(f, mem)
      BY <1>7, <2>2 DEF Jsr
    <3>2. sp \in Int /\ sp <= c.a7
      BY <1>2
    <3> HIDE DEF sp
    <3>3. f \in ContextType
      BY Zenon, <1>2, <3>2 DEF ContextType
    <3>4. f.sr = k.sr /\ f.a7 = sp
      BY <1>2 DEF ContextType
    <3> HIDE DEF f
    <3> QED BY <1>2, <3>1, <3>2, <3>3, <3>4, FaultsShape
  <2> QED BY <2>1, <2>2
<1>8. CASE Rts(k)
  <2>1. PICK pc \in AsPc(Load(mem, k.a7)) \cup Pcs :
            c' = [k EXCEPT !.a7 = k.a7 + 1, !.pc = pc]
    BY <1>8, Zenon DEF Rts
  <2>2. c'.sr = k.sr /\ c'.a7 = c.a7 + 1 /\ c.a7 < StackBase
    BY <1>2, <1>8, <2>1 DEF Rts, ContextType
  <2> QED BY <1>2, <1>3, <1>8, <2>2 DEF Rts, StaysOnStack
<1>9. CASE MoveToSr(k)
  <2>1. PICK pc \in Pcs, sr \in GuestSr :
            GuestLoads(k, sr) /\ c' = [SetSr(k, sr) EXCEPT !.pc = pc]
    BY <1>9 DEF MoveToSr
  <2>2. SetSr(k, sr) \in ContextType /\ SetSr(k, sr).sr = sr /\ SetSr(k, sr).a7 = k.a7
    BY <1>2, <1>4, SetSrFacts
  <2>3. c'.sr = sr /\ c'.a7 = c.a7
    BY <1>2, <2>1, <2>2 DEF ContextType
  <2> QED BY <1>2, <1>3, <1>4, <1>9, <2>1, <2>3 DEF MoveToSr, GuestLoads, StaysOnStack
<1>10. CASE Rte(k)
  <2>1. frames # <<>> /\ 1 \in 1 .. Len(frames) /\ c.a7 = frames[1].at
    BY <1>2, <1>10 DEF Rte, TypeOK
  <2> DEFINE f == frames[1]
  <2>2. /\ f.act \in Activity /\ f.at \in Int /\ f.at \in Slots /\ f.at + 1 \in Slots
        /\ mem[f.at] = f.act.sr /\ mem[f.at + 1] = f.act.pc
    BY <2>1, FrameFacts DEF FrameFits
  <2>3. f.act.sr \in Sr /\ f.act.pc \in Pcs /\ f.act.sr.s
    BY <2>1, <2>2 DEF Activity, StackInvariant, AllSupervisor
  <2>4. PICK sr \in AsSr(Load(mem, k.a7)) :
            \E pc \in AsPc(Load(mem, ReturnSp(k, sr))) : c' = RteReturn(k, sr, pc)
    BY <1>10 DEF Rte
  <2>5. sr = f.act.sr
    <3>1. Load(mem, k.a7) = f.act.sr
      BY <1>2, <2>1, <2>2 DEF Load
    <3>2. AsSr(f.act.sr) = {f.act.sr}
      BY <2>3 DEF AsSr
    <3> QED BY <2>4, <3>1, <3>2
  <2>6. k \in ContextType /\ sr \in Sr /\ f.act.pc \in Pcs /\ sr.s = k.sr.s
    BY <1>2, <2>3, <2>5 DEF ContextType, Sr
  <2>7. ReturnSp(k, sr) = f.at + 1 /\ RteReturn(k, sr, f.act.pc).a7 = f.at + 2
    <3>1. ReturnSp(k, sr) = k.a7 + 1 /\ RteReturn(k, sr, f.act.pc).a7 = k.a7 + 2
      BY <2>6, RteFacts
    <3> QED BY <1>2, <2>1, <3>1
  <2>8. c' = RteReturn(k, sr, f.act.pc)
    <3>1. Load(mem, ReturnSp(k, sr)) = f.act.pc
      BY <2>2, <2>7 DEF Load
    <3>2. AsPc(f.act.pc) = {f.act.pc}
      BY <2>3 DEF AsPc
    <3> QED BY <2>4, <3>1, <3>2
  <2>9. /\ c'.sr = f.act.sr /\ c'.flags = c'.sr.ccr /\ c'.pc = f.act.pc
        /\ c'.a7 = f.at + 2
    <3>1. /\ RteReturn(k, sr, f.act.pc).sr = sr /\ RteReturn(k, sr, f.act.pc).flags = sr.ccr
          /\ RteReturn(k, sr, f.act.pc).pc = f.act.pc
      BY <2>6, RteFacts
    <3> QED BY <2>5, <2>7, <2>8, <3>1, Zenon
  <2>10. frames' = Tail(frames) /\ mem' = mem
    BY <1>10 DEF Rte
  <2> QED BY <2>1, <2>3, <2>9, <2>10 DEF ResumesLast
<1>11. CASE Stop(k)
  <2>1. PICK pc \in Pcs, sr \in GuestSr :
            GuestLoads(k, sr) /\ c' = [SetSr(k, sr) EXCEPT !.pc = pc, !.halt = TRUE]
    BY <1>11 DEF Stop
  <2>2. SetSr(k, sr) \in ContextType /\ SetSr(k, sr).sr = sr /\ SetSr(k, sr).a7 = k.a7
    BY <1>2, <1>4, SetSrFacts
  <2>3. c'.sr = sr /\ c'.a7 = c.a7
    BY <1>2, <2>1, <2>2 DEF ContextType
  <2> QED BY <1>2, <1>3, <1>4, <1>11, <2>1, <2>3 DEF Stop, GuestLoads, StaysOnStack
<1>12. CASE MoveToVbr(k)
  BY <1>2, <1>3, <1>12 DEF MoveToVbr, StaysOnStack, ContextType
<1>13. CASE MoveToUsp(k)
  BY <1>2, <1>3, <1>13 DEF MoveToUsp, StaysOnStack, ContextType
<1>14. CASE PrivilegeViolation(k)
  BY <1>2, <1>14 DEF PrivilegeViolation
<1>15. CASE TrapInstruction(k)
  BY <1>15, TrapShape DEF TrapInstruction
<1>16. CASE TrapThenContinue(k)
  <2> DEFINE o == ExceptionOpen(k)
  <2>1. o \in ContextType /\ o.a7 = c.a7 - 2 /\ o.sr.s /\ o.sr.ipl = c.sr.ipl
    BY <1>2, ExceptionFacts
  <2>2. CASE FrameFits(o.a7)
    <3>1. PICK pc \in Pcs : c' = ExceptionEntry(k, pc)
      BY <1>16, <2>2 DEF TrapThenContinue
    <3>2. c'.a7 = o.a7 /\ c'.sr = o.sr
      BY <1>2, <3>1, ExceptionFacts
    <3>3. mem' = StoreFrame(mem, o.a7, SyncSr(k).sr, k.pc) /\ frames' = frames
      BY <1>16, <2>2 DEF TrapThenContinue
    <3>4. SyncSr(k).sr \in Sr
      BY <1>2, SyncSrFacts DEF ContextType
    <3> HIDE DEF o
    <3>5. \A a \in Slots : a >= c.a7 => mem'[a] = mem[a]
      BY <1>2, <2>1, <2>2, <3>3, <3>4 DEF StoreFrame, TypeOK, Memory, Slots
    <3> QED BY <1>2, <1>3, <2>1, <3>2, <3>3, <3>5 DEF StaysOnStack
  <2>3. CASE ~FrameFits(o.a7)
    <3> DEFINE m == HalfFrame(mem, o.a7, SyncSr(k).sr)
    <3>1. Faults(o, m)
      BY <1>16, <2>3, Zenon DEF TrapThenContinue
    <3>2. SyncSr(k).sr \in Sr
      BY <1>2, SyncSrFacts DEF ContextType
    <3> HIDE DEF o
    <3>3. \A a \in Slots : a >= c.a7 => m[a] = mem[a]
      BY <1>2, <2>1, <3>2, HalfFrameFacts DEF TypeOK, Slots
    <3> HIDE DEF m
    <3> QED BY <1>2, <2>1, <3>1, <3>3, FaultsShape
  <2> QED BY <2>2, <2>3
<1>17. CASE MonitorTrap(k)
  BY <1>2, <1>3, <1>17 DEF MonitorTrap, StaysOnStack, ContextType
<1>18. CASE IntcStore(k)
  BY <1>2, <1>3, <1>18 DEF IntcStore, StaysOnStack, ContextType
<1>19. CASE Faults(k, mem)
  BY <1>2, <1>19, FaultsShape
<1>20. CASE RteFails(k)
  \* The frame of a supervisor guest holds a supervisor's status word, so the
  \* return address is popped from the frame, which lies in the stack.
  <2> DEFINE f == frames[1]
  <2>1. frames # <<>> /\ 1 \in 1 .. Len(frames) /\ c.a7 = f.at
    BY <1>2, <1>20 DEF RteFails, TypeOK
  <2>2. /\ f.act \in Activity /\ f.at \in Int /\ f.at \in Slots /\ f.at + 1 \in Slots
        /\ mem[f.at] = f.act.sr
    BY <2>1, FrameFacts DEF FrameFits
  <2>3. f.act.sr \in Sr /\ f.act.sr.s
    BY <2>1, <2>2 DEF Activity, StackInvariant, AllSupervisor
  <2>4. AsSr(Load(mem, k.a7)) = {f.act.sr}
    <3>1. Load(mem, k.a7) = f.act.sr
      BY <1>2, <2>1, <2>2 DEF Load
    <3> QED BY <2>3, <3>1 DEF AsSr
  <2>5. ReturnSp(k, f.act.sr) = k.a7 + 1
    <3>1. k \in ContextType /\ f.act.sr.s = k.sr.s
      BY <1>2, <2>3 DEF ContextType, Sr
    <3>2. SetSr(k, f.act.sr).a7 = k.a7
      BY <2>3, <3>1, SetSrFacts
    <3> QED BY <3>2 DEF ReturnSp
  <2> QED BY <1>2, <1>20, <2>1, <2>2, <2>4, <2>5 DEF RteFails
<1> QED BY <1>1, <1>5, <1>6, <1>7, <1>8, <1>9, <1>10, <1>11, <1>12, <1>13, <1>14,
           <1>15, <1>16, <1>17, <1>18, <1>19, <1>20

\* An interrupt of a supervisor guest suspends the current activity, and only
\* above its mask; a failed entry leaves the stack to the frames.
LEMMA PollShape ==
    ASSUME TypeOK, StackInvariant, PollInterrupts
    PROVE  \/ StaysOnStack
           \/ \E level \in Levels, pc \in Pcs : SuspendsUnderStack(level, pc)
<1>1. /\ c \in ContextType /\ c.sr.s /\ c.a7 \in Int /\ c.sr.ipl \in Int /\ c.pc \in Pcs
  BY DEF StackInvariant, AllSupervisor, TypeOK, ContextType, Sr, Ipl
<1>2. StackBase \in Int /\ c.a7 <= StackBase
  BY StackBaseFacts
<1> DEFINE h == HighestPending
<1>3. CASE ~(h > c.sr.ipl)
  BY <1>1, <1>2, <1>3 DEF PollInterrupts, StaysOnStack
<1>4. CASE h > c.sr.ipl
  <2>1. h \in 0 .. 7 /\ h \in Levels /\ h \in Ipl /\ c.sr.ipl < h /\ h # 0
    BY <1>1, <1>4, HighestPendingFacts DEF TypeOK, ContextType, Sr, Ipl
  <2>2. AcceptInterrupt(h) \/ AcceptFails(h) \/ VectorFails(h)
    BY <1>4 DEF PollInterrupts, Accept
  <2> HIDE DEF h
  <2>3. SyncSr(c).sr \in Sr
    BY <1>1, SyncSrFacts DEF ContextType
  <2>4. /\ InterruptOpen(c) \in ContextType /\ InterruptOpen(c).sr = SyncSr(c).sr
        /\ InterruptPushed(c, h).sr.s
        /\ InterruptPushed(c, h).sr.ipl = h
        /\ InterruptOpen(c).a7 = c.a7 - 2
        /\ InterruptPushed(c, h).a7 = c.a7 - 2
        /\ \A pc \in Pcs : /\ InterruptEntry(c, h, pc).sr = InterruptPushed(c, h).sr
                            /\ InterruptEntry(c, h, pc).a7 = c.a7 - 2
    BY <1>1, <2>1, InterruptFacts
  <2>5. CASE AcceptInterrupt(h)
    <3>1. /\ FrameFits(c.a7 - 2)
          /\ c' = InterruptEntry(c, h, InterruptHandler(h))
          /\ mem' = StoreFrame(mem, c.a7 - 2, SyncSr(c).sr, c.pc)
          /\ frames' = <<Suspended(h, c.pc, c.a7 - 2)>> \o frames
          /\ InterruptHandler(h) \in Pcs
      BY <2>1, <2>4, <2>5, VectorFacts DEF AcceptInterrupt, Suspend
    <3>2. SuspendsUnderStack(h, c.pc)
      BY <2>1, <2>4, <3>1 DEF SuspendsUnderStack
    <3> QED BY <1>1, <2>1, <3>2
  <2>6. CASE AcceptFails(h)
    <3>1. /\ c' = InterruptOpen(c) /\ frames' = frames
          /\ \A a \in Slots : a >= c.a7 => mem'[a] = mem[a]
      BY <1>1, <2>3, <2>4, <2>6, HalfFrameFacts DEF AcceptFails, TypeOK, Slots
    <3>2. SyncSr(c).sr.s /\ SyncSr(c).sr.ipl = c.sr.ipl
      BY <1>1, SyncSrFacts
    <3>3. c'.sr = SyncSr(c).sr /\ c'.a7 = c.a7 - 2
      BY <2>4, <3>1
    <3>4. c'.sr.s /\ c'.sr.ipl = c.sr.ipl
      BY <3>2, <3>3, Zenon
    <3> QED BY <1>1, <1>2, <3>1, <3>3, <3>4 DEF StaysOnStack
  <2>7. CASE VectorFails(h)
    <3>1. /\ FrameFits(c.a7 - 2) /\ c' = InterruptPushed(c, h) /\ frames' = frames
          /\ mem' = StoreFrame(mem, c.a7 - 2, SyncSr(c).sr, c.pc)
      BY <2>4, <2>7 DEF VectorFails
    <3>2. \A a \in Slots : a >= c.a7 => mem'[a] = mem[a]
      BY <1>1, <2>3, <3>1 DEF StoreFrame, TypeOK, Memory, Slots
    <3> QED BY <1>1, <1>2, <2>1, <2>4, <3>1, <3>2 DEF StaysOnStack
  <2> QED BY <2>2, <2>5, <2>6, <2>7
<1> QED BY <1>3, <1>4

\* A reset forgets every frame and starts at the top of the stack.
StartsOver ==
    /\ frames' = <<>>
    /\ c'.sr.s
    /\ c'.a7 = SspTop

\* What a step of a supervisor guest does to its stack.
LEMMA StepShape ==
    ASSUME TypeOK, StackInvariant, SupervisorGuest, [Next]_vars
    PROVE  \/ StaysOnStack
           \/ \E level \in Levels \cup {0}, pc \in Pcs : SuspendsUnderStack(level, pc)
           \/ ResumesLast
           \/ StartsOver
<1>1. CASE PollInterrupts
  BY <1>1, PollShape
<1>2. CASE Execute
  BY <1>2, ExecuteShape
<1>3. CASE UNCHANGED <<c, mem, frames>>
  <2>1. c.sr.s /\ c.sr.ipl \in Int
    BY DEF StackInvariant, AllSupervisor, TypeOK, ContextType, Sr, Ipl
  <2> QED BY <1>3, <2>1, StackBaseFacts DEF StaysOnStack
<1>4. CASE Reset
  <2>1. /\ c' = ResetContext(c) /\ frames' = <<>>
        /\ ResetContext(c).sr = [s |-> TRUE, ipl |-> 7, ccr |-> {}]
        /\ ResetContext(c).a7 = SspTop
    BY <1>4, VectorFacts, ResetFacts DEF Reset, TypeOK
  <2> QED BY <2>1 DEF StartsOver
<1>5. CASE MonitorSets
  <2>1. PICK pc \in Pcs, halt \in BOOLEAN : c' = [c EXCEPT !.pc = pc, !.halt = halt]
    BY <1>5 DEF MonitorSets
  <2>2. c'.sr = c.sr /\ c'.a7 = c.a7
    BY <2>1 DEF TypeOK, ContextType
  <2>3. c.sr.s /\ c.sr.ipl \in Int /\ mem' = mem /\ frames' = frames
    BY <1>5 DEF MonitorSets, StackInvariant, AllSupervisor, TypeOK, ContextType, Sr, Ipl
  <2> QED BY <2>2, <2>3, StackBaseFacts DEF StaysOnStack
<1> QED BY <1>1, <1>2, <1>3, <1>4, <1>5
        DEF Next, AdvanceDevices, AdvanceRealTime, SetOverlay, ErrorCaught, vars

\* The initial stack is empty.
LEMMA InitStack == Init => StackInvariant
<1> SUFFICES ASSUME Init PROVE StackInvariant
  OBVIOUS
<1>1. VectorTables["rom"][1] \in Pcs /\ AtZero = "rom"
  BY MachineAssumption DEF Init, AtZero, VectorNumbers
<1>2. Constructed \in ContextType
  BY <1>1, StackAssumption DEF Constructed, ContextType, Sr, Ipl, Bases
<1>3. c.sr.s /\ c.a7 = SspTop /\ frames = <<>>
  BY <1>1, <1>2, ResetFacts DEF Init
<1> QED BY <1>3, StackAssumption
        DEF StackInvariant, AllSupervisor, FramesStacked, FramesIntact

\* Every step of a supervisor guest keeps the stack.
LEMMA NextStack ==
    ASSUME SupervisorGuest
    PROVE  TypeOK /\ TypeOK' /\ StackInvariant /\ [Next]_vars => StackInvariant'
<1> SUFFICES ASSUME TypeOK, TypeOK', StackInvariant, [Next]_vars
             PROVE  StackInvariant'
  OBVIOUS
<1>1. CASE StaysOnStack
  BY <1>1, StackStays
<1>2. ASSUME NEW level \in Levels \cup {0}, NEW pc \in Pcs, SuspendsUnderStack(level, pc)
      PROVE  StackInvariant'
  BY <1>2, StackPushed
<1>3. CASE ResumesLast
  BY <1>3, StackPopped
<1>4. CASE StartsOver
  BY <1>4, StackAssumption
     DEF StartsOver, StackInvariant, AllSupervisor, FramesStacked, FramesIntact
<1> QED BY <1>1, <1>2, <1>3, <1>4, StepShape

\* While the guest stays in supervisor mode, no push, interrupt, trap or failed
\* entry ever disturbs the frame or the stack of a suspended activity.
THEOREM StackSafe ==
    ASSUME SupervisorGuest
    PROVE  Spec => []StackInvariant
<1>1. Init => StackInvariant
  BY InitStack
<1>2. TypeOK /\ TypeOK' /\ StackInvariant /\ [Next]_vars => StackInvariant'
  BY NextStack
<1> QED BY <1>1, <1>2, TypeCorrect, PTL DEF Spec

-----------------------------------------------------------------------------
(* Interrupt levels. *)

\* Masks and levels are numbers.
LEMMA LevelFacts ==
    ASSUME TypeOK
    PROVE  /\ c.sr.ipl \in Nat
           /\ \A i \in 1 .. Len(frames) :
                  frames[i].level \in Nat /\ frames[i].act.sr.ipl \in Nat
<1>1. c.sr.ipl \in Nat
  BY DEF TypeOK, ContextType, Sr, Ipl
<1>2. Levels \cup {0} \subseteq Nat
  BY MachineAssumption
<1>3. ASSUME NEW i \in 1 .. Len(frames)
      PROVE  frames[i].level \in Nat /\ frames[i].act.sr.ipl \in Nat
  <2>1. frames[i] \in Frame
    BY DEF TypeOK
  <2>2. frames[i].level \in Levels \cup {0} /\ frames[i].act \in Activity
    BY <2>1 DEF Frame
  <2>3. frames[i].act.sr \in Sr
    BY <2>2 DEF Activity
  <2> QED BY <1>2, <2>2, <2>3 DEF Sr, Ipl
<1> QED BY <1>1, <1>3

\* The mask goes on covering the handlers being served.
LEMMA NextMask ==
    ASSUME SupervisorGuest, ~HandlersUnmask
    PROVE  TypeOK /\ TypeOK' /\ StackInvariant /\ MaskCoversHandlers /\ [Next]_vars
               => MaskCoversHandlers'
<1> SUFFICES ASSUME TypeOK, TypeOK', StackInvariant, MaskCoversHandlers, [Next]_vars
             PROVE  MaskCoversHandlers'
  OBVIOUS
<1>1. /\ c.sr.ipl \in Nat /\ c'.sr.ipl \in Nat
      /\ \A i \in 1 .. Len(frames) : frames[i].level \in Nat /\ frames[i].act.sr.ipl \in Nat
  <2>1. c'.sr.ipl \in Nat
    BY DEF TypeOK, ContextType, Sr, Ipl
  <2> QED BY <2>1, LevelFacts
<1>2. CASE StaysOnStack
  <2>1. frames' = frames /\ (frames = <<>> \/ c'.sr.ipl >= c.sr.ipl)
    BY <1>2 DEF StaysOnStack
  <2> QED BY <1>1, <2>1 DEF MaskCoversHandlers
<1>3. ASSUME NEW level \in Levels \cup {0}, NEW pc \in Pcs, SuspendsUnderStack(level, pc)
      PROVE  MaskCoversHandlers'
  <2> DEFINE f == Suspended(level, pc, c.a7 - 2)
  <2>1. f.level = level /\ f.act.sr = SyncSr(c).sr
    BY DEF Suspended, CurrentActivity
  <2>2. f.act.sr.ipl = c.sr.ipl
    BY <2>1, SyncSrFacts DEF TypeOK
  <2>3. frames' = <<f>> \o frames
    BY <1>3 DEF SuspendsUnderStack
  <2>4. /\ level \in Int
        /\ IF level = 0 THEN c'.sr.ipl = c.sr.ipl ELSE c.sr.ipl < level /\ c'.sr.ipl = level
    BY <1>3, MachineAssumption DEF SuspendsUnderStack
  <2> HIDE DEF f
  <2>5. /\ frames'[1] = f
        /\ \A i \in 1 .. Len(frames') : i # 1 => i - 1 \in 1 .. Len(frames) /\ frames'[i] = frames[i - 1]
    BY <2>3 DEF TypeOK
  <2> SUFFICES ASSUME NEW i \in 1 .. Len(frames'), frames'[i].level # 0
               PROVE  /\ frames'[i].level <= c'.sr.ipl
                      /\ frames'[i].act.sr.ipl < frames'[i].level
                      /\ \A j \in 1 .. i - 1 : frames'[i].level <= frames'[j].act.sr.ipl
    BY Zenon DEF MaskCoversHandlers
  <2>6. CASE i = 1
    BY <1>1, <2>1, <2>2, <2>4, <2>5, <2>6
  <2>7. CASE i # 1
    <3>1. frames'[i] = frames[i - 1] /\ i - 1 \in 1 .. Len(frames)
      BY <2>5, <2>7
    <3>2. /\ frames[i - 1].level <= c.sr.ipl
          /\ frames[i - 1].act.sr.ipl < frames[i - 1].level
          /\ \A j \in 1 .. i - 2 : frames[i - 1].level <= frames[j].act.sr.ipl
      BY <3>1 DEF MaskCoversHandlers
    <3>3. ASSUME NEW j \in 1 .. i - 1
          PROVE  frames'[i].level <= frames'[j].act.sr.ipl
      <4>1. CASE j = 1
        BY <2>2, <2>5, <3>1, <3>2, <4>1
      <4>2. CASE j # 1
        <5>1. frames'[j] = frames[j - 1] /\ j - 1 \in 1 .. i - 2
          BY <2>5, <4>2
        <5> QED BY <3>1, <3>2, <5>1
      <4> QED BY <4>1, <4>2
    <3>4. c.sr.ipl <= c'.sr.ipl
      BY <1>1, <2>4
    <3> QED BY <1>1, <3>1, <3>2, <3>3, <3>4
  <2> QED BY <2>6, <2>7
<1>4. CASE ResumesLast
  <2>1. /\ 1 \in 1 .. Len(frames) /\ c'.sr.ipl = frames[1].act.sr.ipl
        /\ \A i \in 1 .. Len(frames') : i + 1 \in 1 .. Len(frames) /\ frames'[i] = frames[i + 1]
    BY <1>4 DEF ResumesLast, TypeOK
  <2> SUFFICES ASSUME NEW i \in 1 .. Len(frames'), frames'[i].level # 0
               PROVE  /\ frames'[i].level <= c'.sr.ipl
                      /\ frames'[i].act.sr.ipl < frames'[i].level
                      /\ \A j \in 1 .. i - 1 : frames'[i].level <= frames'[j].act.sr.ipl
    BY Zenon DEF MaskCoversHandlers
  <2>2. frames'[i] = frames[i + 1] /\ i + 1 \in 1 .. Len(frames) /\ 1 \in 1 .. (i + 1) - 1
    BY <2>1
  <2>3. /\ frames[i + 1].act.sr.ipl < frames[i + 1].level
        /\ \A j \in 1 .. (i + 1) - 1 : frames[i + 1].level <= frames[j].act.sr.ipl
    BY <2>2 DEF MaskCoversHandlers
  <2>4. ASSUME NEW j \in 1 .. i - 1
        PROVE  frames'[i].level <= frames'[j].act.sr.ipl
    BY <2>1, <2>2, <2>3
  <2> QED BY <2>1, <2>2, <2>3, <2>4
<1>5. CASE StartsOver
  BY <1>5 DEF StartsOver, MaskCoversHandlers
<1> QED BY <1>2, <1>3, <1>4, <1>5, StepShape

\* The mask always covers the handlers being served, if handlers keep it.
THEOREM MaskSafe ==
    ASSUME SupervisorGuest, ~HandlersUnmask
    PROVE  Spec => []MaskCoversHandlers
<1>1. Init => MaskCoversHandlers
  BY DEF Init, MaskCoversHandlers
<1>2. TypeOK /\ TypeOK' /\ StackInvariant /\ MaskCoversHandlers /\ [Next]_vars
          => MaskCoversHandlers'
  BY NextMask
<1>3. Spec => []StackInvariant
  BY StackSafe
<1> QED BY <1>1, <1>2, <1>3, TypeCorrect, PTL DEF Spec

\* So interrupt handlers nest in strictly rising level.
THEOREM NestingSafe ==
    ASSUME SupervisorGuest, ~HandlersUnmask
    PROVE  Spec => []LevelsNest
<1>1. TypeOK /\ MaskCoversHandlers => LevelsNest
  <2> SUFFICES ASSUME TypeOK, MaskCoversHandlers,
                      NEW i \in 1 .. Len(frames), NEW j \in 1 .. Len(frames),
                      i < j, frames[i].level # 0
               PROVE  frames[i].level > frames[j].level
    BY DEF LevelsNest
  <2>1. /\ frames[i].level \in Nat /\ frames[j].level \in Nat
        /\ frames[i].act.sr.ipl \in Nat
    BY LevelFacts
  <2>2. frames[i].act.sr.ipl < frames[i].level
    BY DEF MaskCoversHandlers
  <2>3. frames[j].level # 0 => frames[j].level <= frames[i].act.sr.ipl
    BY DEF MaskCoversHandlers
  <2> QED BY <2>1, <2>2, <2>3
<1>2. Spec => []MaskCoversHandlers
  BY MaskSafe
<1> QED BY <1>1, <1>2, TypeCorrect, PTL

-----------------------------------------------------------------------------
(* The refinement of nested activities. *)

\* The condition codes a status word carries become the current ones: the
\* activity resumed by RTE has the status register it was suspended with.
LEMMA ResumedSr ==
    ASSUME NEW k \in ContextType, k.flags = k.sr.ccr
    PROVE  SyncSr(k).sr = k.sr
BY DEF SyncSr, ContextType, Sr

\* Every step of a supervisor guest is a step of module Activities.
LEMMA NextRefines ==
    ASSUME SupervisorGuest
    PROVE  TypeOK /\ TypeOK' /\ StackInvariant /\ [Next]_vars => Nested!Next
<1> SUFFICES ASSUME TypeOK, TypeOK', StackInvariant, [Next]_vars
             PROVE  Nested!Next
  OBVIOUS
<1> DEFINE S == [i \in 1 .. Len(frames) |-> frames[i].act]
<1>1. CASE StaysOnStack
  BY <1>1 DEF StaysOnStack, Nested!Next, Nested!Work
<1>2. ASSUME NEW level \in Levels \cup {0}, NEW pc \in Pcs, SuspendsUnderStack(level, pc)
      PROVE  Nested!Suspend
  <2> DEFINE a == [CurrentActivity EXCEPT !.pc = pc]
             f == Suspended(level, pc, c.a7 - 2)
  <2>1. f.act = a /\ a.pc = pc
    BY DEF Suspended, CurrentActivity
  <2>2. frames' = <<f>> \o frames
    BY <1>2 DEF SuspendsUnderStack
  <2> HIDE DEF a, f
  <2>3. /\ frames' # <<>> /\ Len(frames') = Len(frames) + 1 /\ frames'[1] = f
        /\ \A i \in 1 .. Len(frames') : i # 1 => frames'[i] = frames[i - 1]
    BY <2>2 DEF TypeOK
  <2>4. S' = <<a>> \o S
    BY <2>1, <2>3 DEF TypeOK
  <2>5. S' # <<>> /\ Head(S').pc = pc
    BY <2>1, <2>4 DEF TypeOK
  <2>6. a = [CurrentActivity EXCEPT !.pc = Head(S').pc]
    BY <2>5, Zenon DEF a
  <2> QED BY <2>4, <2>5, <2>6, Zenon DEF Nested!Suspend
<1>3. CASE ResumesLast
  <2>1. /\ frames # <<>> /\ 1 \in 1 .. Len(frames) /\ frames' = Tail(frames)
        /\ c' \in ContextType /\ mem' = mem
    BY <1>3 DEF ResumesLast, TypeOK
  <2> DEFINE a == frames[1].act
  <2>2. /\ a \in Activity /\ a.sp = frames[1].at + 2 /\ a.stack = StackFrom(mem, a.sp)
    BY <2>1, FrameFacts
  <2>3. SyncSr(c').sr = c'.sr
    BY <1>3, <2>1, ResumedSr DEF ResumesLast
  <2>4. c'.pc = a.pc /\ SyncSr(c').sr = a.sr /\ c'.a7 = a.sp
    BY <1>3, <2>2, <2>3 DEF ResumesLast
  <2>5. CurrentActivity' = [pc |-> a.pc, sr |-> a.sr, sp |-> a.sp, stack |-> a.stack]
    BY <2>1, <2>2, <2>4, Zenon DEF CurrentActivity
  <2>6. CurrentActivity' = a
    <3> HIDE DEF a
    <3> QED BY <2>2, <2>5 DEF Activity
  <2>7. S # <<>> /\ Head(S) = a /\ S' = Tail(S)
    BY <2>1 DEF TypeOK
  <2> QED BY <2>6, <2>7, Zenon DEF Nested!Next, Nested!Resume
<1>4. CASE StartsOver
  BY <1>4 DEF StartsOver, Nested!Next, Nested!Forget
<1> QED BY <1>1, <1>2, <1>3, <1>4, StepShape DEF Nested!Next

\* Exception handling implements nested activities: every handler's RTE resumes
\* the interrupted program with its PC, status register, stack pointer and stack.
THEOREM Refinement ==
    ASSUME SupervisorGuest
    PROVE  Spec => ResumesSuspended
<1>1. Init => Nested!Init
  BY DEF Init, Nested!Init
<1>2. TypeOK /\ TypeOK' /\ StackInvariant /\ [Next]_vars => Nested!Next
  BY NextRefines
<1>3. Spec => []StackInvariant
  BY StackSafe
<1> QED BY <1>1, <1>2, <1>3, TypeCorrect, PTL DEF Spec, ResumesSuspended, Nested!Spec

-----------------------------------------------------------------------------
(* User mode: the supervisor stack pointer, for guests that change mode and   *)
(* mask as they like.                                                         *)

\* What SupervisorStackKept says of a step from context k to context d.
Banked(k, d) ==
    /\ k.sr.s /\ ~d.sr.s => d.ssp = k.a7
    /\ ~k.sr.s /\ ~d.sr.s => d.ssp = k.ssp
    /\ ~k.sr.s /\ d.sr.s => d.a7 \in {k.ssp, k.ssp - 2}

\* setSr banks a7 when it leaves supervisor mode and fetches it when it enters.
LEMMA SetSrBanks ==
    ASSUME NEW k \in ContextType, NEW sr \in Sr
    PROVE  Banked(k, SetSr(k, sr))
BY DEF Banked, SetSr, ContextType, Sr

\* An exception opens its frame below the banked supervisor stack pointer.
LEMMA ExceptionBanks ==
    ASSUME NEW k \in ContextType, NEW handler \in Pcs
    PROVE  Banked(k, ExceptionOpen(k)) /\ Banked(k, ExceptionEntry(k, handler))
<1> DEFINE u == OnSupervisorStack(SyncSr(k))
<1>1. u \in ContextType /\ u.sr.s = k.sr.s /\ (~k.sr.s => u.a7 = k.ssp)
  <2> DEFINE s == SyncSr(k)
  <2>1. s \in ContextType /\ s.sr.s = k.sr.s /\ s.ssp = k.ssp
    BY SyncSrFacts
  <2> HIDE DEF s
  <2>2. OnSupervisorStack(s) = IF s.sr.s THEN s ELSE [s EXCEPT !.usp = s.a7, !.a7 = s.ssp]
    BY DEF OnSupervisorStack
  <2> QED BY <2>1, <2>2 DEF s, ContextType
<1>2. ExceptionOpen(k) = [u EXCEPT !.sr = [@ EXCEPT !.s = TRUE], !.a7 = @ - 2]
  BY DEF ExceptionOpen
<1> HIDE DEF u
<1>3. ExceptionOpen(k).sr.s = TRUE /\ (~k.sr.s => ExceptionOpen(k).a7 = k.ssp - 2)
  BY <1>1, <1>2 DEF ContextType, Sr
<1>4. /\ ExceptionEntry(k, handler).a7 = ExceptionOpen(k).a7
      /\ ExceptionEntry(k, handler).sr = ExceptionOpen(k).sr
  BY ExceptionFacts
<1> QED BY <1>3, <1>4 DEF Banked, ContextType

\* So does an interrupt, and a failed entry leaves the mode as it was.
LEMMA InterruptBanks ==
    ASSUME NEW k \in ContextType, NEW level \in Ipl, NEW handler \in Pcs
    PROVE  /\ Banked(k, InterruptOpen(k))
           /\ Banked(k, InterruptPushed(k, level))
           /\ Banked(k, InterruptEntry(k, level, handler))
<1> DEFINE u == OnSupervisorStack(SyncSr(k))
           o == InterruptOpen(k)
           p == [o EXCEPT !.ssp = o.a7]
           sr == [s |-> TRUE, ipl |-> level, ccr |-> o.sr.ccr]
<1>1. /\ u \in ContextType /\ u.sr.s = k.sr.s /\ u.ssp = k.ssp
      /\ (~k.sr.s => u.a7 = k.ssp)
  <2> DEFINE s == SyncSr(k)
  <2>1. s \in ContextType /\ s.sr.s = k.sr.s /\ s.ssp = k.ssp
    BY SyncSrFacts
  <2> HIDE DEF s
  <2>2. OnSupervisorStack(s) = IF s.sr.s THEN s ELSE [s EXCEPT !.usp = s.a7, !.a7 = s.ssp]
    BY DEF OnSupervisorStack
  <2> QED BY <2>1, <2>2 DEF s, ContextType
<1>2. o = [u EXCEPT !.a7 = @ - 2]
  BY DEF InterruptOpen
<1>3. /\ InterruptPushed(k, level) = SetSr(p, sr)
      /\ InterruptEntry(k, level, handler) = [SetSr(p, sr) EXCEPT !.pc = handler, !.halt = FALSE]
  BY DEF InterruptEntry, InterruptPushed
<1> HIDE DEF u, o
<1>4. /\ o \in ContextType /\ o.sr.s = k.sr.s /\ o.ssp = k.ssp
      /\ (~k.sr.s => o.a7 = k.ssp - 2)
  BY <1>1, <1>2 DEF ContextType
<1>5. /\ p \in ContextType /\ sr \in Sr /\ p.sr.s = k.sr.s /\ sr.s = TRUE
      /\ (~k.sr.s => p.ssp = k.ssp - 2)
  BY <1>4 DEF ContextType, Sr
<1> HIDE DEF p, sr
<1>6. /\ SetSr(p, sr) \in ContextType /\ SetSr(p, sr).sr.s = TRUE
      /\ (~k.sr.s => SetSr(p, sr).a7 = p.ssp)
  <2>1. SetSr(p, sr) \in ContextType /\ SetSr(p, sr).sr = sr
    BY <1>5, SetSrFacts
  <2>2. ~p.sr.s => SetSr(p, sr).a7 = p.ssp
    BY <1>5 DEF SetSr, ContextType, Sr
  <2> QED BY <1>5, <2>1, <2>2
<1>7. /\ InterruptPushed(k, level).sr.s = TRUE
      /\ InterruptPushed(k, level).a7 = SetSr(p, sr).a7
      /\ InterruptEntry(k, level, handler).sr.s = TRUE
      /\ InterruptEntry(k, level, handler).a7 = SetSr(p, sr).a7
  BY <1>3, <1>6 DEF ContextType
<1> QED BY <1>4, <1>5, <1>6, <1>7 DEF o, Banked, ContextType

\* RTE starts in supervisor mode, and banks a7 while it still points at the frame.
LEMMA RteBanks ==
    ASSUME NEW k \in ContextType, NEW sr \in Sr, NEW pc \in Pcs, k.sr.s
    PROVE  Banked(k, RteReturn(k, sr, pc))
<1> DEFINE r == SetSr(k, sr)
<1>1. r \in ContextType /\ r.sr = sr /\ Banked(k, r)
  BY SetSrFacts, SetSrBanks
<1>2. RteReturn(k, sr, pc) = [r EXCEPT !.a7 = ReturnSp(k, sr) + 1, !.pc = pc]
  BY DEF RteReturn
<1> HIDE DEF r
<1>3. RteReturn(k, sr, pc).sr = r.sr /\ RteReturn(k, sr, pc).ssp = r.ssp
  BY <1>1, <1>2 DEF ContextType
<1> QED BY <1>1, <1>3 DEF Banked

\* Where mode and pointers stay, the rule holds.
LEMMA SameModeBanks ==
    ASSUME NEW k \in ContextType, NEW d, d.sr.s = k.sr.s, d.ssp = k.ssp
    PROVE  Banked(k, d)
BY DEF Banked, ContextType, Sr

\* The rule is about mode and pointers only.
LEMMA AlikeBanks ==
    ASSUME NEW k, NEW d, NEW e, Banked(k, d),
           e.sr.s = d.sr.s, e.ssp = d.ssp, e.a7 = d.a7
    PROVE  Banked(k, e)
BY DEF Banked

\* A fault leaves the mode and the pointers it found.
LEMMA FaultsBank ==
    ASSUME NEW k \in ContextType, NEW d \in ContextType, NEW m, Banked(k, d), Faults(d, m)
    PROVE  Banked(k, c')
<1>1. PICK pc \in Pcs : c' = [d EXCEPT !.halt = TRUE, !.pc = pc]
  BY DEF Faults
<1>2. c'.sr.s = d.sr.s /\ c'.ssp = d.ssp /\ c'.a7 = d.a7
  BY <1>1 DEF ContextType
<1> QED BY <1>2, AlikeBanks

\* Every instruction keeps the rule, from whichever context it starts.
LEMMA ExecuteBanks ==
    ASSUME TypeOK, Execute
    PROVE  Banked(c, c')
<1>1. PICK k \in {c, SyncSr(c)} :
           \/ Compute(k) \/ MoveToCcr(k) \/ Jsr(k) \/ Rts(k)
           \/ MoveToSr(k) \/ Rte(k) \/ RteFails(k) \/ Stop(k) \/ MoveToVbr(k) \/ MoveToUsp(k)
           \/ PrivilegeViolation(k) \/ TrapInstruction(k) \/ TrapThenContinue(k)
           \/ MonitorTrap(k) \/ IntcStore(k) \/ Faults(k, mem)
  BY DEF Execute
<1>2. /\ k \in ContextType /\ k.a7 = c.a7 /\ k.sr.s = c.sr.s /\ k.ssp = c.ssp
      /\ k.pc \in Pcs
  BY StartFacts, SyncSrFacts DEF TypeOK, ContextType
<1>3. GuestSr \subseteq Sr
  BY MachineAssumption
<1> SUFFICES Banked(k, c')
  BY <1>2 DEF Banked
<1>4. ASSUME c'.sr.s = k.sr.s, c'.ssp = k.ssp
      PROVE  Banked(k, c')
  BY <1>2, <1>4, SameModeBanks
<1>5. CASE Faults(k, mem)
  <2>1. Banked(k, k)
    BY <1>2, SameModeBanks
  <2> QED BY <1>2, <1>5, <2>1, FaultsBank
<1>6. CASE Compute(k)
  <2>1. PICK pc \in Pcs, flags \in SUBSET Flags : c' = [k EXCEPT !.pc = pc, !.flags = flags]
    BY <1>6 DEF Compute
  <2> QED BY <1>2, <1>4, <2>1 DEF ContextType
<1>7. CASE MoveToCcr(k)
  <2>1. PICK pc \in Pcs, ccr \in SUBSET Flags : c' = [SetCcr(k, ccr) EXCEPT !.pc = pc]
    BY <1>7 DEF MoveToCcr
  <2>2. SetCcr(k, ccr) \in ContextType /\ SetCcr(k, ccr).sr.s = k.sr.s
    BY <1>2, SetCcrFacts
  <2>3. SetCcr(k, ccr).ssp = k.ssp
    BY <1>2 DEF SetCcr, ContextType
  <2> QED BY <1>4, <2>1, <2>2, <2>3 DEF ContextType
<1>8. CASE Jsr(k)
  <2>1. CASE k.a7 - 1 \in Slots
    <3>1. PICK pc \in Pcs : c' = [k EXCEPT !.a7 = k.a7 - 1, !.pc = pc]
      BY <1>8, <2>1 DEF Jsr
    <3> QED BY <1>2, <1>4, <3>1 DEF ContextType
  <2>2. CASE k.a7 - 1 \notin Slots
    <3> DEFINE d == [k EXCEPT !.a7 = k.a7 - 1]
    <3>1. Faults(d, mem)
      BY <1>8, <2>2 DEF Jsr
    <3>2. d \in ContextType /\ d.sr.s = k.sr.s /\ d.ssp = k.ssp
      BY <1>2 DEF ContextType
    <3>3. Banked(k, d)
      BY <1>2, <3>2, SameModeBanks
    <3> QED BY <1>2, <3>1, <3>2, <3>3, FaultsBank
  <2> QED BY <2>1, <2>2
<1>9. CASE Rts(k)
  <2>1. PICK pc : c' = [k EXCEPT !.a7 = @ + 1, !.pc = pc]
    BY <1>9 DEF Rts
  <2> QED BY <1>2, <1>4, <2>1 DEF ContextType
<1>10. CASE MoveToSr(k)
  <2>1. PICK pc \in Pcs, sr \in GuestSr : c' = [SetSr(k, sr) EXCEPT !.pc = pc]
    BY <1>10 DEF MoveToSr
  <2>2. sr \in Sr /\ SetSr(k, sr) \in ContextType /\ Banked(k, SetSr(k, sr))
    BY <1>2, <1>3, SetSrFacts, SetSrBanks
  <2>3. c'.sr.s = SetSr(k, sr).sr.s /\ c'.ssp = SetSr(k, sr).ssp /\ c'.a7 = SetSr(k, sr).a7
    BY <2>1, <2>2 DEF ContextType
  <2> QED BY <2>2, <2>3, AlikeBanks
<1>11. CASE Rte(k)
  <2>1. PICK sr \in AsSr(Load(mem, k.a7)) :
            \E pc \in AsPc(Load(mem, ReturnSp(k, sr))) : c' = RteReturn(k, sr, pc)
    BY <1>11 DEF Rte
  <2>2. sr \in Sr /\ k.sr.s /\ \E pc \in Pcs : c' = RteReturn(k, sr, pc)
    BY <1>11, <2>1 DEF AsSr, AsPc, Rte
  <2> QED BY <1>2, <2>2, RteBanks
<1>12. CASE Stop(k)
  <2>1. PICK pc \in Pcs, sr \in GuestSr : c' = [SetSr(k, sr) EXCEPT !.pc = pc, !.halt = TRUE]
    BY <1>12 DEF Stop
  <2>2. sr \in Sr /\ SetSr(k, sr) \in ContextType /\ Banked(k, SetSr(k, sr))
    BY <1>2, <1>3, SetSrFacts, SetSrBanks
  <2>3. c'.sr.s = SetSr(k, sr).sr.s /\ c'.ssp = SetSr(k, sr).ssp /\ c'.a7 = SetSr(k, sr).a7
    BY <2>1, <2>2 DEF ContextType
  <2> QED BY <2>2, <2>3, AlikeBanks
<1>13. CASE MoveToVbr(k)
  <2>1. PICK pc \in Pcs, base \in GuestBases : c' = [k EXCEPT !.pc = pc, !.vbr = base]
    BY <1>13 DEF MoveToVbr
  <2> QED BY <1>2, <1>4, <2>1 DEF ContextType
<1>14. CASE MoveToUsp(k)
  <2>1. PICK pc \in Pcs : c' = [k EXCEPT !.pc = pc, !.usp = MemTop]
    BY <1>14 DEF MoveToUsp
  <2> QED BY <1>2, <1>4, <2>1 DEF ContextType
<1>15. ASSUME NEW vector \in Traps, NEW pc \in Pcs, Trap(k, vector, pc)
       PROVE  Banked(k, c')
  <2>1. /\ TrapHandler(vector) \in Pcs /\ ExceptionOpen(k) \in ContextType
        /\ Banked(k, ExceptionOpen(k)) /\ Banked(k, ExceptionEntry(k, TrapHandler(vector)))
    BY <1>2, VectorFacts, ExceptionFacts, ExceptionBanks
  <2>2. CASE FrameFits(ExceptionOpen(k).a7)
    BY <1>15, <2>1, <2>2, Zenon DEF Trap
  <2>3. CASE ~FrameFits(ExceptionOpen(k).a7)
    <3>1. \E m : Faults(ExceptionOpen(k), m)
      BY <1>15, <2>3, Zenon DEF Trap
    <3> QED BY <1>2, <2>1, <3>1, FaultsBank
  <2> QED BY <2>2, <2>3
<1>16. CASE PrivilegeViolation(k) \/ TrapInstruction(k)
  <2>1. 8 \in Traps
    BY MachineAssumption
  <2> QED BY <1>2, <1>15, <1>16, <2>1 DEF PrivilegeViolation, TrapInstruction
<1>17. CASE TrapThenContinue(k)
  <2>1. CASE FrameFits(ExceptionOpen(k).a7)
    <3>1. PICK pc \in Pcs : c' = ExceptionEntry(k, pc)
      BY <1>17, <2>1, Zenon DEF TrapThenContinue
    <3> QED BY <1>2, <3>1, ExceptionBanks
  <2>2. CASE ~FrameFits(ExceptionOpen(k).a7)
    <3>1. \E m : Faults(ExceptionOpen(k), m)
      BY <1>17, <2>2, Zenon DEF TrapThenContinue
    <3>2. ExceptionOpen(k) \in ContextType /\ Banked(k, ExceptionOpen(k))
      BY <1>2, ExceptionFacts, ExceptionBanks
    <3> QED BY <1>2, <3>1, <3>2, FaultsBank
  <2> QED BY <2>1, <2>2
<1>18. CASE MonitorTrap(k)
  <2>1. PICK pc \in Pcs : c' = [k EXCEPT !.pc = pc, !.halt = TRUE]
    BY <1>18 DEF MonitorTrap
  <2> QED BY <1>2, <1>4, <2>1 DEF ContextType
<1>19. CASE IntcStore(k)
  <2>1. PICK pc \in Pcs : c' = [k EXCEPT !.pc = pc]
    BY <1>19 DEF IntcStore
  <2> QED BY <1>2, <1>4, <2>1 DEF ContextType
<1>20. CASE RteFails(k)
  <2>1. PICK sr \in Sr : Faults([SetSr(k, sr) EXCEPT !.a7 = ReturnSp(k, sr)], mem)
    BY <1>20 DEF RteFails, AsSr
  <2> DEFINE r == SetSr(k, sr)
             d == [r EXCEPT !.a7 = ReturnSp(k, sr)]
  <2>2. r \in ContextType /\ r.sr = sr /\ Banked(k, r) /\ ReturnSp(k, sr) \in Int
    BY <1>2, SetSrFacts, SetSrBanks DEF ReturnSp, ContextType
  <2>3. d.sr = r.sr /\ d.ssp = r.ssp /\ d.a7 = ReturnSp(k, sr) /\ d \in ContextType
    <3> HIDE DEF r
    <3> QED BY <2>2 DEF ContextType
  <2>4. k.sr.s /\ Faults(d, mem)
    BY <1>20, <2>1 DEF RteFails
  <2> HIDE DEF r, d
  <2>5. Banked(k, d)
    BY <2>2, <2>3, <2>4 DEF Banked
  <2> QED BY <1>2, <2>3, <2>4, <2>5, FaultsBank
<1> QED BY <1>1, <1>5, <1>6, <1>7, <1>8, <1>9, <1>10, <1>11, <1>12, <1>13, <1>14, <1>16, <1>17,
           <1>18, <1>19, <1>20

\* Every step of the machine that is not a reset keeps the rule.
LEMMA NextBanks ==
    ASSUME TypeOK, [Next]_vars, c' # ResetContext(c) \/ c' = c
    PROVE  Banked(c, c')
<1>1. c \in ContextType /\ c.sr.ipl \in Ipl
  BY DEF TypeOK, ContextType, Sr
<1>2. CASE UNCHANGED c
  BY <1>1, <1>2, SameModeBanks
<1>3. CASE PollInterrupts
  <2>1. CASE HighestPending > c.sr.ipl
    <3>1. HighestPending \in Levels /\ HighestPending \in Ipl
      BY <1>1, <2>1, HighestPendingFacts, MachineAssumption DEF TypeOK, Ipl
    <3>2. VectorReadable => InterruptHandler(HighestPending) \in Pcs
      BY <3>1, VectorFacts
    <3>3. \/ /\ c' = InterruptEntry(c, HighestPending, InterruptHandler(HighestPending))
             /\ VectorReadable
          \/ c' = InterruptOpen(c)
          \/ c' = InterruptPushed(c, HighestPending)
      BY <1>3, <2>1, Zenon DEF PollInterrupts, Accept, AcceptInterrupt, AcceptFails, VectorFails
    <3>4. c.pc \in Pcs
      BY <1>1 DEF ContextType
    <3> QED BY <1>1, <3>1, <3>2, <3>3, <3>4, InterruptBanks
  <2>2. CASE ~(HighestPending > c.sr.ipl)
    BY <1>2, <1>3, <2>2 DEF PollInterrupts
  <2> QED BY <2>1, <2>2
<1>4. CASE Execute
  BY <1>4, ExecuteBanks
<1>5. CASE AdvanceDevices \/ AdvanceRealTime \/ SetOverlay \/ ErrorCaught
  BY <1>2, <1>5 DEF AdvanceDevices, AdvanceRealTime, SetOverlay, ErrorCaught
<1>6. CASE Reset
  BY <1>2, <1>6 DEF Reset
<1>7. CASE MonitorSets
  <2>1. PICK pc \in Pcs, halt \in BOOLEAN : c' = [c EXCEPT !.pc = pc, !.halt = halt]
    BY <1>7 DEF MonitorSets
  <2>2. c'.sr.s = c.sr.s /\ c'.ssp = c.ssp
    BY <1>1, <2>1 DEF ContextType
  <2> QED BY <1>1, <2>2, SameModeBanks
<1> QED BY <1>2, <1>3, <1>4, <1>5, <1>6, <1>7 DEF Next, vars

\* The supervisor stack pointer survives whatever user code does, and the next
\* entry to supervisor mode uses it; entries that fail for want of stack included
\* (setSr, exception, acceptInterrupt, RTE and STOP with S clear).
THEOREM SupervisorStackSafe == Spec => SupervisorStackKept
<1> DEFINE Kept ==
        /\ c.sr.s /\ ~c'.sr.s =>
               \/ c'.ssp = c.a7
               \/ Len(frames') < Len(frames) /\ c'.ssp = c.a7 + 2
        /\ ~c.sr.s /\ ~c'.sr.s => c'.ssp = c.ssp
        /\ ~c.sr.s /\ c'.sr.s /\ c' # ResetContext(c) => c'.a7 \in {c.ssp, c.ssp - 2}
<1>1. TypeOK /\ [Next]_vars => [Kept]_vars
  <2> SUFFICES ASSUME TypeOK, [Next]_vars PROVE Kept
    OBVIOUS
  <2>1. CASE c' # ResetContext(c)
    BY <2>1, NextBanks DEF Banked
  <2>2. CASE c' = ResetContext(c)
    <3>1. ResetContext(c).sr.s
      BY ResetFacts, VectorFacts DEF TypeOK
    <3> QED BY <2>2, <3>1
  <2> QED BY <2>1, <2>2
<1> QED BY <1>1, TypeCorrect, PTL DEF Spec, SupervisorStackKept

-----------------------------------------------------------------------------
(* Interrupts. *)

\* A raised level is forgotten only when its handler is entered, by a store to
\* the acknowledge register, or by a reset (acceptInterrupt, Intc.acknowledge).
THEOREM InterruptsAreKept == Spec => NoInterruptLost
<1> DEFINE Accounted ==
        \A level \in pending \ pending' :
            \/ at = "execute"
            \/ frames' = <<>> /\ c' = ResetContext(c)
            \/ Len(frames') = Len(frames) + 1 /\ frames'[1].level = level
<1>1. TypeOK /\ [Next]_vars => [Accounted]_vars
  <2> SUFFICES ASSUME TypeOK, [Next]_vars PROVE Accounted
    OBVIOUS
  <2>1. CASE pending \subseteq pending'
    BY <2>1
  <2>2. CASE PollInterrupts
    <3>1. ASSUME NEW l, AcceptInterrupt(l)
          PROVE  Accounted
      <4> DEFINE f == Suspended(l, c.pc, InterruptOpen(c).a7)
      <4>1. pending' = pending \ {l} /\ frames' = <<f>> \o frames /\ f.level = l
        BY <3>1 DEF AcceptInterrupt, Acknowledge, Suspend, Suspended
      <4> HIDE DEF f
      <4>2. Len(frames') = Len(frames) + 1 /\ frames'[1] = f
        BY <4>1 DEF TypeOK
      <4> QED BY <4>1, <4>2
    <3>2. ASSUME NEW l, AcceptFails(l) \/ VectorFails(l)
          PROVE  Accounted
      BY <2>1, <3>2 DEF AcceptFails, VectorFails, intc
    <3>3. CASE ~(HighestPending > c.sr.ipl)
      BY <2>1, <2>2, <3>3 DEF PollInterrupts, intc
    <3> QED BY <2>2, <3>1, <3>2, <3>3 DEF PollInterrupts, Accept
  <2>3. CASE Execute
    BY <2>3 DEF Execute
  <2>4. CASE Reset
    BY <2>4 DEF Reset
  <2>5. CASE AdvanceDevices \/ AdvanceRealTime
    BY <2>1, <2>5 DEF AdvanceDevices, AdvanceRealTime, Raise
  <2>6. CASE SetOverlay \/ MonitorSets \/ ErrorCaught
    BY <2>1, <2>6 DEF SetOverlay, MonitorSets, ErrorCaught, intc
  <2>7. CASE UNCHANGED vars
    BY <2>1, <2>7 DEF vars
  <2> QED BY <2>2, <2>3, <2>4, <2>5, <2>6, <2>7 DEF Next
<1> QED BY <1>1, TypeCorrect, PTL DEF Spec, NoInterruptLost

=============================================================================
