---------------------------- MODULE BlocksProofs ----------------------------
(* The compiled block does what the single steps do, for any set of decoders, *)
(* any block and any length, and a cached block is one that would be compiled *)
(* again, for every memory and every way in which blocks overlap.             *)
EXTENDS Blocks, CodeCache, TLAPS

\* Decoding leaves the contexts alone, and a block that has ended stored the same
\* PC and the same count.
EndsAgree ==
    /\ phase = "decode" => block.flags = step.flags
    /\ phase = "done" => block.i = step.i /\ (Faithful => block.pc = step.pc)

Inv == TypeOK /\ LiveFlagsAgree /\ EndsAgree

-----------------------------------------------------------------------------
(* Lemmas about the operators. *)

LEMMA InstructionType ==
    ASSUME asm \in Seq(Decoded), NEW n \in 1 .. Len(asm)
    PROVE  /\ asm[n] \in Decoded
           /\ asm[n] \in Instruction
           /\ asm[n].in \subseteq Flags \cup {"sr", "pc"}
           /\ asm[n].out \subseteq Flags /\ asm[n].own \subseteq Flags
           /\ asm[n].sets \subseteq Flags /\ asm[n].may \subseteq Flags
           /\ asm[n].reads \subseteq Flags
           /\ asm[n].quits \in BOOLEAN
           /\ asm[n].jump # "no" => asm[n].quits
<1>1. asm[n] \in Decoded  OBVIOUS
<1>2. asm[n] \in Instruction  BY <1>1, BlocksAssumption
<1> QED BY <1>1, <1>2, BlocksAssumption DEF Instruction

LEMMA AssignType ==
    ASSUME NEW flags \in [Flags -> Int], NEW assigned, next \in Int
    PROVE  Assign(flags, assigned) \in [Flags -> Int]
BY DEF Assign

\* An instruction that declares f as an input keeps f from being dropped.
LEMMA DeclaredIsUsed ==
    ASSUME next \in Nat, NEW f, DeclaresInput(asm[next], f)
    PROVE  ~Unused(next - 1, f)
BY DEF Unused

\* Behind an instruction that does not assign f, f is unused if it was before.
LEMMA UnusedNext ==
    ASSUME next \in Nat, Len(asm) \in Nat, NEW f, Unused(next - 1, f), f \notin asm[next].out
    PROVE  Unused(next, f)
BY DEF Unused

\* Nothing is unused at the end of a block.
LEMMA UsedAtEnd ==
    ASSUME Len(asm) \in Nat, NEW f
    PROVE  ~Unused(Len(asm), f)
BY DEF Unused

-----------------------------------------------------------------------------
(* Type correctness. *)

LEMMA TypeInit == Init => TypeOK /\ LiveFlagsAgree /\ EndsAgree
<1> SUFFICES ASSUME Init PROVE TypeOK /\ LiveFlagsAgree /\ EndsAgree  OBVIOUS
<1> USE DEF Init
<1>1. step \in StepContext /\ step.i = 0
  BY DEF StepStart, StepContext, FlagsFrom, Before
<1>2. PICK origin \in {Before, Stale} :
          block = [flags |-> FlagsFrom(Before), sr |-> FlagsFrom(origin), pc |-> 1, i |-> 0]
  BY DEF BlockStarts
<1>3. block \in BlockContext /\ block.i = 0 /\ block.flags = step.flags
  BY <1>2 DEF StepStart, BlockContext, FlagsFrom, Before, Stale
<1>4. asm \in Seq(Decoded) /\ Len(asm) = 0  OBVIOUS
<1>5. TypeOK  BY <1>1, <1>3, <1>4 DEF TypeOK
<1> QED  BY <1>3, <1>5 DEF LiveFlagsAgree, EndsAgree

LEMMA StartsAgain ==
    ASSUME NextBlock
    PROVE  TypeOK' /\ LiveFlagsAgree' /\ EndsAgree'
<1> USE DEF NextBlock
<1>1. step' \in StepContext /\ step'.i = 0
  BY DEF StepStart, StepContext, FlagsFrom, Before
<1>2. PICK origin \in {Before, Stale} :
          block' = [flags |-> FlagsFrom(Before), sr |-> FlagsFrom(origin), pc |-> 1, i |-> 0]
  BY DEF BlockStarts
<1>3. block' \in BlockContext /\ block'.i = 0 /\ block'.flags = step'.flags
  BY <1>2 DEF StepStart, BlockContext, FlagsFrom, Before, Stale
<1>4. asm' \in Seq(Decoded) /\ Len(asm') = 0  OBVIOUS
<1>5. TypeOK'  BY <1>1, <1>3, <1>4 DEF TypeOK
<1> QED  BY <1>3, <1>5 DEF LiveFlagsAgree, EndsAgree

LEMMA Decodes ==
    ASSUME Inv, DecodeNext
    PROVE  TypeOK' /\ LiveFlagsAgree' /\ EndsAgree'
<1> USE DEF DecodeNext
<1>1. PICK d \in Decoded : /\ asm' = Append(asm, d)
                           /\ phase' = IF d.quits THEN "run" ELSE "decode"
  OBVIOUS
<1>2. asm \in Seq(Decoded) /\ phase = "decode" /\ next = 1 /\ Len(asm) \in Nat
  BY DEF Inv, TypeOK
<1>3. /\ asm' \in Seq(Decoded) /\ Len(asm') = Len(asm) + 1
      /\ asm'[Len(asm')] = d
      /\ \A i \in 1 .. Len(asm) : asm'[i] = asm[i]
  BY <1>1, <1>2
<1>4. d.quits \in BOOLEAN  BY BlocksAssumption DEF Instruction
<1>5. \A i \in 1 .. Len(asm) : ~asm[i].quits
  <2>1. ASSUME NEW i \in 1 .. Len(asm) PROVE ~asm[i].quits
    <3>1. CASE i = Len(asm)  BY <3>1, <1>2 DEF Inv, TypeOK
    <3>2. CASE i \in 1 .. Len(asm) - 1  BY <3>2 DEF Inv, TypeOK
    <3> QED BY <3>1, <3>2, <1>2
  <2> QED BY <2>1
<1>6. \A i \in 1 .. Len(asm') - 1 : ~asm'[i].quits  BY <1>2, <1>3, <1>5
<1>7. phase' \in {"decode", "run"} /\ (phase' = "decode" <=> ~d.quits)  BY <1>1, <1>4
<1>8. TypeOK'
  BY <1>2, <1>3, <1>6, <1>7 DEF Inv, TypeOK
<1> QED  BY <1>2, <1>7, <1>8 DEF Inv, EndsAgree, LiveFlagsAgree

LEMMA DecodingFails ==
    ASSUME Inv, DecodeFails
    PROVE  TypeOK' /\ LiveFlagsAgree' /\ EndsAgree'
<1>1. /\ asm \in Seq(Decoded) /\ phase = "decode" /\ next = 1
      /\ asm' = asm /\ next' = next /\ step' = step /\ block' = block
      /\ phase' = IF asm = <<>> THEN "failed" ELSE "alone"
  BY DEF DecodeFails, Inv, TypeOK
<1>2. asm # <<>> => next <= Len(asm)  BY <1>1
<1>3. TypeOK'  BY <1>1, <1>2 DEF Inv, TypeOK
<1>4. LiveFlagsAgree'  BY <1>1 DEF Inv, LiveFlagsAgree, EndsAgree
<1> QED  BY <1>1, <1>3, <1>4 DEF EndsAgree

-----------------------------------------------------------------------------
(* One instruction of the block. *)

\* What the proofs use of the state in which an instruction is executed.
LEMMA Stepping ==
    ASSUME Inv, phase \in {"run", "alone"}
    PROVE  /\ asm \in Seq(Decoded) /\ Len(asm) \in Nat
           /\ next \in 1 .. Len(asm) /\ next \in Nat
           /\ asm[next] \in Instruction
           /\ step \in StepContext /\ block \in BlockContext
           /\ block.i = 0 /\ step.i = next - 1
<1>1. asm \in Seq(Decoded) /\ Len(asm) \in Nat /\ next \in 1 .. Len(asm) /\ next \in Nat
  BY DEF Inv, TypeOK
<1>2. asm[next] \in Instruction  BY <1>1, InstructionType
<1> QED  BY <1>1, <1>2 DEF Inv, TypeOK

LEMMA Running ==
    ASSUME Inv, phase = "run"
    PROVE  /\ asm \in Seq(Decoded) /\ Len(asm) \in Nat
           /\ next \in 1 .. Len(asm) /\ next \in Nat
           /\ asm[next] \in Instruction
           /\ asm[next].quits <=> next = Len(asm)
           /\ step \in StepContext /\ block \in BlockContext
           /\ block.i = 0 /\ step.i = next - 1
<1>1. next = Len(asm) => asm[next].quits  BY DEF Inv, TypeOK
<1>2. next # Len(asm) => ~asm[next].quits
  BY Stepping DEF Inv, TypeOK
<1> QED  BY <1>1, <1>2, Stepping

\* What either engine leaves in the step context keeps its type.
LEMMA StepType ==
    ASSUME Inv, phase \in {"run", "alone"}, NEW assigned, NEW target \in Int
    PROVE  /\ StepInstruction(asm[next], assigned, target) \in StepContext
           /\ StepInstruction(asm[next], assigned, target).i = next
<1> DEFINE d == asm[next]
<1>1. next \in Nat /\ step \in StepContext /\ step.i = next - 1  BY Stepping
<1>2. step.flags \in [Flags -> Int]  BY <1>1 DEF StepContext
<1>3. Assign(step.flags, assigned \cup Expressions(d)) \in [Flags -> Int]
  BY <1>1, <1>2, AssignType
<1>4. (IF d.jump # "no" /\ StepKeepsPc(d) THEN target ELSE next + 1) \in Int  BY <1>1
<1>5. step.i + 1 = next  BY <1>1
<1> QED  BY <1>1, <1>3, <1>4, <1>5 DEF StepInstruction, StepContext

LEMMA StepFailedType ==
    ASSUME Inv, phase \in {"run", "alone"}, NEW assigned
    PROVE  /\ StepFailed(asm[next], assigned) \in StepContext
           /\ StepFailed(asm[next], assigned).i = step.i
           /\ StepFailed(asm[next], assigned).flags = Assign(step.flags, assigned)
<1> DEFINE d == asm[next]
<1>1. next \in Nat /\ step \in StepContext  BY Stepping
<1>2. step.flags \in [Flags -> Int] /\ step.pc \in Int  BY <1>1 DEF StepContext
<1>3. Assign(step.flags, assigned) \in [Flags -> Int]  BY <1>1, <1>2, AssignType
<1>4. (IF "pc" \in d.in THEN next + 1 ELSE step.pc) \in Int  BY <1>1, <1>2
<1> QED  BY <1>1, <1>3, <1>4 DEF StepFailed, StepContext

\* The flag that both engines keep stays equal or unused; one that the compiled
\* code drops is unused from here on.
LEMMA FlagsAfter ==
    ASSUME Inv, phase = "run", Faithful,
           NEW assigned, asm[next].sets \subseteq assigned,
           NEW f \in Flags
    PROVE  \/ Assign(block.flags, assigned \cup
                        {g \in Expressions(asm[next]) : ~Unused(next, g)})[f]
                = Assign(step.flags, assigned \cup Expressions(asm[next]))[f]
           \/ Unused(next, f)
<1> DEFINE d == asm[next]
           dropped == {g \in Expressions(d) : ~Unused(next, g)}
<1>1. CASE f \in assigned  BY <1>1 DEF Assign
<1>2. CASE f \in Expressions(d)  BY <1>2 DEF Assign
<1>3. CASE f \notin assigned /\ f \notin Expressions(d)
  <2>1. /\ Assign(block.flags, assigned \cup dropped)[f] = block.flags[f]
        /\ Assign(step.flags, assigned \cup Expressions(d))[f] = step.flags[f]
    BY <1>3 DEF Assign
  <2>2. CASE block.flags[f] = step.flags[f]  BY <2>1, <2>2
  <2>3. CASE Unused(next - 1, f)
    <3>1. next \in 1 .. Len(asm) /\ next \in Nat /\ Len(asm) \in Nat  BY Running
    <3>2. DeclaresFlags(d)  BY <3>1 DEF Faithful
    <3>3. ~DeclaresInput(d, f)  BY <2>3, <3>1, DeclaredIsUsed
    <3>4. f \notin d.out  BY <1>3, <3>2, <3>3 DEF Expressions, DeclaresFlags
    <3> QED  BY <2>3, <3>1, <3>4, UnusedNext
  <2> QED  BY <2>2, <2>3 DEF Inv, LiveFlagsAgree
<1> QED  BY <1>1, <1>2, <1>3

LEMMA SrAfterType ==
    ASSUME Inv, phase = "run", NEW assigned, NEW sr \in SrAfter(asm[next], assigned)
    PROVE  sr \in [Flags -> Int]
<1>1. block \in BlockContext /\ next \in Int  BY Running
<1>2. block.flags \in [Flags -> Int] /\ block.sr \in [Flags -> Int]
  BY <1>1 DEF BlockContext
<1>3. Assign(block.flags, assigned) \in [Flags -> Int]  BY <1>1, <1>2, AssignType
<1>4. Prepared(asm[next]).sr \in {block.sr, block.flags}  BY <1>1 DEF Prepared, BlockContext
<1> QED  BY <1>2, <1>3, <1>4 DEF SrAfter

LEMMA Executes ==
    ASSUME Inv, Execute
    PROVE  TypeOK' /\ LiveFlagsAgree' /\ EndsAgree'
<1> DEFINE d == asm[next]
<1>1. PICK chosen \in SUBSET d.may, target \in {next + 1, Elsewhere} :
          LET assigned == d.sets \cup chosen IN
          /\ step' = StepInstruction(d, assigned, target)
          /\ \E sr \in SrAfter(d, assigned) :
                 block' = CompiledInstruction(d, assigned, target, sr)
          /\ phase' = IF d.quits THEN "done" ELSE "run"
  BY DEF Execute
<1> DEFINE assigned == d.sets \cup chosen
<1>2. PICK sr \in SrAfter(d, assigned) : block' = CompiledInstruction(d, assigned, target, sr)
  BY <1>1
<1>3. phase = "run" /\ next' = next + 1 /\ asm' = asm  BY DEF Execute
<1>4. /\ asm \in Seq(Decoded) /\ Len(asm) \in Nat
      /\ next \in 1 .. Len(asm) /\ next \in Nat
      /\ d \in Instruction /\ (d.quits <=> next = Len(asm))
      /\ step \in StepContext /\ block \in BlockContext
      /\ block.i = 0 /\ step.i = next - 1
  BY <1>3, Running
<1>5. phase' = IF next = Len(asm) THEN "done" ELSE "run"  BY <1>1, <1>4
<1>6. /\ step'.i = next
      /\ block'.i = IF next = Len(asm) THEN Len(asm) ELSE 0
  BY <1>1, <1>2, <1>4 DEF StepInstruction, CompiledInstruction
<1>7. step' \in StepContext
  <2>1. target \in Int  BY <1>4 DEF Elsewhere
  <2> QED  BY <1>1, <1>3, <2>1, StepType
<1>8. block' \in BlockContext
  <2>1. block.flags \in [Flags -> Int] /\ block.pc \in Int  BY <1>4 DEF BlockContext
  <2>2. Assign(block.flags, assigned \cup {f \in Expressions(d) : ~Unused(next, f)})
            \in [Flags -> Int]
    BY <2>1, <1>4, AssignType
  <2>3. sr \in [Flags -> Int]  BY <1>3, SrAfterType
  <2>4. Prepared(d).pc \in Int  BY <2>1, <1>4 DEF Prepared, BlockContext
  <2>5. CompiledPc(d, target) \in Int  BY <2>4, <1>4 DEF CompiledPc, Elsewhere
  <2>6. (IF d.quits THEN block.i + Len(asm) ELSE block.i) \in Nat  BY <1>4
  <2> QED  BY <1>2, <2>2, <2>3, <2>5, <2>6 DEF CompiledInstruction, BlockContext
<1>9. TypeOK'
  BY <1>3, <1>4, <1>5, <1>6, <1>7, <1>8 DEF Inv, TypeOK
<1>10. LiveFlagsAgree'
  <2>1. ASSUME Faithful', NEW f \in Flags
        PROVE  block'.flags[f] = step'.flags[f] \/ Unused(next, f)
    <3>1. Faithful  BY <1>3, <2>1 DEF Faithful
    <3>2. /\ block'.flags = Assign(block.flags, assigned \cup
                                  {g \in Expressions(d) : ~Unused(next, g)})
          /\ step'.flags = Assign(step.flags, assigned \cup Expressions(d))
      BY <1>1, <1>2 DEF StepInstruction, CompiledInstruction
    <3> QED  BY <1>3, <3>1, <3>2, FlagsAfter
  <2>2. next' - 1 = next  BY <1>3, <1>4
  <2>3. ASSUME NEW f PROVE Unused(next, f) <=> Unused(next - 1, f)'
    BY <1>3, <2>2 DEF Unused, DeclaresInput
  <2> QED  BY <2>1, <2>3 DEF LiveFlagsAgree
<1>11. EndsAgree'
  <2> SUFFICES ASSUME phase' = "done"
               PROVE  block'.i = step'.i /\ (Faithful' => block'.pc = step'.pc)
    BY <1>5 DEF EndsAgree
  <2>1. next = Len(asm) /\ d.quits  BY <1>4, <1>5
  <2>2. ASSUME Faithful' PROVE block'.pc = step'.pc
    <3>1. DeclaresPc(d)  BY <1>3, <1>4, <2>2 DEF Faithful
    <3>2. d.jump \in {"no", "text", "call"}  BY <1>4 DEF Instruction
    <3>3. /\ step'.pc = IF d.jump # "no" /\ StepKeepsPc(d) THEN target ELSE next + 1
          /\ block'.pc = CompiledPc(d, target)
      BY <1>1, <1>2 DEF StepInstruction, CompiledInstruction
    <3> QED  BY <2>1, <3>1, <3>2, <3>3 DEF DeclaresPc, StepKeepsPc, CompiledPc
  <2> QED  BY <1>6, <2>1, <2>2
<1> QED  BY <1>9, <1>10, <1>11


\* An error in the middle of an instruction: both engines have assigned the same
\* flags by then.
LEMMA ExecutingFails ==
    ASSUME Inv, ExecuteFails
    PROVE  TypeOK' /\ LiveFlagsAgree' /\ EndsAgree'
<1> DEFINE d == asm[next]
<1>1. PICK assigned \in SUBSET (d.sets \cup d.may) :
          /\ step' = StepFailed(d, assigned)
          /\ \E sr \in SrAfter(d, assigned) :
                 block' = [Prepared(d) EXCEPT !.flags = Assign(@, assigned), !.sr = sr]
  BY DEF ExecuteFails
<1>2. PICK sr \in SrAfter(d, assigned) :
          block' = [Prepared(d) EXCEPT !.flags = Assign(@, assigned), !.sr = sr]
  BY <1>1
<1>3. phase = "run" /\ phase' = "failed" /\ asm' = asm /\ next' = next
  BY DEF ExecuteFails
<1>4. /\ asm \in Seq(Decoded) /\ Len(asm) \in Nat
      /\ next \in 1 .. Len(asm) /\ next \in Nat
      /\ step \in StepContext /\ block \in BlockContext
      /\ block.i = 0 /\ step.i = next - 1
  BY <1>3, Running
<1>5. step.flags \in [Flags -> Int] /\ block.flags \in [Flags -> Int] /\ step.pc \in Int
  BY <1>4 DEF StepContext, BlockContext
<1>6. /\ Assign(step.flags, assigned) \in [Flags -> Int]
      /\ Assign(block.flags, assigned) \in [Flags -> Int]
  BY <1>4, <1>5, AssignType
<1>7. step' \in StepContext /\ step'.i = step.i /\ step'.flags = Assign(step.flags, assigned)
  BY <1>1, <1>3, StepFailedType
<1>8. /\ Prepared(d) \in BlockContext /\ Prepared(d).flags = block.flags
      /\ Prepared(d).i = block.i
  <2> DEFINE pc == IF "pc" \in d.in THEN next + 1 ELSE block.pc
             codes == IF "sr" \in d.in THEN block.flags ELSE block.sr
  <2>1. Prepared(d) = [block EXCEPT !.pc = pc, !.sr = codes]  BY DEF Prepared
  <2>2. pc \in Int /\ codes \in [Flags -> Int]  BY <1>4 DEF BlockContext
  <2> HIDE DEF pc, codes
  <2> QED  BY <1>4, <2>1, <2>2 DEF BlockContext
<1>9. /\ block' \in BlockContext /\ block'.i = block.i
      /\ block'.flags = Assign(block.flags, assigned)
  <2>1. sr \in [Flags -> Int]  BY <1>3, SrAfterType
  <2> QED  BY <1>2, <1>6, <1>8, <2>1 DEF BlockContext
<1>10. TypeOK'
  BY <1>3, <1>4, <1>7, <1>9 DEF Inv, TypeOK
<1>11. LiveFlagsAgree'
  <2>1. ASSUME Faithful', NEW f \in Flags
        PROVE  block'.flags[f] = step'.flags[f] \/ Unused(next - 1, f)
    <3>1. Faithful  BY <1>3, <2>1 DEF Faithful
    <3>2. block.flags[f] = step.flags[f] \/ Unused(next - 1, f)
      BY <1>3, <3>1 DEF Inv, LiveFlagsAgree
    <3> QED  BY <1>7, <1>9, <3>2 DEF Assign
  <2>2. ASSUME NEW f PROVE Unused(next - 1, f) <=> Unused(next - 1, f)'
    BY <1>3 DEF Unused, DeclaresInput
  <2> QED  BY <2>1, <2>2 DEF LiveFlagsAgree
<1> QED  BY <1>3, <1>10, <1>11 DEF EndsAgree

\* The step engine alone, before an instruction that cannot be decoded.
LEMMA StepsAlone ==
    ASSUME Inv, StepAlone
    PROVE  TypeOK' /\ LiveFlagsAgree' /\ EndsAgree'
<1>1. PICK chosen \in SUBSET asm[next].may :
          step' = StepInstruction(asm[next], asm[next].sets \cup chosen, next + 1)
  BY DEF StepAlone
<1>2. /\ phase = "alone" /\ next' = next + 1 /\ asm' = asm /\ block' = block
      /\ phase' = IF next = Len(asm) THEN "aborted" ELSE "alone"
  BY DEF StepAlone
<1>3. /\ asm \in Seq(Decoded) /\ Len(asm) \in Nat /\ next \in 1 .. Len(asm)
      /\ next \in Nat /\ block \in BlockContext /\ block.i = 0
  BY <1>2, Stepping
<1>4. step' \in StepContext /\ step'.i = next  BY <1>1, <1>2, <1>3, StepType
<1>5. TypeOK'  BY <1>2, <1>3, <1>4 DEF Inv, TypeOK
<1> QED  BY <1>2, <1>5 DEF LiveFlagsAgree, EndsAgree

LEMMA StepsAloneFails ==
    ASSUME Inv, StepAloneFails
    PROVE  TypeOK' /\ LiveFlagsAgree' /\ EndsAgree'
<1>1. PICK assigned \in SUBSET (asm[next].sets \cup asm[next].may) :
          step' = StepFailed(asm[next], assigned)
  BY DEF StepAloneFails
<1>2. /\ phase = "alone" /\ phase' = "aborted"
      /\ asm' = asm /\ next' = next /\ block' = block
  BY DEF StepAloneFails
<1>3. step' \in StepContext /\ step'.i = step.i  BY <1>1, <1>2, StepFailedType
<1>4. TypeOK'  BY <1>2, <1>3 DEF Inv, TypeOK
<1> QED  BY <1>2, <1>4 DEF LiveFlagsAgree, EndsAgree

-----------------------------------------------------------------------------
(* The theorems. *)

LEMMA InductiveStep == Inv /\ [Next]_vars => Inv'
<1> SUFFICES ASSUME Inv, [Next]_vars PROVE Inv'  OBVIOUS
<1>1. CASE DecodeNext  BY <1>1, Decodes DEF Inv
<1>2. CASE DecodeFails  BY <1>2, DecodingFails DEF Inv
<1>3. CASE Execute  BY <1>3, Executes DEF Inv
<1>4. CASE ExecuteFails  BY <1>4, ExecutingFails DEF Inv
<1>5. CASE NextBlock  BY <1>5, StartsAgain DEF Inv
<1>6. CASE StepAlone  BY <1>6, StepsAlone DEF Inv
<1>7. CASE StepAloneFails  BY <1>7, StepsAloneFails DEF Inv
<1>8. CASE UNCHANGED vars
  BY <1>8 DEF vars, Inv, TypeOK, LiveFlagsAgree, EndsAgree, Faithful, Unused,
      DeclaresInput
<1> QED  BY <1>1, <1>2, <1>3, <1>4, <1>5, <1>6, <1>7, <1>8 DEF Next

LEMMA Invariance == Spec => []Inv
<1>1. Init => Inv  BY TypeInit DEF Inv
<1> QED  BY <1>1, InductiveStep, PTL DEF Spec

\* Every variable keeps its type, and a block is executed up to the instruction
\* that quits (compile, stepInstruction).
THEOREM TypeCorrect == Spec => []TypeOK
<1>1. Inv => TypeOK  BY DEF Inv
<1> QED  BY <1>1, Invariance, PTL

\* A condition code of the compiled block differs from the step engine's only
\* while nothing reads it before it is assigned again, after an error too.
THEOREM DroppedFlagsAreDead == Spec => []LiveFlagsAgree
<1>1. Inv => LiveFlagsAgree  BY DEF Inv
<1> QED  BY <1>1, Invariance, PTL

\* What the compiled code brings c.sr up to date with are the flags themselves.
LEMMA PreparedSr ==
    ASSUME block \in BlockContext, NEW d, "sr" \in d.in
    PROVE  Prepared(d).sr = block.flags
BY DEF Prepared, BlockContext

LEMMA RunFollows ==
    ASSUME Inv, Faithful, phase = "run"
    PROVE  /\ \A f \in asm[next].reads : block.flags[f] = step.flags[f]
           /\ asm[next].ccr => Prepared(asm[next]).sr = step.flags
<1> DEFINE d == asm[next]
<1>1. /\ asm \in Seq(Decoded) /\ Len(asm) \in Nat
      /\ next \in 1 .. Len(asm) /\ next \in Nat
      /\ d \in Instruction /\ (d.quits <=> next = Len(asm))
      /\ step \in StepContext /\ block \in BlockContext
  BY Running
<1>2. DeclaresFlags(d)  BY <1>1 DEF Faithful
<1>3. ASSUME NEW f \in Flags, DeclaresInput(d, f) PROVE block.flags[f] = step.flags[f]
  <2>1. ~Unused(next - 1, f)  BY <1>1, <1>3, DeclaredIsUsed
  <2> QED  BY <2>1 DEF Inv, LiveFlagsAgree
<1>4. ASSUME NEW f \in Flags, d.quits, f \notin d.out PROVE block.flags[f] = step.flags[f]
  <2>1. next = Len(asm)  BY <1>1, <1>4
  <2>2. ~Unused(next, f)  BY <1>1, <2>1, UsedAtEnd
  <2>3. ~Unused(next - 1, f)  BY <1>1, <1>4, <2>2, UnusedNext
  <2> QED  BY <2>3 DEF Inv, LiveFlagsAgree
<1>5. d.reads \subseteq Flags  BY <1>1, InstructionType
<1>6. \A f \in d.reads : block.flags[f] = step.flags[f]
  BY <1>2, <1>3, <1>4, <1>5 DEF DeclaresFlags
<1>7. ASSUME d.ccr PROVE Prepared(d).sr = step.flags
  <2>1. "sr" \in d.in  BY <1>2, <1>7 DEF DeclaresFlags
  <2>2. \A f \in Flags : block.flags[f] = step.flags[f]
    BY <1>3, <2>1 DEF DeclaresInput
  <2>3. block.flags \in [Flags -> Int] /\ step.flags \in [Flags -> Int]
    BY <1>1 DEF StepContext, BlockContext
  <2> QED  BY <1>1, <2>1, <2>2, <2>3, PreparedSr
<1> QED  BY <1>6, <1>7

\* A block whose decoders declare what their code does is executed like its
\* instructions one by one (compile, stepInstruction).
THEOREM BlockFollowsSteps == Spec => []BlocksFollowSteps
<1>1. Inv => BlocksFollowSteps
  <2> SUFFICES ASSUME Inv, Faithful
               PROVE  /\ phase = "run" =>
                             /\ \A f \in asm[next].reads : block.flags[f] = step.flags[f]
                             /\ asm[next].ccr => Prepared(asm[next]).sr = step.flags
                      /\ phase = "done" =>
                             /\ block.flags = step.flags
                             /\ block.pc = step.pc
                             /\ block.i = step.i
    BY DEF BlocksFollowSteps
  <2>1. ASSUME phase = "done" PROVE block.flags = step.flags
    <3>1. next - 1 = Len(asm) /\ Len(asm) \in Nat  BY <2>1 DEF Inv, TypeOK
    <3>2. \A f \in Flags : block.flags[f] = step.flags[f]
      BY <2>1, <3>1, UsedAtEnd DEF Inv, LiveFlagsAgree
    <3>3. block.flags \in [Flags -> Int] /\ step.flags \in [Flags -> Int]
      BY DEF Inv, TypeOK, StepContext, BlockContext
    <3> QED  BY <3>2, <3>3
  <2> QED  BY <2>1, RunFollows DEF Inv, EndsAgree
<1> QED  BY <1>1, Invariance, PTL

-----------------------------------------------------------------------------
(* The coherence of the code cache. *)

\* The bus writes and the loaders change RAM, and no block's own text.
LEMMA CacheTypesKept == CacheTypeOK /\ [CacheNext]_cacheVars => CacheTypeOK'
<1> SUFFICES ASSUME CacheTypeOK, [CacheNext]_cacheVars PROVE CacheTypeOK'
  OBVIOUS
<1>1. Snapshot \in [Cells -> Contents]
  BY DEF CacheTypeOK, Snapshot, Visible
<1>2. CASE UNCHANGED cacheVars
  BY <1>2 DEF CacheTypeOK, cacheVars, memory, cache
<1>3. CASE Store \/ InterruptOrReset
  BY <1>3 DEF CacheTypeOK, Store, InterruptOrReset, EmptyCache, memory
<1>4. ASSUME NEW b \in Blocks, RunBlock(b)
      PROVE  CacheTypeOK'
  BY <1>1, <1>4 DEF CacheTypeOK, RunBlock, Compile, memory, cache
<1>5. CASE LoadRam \/ LoadRom
  <2>1. PICK cell \in Cells : Behind({cell})
    BY <1>5, CodeCacheAssumption DEF LoadRam, LoadRom
  <2>2. behind' \in [Blocks -> SUBSET Cells] /\ UNCHANGED <<cached, body>>
    BY <2>1 DEF Behind, CacheTypeOK
  <2>3. ram' \in [Cells -> Contents] /\ rom' \in [Cells -> Contents] /\ UNCHANGED overlay
    BY <1>5, CodeCacheAssumption DEF LoadRam, LoadRom, CacheTypeOK
  <2> QED BY <2>2, <2>3 DEF CacheTypeOK
<1>6. CASE SetOverlay
  <2>1. overlay' \in BOOLEAN
    BY <1>6, Zenon DEF SetOverlay
  <2> QED BY <1>6, <2>1, CodeCacheAssumption DEF CacheTypeOK, SetOverlay, Behind
<1>7. ASSUME NEW b \in Blocks, Bench(b)
      PROVE  CacheTypeOK'
  <2>1. ram' \in [Cells -> Contents]
    BY <1>7 DEF Bench, CacheTypeOK
  <2>2. Covers[b] \subseteq Cells
    BY CodeCacheAssumption
  <2>3. body' \in [Blocks -> [Cells -> Contents]]
    BY <1>7, <2>1 DEF Bench, CacheTypeOK
  <2> QED BY <1>7, <2>1, <2>2, <2>3 DEF Bench, CacheTypeOK
<1> QED BY <1>2, <1>3, <1>4, <1>5, <1>6, <1>7 DEF CacheNext

\* What a step does to the code of a block that stays cached, cell by cell.
LEMMA CoherenceKept == CacheTypeOK /\ Coherent /\ [CacheNext]_cacheVars => Coherent'
<1> SUFFICES ASSUME CacheTypeOK, Coherent, [CacheNext]_cacheVars PROVE Coherent'
  OBVIOUS
<1>1. CASE UNCHANGED cacheVars
  BY <1>1 DEF Coherent, Visible, cacheVars, memory, cache
<1>2. CASE Store \/ InterruptOrReset
  BY <1>2 DEF Coherent, Store, InterruptOrReset, EmptyCache
<1>3. ASSUME NEW b \in Blocks, RunBlock(b)
      PROVE  Coherent'
  <2>1. CASE b \in cached
    BY <1>3, <2>1 DEF Coherent, RunBlock, Visible, memory, cache
  <2>2. CASE b \notin cached
    <3>1. Compile(b) /\ UNCHANGED memory
      BY <1>3, <2>2 DEF RunBlock
    <3>2. \A cell \in Cells : Snapshot[cell] = Visible(cell) /\ Visible(cell)' = Visible(cell)
      BY <3>1 DEF Snapshot, Visible, memory
    <3>3. Covers[b] \subseteq Cells /\ \A x \in Blocks : Covers[x] \subseteq Cells
      BY CodeCacheAssumption
    <3>4. /\ body'[b] = Snapshot
          /\ \A x \in cached : x # b /\ x \in Blocks /\ body'[x] = body[x] /\ behind'[x] = behind[x]
      BY <2>2, <3>1 DEF Compile, CacheTypeOK
    <3> QED BY <3>1, <3>2, <3>3, <3>4 DEF Coherent, Compile
  <2> QED BY <2>1, <2>2
<1>4. ASSUME NEW cells \in SUBSET Cells, Behind(cells),
             \A cell \in Cells \ cells : Visible(cell)' = Visible(cell)
      PROVE  Coherent'
  <2>1. \A b \in cached : Covers[b] \subseteq Cells /\ behind'[b] = behind[b] \cup cells
    BY <1>4, CodeCacheAssumption DEF Behind, CacheTypeOK
  <2> QED BY <1>4, <2>1 DEF Coherent, Behind
<1>5. CASE LoadRam
  <2>1. PICK cell \in Cells, value \in Contents :
            ram' = [ram EXCEPT ![cell] = value] /\ Behind({cell})
    BY <1>5 DEF LoadRam
  <2>2. \A x \in Cells \ {cell} : Visible(x)' = Visible(x)
    BY <1>5, <2>1 DEF LoadRam, Visible, CacheTypeOK
  <2> QED BY <1>4, <2>1, <2>2
<1>6. CASE LoadRom
  <2>1. PICK cell \in Low, value \in Contents :
            rom' = [rom EXCEPT ![cell] = value] /\ Behind({cell})
    BY <1>6 DEF LoadRom
  <2>2. \A x \in Cells \ {cell} : Visible(x)' = Visible(x)
    BY <1>6, <2>1 DEF LoadRom, Visible, CacheTypeOK
  <2> QED BY <1>4, <2>1, <2>2, CodeCacheAssumption
<1>7. CASE SetOverlay
  <2>1. \A x \in Cells \ Low : Visible(x)' = Visible(x)
    BY <1>7 DEF SetOverlay, Visible
  <2> QED BY <1>4, <1>7, <2>1, CodeCacheAssumption DEF SetOverlay
<1>8. ASSUME NEW b \in Blocks, Bench(b)
      PROVE  Coherent'
  <2>1. \A x \in Cells \ Covers[b] : Visible(x)' = Visible(x)
    BY <1>8 DEF Bench, Visible, CacheTypeOK
  <2>2. \A x \in Blocks : Covers[x] \subseteq Cells
    BY CodeCacheAssumption
  <2>3. ASSUME NEW x \in cached', NEW cell \in Covers[x] \ behind'[x]
        PROVE  body'[x][cell] = Visible(cell)'
    <3>1. CASE x = b /\ b \notin cached
      BY <1>8, <2>2, <3>1 DEF Bench, Visible, CacheTypeOK
    <3>2. CASE x \in cached
      <4>1. x \in Blocks /\ body'[x] = body[x]
        BY <1>8, <3>2 DEF Bench, CacheTypeOK
      <4>2. behind'[x] = behind[x] \cup Covers[b]
        BY <1>8, <3>2, <4>1 DEF Bench, CacheTypeOK
      <4> QED BY <2>1, <2>2, <2>3, <3>2, <4>1, <4>2 DEF Coherent
    <3> QED BY <1>8, <2>3, <3>1, <3>2 DEF Bench
  <2> QED BY <2>3 DEF Coherent
<1> QED BY <1>1, <1>2, <1>3, <1>5, <1>6, <1>7, <1>8 DEF CacheNext

LEMMA CacheInitially == CacheInit => CacheTypeOK /\ Coherent
BY DEF CacheInit, CacheTypeOK, Coherent, Snapshot, Visible

\* The types of memory and cache.
THEOREM CacheTypeCorrect == CacheSpec => []CacheTypeOK
BY CacheInitially, CacheTypesKept, PTL DEF CacheSpec

\* Stores, interrupts and resets in any order leave no cached block that differs
\* from memory, but for what was changed behind the bus.
THEOREM CacheCoherent == CacheSpec => []Coherent
BY CacheInitially, CacheTypesKept, CoherenceKept, PTL DEF CacheSpec

=============================================================================
