------------------------------- MODULE Blocks -------------------------------
(* j68.compile and the code it produces, beside stepInstruction of            *)
(* test_machine.js on the same instructions. compile decodes up to the first  *)
(* instruction that quits, drops the condition-code assignments it finds      *)
(* unused and stores PC and the instruction count once, at the end; the step  *)
(* engine decodes, runs and counts one instruction at a time. The two run     *)
(* side by side here, and the data of the program is the same in both, so     *)
(* what an instruction decides from data is one choice for both engines.      *)
(*                                                                            *)
(* A flag is represented by the instruction of the block that gave it its     *)
(* value: a flag that differs between the engines is a flag one of them has   *)
(* from the wrong instruction. Addresses are positions in the block.          *)
EXTENDS Decoders, Sequences

CONSTANTS
    Decoded,   \* the instructions decode() may answer with
    MaxBlock   \* the longest block considered

\* Every decoder that writes PC ends the block.
ASSUME BlocksAssumption ==
    /\ MaxBlock \in Nat \ {0}
    /\ Decoded \subseteq Instruction
    /\ \A d \in Decoded : d.jump # "no" => d.quits

VARIABLES
    asm,     \* the decoded instructions
    phase,   \* "decode"; "run"; "done", the block has ended; "failed", an error in
             \*   both engines; "alone", "aborted": the block did not compile
    next,    \* the instruction both engines execute next
    step,    \* the context as stepInstruction leaves it
    block    \* the context as the compiled code leaves it

vars == <<asm, phase, next, step, block>>

\* Where a value comes from, if not from an instruction of the block: the flag as
\* it was at the start, or condition codes of c.sr that were already behind it.
Before == 0
Stale == -1

\* An address that is not the next one.
Elsewhere == 0

FlagsFrom(origin) == [f \in Flags |-> origin]

-----------------------------------------------------------------------------
(* compile: dead condition codes. *)

DeclaresInput(d, f) == f \in d.in \/ "sr" \in d.in

\* Mutant: an instruction that reads the whole status register is overlooked.
UnusedAcrossSr(i, f) ==
    \E j \in i + 1 .. Len(asm) :
        /\ f \in asm[j].out
        /\ \A k \in i + 1 .. j : f \notin asm[k].in

\* Mutant: the outputs of an instruction are looked at before its inputs.
UnusedOutFirst(i, f) ==
    \E j \in i + 1 .. Len(asm) :
        /\ f \in asm[j].out
        /\ \A k \in i + 1 .. j - 1 : ~DeclaresInput(asm[k], f)

\* A later instruction assigns f and none up to and including it reads f.
Unused(i, f) ==
    \E j \in i + 1 .. Len(asm) :
        /\ f \in asm[j].out
        /\ \A k \in i + 1 .. j : ~DeclaresInput(asm[k], f)

-----------------------------------------------------------------------------
(* The code of one instruction d, the next one. assigned: the flags its own    *)
(* text assigns this time; target: where it leaves PC if it writes PC.        *)

Expressions(d) == d.out \ d.own

Assign(flags, assigned) == [f \in Flags |-> IF f \in assigned THEN next ELSE flags[f]]

\* stepInstruction assigns every declared output, and stores the next address
\* unless the decoder declares pc or the text assigns c.pc.
StepKeepsPc(d) == "pc" \in d.in \/ d.jump = "text"
StepInstruction(d, assigned, target) ==
    [flags |-> Assign(step.flags, assigned \cup Expressions(d)),
     pc    |-> IF d.jump # "no" /\ StepKeepsPc(d) THEN target ELSE next + 1,
     i     |-> step.i + 1]

\* Compiled code up to d: PC and SR are brought up to date only for an
\* instruction that declares them.
Prepared(d) ==
    [block EXCEPT !.pc = IF "pc" \in d.in THEN next + 1 ELSE @,
                  !.sr = IF "sr" \in d.in THEN block.flags ELSE @]

\* A memory access synchronises c.sr, before or after the text assigns flags.
SrAfter(d, assigned) == {Prepared(d).sr, block.flags, Assign(block.flags, assigned)}

\* Mutant: the end of the block stores PC whatever its last instruction declares.
CompiledPcAlways(d, target) == IF d.quits THEN next + 1 ELSE Prepared(d).pc

\* The end of the block stores the next address unless pc is declared.
CompiledPc(d, target) ==
    IF d.jump # "no" /\ "pc" \in d.in THEN target
    ELSE IF d.quits THEN next + 1 ELSE Prepared(d).pc

CompiledInstruction(d, assigned, target, sr) ==
    [flags |-> Assign(block.flags,
                      assigned \cup {f \in Expressions(d) : ~Unused(next, f)}),
     sr    |-> sr,
     pc    |-> CompiledPc(d, target),
     i     |-> IF d.quits THEN block.i + Len(asm) ELSE block.i]

-----------------------------------------------------------------------------
(* Both engines start from the same context; c.sr may be behind its flags in   *)
(* a block that was compiled before, and never is in a step, whose fetch       *)
(* synchronises it.                                                           *)

StepStart == [flags |-> FlagsFrom(Before), pc |-> 1, i |-> 0]
BlockStarts ==
    {[flags |-> FlagsFrom(Before), sr |-> FlagsFrom(origin), pc |-> 1, i |-> 0] :
        origin \in {Before, Stale}}

Init ==
    /\ asm = <<>> /\ phase = "decode" /\ next = 1
    /\ step = StepStart /\ block \in BlockStarts

\* Mutant: the decoding of a block does not stop at an instruction that quits.
DecodeNextOn ==
    /\ phase = "decode" /\ Len(asm) < MaxBlock
    /\ \E d \in Decoded :
           /\ asm' = Append(asm, d)
           /\ phase' \in IF d.quits THEN {"decode", "run"} ELSE {"decode"}
    /\ UNCHANGED <<next, step, block>>

\* One turn of the loop of compile. Blocks longer than MaxBlock are left out.
DecodeNext ==
    /\ phase = "decode"
    /\ \E d \in Decoded :
           /\ Len(asm) + 1 < MaxBlock \/ d.quits
           /\ asm' = Append(asm, d)
           /\ phase' = IF d.quits THEN "run" ELSE "decode"
    /\ UNCHANGED <<next, step, block>>

\* An instruction that is not implemented, or cannot be fetched, fails the
\* compilation of its whole block; stepInstruction comes to it only after the
\* instructions before it.
DecodeFails ==
    /\ phase = "decode"
    /\ phase' = IF asm = <<>> THEN "failed" ELSE "alone"
    /\ UNCHANGED <<asm, next, step, block>>

Execute ==
    /\ phase = "run"
    /\ LET d == asm[next] IN
       \E chosen \in SUBSET d.may, target \in {next + 1, Elsewhere} :
           LET assigned == d.sets \cup chosen IN
           /\ step' = StepInstruction(d, assigned, target)
           /\ \E sr \in SrAfter(d, assigned) :
                  block' = CompiledInstruction(d, assigned, target, sr)
           /\ phase' = IF d.quits THEN "done" ELSE "run"
    /\ next' = next + 1
    /\ UNCHANGED asm

\* The text throws, with some of its flags already assigned: captureFault.
StepFailed(d, assigned) ==
    [step EXCEPT !.flags = Assign(@, assigned),
                 !.pc = IF "pc" \in d.in THEN next + 1 ELSE @]
ExecuteFails ==
    /\ phase = "run"
    /\ LET d == asm[next] IN
       /\ d.host
       /\ \E assigned \in SUBSET (d.sets \cup d.may) :
              /\ step' = StepFailed(d, assigned)
              /\ \E sr \in SrAfter(d, assigned) :
                     block' = [Prepared(d) EXCEPT !.flags = Assign(@, assigned), !.sr = sr]
    /\ phase' = "failed"
    /\ UNCHANGED <<asm, next>>

\* The instructions before the one that cannot be decoded, in the step engine.
StepAlone ==
    /\ phase = "alone"
    /\ LET d == asm[next] IN
       \E chosen \in SUBSET d.may :
           step' = StepInstruction(d, d.sets \cup chosen, next + 1)
    /\ phase' = IF next = Len(asm) THEN "aborted" ELSE "alone"
    /\ next' = next + 1
    /\ UNCHANGED <<asm, block>>

StepAloneFails ==
    /\ phase = "alone"
    /\ LET d == asm[next] IN
       /\ d.host
       /\ \E assigned \in SUBSET (d.sets \cup d.may) : step' = StepFailed(d, assigned)
    /\ phase' = "aborted"
    /\ UNCHANGED <<asm, next, block>>

\* The engines are compared over one block at a time.
NextBlock ==
    /\ phase \in {"done", "failed", "aborted"}
    /\ asm' = <<>> /\ phase' = "decode" /\ next' = 1
    /\ step' = StepStart /\ block' \in BlockStarts

Next ==
    \/ DecodeNext \/ DecodeFails \/ Execute \/ ExecuteFails
    \/ StepAlone \/ StepAloneFails \/ NextBlock

Spec == Init /\ [][Next]_vars

-----------------------------------------------------------------------------
(* What a decoder has to declare for compile to be right about it.            *)

\* A flag the code reads is an input; only at the end of the block, where nothing
\* is left to be dropped, need it not be. A declared output with no expression is
\* assigned by the text or, if it may keep its value, an input too.
DeclaresFlags(d) ==
    /\ \A f \in d.reads : DeclaresInput(d, f) \/ (d.quits /\ f \notin d.out)
    /\ \A f \in d.own : f \in d.sets \/ DeclaresInput(d, f)
    /\ d.ccr => "sr" \in d.in

\* An instruction that writes PC in its own text declares pc.
DeclaresPc(d) == d.jump = "text" => "pc" \in d.in

Faithful == \A i \in 1 .. Len(asm) : DeclaresFlags(asm[i]) /\ DeclaresPc(asm[i])

-----------------------------------------------------------------------------
(* Properties. *)

StepContext == [flags : [Flags -> Int], pc : Int, i : Nat]
BlockContext == [flags : [Flags -> Int], sr : [Flags -> Int], pc : Int, i : Nat]

\* The types of the variables; a block that is executed ends with its only
\* instruction that quits, and compiled code counts only at the end.
TypeOK ==
    /\ asm \in Seq(Decoded)
    /\ phase \in {"decode", "run", "done", "failed", "alone", "aborted"}
    /\ next \in 1 .. Len(asm) + 1
    /\ step \in StepContext /\ block \in BlockContext
    /\ \A i \in 1 .. Len(asm) - 1 : ~asm[i].quits
    /\ phase = "decode" => next = 1 /\ (asm # <<>> => ~asm[Len(asm)].quits)
    /\ phase = "run" => next <= Len(asm) /\ asm[Len(asm)].quits
    /\ phase = "alone" => next <= Len(asm)
    /\ phase = "done" => next = Len(asm) + 1
    /\ phase # "done" => block.i = 0 /\ step.i = next - 1

\* A flag of the compiled code may differ from the step engine's only while an
\* instruction that was not executed yet assigns it, with none before that reads
\* it. So it is after an error in the middle of a block, too: what captureFault
\* shows of the condition codes is wrong in these flags only. A block that does
\* not compile is not executed at all, and is not compared.
LiveFlagsAgree ==
    Faithful /\ phase \in {"run", "done", "failed"} =>
        \A f \in Flags : block.flags[f] = step.flags[f] \/ Unused(next - 1, f)

\* A block whose decoders declare what their code does is executed like its
\* instructions one by one: each reads the same condition codes, and the flags,
\* PC and the instruction count are the same at the end (compile,
\* stepInstruction).
BlocksFollowSteps ==
    Faithful =>
        /\ phase = "run" =>
               LET d == asm[next] IN
               /\ \A f \in d.reads : block.flags[f] = step.flags[f]
               /\ d.ccr => Prepared(d).sr = step.flags
        /\ phase = "done" =>
               /\ block.flags = step.flags
               /\ block.pc = step.pc
               /\ block.i = step.i

=============================================================================
