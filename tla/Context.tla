------------------------------- MODULE Context -------------------------------
(* The processor context of src/j68.js as exception handling sees it: the     *)
(* status register with its lazily synchronised condition codes, the active   *)
(* stack pointer a7 with the two banked ones, PC, VBR and the halt flag.      *)
(*                                                                            *)
(* Memory is a row of stack slots. A slot holds what one push writes: a       *)
(* status word (two bytes in the code) or a code address (four bytes), so an  *)
(* exception frame, six bytes in the code, is two slots. Slots below MemTop   *)
(* are RAM: 0 .. SspTop-1 is the supervisor stack, SspTop .. MemTop-1 a user  *)
(* stack. Below slot 0 the code's address wraps into ROM, which rejects       *)
(* writes.                                                                    *)
EXTENDS Integers

CONSTANTS
    Flags,    \* the condition codes told apart, some of x, n, z, v, c
    Pcs,      \* code addresses
    SspTop,   \* the initial supervisor stack pointer
    MemTop,   \* the end of the user stack
    Data      \* a word that is neither a status word nor a code address

ASSUME StackAssumption ==
    SspTop \in Nat /\ MemTop \in Nat /\ 2 <= SspTop /\ SspTop <= MemTop

Ipl == 0 .. 7
Sr == [s : BOOLEAN, ipl : Ipl, ccr : SUBSET Flags]
Slots == 0 .. MemTop - 1
Word == Sr \cup Pcs \cup {Data}
Memory == [Slots -> Word]

\* The vector base: address 0, or where a guest moved VBR: a table in RAM, or
\* addresses at which nothing answers.
Bases == {"zero", "moved", "hole"}

ContextType ==
    [sr : Sr, flags : SUBSET Flags, a7 : Int, usp : Int, ssp : Int,
     pc : Pcs, vbr : Bases, halt : BOOLEAN]

-----------------------------------------------------------------------------
(* Stack memory. *)

\* Reading past the modelled slots finds RAM or ROM of unknown content.
Load(m, a) == IF a \in Slots THEN m[a] ELSE Data

\* What l16 and l32 can make of a word: a word of another kind reads as anything.
AsPcUnchecked(w) == {w}  \* mutant: a status word is taken for an address
AsSr(w) == IF w \in Sr THEN {w} ELSE Sr
AsPc(w) == IF w \in Pcs THEN {w} ELSE Pcs

\* The status word goes to the top of the frame and the return address above it.
FrameFits(sp) == sp \in Slots /\ sp + 1 \in Slots
StoreFrame(m, sp, sr, pc) == [m EXCEPT ![sp] = sr, ![sp + 1] = pc]

\* What the two pushes leave if one of them fails: the first is that of SR.
HalfFrame(m, sp, sr) == IF sp \in Slots THEN [m EXCEPT ![sp] = sr] ELSE m

-----------------------------------------------------------------------------
(* Status register. *)

SyncSr(c) == [c EXCEPT !.sr = [@ EXCEPT !.ccr = c.flags]]

SetCcr(c, ccr) == [c EXCEPT !.sr = [@ EXCEPT !.ccr = ccr], !.flags = ccr]

\* Mutant: leaving supervisor mode forgets its stack pointer.
SetSrForgetsSsp(c, sr) ==
    LET enters == sr.s /\ ~c.sr.s
        leaves == c.sr.s /\ ~sr.s
    IN [c EXCEPT !.sr = sr,
                 !.flags = sr.ccr,
                 !.usp = IF enters THEN c.a7 ELSE @,
                 !.a7 = IF enters THEN c.ssp ELSE IF leaves THEN c.usp ELSE @]

\* setSr: a change of S banks a7 in the pointer of the mode that is left.
SetSr(c, sr) ==
    LET enters == sr.s /\ ~c.sr.s
        leaves == c.sr.s /\ ~sr.s
    IN [c EXCEPT !.sr = sr,
                 !.flags = sr.ccr,
                 !.usp = IF enters THEN c.a7 ELSE @,
                 !.ssp = IF leaves THEN c.a7 ELSE @,
                 !.a7 = IF enters THEN c.ssp ELSE IF leaves THEN c.usp ELSE @]

OnSupervisorStack(c) ==
    IF c.sr.s THEN c ELSE [c EXCEPT !.usp = c.a7, !.a7 = c.ssp]

-----------------------------------------------------------------------------
(* Exception entry and return. *)

\* Mutant: one slot is made for a frame of two.
ExceptionOpenShort(c) ==
    LET c1 == OnSupervisorStack(SyncSr(c))
    IN [c1 EXCEPT !.sr = [@ EXCEPT !.s = TRUE], !.a7 = @ - 1]

\* Context.exception up to the first push: what is left behind if it fails.
ExceptionOpen(c) ==
    LET c1 == OnSupervisorStack(SyncSr(c))
    IN [c1 EXCEPT !.sr = [@ EXCEPT !.s = TRUE], !.a7 = @ - 2]

ExceptionEntry(c, handler) ==
    LET c1 == ExceptionOpen(c)
    IN [c1 EXCEPT !.ssp = c1.a7, !.pc = handler]

\* acceptInterrupt up to the first push: S still shows the interrupted mode.
InterruptOpen(c) ==
    LET c1 == OnSupervisorStack(SyncSr(c)) IN [c1 EXCEPT !.a7 = @ - 2]

\* Mutants: the mask is not raised to the level served; a halt is not ended.
InterruptEntryKeepsMask(c, level, handler) ==
    LET c1 == InterruptOpen(c)
        c2 == SetSr([c1 EXCEPT !.ssp = c1.a7], [c1.sr EXCEPT !.s = TRUE])
    IN [c2 EXCEPT !.pc = handler, !.halt = FALSE]
InterruptEntryKeepsHalt(c, level, handler) ==
    LET c1 == InterruptOpen(c)
        c2 == SetSr([c1 EXCEPT !.ssp = c1.a7],
                    [s |-> TRUE, ipl |-> level, ccr |-> c1.sr.ccr])
    IN [c2 EXCEPT !.pc = handler]

\* acceptInterrupt up to the read of the vector. setSr finds S clear when user
\* code is interrupted, and banks a7 once more.
InterruptPushed(c, level) ==
    LET c1 == InterruptOpen(c)
    IN SetSr([c1 EXCEPT !.ssp = c1.a7], [s |-> TRUE, ipl |-> level, ccr |-> c1.sr.ccr])

InterruptEntry(c, level, handler) ==
    [InterruptPushed(c, level) EXCEPT !.pc = handler, !.halt = FALSE]

\* RTE: the status word is loaded, banking the stacks, before a7 moves past it.
ReturnSp(c, sr) == SetSr(c, sr).a7 + 1
RteReturn(c, sr, pc) ==
    [SetSr(c, sr) EXCEPT !.a7 = ReturnSp(c, sr) + 1, !.pc = pc]

=============================================================================
