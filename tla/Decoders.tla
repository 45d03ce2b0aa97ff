------------------------------ MODULE Decoders ------------------------------
(* What each decoder of src/j68.js and src/instructions/ tells the compiler   *)
(* about an instruction, and what the code it emits does. Operands, sizes and *)
(* addressing modes are left out: an instruction is what it does to the       *)
(* condition codes, to PC and to the block it is in.                          *)
EXTENDS Integers

Flags == {"x", "n", "z", "v", "c"}
Nzvc == Flags \ {"x"}

\* in, out: what the decoder declares; in may also hold "sr" and "pc".
\* own: the declared outputs whose expression is the flag itself, so that the
\*   code must have assigned them. sets, may: the flags the code always and
\*   sometimes assigns. reads: the flags it uses; ccr: it uses the condition
\*   codes held in c.sr. host: it accesses memory or calls c.f, and may throw.
\* jump: "no"; "text", it assigns c.pc in its own text; "call", it enters a trap
\*   handler through Context.exception. quits: it ends the block.
Instruction ==
    [in : SUBSET (Flags \cup {"sr", "pc"}), out : SUBSET Flags, own : SUBSET Flags,
     sets : SUBSET Flags, may : SUBSET Flags, reads : SUBSET Flags, ccr : BOOLEAN,
     host : BOOLEAN, jump : {"no", "text", "call"}, quits : BOOLEAN]

Inert == [in |-> {}, out |-> {}, own |-> {}, sets |-> {}, may |-> {}, reads |-> {},
          ccr |-> FALSE, host |-> FALSE, jump |-> "no", quits |-> FALSE]
Silent == [Inert EXCEPT !.host = TRUE]
Computes(flags) == [Silent EXCEPT !.out = flags]
SetsSr == [Silent EXCEPT !.sets = Flags]
Raises == [Silent EXCEPT !.reads = Flags, !.jump = "call", !.quits = TRUE]
RaisesDeclared == [Raises EXCEPT !.in = {"pc"}]
Privileged == [Raises EXCEPT !.in = {"pc", "sr"}]
Hooked == [Silent EXCEPT !.in = {"pc"}, !.quits = TRUE]

-----------------------------------------------------------------------------
(* Line 0. *)

ImmediateToCcr == {[Inert EXCEPT !.ccr = TRUE, !.sets = Flags]}
ImmediateToSr == {[Inert EXCEPT !.in = {"sr"}, !.ccr = TRUE, !.sets = Flags]}
Cas == {Computes(Nzvc)}
Moves == {Privileged}
Cmpi == {Computes(Nzvc)}
Chk2 == {[Silent EXCEPT !.sets = {"z", "c"}],
         [Privileged EXCEPT !.sets = {"z", "c"}, !.reads = {"x", "n", "v"}]}
Movep == {Computes(Nzvc), Silent}
BitOperation == {Computes({"z"})}
ImmediateLogic == {Computes(Nzvc)}

(* Lines 1, 2, 3 and 7. *)

MoveByte == {Computes(Nzvc), RaisesDeclared}
MoveWord == {Computes(Nzvc), Silent}
MoveLong == {Computes(Nzvc), Silent}
Moveq == {[Inert EXCEPT !.out = Nzvc]}

(* Line 4. *)

Nop == {Inert}
Rts == {[Silent EXCEPT !.jump = "text", !.quits = TRUE]}
Rtr == {[SetsSr EXCEPT !.in = {"pc"}, !.jump = "text", !.quits = TRUE]}
Rte == {[Privileged EXCEPT !.may = Flags, !.jump = "text"]}
Rtd == {[Silent EXCEPT !.in = {"pc"}, !.jump = "text", !.quits = TRUE]}
Movec == {RaisesDeclared, Privileged}
Stop == {[Privileged EXCEPT !.may = Flags, !.jump = "text"]}
Illegal == {Hooked}
Lea == {Silent}
ClrNot == {Computes(Nzvc)}
Neg == {Computes(Flags)}
Negx == {[Computes(Flags) EXCEPT !.in = {"x", "z"}, !.reads = {"x", "z"}]}
Tst == {Computes(Nzvc)}
Tas == {[Computes(Nzvc) EXCEPT !.own = {"n", "z"}, !.sets = {"n", "z"}]}
ExtSwap == {[Inert EXCEPT !.out = Nzvc]}
LinkUnlk == {Silent}
MoveFromSr == {[Silent EXCEPT !.in = {"sr"}, !.ccr = TRUE]}
MoveToSr == {SetsSr}
MoveUsp == {Inert}
TrapHash == {Hooked}
Trapv == {[Silent EXCEPT !.in = {"pc", "v"}, !.reads = {"v"}]}
Chk == {[Raises EXCEPT !.in = {"pc", "x", "n"}, !.sets = {"z", "v", "c"},
                       !.may = {"n"}, !.reads = {"x", "n"}]}
Movem == {Silent}
Bcd == [Computes(Flags) EXCEPT !.in = {"x", "z"}, !.reads = {"x", "z"},
                               !.own = Flags, !.sets = Flags]
Nbcd == {Bcd}
Jmp == {[Inert EXCEPT !.jump = "text", !.quits = TRUE]}
Jsr == {[Silent EXCEPT !.quits = TRUE]}

(* Lines 5 and 6. *)

TrapCc == {Raises, [Raises EXCEPT !.in = Nzvc \cup {"pc"}, !.jump = "text"]}
Scc == {[Silent EXCEPT !.in = Nzvc, !.reads = Nzvc]}
Dbcc == {[Inert EXCEPT !.in = Nzvc \cup {"pc"}, !.reads = Nzvc,
                       !.jump = "text", !.quits = TRUE]}
AddqAddress == {Raises, Inert}
AddqRegister == {[Inert EXCEPT !.out = Flags, !.own = Nzvc, !.sets = Nzvc]}
AddqMemory == {Computes(Flags)}
\* The code of BRA and BSR is empty or a push: their next address is the target.
Bra == {[Silent EXCEPT !.quits = TRUE]}
Bcc == {[Inert EXCEPT !.reads = Nzvc, !.jump = "text", !.quits = TRUE]}

(* Lines 8 to D. *)

Sbcd == {[Bcd EXCEPT !.reads = {"x"}, !.sets = Flags \ {"z"}, !.may = {"z"}]}
Div == {Computes({"n", "z", "v"})}
PackUnpk == {Silent}
Or == {Computes(Nzvc)}
\* ADDX and SUBX declare what NEGX does, except for the inputs.
Addx == [Computes(Flags) EXCEPT !.reads = {"x", "z"}]
Sub == {Computes(Flags), Silent, Addx}
LineA == {[Silent EXCEPT !.quits = TRUE]}
Cmp == {Computes(Nzvc)}
MulAndExg == {Computes(Nzvc), Silent}
Abcd == {Bcd}
Add == {Silent, [Computes(Flags) EXCEPT !.own = Nzvc, !.sets = Nzvc], Addx,
        Computes(Flags)}

(* Lines E and F. *)

BitField == {Raises, [Computes(Nzvc) EXCEPT !.own = Nzvc, !.sets = Nzvc]}
\* A count of zero leaves x as it is, and so do ROL and ROR of any count.
Shifts == [Computes(Flags) EXCEPT !.own = Flags, !.sets = Nzvc, !.may = {"x"}]
ShiftRotate == {[Shifts EXCEPT !.sets = Flags, !.may = {}], Shifts,
                [Shifts EXCEPT !.may = {}],
                [Shifts EXCEPT !.in = {"x"}, !.reads = {"x"}]}
Mmu == {Privileged}
Move16 == {Silent, Privileged}
LineF == {[Hooked EXCEPT !.in = Flags \cup {"pc", "sr"}]}

-----------------------------------------------------------------------------
Line0 == ImmediateToCcr \cup ImmediateToSr \cup Cas \cup Moves \cup Cmpi \cup Chk2
             \cup Movep \cup BitOperation \cup ImmediateLogic
Line4 == Nop \cup Rts \cup Rtr \cup Rte \cup Rtd \cup Movec \cup Stop \cup Illegal
             \cup Lea \cup ClrNot \cup Neg \cup Negx \cup Tst \cup Tas \cup ExtSwap
             \cup LinkUnlk \cup MoveFromSr \cup MoveToSr \cup MoveUsp \cup TrapHash
             \cup Trapv \cup Chk \cup Movem \cup Nbcd \cup Jmp \cup Jsr
Line5 == TrapCc \cup Scc \cup Dbcc \cup AddqAddress \cup AddqRegister \cup AddqMemory

\* Every instruction decode() answers with.
Repertoire ==
    Line0 \cup MoveByte \cup MoveWord \cup MoveLong \cup Line4 \cup Line5
        \cup Bra \cup Bcc \cup Moveq \cup Sbcd \cup Div \cup PackUnpk \cup Or
        \cup Sub \cup LineA \cup Cmp \cup MulAndExg \cup Abcd \cup Add
        \cup BitField \cup ShiftRotate \cup Mmu \cup Move16 \cup LineF

=============================================================================
