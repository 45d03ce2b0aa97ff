------------------------------ MODULE MCBlocks ------------------------------
(* Instances of Blocks for TLC. *)
EXTENDS Blocks

\* Of every way the decoders treat the condition codes, one.
Representatives ==
    {Silent, Computes(Nzvc), Computes(Flags), Addx, Bcd} \cup BitOperation \cup ImmediateToCcr
        \cup MoveFromSr \cup MoveToSr \cup AddqRegister \cup Scc
        \cup {[Shifts EXCEPT !.in = {"x"}, !.reads = {"x"}]}
        \cup Bra \cup Bcc \cup Dbcc \cup Rtr \cup Chk \cup Rte

\* The decoders that do not declare what their code does: ADDX and SUBX read x
\* and z; shifts by a register and rotates keep x; ANDI, ORI and EORI to CCR read
\* c.sr; Bcc, RTS and JMP write PC.
ASSUME UnfaithfulDecoders ==
    {d \in Repertoire : ~(DeclaresFlags(d) /\ DeclaresPc(d))}
        = {Addx, Shifts, [Shifts EXCEPT !.may = {}]}
              \cup ImmediateToCcr \cup Bcc \cup Rts \cup Jmp
=============================================================================
