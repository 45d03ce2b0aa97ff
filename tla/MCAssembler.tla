------------------------------ MODULE MCAssembler ------------------------------
(* Two names, one of which reads as hex digits; lines that define them, refer *)
(* to them in every form, and move the code.                                  *)
EXTENDS Assembler

Digits == [n \in {"b1"} |-> 17]

Form(kind, label, name, v) ==
    [kind |-> kind, label |-> label, name |-> name, value |-> v, sum |-> FALSE]
Plus(kind, label, name, v) == [Form(kind, label, name, v) EXCEPT !.sum = TRUE]

Forms ==
    {Form("label", n, NoName, 0) : n \in Names}
    \cup {Form("equ", "loop", "b1", 0), Form("equ", "b1", "loop", 0), Form("equ", "b1", NoName, 26)}
    \cup {Form("org", NoName, NoName, 28), Form("org", NoName, "b1", 0), Form("org", NoName, "loop", 0)}
    \cup {Plus("org", NoName, n, 2) : n \in Names}
    \cup {Plus("long", NoName, "b1", 2), Plus("equ", "loop", "b1", 2)}
    \cup {Form(kind, NoName, n, 0) : kind \in References, n \in Names}
    \cup {Form("jmp", NoName, NoName, v) : v \in {9, 20}}
    \cup {Form(kind, NoName, NoName, 0) : kind \in {"plain", "bad"}}

=============================================================================
