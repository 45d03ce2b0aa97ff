------------------------------ MODULE MCMachine -------------------------------
(* A small machine: at most one condition code, two code addresses, a stack   *)
(* of a few slots and two interrupt levels.                                   *)
EXTENDS Machine

CONSTANTS main, handler, junk

MCPcs == {main, handler}
MCVectorTables ==
    [t \in {"rom", "ram", "moved"} |->
        [v \in VectorNumbers |-> IF v = 1 /\ t = "rom" THEN main ELSE handler]]

\* One code address, where a property tells modes and stacks apart and no code.
OnePc == {main}
OneTable == [t \in {"rom", "ram", "moved"} |-> [v \in VectorNumbers |-> main]]

SupervisorSr == {sr \in Sr : sr.s /\ sr.ccr = {} /\ sr.ipl = 0}
NoMasks == {}
NoneOrAll == {{}, Levels}
AnySr == {sr \in Sr : sr.ccr = {} /\ sr.ipl = 0}

=============================================================================
