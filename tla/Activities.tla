----------------------------- MODULE Activities ------------------------------
(* What exception handling promises a guest program: an interrupt or a trap   *)
(* suspends the current activity, activities nest, and a return resumes the   *)
(* one suspended last exactly as it was: same PC, same status register, same  *)
(* stack pointer and the same words on its stack.                             *)
EXTENDS Sequences

VARIABLES
    current,    \* the activity the processor is carrying out
    suspended   \* those waiting for it to return, the latest first

Init == suspended = <<>>

\* The current activity goes on, whatever it does.
Work == UNCHANGED suspended

\* A trap may leave a return address other than the address it was met at.
Suspend ==
    /\ suspended' # <<>>
    /\ LET pc == Head(suspended').pc
       IN suspended' = <<[current EXCEPT !.pc = pc]>> \o suspended

Resume ==
    /\ suspended # <<>>
    /\ current' = Head(suspended)
    /\ suspended' = Tail(suspended)

\* Reset forgets every activity.
Forget == suspended' = <<>>

Next == Work \/ Suspend \/ Resume \/ Forget

Spec == Init /\ [][Next]_<<current, suspended>>

=============================================================================
