------------------------------ MODULE RoundRobin ------------------------------
(* What the cooperative runtime promises: two tasks that take turns when they *)
(* yield, each with registers and a stack that nobody else changes.           *)
CONSTANTS
    Task,      \* the tasks
    First,     \* the one that starts
    Nobody,
    Ctx,       \* what a task can see: its registers and its stack
    Newborn,   \* the contexts a task starts with
    Unborn     \* the context of a task that has not started or has ended

VARIABLES
    turn,      \* whose turn it is
    inside,    \* the task with the turn executes its own code
    active,    \* the tasks that have not ended
    ctx        \* what each task sees

vars == <<turn, inside, active, ctx>>

Init ==
    /\ turn = Nobody /\ ~inside
    /\ active = {} /\ ctx = [t \in Task |-> Unborn]

\* The task with the turn computes, calls and returns: only it changes what it
\* sees, and only in its own code.
Work(t) ==
    /\ turn = t /\ inside /\ inside'
    /\ ctx'[t] \in Ctx /\ ctx' = [ctx EXCEPT ![t] = ctx'[t]]
    /\ UNCHANGED <<turn, active>>

Yield == inside /\ ~inside' /\ UNCHANGED <<turn, active, ctx>>

End(t) ==
    /\ turn = t /\ inside /\ ~inside'
    /\ active' = active \ {t}
    /\ ctx' = [ctx EXCEPT ![t] = Unborn]
    /\ UNCHANGED turn

\* The turn passes to the other task, and stays only if that one has ended.
Successor(t) ==
    IF turn = Nobody THEN t = First
    ELSE t # turn \/ active = {t}

Start(t) ==
    /\ ~inside /\ t \in active /\ Successor(t)
    /\ ctx[t] = Unborn
    /\ turn' = t /\ inside'
    /\ ctx'[t] \in Newborn
    /\ ctx' = [ctx EXCEPT ![t] = ctx'[t]]
    /\ UNCHANGED active

\* A task that gets the turn finds what it left.
Pass(t) ==
    /\ ~inside /\ t \in active /\ Successor(t)
    /\ turn' = t
    /\ UNCHANGED <<inside, active, ctx>>

Enter(t) ==
    /\ turn = t /\ ~inside /\ inside'
    /\ UNCHANGED <<turn, active, ctx>>

Stop ==
    /\ active = {} /\ ~inside
    /\ turn' = Nobody
    /\ UNCHANGED <<inside, active, ctx>>

\* The program is run again from its start.
Restart ==
    /\ turn' = Nobody /\ ~inside'
    /\ active' = Task /\ ctx' = [t \in Task |-> Unborn]

Next ==
    \/ \E t \in Task : Work(t) \/ End(t) \/ Start(t) \/ Pass(t) \/ Enter(t)
    \/ Yield
    \/ Stop
    \/ Restart

Spec == Init /\ [][Next]_vars

=============================================================================
