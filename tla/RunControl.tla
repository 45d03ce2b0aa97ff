------------------------------ MODULE RunControl ------------------------------
(* Who runs: the monitor's command loop or the guest. tools/monitor.js does   *)
(* everything from one interval callback, the tick: it polls the monitor      *)
(* while that is active, else it runs a slice of the guest; it then settles   *)
(* what the slice left behind. Keys arrive only between two ticks. "at" is    *)
(* where the tick is; nothing can come between its parts.                     *)
(*                                                                            *)
(* What a command prints or does to memory is left out, and what the guest    *)
(* computes: one instruction or block goes on, stops the processor, calls the *)
(* monitor or faults.                                                         *)
EXTENDS Naturals, Sequences

CONSTANTS
    ExitOnMonitor,  \* J68_MONITOR_EXIT_ON_MONITOR: leave when a script is done
    Budgets,        \* instructions a run may take: of g and of gl
    Slice           \* instructions or blocks a tick runs, 1000 in the code

ASSUME RunControlAssumption ==
    /\ ExitOnMonitor \in BOOLEAN
    /\ Budgets \subseteq Nat \ {0}
    /\ Slice \in Nat \ {0}

VARIABLES
    asyncRun, \* asyncMonitorRun: g only schedules the run for later ticks
    active,   \* monitor.active: typed lines go to the monitor
    mode,     \* "asm" while a line assembler session takes the lines
    line,     \* the length of the line typed so far
    rx,       \* the UART's receive queue
    halt,     \* the processor is halted
    fault,    \* lastFault is set
    run,      \* pendingRun: its budget and the instructions done
    hooked,   \* monitorTrapHandler is the one of a benchmark
    exit,     \* requestExit
    settled,  \* settledMonitorTicks
    at,       \* the part of the tick to run next
    left,     \* what is left of the slice
    met,      \* history of the tick: what stopped guest code
    told      \* history of the tick: what the user was told of it

guest == <<halt, fault>>
session == <<mode, line>>
account == <<met, told>>
vars == <<asyncRun, active, mode, line, rx, halt, fault, run, hooked, exit, settled, at, left,
          met, told>>

Keys == {"char", "erase", "enter"}
NoRun == [limit |-> 0, done |-> 0]
Runs == [limit : Budgets, done : Nat]

\* Bounds: keys waiting at once, and the length of a line.
RxBound == 2
LineBound == 1

\* Bound: instructions are counted as far as they can be told from the budget.
Counted(r) == IF r.done < r.limit + Slice THEN [r EXCEPT !.done = @ + 1] ELSE r

Suffixes(s) == {SubSeq(s, n, Len(s)) : n \in 1 .. Len(s) + 1}

-----------------------------------------------------------------------------
(* The guest. *)

Outcomes == {"goes on", "stops", "calls monitor", "faults"}

\* One instruction or block, of a machine whose monitor was active before it if
\* a, and whose lastFault was set if f. CommandLoop.enter starts an empty line.
Executes(outcome, a, f) ==
    LET enters == outcome = "calls monitor" /\ ~hooked IN
    /\ halt' = (outcome # "goes on")
    /\ fault' = (f \/ outcome = "faults")
    /\ active' = (a \/ enters)
    /\ mode' = IF enters THEN "none" ELSE mode
    /\ line' = IF enters THEN 0 ELSE line
    /\ met' = met \cup (IF enters THEN {"call"} ELSE {})
                   \cup (IF outcome = "faults" THEN {"fault"} ELSE {})

\* The error of an interrupt entry that cannot push its frame is caught by no one
\* but the caller: in a tick it ends the process.
Crash ==
    /\ at' = "crashed"
    /\ UNCHANGED <<active, session, rx, guest, run, hooked, exit, settled, left, account>>

\* runUntilInstruction: halt is looked at before the interrupts are.
RunInstruction ==
    /\ at = "step"
    /\ ~halt /\ left > 0
    /\ \/ Crash
       \/ /\ rx' \in Suffixes(rx)
          /\ \E outcome \in Outcomes :
                 /\ Executes(outcome, active, fault)
                 /\ run' = IF outcome = "faults" THEN run ELSE Counted(run)
                 /\ at' = IF outcome = "faults" THEN "settle" ELSE at
          /\ left' = left - 1
          /\ UNCHANGED <<hooked, exit, settled, told>>

EndSteps ==
    /\ at = "step"
    /\ halt \/ left = 0
    /\ at' = "settle"
    /\ UNCHANGED <<active, session, rx, guest, run, hooked, exit, settled, left, account>>

\* runBlocks: an interrupt may end the halt, whoever halted the processor.
RunBlock ==
    /\ at = "blocks"
    /\ left > 0
    /\ \/ Crash
       \/ /\ rx' \in Suffixes(rx)
          /\ \E outcome \in Outcomes :
                 /\ Executes(outcome, active, fault)
                 /\ at' = IF outcome = "faults" THEN "settle" ELSE at
          /\ left' = left - 1
          /\ UNCHANGED <<run, hooked, exit, settled, told>>

EndBlocks ==
    /\ at = "blocks"
    /\ halt \/ left = 0
    /\ at' = "settle"
    /\ UNCHANGED <<active, session, rx, guest, run, hooked, exit, settled, left, account>>

-----------------------------------------------------------------------------
(* The command loop. *)

\* Mutants: an empty line is erased, a line is kept when its command is executed.
NextLineErasesEmpty(key) ==
    IF key = "erase" THEN line - 1 ELSE IF key = "enter" THEN 0 ELSE LineBound
NextLineKeeps(key) ==
    IF key = "erase" \/ (key = "enter" /\ line = 0) THEN 0 ELSE LineBound

NextLine(key) ==
    CASE key = "char" /\ line < LineBound -> line + 1
      [] key = "erase" /\ line > 0 -> line - 1
      [] key = "enter" -> 0
      [] OTHER -> line

\* poll takes the keys one by one until none is left. A blank line or a store that
\* fails ends an assembler session.
PollKey ==
    /\ at = "poll" /\ rx # <<>>
    /\ rx' = Tail(rx)
    /\ line' = NextLine(Head(rx))
    /\ at' = IF Head(rx) = "enter" /\ mode = "none" /\ line > 0 THEN "command" ELSE at
    /\ \/ UNCHANGED mode /\ (Head(rx) = "enter" /\ mode = "asm" => line > 0)
       \/ Head(rx) = "enter" /\ mode = "asm" /\ mode' = "none"
    /\ UNCHANGED <<active, guest, run, hooked, exit, settled, left, account>>

PollDone ==
    /\ at = "poll" /\ rx = <<>>
    /\ at' = "settle"
    /\ UNCHANGED <<active, session, rx, guest, run, hooked, exit, settled, left, account>>

\* poll goes on after a command that left the monitor active.
CommandDone == at' = IF active' THEN "poll" ELSE "settle"

\* Commands that do not touch run control. A memory dump that covers the UART's
\* data register reads waiting keys.
OtherCommand ==
    /\ at = "command"
    /\ rx' \in Suffixes(rx)
    /\ UNCHANGED <<active, session, guest, run, hooked, exit, settled, left, account>>
    /\ CommandDone

StartAssembler ==
    /\ at = "command"
    /\ mode' = "asm"
    /\ UNCHANGED <<active, line, rx, guest, run, hooked, exit, settled, left, account>>
    /\ CommandDone

QuitMonitor ==
    /\ at = "command"
    /\ active' = FALSE /\ exit' = TRUE
    /\ UNCHANGED <<session, rx, guest, run, hooked, settled, left, account>>
    /\ CommandDone

\* The reset of the machine empties the UART, and one block of the ROM runs.
ResetMachine ==
    /\ at = "command"
    /\ rx' = <<>> /\ run' = NoRun
    /\ \E outcome \in Outcomes : Executes(outcome, FALSE, FALSE)
    /\ UNCHANGED <<hooked, exit, settled, left, told>>
    /\ CommandDone

\* g and gl with asyncMonitorRun: the coming ticks run the guest.
RunProgram ==
    /\ at = "command" /\ asyncRun
    /\ active' = FALSE
    /\ halt' = FALSE /\ fault' = FALSE
    /\ \E limit \in Budgets : run' = [limit |-> limit, done |-> 0]
    /\ UNCHANGED <<session, rx, hooked, exit, settled, left, account>>
    /\ CommandDone

\* g and gl without: the command runs the guest to its end, and halts it. An
\* interrupt entry that fails leaves the command before it re-enters the monitor.
RunProgramNow ==
    /\ at = "command" /\ ~asyncRun
    /\ rx' \in Suffixes(rx)
    /\ \/ /\ active' = TRUE /\ halt' = TRUE
          /\ fault' \in BOOLEAN
       \/ /\ active' = FALSE /\ halt' = FALSE
          /\ fault' = FALSE
    /\ met' = met \cup (IF fault' THEN {"fault"} ELSE {})
    /\ told' = told \cup (IF fault' THEN {"fault"} ELSE {})
    /\ UNCHANGED <<session, run, hooked, exit, settled, left>>
    /\ CommandDone

\* t: an interrupt entry that fails is one more way to go on.
StepProgram ==
    /\ at = "command"
    /\ rx' \in Suffixes(rx)
    /\ \E outcome \in Outcomes : Executes(outcome, active, FALSE)
    /\ told' = told \cup (IF fault' THEN {"fault"} ELSE {})
    /\ UNCHANGED <<run, hooked, exit, settled, left>>
    /\ CommandDone

\* bench: the guest runs to a halt or to the limit under a trap handler of the
\* benchmark's own. A completed one restores halt; a fault completes it too, is
\* told to no one and stays in lastFault. An interrupt entry that fails leaves everything as it is.
RunBenchmark ==
    /\ at = "command"
    /\ rx' \in Suffixes(rx)
    /\ \/ /\ active' = TRUE
          /\ halt' \in {halt, TRUE}
          /\ fault' \in {fault, TRUE}
          /\ UNCHANGED hooked
       \/ /\ active' = FALSE /\ hooked' = TRUE /\ halt' = FALSE
          /\ UNCHANGED fault
    /\ UNCHANGED <<session, run, exit, settled, left, account>>
    /\ CommandDone

-----------------------------------------------------------------------------
(* The tick. *)

\* Stdin. Ctrl-C ends the process.
TypeKey ==
    /\ at = "idle"
    /\ Len(rx) < RxBound
    /\ \E key \in Keys : rx' = Append(rx, key)
    /\ UNCHANGED <<asyncRun, active, session, guest, run, hooked, exit, settled, at, left, account>>

CtrlC ==
    /\ at = "idle"
    /\ at' = "exited"
    /\ UNCHANGED <<asyncRun, active, session, rx, guest, run, hooked, exit, settled, left, account>>

Tick ==
    /\ at = "idle"
    /\ at' = IF active THEN "poll" ELSE IF run # NoRun THEN "step" ELSE "blocks"
    /\ left' = Slice
    /\ met' = {} /\ told' = {}
    /\ UNCHANGED <<active, session, rx, guest, run, hooked, exit, settled>>

OutOfBudget == run # NoRun /\ ~active /\ run.done >= run.limit

\* What the end of the tick makes of the slice, given whether the budget is spent,
\* whether a fault is reported, and whether the run is over.
SettleBy(spent, reports, over) ==
    /\ at = "settle"
    /\ active' = (active \/ spent \/ reports)
    /\ run' = IF over THEN NoRun ELSE run
    /\ halt' = (halt \/ spent)
    /\ fault' = (fault /\ ~reports)
    /\ mode' = IF spent \/ reports THEN "none" ELSE mode
    /\ line' = IF spent \/ reports THEN 0 ELSE line
    /\ settled' = IF ExitOnMonitor /\ active' /\ rx = <<>> THEN settled + 1 ELSE 0
    /\ at' = IF exit \/ settled' = 3 THEN "exited" ELSE "idle"
    /\ told' = told \cup (IF spent THEN {"limit"} ELSE {})
                     \cup (IF reports THEN {"fault"} ELSE {})
    /\ UNCHANGED <<rx, hooked, exit, left, met>>

\* A fault met after the budget was spent is not reported: the monitor is entered
\* for the budget first, and an active monitor hides the fault.
Reportable == fault /\ ~active /\ ~OutOfBudget

\* Mutants: the budget is compared with the wrong relation or not at all, a fault
\* is reported only in a run, the monitor does not end the run it interrupts.
SettleLate ==
    LET spent == OutOfBudget /\ run.done > run.limit
        reports == fault /\ ~active /\ ~spent
    IN SettleBy(spent, reports, active \/ spent \/ reports)
SettleForgetsBudget == SettleBy(FALSE, fault /\ ~active, active \/ fault)
SettleRunFaults ==
    LET reports == Reportable /\ run # NoRun
    IN SettleBy(OutOfBudget, reports, active \/ OutOfBudget \/ reports)
SettleKeepsRun == SettleBy(OutOfBudget, Reportable, OutOfBudget \/ Reportable)

Settle == SettleBy(OutOfBudget, Reportable, active \/ OutOfBudget \/ Reportable)

\* Construction and reset; the ROM runs from the first tick on.
Init ==
    /\ asyncRun \in BOOLEAN
    /\ active = FALSE /\ mode = "none" /\ line = 0
    /\ rx = <<>>
    /\ halt = FALSE /\ fault = FALSE
    /\ run = NoRun
    /\ hooked = FALSE /\ exit = FALSE /\ settled = 0
    /\ at = "idle" /\ left = 0
    /\ met = {} /\ told = {}

Command ==
    \/ OtherCommand \/ StartAssembler \/ QuitMonitor \/ ResetMachine
    \/ RunProgram \/ RunProgramNow \/ StepProgram \/ RunBenchmark

TickPart ==
    /\ \/ Tick \/ RunInstruction \/ EndSteps \/ RunBlock \/ EndBlocks
       \/ PollKey \/ PollDone \/ Command \/ Settle
    /\ UNCHANGED asyncRun

Next == TickPart \/ TypeKey \/ CtrlC

Spec == Init /\ [][Next]_vars

\* The interval timer keeps firing and every part of a tick ends.
FairSpec == Spec /\ WF_vars(TickPart)

-----------------------------------------------------------------------------
(* Properties. *)

Ended == at \in {"exited", "crashed"}

\* The types of the state of the tick loop, the command loop and the machine.
TypeOK ==
    /\ asyncRun \in BOOLEAN
    /\ active \in BOOLEAN /\ mode \in {"none", "asm"} /\ line \in 0 .. LineBound
    /\ rx \in Seq(Keys)
    /\ halt \in BOOLEAN /\ fault \in BOOLEAN
    /\ run \in Runs \cup {NoRun}
    /\ hooked \in BOOLEAN /\ exit \in BOOLEAN /\ settled \in 0 .. 3
    /\ at \in {"idle", "poll", "command", "step", "blocks", "settle", "exited", "crashed"}
    /\ left \in 0 .. Slice
    /\ met \subseteq {"call", "fault"} /\ told \subseteq {"limit", "fault"}

\* Between two ticks either the monitor has the machine or a run does: whatever
\* ended the run (its call of the monitor, its budget, a fault, a reset), no
\* later tick goes on with it (pendingRun, CommandLoop.enter).
OneOwner == at = "idle" /\ run # NoRun => ~active

\* A run overshoots its budget by less than a slice, and no tick starts with the
\* budget spent (tools/monitor.js compares only at the end of a tick).
BudgetHeld ==
    run # NoRun => /\ run.done < run.limit + Slice
                   /\ at = "idle" => run.done < run.limit

\* A fault is reported in the tick in which guest code met it, whether a run, a
\* boot, a reset or a single step did, unless the slice also spent the budget of
\* its run, of which the user is told instead, or the guest had called the
\* monitor in the same slice; and in no case does the guest go on with it
\* (captureFault, the order in which tools/monitor.js looks at budget and fault).
FaultsSurface ==
    at = "idle" =>
        /\ "fault" \in met => "fault" \in told \/ "limit" \in told \/ "call" \in met
        /\ fault => active

\* A half-typed line and an assembler session belong to an active monitor: a run
\* never starts in the middle of one and none survives a run (poll, enter).
NoSessionInRun == ~active => mode = "none" /\ line = 0

\* Inside a tick: what the parts of it find, a command above all, which may hand
\* the machine to the guest; what makes the invariants above inductive (the loop
\* of tools/monitor.js, CommandLoop.poll).
TickParts ==
    /\ at \in {"poll", "command"} => active
    /\ at = "command" => mode = "none" /\ line = 0
    /\ at = "step" => run # NoRun /\ run.done + left < run.limit + Slice
    /\ at # "exited" => settled < 3

\* A run that goes on executing is ended by its budget.
RunEnds == run # NoRun ~> (run = NoRun \/ halt \/ Ended)

=============================================================================
