--------------------------- MODULE RunControlProofs ----------------------------
(* The invariants of module RunControl for every budget and every slice. What *)
(* ends a run and what starts one are far apart in the code, the tick and the *)
(* commands; the proof goes through both in one inductive invariant, whose    *)
(* strengthening, TickParts, says what each part of a tick finds.             *)
EXTENDS RunControl, SequenceTheorems, TLAPS

\* Inside a tick: who called the monitor, and a fault that was not told yet is
\* still in lastFault, for Settle to find with the monitor inactive.
FaultsKept ==
    /\ at \in {"step", "blocks"} /\ active => "call" \in met
    /\ at \in {"step", "blocks", "poll", "command", "settle"} /\ "fault" \in met =>
           "fault" \in told \/ "call" \in met \/ (fault /\ ~active)

RunInvariant ==
    /\ TypeOK
    /\ OneOwner /\ BudgetHeld /\ FaultsSurface /\ NoSessionInRun
    /\ TickParts /\ FaultsKept

-----------------------------------------------------------------------------

\* What is left of a queue of keys after some were read.
LEMMA SuffixesOfKeys ==
    ASSUME NEW s \in Seq(Keys), NEW t \in Suffixes(s)
    PROVE  t \in Seq(Keys)
<1>1. PICK n \in 1 .. Len(s) + 1 : t = SubSeq(s, n, Len(s))
  BY DEF Suffixes
<1>2. \A i \in n .. Len(s) : s[i] \in Keys
  OBVIOUS
<1> QED BY <1>1, <1>2, SubSeqProperties

\* A key leaves the line within its bound.
LEMMA NextLineFacts ==
    ASSUME line \in 0 .. LineBound, NEW key \in Keys
    PROVE  NextLine(key) \in 0 .. LineBound /\ NextLine("enter") = 0
BY DEF NextLine, LineBound, Keys

\* Counting keeps a run a run, and adds at most one.
LEMMA CountedFacts ==
    ASSUME NEW r \in Runs
    PROVE  /\ Counted(r) \in Runs
           /\ Counted(r).limit = r.limit
           /\ Counted(r).done \in {r.done, r.done + 1}
           /\ r.done < r.limit + Slice => Counted(r).done <= r.limit + Slice
BY RunControlAssumption DEF Counted, Runs

\* No budget is 0, so that a run is never taken for none.
LEMMA RunsFacts ==
    /\ NoRun \notin Runs
    /\ \A r \in Runs : r.limit \in Nat \ {0} /\ r.done \in Nat
BY RunControlAssumption DEF NoRun, Runs

\* The execution of guest code keeps the types and leaves a session only to an
\* active monitor.
LEMMA ExecutesFacts ==
    ASSUME TypeOK, NEW outcome \in Outcomes, NEW a \in BOOLEAN, NEW f \in BOOLEAN,
           Executes(outcome, a, f)
    PROVE  /\ halt' \in BOOLEAN /\ fault' \in BOOLEAN /\ active' \in BOOLEAN
           /\ mode' \in {"none", "asm"} /\ line' \in 0 .. LineBound
           /\ a => active'
           /\ mode = "none" /\ line = 0 => mode' = "none" /\ line' = 0
           /\ ~active' => mode' = mode /\ line' = line
           /\ met' \subseteq {"call", "fault"} /\ met \subseteq met'
           /\ f => fault'
           /\ active' => a \/ "call" \in met'
           /\ "fault" \in met' => "fault" \in met \/ (fault' /\ (active' <=> a))
<1>1. halt' \in BOOLEAN /\ fault' \in BOOLEAN /\ active' \in BOOLEAN /\ (a => active')
  BY Zenon DEF Executes
<1>2. mode' \in {"none", "asm"} /\ line' \in 0 .. LineBound
  <2>1. mode' \in {mode, "none"} /\ line' \in {line, 0}
    BY Zenon DEF Executes
  <2> QED BY <2>1 DEF TypeOK, LineBound
<1>3. mode = "none" /\ line = 0 => mode' = "none" /\ line' = 0
  BY DEF Executes
<1>4. ~active' => mode' = mode /\ line' = line
  BY Zenon DEF Executes
<1>5. met' \subseteq {"call", "fault"} /\ met \subseteq met'
  BY DEF Executes, TypeOK
<1>6. (f => fault') /\ (active' => a \/ "call" \in met')
  BY Zenon DEF Executes
<1>7. "fault" \in met' => "fault" \in met \/ (fault' /\ (active' <=> a))
  <2>1. CASE outcome = "faults"
    BY <2>1, Zenon DEF Executes
  <2>2. CASE outcome # "faults"
    <3>1. met' \subseteq met \cup {"call"}  BY <2>2 DEF Executes
    <3> QED BY <3>1
  <2> QED BY <2>1, <2>2
<1> QED BY <1>1, <1>2, <1>3, <1>4, <1>5, <1>6, <1>7

-----------------------------------------------------------------------------
(* The parts of a tick that run guest code. *)

\* The process has ended by an error, and everything else is as it was.
LEMMA CrashStep ==
    ASSUME RunInvariant, UNCHANGED asyncRun, Crash, at # "exited"
    PROVE  RunInvariant'
<1>1. TypeOK'
  BY DEF RunInvariant, TypeOK, Crash, session, guest, account
<1>2. OneOwner' /\ BudgetHeld' /\ FaultsSurface'
  BY DEF RunInvariant, OneOwner, BudgetHeld, FaultsSurface, Crash, session, guest
<1>3. NoSessionInRun' /\ TickParts' /\ FaultsKept'
  BY DEF RunInvariant, NoSessionInRun, TickParts, FaultsKept, Crash, session, guest, account
<1> QED BY <1>1, <1>2, <1>3 DEF RunInvariant

LEMMA RunInstructionStep ==
    ASSUME RunInvariant, UNCHANGED asyncRun, RunInstruction
    PROVE  RunInvariant'
<1>1. CASE Crash
  BY <1>1, CrashStep DEF RunInstruction
<1>2. ASSUME NEW outcome \in Outcomes,
             Executes(outcome, active, fault),
             rx' \in Suffixes(rx),
             run' = IF outcome = "faults" THEN run ELSE Counted(run),
             at' = IF outcome = "faults" THEN "settle" ELSE at,
             left' = left - 1, left > 0, at = "step", UNCHANGED <<hooked, exit, settled, told>>
      PROVE  RunInvariant'
  <2>1. rx' \in Seq(Keys)
    BY <1>2, SuffixesOfKeys DEF RunInvariant, TypeOK
  <2>2. /\ halt' \in BOOLEAN /\ fault' \in BOOLEAN /\ active' \in BOOLEAN
        /\ mode' \in {"none", "asm"} /\ line' \in 0 .. LineBound
        /\ active => active'
        /\ ~active' => mode' = mode /\ line' = line
        /\ met' \subseteq {"call", "fault"} /\ met \subseteq met'
        /\ fault => fault'
        /\ active' => active \/ "call" \in met'
        /\ "fault" \in met' => "fault" \in met \/ (fault' /\ (active' <=> active))
    BY <1>2, ExecutesFacts DEF RunInvariant, TypeOK
  <2>3. run \in Runs /\ run.done + left < run.limit + Slice
    BY <1>2 DEF RunInvariant, TypeOK, TickParts
  <2>4. /\ run' \in Runs /\ run' # NoRun /\ run'.limit = run.limit
        /\ run'.done \in {run.done, run.done + 1}
    BY <1>2, <2>3, CountedFacts, RunsFacts
  <2>5. TypeOK'
    BY <1>2, <2>1, <2>2, <2>4, RunControlAssumption DEF RunInvariant, TypeOK
  <2>6. BudgetHeld'
    BY <1>2, <2>3, <2>4, RunsFacts, RunControlAssumption DEF RunInvariant, TypeOK, BudgetHeld
  <2>7. TickParts'
    <3>1. at' \in {"step", "settle"} /\ settled' = settled /\ settled < 3
      BY <1>2 DEF RunInvariant, TickParts
    <3>2. run'.done + left' < run'.limit + Slice
      <4>1. /\ run.done \in Nat /\ run.limit \in Nat /\ left \in Nat /\ Slice \in Nat
            /\ run.done + left < run.limit + Slice
        BY <2>3, RunsFacts, RunControlAssumption DEF RunInvariant, TypeOK
      <4>2. left' = left - 1 /\ run'.limit = run.limit /\ run'.done \in {run.done, run.done + 1}
        BY <1>2, <2>4
      <4> QED BY <4>1, <4>2
    <3> QED BY <2>4, <3>1, <3>2 DEF TickParts
  <2>8. OneOwner' /\ FaultsSurface' /\ NoSessionInRun'
    BY <1>2, <2>2 DEF RunInvariant, OneOwner, FaultsSurface, NoSessionInRun
  <2>9. FaultsKept'
    BY <1>2, <2>2 DEF RunInvariant, FaultsKept
  <2> QED BY <2>5, <2>6, <2>7, <2>8, <2>9 DEF RunInvariant
<1> QED BY <1>1, <1>2 DEF RunInstruction

LEMMA RunBlockStep ==
    ASSUME RunInvariant, UNCHANGED asyncRun, RunBlock
    PROVE  RunInvariant'
<1>1. CASE Crash
  BY <1>1, CrashStep DEF RunBlock
<1>2. ASSUME NEW outcome \in Outcomes,
             Executes(outcome, active, fault),
             rx' \in Suffixes(rx),
             at' = IF outcome = "faults" THEN "settle" ELSE at,
             left' = left - 1, left > 0, at = "blocks", UNCHANGED <<run, hooked, exit, settled, told>>
      PROVE  RunInvariant'
  <2>1. rx' \in Seq(Keys)
    BY <1>2, SuffixesOfKeys DEF RunInvariant, TypeOK
  <2>2. /\ halt' \in BOOLEAN /\ fault' \in BOOLEAN /\ active' \in BOOLEAN
        /\ mode' \in {"none", "asm"} /\ line' \in 0 .. LineBound
        /\ ~active' => mode' = mode /\ line' = line
        /\ active => active'
        /\ met' \subseteq {"call", "fault"} /\ met \subseteq met'
        /\ fault => fault'
        /\ active' => active \/ "call" \in met'
        /\ "fault" \in met' => "fault" \in met \/ (fault' /\ (active' <=> active))
    BY <1>2, ExecutesFacts DEF RunInvariant, TypeOK
  <2>3. TypeOK'
    BY <1>2, <2>1, <2>2, RunControlAssumption DEF RunInvariant, TypeOK
  <2>4. BudgetHeld' /\ TickParts'
    BY <1>2 DEF RunInvariant, BudgetHeld, TickParts
  <2>5. OneOwner' /\ FaultsSurface' /\ NoSessionInRun'
    BY <1>2, <2>2 DEF RunInvariant, OneOwner, FaultsSurface, NoSessionInRun
  <2>6. FaultsKept'
    BY <1>2, <2>2 DEF RunInvariant, FaultsKept
  <2> QED BY <2>3, <2>4, <2>5, <2>6 DEF RunInvariant
<1> QED BY <1>1, <1>2 DEF RunBlock

\* The steps that only move on to the next part, and a key that arrives.
LEMMA MovesOnStep ==
    ASSUME RunInvariant, UNCHANGED asyncRun, EndSteps \/ EndBlocks \/ PollDone \/ CtrlC \/ TypeKey
    PROVE  RunInvariant'
<1>1. /\ UNCHANGED <<active, mode, line, halt, fault, run, hooked, exit, settled, left, met, told>>
      /\ at' \in {"settle", "exited"} \/ (at' = at /\ at = "idle")
      /\ at # "exited"
      /\ at' = "settle" => at \in {"step", "blocks", "poll"}
  BY DEF EndSteps, EndBlocks, PollDone, CtrlC, TypeKey, session, guest, account
<1>2. rx' \in Seq(Keys)
  BY DEF RunInvariant, TypeOK, EndSteps, EndBlocks, PollDone, CtrlC, TypeKey, session, guest
<1>3. TypeOK'
  BY <1>1, <1>2 DEF RunInvariant, TypeOK
<1>4. OneOwner' /\ BudgetHeld' /\ FaultsSurface'
  BY <1>1 DEF RunInvariant, OneOwner, BudgetHeld, FaultsSurface
<1>5. NoSessionInRun' /\ TickParts' /\ FaultsKept'
  BY <1>1 DEF RunInvariant, NoSessionInRun, TickParts, FaultsKept
<1> QED BY <1>3, <1>4, <1>5 DEF RunInvariant

LEMMA TickStep ==
    ASSUME RunInvariant, UNCHANGED asyncRun, Tick
    PROVE  RunInvariant'
<1>1. /\ UNCHANGED <<active, mode, line, rx, halt, fault, run, hooked, exit, settled>>
      /\ at = "idle" /\ left' = Slice
      /\ at' = IF active THEN "poll" ELSE IF run # NoRun THEN "step" ELSE "blocks"
      /\ met' = {} /\ told' = {}
  BY DEF Tick, session, guest
<1>2. TypeOK'
  BY <1>1, RunControlAssumption DEF RunInvariant, TypeOK
<1>3. OneOwner' /\ FaultsSurface' /\ NoSessionInRun'
  BY <1>1 DEF RunInvariant, OneOwner, FaultsSurface, NoSessionInRun
<1>4. BudgetHeld'
  BY <1>1 DEF RunInvariant, BudgetHeld
<1>5. TickParts'
  <2>1. CASE active
    BY <1>1, <2>1 DEF RunInvariant, TickParts
  <2>2. CASE ~active /\ run # NoRun
    <3>1. run \in Runs /\ run.done < run.limit
      BY <1>1, <2>2 DEF RunInvariant, TypeOK, BudgetHeld
    <3> QED BY <1>1, <2>2, <3>1, RunsFacts, RunControlAssumption DEF RunInvariant, TickParts
  <2>3. CASE ~active /\ run = NoRun
    BY <1>1, <2>3 DEF RunInvariant, TickParts
  <2> QED BY <2>1, <2>2, <2>3
<1>6. FaultsKept'
  BY <1>1 DEF FaultsKept
<1> QED BY <1>2, <1>3, <1>4, <1>5, <1>6 DEF RunInvariant

LEMMA PollKeyStep ==
    ASSUME RunInvariant, UNCHANGED asyncRun, PollKey
    PROVE  RunInvariant'
<1>1. /\ UNCHANGED <<active, halt, fault, run, hooked, exit, settled, left, met, told>>
      /\ at = "poll" /\ at' \in {"poll", "command"} /\ active
      /\ mode' \in {mode, "none"}
  BY DEF PollKey, RunInvariant, TickParts, guest, account
<1>2. rx \in Seq(Keys) /\ rx # <<>>
  BY DEF RunInvariant, TypeOK, PollKey
<1>3. Head(rx) \in Keys /\ Tail(rx) \in Seq(Keys)
  BY <1>2, HeadTailProperties
<1>4. line' \in 0 .. LineBound /\ rx' \in Seq(Keys)
  BY <1>3, NextLineFacts DEF PollKey, RunInvariant, TypeOK
<1>5. at' = "command" => mode' = "none" /\ line' = 0
  <2>1. at' = "command" => Head(rx) = "enter" /\ mode = "none"
    BY DEF PollKey
  <2>2. line' = NextLine(Head(rx))
    BY DEF PollKey
  <2> QED BY <1>1, <2>1, <2>2, <1>3, NextLineFacts DEF RunInvariant, TypeOK
<1>6. TypeOK'
  BY <1>1, <1>4 DEF RunInvariant, TypeOK
<1>7. OneOwner' /\ BudgetHeld' /\ FaultsSurface' /\ NoSessionInRun'
  BY <1>1 DEF RunInvariant, OneOwner, BudgetHeld, FaultsSurface, NoSessionInRun
<1>8. TickParts' /\ FaultsKept'
  BY <1>1, <1>5 DEF RunInvariant, TickParts, FaultsKept
<1> QED BY <1>6, <1>7, <1>8 DEF RunInvariant

-----------------------------------------------------------------------------
(* Commands. *)

\* What every command finds and leaves: it may hand the machine to the guest,
\* with a fresh run if it is g, and never with a session open.
CommandLeaves ==
    /\ at = "command" /\ CommandDone
    /\ rx' \in Seq(Keys)
    /\ active' \in BOOLEAN /\ halt' \in BOOLEAN /\ fault' \in BOOLEAN
    /\ hooked' \in BOOLEAN /\ exit' \in BOOLEAN
    /\ mode' \in {"none", "asm"} /\ line' = 0
    /\ ~active' => mode' = "none"
    /\ run' \in {run, NoRun} \cup {[limit |-> limit, done |-> 0] : limit \in Budgets}
    /\ met' \subseteq {"call", "fault"} /\ told' \subseteq {"limit", "fault"}
    /\ met \subseteq met' /\ told \subseteq told'
    /\ "fault" \in met' => "fault" \in met \/ "fault" \in told' \/ (fault' /\ ~active')
    /\ UNCHANGED <<settled, left>>

LEMMA CommandShape ==
    ASSUME RunInvariant, Command
    PROVE  CommandLeaves
<1>1. /\ at = "command" /\ CommandDone /\ UNCHANGED <<settled, left>>
      /\ active /\ mode = "none" /\ line = 0
  BY DEF Command, OtherCommand, StartAssembler, QuitMonitor, ResetMachine, RunProgram, RunProgramNow,
         StepProgram, RunBenchmark, RunInvariant, TickParts, session
<1>2. \A t \in Suffixes(rx) : t \in Seq(Keys)
  BY SuffixesOfKeys DEF RunInvariant, TypeOK
<1> USE <1>1, <1>2 DEF CommandLeaves, RunInvariant, TypeOK
<1>3. CASE OtherCommand
  BY <1>3 DEF OtherCommand, session, guest, account
<1>4. CASE StartAssembler
  BY <1>4 DEF StartAssembler, guest, account
<1>5. CASE QuitMonitor
  BY <1>5 DEF QuitMonitor, session, guest, account
<1>6. CASE ResetMachine
  <2>1. PICK outcome \in Outcomes : Executes(outcome, FALSE, FALSE)
    BY <1>6 DEF ResetMachine
  <2>2. /\ halt' \in BOOLEAN /\ fault' \in BOOLEAN /\ active' \in BOOLEAN
        /\ mode' = "none" /\ line' = 0
        /\ met' \subseteq {"call", "fault"} /\ met \subseteq met'
        /\ "fault" \in met' => "fault" \in met \/ (fault' /\ ~active')
    BY <2>1, ExecutesFacts
  <2>3. rx' = <<>> /\ <<>> \in Seq(Keys) /\ run' = NoRun /\ UNCHANGED <<hooked, exit, told>>
    BY <1>6 DEF ResetMachine
  <2> QED BY <2>2, <2>3
<1>7. CASE RunProgram
  BY <1>7 DEF RunProgram, session, account
<1>8. CASE RunProgramNow
  BY <1>8 DEF RunProgramNow, session
<1>9. CASE StepProgram
  <2>1. PICK outcome \in Outcomes : Executes(outcome, active, FALSE)
    BY <1>9 DEF StepProgram
  <2>2. /\ halt' \in BOOLEAN /\ fault' \in BOOLEAN /\ active' \in BOOLEAN
        /\ mode' = "none" /\ line' = 0
        /\ met' \subseteq {"call", "fault"} /\ met \subseteq met'
        /\ "fault" \in met' => "fault" \in met \/ fault'
    BY <2>1, ExecutesFacts
  <2>3. /\ rx' \in Seq(Keys) /\ UNCHANGED <<run, hooked, exit>>
        /\ told' = told \cup (IF fault' THEN {"fault"} ELSE {})
    BY <1>9 DEF StepProgram
  <2> QED BY <2>2, <2>3
<1>10. CASE RunBenchmark
  BY <1>10 DEF RunBenchmark, session, account
<1> QED BY <1>3, <1>4, <1>5, <1>6, <1>7, <1>8, <1>9, <1>10 DEF Command

LEMMA CommandStep ==
    ASSUME RunInvariant, UNCHANGED asyncRun, Command
    PROVE  RunInvariant'
<1>1. CommandLeaves
  BY CommandShape
<1>2. at' \in {"poll", "settle"} /\ (at' = "poll" => active')
  BY <1>1 DEF CommandLeaves, CommandDone
<1>3. /\ run' \in Runs \cup {NoRun}
      /\ run' # NoRun => run'.done < run'.limit + Slice
  <2>1. CASE run' = run
    BY <2>1 DEF RunInvariant, TypeOK, BudgetHeld
  <2>2. CASE run' = NoRun
    BY <2>2
  <2>3. ASSUME NEW limit \in Budgets, run' = [limit |-> limit, done |-> 0]
        PROVE  run' \in Runs /\ run'.done < run'.limit + Slice
    BY <2>3, RunControlAssumption DEF Runs
  <2> QED BY <1>1, <2>1, <2>2, <2>3 DEF CommandLeaves
<1>4. TypeOK'
  BY <1>1, <1>2, <1>3 DEF CommandLeaves, RunInvariant, TypeOK, LineBound
<1>5. OneOwner' /\ BudgetHeld' /\ FaultsSurface' /\ NoSessionInRun'
  BY <1>1, <1>2, <1>3 DEF CommandLeaves, OneOwner, BudgetHeld, FaultsSurface, NoSessionInRun
<1>6. TickParts' /\ FaultsKept'
  BY <1>1, <1>2 DEF CommandLeaves, RunInvariant, TickParts, FaultsKept
<1> QED BY <1>4, <1>5, <1>6 DEF RunInvariant

-----------------------------------------------------------------------------
(* The end of a tick. *)

LEMMA SettleStep ==
    ASSUME RunInvariant, UNCHANGED asyncRun, Settle
    PROVE  RunInvariant'
<1> DEFINE spent == OutOfBudget
           reports == Reportable
           over == active \/ spent \/ reports
<1>1. SettleBy(spent, reports, over) /\ spent \in BOOLEAN /\ reports \in BOOLEAN
  BY Zenon DEF Settle, OutOfBudget, Reportable
<1>2. /\ at = "settle" /\ at' \in {"idle", "exited"}
      /\ settled' = 3 => at' = "exited"
      /\ UNCHANGED <<rx, hooked, exit, left, met>>
      /\ told' = told \cup (IF spent THEN {"limit"} ELSE {})
                       \cup (IF reports THEN {"fault"} ELSE {})
  BY <1>1 DEF SettleBy
<1>3. settled' \in 0 .. 3
  BY <1>1, <1>2 DEF SettleBy, RunInvariant, TypeOK, TickParts
<1>4. /\ active' \in BOOLEAN /\ halt' \in BOOLEAN /\ fault' \in BOOLEAN
      /\ mode' \in {mode, "none"} /\ line' \in {line, 0} /\ run' \in {run, NoRun}
  BY <1>1, Zenon DEF SettleBy
<1>5. active' <=> over
  BY <1>1, Zenon DEF SettleBy, RunInvariant, TypeOK
<1>6. over => run' = NoRun
  BY <1>1, Zenon DEF SettleBy
<1>7. ~over => run' = run /\ mode' = mode /\ line' = line /\ ~active /\ ~spent
  BY <1>1, Zenon DEF SettleBy
<1>8. fault' => active'
  <2>1. fault /\ ~active /\ ~spent => reports
    BY DEF Reportable
  <2>2. fault' => fault /\ ~reports
    BY <1>1, Zenon DEF SettleBy
  <2> QED BY <1>5, <2>1, <2>2
<1>9. TypeOK'
  BY <1>2, <1>3, <1>4 DEF RunInvariant, TypeOK, LineBound
<1>10. OneOwner'
  BY <1>5, <1>6 DEF OneOwner
<1>11. BudgetHeld'
  <2>1. CASE over
    BY <1>6, <2>1 DEF BudgetHeld
  <2>2. CASE ~over /\ run # NoRun
    <3>1. run \in Runs /\ ~(run.done >= run.limit)
      BY <1>7, <2>2 DEF OutOfBudget, RunInvariant, TypeOK
    <3> QED BY <1>7, <2>2, <3>1, RunsFacts, RunControlAssumption DEF BudgetHeld
  <2>3. CASE ~over /\ run = NoRun
    BY <1>7, <2>3 DEF BudgetHeld
  <2> QED BY <2>1, <2>2, <2>3
<1>12. FaultsSurface'
  <2>1. "fault" \in met => "fault" \in told \/ "call" \in met \/ (fault /\ ~active)
    BY <1>2 DEF RunInvariant, FaultsKept
  <2>2. fault /\ ~active => reports \/ spent
    BY DEF Reportable
  <2> QED BY <1>2, <1>8, <2>1, <2>2 DEF FaultsSurface
<1>13. NoSessionInRun'
  BY <1>5, <1>7 DEF RunInvariant, NoSessionInRun
<1>14. TickParts' /\ FaultsKept'
  BY <1>2, <1>3 DEF TickParts, FaultsKept
<1> QED BY <1>9, <1>10, <1>11, <1>12, <1>13, <1>14 DEF RunInvariant

-----------------------------------------------------------------------------
(* Theorems. *)

LEMMA Initially == Init => RunInvariant
<1> SUFFICES ASSUME Init PROVE RunInvariant
  OBVIOUS
<1>1. TypeOK
  <2>1. rx \in Seq(Keys)
    BY DEF Init
  <2>2. active \in BOOLEAN /\ halt \in BOOLEAN /\ fault \in BOOLEAN /\ hooked \in BOOLEAN /\ exit \in BOOLEAN
    BY DEF Init
  <2>3. line \in 0 .. LineBound /\ settled \in 0 .. 3 /\ left \in 0 .. Slice
    BY RunControlAssumption DEF Init, LineBound
  <2> QED BY <2>1, <2>2, <2>3, Zenon DEF Init, TypeOK
<1>2. OneOwner /\ BudgetHeld /\ FaultsSurface
  BY Zenon DEF Init, OneOwner, BudgetHeld, FaultsSurface
<1>3. NoSessionInRun /\ TickParts /\ FaultsKept
  BY DEF Init, NoSessionInRun, TickParts, FaultsKept
<1> QED BY <1>1, <1>2, <1>3 DEF RunInvariant

LEMMA Preserved == RunInvariant /\ [Next]_vars => RunInvariant'
<1> SUFFICES ASSUME RunInvariant, [Next]_vars
             PROVE  RunInvariant'
  OBVIOUS
<1>1. CASE UNCHANGED vars
  BY <1>1
     DEF vars, RunInvariant, TypeOK, OneOwner, BudgetHeld, FaultsSurface, NoSessionInRun, TickParts,
         FaultsKept
<1>2. CASE Next
  <2>1. UNCHANGED asyncRun
    BY <1>2 DEF Next, TickPart, TypeKey, CtrlC
  <2> QED
    BY <1>2, <2>1, TickStep, RunInstructionStep, RunBlockStep, MovesOnStep, PollKeyStep, CommandStep,
       SettleStep
       DEF Next, TickPart
<1> QED BY <1>1, <1>2

LEMMA InvariantHolds == Spec => []RunInvariant
BY Initially, Preserved, PTL DEF Spec

\* The variables of the tick loop keep their types, whatever is typed and run.
THEOREM TypeCorrect == Spec => []TypeOK
<1>1. RunInvariant => TypeOK
  BY DEF RunInvariant
<1> QED BY <1>1, InvariantHolds, PTL

\* Between ticks the monitor is active or a run is pending, never both: no tick
\* goes on with a run that has ended.
THEOREM MachineHasOneOwner == Spec => []OneOwner
<1>1. RunInvariant => OneOwner
  BY DEF RunInvariant
<1> QED BY <1>1, InvariantHolds, PTL

\* A run overshoots its budget by less than a slice, and no tick goes on with a
\* run whose budget is spent.
THEOREM BudgetsHold == Spec => []BudgetHeld
<1>1. RunInvariant => BudgetHeld
  BY DEF RunInvariant
<1> QED BY <1>1, InvariantHolds, PTL

\* A fault is reported in the tick in which it is met, unless the user is told of
\* a spent budget instead or the guest had called the monitor; and the guest
\* never goes on with one.
THEOREM FaultsReachTheMonitor == Spec => []FaultsSurface
<1>1. RunInvariant => FaultsSurface
  BY DEF RunInvariant
<1> QED BY <1>1, InvariantHolds, PTL

\* No run starts in the middle of a line or an assembler session, and none of
\* these survives a run.
THEOREM SessionsEndWithTheMonitor == Spec => []NoSessionInRun
<1>1. RunInvariant => NoSessionInRun
  BY DEF RunInvariant
<1> QED BY <1>1, InvariantHolds, PTL

\* When a part of a tick has its turn, the parts before it left what it relies
\* on: a slice only with budget left, an end of the run only after its cause.
THEOREM PartsOfATickMeet == Spec => []TickParts
<1>1. RunInvariant => TickParts
  BY DEF RunInvariant
<1> QED BY <1>1, InvariantHolds, PTL

=============================================================================
