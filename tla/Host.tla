-------------------------------- MODULE Host --------------------------------
(* Who calls the run loop of Machine, and when: the ticks of tools/monitor.js *)
(* and the commands of src/monitor/commands.js. The monitor is active from a  *)
(* call of the guest, a fault or the end of a run until a command lets the    *)
(* guest go on, and a tick then only polls the monitor.                       *)
EXTENDS Machine

VARIABLE
    caller     \* blocks: a tick without a pending run, by runBlocks
               \* run: runUntilInstruction and runUntil, a run under a budget
               \* called: blocks, for the rest of a slice in which the guest
               \*         has called the monitor
               \* monitor: nobody

hostVars == <<c, mem, overlay, pending, mask, at, frames, caller>>

\* runBlocks polls whether the processor is halted or not; a run tests halt
\* before each step.
HostPolls ==
    /\ caller # "monitor"
    /\ caller = "run" => ~c.halt
    /\ PollInterrupts
    /\ UNCHANGED caller

\* A fault ends the slice, and the monitor reports it at once.
HostExecutes ==
    /\ Execute
    /\ caller' = IF at' = "idle" THEN "monitor" ELSE caller

\* TRAP #0 activates the monitor: a run ends, as it finds the processor halted,
\* and a slice of blocks goes on until it does. The handler a failed benchmark
\* leaves behind halts only, which is a case of HostExecutes.
GuestCallsMonitor ==
    /\ at = "execute" /\ \E k \in {c, SyncSr(c)} : MonitorTrap(k)
    /\ caller' = IF caller = "run" THEN "monitor" ELSE "called"

EndSlice ==
    /\ caller = "called" /\ at = "idle"
    /\ caller' = "monitor"
    /\ UNCHANGED vars

\* g, gl, t and bench.
Go ==
    /\ caller = "monitor"
    /\ MonitorSets /\ ~c'.halt
    /\ caller' = "run"

\* A run ends by its budget, with its command, or as it finds a halt.
EndRun ==
    /\ caller = "run"
    /\ MonitorSets
    /\ caller' = "monitor"

\* g and bench have deactivated the monitor before they run the guest, and an
\* error passes what would activate it again; so has reset, before its block, and
\* t has not. An error in the blocks or the run of a tick ends the process.
HostCatches ==
    /\ caller # "called"
    /\ ErrorCaught
    /\ caller' \in {"blocks"} \cup (IF caller = "run" THEN {"monitor"} ELSE {})

HostResets ==
    /\ caller = "monitor"
    /\ Reset
    /\ caller' = "blocks"

HostDevices ==
    /\ AdvanceDevices \/ AdvanceRealTime \/ SetOverlay
    /\ UNCHANGED caller

HostInit == Init /\ caller = "blocks"

HostNext ==
    \/ HostPolls \/ HostExecutes \/ GuestCallsMonitor \/ EndSlice
    \/ Go \/ EndRun \/ HostCatches \/ HostResets \/ HostDevices

\* While the process lives, the interval timer keeps calling runBlocks, or the
\* run that is pending, and a compiled block is finite. Nothing is assumed of the
\* monitor's user.
HostFairness ==
    /\ WF_hostVars(caller \in {"blocks", "run"} /\ HostPolls)
    /\ WF_hostVars((HostExecutes \/ GuestCallsMonitor) /\ at' # "execute")
    /\ WF_hostVars(AdvanceDevices /\ HostDevices)

HostSpec == HostInit /\ [][HostNext]_hostVars /\ HostFairness

-----------------------------------------------------------------------------
(* Properties. *)

\* A processor stopped by STOP, with the monitor inactive and no run pending, runs
\* again once a device has raised a level above its mask, unless the entry itself
\* fails: runBlock polls before it tests halt. Nothing is said of a processor
\* that stops under a budget or is halted for the monitor: nobody polls for it.
StopWakes ==
    (caller = "blocks" /\ c.halt /\ HighestPending > c.sr.ipl) ~> (~c.halt \/ at = "threw")

=============================================================================
