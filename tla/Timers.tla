-------------------------------- MODULE Timers --------------------------------
(* The timers of src/machine/devices/timer.js with the interrupt controller   *)
(* they raise their levels in. A timer is advanced by a number of ticks at    *)
(* once, those of a block of instructions or of an interval of real time, and *)
(* works through them in a loop: one iteration is one action, so that a loop  *)
(* that does not end can be seen.                                             *)
EXTENDS Integers, Sequences, FiniteSetsExt

CONSTANTS
    Level,     \* the levels of the timers attached, in order of attachTimer
    Counts,    \* values the guest stores in COUNT and RELOAD
    Advances,  \* ticks a block or an interval is worth
    Parts,     \* fractional ticks are counted in this many parts
    FiredBound \* bound: expiries of one advance are counted up to this many

ASSUME TimersAssumption ==
    /\ Level \in Seq(1 .. 7)
    /\ Counts \subseteq Nat
    /\ Advances \subseteq Nat
    /\ Parts \in Nat \ {0}
    /\ FiredBound \in Nat /\ \A n \in Advances : n < FiredBound

Timers == 1 .. Len(Level)
Levels == {Level[t] : t \in Timers}
Bits == {"enable", "autoreload", "irq"}

\* defaultReload, 1000 in the code.
DefaultReload == 2

VARIABLES
    count, reload, control,  \* the registers of each timer
    flag,      \* timer.pending, bit 0 of STATUS
    fraction,  \* fractionalTicks
    left,      \* ticks still to be worked through
    pending,   \* Intc: levels raised and not acknowledged
    mask,      \* Intc: levels enabled
    at,        \* "run", or "advance" inside bus.advance
    signalled, \* history: the flag was set with the interrupt enabled
    start,     \* history: what the last advance started from
    fired      \* history: expiries in the last advance

registers == <<count, reload, control>>
history == <<start, fired>>
vars == <<registers, flag, fraction, left, pending, mask, at, signalled, history>>

LeastOf(a, b) == IF a < b THEN a ELSE b

-----------------------------------------------------------------------------
(* Interrupt controller. *)

\* registerSource keeps one handler for a level: that of the last timer.
Owner(level) == CHOOSE t \in Timers :
    Level[t] = level /\ \A u \in Timers : Level[u] = level => u <= t

\* Mutant: the level is acknowledged and the timer is not told.
AcknowledgeQuietly(level) ==
    pending' = pending \ {level} /\ UNCHANGED <<flag, signalled>>

Acknowledge(level) ==
    /\ pending' = pending \ {level}
    /\ flag' = [flag EXCEPT ![Owner(level)] = FALSE]
    /\ signalled' = [signalled EXCEPT ![Owner(level)] = FALSE]

HighestPending == IF pending \cap mask = {} THEN 0 ELSE Max(pending \cap mask)

\* The processor enters the handler of the highest level, or the guest stores a
\* level in the acknowledge register.
Accept ==
    /\ at = "run"
    /\ HighestPending # 0
    /\ Acknowledge(HighestPending)
    /\ UNCHANGED <<registers, fraction, left, mask, at, history>>

AcknowledgeStore ==
    /\ at = "run"
    /\ \E level \in Levels : Acknowledge(level)
    /\ UNCHANGED <<registers, fraction, left, mask, at, history>>

MaskStore ==
    /\ at = "run"
    /\ mask' \in SUBSET Levels
    /\ UNCHANGED <<registers, flag, fraction, left, pending, at, signalled, history>>

-----------------------------------------------------------------------------
(* Stores to the registers, by the guest or by the monitor's ti and te. *)

Registers(t) ==
    /\ at = "run"
    /\ UNCHANGED <<fraction, left, pending, mask, at, history>>

CountStore(t) ==
    /\ Registers(t)
    /\ \E value \in Counts : count' = [count EXCEPT ![t] = value]
    /\ UNCHANGED <<reload, control, flag, signalled>>

ReloadStore(t) ==
    /\ Registers(t)
    /\ \E value \in Counts : reload' = [reload EXCEPT ![t] = value]
    /\ UNCHANGED <<count, control, flag, signalled>>

\* Enabling a timer that has run out reloads it.
ControlStore(t) ==
    /\ Registers(t)
    /\ \E bits \in SUBSET Bits :
           /\ control' = [control EXCEPT ![t] = bits]
           /\ count' = IF "enable" \in bits /\ count[t] = 0
                       THEN [count EXCEPT ![t] = reload[t]] ELSE count
    /\ UNCHANGED <<reload, flag, signalled>>

\* Clearing the flag in STATUS leaves the level pending in the controller.
StatusStore(t) ==
    /\ Registers(t)
    /\ flag' = [flag EXCEPT ![t] = FALSE]
    /\ signalled' = [signalled EXCEPT ![t] = FALSE]
    /\ UNCHANGED registers

\* ti and te, which reach only the first timer; te does not reload.
ReloadCommand ==
    /\ 1 \in Timers /\ Registers(1)
    /\ \E value \in Counts :
           /\ reload' = [reload EXCEPT ![1] = value]
           /\ count' = [count EXCEPT ![1] = value]
    /\ UNCHANGED <<control, flag, signalled>>

EnableCommand ==
    /\ 1 \in Timers /\ Registers(1)
    /\ \E bits \in {control[1] \cup {"enable"}, control[1] \ {"enable"}} :
           control' = [control EXCEPT ![1] = bits]
    /\ UNCHANGED <<count, reload, flag, signalled>>

-----------------------------------------------------------------------------
(* Time. *)

\* The ticks each timer is to work through; those not enabled return at once.
StartAdvance(ticks) ==
    /\ at = "run"
    /\ left' = [t \in Timers |-> IF "enable" \in control[t] THEN ticks[t] ELSE 0]
    /\ start' = [t \in Timers |-> [count |-> count[t], ticks |-> left'[t]]]
    /\ fired' = [t \in Timers |-> 0]
    /\ at' = "advance"
    /\ UNCHANGED <<registers, flag, pending, mask, signalled>>

\* bus.advance, by the number of instructions executed.
Advance ==
    /\ \E n \in Advances : StartAdvance([t \in Timers |-> n])
    /\ UNCHANGED fraction

\* Mutant: the whole ticks worked through are kept as well.
KeptAll(sum) == sum
Kept(sum) == sum % Parts

\* bus.advanceTime: what is not a whole tick is kept for the next call.
AdvanceTime ==
    \E n \in Advances, part \in 0 .. Parts - 1 :
        LET sum(t) == n * Parts + part + fraction[t] IN
        /\ StartAdvance([t \in Timers |-> sum(t) \div Parts])
        /\ fraction' = [t \in Timers |->
               IF "enable" \in control[t] THEN Kept(sum(t)) ELSE fraction[t]]

\* raiseInterrupt.
Expire(t) ==
    /\ flag' = [flag EXCEPT ![t] = TRUE]
    /\ fired' = [fired EXCEPT ![t] = LeastOf(@ + 1, FiredBound)]
    /\ IF "irq" \in control[t]
       THEN /\ pending' = pending \cup {Level[t]}
            /\ signalled' = [signalled EXCEPT ![t] = TRUE]
       ELSE UNCHANGED <<pending, signalled>>

\* Mutants: what is left after an expiry is dropped; an expired one-shot timer
\* works on without being disabled.
AfterExpiryDropped(t, rest) ==
    /\ count' = [count EXCEPT ![t] = IF "autoreload" \in control[t] THEN reload[t] ELSE 0]
    /\ left' = [left EXCEPT ![t] = 0]
    /\ control' = [control EXCEPT ![t] =
           IF "autoreload" \in control[t] THEN @ ELSE @ \ {"enable"}]
AfterExpiryGoesOn(t, rest) ==
    /\ count' = [count EXCEPT ![t] = IF "autoreload" \in control[t] THEN reload[t] ELSE 0]
    /\ left' = [left EXCEPT ![t] = rest]
    /\ UNCHANGED control

\* A timer that reloads itself works on with the rest, any other one is done.
AfterExpiry(t, rest) ==
    IF "autoreload" \in control[t]
    THEN /\ count' = [count EXCEPT ![t] = reload[t]]
         /\ left' = [left EXCEPT ![t] = rest]
         /\ UNCHANGED control
    ELSE /\ count' = [count EXCEPT ![t] = 0]
         /\ left' = [left EXCEPT ![t] = 0]
         /\ control' = [control EXCEPT ![t] = @ \ {"enable"}]

\* One iteration of the loop.
Iterate(t) ==
    LET full == IF count[t] = 0 THEN reload[t] ELSE count[t]
        step == LeastOf(left[t], full)
    IN IF step < full
       THEN /\ count' = [count EXCEPT ![t] = full - step]
            /\ left' = [left EXCEPT ![t] = 0]
            /\ UNCHANGED <<control, flag, pending, signalled, fired>>
       ELSE Expire(t) /\ AfterExpiry(t, left[t] - step)

\* bus.advance takes the devices one after the other.
AdvanceLoop ==
    /\ at = "advance"
    /\ \E t \in Timers :
           /\ left[t] # 0 /\ \A u \in Timers : u < t => left[u] = 0
           /\ Iterate(t)
    /\ UNCHANGED <<reload, fraction, mask, at, start>>

EndAdvance ==
    /\ at = "advance"
    /\ \A t \in Timers : left[t] = 0
    /\ at' = "run"
    /\ UNCHANGED <<registers, flag, fraction, left, pending, mask, signalled, history>>

-----------------------------------------------------------------------------

Reset ==
    /\ at = "run"
    /\ count' = [t \in Timers |-> DefaultReload]
    /\ reload' = [t \in Timers |-> DefaultReload]
    /\ control' = [t \in Timers |-> {}]
    /\ flag' = [t \in Timers |-> FALSE]
    /\ signalled' = [t \in Timers |-> FALSE]
    /\ fraction' = [t \in Timers |-> 0]
    /\ pending' = {} /\ mask' = Levels \ {7}
    /\ UNCHANGED <<left, at, history>>

Init ==
    /\ count = [t \in Timers |-> DefaultReload]
    /\ reload = [t \in Timers |-> DefaultReload]
    /\ control = [t \in Timers |-> {}]
    /\ flag = [t \in Timers |-> FALSE]
    /\ signalled = [t \in Timers |-> FALSE]
    /\ fraction = [t \in Timers |-> 0]
    /\ pending = {} /\ mask = Levels \ {7}
    /\ at = "run"
    /\ left = [t \in Timers |-> 0]
    /\ start = [t \in Timers |-> [count |-> DefaultReload, ticks |-> 0]]
    /\ fired = [t \in Timers |-> 0]

Next ==
    \/ Accept \/ AcknowledgeStore \/ MaskStore
    \/ \E t \in Timers : CountStore(t) \/ ReloadStore(t) \/ ControlStore(t) \/ StatusStore(t)
    \/ ReloadCommand \/ EnableCommand
    \/ Advance \/ AdvanceTime \/ AdvanceLoop \/ EndAdvance
    \/ Reset

Spec == Init /\ [][Next]_vars

\* The loop of an advance is not left before it is done.
FairSpec == Spec /\ WF_vars(AdvanceLoop \/ EndAdvance)

-----------------------------------------------------------------------------
(* Properties. *)

\* The types of the registers, the controller and the history.
TypeOK ==
    /\ count \in [Timers -> Nat] /\ reload \in [Timers -> Nat]
    /\ control \in [Timers -> SUBSET Bits]
    /\ flag \in [Timers -> BOOLEAN] /\ signalled \in [Timers -> BOOLEAN]
    /\ fraction \in [Timers -> 0 .. Parts - 1]
    /\ left \in [Timers -> Nat]
    /\ pending \in SUBSET Levels /\ mask \in SUBSET Levels
    /\ at \in {"run", "advance"}
    /\ start \in [Timers -> [count : Nat, ticks : Nat]]
    /\ fired \in [Timers -> Nat]

\* A timer whose flag was set with its interrupt enabled has its level pending:
\* an expiry is neither served nor acknowledged without its flag being cleared,
\* and one that comes while the handler of an earlier one runs is served again.
\* It holds of the timer that owns its level; one that shares it and was attached
\* earlier keeps its flag (raiseInterrupt, Intc.acknowledge, registerSource).
SignalKept ==
    \A t \in Timers : Owner(Level[t]) = t /\ signalled[t] =>
        flag[t] /\ Level[t] \in pending

\* What one tick at a time would have done to a timer that starts from s and is
\* advanced to the end: the expiries, and the count that is left.
Bulk(t, s) ==
    LET full == IF s.count = 0 THEN reload[t] ELSE s.count
        rest == s.ticks - full
    IN IF s.ticks = 0 THEN [fired |-> 0, count |-> s.count]
       ELSE IF rest < 0 THEN [fired |-> 0, count |-> -rest]
       ELSE IF "autoreload" \notin control[t] THEN [fired |-> 1, count |-> 0]
       ELSE IF rest = 0 THEN [fired |-> 1, count |-> reload[t]]
       ELSE [fired |-> 1 + (rest \div reload[t]), count |-> reload[t] - (rest % reload[t])]

\* An advance by many ticks is exact, however the ticks fall on reloads: the
\* time of a compiled block is the time of its instructions stepped one by one
\* (Timer.advance).
AdvanceExact ==
    [][EndAdvance => \A t \in Timers :
          /\ [fired |-> fired[t], count |-> count[t]] = Bulk(t, start[t])
          /\ fired[t] > 0 /\ "autoreload" \notin control[t] => "enable" \notin control[t]]_vars

\* A timer that reloads itself with nothing.
Spins(t) == reload[t] = 0 /\ "autoreload" \in control[t]

\* Timer.advance returns, unless an autoreloading timer has a reload value of 0:
\* that one never leaves the loop, and with it the whole host process.
AdvanceReturns ==
    at = "advance" ~> (at = "run" \/ \E t \in Timers : Spins(t))

=============================================================================
