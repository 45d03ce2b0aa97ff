----------------------------- MODULE TimersProofs ------------------------------
(* The interrupt signal of the timers and the exactness of an advance, for    *)
(* any number of timers, any levels and any reload values.                    *)
EXTENDS Timers, TLAPS

-----------------------------------------------------------------------------
(* Types. *)

\* Every timer has a level, and the level is one of Levels.
LEMMA LevelFacts == \A t \in Timers : Level[t] \in Levels
BY DEF Levels

LEMMA TickFacts ==
    ASSUME NEW n \in Nat
    PROVE  Kept(n) \in 0 .. Parts - 1 /\ n \div Parts \in Nat
BY TimersAssumption DEF Kept

\* The tail of one iteration: what an expiry does to the registers.
LEMMA IterateType ==
    ASSUME TypeOK, NEW t \in Timers, Iterate(t)
    PROVE  /\ count' \in [Timers -> Nat] /\ left' \in [Timers -> Nat]
           /\ control' \in [Timers -> SUBSET Bits]
           /\ flag' \in [Timers -> BOOLEAN] /\ signalled' \in [Timers -> BOOLEAN]
           /\ fired' \in [Timers -> Nat] /\ pending' \in SUBSET Levels
<1> DEFINE full == IF count[t] = 0 THEN reload[t] ELSE count[t]
           step == LeastOf(left[t], full)
           rest == left[t] - step
<1>1. /\ full \in Nat /\ step \in Nat /\ step <= full /\ step <= left[t] /\ left[t] \in Nat
      /\ rest \in Nat /\ full - step \in Nat
  BY DEF TypeOK, LeastOf
<1>2. CASE step < full
  <2>1. /\ count' = [count EXCEPT ![t] = full - step]
        /\ left' = [left EXCEPT ![t] = 0]
        /\ UNCHANGED <<control, flag, pending, signalled, fired>>
    BY <1>2 DEF Iterate
  <2> QED BY <1>1, <2>1 DEF TypeOK
<1>3. CASE ~(step < full)
  <2>1. Expire(t) /\ AfterExpiry(t, rest)
    BY <1>3 DEF Iterate
  <2> HIDE DEF rest
  <2>2. count' \in [Timers -> Nat] /\ left' \in [Timers -> Nat] /\ control' \in [Timers -> SUBSET Bits]
    <3>1. rest \in Nat
      BY <1>1 DEF rest
    <3>2. CASE "autoreload" \in control[t]
      BY <2>1, <3>1, <3>2, SMTT(20) DEF AfterExpiry, TypeOK
    <3>3. CASE "autoreload" \notin control[t]
      BY <2>1, <3>3, SMTT(20) DEF AfterExpiry, TypeOK
    <3> QED BY <3>2, <3>3
  <2>3. flag' \in [Timers -> BOOLEAN] /\ signalled' \in [Timers -> BOOLEAN] /\ pending' \in SUBSET Levels
    BY <2>1, LevelFacts DEF Expire, TypeOK
  <2>4. fired' \in [Timers -> Nat]
    BY <2>1, TimersAssumption DEF Expire, TypeOK, LeastOf
  <2> QED BY <2>2, <2>3, <2>4
<1> QED BY <1>2, <1>3

LEMMA StartAdvanceType ==
    ASSUME TypeOK, NEW ticks, \A t \in Timers : ticks[t] \in Nat, StartAdvance(ticks)
    PROVE  /\ left' \in [Timers -> Nat] /\ start' \in [Timers -> [count : Nat, ticks : Nat]]
           /\ fired' \in [Timers -> Nat] /\ at' = "advance"
           /\ UNCHANGED <<registers, flag, pending, mask, signalled>>
<1>1. left' \in [Timers -> Nat]
  BY DEF StartAdvance
<1> QED BY <1>1 DEF StartAdvance, TypeOK

LEMMA TypesKept == TypeOK /\ [Next]_vars => TypeOK'
<1> SUFFICES ASSUME TypeOK, [Next]_vars PROVE TypeOK'
  OBVIOUS
<1>1. CASE UNCHANGED vars
  BY <1>1 DEF vars, registers, history, TypeOK
<1>2. ASSUME NEW level, Acknowledge(level)
      PROVE  /\ pending' \in SUBSET Levels
             /\ flag' \in [Timers -> BOOLEAN] /\ signalled' \in [Timers -> BOOLEAN]
  BY <1>2 DEF Acknowledge, TypeOK
<1>3. CASE Accept \/ AcknowledgeStore
  BY <1>2, <1>3 DEF Accept, AcknowledgeStore, registers, history, TypeOK
<1>4. CASE MaskStore
  BY <1>4 DEF MaskStore, registers, history, TypeOK
<1>5. ASSUME NEW t \in Timers, CountStore(t) \/ ReloadStore(t) \/ ControlStore(t) \/ StatusStore(t)
      PROVE  TypeOK'
  <2>1. CASE CountStore(t)
    BY <2>1, TimersAssumption DEF CountStore, Registers, history, TypeOK
  <2>2. CASE ReloadStore(t)
    BY <2>2, TimersAssumption DEF ReloadStore, Registers, history, TypeOK
  <2>3. CASE ControlStore(t)
    BY <2>3 DEF ControlStore, Registers, history, TypeOK
  <2>4. CASE StatusStore(t)
    BY <2>4 DEF StatusStore, Registers, registers, history, TypeOK
  <2> QED BY <1>5, <2>1, <2>2, <2>3, <2>4
<1>6. CASE ReloadCommand \/ EnableCommand
  <2>1. CASE ReloadCommand
    BY <2>1, TimersAssumption DEF ReloadCommand, Registers, history, TypeOK
  <2>2. CASE EnableCommand
    <3>1. control[1] \cup {"enable"} \in SUBSET Bits /\ control[1] \ {"enable"} \in SUBSET Bits
      BY <2>2 DEF EnableCommand, TypeOK, Bits
    <3> QED BY <2>2, <3>1 DEF EnableCommand, Registers, history, TypeOK
  <2> QED BY <1>6, <2>1, <2>2
<1>7. CASE Advance
  <2>1. PICK n \in Advances : StartAdvance([t \in Timers |-> n])
    BY <1>7 DEF Advance
  <2>2. \A t \in Timers : [u \in Timers |-> n][t] \in Nat
    BY TimersAssumption
  <2> QED BY <1>7, <2>1, <2>2, StartAdvanceType DEF Advance, registers, TypeOK
<1>8. CASE AdvanceTime
  <2>1. PICK n \in Advances, part \in 0 .. Parts - 1 :
           /\ StartAdvance([t \in Timers |-> (n * Parts + part + fraction[t]) \div Parts])
           /\ fraction' = [t \in Timers |->
                  IF "enable" \in control[t] THEN Kept(n * Parts + part + fraction[t]) ELSE fraction[t]]
    BY <1>8 DEF AdvanceTime
  <2> DEFINE sum(t) == n * Parts + part + fraction[t]
  <2>2. \A t \in Timers : sum(t) \in Nat
    <3>1. n * Parts \in Nat /\ part \in Nat
      BY TimersAssumption
    <3> HIDE DEF Timers
    <3> QED BY <3>1 DEF TypeOK
  <2>3. \A t \in Timers : Kept(sum(t)) \in 0 .. Parts - 1 /\ sum(t) \div Parts \in Nat
    BY <2>2, TickFacts
  <2> HIDE DEF sum
  <2>4. fraction' \in [Timers -> 0 .. Parts - 1]
    BY <2>1, <2>3 DEF sum, TypeOK
  <2>5. \A t \in Timers : [u \in Timers |-> sum(u) \div Parts][t] \in Nat
    BY <2>3
  <2>6. StartAdvance([t \in Timers |-> sum(t) \div Parts])
    BY <2>1 DEF sum
  <2> QED BY <2>4, <2>5, <2>6, StartAdvanceType DEF registers, TypeOK
<1>9. CASE AdvanceLoop
  BY <1>9, IterateType DEF AdvanceLoop, TypeOK
<1>10. CASE EndAdvance
  BY <1>10 DEF EndAdvance, registers, history, TypeOK
<1>11. CASE Reset
  BY <1>11, TimersAssumption DEF Reset, history, TypeOK, DefaultReload
<1> QED BY <1>1, <1>3, <1>4, <1>5, <1>6, <1>7, <1>8, <1>9, <1>10, <1>11 DEF Next

-----------------------------------------------------------------------------
(* The signal. *)

LEMMA SignalsKept == TypeOK /\ SignalKept /\ [Next]_vars => SignalKept'
<1> SUFFICES ASSUME TypeOK, SignalKept, [Next]_vars PROVE SignalKept'
  OBVIOUS
<1>1. CASE UNCHANGED <<flag, signalled, pending>>
  BY <1>1 DEF SignalKept
<1>2. ASSUME NEW level, Acknowledge(level)
      PROVE  SignalKept'
  \* A timer that owns the acknowledged level is no longer signalled.
  BY <1>2 DEF Acknowledge, SignalKept, TypeOK
<1>3. CASE Accept \/ AcknowledgeStore
  BY <1>2, <1>3 DEF Accept, AcknowledgeStore
<1>4. ASSUME NEW t \in Timers, StatusStore(t)
      PROVE  SignalKept'
  BY <1>4 DEF StatusStore, Registers, SignalKept, TypeOK
<1>5. CASE AdvanceLoop
  <2>1. PICK t \in Timers : Iterate(t)
    BY <1>5 DEF AdvanceLoop
  <2>2. CASE Expire(t)
    BY <2>2 DEF Expire, SignalKept, TypeOK
  <2>3. CASE UNCHANGED <<flag, signalled, pending>>
    BY <2>3, <1>1
  <2> QED BY <2>1, <2>2, <2>3 DEF Iterate
<1>6. CASE Reset
  BY <1>6 DEF Reset, SignalKept
<1>7. ASSUME NEW t \in Timers, CountStore(t) \/ ReloadStore(t) \/ ControlStore(t)
      PROVE  SignalKept'
  BY <1>1, <1>7 DEF CountStore, ReloadStore, ControlStore, Registers
<1>8. CASE MaskStore \/ ReloadCommand \/ EnableCommand \/ Advance \/ AdvanceTime \/ EndAdvance
  BY <1>1, <1>8 DEF MaskStore, ReloadCommand, EnableCommand, Registers, Advance, AdvanceTime,
                    StartAdvance, EndAdvance
<1>9. CASE UNCHANGED vars
  BY <1>1, <1>9 DEF vars
<1> QED BY <1>3, <1>4, <1>5, <1>6, <1>7, <1>8, <1>9 DEF Next

-----------------------------------------------------------------------------
(* The exactness of an advance. *)

\* The expiries n ticks bring a count c with the reload value r, and the count
\* they leave.
Expiries(c, r, bits, n) ==
    LET full == IF c = 0 THEN r ELSE c
    IN IF n = 0 \/ n < full THEN 0
       ELSE IF "autoreload" \notin bits \/ n = full THEN 1
       ELSE 1 + ((n - full) \div r)

Remainder(c, r, bits, n) ==
    LET full == IF c = 0 THEN r ELSE c
    IN IF n = 0 THEN c
       ELSE IF n < full THEN full - n
       ELSE IF "autoreload" \notin bits THEN 0
       ELSE IF n = full THEN r
       ELSE r - ((n - full) % r)

\* A timer that reloads itself with nothing, and will run out, never leaves the loop.
Starved(t) == Spins(t) /\ left[t] > count[t]

\* What the loop has done to a timer and what is left of it to do come out at what
\* the whole advance should do; every expiry has used up a tick, so that the count
\* of expiries stays below its bound.
Exact(t) ==
    /\ fired[t] + Expiries(count[t], reload[t], control[t], left[t])
         = Expiries(start[t].count, reload[t], control[t], start[t].ticks)
    /\ Remainder(count[t], reload[t], control[t], left[t])
         = Remainder(start[t].count, reload[t], control[t], start[t].ticks)
    /\ fired[t] + left[t] <= start[t].ticks
    /\ fired[t] > 0 /\ "autoreload" \notin control[t] => left[t] = 0 /\ "enable" \notin control[t]

AdvanceInvariant ==
    at = "advance" => \A t \in Timers :
        start[t].ticks <= FiredBound /\ (Starved(t) \/ Exact(t))

\* A multiple that is nearer to 0 than its factor is 0.
LEMMA SmallMultiple ==
    ASSUME NEW r \in Nat \ {0}, NEW k \in Int, -r < r * k, r * k < r
    PROVE  k = 0
<1>1. CASE k >= 1
  <2>1. r * k >= r * 1
    BY <1>1
  <2> QED BY <2>1
<1>2. CASE k <= -1
  <2>1. r * (-k) >= r * 1
    BY <1>2
  <2>2. r * (-k) = -(r * k)
    OBVIOUS
  <2> QED BY <2>1, <2>2
<1> QED BY <1>1, <1>2

\* Quotient and remainder are the only ones.
LEMMA DivisionUnique ==
    ASSUME NEW d \in Int, NEW r \in Nat \ {0}, NEW q \in Int, NEW m \in 0 .. r - 1,
           d = r * q + m
    PROVE  d \div r = q /\ d % r = m
<1> DEFINE a == d \div r
           b == d % r
<1>1. a \in Int /\ b \in 0 .. r - 1 /\ d = r * a + b
  OBVIOUS
<1> HIDE DEF a, b
<1>2. r * (a - q) = r * a - r * q
  BY <1>1
<1>3. a - q = 0
  <2>1. a - q \in Int /\ r * (a - q) = m - b
    BY <1>1, <1>2
  <2> DEFINE k == a - q
  <2> HIDE DEF k
  <2>2. -r < r * k /\ r * k < r
    BY <1>1, <2>1 DEF k
  <2> QED BY <2>1, <2>2, SmallMultiple DEF k
<1>4. a = q /\ b = m
  BY <1>1, <1>3
<1> QED BY <1>4 DEF a, b

\* Division, for a divisor that is not a constant.
LEMMA DivisionFacts ==
    ASSUME NEW d \in Nat, NEW r \in Nat \ {0}
    PROVE  /\ d \div r \in Nat /\ d % r \in 0 .. r - 1
           /\ d < r => d \div r = 0 /\ d % r = d
           /\ d >= r => d \div r = 1 + ((d - r) \div r) /\ d % r = (d - r) % r
<1>1. d \div r \in Nat /\ d % r \in 0 .. r - 1
  OBVIOUS
<1>2. CASE d < r
  <2>1. d = r * 0 + d
    OBVIOUS
  <2> QED BY <1>1, <1>2, <2>1, DivisionUnique
<1>3. CASE d >= r
  <2> DEFINE q == (d - r) \div r
             m == (d - r) % r
  <2>1. q \in Int /\ m \in 0 .. r - 1 /\ d - r = r * q + m
    BY <1>3
  <2> HIDE DEF q, m
  <2>2. r * (1 + q) = r + r * q
    BY <2>1
  <2>3. d = r * (1 + q) + m /\ 1 + q \in Int
    BY <2>1, <2>2
  <2>4. d \div r = 1 + q /\ d % r = m
    BY <2>1, <2>3, DivisionUnique
  <2> QED BY <1>1, <1>3, <2>4 DEF q, m
<1> QED BY <1>2, <1>3

LEMMA BulkIsBoth ==
    ASSUME NEW t, NEW s, s.count \in Nat, s.ticks \in Nat, reload[t] \in Nat
    PROVE  Bulk(t, s) = [fired |-> Expiries(s.count, reload[t], control[t], s.ticks),
                         count |-> Remainder(s.count, reload[t], control[t], s.ticks)]
BY DEF Bulk, Expiries, Remainder

\* Unless it never ends, an advance comes to some expiries.
LEMMA ExpiriesType ==
    ASSUME NEW c \in Nat, NEW r \in Nat, NEW bits, NEW n \in Nat,
           ~("autoreload" \in bits /\ r = 0 /\ n > c)
    PROVE  Expiries(c, r, bits, n) \in Nat
<1> DEFINE full == IF c = 0 THEN r ELSE c
<1>1. CASE n <= full \/ "autoreload" \notin bits
  BY <1>1 DEF Expiries
<1>2. CASE n > full /\ "autoreload" \in bits
  <2>1. r \in Nat \ {0} /\ n - full \in Nat
    BY <1>2
  <2>2. (n - full) \div r \in Nat
    BY <2>1, DivisionFacts
  <2> QED BY <1>2, <2>2 DEF Expiries
<1> QED BY <1>1, <1>2

\* The n ticks reach the full count, and do not starve.
Expires(c, r, n, full) ==
    n # 0 /\ full = (IF c = 0 THEN r ELSE c) /\ n >= full /\ ~(r = 0 /\ n > c)

\* An expiry and the work of the ticks it leaves are the work of all of them.
LEMMA ExpiryStep ==
    ASSUME NEW c \in Nat, NEW r \in Nat, NEW n \in Nat, NEW full \in Nat,
           NEW bits, "autoreload" \in bits, Expires(c, r, n, full)
    PROVE  /\ Expiries(c, r, bits, n) = Expiries(r, r, bits, n - full) + 1
           /\ Remainder(c, r, bits, n) = Remainder(r, r, bits, n - full)
<1>0. n # 0 /\ full = (IF c = 0 THEN r ELSE c) /\ n >= full /\ ~(r = 0 /\ n > c)
  BY DEF Expires
<1>1. full \in Nat \ {0}
  BY <1>0
<1>2. CASE n = full
  BY <1>0, <1>1, <1>2 DEF Expiries, Remainder
<1>3. CASE n > full
  <2> DEFINE d == n - full
  <2>1. r \in Nat \ {0} /\ d \in Nat \ {0}
    BY <1>0, <1>1, <1>3
  <2>2. Expiries(c, r, bits, n) = 1 + (d \div r) /\ Remainder(c, r, bits, n) = r - (d % r)
    BY <1>0, <1>1, <1>3 DEF Expiries, Remainder
  <2>3. d = n - full
    OBVIOUS
  <2> HIDE DEF d
  <2> DEFINE q == d \div r
             m == d % r
  <2>9. /\ q \in Nat /\ m \in Nat
    <3>1. d \in Nat /\ r \in Nat \ {0}
      BY <2>1
    <3>2. d \div r \in Nat /\ d % r \in 0 .. r - 1
      BY ONLY <3>1, DivisionFacts
    <3> QED BY <3>1, <3>2
  <2>4. /\ d < r => q = 0 /\ m = d
        /\ d >= r => q = 1 + ((d - r) \div r) /\ m = (d - r) % r
    <3>1. d \in Nat /\ r \in Nat \ {0}
      BY <2>1
    <3> QED BY ONLY <3>1, DivisionFacts DEF q, m
  <2>5. d = r => q = 1 /\ m = 0
    <3>1. r = r * 1 + 0 /\ 1 \in Int /\ 0 \in 0 .. r - 1 /\ r \in Int
      BY <2>1
    <3> QED BY <2>1, <3>1, DivisionUnique
  <2> HIDE DEF q, m
  <2>6. Expiries(r, r, bits, d) = q
    BY <2>1, <2>4, <2>5 DEF Expiries
  <2>7. Remainder(r, r, bits, d) = r - m
    BY <2>1, <2>4, <2>5 DEF Remainder
  <2>8. Expiries(c, r, bits, n) = 1 + q /\ Remainder(c, r, bits, n) = r - m
    BY <2>2 DEF q, m
  <2>10. /\ Expiries(r, r, bits, n - full) = q
         /\ Remainder(r, r, bits, n - full) = r - m
    BY <2>3, <2>6, <2>7, Zenon
  <2>11. 1 + q = q + 1
    BY <2>9
  <2> QED BY <2>8, <2>10, <2>11, Zenon
<1>4. n = full \/ n > full
  BY <1>0, <1>1
<1> QED BY <1>2, <1>3, <1>4, Zenon

\* What an iteration does to one timer.
LEMMA IterateFacts ==
    ASSUME TypeOK, NEW t \in Timers, Iterate(t), left[t] # 0,
           NEW full, full = (IF count[t] = 0 THEN reload[t] ELSE count[t])
    PROVE  /\ left[t] < full =>
                 /\ count'[t] = full - left[t] /\ left'[t] = 0
                 /\ UNCHANGED <<fired, control>>
           /\ left[t] >= full =>
                 /\ fired'[t] = LeastOf(fired[t] + 1, FiredBound)
                 /\ "autoreload" \in control[t] =>
                        count'[t] = reload[t] /\ left'[t] = left[t] - full /\ control' = control
                 /\ "autoreload" \notin control[t] =>
                        count'[t] = 0 /\ left'[t] = 0 /\ control'[t] = control[t] \ {"enable"}
           /\ \A u \in Timers : u # t =>
                 /\ count'[u] = count[u] /\ left'[u] = left[u]
                 /\ fired'[u] = fired[u] /\ control'[u] = control[u]
<1>1. full \in Nat /\ left[t] \in Nat
  BY DEF TypeOK
<1>2. CASE left[t] < full
  <2>1. /\ count' = [count EXCEPT ![t] = full - left[t]]
        /\ left' = [left EXCEPT ![t] = 0] /\ UNCHANGED <<fired, control>>
    BY <1>1, <1>2 DEF Iterate, LeastOf
  <2> QED BY <1>1, <1>2, <2>1 DEF TypeOK
<1>3. CASE left[t] >= full
  <2>1. Expire(t) /\ AfterExpiry(t, left[t] - full)
    BY <1>1, <1>3 DEF Iterate, LeastOf
  <2>2. fired' = [fired EXCEPT ![t] = LeastOf(fired[t] + 1, FiredBound)]
    BY <2>1 DEF Expire
  <2>3. CASE "autoreload" \in control[t]
    <3>1. /\ count' = [count EXCEPT ![t] = reload[t]]
          /\ left' = [left EXCEPT ![t] = left[t] - full] /\ control' = control
      BY <2>1, <2>3 DEF AfterExpiry
    <3> QED BY <1>1, <1>3, <2>2, <2>3, <3>1 DEF TypeOK
  <2>4. CASE "autoreload" \notin control[t]
    <3>1. /\ count' = [count EXCEPT ![t] = 0] /\ left' = [left EXCEPT ![t] = 0]
          /\ control' = [control EXCEPT ![t] = control[t] \ {"enable"}]
      BY <2>1, <2>4 DEF AfterExpiry
    <3> QED BY <1>1, <1>3, <2>2, <2>4, <3>1 DEF TypeOK
  <2> QED BY <2>3, <2>4
<1> QED BY <1>1, <1>2, <1>3

\* The account of a timer is kept by an iteration of its own.
LEMMA OwnAccount ==
    ASSUME TypeOK, NEW t \in Timers, Iterate(t), left[t] # 0, UNCHANGED <<reload, start>>,
           start[t].ticks <= FiredBound, Starved(t) \/ Exact(t),
           TypeOK'
    PROVE  Starved(t)' \/ Exact(t)'
<1> DEFINE full == IF count[t] = 0 THEN reload[t] ELSE count[t]
           b == control[t]
           auto == "autoreload" \in b
           r == reload[t]
           n == left[t]
<1>1. /\ full \in Nat /\ r \in Nat /\ n \in Nat \ {0} /\ count[t] \in Nat
      /\ fired[t] \in Nat /\ start[t].ticks \in Nat /\ FiredBound \in Nat
      /\ control[t] \in SUBSET Bits
      /\ start[t] = [count |-> start[t].count, ticks |-> start[t].ticks] /\ start[t].count \in Nat
      /\ count'[t] \in Nat /\ left'[t] \in Nat
  BY TimersAssumption DEF TypeOK
<1>2. CASE Starved(t)
  \* The reload value is 0, so that an expiry leaves more ticks than its count.
  <2>1. full = count[t] /\ n > full /\ auto /\ r = 0
    BY <1>1, <1>2 DEF Starved, Spins
  <2>2. count'[t] = r /\ left'[t] = n - full /\ control' = control
    BY <1>1, <2>1, IterateFacts
  <2> QED BY <1>1, <2>1, <2>2 DEF Starved, Spins
<1>3. CASE Exact(t) /\ ~Starved(t)
  <2>1. "autoreload" \in control'[t] <=> auto
    BY <1>1, <1>3, IterateFacts
  <2>6. /\ Expiries(start[t].count, r, control'[t], start[t].ticks) = Expiries(start[t].count, r, b, start[t].ticks)
        /\ Remainder(start[t].count, r, control'[t], start[t].ticks) = Remainder(start[t].count, r, b, start[t].ticks)
    BY <2>1 DEF Expiries, Remainder
  <2>2. /\ fired[t] + Expiries(count[t], r, b, n) = Expiries(start[t].count, r, b, start[t].ticks)
        /\ Remainder(count[t], r, b, n) = Remainder(start[t].count, r, b, start[t].ticks)
        /\ fired[t] + n <= start[t].ticks
        /\ ~(fired[t] > 0 /\ ~auto)
    BY <1>1, <1>3 DEF Exact
  <2>3. SUFFICES
          /\ fired'[t] + Expiries(count'[t], r, control'[t], left'[t]) = fired[t] + Expiries(count[t], r, b, n)
          /\ Remainder(count'[t], r, control'[t], left'[t]) = Remainder(count[t], r, b, n)
          /\ fired'[t] + left'[t] <= start[t].ticks
          /\ fired'[t] > 0 /\ ~auto => left'[t] = 0 /\ "enable" \notin control'[t]
    BY <2>1, <2>2, <2>3, <2>6 DEF Exact
  <2>4. CASE n < full
    <3>1. count'[t] = full - n /\ left'[t] = 0 /\ fired'[t] = fired[t] /\ control'[t] = b
      BY <2>4, IterateFacts
    <3>2. /\ Expiries(count[t], r, b, n) = 0 /\ Expiries(full - n, r, b, 0) = 0
          /\ Remainder(count[t], r, b, n) = full - n /\ Remainder(full - n, r, b, 0) = full - n
      BY <1>1, <2>4 DEF Expiries, Remainder
    <3> QED BY <1>1, <2>2, <3>1, <3>2
  <2>5. CASE n >= full
    <3>1. fired'[t] = fired[t] + 1
      BY <1>1, <2>2, <2>5, IterateFacts DEF LeastOf
    <3>2. CASE ~auto
      <4>1. count'[t] = 0 /\ left'[t] = 0 /\ control'[t] = b \ {"enable"}
        BY <1>1, <2>5, <3>2, IterateFacts
      <4>2. /\ Expiries(count[t], r, b, n) = 1 /\ Expiries(0, r, b \ {"enable"}, 0) = 0
            /\ Remainder(count[t], r, b, n) = 0 /\ Remainder(0, r, b \ {"enable"}, 0) = 0
        BY <1>1, <2>5, <3>2 DEF Expiries, Remainder
      <4> QED BY <1>1, <2>2, <3>1, <4>1, <4>2
    <3>3. CASE auto
      <4>1. count'[t] = r /\ left'[t] = n - full /\ control'[t] = b
        BY <2>5, <3>3, IterateFacts
      <4>2. ~(r = 0 /\ n > count[t])
        BY <1>1, <1>3, <3>3 DEF Starved, Spins
      <4>3. full # 0 /\ n - full \in Nat /\ ~(r = 0 /\ n - full > r)
        BY <1>1, <2>5, <4>2
      <4>4. "autoreload" \in b
        BY <3>3
      <4> DEFINE c == count[t]
                 more == Expiries(r, r, b, n - full)
      <4>9. Expires(c, r, n, full)
        BY <1>1, <2>5, <4>2 DEF Expires
      <4>10. c \in Nat /\ r \in Nat /\ n \in Nat /\ n # 0 /\ full \in Nat
        BY <1>1
      <4> HIDE DEF b, r, n, full, c
      <4>5. more \in Nat
        BY <4>10, <4>3, ExpiriesType
      <4>6. /\ Expiries(c, r, b, n) = more + 1
            /\ Remainder(c, r, b, n) = Remainder(r, r, b, n - full)
        BY <4>4, <4>9, <4>10, ExpiryStep
      <4> HIDE DEF more
      <4>7. fired'[t] + more = fired[t] + (more + 1)
        BY <1>1, <3>1, <4>5
      <4>8. fired'[t] + left'[t] <= start[t].ticks
        BY <1>1, <2>2, <3>1, <4>1, <4>3
      <4> QED BY <3>3, <4>1, <4>6, <4>7, <4>8 DEF more, c
    <3> QED BY <3>2, <3>3
  <2> QED BY <1>1, <2>4, <2>5
<1> QED BY <1>2, <1>3

\* The ticks an advance starts with are fewer than the bound on expiries.
LEMMA TicksBounded ==
    ASSUME NEW n \in Advances, NEW part \in 0 .. Parts - 1, NEW f \in 0 .. Parts - 1
    PROVE  (n * Parts + part + f) \div Parts <= FiredBound
<1>1. Parts \in Nat \ {0} /\ n \in Nat /\ n < FiredBound /\ FiredBound \in Nat
  BY TimersAssumption
<1> DEFINE e == part + f
           s == n * Parts + part + f
<1>2. e \in Nat /\ e < Parts + Parts
  BY <1>1
<1>3. n * Parts \in Int /\ s = n * Parts + e /\ n * Parts = Parts * n
  BY <1>1
<1> HIDE DEF e, s
<1>4. CASE e < Parts
  <2>1. s = Parts * n + e /\ e \in 0 .. Parts - 1 /\ s \in Int
    BY <1>1, <1>2, <1>3, <1>4
  <2>2. s \div Parts = n
    BY <1>1, <2>1, DivisionUnique
  <2> QED BY <1>1, <2>2 DEF s
<1>5. CASE e >= Parts
  <2>1. Parts * (n + 1) = Parts * n + Parts
    BY <1>1
  <2>2. s = Parts * (n + 1) + (e - Parts) /\ e - Parts \in 0 .. Parts - 1 /\ s \in Int
        /\ n + 1 \in Int
    BY <1>1, <1>2, <1>3, <1>5, <2>1
  <2>3. s \div Parts = n + 1
    BY <1>1, <2>2, DivisionUnique
  <2> QED BY <1>1, <2>3 DEF s
<1> QED BY <1>1, <1>2, <1>4, <1>5

\* A timer about to be advanced has everything still to do.
LEMMA StartExact ==
    ASSUME TypeOK, NEW ticks, \A t \in Timers : ticks[t] \in Nat /\ ticks[t] <= FiredBound,
           StartAdvance(ticks)
    PROVE  AdvanceInvariant'
<1> SUFFICES ASSUME NEW t \in Timers
             PROVE  start'[t].ticks <= FiredBound /\ (Starved(t)' \/ Exact(t)')
  BY DEF AdvanceInvariant
<1>1. /\ count' = count /\ reload' = reload /\ control' = control /\ fired'[t] = 0
      /\ left'[t] \in Nat /\ left'[t] <= FiredBound
      /\ start'[t] = [count |-> count[t], ticks |-> left'[t]]
      /\ count[t] \in Nat /\ reload[t] \in Nat
  BY TimersAssumption DEF StartAdvance, registers, TypeOK
<1>2. CASE ~Starved(t)'
  <2>1. Expiries(count[t], reload[t], control[t], left'[t]) \in Nat
    <3>1. ~("autoreload" \in control[t] /\ reload[t] = 0 /\ left'[t] > count[t])
      BY <1>1, <1>2 DEF Starved, Spins
    <3> QED BY <1>1, <3>1, ExpiriesType
  <2>2. start'[t].count = count[t] /\ start'[t].ticks = left'[t]
    BY <1>1
  <2> QED BY <1>1, <2>1, <2>2 DEF Exact
<1> QED BY <1>1, <1>2

LEMMA AdvanceKept == TypeOK /\ AdvanceInvariant /\ [Next]_vars => AdvanceInvariant'
<1> SUFFICES ASSUME TypeOK, AdvanceInvariant, [Next]_vars PROVE AdvanceInvariant'
  OBVIOUS
<1>1. CASE at' = "run"
  BY <1>1 DEF AdvanceInvariant
<1>2. CASE UNCHANGED vars
  BY <1>2 DEF vars, registers, history, AdvanceInvariant, Starved, Spins, Exact
<1>3. CASE Advance
  <2>1. PICK n \in Advances : StartAdvance([t \in Timers |-> n])
    BY <1>3 DEF Advance
  <2>2. n \in Nat /\ n <= FiredBound
    BY TimersAssumption
  <2> QED BY <2>1, <2>2, StartExact
<1>4. CASE AdvanceTime
  <2>1. PICK n \in Advances, part \in 0 .. Parts - 1 :
           StartAdvance([t \in Timers |-> (n * Parts + part + fraction[t]) \div Parts])
    BY <1>4 DEF AdvanceTime
  <2>2. ASSUME NEW t \in Timers
        PROVE  /\ (n * Parts + part + fraction[t]) \div Parts \in Nat
               /\ (n * Parts + part + fraction[t]) \div Parts <= FiredBound
    <3>1. fraction[t] \in 0 .. Parts - 1
      BY DEF TypeOK
    <3>2. n * Parts + part + fraction[t] \in Nat
      <4>1. n * Parts \in Nat /\ part \in Nat /\ Parts \in Nat
        BY TimersAssumption
      <4> QED BY <3>1, <4>1
    <3> QED BY <3>1, <3>2, TickFacts, TicksBounded
  <2> QED BY <2>1, <2>2, StartExact
<1>5. CASE AdvanceLoop
  <2>1. PICK t \in Timers : left[t] # 0 /\ Iterate(t)
    BY <1>5 DEF AdvanceLoop
  <2>2. UNCHANGED <<reload, start>> /\ at = "advance"
    BY <1>5 DEF AdvanceLoop
  <2>3. ASSUME NEW u \in Timers
        PROVE  start'[u].ticks <= FiredBound /\ (Starved(u)' \/ Exact(u)')
    <3>1. start[u].ticks <= FiredBound /\ (Starved(u) \/ Exact(u))
      BY <2>2 DEF AdvanceInvariant
    <3>2. CASE u = t
      BY <2>1, <2>2, <3>1, <3>2, TypesKept, OwnAccount
    <3>3. CASE u # t
      <4>1. /\ count'[u] = count[u] /\ left'[u] = left[u]
            /\ fired'[u] = fired[u] /\ control'[u] = control[u]
        BY <2>1, <3>3, IterateFacts
      <4> QED BY <2>2, <3>1, <4>1 DEF Starved, Spins, Exact
    <3> QED BY <3>2, <3>3
  <2> QED BY <2>3 DEF AdvanceInvariant
<1>6. CASE at = "run" /\ at' = at
  BY <1>1, <1>6
<1>7. CASE Accept \/ AcknowledgeStore \/ MaskStore \/ ReloadCommand \/ EnableCommand \/ EndAdvance \/ Reset
  BY <1>1, <1>7 DEF Accept, AcknowledgeStore, MaskStore, ReloadCommand, EnableCommand, Registers,
                    EndAdvance, Reset
<1>8. ASSUME NEW t \in Timers, CountStore(t) \/ ReloadStore(t) \/ ControlStore(t) \/ StatusStore(t)
      PROVE  AdvanceInvariant'
  BY <1>1, <1>8 DEF CountStore, ReloadStore, ControlStore, StatusStore, Registers
<1> QED BY <1>2, <1>3, <1>4, <1>5, <1>7, <1>8 DEF Next

LEMMA AdvanceStart == Init => AdvanceInvariant
BY DEF Init, AdvanceInvariant

\* What an advance has done by its end is what its ticks would have done one by one.
LEMMA EndExact ==
    ASSUME TypeOK, AdvanceInvariant, EndAdvance, NEW t \in Timers
    PROVE  /\ [fired |-> fired[t], count |-> count[t]] = Bulk(t, start[t])
           /\ fired[t] > 0 /\ "autoreload" \notin control[t] => "enable" \notin control[t]
<1>1. left[t] = 0 /\ (Starved(t) \/ Exact(t))
  BY DEF EndAdvance, AdvanceInvariant
<1>2. Exact(t)
  BY <1>1 DEF Starved, TypeOK
<1>3. /\ Expiries(count[t], reload[t], control[t], 0) = 0
      /\ Remainder(count[t], reload[t], control[t], 0) = count[t]
  BY DEF Expiries, Remainder
<1>4. /\ fired[t] = Expiries(start[t].count, reload[t], control[t], start[t].ticks)
      /\ count[t] = Remainder(start[t].count, reload[t], control[t], start[t].ticks)
      /\ fired[t] > 0 /\ "autoreload" \notin control[t] => "enable" \notin control[t]
  BY <1>1, <1>2, <1>3 DEF Exact, TypeOK
<1> QED BY <1>4, BulkIsBoth DEF TypeOK

-----------------------------------------------------------------------------
(* The theorems. *)

LEMMA Initially == Init => TypeOK /\ SignalKept
BY TimersAssumption DEF Init, TypeOK, SignalKept, DefaultReload

\* The registers, the controller and the history keep their types.
THEOREM TypeCorrect == Spec => []TypeOK
BY Initially, TypesKept, PTL DEF Spec

\* An expiry with its interrupt enabled stays flagged and pending until it is
\* served, acknowledged, cleared or reset, whatever else happens at other levels.
THEOREM SignalsAreKept == Spec => []SignalKept
BY Initially, TypesKept, SignalsKept, PTL DEF Spec

\* However many ticks an advance is worth and however they fall on the reloads of
\* however many timers, its end is where single ticks would have led (Timer.advance).
THEOREM AdvancesAreExact == Spec => AdvanceExact
<1> DEFINE Same ==
        EndAdvance => \A t \in Timers :
            /\ [fired |-> fired[t], count |-> count[t]] = Bulk(t, start[t])
            /\ fired[t] > 0 /\ "autoreload" \notin control[t] => "enable" \notin control[t]
<1>1. TypeOK /\ AdvanceInvariant => Same
  BY EndExact
<1>2. Spec => []TypeOK
  BY TypeCorrect
<1> HIDE DEF Same
<1>3. Spec => [][Same]_vars
  BY <1>1, <1>2, AdvanceStart, AdvanceKept, PTL DEF Spec
<1> QED BY <1>3 DEF Same, AdvanceExact

=============================================================================
