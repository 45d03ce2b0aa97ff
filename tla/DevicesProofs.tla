---------------------------- MODULE DevicesProofs ----------------------------
(* Proofs for the bus with its memories and passive devices, and for sound.   *)
(*                                                                            *)
(* Bus: a region keeps to its own addresses and a byte to its width, for maps *)
(* and displays of any size; what a long store leaves in the cursor register  *)
(* and what a long load of the clock may see follow from what one byte does,  *)
(* by the arithmetic of digits. The bytes of a store reach the display one by *)
(* one: what holds after each of them is shown by the least at which it would *)
(* fail. What a guest and the commands see of it all is the abstract memory:  *)
(* an address is of one region at most, no device lies behind the overlay,    *)
(* and so two halves of an access show what the whole would.                  *)
(*                                                                            *)
(* Sound: types, the states of the envelopes and the status word are kept by  *)
(* each operation on one channel, so the lemmas speak of a channel and the    *)
(* steps of which channel is given to which operation.                        *)
EXTENDS Bus, Sound, WellFoundedInduction, TLAPS

-----------------------------------------------------------------------------
(* Induction over the steps of a sequence, as the least of the numbers at     *)
(* which it fails.                                                            *)

LEMMA LeastNumber ==
    ASSUME NEW T, T \subseteq Nat, T # {}
    PROVE  \E k \in T : \A j \in T : k <= j
<1> DEFINE less == {pair \in Nat \X Nat : pair[1] < pair[2]}
<1>1. IsWellFoundedOn(less, Nat)
  BY NatLessThanWellFounded DEF OpToRel
<1> HIDE DEF less
<1>2. PICK k \in T : \A j \in T : <<j, k>> \notin less
  BY <1>1, WFMin
<1>3. \A j \in T : ~ (j < k)
  BY <1>2 DEF less
<1> QED BY <1>3

\* What starts in D and steps within D up to n stays there.
LEMMA StepsStay ==
    ASSUME NEW D, NEW n \in Nat, NEW f, f[0] \in D,
           \A i \in 1 .. n : f[i - 1] \in D => f[i] \in D
    PROVE  \A i \in 0 .. n : f[i] \in D
<1> DEFINE T == {i \in 0 .. n : f[i] \notin D}
<1> SUFFICES ASSUME T # {} PROVE FALSE
  OBVIOUS
<1>0. T \subseteq Nat
  OBVIOUS
<1>1. PICK k \in T : \A j \in T : k <= j
  <2> HIDE DEF T
  <2> QED BY <1>0, LeastNumber
<1>2. k # 0
  OBVIOUS
<1>3. k \in 1 .. n /\ k - 1 \in 0 .. n /\ k - 1 \notin T
  BY <1>1, <1>2
<1>4. f[k - 1] \in D
  BY <1>3
<1>5. f[k] \in D
  BY <1>3, <1>4
<1> QED BY <1>5

StepsTaken(f, D, n, start, step) ==
    /\ f \in [0 .. n -> D]
    /\ f[0] = start /\ \A i \in 1 .. n : f[i] = step[i][f[i - 1]]

\* A step for each number gives a sequence of n of them.
LEMMA StepsExist ==
    ASSUME NEW D, NEW n \in Nat, NEW start \in D, NEW step \in [1 .. n -> [D -> D]]
    PROVE  \E f : StepsTaken(f, D, n, start, step)
<1> DEFINE Upto(k) == \E f \in [0 .. k -> D] :
               f[0] = start /\ \A i \in 1 .. k : f[i] = step[i][f[i - 1]]
           T == {k \in 0 .. n : ~Upto(k)}
<1>1. Upto(0)
  <2> DEFINE f == [i \in 0 .. 0 |-> start]
  <2>1. f \in [0 .. 0 -> D] /\ f[0] = start
    OBVIOUS
  <2>2. \A i \in 1 .. 0 : f[i] = step[i][f[i - 1]]
    OBVIOUS
  <2> HIDE DEF f
  <2> QED BY <2>1, <2>2
<1>2. ASSUME NEW k \in 1 .. n, Upto(k - 1) PROVE Upto(k)
  <2>1. PICK f \in [0 .. k - 1 -> D] :
            f[0] = start /\ \A i \in 1 .. k - 1 : f[i] = step[i][f[i - 1]]
    BY <1>2
  <2> DEFINE g == [i \in 0 .. k |-> IF i = k THEN step[k][f[k - 1]] ELSE f[i]]
  <2>2. g \in [0 .. k -> D]
    <3>1. f[k - 1] \in D
      OBVIOUS
    <3>2. step[k] \in [D -> D]
      OBVIOUS
    <3>3. step[k][f[k - 1]] \in D
      BY <3>1, <3>2
    <3>4. ASSUME NEW i \in 0 .. k, i # k PROVE f[i] \in D
      <4>1. i \in 0 .. k - 1
        BY <3>4
      <4> QED BY <4>1
    <3> QED BY <3>3, <3>4
  <2>3. g[0] = start
    BY <2>1
  <2>4. ASSUME NEW i \in 1 .. k PROVE g[i] = step[i][g[i - 1]]
    <3>1. g[i - 1] = f[i - 1]
      <4>1. i - 1 \in 0 .. k /\ i - 1 # k
        OBVIOUS
      <4> QED BY <4>1
    <3>2. CASE i = k
      <4>1. g[k] = step[k][f[k - 1]]
        OBVIOUS
      <4> HIDE DEF g
      <4> QED BY <3>1, <3>2, <4>1
    <3>3. CASE i # k
      <4>1. i \in 1 .. k - 1 /\ g[i] = f[i]
        BY <3>3
      <4> QED BY <2>1, <3>1, <4>1
    <3> QED BY <3>2, <3>3
  <2> HIDE DEF g
  <2> QED BY <2>2, <2>3, <2>4
<1> HIDE DEF Upto
<1>3. ASSUME T # {} PROVE FALSE
  <2>1. T \subseteq Nat
    OBVIOUS
  <2>2. PICK k \in T : \A j \in T : k <= j
    <3> HIDE DEF T
    <3> QED BY <1>3, <2>1, LeastNumber
  <2>3. k \in 1 .. n /\ k - 1 \in 0 .. n /\ k - 1 \notin T
    BY <1>1, <2>2
  <2>4. Upto(k - 1)
    BY <2>3
  <2> QED BY <1>2, <2>3, <2>4
<1>4. Upto(n)
  BY <1>3
<1> QED BY <1>4 DEF Upto, StepsTaken

-----------------------------------------------------------------------------
(* The display after the bytes that reach it. *)

ByteValue == 0 .. Radix - 1
Display == [cursor : 0 .. Cells - 1, cells : [0 .. Cells - 1 -> ByteValue]]

-----------------------------------------------------------------------------
(* Weights and digits. *)

\* A multiple that is nearer to 0 than its factor is 0.
LEMMA SmallMultiple ==
    ASSUME NEW r \in Nat \ {0}, NEW k \in Int, -r < r * k, r * k < r
    PROVE  k = 0
<1>1. CASE k >= 1
  <2>1. r * k >= r * 1
    BY <1>1
  <2> QED BY <2>1
<1>2. CASE k <= -1
  <2>1. r * (-k) >= r * 1
    BY <1>2
  <2>2. r * (-k) = -(r * k)
    OBVIOUS
  <2> QED BY <2>1, <2>2
<1> QED BY <1>1, <1>2

\* Quotient and remainder are the only ones.
LEMMA DivisionUnique ==
    ASSUME NEW d \in Int, NEW r \in Nat \ {0}, NEW q \in Int, NEW m \in 0 .. r - 1,
           d = r * q + m
    PROVE  d \div r = q /\ d % r = m
<1> DEFINE a == d \div r
           b == d % r
<1>1. a \in Int /\ b \in 0 .. r - 1 /\ d = r * a + b
  OBVIOUS
<1> HIDE DEF a, b
<1>2. r * (a - q) = r * a - r * q
  BY <1>1
<1>3. a - q = 0
  <2>1. a - q \in Int /\ r * (a - q) = m - b
    BY <1>1, <1>2
  <2> DEFINE k == a - q
  <2> HIDE DEF k
  <2>2. -r < r * k /\ r * k < r
    BY <1>1, <2>1 DEF k
  <2> QED BY <2>1, <2>2, SmallMultiple DEF k
<1>4. a = q /\ b = m
  BY <1>1, <1>3
<1> QED BY <1>4 DEF a, b

\* A multiple of the divisor does not change the remainder.
LEMMA MultipleLeaves ==
    ASSUME NEW r \in Nat \ {0}, NEW k \in Int, NEW m \in Int
    PROVE  (r * k + m) % r = m % r
<1> DEFINE q == m \div r
           b == m % r
<1>1. q \in Int /\ b \in 0 .. r - 1 /\ m = r * q + b
  OBVIOUS
<1> HIDE DEF q, b
<1>2. r * (k + q) = r * k + r * q
  BY <1>1
<1>3. k + q \in Int /\ r * k \in Int /\ r * q \in Int
  BY <1>1
<1>4. r * k + m = r * (k + q) + b
  BY <1>1, <1>2, <1>3
<1>5. r * k + m \in Int
  BY <1>3
<1>6. (r * k + m) % r = b
  BY <1>1, <1>3, <1>4, <1>5, DivisionUnique
<1> QED BY <1>6 DEF b

LEMMA WeightFacts ==
    /\ Weight(0) = 1 /\ Weight(1) = Radix /\ Weight(2) = Radix * Radix
    /\ Weight(3) = Radix * (Radix * Radix)
    /\ \A i \in 0 .. 3 : Weight(i) \in Nat \ {0}
<1>1. Radix \in Nat \ {0}
  BY BusAssumption
<1>2. Radix * Radix \in Nat \ {0}
  BY <1>1
<1>3. Radix * (Radix * Radix) \in Nat \ {0}
  <2> DEFINE s == Radix * Radix
  <2> HIDE DEF s
  <2>1. s \in Nat \ {0}
    BY <1>2 DEF s
  <2>2. Radix * s \in Nat \ {0}
    BY <1>1, <2>1
  <2> QED BY <2>2 DEF s
<1>4. /\ Weight(0) = 1 /\ Weight(1) = Radix /\ Weight(2) = Radix * Radix
      /\ Weight(3) = Radix * (Radix * Radix)
  BY DEF Weight
<1>5. \A i \in 0 .. 3 : i = 0 \/ i = 1 \/ i = 2 \/ i = 3
  OBVIOUS
<1> QED BY <1>1, <1>2, <1>3, <1>4, <1>5

LEMMA DigitType ==
    ASSUME NEW t \in Nat, NEW i \in 0 .. 3
    PROVE  Digit(t, i) \in ByteValue
<1> DEFINE w == Weight(i)
           r == Radix
<1>1. w \in Nat \ {0} /\ r \in Nat \ {0}
  BY WeightFacts, BusAssumption
<1> HIDE DEF w, r
<1>2. t \div w \in Nat
  BY <1>1
<1>3. (t \div w) % r \in 0 .. r - 1
  BY <1>1, <1>2
<1> QED BY <1>3 DEF Digit, w, r, ByteValue

LEMMA CursorType ==
    ASSUME NEW c \in Nat, NEW i \in 0 .. 3, NEW b \in ByteValue
    PROVE  CursorByte(c, i, b) \in 0 .. Cells - 1
<1> DEFINE j == 3 - i
           w == Weight(j)
           d == Digit(c, j)
<1>1. j \in 0 .. 3
  OBVIOUS
<1>2. w \in Nat /\ d \in Nat /\ b \in Nat
  <2>1. w \in Nat
    BY <1>1, WeightFacts
  <2>2. d \in ByteValue
    <3> HIDE DEF j
    <3> QED BY <1>1, DigitType
  <2> QED BY <2>1, <2>2, BusAssumption DEF ByteValue
<1> HIDE DEF w, d, j
<1>3. d * w \in Nat /\ b * w \in Nat
  BY <1>2
<1>4. c - d * w + b * w \in Int
  BY <1>3
<1> DEFINE total == c - d * w + b * w
<1> HIDE DEF total
<1>5. total % Cells \in 0 .. Cells - 1
  BY <1>4, BusAssumption DEF total
<1> QED BY <1>5 DEF CursorByte, WithDigit, total, w, d, j

LEMMA VideoStoreType ==
    ASSUME NEW d \in Display, NEW i \in Nat, NEW b \in ByteValue
    PROVE  VideoStore(d, i, b) \in Display
<1>0. Cells \in Nat \ {0} /\ d.cursor \in Nat
  BY BusAssumption DEF Display
<1>1. CASE i \in 0 .. 3
  <2>1. CursorByte(d.cursor, i, b) \in 0 .. Cells - 1
    BY <1>0, <1>1, CursorType
  <2>2. VideoStore(d, i, b) = [d EXCEPT !.cursor = CursorByte(d.cursor, i, b)]
    BY <1>1 DEF VideoStore
  <2> QED BY <2>1, <2>2, Zenon DEF Display
<1>2. CASE i \in 4 .. 3 + Cells
  <2>1. VideoStore(d, i, b) =
            [cursor |-> (i - 3) % Cells, cells |-> [d.cells EXCEPT ![i - 4] = b]]
    BY <1>0, <1>2 DEF VideoStore
  <2>2. (i - 3) % Cells \in 0 .. Cells - 1
    BY <1>0
  <2>3. [d.cells EXCEPT ![i - 4] = b] \in [0 .. Cells - 1 -> ByteValue]
    BY DEF Display
  <2> QED BY <2>1, <2>2, <2>3 DEF Display
<1>3. CASE i \notin 0 .. 3 /\ i \notin 4 .. 3 + Cells
  BY <1>3 DEF VideoStore
<1> QED BY <1>1, <1>2, <1>3

\* A region is at and above its base.
LEMMA BasesFirst ==
    ASSUME NEW r \in Region
    PROVE  Base[r] \in Span[r] /\ \A x \in Span[r] : x \in 0 .. Top /\ x - Base[r] \in Nat
<1>1. PICK l \in 0 .. Top, h \in 0 .. Top : l <= h /\ Span[r] = l .. h
  BY BusAssumption
<1>2. Top \in Nat
  BY BusAssumption
<1>3. l \in Span[r] /\ \A y \in Span[r] : l <= y
  BY <1>1, <1>2
<1>4. Base[r] \in Span[r] /\ \A y \in Span[r] : Base[r] <= y
  BY <1>3 DEF Base
<1> QED BY <1>1, <1>2, <1>4

Showing == [cursor |-> cursor, cells |-> cells]

\* The display between two of the bytes v.
LEMMA VideoStepsType ==
    ASSUME NEW a \in Nat, NEW v \in Seq(ByteValue), Showing \in Display
    PROVE  LET after == VideoSteps(a, v) IN
           /\ after[0] = Showing
           /\ \A i \in 1 .. Len(v) : after[i] =
                  IF At(a, i - 1) \in Span["video"]
                  THEN VideoStore(after[i - 1], At(a, i - 1) - Base["video"], v[i])
                  ELSE after[i - 1]
           /\ \A i \in 0 .. Len(v) : after[i] \in Display
<1> DEFINE n == Len(v)
           Step(d, i) == IF At(a, i - 1) \in Span["video"]
                         THEN VideoStore(d, At(a, i - 1) - Base["video"], v[i])
                         ELSE d
           step == [i \in 1 .. n |-> [d \in Display |-> Step(d, i)]]
           Whole(f) == f = [i \in 0 .. n |-> IF i = 0 THEN Showing ELSE Step(f[i - 1], i)]
           after == VideoSteps(a, v)
<1>0. n \in Nat
  OBVIOUS
<1>1. ASSUME NEW d \in Display, NEW i \in 1 .. n PROVE Step(d, i) \in Display
  <2>1. CASE At(a, i - 1) \in Span["video"]
    <3>1. At(a, i - 1) - Base["video"] \in Nat
      <4>1. "video" \in Region
        BY DEF Region
      <4> QED BY <2>1, <4>1, BasesFirst
    <3>2. v[i] \in ByteValue
      OBVIOUS
    <3> QED BY <2>1, <3>1, <3>2, VideoStoreType
  <2> QED BY <2>1
<1> HIDE DEF Step
<1>2. step \in [1 .. n -> [Display -> Display]]
  BY <1>1
<1>3. PICK f \in [0 .. n -> Display] :
          f[0] = Showing /\ \A i \in 1 .. n : f[i] = step[i][f[i - 1]]
  <2>1. PICK f : StepsTaken(f, Display, n, Showing, step)
    <3> HIDE DEF step, n
    <3> QED BY <1>0, <1>2, StepsExist
  <2> QED BY <2>1 DEF StepsTaken
<1>4. \A i \in 1 .. n : f[i] = Step(f[i - 1], i)
  <2> SUFFICES ASSUME NEW i \in 1 .. n PROVE f[i] = Step(f[i - 1], i)
    OBVIOUS
  <2>1. i - 1 \in 0 .. n
    BY <1>0
  <2>2. f[i - 1] \in Display
    BY <2>1
  <2> QED BY <1>3, <2>2
<1>5. Whole(f)
  <2> DEFINE g == [i \in 0 .. n |-> IF i = 0 THEN Showing ELSE Step(f[i - 1], i)]
  <2>1. ASSUME NEW i \in 0 .. n PROVE f[i] = g[i]
    <3>1. CASE i = 0
      BY <1>0, <1>3, <3>1
    <3>2. CASE i # 0
      <4>1. i \in 1 .. n
        BY <1>0, <3>2
      <4> QED BY <1>4, <3>2, <4>1
    <3> QED BY <3>1, <3>2
  <2> QED BY <2>1
<1>6. after = CHOOSE f_1 : Whole(f_1)
  BY DEF VideoSteps, Step, Showing
<1>7. Whole(after)
  <2> HIDE DEF Whole, after
  <2> QED BY <1>5, <1>6
<1>8. after[0] = Showing
  BY <1>0, <1>7
<1>9. ASSUME NEW i \in 1 .. n PROVE after[i] = Step(after[i - 1], i)
  <2>1. i \in 0 .. n /\ i # 0
    BY <1>0
  <2> HIDE DEF after
  <2> QED BY <1>7, <2>1
<1>10. \A i \in 0 .. n : after[i] \in Display
  <2>1. \A i \in 1 .. n : after[i - 1] \in Display => after[i] \in Display
    <3> HIDE DEF after
    <3> QED BY <1>1, <1>9
  <2> HIDE DEF after, n
  <2> QED BY <1>0, <1>8, <2>1, StepsStay
<1> QED BY <1>8, <1>9, <1>10 DEF Step

LEMMA VideoAfterType ==
    ASSUME NEW a \in Nat, NEW v \in Seq(ByteValue), Showing \in Display
    PROVE  VideoAfter(a, v) \in Display
BY VideoStepsType DEF VideoAfter

-----------------------------------------------------------------------------
(* What the bus answers with. *)

LEMMA TopNat == Top \in Nat
BY BusAssumption

LEMMA AtType ==
    ASSUME NEW a \in Nat, NEW i \in Nat
    PROVE  At(a, i) \in 0 .. Top /\ (a + i <= Top => At(a, i) = a + i)
<1> DEFINE m == Top + 1
           x == a + i
<1>1. m \in Nat \ {0} /\ x \in Nat
  BY BusAssumption
<1>2. Top = m - 1
  BY BusAssumption
<1> HIDE DEF m, x
<1>3. x % m \in 0 .. m - 1 /\ (x < m => x % m = x)
  BY <1>1
<1>4. x <= m - 1 => x < m
  BY <1>1
<1> QED BY <1>2, <1>3, <1>4 DEF At, m, x

LEMMA PlaceType ==
    ASSUME NEW x \in Nat, NEW a \in Int
    PROVE  Place(x, a) \in 0 .. Top
<1> DEFINE m == Top + 1
           y == (x + (Top + 1)) - a
<1>1. m \in Nat \ {0} /\ y \in Int /\ Top = m - 1
  BY BusAssumption
<1> HIDE DEF m, y
<1>2. y % m \in 0 .. m - 1
  BY <1>1
<1> QED BY <1>1, <1>2 DEF Place, m, y

LEMMA PutType ==
    ASSUME NEW S, S \subseteq Nat, NEW contents \in [S -> ByteValue],
           NEW a \in Int, NEW v \in Seq(ByteValue)
    PROVE  Put(contents, a, v) \in [S -> ByteValue]
<1>1. ASSUME NEW x \in S
      PROVE  (IF Place(x, a) < Len(v) THEN v[Place(x, a) + 1] ELSE contents[x]) \in ByteValue
  <2>1. x \in Nat
    OBVIOUS
  <2>2. Place(x, a) \in 0 .. Top /\ Top \in Nat
    BY <2>1, PlaceType, TopNat
  <2>3. Place(x, a) \in Nat
    BY <2>2
  <2>4. CASE Place(x, a) < Len(v)
    <3>1. Place(x, a) + 1 \in 1 .. Len(v)
      BY <2>3, <2>4
    <3> QED BY <2>4, <3>1
  <2>5. CASE ~ (Place(x, a) < Len(v))
    BY <2>5
  <2> QED BY <2>4, <2>5
<1> QED BY <1>1 DEF Put

\* ROM ends at the last address, and its offsets are those of the overlay.
LEMMA RomFacts ==
    /\ RomStart \in 1 .. Top /\ Span["rom"] = RomStart .. Top
    /\ Overlay = 0 .. Top - RomStart
    /\ \A x \in Span["rom"] : x - RomStart \in Overlay
<1>1. PICK l \in 1 .. Top : Span["rom"] = l .. Top
  BY BusAssumption
<1>2. Top \in Nat
  BY BusAssumption
<1>3. "rom" \in Region
  BY DEF Region
<1>4. RomStart \in Span["rom"] /\ \A x \in Span["rom"] : x - RomStart \in Nat
  BY <1>3, BasesFirst DEF RomStart
<1>5. l \in Span["rom"]
  BY <1>1, <1>2
<1>6. RomStart \in l .. Top /\ l - RomStart \in Nat
  BY <1>1, <1>4, <1>5
<1>7. RomStart = l
  BY <1>2, <1>6
<1> QED BY <1>1, <1>2, <1>7 DEF Overlay

\* An access that fits some region fits no other.
LEMMA HolderIs ==
    ASSUME TypeOK, NEW a, NEW n, NEW r \in RegionsOf(a, n)
    PROVE  /\ Holder(a, n) = r /\ r \in mapped /\ r \in Region
           /\ a \in Span[r] /\ a + n - 1 \in Span[r]
<1>1. ASSUME NEW s \in RegionsOf(a, n) PROVE s = r
  <2>1. r \in mapped /\ s \in mapped /\ a \in Span[r] /\ a \in Span[s]
    BY DEF RegionsOf
  <2> QED BY <2>1 DEF TypeOK, RegionsDisjoint
<1>2. Holder(a, n) \in RegionsOf(a, n)
  BY DEF Holder
<1>3. Holder(a, n) = r
  BY <1>1, <1>2
<1> QED BY <1>3 DEF RegionsOf, TypeOK

LEMMA ByteType ==
    ASSUME TypeOK, NEW r \in Region, NEW x \in Span[r], NEW t \in Nat
    PROVE  Byte(r, x, t) \in ByteValue
<1>1. x - Base[r] \in Nat
  BY BasesFirst
<1>2. Radix \in Nat /\ Radix > 1 /\ Cells \in Nat
  BY BusAssumption
<1>3. CASE r \in Ram
  <2>1. x \in RamAddr
    BY <1>3 DEF Ram, RamAddr
  <2>2. Byte(r, x, t) = ram[x]
    BY <1>3 DEF Byte, Ram
  <2> QED BY <2>1, <2>2 DEF TypeOK, ByteValue
<1>4. CASE r = "rom"
  <2>1. x - RomStart \in Overlay
    BY <1>4, RomFacts
  <2> QED BY <1>4, <2>1 DEF Byte, TypeOK, ByteValue, Ram
<1>5. CASE r = "rtc"
  <2> DEFINE o == x - Base[r]
  <2>0. Byte(r, x, t) = ClockByte(o, t)
    BY <1>5 DEF Byte, Ram
  <2>1. o \in Nat
    BY <1>1
  <2> HIDE DEF o
  <2>2. CASE o = 1
    BY <1>2, <2>0, <2>2 DEF ClockByte, ByteValue
  <2>3. CASE o \in 2 .. 5
    <3>1. 5 - o \in 0 .. 3
      BY <2>3
    <3>2. Digit(t, 5 - o) \in ByteValue
      BY <3>1, DigitType
    <3> QED BY <2>0, <2>3, <3>2 DEF ClockByte
  <2>4. CASE o # 1 /\ o \notin 2 .. 5
    BY <1>2, <2>0, <2>4 DEF ClockByte, ByteValue
  <2> QED BY <2>2, <2>3, <2>4
<1>6. CASE r = "video"
  <2> DEFINE o == x - Base[r]
  <2>0. Byte(r, x, t) = VideoByte(o)
    BY <1>6 DEF Byte, Ram
  <2>1. o \in Nat
    BY <1>1
  <2> HIDE DEF o
  <2>2. CASE o \in 0 .. 3
    <3>1. 3 - o \in 0 .. 3 /\ cursor \in Nat
      BY <1>2, <2>2 DEF TypeOK
    <3>2. Digit(cursor, 3 - o) \in ByteValue
      BY <3>1, DigitType
    <3> QED BY <2>0, <2>2, <3>2 DEF VideoByte
  <2>3. CASE o \in 4 .. 3 + Cells
    <3>1. o - 4 \in 0 .. Cells - 1
      BY <1>2, <2>3
    <3>2. o \notin 0 .. 3
      BY <1>2, <2>3
    <3> QED BY <2>0, <2>3, <3>1, <3>2 DEF VideoByte, TypeOK, ByteValue
  <2>4. CASE o \notin 0 .. 3 /\ o \notin 4 .. 3 + Cells
    BY <1>2, <2>0, <2>4 DEF VideoByte, ByteValue
  <2> QED BY <2>2, <2>3, <2>4
<1>7. CASE r = "spare"
  BY <1>2, <1>7 DEF Byte, ByteValue, Ram
<1> QED BY <1>3, <1>4, <1>5, <1>6, <1>7 DEF Region, Ram

LEMMA RefusedType == Refused \in Seq(ByteValue) /\ Len(Refused) = 0
BY DEF Refused

\* Of n bytes, all or none.
Answer(v, n) == v \in Seq(ByteValue) /\ (Len(v) = n \/ v = Refused)

LEMMA FromBusType ==
    ASSUME TypeOK, NEW a \in Nat, NEW n \in {1, 2, 4}, NEW t,
           \A i \in 1 .. n : t[i] \in Nat
    PROVE  Answer(FromBus(a, n, t), n)
<1>1. CASE ~Accepted(a, n)
  BY <1>1, RefusedType DEF FromBus, Answer
<1>2. CASE Accepted(a, n)
  <2>1. PICK r : r \in RegionsOf(a, n)
    BY <1>2 DEF Accepted
  <2>2. r \in Region /\ Holder(a, n) = r /\ a \in Span[r] /\ a + n - 1 \in Span[r]
    BY <2>1, HolderIs
  <2>3. ASSUME NEW i \in 1 .. n PROVE Byte(r, a + i - 1, t[i]) \in ByteValue
    <3>1. PICK l \in 0 .. Top, h \in 0 .. Top : Span[r] = l .. h
      BY <2>2, BusAssumption
    <3>2. a + i - 1 \in Span[r]
      BY <2>2, <3>1, BusAssumption
    <3> QED BY <2>2, <3>2, ByteType
  <2> DEFINE v == [i \in 1 .. n |-> Byte(r, a + i - 1, t[i])]
  <2>4. FromBus(a, n, t) = v
    BY <1>2, <2>2 DEF FromBus
  <2>5. v \in Seq(ByteValue) /\ Len(v) = n
    <3>1. v \in [1 .. n -> ByteValue]
      BY <2>3
    <3>2. n \in Nat
      OBVIOUS
    <3> HIDE DEF v
    <3> QED BY <3>1, <3>2
  <2> QED BY <2>4, <2>5 DEF Answer
<1> QED BY <1>1, <1>2

LEMMA JoinType ==
    ASSUME NEW m \in Nat, NEW n \in Nat, NEW u, NEW v, Answer(u, m), Answer(v, n)
    PROVE  Answer(Join(u, v), m + n)
<1>1. CASE u = Refused \/ v = Refused
  BY <1>1, RefusedType DEF Join, Answer
<1>2. CASE u # Refused /\ v # Refused
  <2>1. u \in Seq(ByteValue) /\ v \in Seq(ByteValue) /\ Len(u) = m /\ Len(v) = n
    BY <1>2 DEF Answer
  <2>2. u \o v \in Seq(ByteValue) /\ Len(u \o v) = m + n
    BY <2>1
  <2> QED BY <1>2, <2>2 DEF Join, Answer
<1> QED BY <1>1, <1>2

LEMMA Read8Type ==
    ASSUME TypeOK, NEW a \in 0 .. Top, NEW t \in Seq(Nat), Len(t) >= 1
    PROVE  Answer(Read8(a, t), 1)
<1>1. CASE Covered(a)
  <2>1. rom[a] \in ByteValue
    BY <1>1 DEF Covered, TypeOK, ByteValue
  <2>2. <<rom[a]>> \in Seq(ByteValue) /\ Len(<<rom[a]>>) = 1
    BY <2>1
  <2> QED BY <1>1, <2>2 DEF Read8, Answer
<1>2. CASE ~Covered(a)
  <2>1. a \in Nat /\ \A i \in 1 .. 1 : t[i] \in Nat
    BY BusAssumption
  <2>2. Answer(FromBus(a, 1, t), 1)
    BY <2>1, FromBusType
  <2> QED BY <1>2, <2>2 DEF Read8
<1> QED BY <1>1, <1>2

LEMMA Read16Type ==
    ASSUME TypeOK, NEW a \in 0 .. Top, NEW t \in Seq(Nat), Len(t) >= 2
    PROVE  Answer(Read16(a, t), 2)
<1>0. a \in Nat
  BY BusAssumption
<1>1. Answer(FromBus(a, 2, t), 2)
  <2>1. \A i \in 1 .. 2 : t[i] \in Nat
    OBVIOUS
  <2> QED BY <1>0, <2>1, FromBusType
<1>2. Answer(Join(Read8(a, t), Read8(At(a, 1), Tail(t))), 2)
  <2>1. Tail(t) \in Seq(Nat) /\ Len(Tail(t)) >= 1
    OBVIOUS
  <2>2. At(a, 1) \in 0 .. Top
    BY <1>0, AtType
  <2>3. Answer(Read8(a, t), 1) /\ Answer(Read8(At(a, 1), Tail(t)), 1)
    <3>1. Len(t) >= 1
      OBVIOUS
    <3> QED BY <2>1, <2>2, <3>1, Read8Type
  <2>4. Answer(Join(Read8(a, t), Read8(At(a, 1), Tail(t))), 1 + 1)
    BY <2>3, JoinType
  <2> QED BY <2>4
<1> QED BY <1>1, <1>2 DEF Read16

LEMMA Read32Type ==
    ASSUME TypeOK, NEW a \in 0 .. Top, NEW t \in Seq(Nat), Len(t) >= 4
    PROVE  Answer(Read32(a, t), 4)
<1>0. a \in Nat
  BY BusAssumption
<1>1. Answer(FromBus(a, 4, t), 4)
  <2>1. \A i \in 1 .. 4 : t[i] \in Nat
    OBVIOUS
  <2> QED BY <1>0, <2>1, FromBusType
<1>2. Answer(Join(Read16(a, t), Read16(At(a, 2), Tail(Tail(t)))), 4)
  <2> DEFINE u == Tail(Tail(t))
  <2>1. u \in Seq(Nat) /\ Len(u) >= 2
    <3>1. Tail(t) \in Seq(Nat) /\ Len(Tail(t)) >= 3
      OBVIOUS
    <3>2. \A w \in Seq(Nat) : Len(w) >= 3 => Tail(w) \in Seq(Nat) /\ Len(Tail(w)) >= 2
      OBVIOUS
    <3> QED BY <3>1, <3>2
  <2> HIDE DEF u
  <2>2. At(a, 2) \in 0 .. Top
    BY <1>0, AtType
  <2>3. Answer(Read16(a, t), 2) /\ Answer(Read16(At(a, 2), u), 2)
    <3>1. Len(t) >= 2
      OBVIOUS
    <3> QED BY <2>1, <2>2, <3>1, Read16Type
  <2>4. Answer(Join(Read16(a, t), Read16(At(a, 2), u)), 2 + 2)
    BY <2>3, JoinType
  <2> QED BY <2>4 DEF u
<1> QED BY <1>1, <1>2 DEF Read32

-----------------------------------------------------------------------------
(* The types of the bus and what is behind it. *)

LEMMA InstantFacts ==
    ASSUME NEW n \in {1, 2, 4}, NEW t \in Instants[n]
    PROVE  /\ t \in Seq(Nat) /\ Len(t) = n
           /\ \A i \in 1 .. n : t[i] \in FirstTime .. LastTime
           /\ \A i \in 1 .. n - 1 : t[i] <= t[i + 1]
<1>1. t \in [1 .. n -> FirstTime .. LastTime] /\ \A i \in 1 .. n - 1 : t[i] <= t[i + 1]
  BY DEF Instants
<1>2. n \in Nat /\ FirstTime .. LastTime \subseteq Nat
  BY BusAssumption
<1>3. t \in [1 .. n -> Nat]
  BY <1>1, <1>2
<1>4. t \in Seq(Nat) /\ Len(t) = n
  BY <1>2, <1>3
<1> QED BY <1>1, <1>4

LEMMA ReplyKept ==
    ASSUME NEW a \in 0 .. Top, NEW v \in Seq(ByteValue), Reply(a, v)
    PROVE  reply' \in [at : 0 .. Top, bytes : Seq(0 .. Radix - 1)]
BY DEF Reply, ByteValue

LEMMA LoadKept ==
    ASSUME TypeOK, NEW a \in 0 .. Top, NEW n \in {1, 2, 4}, Load(a, n)
    PROVE  TypeOK'
<1>1. PICK t \in Instants[n] :
        /\ Reply(a, CASE n = 1 -> Read8(a, t)
                      [] n = 2 -> Read16(a, t)
                      [] n = 4 -> Read32(a, t))
        /\ now' = t[n]
        /\ UNCHANGED <<mapped, memory, utc, video>>
  BY DEF Load
<1> DEFINE v == CASE n = 1 -> Read8(a, t)
                  [] n = 2 -> Read16(a, t)
                  [] n = 4 -> Read32(a, t)
<1>2. v \in Seq(ByteValue)
  <2>1. t \in Seq(Nat) /\ Len(t) = n
    BY InstantFacts
  <2>2. CASE n = 1
    <3>1. Answer(Read8(a, t), 1)
      BY <2>1, <2>2, Read8Type
    <3> QED BY <2>2, <3>1 DEF Answer
  <2>3. CASE n = 2
    <3>1. Len(t) >= 2
      BY <2>1, <2>3
    <3>2. Answer(Read16(a, t), 2)
      BY <2>1, <3>1, Read16Type
    <3> QED BY <2>3, <3>2 DEF Answer
  <2>4. CASE n = 4
    <3>1. Len(t) >= 4
      BY <2>1, <2>4
    <3>2. Answer(Read32(a, t), 4)
      BY <2>1, <3>1, Read32Type
    <3> QED BY <2>4, <3>2 DEF Answer
  <2> QED BY <2>2, <2>3, <2>4
<1>3. reply' \in [at : 0 .. Top, bytes : Seq(0 .. Radix - 1)]
  <2>1. Reply(a, v)
    BY <1>1
  <2> HIDE DEF v
  <2> QED BY <1>2, <2>1, ReplyKept
<1>4. now' \in FirstTime .. LastTime
  <2>1. n \in 1 .. n
    OBVIOUS
  <2> QED BY <1>1, <2>1, InstantFacts
<1>5. UNCHANGED <<mapped, ram, rom, overlay, utc, cursor, cells>>
  BY <1>1 DEF memory, video
<1> QED BY <1>3, <1>4, <1>5 DEF TypeOK, RegionsDisjoint

LEMMA StoreBytesKept ==
    ASSUME TypeOK, NEW a \in 0 .. Top, NEW v \in Seq(ByteValue), StoreBytes(a, v),
           reply' \in [at : 0 .. Top, bytes : Seq(0 .. Radix - 1)]
    PROVE  TypeOK'
<1>0. a \in Nat /\ a \in Int
  BY TopNat
<1>1. ram' \in [RamAddr -> 0 .. Radix - 1]
  <2>1. RamAddr \subseteq Nat
    <3>1. "chip" \in Region /\ "fast" \in Region
      BY DEF Region
    <3>2. \A r \in Region : Span[r] \subseteq Nat
      BY BasesFirst, TopNat
    <3> QED BY <3>1, <3>2 DEF RamAddr
  <2>2. ram \in [RamAddr -> ByteValue]
    BY DEF TypeOK, ByteValue
  <2>3. Put(ram, a, v) \in [RamAddr -> ByteValue]
    BY <1>0, <2>1, <2>2, PutType
  <2> QED BY <2>3 DEF StoreBytes, ByteValue
<1>2. utc' \in BOOLEAN
  BY DEF StoreBytes, UtcAfter, TypeOK
<1>3. cursor' \in 0 .. Cells - 1 /\ cells' \in [0 .. Cells - 1 -> 0 .. Radix - 1]
  <2>1. Showing \in Display
    BY DEF TypeOK, Showing, Display, ByteValue
  <2>2. VideoAfter(a, v) \in Display
    BY <1>0, <2>1, VideoAfterType
  <2>3. cursor' = VideoAfter(a, v).cursor /\ cells' = VideoAfter(a, v).cells
    BY DEF StoreBytes
  <2> QED BY <2>2, <2>3 DEF Display, ByteValue
<1>4. UNCHANGED <<mapped, rom, overlay, now>>
  BY DEF StoreBytes
<1> QED BY <1>1, <1>2, <1>3, <1>4 DEF TypeOK, RegionsDisjoint

LEMMA StoreKept ==
    ASSUME TypeOK, NEW a \in 0 .. Top, NEW v \in Seq(ByteValue), Store(a, v)
    PROVE  TypeOK'
<1>1. CASE Accepted(a, Len(v)) /\ Holder(a, Len(v)) # "rom"
  <2>1. StoreBytes(a, v) /\ Reply(a, v)
    BY <1>1 DEF Store
  <2> QED BY <2>1, ReplyKept, StoreBytesKept
<1>2. CASE ~(Accepted(a, Len(v)) /\ Holder(a, Len(v)) # "rom")
  <2>1. UNCHANGED <<mapped, ram, rom, overlay, now, utc, cursor, cells>> /\ Reply(a, Refused)
    BY <1>2 DEF Store, memory, video
  <2>2. reply' \in [at : 0 .. Top, bytes : Seq(0 .. Radix - 1)]
    BY <2>1, RefusedType, ReplyKept
  <2> QED BY <2>1, <2>2 DEF TypeOK, RegionsDisjoint
<1> QED BY <1>1, <1>2

LEMMA AcceptsFacts ==
    ASSUME NEW a, NEW v \in Seq(ByteValue)
    PROVE  LET k == Accepts(a, v) IN
           /\ k \in 0 .. Len(v)
           /\ \A i \in 0 .. k - 1 : StoresByte(At(a, i))
           /\ k < Len(v) => ~StoresByte(At(a, k))
<1> DEFINE T == {i \in 0 .. Len(v) : i = Len(v) \/ ~StoresByte(At(a, i))}
           First(k) == /\ \A i \in 0 .. k - 1 : StoresByte(At(a, i))
                       /\ k < Len(v) => ~StoresByte(At(a, k))
<1>1. T \subseteq Nat /\ Len(v) \in T
  OBVIOUS
<1>2. PICK k \in T : \A j \in T : k <= j
  <2> HIDE DEF T
  <2> QED BY <1>1, LeastNumber
<1>3. k \in 0 .. Len(v)
  OBVIOUS
<1>4. \A i \in 0 .. k - 1 : StoresByte(At(a, i))
  BY <1>2, <1>3
<1>5. k < Len(v) => ~StoresByte(At(a, k))
  BY <1>2, <1>3
<1>6. First(k)
  BY <1>4, <1>5
<1>7. Accepts(a, v) = CHOOSE k_1 \in 0 .. Len(v) : First(k_1)
  BY DEF Accepts
<1> HIDE DEF First
<1>8. Accepts(a, v) \in 0 .. Len(v) /\ First(Accepts(a, v))
  BY <1>3, <1>6, <1>7
<1> QED BY <1>8 DEF First

LEMMA FillKept ==
    ASSUME TypeOK, NEW a \in 0 .. Top, NEW v \in Seq(ByteValue), NEW shown, Fill(a, v, shown)
    PROVE  TypeOK'
<1> DEFINE k == Accepts(a, v)
<1>1. k \in 0 .. Len(v)
  BY AcceptsFacts
<1>2. StoreBytes(a, SubSeq(v, 1, k))
  BY DEF Fill
<1> HIDE DEF k
<1>3. SubSeq(v, 1, k) \in Seq(ByteValue)
  BY <1>1
<1>4. PICK w \in Seq(ByteValue) : Reply(a, w)
  BY RefusedType DEF Fill
<1> QED BY <1>2, <1>3, <1>4, ReplyKept, StoreBytesKept

LEMMA LoadImageKept ==
    ASSUME TypeOK, NEW r \in Memories, NEW a \in 0 .. Top, NEW v \in Seq(ByteValue),
           LoadImage(r, a, v)
    PROVE  TypeOK'
<1>0. a \in Int /\ a - RomStart \in Int
  BY TopNat, RomFacts
<1>1. ram' \in [RamAddr -> 0 .. Radix - 1]
  <2>1. RamAddr \subseteq Nat
    <3>1. "chip" \in Region /\ "fast" \in Region
      BY DEF Region
    <3>2. \A s \in Region : Span[s] \subseteq Nat
      BY BasesFirst, TopNat
    <3> QED BY <3>1, <3>2 DEF RamAddr
  <2>2. ram \in [RamAddr -> ByteValue]
    BY DEF TypeOK, ByteValue
  <2>3. Put(ram, a, v) \in [RamAddr -> ByteValue]
    BY <1>0, <2>1, <2>2, PutType
  <2>4. ram' = ram \/ ram' = Put(ram, a, v)
    BY DEF LoadImage
  <2> QED BY <2>2, <2>3, <2>4 DEF ByteValue
<1>2. rom' \in [Overlay -> 0 .. Radix - 1]
  <2>1. Overlay \subseteq Nat
    BY RomFacts
  <2>2. rom \in [Overlay -> ByteValue]
    BY DEF TypeOK, ByteValue
  <2>3. Put(rom, a - RomStart, v) \in [Overlay -> ByteValue]
    BY <1>0, <2>1, <2>2, PutType
  <2>4. rom' = rom \/ rom' = Put(rom, a - RomStart, v)
    BY DEF LoadImage
  <2> QED BY <2>2, <2>3, <2>4 DEF ByteValue
<1>3. UNCHANGED <<mapped, overlay, now, utc, cursor, cells, reply>>
  BY DEF LoadImage, video
<1> QED BY <1>1, <1>2, <1>3 DEF TypeOK, RegionsDisjoint

LEMMA MapKept ==
    ASSUME TypeOK, NEW r \in Attached, Map(r)
    PROVE  TypeOK'
<1>1. r \in Region
  BY BusAssumption DEF Devices, Region
<1>2. UNCHANGED <<ram, rom, overlay, now, utc, cursor, cells, reply>>
  BY DEF Map, memory, video
<1>3. CASE Overlaps(r)
  <2>1. mapped' = mapped
    BY <1>3 DEF Map
  <2> QED BY <1>2, <2>1 DEF TypeOK, RegionsDisjoint
<1>4. CASE ~Overlaps(r)
  <2>1. mapped' = mapped \cup {r} /\ \A e \in mapped : Span[r] \cap Span[e] = {}
    BY <1>4 DEF Map, Overlaps
  <2>2. RegionsDisjoint'
    BY <2>1 DEF TypeOK, RegionsDisjoint
  <2> QED BY <1>1, <1>2, <2>1, <2>2 DEF TypeOK
<1> QED BY <1>3, <1>4

LEMMA RestKept ==
    ASSUME TypeOK,
           \/ \E on \in BOOLEAN : SetOverlay(on)
           \/ ResetDevices
           \/ Pass
           \/ UNCHANGED vars
    PROVE  TypeOK'
<1>1. ASSUME NEW on \in BOOLEAN, SetOverlay(on) PROVE TypeOK'
  BY <1>1 DEF SetOverlay, video, TypeOK, RegionsDisjoint
<1>2. CASE ResetDevices
  <2>1. cursor' \in 0 .. Cells - 1 /\ cells' \in [0 .. Cells - 1 -> 0 .. Radix - 1]
    <3>1. 0 \in 0 .. Radix - 1 /\ 0 \in 0 .. Cells - 1
      BY BusAssumption
    <3> QED BY <1>2, <3>1 DEF ResetDevices, video, TypeOK
  <2>2. UNCHANGED <<mapped, ram, rom, overlay, now, utc, reply>>
    BY <1>2 DEF ResetDevices, memory
  <2> QED BY <2>1, <2>2 DEF TypeOK, RegionsDisjoint
<1>3. CASE Pass
  <2>1. now' \in FirstTime .. LastTime
    BY <1>3, BusAssumption DEF Pass, TypeOK
  <2>2. UNCHANGED <<mapped, ram, rom, overlay, utc, cursor, cells, reply>>
    BY <1>3 DEF Pass, memory, video
  <2> QED BY <2>1, <2>2 DEF TypeOK, RegionsDisjoint
<1>4. CASE UNCHANGED vars
  BY <1>4 DEF vars, memory, video, TypeOK, RegionsDisjoint
<1> QED BY <1>1, <1>2, <1>3, <1>4

LEMMA InputFacts ==
    /\ Accessed \subseteq 0 .. Top
    /\ Data \subseteq Seq(ByteValue) /\ Files \subseteq Seq(ByteValue)
BY BusAssumption DEF ByteValue

LEMMA BusKept == TypeOK /\ [Next]_vars => TypeOK'
<1> SUFFICES ASSUME TypeOK, [Next]_vars PROVE TypeOK'
  OBVIOUS
<1>1. ASSUME NEW a \in Accessed, NEW n \in {1, 2, 4}, Load(a, n) PROVE TypeOK'
  BY <1>1, InputFacts, LoadKept
<1>2. ASSUME NEW a \in Accessed, NEW v \in Data, Store(a, v) PROVE TypeOK'
  BY <1>2, InputFacts, StoreKept
<1>3. ASSUME NEW a \in Accessed, NEW v \in Files, Patch(a, v) \/ LoadFile(a, v) PROVE TypeOK'
  BY <1>3, InputFacts, FillKept DEF Patch, LoadFile
<1>4. ASSUME NEW a \in Accessed, NEW v \in Files, NEW r \in Memories, LoadImage(r, a, v)
      PROVE  TypeOK'
  BY <1>4, InputFacts, LoadImageKept
<1>5. ASSUME NEW r \in Attached, Map(r) PROVE TypeOK'
  BY <1>5, MapKept
<1> QED BY <1>1, <1>2, <1>3, <1>4, <1>5, RestKept DEF Next

LEMMA BusInitially == Init => TypeOK
<1> SUFFICES ASSUME Init PROVE TypeOK
  OBVIOUS
<1>1. mapped \subseteq Region /\ mapped = Memories
  BY DEF Init, Memories, Region
<1>2. RegionsDisjoint
  BY <1>1, BusAssumption DEF RegionsDisjoint
<1>3. 0 \in 0 .. Radix - 1 /\ 0 \in 0 .. Cells - 1
  BY BusAssumption
<1>4. ram \in [RamAddr -> 0 .. Radix - 1] /\ cells \in [0 .. Cells - 1 -> 0 .. Radix - 1]
  BY <1>3 DEF Init
<1>5. rom \in [Overlay -> 0 .. Radix - 1]
  BY BusAssumption DEF Init
<1>6. reply \in [at : 0 .. Top, bytes : Seq(0 .. Radix - 1)]
  <2>1. 0 \in 0 .. Top
    BY TopNat
  <2> QED BY <2>1, RefusedType DEF Init, ByteValue
<1>7. now \in FirstTime .. LastTime
  BY BusAssumption DEF Init
<1> QED BY <1>1, <1>2, <1>3, <1>4, <1>5, <1>6, <1>7 DEF Init, TypeOK

\* Regions never overlap, memories hold a byte at each address, and the cursor
\* stays on the display, for any memories and devices, any bytes and any files.
THEOREM BusTypeCorrect == Spec => []TypeOK
BY BusInitially, BusKept, PTL DEF Spec

-----------------------------------------------------------------------------
(* The cursor register. *)

\* The last byte of the register decides: what the others leave is less than a
\* byte, and is replaced.
LEMMA LastByte ==
    ASSUME NEW c \in 0 .. Cells - 1, NEW b \in ByteValue, Radix % Cells = 0
    PROVE  CursorByte(c, 3, b) = b % Cells
<1> DEFINE q == Radix \div Cells
<1>0. Radix \in Nat /\ Radix > 1 /\ Cells \in Nat \ {0}
  BY BusAssumption
<1>1. q \in Int /\ Radix = Cells * q
  BY <1>0
<1> HIDE DEF q
<1>2. q >= 1
  <2>1. CASE q <= 0
    <3>1. Cells * (-q) >= 0
      BY <1>0, <1>1, <2>1
    <3>2. Cells * (-q) = -(Cells * q)
      BY <1>0, <1>1
    <3> QED BY <1>0, <1>1, <3>1, <3>2
  <2> QED BY <1>1, <2>1
<1>3. Cells <= Radix
  <2>1. Cells * q >= Cells * 1
    BY <1>0, <1>1, <1>2
  <2> QED BY <1>0, <1>1, <2>1
<1>4. c \in Nat /\ c < Radix /\ b \in Nat
  BY <1>0, <1>3 DEF ByteValue
<1>5. Digit(c, 0) = c
  <2>1. c \div 1 = c
    BY <1>4
  <2>2. c % Radix = c
    BY <1>0, <1>4
  <2> QED BY <2>1, <2>2, WeightFacts DEF Digit
<1>6. WithDigit(c, 0, b) = b
  BY <1>4, <1>5, WeightFacts DEF WithDigit
<1> QED BY <1>6 DEF CursorByte

LEMMA ElementIn ==
    ASSUME NEW S, NEW s \in Seq(S), NEW i \in 1 .. Len(s)
    PROVE  s[i] \in S
OBVIOUS

LEMMA LongFacts ==
    ASSUME NEW v \in Seq(ByteValue), Len(v) = 4
    PROVE  /\ v # Refused
           /\ v[1] \in ByteValue /\ v[2] \in ByteValue
           /\ v[3] \in ByteValue /\ v[4] \in ByteValue
<1>1. ASSUME v = Refused PROVE FALSE
  <2>1. Len(v) = Len(Refused)
    BY <1>1, Zenon
  <2>2. Len(v) = 0
    BY <2>1, RefusedType
  <2> QED BY <2>2
<1>2. \A i \in 1 .. Len(v) : v[i] \in ByteValue
  BY ElementIn, Zenon
<1>3. 1 \in 1 .. Len(v) /\ 2 \in 1 .. Len(v) /\ 3 \in 1 .. Len(v) /\ 4 \in 1 .. Len(v)
  OBVIOUS
<1> QED BY <1>1, <1>2, <1>3, Zenon

LEMMA ValueModulo ==
    ASSUME NEW v \in Seq(ByteValue), Len(v) = 4, Radix % Cells = 0
    PROVE  Value(v) % Cells = v[4] % Cells
<1>0. Radix \in Nat /\ Cells \in Nat \ {0}
  BY BusAssumption
<1>1. v[1] \in Nat /\ v[2] \in Nat /\ v[3] \in Nat /\ v[4] \in Nat
  BY <1>0, LongFacts DEF ByteValue
<1> DEFINE q == Radix \div Cells
           s == Radix * Radix
           high == v[1] * s + v[2] * Radix + v[3]
<1>2. q \in Int /\ Radix = Cells * q
  BY <1>0
<1>3. Value(v) = v[1] * (Radix * s) + v[2] * s + v[3] * Radix + v[4]
  BY WeightFacts DEF Value
<1>4. s = Radix * Radix /\ s \in Nat
  BY <1>0
<1>5. high \in Nat /\ high = v[1] * s + v[2] * Radix + v[3]
  <2> HIDE DEF s
  <2>1. v[1] * s \in Nat /\ v[2] * Radix \in Nat
    BY <1>0, <1>1, <1>4
  <2> QED BY <1>1, <2>1
<1> HIDE DEF q, s, high
<1>6. Value(v) = Radix * high + v[4]
  <2>1. Radix * high = Radix * (v[1] * s) + Radix * (v[2] * Radix) + Radix * v[3]
    <3>1. v[1] * s \in Nat /\ v[2] * Radix \in Nat
      BY <1>0, <1>1, <1>4
    <3> DEFINE x == v[1] * s
               y == v[2] * Radix
               z == v[3]
    <3>2. x \in Nat /\ y \in Nat /\ z \in Nat /\ high = x + y + z
      BY <1>1, <1>5, <3>1
    <3> HIDE DEF x, y, z
    <3>3. Radix * (x + y + z) = Radix * x + Radix * y + Radix * z
      BY <1>0, <3>2
    <3> QED BY <3>2, <3>3 DEF x, y, z
  <2>2. Radix * (v[1] * s) = v[1] * (Radix * s)
    BY <1>0, <1>1, <1>4
  <2>3. Radix * (v[2] * Radix) = v[2] * s
    BY <1>0, <1>1, <1>4
  <2>4. Radix * v[3] = v[3] * Radix
    BY <1>0, <1>1
  <2> QED BY <1>1, <1>3, <2>1, <2>2, <2>3, <2>4
<1>7. Radix * high = Cells * (q * high) /\ q * high \in Int
  BY <1>0, <1>2, <1>5
<1>8. (Cells * (q * high) + v[4]) % Cells = v[4] % Cells
  <2> DEFINE k == q * high
  <2>1. k \in Int /\ v[4] \in Int
    BY <1>1, <1>7
  <2> HIDE DEF k
  <2>2. (Cells * k + v[4]) % Cells = v[4] % Cells
    BY <1>0, <2>1, MultipleLeaves
  <2> QED BY <2>2 DEF k
<1> QED BY <1>6, <1>7, <1>8

LEMMA CursorStep ==
    ASSUME TypeOK, NEW v \in Data, Len(v) = 4, reply'.bytes = v, "video" \in mapped,
           Store(Base["video"], v), Radix % Cells = 0
    PROVE  cursor' = Value(v) % Cells
<1> DEFINE a == Base["video"]
           after == VideoSteps(a, v)
<1>0. v \in Seq(ByteValue) /\ "video" \in Region
  BY InputFacts DEF Region
<1>1. a \in Span["video"] /\ a \in 0 .. Top /\ a \in Nat
  BY <1>0, BasesFirst, TopNat
<1>2. Accepted(a, 4) /\ StoreBytes(a, v)
  <2>1. v # Refused
    BY <1>0, LongFacts
  <2>2. (~(Accepted(a, 4) /\ Holder(a, 4) # "rom")) => reply'.bytes = Refused
    BY DEF Store, Reply
  <2> QED BY <2>1, <2>2 DEF Store
<1>3. a + 3 \in Span["video"]
  <2>1. PICK r : r \in RegionsOf(a, 4)
    BY <1>2 DEF Accepted
  <2>2. r \in mapped /\ a \in Span[r] /\ a + 4 - 1 \in Span[r]
    BY <2>1 DEF RegionsOf
  <2>3. r = "video"
    BY <1>1, <2>2 DEF TypeOK, RegionsDisjoint
  <2> QED BY <1>1, <2>2, <2>3
<1> HIDE DEF a
<1>4. \A i \in 0 .. 3 : At(a, i) = a + i /\ At(a, i) \in Span["video"]
  <2>1. PICK l \in 0 .. Top, h \in 0 .. Top : Span["video"] = l .. h
    BY <1>0, BusAssumption
  <2>2. l \in Nat /\ h \in Nat /\ h <= Top
    BY TopNat
  <2>3. ASSUME NEW i \in 0 .. 3 PROVE a + i \in l .. h /\ a + i <= Top /\ i \in Nat
    BY <1>1, <1>3, <2>1, <2>2, TopNat
  <2> QED BY <1>1, <2>1, <2>3, AtType
<1>5. Showing \in Display
  BY DEF TypeOK, Showing, Display, ByteValue
<1>6. after[3] \in Display /\ after[4] = VideoStore(after[3], 3, v[4])
  <2>1. 4 \in 1 .. Len(v) /\ 3 \in 0 .. Len(v) /\ 4 - 1 = 3
    OBVIOUS
  <2>2. /\ after[4] = IF At(a, 4 - 1) \in Span["video"]
                       THEN VideoStore(after[4 - 1], At(a, 4 - 1) - Base["video"], v[4])
                       ELSE after[4 - 1]
        /\ after[3] \in Display
    BY <1>0, <1>1, <1>5, <2>1, VideoStepsType
  <2>3. At(a, 3) \in Span["video"] /\ At(a, 3) - Base["video"] = 3
    <3>1. At(a, 3) = a + 3 /\ At(a, 3) \in Span["video"]
      BY <1>4
    <3> QED BY <1>1, <3>1 DEF a
  <2> QED BY <2>1, <2>2, <2>3
<1> HIDE DEF after
<1>7. after[4].cursor = CursorByte(after[3].cursor, 3, v[4])
  BY <1>6 DEF VideoStore, Display
<1>8. cursor' = after[4].cursor
  BY <1>2 DEF StoreBytes, VideoAfter, after
<1>9. after[3].cursor \in 0 .. Cells - 1 /\ v[4] \in ByteValue
  <2>1. v[4] \in ByteValue
    BY <1>0, LongFacts
  <2>2. after[3].cursor \in 0 .. Cells - 1
    BY <1>6 DEF Display
  <2> QED BY <2>1, <2>2
<1> QED BY <1>0, <1>7, <1>8, <1>9, LastByte, ValueModulo

\* A long stored to the cursor register of a display whose size divides the
\* values of a byte leaves the cursor where the long says, for displays of any
\* such size and whatever the cursor was before.
THEOREM CursorGoesThere == Spec => CursorStored
<1>1. TypeOK /\ [Next]_vars =>
        [\A v \in Data :
            /\ Len(v) = 4 /\ reply'.bytes = v /\ "video" \in mapped
            /\ Store(Base["video"], v)
            /\ Radix % Cells = 0
            => cursor' = Value(v) % Cells]_vars
  BY CursorStep
<1> QED BY <1>1, BusTypeCorrect, PTL DEF Spec, CursorStored

-----------------------------------------------------------------------------
(* The seconds of the clock, byte by byte. *)

LEMMA ProductOrder ==
    ASSUME NEW r \in Nat, NEW x \in Int, NEW y \in Int, x <= y
    PROVE  r * x <= r * y
<1> DEFINE d == y - x
<1>1. d \in Nat /\ y = x + d
  OBVIOUS
<1> HIDE DEF d
<1>2. r * (x + d) = r * x + r * d
  BY <1>1
<1>3. r * d \in Nat /\ r * x \in Int
  BY <1>1
<1> QED BY <1>1, <1>2, <1>3

LEMMA QuotientFacts ==
    ASSUME NEW x \in Nat, NEW r \in Nat \ {0}
    PROVE  /\ x \div r \in Nat /\ x % r \in 0 .. r - 1
           /\ x = r * (x \div r) + (x % r)
<1>1. x \div r \in Nat
  OBVIOUS
<1>2. x % r \in 0 .. r - 1
  OBVIOUS
<1>3. x = r * (x \div r) + (x % r)
  OBVIOUS
<1> QED BY <1>1, <1>2, <1>3

\* A larger number has no smaller quotient.
LEMMA QuotientOrder ==
    ASSUME NEW x \in Nat, NEW y \in Nat, x <= y, NEW r \in Nat \ {0}
    PROVE  x \div r <= y \div r
<1> DEFINE q == x \div r
           p == y \div r
<1>1. /\ q \in Nat /\ x % r \in 0 .. r - 1 /\ x = r * q + (x % r)
      /\ p \in Nat /\ y % r \in 0 .. r - 1 /\ y = r * p + (y % r)
  BY QuotientFacts
<1> HIDE DEF q, p
<1>2. CASE q <= p
  BY <1>2 DEF q, p
<1>3. CASE q > p
  <2>1. p + 1 <= q /\ p + 1 \in Int
    BY <1>1, <1>3
  <2>2. r * (p + 1) <= r * q
    BY <1>1, <2>1, ProductOrder
  <2>3. r * (p + 1) = r * p + r
    BY <1>1
  <2>4. r * p \in Int /\ r * q \in Int
    BY <1>1
  <2> QED BY <1>1, <2>2, <2>3, <2>4
<1> QED BY <1>1, <1>2, <1>3

\* Two divisions are one.
LEMMA QuotientTwice ==
    ASSUME NEW x \in Nat, NEW r \in Nat \ {0}, NEW s \in Nat \ {0}
    PROVE  x \div (r * s) = (x \div r) \div s
<1> DEFINE q == x \div r
           p == q \div s
           b == x % r
           c == q % s
<1>1. q \in Nat /\ b \in 0 .. r - 1 /\ x = r * q + b
  BY QuotientFacts
<1>2. p \in Nat /\ c \in 0 .. s - 1 /\ q = s * p + c
  BY <1>1, QuotientFacts
<1> HIDE DEF q, p, b, c
<1>3. r * s \in Nat \ {0}
  OBVIOUS
<1>4. x = (r * s) * p + (r * c + b)
  <2>1. r * (s * p + c) = r * (s * p) + r * c
    BY <1>2
  <2>2. r * (s * p) = (r * s) * p
    BY <1>2
  <2>3. (r * s) * p \in Int /\ r * c \in Int
    BY <1>2
  <2> QED BY <1>1, <1>2, <2>1, <2>2, <2>3
<1>5. r * c + b \in 0 .. r * s - 1
  <2>1. c <= s - 1 /\ c \in Int /\ s - 1 \in Int
    BY <1>2
  <2>2. r * c <= r * (s - 1)
    BY <2>1, ProductOrder
  <2>3. r * (s - 1) = r * s - r
    OBVIOUS
  <2>4. r * c \in Nat
    BY <1>2
  <2> QED BY <1>1, <1>3, <2>2, <2>3, <2>4
<1>6. x \div (r * s) = p
  <2> DEFINE m == r * s
             o == r * c + b
  <2>1. m \in Nat \ {0} /\ o \in 0 .. m - 1 /\ x = m * p + o
    BY <1>3, <1>4, <1>5
  <2> HIDE DEF m, o
  <2>2. x \div m = p
    BY <1>2, <2>1, DivisionUnique
  <2> QED BY <2>2 DEF m
<1> QED BY <1>6 DEF p, q

\* What remains of a number behind its first i bytes.
Shifted(x, i) == x \div Weight(i)

LEMMA ShiftedFacts ==
    ASSUME NEW x \in Nat
    PROVE  /\ Shifted(x, 0) = x
           /\ \A i \in 0 .. 3 : Shifted(x, i) \in Nat /\ Digit(x, i) = Shifted(x, i) % Radix
           /\ \A i \in 0 .. 2 : /\ Shifted(x, i + 1) = Shifted(x, i) \div Radix
                              /\ Shifted(x, i) = Radix * Shifted(x, i + 1) + Digit(x, i)
<1>0. Radix \in Nat \ {0} /\ Radix * Radix \in Nat \ {0}
  <2>1. Weight(2) \in Nat \ {0} /\ Weight(2) = Radix * Radix
    BY WeightFacts
  <2> QED BY <2>1, BusAssumption
<1>1. Shifted(x, 0) = x
  <2>1. x \div 1 = x
    OBVIOUS
  <2> QED BY <2>1, WeightFacts DEF Shifted
<1>2. \A i \in 0 .. 3 : Shifted(x, i) \in Nat /\ Digit(x, i) = Shifted(x, i) % Radix
  BY WeightFacts, QuotientFacts DEF Shifted, Digit
<1>3. Shifted(x, 1) = Shifted(x, 0) \div Radix
  BY <1>1, WeightFacts DEF Shifted
<1>4. Shifted(x, 2) = Shifted(x, 1) \div Radix
  BY <1>0, WeightFacts, QuotientTwice DEF Shifted
<1>5. Shifted(x, 3) = Shifted(x, 2) \div Radix
  <2> DEFINE s == Radix * Radix
  <2>1. s \in Nat \ {0}
    BY <1>0
  <2>2. Shifted(x, 2) = x \div s /\ Shifted(x, 3) = x \div (Radix * s)
    BY WeightFacts DEF Shifted
  <2> HIDE DEF s
  <2>3. Radix * s = s * Radix
    BY <1>0, <2>1
  <2>4. x \div (s * Radix) = (x \div s) \div Radix
    BY <1>0, <2>1, QuotientTwice
  <2> QED BY <2>2, <2>3, <2>4
<1>6. ASSUME NEW i \in 0 .. 2
      PROVE  /\ Shifted(x, i + 1) = Shifted(x, i) \div Radix
             /\ Shifted(x, i) = Radix * Shifted(x, i + 1) + Digit(x, i)
  <2>1. Shifted(x, i + 1) = Shifted(x, i) \div Radix
    <3>1. i = 0 \/ i = 1 \/ i = 2
      OBVIOUS
    <3>2. 0 + 1 = 1 /\ 1 + 1 = 2 /\ 2 + 1 = 3
      OBVIOUS
    <3> QED BY <1>3, <1>4, <1>5, <3>1, <3>2
  <2>2. i \in 0 .. 3
    OBVIOUS
  <2>3. Shifted(x, i) \in Nat /\ Digit(x, i) = Shifted(x, i) % Radix
    BY <1>2, <2>2, Zenon
  <2> DEFINE y == Shifted(x, i)
  <2>4. y = Radix * (y \div Radix) + (y % Radix)
    <3> HIDE DEF y
    <3>1. y \in Nat
      BY <2>3 DEF y
    <3> QED BY <1>0, <3>1, QuotientFacts
  <2> QED BY <2>1, <2>3, <2>4
<1> QED BY <1>1, <1>2, <1>6

LEMMA ShiftedOrder ==
    ASSUME NEW x \in Nat, NEW y \in Nat, x <= y, NEW i \in 0 .. 3
    PROVE  Shifted(x, i) <= Shifted(y, i)
BY WeightFacts, QuotientOrder DEF Shifted

\* A long as its bytes follow one another.
LEMMA Horner ==
    ASSUME NEW v \in Seq(ByteValue), Len(v) = 4
    PROVE  Value(v) = Radix * (Radix * (Radix * v[1] + v[2]) + v[3]) + v[4]
<1> DEFINE a == v[1]
           b == v[2]
           c == v[3]
           d == v[4]
<1>1. a \in Nat /\ b \in Nat /\ c \in Nat /\ d \in Nat
  BY LongFacts, BusAssumption DEF ByteValue
<1>2. Value(v) = a * (Radix * (Radix * Radix)) + b * (Radix * Radix) + c * Radix + d
  BY WeightFacts DEF Value
<1> HIDE DEF a, b, c, d
<1>3. ASSUME NEW r \in Nat
      PROVE  r * (r * (r * a + b) + c) + d = a * (r * (r * r)) + b * (r * r) + c * r + d
  BY <1>1, <1>3
<1>4. Radix \in Nat
  BY BusAssumption
<1>5. Radix * (Radix * (Radix * a + b) + c) + d
        = a * (Radix * (Radix * Radix)) + b * (Radix * Radix) + c * Radix + d
  BY <1>3, <1>4
<1> QED BY <1>2, <1>5 DEF a, b, c, d

\* A number and a digit below it are an upper bound for a smaller number and it.
LEMMA AppendOrder ==
    ASSUME NEW r \in Nat, NEW x \in Nat, NEW y \in Nat, x <= y, NEW d \in Nat
    PROVE  r * x + d <= r * y + d /\ r * x + d \in Nat
<1>1. r * x <= r * y
  BY ProductOrder
<1>2. r * x \in Nat /\ r * y \in Nat
  OBVIOUS
<1> QED BY <1>1, <1>2

LEMMA ModuloBelow ==
    ASSUME NEW x \in Nat, NEW r \in Nat \ {0}
    PROVE  x % r <= x /\ x % r \in Nat /\ (x < r => x % r = x)
<1> DEFINE q == x \div r
           m == x % r
<1>1. q \in Nat /\ m \in 0 .. r - 1 /\ x = r * q + m
  BY QuotientFacts
<1>2. x < r => m = x
  OBVIOUS
<1> HIDE DEF q, m
<1>3. r * q \in Nat /\ m \in Nat
  BY <1>1
<1>4. m <= x
  BY <1>1, <1>3
<1> QED BY <1>2, <1>3, <1>4 DEF m

\* What remains behind i bytes is the remainder behind one more, and a digit.
LEMMA ShiftedStep ==
    ASSUME NEW x \in Nat
    PROVE  /\ Shifted(x, 3) \in Nat /\ Shifted(x, 2) \in Nat /\ Shifted(x, 1) \in Nat
           /\ Digit(x, 3) = Shifted(x, 3) % Radix
           /\ Shifted(x, 2) = Radix * Shifted(x, 3) + Digit(x, 2)
           /\ Shifted(x, 1) = Radix * Shifted(x, 2) + Digit(x, 1)
           /\ x = Radix * Shifted(x, 1) + Digit(x, 0)
<1>1. 0 + 1 = 1 /\ 1 + 1 = 2 /\ 2 + 1 = 3
  OBVIOUS
<1>2. 0 \in 0 .. 2 /\ 1 \in 0 .. 2 /\ 2 \in 0 .. 2
  OBVIOUS
<1>3. 1 \in 0 .. 3 /\ 2 \in 0 .. 3 /\ 3 \in 0 .. 3
  OBVIOUS
<1>4. Shifted(x, 1) \in Nat /\ Shifted(x, 2) \in Nat /\ Shifted(x, 3) \in Nat
  BY <1>3, ShiftedFacts
<1>5. Digit(x, 3) = Shifted(x, 3) % Radix
  BY <1>3, ShiftedFacts
<1>6. Shifted(x, 0) = Radix * Shifted(x, 0 + 1) + Digit(x, 0)
  BY <1>2, ShiftedFacts
<1>7. Shifted(x, 1) = Radix * Shifted(x, 1 + 1) + Digit(x, 1)
  BY <1>2, ShiftedFacts
<1>8. Shifted(x, 2) = Radix * Shifted(x, 2 + 1) + Digit(x, 2)
  BY <1>2, ShiftedFacts
<1>9. Shifted(x, 0) = x
  BY ShiftedFacts
<1> QED BY <1>1, <1>4, <1>5, <1>6, <1>7, <1>8, <1>9

\* The high byte is the whole of what remains behind the other three.
LEMMA HighestByte ==
    ASSUME NEW x \in Nat, x < Radix * Weight(3)
    PROVE  Digit(x, 3) = Shifted(x, 3)
<1> DEFINE w == Weight(3)
           q == x \div w
<1>0. Radix \in Nat \ {0}
  BY BusAssumption
<1>1. w \in Nat \ {0} /\ x < Radix * w
  BY WeightFacts
<1> HIDE DEF w
<1>2. q \in Nat /\ x % w \in 0 .. w - 1 /\ x = w * q + (x % w)
  BY <1>1, QuotientFacts
<1>3. q = Shifted(x, 3)
  BY DEF Shifted, w
<1> HIDE DEF q
<1>4. q < Radix
  <2>1. CASE Radix <= q
    <3>1. w * Radix <= w * q
      BY <1>0, <1>1, <1>2, <2>1, ProductOrder
    <3>2. w * Radix = Radix * w /\ w * q \in Nat /\ Radix * w \in Nat
      BY <1>0, <1>1, <1>2
    <3>3. x % w \in Nat
      BY <1>1, <1>2
    <3> QED BY <1>1, <1>2, <3>1, <3>2, <3>3
  <2> QED BY <1>0, <1>2, <2>1
<1>5. q % Radix = q
  BY <1>0, <1>2, <1>4, ModuloBelow
<1> QED BY <1>3, <1>5, ShiftedStep

\* Two instants of the same high bytes agree behind the low one.
LEMMA SameHigh ==
    ASSUME NEW x \in Nat, NEW y \in Nat, x \div Radix = y \div Radix
    PROVE  /\ Shifted(x, 1) = Shifted(y, 1)
           /\ Shifted(x, 2) = Shifted(y, 2)
           /\ Shifted(x, 3) = Shifted(y, 3)
<1>1. \A z \in Nat : /\ Shifted(z, 1) = z \div Radix
                     /\ Shifted(z, 2) = Shifted(z, 1) \div Radix
                     /\ Shifted(z, 3) = Shifted(z, 2) \div Radix
  <2>1. 0 \in 0 .. 2 /\ 1 \in 0 .. 2 /\ 2 \in 0 .. 2
    OBVIOUS
  <2>2. 0 + 1 = 1 /\ 1 + 1 = 2 /\ 2 + 1 = 3
    OBVIOUS
  <2> SUFFICES ASSUME NEW z \in Nat
               PROVE  /\ Shifted(z, 1) = z \div Radix
                      /\ Shifted(z, 2) = Shifted(z, 1) \div Radix
                      /\ Shifted(z, 3) = Shifted(z, 2) \div Radix
    OBVIOUS
  <2>3. \A i \in 0 .. 2 : Shifted(z, i + 1) = Shifted(z, i) \div Radix
    BY ShiftedFacts
  <2>4. Shifted(z, 0) = z
    BY ShiftedFacts
  <2>5. Shifted(z, 0 + 1) = Shifted(z, 0) \div Radix
    BY <2>1, <2>3, Zenon
  <2>6. Shifted(z, 1 + 1) = Shifted(z, 1) \div Radix
    BY <2>1, <2>3, Zenon
  <2>7. Shifted(z, 2 + 1) = Shifted(z, 2) \div Radix
    BY <2>1, <2>3, Zenon
  <2> QED BY <2>2, <2>4, <2>5, <2>6, <2>7
<1> QED BY <1>1

\* Bytes of four instants, the high one of the first, are never ahead of the
\* last, and are the last if no carry fell between them.
LEMMA TornBytes ==
    ASSUME NEW t1 \in Nat, NEW t2 \in Nat, NEW t3 \in Nat, NEW t4 \in Nat,
           t1 <= t2, t2 <= t3, t3 <= t4, t1 < Radix * Weight(3)
    PROVE  LET value == Radix * (Radix * (Radix * Digit(t1, 3) + Digit(t2, 2))
                                 + Digit(t3, 1)) + Digit(t4, 0)
           IN /\ value <= t4
              /\ \A x \in Nat : x <= t1 /\ t4 \div Radix = x \div Radix => value = t4
<1> DEFINE a == Digit(t1, 3)
           b == Digit(t2, 2)
           c == Digit(t3, 1)
           d == Digit(t4, 0)
           two == Radix * a + b
           three == Radix * two + c
           value == Radix * three + d
<1>0. Radix \in Nat \ {0}
  BY BusAssumption
<1>1. a \in Nat /\ b \in Nat /\ c \in Nat /\ d \in Nat
  <2>1. \A y \in Nat, i \in 0 .. 3 : Digit(y, i) \in Nat
    <3>1. \A z \in ByteValue : z \in Nat
      BY <1>0 DEF ByteValue
    <3> QED BY <3>1, DigitType
  <2>2. 0 \in 0 .. 3 /\ 1 \in 0 .. 3 /\ 2 \in 0 .. 3 /\ 3 \in 0 .. 3
    OBVIOUS
  <2> QED BY <2>1, <2>2
<1>2. /\ Shifted(t1, 3) \in Nat /\ Shifted(t2, 3) \in Nat
      /\ Shifted(t2, 2) \in Nat /\ Shifted(t3, 2) \in Nat
      /\ Shifted(t3, 1) \in Nat /\ Shifted(t4, 1) \in Nat
  BY ShiftedStep
<1>3. a = Shifted(t1, 3)
  BY HighestByte
<1>4. /\ Shifted(t2, 2) = Radix * Shifted(t2, 3) + b
      /\ Shifted(t3, 1) = Radix * Shifted(t3, 2) + c
      /\ t4 = Radix * Shifted(t4, 1) + d
  BY ShiftedStep
<1>5. /\ Shifted(t1, 3) <= Shifted(t2, 3) /\ Shifted(t2, 2) <= Shifted(t3, 2)
      /\ Shifted(t3, 1) <= Shifted(t4, 1)
  <2>1. 1 \in 0 .. 3 /\ 2 \in 0 .. 3 /\ 3 \in 0 .. 3
    OBVIOUS
  <2> QED BY <2>1, ShiftedOrder
<1>6. ASSUME NEW x \in Nat, x <= t1, t4 \div Radix = x \div Radix
      PROVE  /\ Shifted(t1, 3) = Shifted(t2, 3) /\ Shifted(t2, 2) = Shifted(t3, 2)
             /\ Shifted(t3, 1) = Shifted(t4, 1)
  <2>1. /\ x \div Radix <= t1 \div Radix /\ t1 \div Radix <= t2 \div Radix
        /\ t2 \div Radix <= t3 \div Radix /\ t3 \div Radix <= t4 \div Radix
    <3>1. \A y, z \in Nat : y <= z => y \div Radix <= z \div Radix
      BY <1>0, QuotientOrder
    <3> HIDE DEF a, b, c, d
    <3> QED BY <1>6, <3>1
  <2>2. /\ x \div Radix \in Nat /\ t1 \div Radix \in Nat /\ t2 \div Radix \in Nat
        /\ t3 \div Radix \in Nat /\ t4 \div Radix \in Nat
    BY <1>0, QuotientFacts
  <2>3. /\ t1 \div Radix = t2 \div Radix /\ t2 \div Radix = t3 \div Radix
        /\ t3 \div Radix = t4 \div Radix
    BY <1>6, <2>1, <2>2
  <2> QED BY <2>3, SameHigh
<1> HIDE DEF a, b, c, d
<1>7. two \in Nat /\ two <= Shifted(t2, 2)
  BY <1>0, <1>1, <1>2, <1>3, <1>4, <1>5, AppendOrder
<1>8. Shifted(t1, 3) = Shifted(t2, 3) => two = Shifted(t2, 2)
  BY <1>3, <1>4
<1> HIDE DEF two
<1>9. three \in Nat /\ three <= Shifted(t3, 1)
  <2>1. two <= Shifted(t3, 2)
    BY <1>2, <1>5, <1>7
  <2> QED BY <1>0, <1>1, <1>2, <1>4, <1>7, <2>1, AppendOrder
<1>10. two = Shifted(t3, 2) => three = Shifted(t3, 1)
  BY <1>4
<1> HIDE DEF three
<1>11. value <= t4
  <2>1. three <= Shifted(t4, 1)
    BY <1>2, <1>5, <1>9
  <2> QED BY <1>0, <1>1, <1>2, <1>4, <1>9, <2>1, AppendOrder
<1>12. three = Shifted(t4, 1) => value = t4
  BY <1>4
<1>13. ASSUME NEW x \in Nat, x <= t1, t4 \div Radix = x \div Radix
       PROVE  value = t4
  BY <1>6, <1>8, <1>10, <1>12, <1>13
<1> HIDE DEF value
<1>14. /\ value <= t4
       /\ \A x \in Nat : x <= t1 /\ t4 \div Radix = x \div Radix => value = t4
  BY <1>11, <1>13
<1> QED BY <1>14 DEF value, three, two, a, b, c, d

LEMMA SecondsStep ==
    ASSUME TypeOK, Len(reply'.bytes) = 4, "rtc" \in mapped, Load(Base["rtc"] + 2, 4)
    PROVE  /\ Value(reply'.bytes) <= now'
           /\ now' \div Radix = now \div Radix => Value(reply'.bytes) = now'
<1> DEFINE a == Base["rtc"] + 2
           v == reply'.bytes
<1>0. /\ "rtc" \in Region /\ Base["rtc"] \in Nat
      /\ Base["rtc"] \in Span["rtc"] /\ Base["rtc"] + 5 \in Span["rtc"]
  <2>1. "rtc" \in Region
    BY DEF Region
  <2>2. Base["rtc"] \in Span["rtc"] /\ Base["rtc"] \in 0 .. Top
    BY <2>1, BasesFirst
  <2> QED BY <2>1, <2>2, TopNat, BusAssumption
<1>1. \A i \in 0 .. 3 : a + i \in Span["rtc"] /\ a + i \in 0 .. Top /\ a + i \notin Overlay
  <2>1. PICK l \in 0 .. Top, h \in 0 .. Top : Span["rtc"] = l .. h
    BY <1>0, BusAssumption
  <2>2. l \in Nat /\ h \in Nat /\ h <= Top
    BY TopNat
  <2>3. ASSUME NEW i \in 0 .. 3 PROVE a + i \in l .. h /\ a + i \in 0 .. Top
    BY <1>0, <2>1, <2>2, TopNat
  <2>4. \A x \in Overlay : x \in Nat /\ x + 0 \notin Span["rtc"]
    <3>1. 0 \in 0 .. 3 /\ "rtc" \in Devices
      BY DEF Devices
    <3> QED BY <3>1, RomFacts, BusAssumption
  <2>5. \A x \in Overlay : x \notin Span["rtc"]
    BY <2>4
  <2> QED BY <2>1, <2>3, <2>5
<1>2. a \in Nat /\ a + 0 = a /\ a \in Span["rtc"] /\ a \notin Overlay
  BY <1>0, <1>1
<1>3. At(a, 3) = a + 3
  <2>1. 3 \in 0 .. 3 /\ 3 \in Nat
    OBVIOUS
  <2>2. a + 3 \in 0 .. Top
    BY <1>1, <2>1
  <2>3. a \in Nat /\ a + 3 <= Top
    BY <1>2, <2>2, TopNat
  <2> HIDE DEF a
  <2> QED BY <2>1, <2>3, AtType
<1> HIDE DEF a
<1>4. PICK t \in Instants[4] :
          t[1] >= now /\ Reply(a, Read32(a, t)) /\ now' = t[4]
  BY DEF Load, a
<1>5. v = FromBus(a, 4, t)
  <2>1. ~Covered(a) /\ ~Covered(At(a, 3))
    BY <1>1, <1>2, <1>3 DEF Covered
  <2>2. Read32(a, t) = FromBus(a, 4, t)
    BY <2>1 DEF Read32
  <2> QED BY <1>4, <2>2 DEF Reply
<1>6. Accepted(a, 4) /\ Holder(a, 4) = "rtc"
  <2>1. Accepted(a, 4)
    BY <1>5, RefusedType DEF FromBus
  <2>2. PICK r : r \in RegionsOf(a, 4)
    BY <2>1 DEF Accepted
  <2>3. Holder(a, 4) = r /\ r \in mapped /\ a \in Span[r]
    BY <2>2, HolderIs
  <2>4. r = "rtc"
    BY <1>2, <2>3 DEF TypeOK, RegionsDisjoint
  <2> QED BY <2>1, <2>3, <2>4
<1>7. \A i \in 1 .. 4 : v[i] = Digit(t[i], 4 - i)
  <2> SUFFICES ASSUME NEW i \in 1 .. 4 PROVE v[i] = Digit(t[i], 4 - i)
    OBVIOUS
  <2>1. v[i] = Byte("rtc", a + i - 1, t[i])
    BY <1>5, <1>6 DEF FromBus
  <2>2. Byte("rtc", a + i - 1, t[i]) = ClockByte((a + i - 1) - Base["rtc"], t[i])
    BY DEF Byte, Ram
  <2>3. (a + i - 1) - Base["rtc"] = i + 1
    BY <1>0 DEF a
  <2>4. i + 1 \in 2 .. 5 /\ i + 1 # 1 /\ 5 - (i + 1) = 4 - i
    OBVIOUS
  <2> QED BY <2>1, <2>2, <2>3, <2>4 DEF ClockByte
<1>8. \A i \in 1 .. 4 : t[i] \in Nat /\ t[i] < Radix * Weight(3)
  <2>1. Radix * Weight(3) \in Nat
    BY WeightFacts, BusAssumption
  <2>2. \A i \in 1 .. 4 : t[i] \in FirstTime .. LastTime
    BY InstantFacts
  <2> QED BY <2>1, <2>2, BusAssumption
<1>9. t[1] <= t[2] /\ t[2] <= t[3] /\ t[3] <= t[4]
  <2>1. \A i \in 1 .. 3 : t[i] <= t[i + 1]
    BY InstantFacts
  <2> QED BY <2>1
<1>10. v \in Seq(ByteValue)
  BY <1>2, <1>5, <1>8, FromBusType DEF Answer
<1>11. now \in Nat
  BY BusAssumption DEF TypeOK
<1>12. /\ Value(v) <= t[4]
       /\ \A x \in Nat : x <= t[1] /\ t[4] \div Radix = x \div Radix => Value(v) = t[4]
  <2>1. Len(v) = 4
    OBVIOUS
  <2> HIDE DEF v
  <2>2. /\ v[1] = Digit(t[1], 3) /\ v[2] = Digit(t[2], 2)
        /\ v[3] = Digit(t[3], 1) /\ v[4] = Digit(t[4], 0)
    <3>1. 1 \in 1 .. 4 /\ 2 \in 1 .. 4 /\ 3 \in 1 .. 4 /\ 4 \in 1 .. 4
      OBVIOUS
    <3>2. 4 - 1 = 3 /\ 4 - 2 = 2 /\ 4 - 3 = 1 /\ 4 - 4 = 0
      OBVIOUS
    <3>3. /\ v[1] = Digit(t[1], 4 - 1) /\ v[2] = Digit(t[2], 4 - 2)
          /\ v[3] = Digit(t[3], 4 - 3) /\ v[4] = Digit(t[4], 4 - 4)
      BY <1>7, <3>1, Zenon
    <3> QED BY <3>2, <3>3
  <2>3. /\ t[1] \in Nat /\ t[2] \in Nat /\ t[3] \in Nat /\ t[4] \in Nat
        /\ t[1] < Radix * Weight(3)
    <3>1. 1 \in 1 .. 4 /\ 2 \in 1 .. 4 /\ 3 \in 1 .. 4 /\ 4 \in 1 .. 4
      OBVIOUS
    <3> QED BY <1>8, <3>1, Zenon
  <2>4. Value(v) = Radix * (Radix * (Radix * v[1] + v[2]) + v[3]) + v[4]
    BY <1>10, <2>1, Horner
  <2>5. Value(v) = Radix * (Radix * (Radix * Digit(t[1], 3) + Digit(t[2], 2))
                            + Digit(t[3], 1)) + Digit(t[4], 0)
    BY <2>2, <2>4, Zenon
  <2> QED BY <1>9, <2>3, <2>5, TornBytes
<1>13. now <= t[1]
  <2>1. 1 \in 1 .. 4
    OBVIOUS
  <2> QED BY <1>4, <1>8, <1>11, <2>1
<1> QED BY <1>4, <1>11, <1>12, <1>13

\* The seconds a guest loads from the clock are never ahead of the time, and are
\* right if no carry left the low byte meanwhile, whenever the bytes are read.
THEOREM SecondsAgree == Spec => SecondsRead
<1>1. TypeOK /\ [Next]_vars =>
        [Len(reply'.bytes) = 4 /\ "rtc" \in mapped /\ Load(Base["rtc"] + 2, 4) =>
            /\ Value(reply'.bytes) <= now'
            /\ now' \div Radix = now \div Radix => Value(reply'.bytes) = now']_vars
  BY SecondsStep
<1> QED BY <1>1, BusTypeCorrect, PTL DEF Spec, SecondsRead

-----------------------------------------------------------------------------
(* The memory that the bus shows. *)

\* No device answers at the address.
Clear(x) == \A r \in mapped \cap Devices : x \notin Span[r]

\* What a load of memory may be answered with.
Shows(a, n, v) ==
    \/ /\ \A i \in 0 .. n - 1 : MemorySpec!Visible(At(a, i))
       /\ v = [i \in 1 .. n |-> MemorySpec!Seen(At(a, i - 1))]
    \/ v = Refused /\ MemorySpec!Misplaced(a, n)

LEMMA SeenFacts ==
    ASSUME NEW x \in 0 .. Top
    PROVE  /\ MemorySpec!Visible(x) <=> Covered(x) \/ x \in RamAddr \/ x >= RomStart
           /\ Covered(x) => MemorySpec!Seen(x) = rom[x]
           /\ ~Covered(x) /\ x \in RamAddr => MemorySpec!Seen(x) = ram[x]
           /\ ~Covered(x) /\ x \notin RamAddr => MemorySpec!Seen(x) = rom[x - RomStart]
<1>1. x < (Top + 1) - RomStart <=> x \in Overlay
  BY RomFacts, TopNat
<1>2. x < MemorySpec!RomSize <=> x \in Overlay
  BY <1>1, RomFacts, TopNat DEF MemorySpec!RomSize
<1> QED BY <1>2 DEF MemorySpec!Visible, MemorySpec!Seen, Covered

\* Whose an address is decides what kind of address it is.
LEMMA Territory ==
    ASSUME TypeOK, NEW r \in mapped, NEW x \in Span[r]
    PROVE  /\ x \in 0 .. Top
           /\ r \in Ram <=> x \in RamAddr
           /\ r = "rom" <=> x >= RomStart
           /\ r \in Devices => MemorySpec!Hole(x)
           /\ r \in Memories => Clear(x)
           /\ r \in Ram \/ r = "rom" \/ r \in Devices
<1>1. r \in Region /\ Memories \subseteq mapped
  BY DEF TypeOK
<1>2. x \in 0 .. Top
  BY <1>1, BasesFirst
<1>3. \A s \in mapped : x \in Span[s] => s = r
  BY DEF TypeOK, RegionsDisjoint
<1>4. r \in Ram <=> x \in RamAddr
  BY <1>1, <1>3 DEF Ram, RamAddr, Memories
<1>5. x >= RomStart <=> x \in Span["rom"]
  BY <1>2, RomFacts, TopNat
<1>6. r = "rom" <=> x >= RomStart
  BY <1>1, <1>3, <1>5 DEF Memories
<1>7. r \in Ram \/ r = "rom" \/ r \in Devices
  BY <1>1 DEF Region, Ram, Devices
<1>8. r \in Devices => r \notin Ram /\ r # "rom"
  BY DEF Ram, Devices
<1>9. r \in Devices => MemorySpec!Hole(x)
  <2>1. x \in Int /\ RomStart \in Int
    BY <1>2, RomFacts, TopNat
  <2> QED BY <1>4, <1>6, <1>8, <2>1 DEF MemorySpec!Hole
<1>10. r \in Memories => Clear(x)
  BY <1>3 DEF Clear, Memories, Devices
<1> QED BY <1>2, <1>4, <1>6, <1>7, <1>9, <1>10

LEMMA HolesOfDevices ==
    ASSUME TypeOK, NEW x, ~Clear(x)
    PROVE  MemorySpec!Hole(x)
BY Territory DEF Clear

\* An access within a region does not wrap.
LEMMA WithinRegion ==
    ASSUME NEW r \in Region, NEW a \in Nat, NEW n \in Nat \ {0},
           a \in Span[r], a + n - 1 \in Span[r]
    PROVE  \A i \in 0 .. n - 1 : a + i \in Span[r] /\ At(a, i) = a + i /\ a + i \in 0 .. Top
<1>1. PICK l \in 0 .. Top, h \in 0 .. Top : Span[r] = l .. h
  BY BusAssumption
<1> SUFFICES ASSUME NEW i \in 0 .. n - 1
             PROVE  a + i \in Span[r] /\ At(a, i) = a + i /\ a + i \in 0 .. Top
  OBVIOUS
<1>2. a + i \in Span[r] /\ a + i <= Top /\ i \in Nat
  BY <1>1, TopNat
<1>3. At(a, i) = a + i
  BY <1>2, AtType
<1> QED BY <1>2, <1>3, TopNat

\* What the bus does not accept does not lie in one memory, or is odd.
LEMMA NotAccepted ==
    ASSUME TypeOK, NEW a, NEW n, ~Accepted(a, n)
    PROVE  MemorySpec!Misplaced(a, n)
<1>1. CASE Misaligned(a, n)
  BY <1>1 DEF Misaligned, MemorySpec!Misplaced
<1>2. CASE RegionsOf(a, n) = {}
  <2>1. ~OneRegion(a, n)
    BY <1>2 DEF OneRegion, RegionsOf, TypeOK
  <2> QED BY <2>1 DEF MemorySpec!Misplaced
<1> QED BY <1>1, <1>2 DEF Accepted

\* The overlay covers the first addresses.
LEMMA CoveredFirst ==
    ASSUME NEW x \in Nat, NEW y \in Nat, x <= y, Covered(y)
    PROVE  Covered(x)
BY RomFacts, TopNat DEF Covered

LEMMA ClearBehind ==
    ASSUME TypeOK, NEW x \in Nat, Covered(x), NEW i \in 0 .. 3
    PROVE  Clear(x + i)
BY BusAssumption DEF Covered, Clear

LEMMA MappedByte ==
    ASSUME TypeOK, NEW r \in mapped, NEW x \in Span[r], r \notin Devices, ~Covered(x), NEW t
    PROVE  MemorySpec!Visible(x) /\ Byte(r, x, t) = MemorySpec!Seen(x)
<1>1. x \in 0 .. Top
  BY Territory
<1>2. CASE r \in Ram
  <2>1. x \in RamAddr
    BY <1>2, Territory
  <2>2. Byte(r, x, t) = ram[x]
    BY <1>2 DEF Byte, Ram
  <2> QED BY <1>1, <2>1, <2>2, SeenFacts
<1>3. CASE r = "rom"
  <2>1. x \notin RamAddr /\ x >= RomStart
    BY <1>3, Territory DEF Ram
  <2> QED BY <1>1, <1>3, <2>1, SeenFacts DEF Byte, Ram
<1> QED BY <1>2, <1>3, Territory

\* What the bus reads where neither overlay nor device answers.
LEMMA FromBusShows ==
    ASSUME TypeOK, NEW a \in 0 .. Top, NEW n \in {1, 2, 4}, NEW t, Clear(a),
           ~Covered(a) \/ ~Accepted(a, n)
    PROVE  Shows(a, n, FromBus(a, n, t))
<1>0. a \in Nat /\ n \in Nat \ {0}
  BY TopNat
<1>1. CASE ~Accepted(a, n)
  BY <1>1, NotAccepted DEF FromBus, Shows
<1>2. CASE Accepted(a, n) /\ ~Covered(a)
  <2>1. PICK r : r \in RegionsOf(a, n)
    BY <1>2 DEF Accepted
  <2>2. /\ Holder(a, n) = r /\ r \in mapped /\ r \in Region
        /\ a \in Span[r] /\ a + n - 1 \in Span[r]
    BY <2>1, HolderIs
  <2>3. r \notin Devices
    BY <2>2 DEF Clear
  <2>4. \A i \in 0 .. n - 1 : a + i \in Span[r] /\ At(a, i) = a + i /\ a + i \in 0 .. Top
    BY <1>0, <2>2, WithinRegion
  <2>5. ASSUME NEW i \in 0 .. n - 1 PROVE ~Covered(a + i)
    <3>1. a + i \in Nat /\ a <= a + i
      BY <1>0
    <3> QED BY <1>0, <1>2, <3>1, CoveredFirst
  <2>6. \A i \in 0 .. n - 1 : MemorySpec!Visible(At(a, i))
    BY <2>2, <2>3, <2>4, <2>5, MappedByte
  <2>7. ASSUME NEW i \in 1 .. n
        PROVE  Byte(r, a + i - 1, t[i]) = MemorySpec!Seen(At(a, i - 1))
    <3>1. i - 1 \in 0 .. n - 1 /\ a + i - 1 = a + (i - 1)
      BY <1>0
    <3> QED BY <2>2, <2>3, <2>4, <2>5, <3>1, MappedByte
  <2>8. FromBus(a, n, t) = [i \in 1 .. n |-> MemorySpec!Seen(At(a, i - 1))]
    BY <1>2, <2>2, <2>7 DEF FromBus
  <2> QED BY <2>6, <2>8 DEF Shows
<1> QED BY <1>1, <1>2

LEMMA SeenType ==
    ASSUME TypeOK, NEW x \in 0 .. Top, MemorySpec!Visible(x)
    PROVE  MemorySpec!Seen(x) \in ByteValue
<1>1. CASE Covered(x)
  BY <1>1, SeenFacts DEF Covered, TypeOK, ByteValue
<1>2. CASE ~Covered(x) /\ x \in RamAddr
  BY <1>2, SeenFacts DEF TypeOK, ByteValue
<1>3. CASE ~Covered(x) /\ x \notin RamAddr
  <2>1. x - RomStart \in Overlay
    <3>1. x >= RomStart
      BY <1>3, SeenFacts
    <3> QED BY <3>1, RomFacts, TopNat
  <2> QED BY <1>3, <2>1, SeenFacts DEF TypeOK, ByteValue
<1> QED BY <1>1, <1>2, <1>3

LEMMA Concatenation ==
    ASSUME NEW S, NEW s \in Seq(S), NEW t \in Seq(S)
    PROVE  s \o t = [i \in 1 .. Len(s) + Len(t) |-> IF i <= Len(s) THEN s[i] ELSE t[i - Len(s)]]
<1> DEFINE u == s \o t
           n == Len(s) + Len(t)
           w == [i \in 1 .. n |-> IF i <= Len(s) THEN s[i] ELSE t[i - Len(s)]]
<1>1. u \in Seq(S) /\ Len(u) = n
  OBVIOUS
<1>2. u \in [1 .. n -> S]
  <2> HIDE DEF u, n
  <2> QED BY <1>1
<1>3. \A i \in 1 .. n : u[i] = w[i]
  OBVIOUS
<1>4. w = [i \in 1 .. n |-> w[i]]
  OBVIOUS
<1> HIDE DEF u, n, w
<1>5. u = w
  BY <1>2, <1>3, <1>4
<1> QED BY <1>5 DEF u, n, w

\* Two halves that show memory show it together.
LEMMA JoinShows ==
    ASSUME TypeOK, NEW a \in 0 .. Top, NEW m \in {1, 2}, NEW b \in 0 .. Top, b = At(a, m),
           \A i \in 0 .. m - 1 : At(a, m + i) = At(b, i),
           ~Misaligned(a, m), ~Misaligned(b, m),
           OneRegion(a, m + m) => OneRegion(a, m) /\ OneRegion(b, m),
           NEW u, NEW v, Shows(a, m, u), Shows(b, m, v)
    PROVE  Shows(a, m + m, Join(u, v))
<1> DEFINE S(c, n) == [i \in 1 .. n |-> MemorySpec!Seen(At(c, i - 1))]
           Bytes(c) == \A i \in 0 .. m - 1 : MemorySpec!Visible(At(c, i))
<1>0. a \in Nat /\ b \in Nat /\ m \in Nat \ {0}
  BY TopNat
<1>1. CASE u = Refused \/ v = Refused
  <2>1. ASSUME NEW c \in 0 .. Top, Bytes(c), S(c, m) = Refused PROVE FALSE
    <3>1. 1 \in DOMAIN S(c, m)
      BY <1>0
    <3>2. DOMAIN Refused = {}
      BY DEF Refused
    <3> HIDE DEF S
    <3> QED BY <2>1, <3>1, <3>2
  <2>2. (u = Refused => MemorySpec!Misplaced(a, m)) /\ (v = Refused => MemorySpec!Misplaced(b, m))
    BY <2>1 DEF Shows
  <2>3. ~OneRegion(a, m + m)
    BY <1>1, <2>2 DEF MemorySpec!Misplaced, Misaligned
  <2>4. MemorySpec!Misplaced(a, m + m)
    BY <2>3 DEF MemorySpec!Misplaced
  <2> QED BY <1>1, <2>4 DEF Join, Shows
<1>2. CASE u # Refused /\ v # Refused
  <2>1. Bytes(a) /\ u = S(a, m) /\ Bytes(b) /\ v = S(b, m)
    BY <1>2 DEF Shows
  <2>2. ASSUME NEW i \in 0 .. (m + m) - 1 PROVE MemorySpec!Visible(At(a, i))
    <3>1. CASE i < m
      <4>1. i \in 0 .. m - 1
        BY <1>0, <3>1
      <4> QED BY <2>1, <4>1
    <3>2. CASE i >= m
      <4>1. i - m \in 0 .. m - 1 /\ i = m + (i - m)
        BY <1>0, <3>2
      <4> DEFINE j == i - m
      <4> HIDE DEF j
      <4>2. j \in 0 .. m - 1 /\ i = m + j
        BY <4>1 DEF j
      <4> QED BY <2>1, <4>2
    <3> QED BY <1>0, <3>1, <3>2
  <2>3. ASSUME NEW c \in 0 .. Top, Bytes(c)
        PROVE  S(c, m) \in Seq(ByteValue) /\ Len(S(c, m)) = m
    <3>1. ASSUME NEW i \in 1 .. m PROVE MemorySpec!Seen(At(c, i - 1)) \in ByteValue
      <4>1. i - 1 \in 0 .. m - 1 /\ i - 1 \in Nat /\ c \in Nat
        BY <1>0, TopNat
      <4>2. At(c, i - 1) \in 0 .. Top
        BY <4>1, AtType
      <4> QED BY <2>3, <4>1, <4>2, SeenType
    <3>2. S(c, m) \in [1 .. m -> ByteValue]
      BY <3>1
    <3> HIDE DEF S
    <3> QED BY <1>0, <3>2
  <2>4. u \in Seq(ByteValue) /\ Len(u) = m /\ v \in Seq(ByteValue) /\ Len(v) = m
    BY <2>1, <2>3
  <2>5. u \o v = S(a, m + m)
    <3>1. u \o v = [i \in 1 .. m + m |-> IF i <= m THEN u[i] ELSE v[i - m]]
      BY <2>4, Concatenation
    <3>2. ASSUME NEW i \in 1 .. m + m
          PROVE  (IF i <= m THEN u[i] ELSE v[i - m]) = MemorySpec!Seen(At(a, i - 1))
      <4>1. CASE i <= m
        <5>1. i \in 1 .. m
          BY <1>0, <4>1
        <5> QED BY <2>1, <4>1, <5>1
      <4>2. CASE i > m
        <5> DEFINE j == i - m
        <5>1. j \in 1 .. m /\ j - 1 \in 0 .. m - 1 /\ i - 1 = m + (j - 1)
          BY <1>0, <4>2
        <5>2. ~(i <= m)
          BY <1>0, <4>2
        <5> HIDE DEF j
        <5>3. v[j] = MemorySpec!Seen(At(b, j - 1))
          BY <2>1, <5>1
        <5>4. At(a, m + (j - 1)) = At(b, j - 1)
          BY <5>1
        <5> QED BY <5>1, <5>2, <5>3, <5>4 DEF j
      <4> QED BY <1>0, <4>1, <4>2
    <3> QED BY <3>1, <3>2
  <2>6. Join(u, v) = u \o v
    BY <1>2 DEF Join
  <2> QED BY <2>2, <2>5, <2>6 DEF Shows
<1> QED BY <1>1, <1>2

LEMMA Read8Shows ==
    ASSUME TypeOK, NEW a \in 0 .. Top, NEW t, Clear(a)
    PROVE  Shows(a, 1, Read8(a, t))
<1>1. CASE Covered(a)
  <2>1. At(a, 0) = a
    <3>1. a \in Nat /\ 0 \in Nat /\ a + 0 = a /\ a <= Top
      BY TopNat
    <3> QED BY <3>1, AtType
  <2>2. MemorySpec!Visible(a) /\ MemorySpec!Seen(a) = rom[a]
    BY <1>1, SeenFacts
  <2>3. <<rom[a]>> = [i \in 1 .. 1 |-> MemorySpec!Seen(At(a, i - 1))]
    <3>1. \A i \in 1 .. 1 : MemorySpec!Seen(At(a, i - 1)) = rom[a]
      <4>1. \A i \in 1 .. 1 : i - 1 = 0
        OBVIOUS
      <4> QED BY <2>1, <2>2, <4>1
    <3> QED BY <3>1
  <2>4. \A i \in 0 .. 1 - 1 : MemorySpec!Visible(At(a, i))
    BY <2>1, <2>2
  <2> QED BY <1>1, <2>3, <2>4 DEF Read8, Shows
<1>2. CASE ~Covered(a)
  BY <1>2, FromBusShows DEF Read8
<1> QED BY <1>1, <1>2

LEMMA EvenFacts ==
    ASSUME NEW a \in 0 .. Top, a % 2 # 1
    PROVE  a + 1 <= Top /\ (a + 3 <= Top \/ a = Top - 1)
<1>1. a \in Nat /\ Top \in Nat /\ Top % 2 = 1
  BY BusAssumption
<1>2. PICK q \in Nat : a = 2 * q
  <2>1. a = 2 * (a \div 2) + (a % 2) /\ a % 2 \in 0 .. 1 /\ a \div 2 \in Nat
    BY <1>1
  <2> QED BY <2>1
<1>3. PICK p \in Nat : Top = 2 * p + 1
  <2>1. Top = 2 * (Top \div 2) + (Top % 2) /\ Top \div 2 \in Nat
    BY <1>1
  <2> QED BY <1>1, <2>1
<1> QED BY <1>1, <1>2, <1>3

LEMMA Read16Shows ==
    ASSUME TypeOK, NEW a \in 0 .. Top, NEW t, Clear(a)
    PROVE  Shows(a, 2, Read16(a, t))
<1>0. a \in Nat /\ 1 \in Nat
  BY TopNat
<1>1. CASE Misaligned(a, 2)
  BY <1>1, FromBusShows DEF Read16, Accepted
<1>2. CASE ~Misaligned(a, 2)
  <2> DEFINE b == At(a, 1)
  <2>1. a + 1 <= Top
    BY <1>2, EvenFacts DEF Misaligned
  <2>2. b = a + 1 /\ b \in 0 .. Top /\ At(b, 0) = b
    <3>1. b = a + 1 /\ b \in 0 .. Top
      BY <1>0, <2>1, AtType
    <3>2. b \in Nat /\ 0 \in Nat /\ b + 0 = b /\ b <= Top
      BY <3>1, TopNat
    <3>3. At(b, 0) = b
      <4> HIDE DEF b
      <4> QED BY <3>2, AtType
    <3> QED BY <3>1, <3>3
  <2> HIDE DEF b
  <2>3. CASE Covered(a) \/ Covered(b)
    <3>1. Covered(a)
      BY <1>0, <2>2, <2>3, CoveredFirst, TopNat
    <3>2. Clear(b)
      <4>1. 1 \in 0 .. 3
        OBVIOUS
      <4> QED BY <1>0, <2>2, <3>1, <4>1, ClearBehind
    <3>3. Shows(a, 1, Read8(a, t)) /\ Shows(b, 1, Read8(b, Tail(t)))
      BY <2>2, <3>2, Read8Shows
    <3>4. OneRegion(a, 1 + 1) => OneRegion(a, 1) /\ OneRegion(b, 1)
      <4>1. a + (1 + 1) - 1 = b /\ a + 1 - 1 = a /\ b + 1 - 1 = b
        BY <1>0, <2>2
      <4> QED BY <4>1 DEF OneRegion
    <3>5. \A i \in 0 .. 1 - 1 : At(a, 1 + i) = At(b, i)
      <4>1. \A i \in 0 .. 1 - 1 : i = 0 /\ 1 + i = 1
        OBVIOUS
      <4> QED BY <2>2, <4>1 DEF b
    <3>6. Shows(a, 1 + 1, Join(Read8(a, t), Read8(b, Tail(t))))
      <4>1. ~Misaligned(a, 1) /\ ~Misaligned(b, 1) /\ 1 \in {1, 2}
        BY DEF Misaligned
      <4>2. b = At(a, 1)
        BY DEF b
      <4> QED BY <2>2, <3>3, <3>4, <3>5, <4>1, <4>2, JoinShows
    <3>7. Read16(a, t) = Join(Read8(a, t), Read8(b, Tail(t)))
      BY <1>2, <2>3 DEF Read16, b
    <3> QED BY <3>6, <3>7
  <2>4. CASE ~Covered(a) /\ ~Covered(b)
    BY <2>4, FromBusShows DEF Read16, b
  <2> QED BY <2>3, <2>4
<1> QED BY <1>1, <1>2

LEMMA ZeroCovered == Covered(0) \/ ~overlay
<1>1. 0 \in Overlay
  BY RomFacts, TopNat
<1> QED BY <1>1 DEF Covered

LEMMA Read32Shows ==
    ASSUME TypeOK, NEW a \in 0 .. Top, NEW t, Clear(a)
    PROVE  Shows(a, 4, Read32(a, t))
<1>0. a \in Nat /\ 1 \in Nat /\ 2 \in Nat /\ 3 \in Nat
  BY TopNat
<1>1. CASE Misaligned(a, 4)
  BY <1>1, FromBusShows DEF Read32, Accepted
<1>2. CASE ~Misaligned(a, 4) /\ ~Covered(a) /\ ~Covered(At(a, 3))
  BY <1>2, FromBusShows DEF Read32
<1>3. CASE ~Misaligned(a, 4) /\ (Covered(a) \/ Covered(At(a, 3)))
  <2> DEFINE b == At(a, 2)
  <2>0. b \in 0 .. Top
    BY <1>0, AtType
  <2>1. ~Misaligned(a, 2) /\ a % 2 # 1
    BY <1>3 DEF Misaligned
  <2>2. a + 1 <= Top /\ (a + 3 <= Top \/ a = Top - 1)
    BY <2>1, EvenFacts
  <2>3. /\ \A i \in 0 .. 1 : At(a, 2 + i) = At(b, i)
        /\ Clear(b) /\ ~Misaligned(b, 2)
        /\ OneRegion(a, 4) => OneRegion(a, 2) /\ OneRegion(b, 2)
    <3>1. CASE a + 3 <= Top
      <4>1. b = a + 2 /\ At(a, 3) = a + 3
        <5>1. a + 2 <= Top
          BY <1>0, <3>1, TopNat
        <5>2. At(a, 2) = a + 2
          BY <1>0, <5>1, AtType
        <5>3. At(a, 3) = a + 3
          BY <1>0, <3>1, AtType
        <5> QED BY <5>2, <5>3
      <4>2. At(b, 0) = a + 2 /\ At(b, 1) = a + 3
        <5>1. a + 2 \in Nat /\ (a + 2) + 0 = a + 2 /\ (a + 2) + 1 = a + 3 /\ a + 2 <= Top
          BY <1>0, <3>1, TopNat
        <5>2. At(a + 2, 0) = (a + 2) + 0 /\ At(a + 2, 1) = (a + 2) + 1
          BY <1>0, <3>1, <5>1, AtType
        <5> QED BY <4>1, <5>1, <5>2
      <4> HIDE DEF b
      <4>3. \A i \in 0 .. 1 : At(a, 2 + i) = At(b, i)
        <5>1. \A i \in 0 .. 1 : (i = 0 /\ 2 + i = 2) \/ (i = 1 /\ 2 + i = 3)
          OBVIOUS
        <5> QED BY <4>1, <4>2, <5>1 DEF b
      <4>4. Covered(a)
        BY <1>0, <1>3, <4>1, CoveredFirst
      <4>5. Clear(b)
        <5>1. 2 \in 0 .. 3
          OBVIOUS
        <5> QED BY <1>0, <4>1, <4>4, <5>1, ClearBehind
      <4>6. ~Misaligned(b, 2)
        BY <1>0, <2>1, <4>1 DEF Misaligned
      <4>7. OneRegion(a, 4) => OneRegion(a, 2) /\ OneRegion(b, 2)
        <5> SUFFICES ASSUME NEW r \in Memories, a \in Span[r], a + 4 - 1 \in Span[r]
                     PROVE  OneRegion(a, 2) /\ OneRegion(b, 2)
          BY DEF OneRegion
        <5>1. r \in Region /\ 4 \in Nat \ {0}
          BY DEF Memories, Region
        <5>2. \A i \in 0 .. 4 - 1 : a + i \in Span[r]
          BY <1>0, <5>1, WithinRegion
        <5>3. a + 1 \in Span[r] /\ a + 2 \in Span[r] /\ a + 3 \in Span[r]
          BY <5>2
        <5>4. a + 2 - 1 = a + 1 /\ (a + 2) + 2 - 1 = a + 3
          BY <1>0
        <5> QED BY <4>1, <5>3, <5>4 DEF OneRegion
      <4> QED BY <4>3, <4>5, <4>6, <4>7
    <3>2. CASE a + 3 > Top
      <4>1. a + 2 = Top + 1 /\ a + 3 = (Top + 1) + 1
        BY <1>0, <2>2, <3>2, TopNat
      <4>2. b = 0 /\ At(a, 3) = 1 /\ At(0, 0) = 0 /\ At(0, 1) = 1 /\ 1 <= Top
        <5>1. Top \in Nat /\ 1 <= Top
          BY <1>0, <2>2, TopNat
        <5>2. (Top + 1) % (Top + 1) = 0 /\ ((Top + 1) + 1) % (Top + 1) = 1
              /\ 0 % (Top + 1) = 0 /\ 1 % (Top + 1) = 1
          <6> DEFINE m == Top + 1
          <6>1. m \in Nat /\ m > 1
            BY <5>1
          <6> HIDE DEF m
          <6>2. m \in Nat \ {0} /\ 0 \in 0 .. m - 1 /\ 1 \in 0 .. m - 1
            BY <6>1
          <6>3. m = m * 1 + 0 /\ m + 1 = m * 1 + 1 /\ 0 = m * 0 + 0 /\ 1 = m * 0 + 1
            BY <6>1
          <6>4. m % m = 0 /\ (m + 1) % m = 1 /\ 0 % m = 0 /\ 1 % m = 1
            <7>1. \A d \in Int, q \in Int, c \in 0 .. m - 1 : d = m * q + c => d % m = c
              BY <6>2, DivisionUnique
            <7>2. m \in Int /\ m + 1 \in Int /\ 0 \in Int /\ 1 \in Int
              BY <6>1
            <7> QED BY <6>2, <6>3, <7>1, <7>2
          <6> QED BY <6>4 DEF m
        <5>3. 0 + 0 = 0 /\ 0 + 1 = 1
          OBVIOUS
        <5> QED BY <4>1, <5>1, <5>2, <5>3 DEF At
      <4> HIDE DEF b
      <4>3. \A i \in 0 .. 1 : At(a, 2 + i) = At(b, i)
        <5>1. \A i \in 0 .. 1 : (i = 0 /\ 2 + i = 2) \/ (i = 1 /\ 2 + i = 3)
          OBVIOUS
        <5> QED BY <4>2, <5>1 DEF b
      <4>4. Clear(b)
        <5>1. Covered(0)
          BY <1>3, ZeroCovered DEF Covered
        <5>2. 0 \in Nat /\ 0 \in 0 .. 3 /\ 0 + 0 = 0
          OBVIOUS
        <5>3. Clear(0 + 0)
          BY <5>1, <5>2, ClearBehind
        <5> QED BY <4>2, <5>2, <5>3
      <4>5. ~Misaligned(b, 2)
        BY <4>2 DEF Misaligned
      <4>6. ~OneRegion(a, 4)
        <5> SUFFICES ASSUME NEW r \in Memories, a + 4 - 1 \in Span[r] PROVE FALSE
          BY DEF OneRegion
        <5>1. r \in Region
          BY DEF Memories, Region
        <5>2. a + 4 - 1 <= Top
          BY <5>1, BasesFirst, TopNat
        <5> QED BY <1>0, <3>2, <5>2, TopNat
      <4> QED BY <4>3, <4>4, <4>5, <4>6
    <3> QED BY <1>0, <3>1, <3>2, TopNat
  <2>4. Shows(a, 2, Read16(a, t)) /\ Shows(b, 2, Read16(b, Tail(Tail(t))))
    <3> HIDE DEF b
    <3> QED BY <2>0, <2>3, Read16Shows
  <2>5. Shows(a, 2 + 2, Join(Read16(a, t), Read16(b, Tail(Tail(t)))))
    <3>1. b = At(a, 2) /\ 2 \in {1, 2}
      OBVIOUS
    <3>2. OneRegion(a, 2 + 2) => OneRegion(a, 2) /\ OneRegion(b, 2)
      BY <2>3
    <3>3. \A i \in 0 .. 2 - 1 : At(a, 2 + i) = At(b, i)
      BY <2>3
    <3> HIDE DEF b
    <3> QED BY <2>0, <2>1, <2>3, <2>4, <3>1, <3>2, <3>3, JoinShows
  <2>6. Read32(a, t) = Join(Read16(a, t), Read16(b, Tail(Tail(t))))
    BY <1>3 DEF Read32
  <2> QED BY <2>5, <2>6
<1> QED BY <1>1, <1>2, <1>3

LEMMA LoadShows ==
    ASSUME TypeOK, NEW a \in Accessed, NEW n \in {1, 2, 4}, Load(a, n)
    PROVE  MemorySpec!Next
<1>0. a \in 0 .. Top
  BY BusAssumption
<1>1. PICK t \in Instants[n] :
        /\ Reply(a, CASE n = 1 -> Read8(a, t)
                      [] n = 2 -> Read16(a, t)
                      [] n = 4 -> Read32(a, t))
        /\ UNCHANGED memory
  BY DEF Load
<1>2. reply'.at = a /\ UNCHANGED <<ram, rom, overlay>>
  BY <1>1 DEF Reply, memory
<1>3. MemorySpec!Access(a)
  <2>1. CASE Clear(a)
    <3>1. PICK v : Reply(a, v) /\ Shows(a, n, v)
      <4>1. CASE n = 1
        BY <1>0, <1>1, <2>1, <4>1, Read8Shows
      <4>2. CASE n = 2
        BY <1>0, <1>1, <2>1, <4>2, Read16Shows
      <4>3. CASE n = 4
        BY <1>0, <1>1, <2>1, <4>3, Read32Shows
      <4> QED BY <4>1, <4>2, <4>3
    <3>2. MemorySpec!Load(a, n)
      BY <1>2, <3>1 DEF MemorySpec!Load, MemorySpec!Reply, MemorySpec!At, MemorySpec!Refused,
                        Shows, At, Refused, Reply
    <3> QED BY <3>2 DEF MemorySpec!Access
  <2>2. CASE ~Clear(a)
    <3>1. MemorySpec!Elsewhere(a)
      BY <1>2, <2>2, HolesOfDevices DEF MemorySpec!Elsewhere
    <3> QED BY <3>1 DEF MemorySpec!Access
  <2> QED BY <2>1, <2>2
<1> QED BY <1>2, <1>3 DEF MemorySpec!Next

\* The place of an address among the bytes from a on is the one that At counts.
LEMMA PlaceIs ==
    ASSUME NEW x \in 0 .. Top, NEW a \in 0 .. Top
    PROVE  At(a, Place(x, a)) = x /\ Place(x, a) \in 0 .. Top
<1> DEFINE m == Top + 1
           y == (x + m) - a
           p == Place(x, a)
<1>0. Top \in Nat /\ x \in Nat /\ a \in Nat /\ x <= Top /\ a <= Top
  BY TopNat
<1>1. m \in Nat \ {0} /\ x \in 0 .. m - 1 /\ y \in 1 .. m + m
  BY <1>0
<1>2. p = y % m
  BY DEF Place
<1>3. At(a, p) = (a + p) % m
  BY DEF At
<1> HIDE DEF p
<1>4. CASE y < m
  <2>1. p = y
    <3> HIDE DEF y, m
    <3> QED BY <1>1, <1>2, <1>4
  <2>2. a + p = m * 1 + x
    BY <1>0, <2>1
  <2>3. a + p \in Int /\ 1 \in Int
    BY <1>0, <2>1
  <2>4. (a + p) % m = x
    <3> HIDE DEF m
    <3> QED BY <1>1, <2>2, <2>3, DivisionUnique
  <2> QED BY <1>0, <1>1, <1>3, <1>4, <2>1, <2>4 DEF p
<1>5. CASE y >= m
  <2>1. y - m \in 0 .. m - 1
    BY <1>0, <1>5
  <2>2. y = m * 1 + (y - m) /\ y \in Int
    BY <1>0
  <2>3. y % m = y - m
    <3> DEFINE c == y - m
    <3>1. c \in 0 .. m - 1 /\ y = m * 1 + c
      BY <2>1, <2>2
    <3> HIDE DEF c, y, m
    <3>2. y % m = c
      BY <1>1, <2>2, <3>1, DivisionUnique
    <3> QED BY <3>2 DEF c
  <2>4. a + p = x
    BY <1>0, <1>2, <2>3
  <2>5. x % m = x
    <3> HIDE DEF m
    <3> QED BY <1>1
  <2> QED BY <1>0, <1>2, <1>3, <2>1, <2>3, <2>4, <2>5 DEF p
<1> QED BY <1>1, <1>4, <1>5

\* A device takes a store without a byte of it reaching memory.
LEMMA DevicesLeaveRam ==
    ASSUME TypeOK, NEW r \in mapped \cap Devices, NEW a \in Span[r], NEW v \in Seq(ByteValue),
           Len(v) > 0, a + Len(v) - 1 \in Span[r]
    PROVE  Put(ram, a, v) = ram
<1>1. r \in Region /\ a \in 0 .. Top /\ a \in Nat
  BY Territory, TopNat DEF TypeOK
<1>2. \A i \in 0 .. Len(v) - 1 : a + i \in Span[r] /\ At(a, i) = a + i
  BY <1>1, WithinRegion
<1>3. ram = [x \in DOMAIN ram |-> ram[x]] /\ DOMAIN ram = RamAddr
  BY DEF TypeOK
<1>4. ASSUME NEW x \in RamAddr PROVE ~(Place(x, a) < Len(v))
  <2> SUFFICES ASSUME Place(x, a) < Len(v) PROVE FALSE
    OBVIOUS
  <2>1. PICK s \in mapped : x \in Span[s] /\ s \notin Devices
    BY DEF RamAddr, TypeOK, Memories, Devices
  <2>2. x \in 0 .. Top
    BY <2>1, Territory
  <2>3. Place(x, a) \in 0 .. Len(v) - 1 /\ At(a, Place(x, a)) = x
    <3>1. Place(x, a) \in 0 .. Top /\ At(a, Place(x, a)) = x
      BY <1>1, <2>2, PlaceIs
    <3>2. Place(x, a) \in Nat /\ Len(v) \in Nat
      BY <3>1, TopNat
    <3> QED BY <3>1, <3>2
  <2>4. x \in Span[r]
    BY <1>2, <2>3
  <2> QED BY <2>1, <2>4 DEF TypeOK, RegionsDisjoint
<1> QED BY <1>3, <1>4 DEF Put

LEMMA SamePut ==
    ASSUME NEW contents, NEW a, NEW v
    PROVE  MemorySpec!Put(contents, a, v) = Put(contents, a, v)
BY DEF MemorySpec!Put, Put, Place

LEMMA StoreShows ==
    ASSUME TypeOK, NEW a \in Accessed, NEW v \in Data, Store(a, v)
    PROVE  MemorySpec!Next
<1> DEFINE n == Len(v)
<1>0. a \in 0 .. Top /\ a \in Nat /\ n \in {1, 2, 4} /\ n \in Nat \ {0} /\ v \in Seq(ByteValue)
      /\ v \in Data \cup Files
  <2>1. a \in 0 .. Top /\ v \in Seq(ByteValue)
    BY InputFacts
  <2>2. n \in {1, 2, 4}
    BY BusAssumption
  <2>3. a \in Nat /\ v \in Data \cup Files
    BY <2>1, TopNat
  <2> HIDE DEF n
  <2>4. n \in Nat \ {0}
    BY <2>2
  <2> QED BY <2>1, <2>2, <2>3, <2>4
<1>1. CASE Accepted(a, n) /\ Holder(a, n) # "rom"
  <2>1. PICK r : r \in RegionsOf(a, n)
    BY <1>1 DEF Accepted
  <2>2. /\ Holder(a, n) = r /\ r \in mapped /\ r \in Region
        /\ a \in Span[r] /\ a + n - 1 \in Span[r]
    BY <2>1, HolderIs
  <2>3. Reply(a, v) /\ ram' = Put(ram, a, v) /\ UNCHANGED <<rom, overlay>>
    BY <1>1 DEF Store, StoreBytes
  <2>4. CASE r \in Ram
    <3>1. \A i \in 0 .. n - 1 : At(a, i) \in RamAddr
      <4>1. \A i \in 0 .. n - 1 : a + i \in Span[r] /\ At(a, i) = a + i
        BY <1>0, <2>2, WithinRegion
      <4> QED BY <2>2, <2>4, <4>1, Territory
    <3>2. MemorySpec!Store(a, v)
      BY <2>3, <3>1, SamePut DEF MemorySpec!Store, MemorySpec!Reply, MemorySpec!At, At, Reply
    <3> QED BY <1>0, <2>3, <3>2 DEF MemorySpec!Next, MemorySpec!Access, Reply
  <2>5. CASE r \in Devices
    <3>1. ram' = ram
      BY <1>0, <2>2, <2>3, <2>5, DevicesLeaveRam
    <3>2. MemorySpec!Hole(a)
      BY <2>2, <2>5, Territory
    <3>3. MemorySpec!Elsewhere(a)
      BY <2>3, <3>1, <3>2 DEF MemorySpec!Elsewhere
    <3> QED BY <2>3, <3>3 DEF MemorySpec!Next, MemorySpec!Access, Reply
  <2> QED BY <1>1, <2>2, <2>4, <2>5, Territory
<1>2. CASE ~(Accepted(a, n) /\ Holder(a, n) # "rom")
  <2>1. Reply(a, Refused) /\ UNCHANGED <<ram, rom, overlay>>
    BY <1>2 DEF Store, memory
  <2>2. MemorySpec!Misplaced(a, n) \/ a \notin RamAddr
    <3>1. CASE ~Accepted(a, n)
      BY <3>1, NotAccepted
    <3>2. CASE Accepted(a, n) /\ Holder(a, n) = "rom"
      <4>1. PICK r : r \in RegionsOf(a, n)
        BY <3>2 DEF Accepted
      <4>2. r = "rom" /\ r \in mapped /\ a \in Span[r]
        BY <3>2, <4>1, HolderIs
      <4> QED BY <4>2, Territory DEF Ram
    <3> QED BY <1>2, <3>1, <3>2
  <2>3. MemorySpec!Store(a, v)
    BY <2>1, <2>2 DEF MemorySpec!Store, MemorySpec!Reply, MemorySpec!Refused, Refused, Reply
  <2> QED BY <1>0, <2>1, <2>3 DEF MemorySpec!Next, MemorySpec!Access, Reply
<1> QED BY <1>1, <1>2

\* The bytes that a command may store are not those of ROM, and all of RAM's.
LEMMA StoredBytes ==
    ASSUME TypeOK, NEW x \in 0 .. Top
    PROVE  /\ StoresByte(x) => x < RomStart
           /\ ~StoresByte(x) => x \notin RamAddr
           /\ ~ShowsByte(x) => MemorySpec!Hole(x)
<1>0. x \in Nat /\ RomStart \in Nat /\ x + 1 - 1 = x
  BY RomFacts, TopNat
<1>1. ASSUME NEW r \in mapped, x \in Span[r]
      PROVE  RegionsOf(x, 1) # {} /\ Holder(x, 1) = r
  <2>1. r \in RegionsOf(x, 1)
    BY <1>0, <1>1 DEF RegionsOf
  <2> QED BY <2>1, HolderIs
<1>2. ASSUME StoresByte(x) PROVE x < RomStart
  <2>1. PICK r : r \in RegionsOf(x, 1)
    BY <1>2 DEF StoresByte
  <2>2. r \in mapped /\ x \in Span[r] /\ r # "rom"
    BY <1>2, <2>1, HolderIs DEF StoresByte
  <2>3. ~(x >= RomStart)
    BY <2>2, Territory
  <2> QED BY <1>0, <2>3
<1>3. ASSUME x \in RamAddr PROVE StoresByte(x)
  <2>1. PICK r \in mapped : x \in Span[r] /\ r # "rom"
    BY <1>3 DEF RamAddr, TypeOK, Memories
  <2> QED BY <1>1, <2>1 DEF StoresByte
<1>4. ASSUME ~MemorySpec!Hole(x) PROVE ShowsByte(x)
  <2>1. PICK r \in mapped : x \in Span[r]
    <3>1. x \in RamAddr \/ x \in Span["rom"]
      BY <1>0, <1>4, RomFacts, TopNat DEF MemorySpec!Hole
    <3> QED BY <3>1 DEF RamAddr, TypeOK, Memories
  <2> QED BY <1>1, <2>1 DEF ShowsByte
<1> QED BY <1>2, <1>3, <1>4

LEMMA FillShows ==
    ASSUME TypeOK, NEW a \in Accessed, NEW v \in Files, NEW shown \in Nat,
           shown <= Shown + Len(v), Fill(a, v, shown)
    PROVE  MemorySpec!Next
<1> DEFINE k == Accepts(a, v)
           shows == \A i \in 0 .. shown - 1 : ShowsByte(At(a, i))
<1>0. a \in 0 .. Top /\ a \in Nat /\ v \in Seq(ByteValue) /\ v \in Data \cup Files
  BY InputFacts, TopNat
<1>1. /\ k \in 0 .. Len(v)
      /\ \A i \in 0 .. k - 1 : StoresByte(At(a, i))
      /\ k < Len(v) => ~StoresByte(At(a, k))
  BY <1>0, AcceptsFacts
<1>2. /\ ram' = Put(ram, a, SubSeq(v, 1, k)) /\ UNCHANGED <<rom, overlay>>
      /\ Reply(a, IF k = Len(v) /\ shows THEN v ELSE Refused)
  BY DEF Fill, StoreBytes
<1>3. \A i \in Nat : At(a, i) \in 0 .. Top
  BY <1>0, AtType
<1> HIDE DEF k
<1>4. k \in Nat /\ Len(v) \in Nat
  BY <1>0, <1>1
<1>5. \A i \in 0 .. k - 1 : At(a, i) < RomStart
  BY <1>1, <1>3, <1>4, StoredBytes
<1>6. ram' = MemorySpec!Put(ram, a, SubSeq(v, 1, k))
  BY <1>2, SamePut
<1>7. \/ k = Len(v) /\ Reply(a, v)
      \/ /\ Reply(a, Refused)
         /\ \/ k < Len(v) /\ At(a, k) \notin RamAddr
            \/ k = Len(v) /\ \E i \in 0 .. Shown + Len(v) : MemorySpec!Hole(At(a, i))
  <2>1. CASE k = Len(v) /\ shows
    BY <1>2, <2>1
  <2>2. CASE k < Len(v)
    BY <1>1, <1>2, <1>3, <1>4, <2>2, StoredBytes
  <2>3. CASE k = Len(v) /\ ~shows
    <3>1. PICK i \in 0 .. shown - 1 : ~ShowsByte(At(a, i))
      BY <2>3
    <3>2. i \in Nat /\ i \in 0 .. Shown + Len(v)
      BY <1>4, BusAssumption
    <3>3. MemorySpec!Hole(At(a, i))
      BY <1>3, <3>1, <3>2, StoredBytes
    <3> QED BY <1>2, <2>3, <3>2, <3>3
  <2> HIDE DEF shows
  <2> QED BY <1>1, <1>4, <2>1, <2>2, <2>3
<1>8. MemorySpec!Fill(a, v)
  BY <1>1, <1>2, <1>5, <1>6, <1>7
     DEF MemorySpec!Fill, MemorySpec!Reply, MemorySpec!Refused, MemorySpec!At, At, Refused, Reply
<1>9. reply'.at = a
  BY <1>2 DEF Reply
<1> QED BY <1>0, <1>8, <1>9 DEF MemorySpec!Next, MemorySpec!Access

LEMMA LoadImageShows ==
    ASSUME TypeOK, NEW r \in Memories, NEW a \in Accessed, NEW v \in Files, LoadImage(r, a, v)
    PROVE  MemorySpec!Next \/ UNCHANGED <<ram, rom, overlay, reply>>
<1>0. a \in Nat /\ Len(v) \in Nat /\ v \in Data \cup Files /\ r \in Region /\ r \in mapped
  <2>1. a \in 0 .. Top /\ v \in Seq(0 .. Radix - 1)
    BY BusAssumption
  <2> QED BY <2>1, TopNat DEF TypeOK, Memories, Region
<1>1. UNCHANGED <<overlay, reply>>
  BY DEF LoadImage
<1>2. CASE a \in Span[r] /\ a + Len(v) - 1 \in Span[r]
  <2>1. CASE r = "rom"
    <3>1. a >= RomStart /\ a + Len(v) <= Top + 1
      BY <1>0, <1>2, <2>1, RomFacts, TopNat
    <3>2. rom' = Put(rom, a - RomStart, v) /\ ram' = ram
      BY <1>2, <2>1 DEF LoadImage
    <3>3. MemorySpec!Image(a, v)
      BY <1>1, <3>1, <3>2, SamePut DEF MemorySpec!Image
    <3> QED BY <1>0, <3>3 DEF MemorySpec!Next
  <2>2. CASE r # "rom"
    <3>1. r \in Ram
      BY <2>2 DEF Memories, Ram
    <3>2. ram' = Put(ram, a, v) /\ rom' = rom
      BY <1>2, <2>2 DEF LoadImage
    <3>3. ASSUME NEW i \in 0 .. Len(v) - 1 PROVE a + i \in RamAddr
      <4>1. Len(v) \in Nat \ {0}
        BY <1>0
      <4>2. a + i \in Span[r]
        BY <1>0, <1>2, <4>1, WithinRegion
      <4> QED BY <1>0, <3>1, <4>2, Territory
    <3>4. MemorySpec!Image(a, v)
      BY <1>1, <3>2, <3>3, SamePut DEF MemorySpec!Image
    <3> QED BY <1>0, <3>4 DEF MemorySpec!Next
  <2> QED BY <2>1, <2>2
<1>3. CASE ~(a \in Span[r] /\ a + Len(v) - 1 \in Span[r])
  BY <1>1, <1>3 DEF LoadImage
<1> QED BY <1>2, <1>3

LEMMA StepShows ==
    TypeOK /\ [Next]_vars => [MemorySpec!Next]_<<ram, rom, overlay, reply>>
<1> DEFINE Step == MemorySpec!Next \/ UNCHANGED <<ram, rom, overlay, reply>>
<1> SUFFICES ASSUME TypeOK, [Next]_vars PROVE Step
  OBVIOUS
<1>1. ASSUME NEW a \in Accessed, NEW n \in {1, 2, 4}, Load(a, n) PROVE Step
  BY <1>1, LoadShows
<1>2. ASSUME NEW a \in Accessed, NEW v \in Data, Store(a, v) PROVE Step
  BY <1>2, StoreShows
<1>3. ASSUME NEW a \in Accessed, NEW v \in Files, Patch(a, v) \/ LoadFile(a, v) PROVE Step
  <2>1. Len(v) \in Nat /\ Shown \in Nat
    <3>1. v \in Seq(0 .. Radix - 1)
      BY BusAssumption
    <3> QED BY <3>1, BusAssumption
  <2>2. PICK shown \in Nat : shown <= Shown + Len(v) /\ Fill(a, v, shown)
    <3>1. CASE Patch(a, v)
      <4> DEFINE shown == IF Shown < Len(v) THEN Len(v) ELSE Shown
      <4>1. shown \in Nat /\ shown <= Shown + Len(v)
        BY <2>1
      <4>2. Fill(a, v, shown)
        BY <3>1 DEF Patch
      <4> HIDE DEF shown
      <4> QED BY <4>1, <4>2
    <3>2. CASE LoadFile(a, v)
      <4>1. 0 \in Nat /\ 0 <= Shown + Len(v)
        BY <2>1
      <4> QED BY <3>2, <4>1 DEF LoadFile
    <3> QED BY <1>3, <3>1, <3>2
  <2> QED BY <2>2, FillShows
<1>4. ASSUME NEW a \in Accessed, NEW v \in Files, NEW r \in Memories, LoadImage(r, a, v)
      PROVE  Step
  BY <1>4, LoadImageShows
<1>5. ASSUME NEW on \in BOOLEAN, SetOverlay(on) PROVE Step
  BY <1>5 DEF SetOverlay, MemorySpec!SetOverlay, MemorySpec!Next
<1>6. ASSUME (\E r \in Attached : Map(r)) \/ ResetDevices \/ Pass \/ UNCHANGED vars PROVE Step
  BY <1>6 DEF Map, ResetDevices, Pass, vars, memory
<1> HIDE DEF Step
<1> QED BY <1>1, <1>2, <1>3, <1>4, <1>5, <1>6 DEF Next

\* The machine shows one memory, hidden by ROM where the overlay says: every
\* load, store, patch, file and image is one of the abstract memory, for any
\* map, widths and contents.
THEOREM ShowsOneMemory == Spec => ImplementsMemory
<1>1. TypeOK /\ [Next]_vars => [MemorySpec!Next]_<<ram, rom, overlay, reply>>
  BY StepShows
<1> QED BY <1>1, BusTypeCorrect, PTL DEF Spec, ImplementsMemory, MemorySpec!Spec

-----------------------------------------------------------------------------
(* Sound. *)

ChannelType ==
    [enable : BOOLEAN, gate : BOOLEAN, sr : 0 .. Full, env : 0 .. Full,
     envState : States, releaseStep : 0 .. Full,
     stateBits : [active : BOOLEAN, phase : States]]

\* A held note has its gate on, a fading one has it off and a level left.
FollowsGate(c) ==
    /\ c.envState \in {"attack", "decay", "sustain"} => c.gate
    /\ c.envState = "release" => ~c.gate /\ c.env > 0
    /\ c.envState = "idle" => c.env = 0

Fresh(c) == c.stateBits = [active |-> (c.enable /\ c.env > 0), phase |-> c.envState]

Sane(c) == c \in ChannelType /\ FollowsGate(c) /\ Fresh(c)

\* The fields of a channel, for the provers.
LEMMA Fields ==
    ASSUME NEW c \in ChannelType
    PROVE  /\ c.enable \in BOOLEAN /\ c.gate \in BOOLEAN
           /\ c.sr \in 0 .. Full /\ c.env \in 0 .. Full /\ c.env \in Nat
           /\ c.envState \in States /\ c.releaseStep \in 0 .. Full
BY SoundAssumption DEF ChannelType

\* The status is made fresh and nothing else changes.
LEMMA UpdateSane ==
    ASSUME NEW c \in ChannelType, FollowsGate(c)
    PROVE  Sane(UpdateStateBits(c))
<1> DEFINE bits == [active |-> (c.enable /\ c.env > 0), phase |-> c.envState]
           u == UpdateStateBits(c)
<1>1. bits \in [active : BOOLEAN, phase : States]
  BY Fields
<1>2. u = [c EXCEPT !.stateBits = bits]
  BY DEF UpdateStateBits
<1> HIDE DEF bits
<1>3. u \in ChannelType
  BY <1>1, <1>2, Zenon DEF ChannelType
<1>4. /\ u.enable = c.enable /\ u.gate = c.gate /\ u.env = c.env
      /\ u.envState = c.envState /\ u.stateBits = bits
  BY <1>2 DEF ChannelType
<1>5. FollowsGate(u)
  BY <1>4 DEF FollowsGate
<1>6. Fresh(u)
  BY <1>4 DEF Fresh, bits
<1> QED
  BY <1>3, <1>5, <1>6 DEF Sane

LEMMA NewChannelSane == Sane(NewChannel)
<1>1. NewChannel \in ChannelType
  BY SoundAssumption DEF NewChannel, ChannelType, States
<1>2. FollowsGate(NewChannel)
  BY DEF NewChannel, FollowsGate
<1>3. Fresh(NewChannel)
  BY DEF NewChannel, Fresh
<1> QED
  BY <1>1, <1>2, <1>3 DEF Sane

\* Changes of single fields.
LEMMA LevelledTyped ==
    ASSUME NEW c \in ChannelType, NEW env \in 0 .. Full, NEW d, d = [c EXCEPT !.env = env]
    PROVE  /\ d \in ChannelType
           /\ d.gate = c.gate
           /\ d.env = env
           /\ d.envState = c.envState
BY Zenon DEF ChannelType

LEMMA TurnedTyped ==
    ASSUME NEW c \in ChannelType, NEW state \in States, NEW d, d = [c EXCEPT !.envState = state]
    PROVE  /\ d \in ChannelType
           /\ d.gate = c.gate
           /\ d.env = c.env
           /\ d.envState = state
BY Zenon DEF ChannelType

LEMMA SwitchedTyped ==
    ASSUME NEW c \in ChannelType, NEW e \in BOOLEAN, NEW g \in BOOLEAN
    PROVE  /\ [c EXCEPT !.enable = e, !.gate = g] \in ChannelType
           /\ [c EXCEPT !.enable = e, !.gate = g].gate = g
           /\ [c EXCEPT !.enable = e, !.gate = g].env = c.env
           /\ [c EXCEPT !.enable = e, !.gate = g].envState = c.envState
BY Zenon DEF ChannelType

\* The steps of a release are not longer than the level it starts from.
LEMMA ReleaseStepTyped ==
    ASSUME NEW env \in 0 .. Full, env > 0
    PROVE  ReleaseStepOf(env) \in 0 .. Full
<1>1. env \in Nat /\ ReleaseSamples \in Nat \ {0} /\ Full \in Nat
  BY SoundAssumption
<1>2. env * ReleaseSamples >= env + ReleaseSamples - 1
  <2>1. \A m, n \in Nat \ {0} : m * n >= m + n - 1
    <3> SUFFICES ASSUME NEW m \in Nat \ {0}, NEW n \in Nat \ {0}
                 PROVE  m * n >= m + n - 1
      OBVIOUS
    <3>1. (m - 1) * (n - 1) >= 0
      BY SMT
    <3>2. (m - 1) * (n - 1) = m * n - m - n + 1 /\ m * n \in Nat
      BY SMT
    <3> QED
      BY <3>1, <3>2
  <2> QED
    BY <1>1, <2>1
<1>3. ReleaseStepOf(env) \in Nat /\ ReleaseStepOf(env) <= env
  BY <1>1, <1>2, SMT DEF ReleaseStepOf
<1> QED
  BY <1>1, <1>3

LEMMA SilencedSane ==
    ASSUME NEW c \in ChannelType
    PROVE  Sane(Silenced(c))
<1> DEFINE d == [c EXCEPT !.env = 0, !.envState = "idle"]
<1>1. 0 \in 0 .. Full /\ "idle" \in States
  BY SoundAssumption DEF States
<1>2. d = [c EXCEPT !.env = 0, !.envState = "idle"]
  OBVIOUS
<1>5. Silenced(c) = UpdateStateBits(d)
  BY DEF Silenced
<1> HIDE DEF d
<1>3. d \in ChannelType /\ d.env = 0 /\ d.envState = "idle"
  BY <1>1, <1>2, Zenon DEF ChannelType
<1>4. FollowsGate(d)
  BY <1>3 DEF FollowsGate
<1> QED
  BY <1>3, <1>4, <1>5, UpdateSane

\* A sample: a channel that is off is silenced, a held note goes on towards its
\* sustain level, a fading one towards silence, where it is idle.
LEMMA StepSane ==
    ASSUME NEW c, Sane(c)
    PROVE  Sane(StepEnvelope(c))
<1>1. c \in ChannelType /\ FollowsGate(c)
  BY DEF Sane
<1>2. /\ c.sr \in 0 .. Full /\ c.env \in 0 .. Full /\ c.releaseStep \in 0 .. Full
      /\ c.envState \in States
      /\ Full \in Nat /\ AttackStep \in Nat \ {0} /\ DecayStep \in Nat \ {0}
  BY <1>1, Fields, SoundAssumption
<1>3. {"idle", "attack", "decay", "sustain", "release"} \subseteq States /\ 0 \in 0 .. Full
      /\ Full \in 0 .. Full
  BY <1>2 DEF States
<1> DEFINE next ==
      CASE c.envState = "attack" -> Attacked(c)
        [] c.envState = "decay" -> Decayed(c)
        [] c.envState = "sustain" -> [c EXCEPT !.env = c.sr]
        [] c.envState = "release" -> Released(c)
        [] OTHER -> c
<1>11.
      /\ c.envState = "attack" => next = Attacked(c)
      /\ c.envState = "decay" => next = Decayed(c)
      /\ c.envState = "sustain" => next = [c EXCEPT !.env = c.sr]
      /\ c.envState = "release" => next = Released(c)
      /\ c.envState = "idle" => next = c
      /\ c.enable => StepEnvelope(c) = UpdateStateBits(next)
  BY DEF StepEnvelope
<1> HIDE DEF next
<1>4. ASSUME c.envState = "attack" PROVE next \in ChannelType /\ FollowsGate(next)
  <2>1. next = Attacked(c) /\ c.gate
    <3>1. next = Attacked(c)
      BY <1>4, <1>11, Zenon
    <3>2. c.gate
      BY <1>1, <1>4 DEF FollowsGate
    <3> QED
      BY <3>1, <3>2
  <2>2. CASE c.env + AttackStep >= Full
    <3>1. next = [c EXCEPT !.env = Full, !.envState = "decay"]
      BY <2>1, <2>2 DEF Attacked
    <3>3. Full \in 0 .. Full /\ "decay" \in States
      BY <1>3
    <3>2. next \in ChannelType /\ next.gate = c.gate /\ next.envState = "decay"
      BY <1>1, <3>1, <3>3, Zenon DEF ChannelType
    <3> QED
      BY <2>1, <3>2 DEF FollowsGate
  <2>3. CASE ~(c.env + AttackStep >= Full)
    <3>1. next = [c EXCEPT !.env = c.env + AttackStep] /\ c.env + AttackStep \in 0 .. Full
      BY <1>2, <2>1, <2>3 DEF Attacked
    <3>2. next \in ChannelType /\ next.gate = c.gate /\ next.envState = "attack"
      BY <1>1, <1>4, <3>1, LevelledTyped
    <3> QED
      BY <2>1, <3>2 DEF FollowsGate
  <2> QED
    BY <2>2, <2>3
<1>5. ASSUME c.envState = "decay" PROVE next \in ChannelType /\ FollowsGate(next)
  <2>1. next = Decayed(c) /\ c.gate
    <3>1. next = Decayed(c)
      BY <1>5, <1>11, Zenon
    <3>2. c.gate
      BY <1>1, <1>5 DEF FollowsGate
    <3> QED
      BY <3>1, <3>2
  <2>2. CASE c.env <= c.sr + DecayStep
    <3>1. next = [c EXCEPT !.env = c.sr, !.envState = "sustain"]
      BY <2>1, <2>2 DEF Decayed
    <3>3. c.sr \in 0 .. Full /\ "sustain" \in States
      BY <1>2, <1>3
    <3>2. next \in ChannelType /\ next.gate = c.gate /\ next.envState = "sustain"
      BY <1>1, <3>1, <3>3, Zenon DEF ChannelType
    <3> QED
      BY <2>1, <3>2 DEF FollowsGate
  <2>3. CASE ~(c.env <= c.sr + DecayStep)
    <3>1. next = [c EXCEPT !.env = c.env - DecayStep] /\ c.env - DecayStep \in 0 .. Full
      BY <1>2, <2>1, <2>3 DEF Decayed
    <3>2. next \in ChannelType /\ next.gate = c.gate /\ next.envState = "decay"
      BY <1>1, <1>5, <3>1, LevelledTyped
    <3> QED
      BY <2>1, <3>2 DEF FollowsGate
  <2> QED
    BY <2>2, <2>3
<1>6. ASSUME c.envState = "sustain" PROVE next \in ChannelType /\ FollowsGate(next)
  <2>1. next = [c EXCEPT !.env = c.sr] /\ c.gate
    <3>1. next = [c EXCEPT !.env = c.sr]
      BY <1>6, <1>11, Zenon
    <3>2. c.gate
      BY <1>1, <1>6 DEF FollowsGate
    <3> QED
      BY <3>1, <3>2
  <2>2. next \in ChannelType /\ next.gate = c.gate /\ next.envState = "sustain"
    BY <1>1, <1>2, <1>6, <2>1, LevelledTyped
  <2> QED
    BY <2>1, <2>2 DEF FollowsGate
<1>7. ASSUME c.envState = "release" PROVE next \in ChannelType /\ FollowsGate(next)
  <2>1. next = Released(c) /\ ~c.gate
    <3>1. next = Released(c)
      BY <1>7, <1>11, Zenon
    <3>2. ~c.gate
      BY <1>1, <1>7 DEF FollowsGate
    <3> QED
      BY <3>1, <3>2
  <2>2. CASE c.env <= c.releaseStep
    <3>1. next = [c EXCEPT !.env = 0, !.envState = "idle"]
      BY <2>1, <2>2 DEF Released
    <3>2. next \in ChannelType /\ next.env = 0 /\ next.envState = "idle"
      BY <1>1, <1>3, <3>1, Zenon DEF ChannelType
    <3> QED
      BY <3>2 DEF FollowsGate
  <2>3. CASE ~(c.env <= c.releaseStep)
    <3> DEFINE left == c.env - c.releaseStep
    <3>1. next = [c EXCEPT !.env = left] /\ left \in 0 .. Full /\ left > 0
      BY <1>2, <2>1, <2>3 DEF Released
    <3> HIDE DEF left
    <3>2. next \in ChannelType /\ next.gate = c.gate /\ next.env = left
          /\ next.envState = "release"
      BY <1>1, <1>7, <3>1, LevelledTyped
    <3> QED
      BY <2>1, <3>1, <3>2 DEF FollowsGate
  <2> QED
    BY <2>2, <2>3
<1>8. ASSUME c.envState = "idle" PROVE next \in ChannelType /\ FollowsGate(next)
  BY <1>1, <1>8, <1>11
<1>9. next \in ChannelType /\ FollowsGate(next)
  BY <1>2, <1>4, <1>5, <1>6, <1>7, <1>8 DEF States
<1>10. CASE c.enable
  BY <1>9, <1>10, <1>11, UpdateSane
<1>12. CASE ~c.enable
  BY <1>1, <1>12, SilencedSane DEF StepEnvelope
<1> QED
  BY <1>10, <1>12

\* A control word: only the edges of the gate turn the envelope.
LEMMA WriteSane ==
    ASSUME NEW b, Sane(b), NEW e \in BOOLEAN, NEW g \in BOOLEAN
    PROVE  Sane(UpdateStateBits(HandleGateWrite([b EXCEPT !.enable = e, !.gate = g], b.gate)))
<1> DEFINE c == [b EXCEPT !.enable = e, !.gate = g]
           h == HandleGateWrite(c, b.gate)
<1>1. b \in ChannelType /\ FollowsGate(b)
  BY DEF Sane
<1>2. c \in ChannelType /\ c.gate = g /\ c.env = b.env /\ c.envState = b.envState
  BY <1>1, SwitchedTyped
<1>3. b.gate \in BOOLEAN /\ c.env \in 0 .. Full /\ c.env \in Nat
  BY <1>1, <1>2, Fields
<1>4. {"idle", "attack", "release"} \subseteq States /\ 0 \in 0 .. Full
  BY SoundAssumption DEF States
<1> HIDE DEF c
<1>5. CASE g = b.gate
  <2>1. h = c
    BY <1>2, <1>5 DEF HandleGateWrite
  <2>2. FollowsGate(c)
    BY <1>1, <1>2, <1>5 DEF FollowsGate
  <2> QED
    BY <1>2, <2>1, <2>2, UpdateSane DEF c
<1>6. CASE g /\ ~b.gate
  <2> DEFINE d == [c EXCEPT !.envState = "attack"]
  <2>1. d \in ChannelType /\ d.gate = g /\ d.envState = "attack"
    BY <1>2, <1>4, TurnedTyped
  <2>2. FollowsGate(d)
    BY <1>6, <2>1 DEF FollowsGate
  <2>3. h = UpdateStateBits(d)
    BY <1>2, <1>3, <1>6 DEF HandleGateWrite
  <2> HIDE DEF d
  <2>4. Sane(UpdateStateBits(d))
    BY <2>1, <2>2, UpdateSane
  <2> QED
    BY <2>3, <2>4, UpdateSane DEF Sane, c
<1>7. CASE ~g /\ b.gate /\ c.env > 0
  <2> DEFINE step == ReleaseStepOf(c.env)
             d == [c EXCEPT !.envState = "release", !.releaseStep = step]
  <2>1. step \in 0 .. Full
    BY <1>3, <1>7, ReleaseStepTyped
  <2>2. h = UpdateStateBits(d)
    BY <1>2, <1>3, <1>7 DEF HandleGateWrite
  <2> HIDE DEF step
  <2>6. d = [c EXCEPT !.envState = "release", !.releaseStep = step] /\ "release" \in States
    BY <1>4
  <2> HIDE DEF d
  <2>3. d \in ChannelType /\ d.gate = g /\ d.env = c.env /\ d.envState = "release"
    BY <1>2, <2>1, <2>6, Zenon DEF ChannelType
  <2>4. FollowsGate(d)
    BY <1>7, <2>3 DEF FollowsGate
  <2>5. Sane(UpdateStateBits(d))
    BY <2>3, <2>4, UpdateSane
  <2> QED
    BY <2>2, <2>5, UpdateSane DEF Sane, c
<1>8. CASE ~g /\ b.gate /\ ~(c.env > 0)
  <2> DEFINE d == [c EXCEPT !.env = 0, !.envState = "idle"]
  <2>3. h = UpdateStateBits(d)
    BY <1>2, <1>3, <1>8 DEF HandleGateWrite
  <2>5. d = [c EXCEPT !.env = 0, !.envState = "idle"] /\ "idle" \in States
    BY <1>4
  <2> HIDE DEF d
  <2>1. d \in ChannelType /\ d.env = 0 /\ d.envState = "idle"
    BY <1>2, <1>4, <2>5, Zenon DEF ChannelType
  <2>2. FollowsGate(d)
    BY <2>1 DEF FollowsGate
  <2>4. Sane(UpdateStateBits(d))
    BY <2>1, <2>2, UpdateSane
  <2> QED
    BY <2>3, <2>4, UpdateSane DEF Sane, c
<1> QED
  BY <1>3, <1>5, <1>6, <1>7, <1>8

LEMMA LevelSane ==
    ASSUME NEW c, Sane(c), NEW level \in 0 .. Full
    PROVE  Sane([c EXCEPT !.sr = level])
<1> DEFINE d == [c EXCEPT !.sr = level]
<1>1. c \in ChannelType
  BY DEF Sane
<1>2. d \in ChannelType
  BY <1>1, Zenon DEF ChannelType
<1>3. /\ d.enable = c.enable /\ d.gate = c.gate /\ d.env = c.env
      /\ d.envState = c.envState /\ d.stateBits = c.stateBits
  BY <1>1 DEF ChannelType
<1>4. FollowsGate(d)
  BY <1>3 DEF Sane, FollowsGate
<1>5. Fresh(d)
  BY <1>3 DEF Sane, Fresh
<1> QED
  BY <1>2, <1>4, <1>5 DEF Sane

-------------------------------------------------------------------------------
(* The device. *)

\* What an advance leaves over is less than a sample.
LEMMA RestTyped ==
    ASSUME NEW total \in Nat, NEW unit \in Nat \ {0}
    PROVE  Rest(total, unit) \in 0 .. unit - 1 /\ (total \div unit) \in Nat
BY SMT DEF Rest

SoundInvariant ==
    /\ channel \in [Channel -> ChannelType] /\ \A i \in Channel : Sane(channel[i])
    /\ index \in Channel
    /\ enabled \in BOOLEAN /\ muted \in BOOLEAN
    /\ accumulator \in 0 .. BaseHz - 1 /\ fraction \in 0 .. Parts - 1
    /\ due \in Nat

LEMMA SoundInitially == SoundInit => SoundInvariant
<1> SUFFICES ASSUME SoundInit PROVE SoundInvariant
  OBVIOUS
<1>1. \A i \in Channel : Sane(channel[i])
  BY NewChannelSane DEF SoundInit
<1>2. channel \in [Channel -> ChannelType]
  BY <1>1 DEF SoundInit, Sane
<1>3. index \in Channel /\ accumulator \in 0 .. BaseHz - 1 /\ fraction \in 0 .. Parts - 1
  BY SoundAssumption DEF SoundInit, Channel
<1> QED
  BY <1>1, <1>2, <1>3 DEF SoundInit, SoundInvariant

LEMMA SoundKept == SoundInvariant /\ [SoundNext]_soundVars => SoundInvariant'
<1> SUFFICES ASSUME SoundInvariant, [SoundNext]_soundVars PROVE SoundInvariant'
  OBVIOUS
<1> USE DEF SoundInvariant
<1>1. ASSUME NEW i \in Channel, NEW c, Sane(c), channel' = [channel EXCEPT ![i] = c]
      PROVE  channel' \in [Channel -> ChannelType] /\ \A j \in Channel : Sane(channel'[j])
  BY <1>1 DEF Sane
<1>2. ASSUME NEW e \in BOOLEAN, NEW g \in BOOLEAN, WriteCtrl(e, g) PROVE SoundInvariant'
  <2> DEFINE c == UpdateStateBits(HandleGateWrite(
                     [channel[index] EXCEPT !.enable = e, !.gate = g], channel[index].gate))
  <2>1. channel' = [channel EXCEPT ![index] = c] /\ UNCHANGED <<registers, clock, due>>
    BY <1>2 DEF WriteCtrl
  <2>2. Sane(c)
    BY WriteSane
  <2> HIDE DEF c
  <2> QED
    BY <1>1, <2>1, <2>2 DEF registers, clock
<1>3. ASSUME NEW l \in Sustains, WriteSr(l) PROVE SoundInvariant'
  <2> DEFINE c == [channel[index] EXCEPT !.sr = l]
  <2>1. channel' = [channel EXCEPT ![index] = c] /\ UNCHANGED <<registers, clock, due>>
    BY <1>3 DEF WriteSr
  <2>2. Sane(c)
    BY LevelSane, SoundAssumption
  <2> HIDE DEF c
  <2> QED
    BY <1>1, <2>1, <2>2 DEF registers, clock
<1>4. ASSUME NEW i \in Channel, SelectChannel(i) PROVE SoundInvariant'
  BY <1>4 DEF SelectChannel, clock
<1>5. ASSUME NEW e \in BOOLEAN, NEW m \in BOOLEAN, WriteGlobal(e, m) PROVE SoundInvariant'
  BY <1>5 DEF WriteGlobal, clock
<1>6. ASSUME NEW e \in BOOLEAN, NEW m \in BOOLEAN, Reset(e, m) PROVE SoundInvariant'
  <2>1. channel' = [i \in Channel |-> NewChannel]
    BY <1>6 DEF Reset
  <2>2. channel' \in [Channel -> ChannelType] /\ \A i \in Channel : Sane(channel'[i])
    BY <2>1, NewChannelSane DEF Sane
  <2> QED
    BY <1>6, <2>2, SoundAssumption DEF Reset, Channel
<1>7. ASSUME GenerateSample PROVE SoundInvariant'
  <2>1. /\ due' \in Nat
        /\ channel' = IF Mixing THEN [i \in Channel |-> StepEnvelope(channel[i])] ELSE channel
        /\ UNCHANGED <<registers, clock>>
    BY <1>7 DEF GenerateSample
  <2>2. channel' \in [Channel -> ChannelType] /\ \A i \in Channel : Sane(channel'[i])
    BY <2>1, StepSane DEF Sane
  <2> QED
    BY <2>1, <2>2 DEF registers, clock
<1>8. ASSUME NEW n \in Cycles, Advance(n) PROVE SoundInvariant'
  <2> DEFINE total == accumulator + n * SampleRate
  <2>1. n \in Nat /\ SampleRate \in Nat /\ BaseHz \in Nat \ {0}
    BY SoundAssumption
  <2>2. n * SampleRate \in Nat
    BY <2>1
  <2>3. total \in Nat
    BY <2>1, <2>2
  <2>4. /\ due' = total \div BaseHz /\ accumulator' = Rest(total, BaseHz)
        /\ UNCHANGED <<channel, registers, fraction>>
    BY <1>8 DEF Advance
  <2> HIDE DEF total
  <2>5. due' \in Nat /\ accumulator' \in 0 .. BaseHz - 1
    BY <2>1, <2>3, <2>4, RestTyped
  <2> QED
    BY <2>4, <2>5 DEF registers
<1>9. ASSUME NEW p \in Intervals, AdvanceTime(p) PROVE SoundInvariant'
  <2> DEFINE total == fraction + p
  <2>1. total \in Nat /\ Parts \in Nat \ {0}
    BY SoundAssumption
  <2>2. /\ due' = total \div Parts /\ fraction' = Rest(total, Parts)
        /\ UNCHANGED <<channel, registers, accumulator>>
    BY <1>9 DEF AdvanceTime
  <2> HIDE DEF total
  <2>3. due' \in Nat /\ fraction' \in 0 .. Parts - 1
    BY <2>1, <2>2, RestTyped
  <2> QED
    BY <2>2, <2>3 DEF registers
<1>10. CASE UNCHANGED soundVars
  BY <1>10 DEF soundVars, registers, clock
<1> QED
  BY <1>2, <1>3, <1>4, <1>5, <1>6, <1>7, <1>8, <1>9, <1>10 DEF SoundNext, Time

LEMMA SoundAlways == SoundSpec => []SoundInvariant
BY SoundInitially, SoundKept, PTL DEF SoundSpec

\* Levels stay within bounds and less than a sample is left over, for every
\* number of channels, every sample rate and every way to advance.
THEOREM SoundTypeCorrect == SoundSpec => []SoundTypeOK
<1>1. SoundInvariant => SoundTypeOK
  BY DEF SoundInvariant, SoundTypeOK, ChannelType
<1> QED
  BY <1>1, SoundAlways, PTL

\* Notes follow their gates, whatever is stored between samples.
THEOREM GatesRule == SoundSpec => []NotesFollowGates
<1>1. SoundInvariant => NotesFollowGates
  BY DEF SoundInvariant, NotesFollowGates, Sane, FollowsGate
<1> QED
  BY <1>1, SoundAlways, PTL

\* The status word agrees with the envelope of every channel.
THEOREM StatusAgrees == SoundSpec => []StatusFresh
<1>1. ASSUME NEW c \in ChannelType, Fresh(c)
      PROVE  c.stateBits = UpdateStateBits(c).stateBits
  BY <1>1 DEF UpdateStateBits, Fresh, ChannelType
<1>2. SoundInvariant => StatusFresh
  BY <1>1 DEF SoundInvariant, StatusFresh, Sane
<1> QED
  BY <1>2, SoundAlways, PTL

=============================================================================
