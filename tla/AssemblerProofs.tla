---------------------------- MODULE AssemblerProofs ----------------------------
(* Proofs for Assembler: its types, that the two passes agree, and that the   *)
(* references of a loaded program go to their labels.                         *)
(*                                                                            *)
(* The second pass recomputes every address, so that nothing but the argument *)
(* below makes it come to a line where the first pass did: an instruction has *)
(* the same size whatever its operand is taken for, and a symbol, once        *)
(* defined, keeps its value, so that an org of an anchored source means the   *)
(* same in both passes.                                                       *)
EXTENDS Assembler, WellFoundedInduction, TLAPS

LEMMA ForwardTyped ==
    ASSUME NEW at \in Addr, NEW n \in Nat
    PROVE  Forward(at, n) \in Addr
BY AssemblerAssumption, SMT DEF Forward, Addr

LEMMA DistanceTyped ==
    ASSUME NEW at \in Addr, NEW t \in Int
    PROVE  Distance(at, t) \in Int
BY AssemblerAssumption, SMT DEF Distance, Addr

LEMMA FieldsTyped ==
    ASSUME NEW v \in Int
    PROVE  /\ Low(v) \in Nat
           /\ v \in Nat => High(v) \in Nat
           /\ v % (2 * Short) \in Nat
BY AssemblerAssumption, SMT DEF Low, High

\* What an operand refers to is an address, unless it is refused.
LEMMA TargetTyped ==
    ASSUME TypeOK, NEW e \in Lines, NEW at \in Addr
    PROVE  /\ AddressLiteral(e) \in Addr \cup {Fail}
           /\ Immediate(e) \in Addr \cup {Fail}
           /\ Target(e, at) \in Addr \cup {Fail}
<1>1. e \in Entry /\ 0 \in Addr
  BY AssemblerAssumption DEF Addr
<1>2. /\ e.name \in Names \cup {NoName} /\ e.value \in Addr
  BY <1>1 DEF Entry
<1>3. /\ \A n \in DOMAIN symbols : symbols[n] \in Addr
      /\ \A n \in DOMAIN Reading : Reading[n] \in Addr
  BY AssemblerAssumption DEF TypeOK
<1>4. AddressLiteral(e) \in Addr \cup {Fail} /\ Immediate(e) \in Addr \cup {Fail}
  <2>1. Atom(e.name) \in Addr \cup {Fail}
    BY <1>3 DEF Atom, Known, Reads
  <2>2. e.value \in Nat
    BY <1>2, AssemblerAssumption DEF Addr
  <2>3. Expression(e) \in Addr \cup {Fail}
    <3>1. CASE e.sum /\ Atom(e.name) # Fail
      BY <2>1, <2>2, <3>1, ForwardTyped DEF Expression
    <3>2. CASE ~(e.sum /\ Atom(e.name) # Fail)
      BY <2>1, <3>2 DEF Expression
    <3> QED BY <3>1, <3>2
  <2> QED BY <1>2, <1>3, <2>3 DEF AddressLiteral, Immediate, Reads
<1> QED
  BY <1>1, <1>2, <1>3, <1>4 DEF Target, Known

\* An instruction of a source takes the words of its kind, wherever it is and
\* whatever its operand refers to; only a jump to a number looks at the number,
\* which is the same in both passes.
LEMMA EncodeSized ==
    ASSUME NEW e \in Entry, e.kind \in Instructions, NEW at \in Addr
    PROVE  /\ mode # "session" => Len(Encode(e, at)) = Size(e)
           /\ Len(Encode(e, at)) \in Nat
<1>1. \A x, y, z : Len(<<x>>) = 1 /\ Len(<<x, y>>) = 2 /\ Len(<<x, y, z>>) = 3
  OBVIOUS
<1>2. CASE e.kind \in {"bra", "lea"}
  BY <1>1, <1>2 DEF Encode, Size, ShortAbsolute
<1>3. CASE e.kind = "bras"
  BY <1>1, <1>3 DEF Encode, Size, ShortAbsolute
<1>4. CASE e.kind = "imm"
  BY <1>1, <1>4 DEF Encode, Size
<1>5. CASE e.kind = "long"
  BY <1>1, <1>5 DEF Encode, Size, ShortAbsolute
<1>6. CASE e.kind = "jmp"
  <2> DEFINE t == Target(e, at)
  <2>1. mode # "session" /\ e.name = NoName => t = e.value
    BY <1>6 DEF Target
  <2>2. CASE ShortAbsolute(e, t)
    <3>1. Len(Encode(e, at)) = 2
      BY <1>1, <1>6, <2>2 DEF Encode
    <3>2. mode # "session" => Size(e) = 2
      BY <1>6, <2>1, <2>2 DEF Size, ShortAbsolute
    <3> QED BY <3>1, <3>2
  <2>3. CASE ~ShortAbsolute(e, t)
    <3>1. Len(Encode(e, at)) = 3
      BY <1>1, <1>6, <2>3 DEF Encode
    <3>2. mode # "session" => Size(e) = 3
      BY <1>6, <2>1, <2>3 DEF Size, ShortAbsolute
    <3> QED BY <3>1, <3>2
  <2> QED BY <2>2, <2>3
<1>7. CASE e.kind \in {"plain", "bad"}
  BY <1>1, <1>7 DEF Encode, Size, ShortAbsolute
<1> QED
  BY <1>2, <1>3, <1>4, <1>5, <1>6, <1>7 DEF Instructions, References

LEMMA EncodeTyped ==
    ASSUME TypeOK, NEW e \in Lines, e.kind \in Instructions, NEW at \in Addr,
           ~Refuses(e, at)
    PROVE  Encode(e, at) \in Seq(Word)
<1> DEFINE t == Target(e, at)
           d == Distance(at, t)
<1>1. t \in Addr
  BY TargetTyped DEF Refuses
<1>2. t \in Nat /\ t \in Int
  BY <1>1, AssemblerAssumption DEF Addr
<1>3. d \in Int
  BY <1>2, DistanceTyped
<1>4. Low(d) \in Nat /\ d % (2 * Short) \in Nat
  BY <1>3, FieldsTyped
<1>5. Low(t) \in Nat /\ High(t) \in Nat
  BY <1>2, FieldsTyped
<1>6. \A v \in Nat : Op(e.kind, v) \in Word /\ Field(v) \in Word
  BY DEF Op, Field, Word
<1>7. /\ Op(e.kind, 0) \in Word /\ Op(e.kind, 1) \in Word
      /\ Op(e.kind, d % (2 * Short)) \in Word
      /\ Field(Low(d)) \in Word /\ Field(Low(t)) \in Word /\ Field(High(t)) \in Word
  BY <1>4, <1>5, <1>6
<1> HIDE DEF t, d
<1>8. \A x, y, z \in Word : /\ <<x>> \in Seq(Word)
                           /\ <<x, y>> \in Seq(Word)
                           /\ <<x, y, z>> \in Seq(Word)
  OBVIOUS
<1>9. /\ <<Op(e.kind, 0), Field(Low(d))>> \in Seq(Word)
      /\ <<Op(e.kind, d % (2 * Short))>> \in Seq(Word)
      /\ <<Op(e.kind, 0), Field(Low(t))>> \in Seq(Word)
      /\ <<Op(e.kind, 1), Field(Low(t))>> \in Seq(Word)
      /\ <<Op(e.kind, 0), Field(High(t)), Field(Low(t))>> \in Seq(Word)
      /\ <<Op(e.kind, 0)>> \in Seq(Word)
  BY <1>7, <1>8
<1> QED
  BY <1>9 DEF Encode, t, d

\* Stores replace words by words.
LEMMA StoredTyped ==
    ASSUME memory \in [Addr -> Word], NEW a \in Addr, NEW words \in Seq(Word)
    PROVE  Stored(a, words) \in [Addr -> Word]
<1>1. ASSUME NEW x \in Addr
      PROVE  1 + ((x - a) % (Top + 1)) \in Nat \ {0}
  BY AssemblerAssumption, SMT DEF Addr
<1>2. \A k \in Nat \ {0} : k <= Len(words) => words[k] \in Word
  OBVIOUS
<1> QED
  BY <1>1, <1>2 DEF Stored

-------------------------------------------------------------------------------
(* Types. *)

LEMMA InitTyped == Init => TypeOK
<1> SUFFICES ASSUME Init PROVE TypeOK
  OBVIOUS
<1>1. Blank \in Word /\ 0 \in Addr
  BY AssemblerAssumption DEF Blank, Word, Addr
<1>2. source \in Seq(Lines) /\ output \in Seq(Word) /\ pos \in Nat
  BY DEF Init
<1>3. address \in [DOMAIN source -> Addr]
  BY DEF Init
<1>4. DOMAIN symbols \subseteq Names /\ \A n \in DOMAIN symbols : symbols[n] \in Addr
  BY DEF Init, NoSymbols
<1> QED
  BY <1>1, <1>2, <1>3, <1>4 DEF Init, TypeOK

\* Reached is one of the entries, and an entry of a source.
LEMMA ReachedTyped ==
    ASSUME TypeOK, pos <= Len(source)
    PROVE  /\ pos \in DOMAIN source
           /\ Reached \in Lines /\ Reached \in Entry
BY AssemblerAssumption DEF TypeOK, Reached

\* A symbol keeps an address, whatever is defined next to it.
LEMMA DefineTyped ==
    ASSUME TypeOK, NEW n \in Names, NEW v \in Addr, Define(n, v)
    PROVE  /\ DOMAIN symbols' \subseteq Names
           /\ \A m \in DOMAIN symbols' : symbols'[m] \in Addr
BY DEF Define, TypeOK

LEMMA NoSymbolsTyped ==
    symbols' = NoSymbols => /\ DOMAIN symbols' \subseteq Names
                            /\ \A m \in DOMAIN symbols' : symbols'[m] \in Addr
BY DEF NoSymbols

LEMMA StepTyped ==
    TypeOK /\ [Next]_vars => TypeOK'
<1> SUFFICES ASSUME TypeOK, [Next]_vars PROVE TypeOK'
  OBVIOUS
<1> USE DEF TypeOK
<1>1. ASSUME NEW a \in Starts, StartSession(a) PROVE TypeOK'
  BY <1>1, AssemblerAssumption DEF StartSession
<1>2. ASSUME NEW n \in 1 .. MaxLines, NEW a \in Starts, NEW text \in [1 .. n -> Lines],
             LoadAsm(text, a)
      PROVE  TypeOK'
  <2>1. text \in Seq(Lines) /\ 0 \in Addr /\ a \in Addr
    BY AssemblerAssumption DEF Addr
  <2>2. output' \in Seq(Word) /\ address' \in [DOMAIN source' -> Addr]
    BY <1>2, <2>1 DEF LoadAsm
  <2> QED
    BY <1>2, <2>1, <2>2, NoSymbolsTyped DEF LoadAsm
<1>3. Refuse => TypeOK'
  BY NoSymbolsTyped DEF Refuse
<1>4. pos <= Len(source) /\ Note => address' \in [DOMAIN source -> Addr]
  BY ReachedTyped DEF Note
<1>5. ASSUME Org PROVE TypeOK'
  <2>1. /\ pos <= Len(source)
        /\ AddressLiteral(Reached) \in Addr \cup {Fail}
    BY <1>5, ReachedTyped, TargetTyped, AssemblerAssumption DEF Org
  <2>2. CASE AddressLiteral(Reached) = Fail
    BY <1>5, <2>2, <1>3 DEF Org
  <2>3. CASE AddressLiteral(Reached) # Fail
    BY <1>5, <2>1, <2>3, <1>4 DEF Org, Step
  <2> QED
    BY <2>2, <2>3
<1>6. ASSUME Equ PROVE TypeOK'
  <2>1. /\ pos <= Len(source) /\ Reached \in Lines
        /\ Reached.label \in Names
        /\ Immediate(Reached) \in Addr \cup {Fail}
    BY <1>6, ReachedTyped, TargetTyped, AssemblerAssumption DEF Equ, Walks, Entry
  <2>2. CASE Known(Reached.label) \/ Immediate(Reached) = Fail
    BY <1>6, <2>2, <1>3 DEF Equ
  <2>3. CASE ~(Known(Reached.label) \/ Immediate(Reached) = Fail)
    BY <1>6, <2>1, <2>3, <1>4, DefineTyped DEF Equ, Step
  <2> QED
    BY <2>2, <2>3
<1>7. ASSUME Label PROVE TypeOK'
  <2>1. /\ pos <= Len(source) /\ Reached \in Lines
        /\ Reached.label \in Names
    BY <1>7, ReachedTyped, AssemblerAssumption DEF Label, Walks, Entry
  <2>2. CASE Known(Reached.label)
    BY <1>7, <2>2, <1>3 DEF Label
  <2>3. CASE ~Known(Reached.label)
    BY <1>7, <2>1, <2>3, <1>4, DefineTyped DEF Label, Step
  <2> QED
    BY <2>2, <2>3
<1>8. ASSUME pos <= Len(source), Reached.kind \in Instructions
      PROVE  Forward(pc, Len(Encode(Reached, pc))) \in Addr
  BY <1>8, ReachedTyped, EncodeSized, ForwardTyped
<1>9. ASSUME Measure PROVE TypeOK'
  <2>1. CASE Refuses(Reached, pc)
    BY <1>9, <2>1, <1>3 DEF Measure
  <2>2. CASE ~Refuses(Reached, pc)
    BY <1>9, <2>2, <1>4, <1>8 DEF Measure, Walks, Step
  <2> QED
    BY <2>1, <2>2
<1>10. ASSUME EndFirstPass PROVE TypeOK'
  BY <1>10 DEF EndFirstPass
<1>11. ASSUME Skip PROVE TypeOK'
  BY <1>11 DEF Skip, Step
<1>12. ASSUME Emit PROVE TypeOK'
  <2>1. CASE Refuses(Reached, pc)
    BY <1>12, <2>1, <1>3 DEF Emit
  <2>2. CASE ~Refuses(Reached, pc)
    <3>1. output \o Encode(Reached, pc) \in Seq(Word)
      BY <1>12, <2>2, ReachedTyped, EncodeTyped DEF Emit, Walks
    <3>2. /\ output' = output \o Encode(Reached, pc)
          /\ pc' = Forward(pc, Len(Encode(Reached, pc)))
          /\ Step /\ UNCHANGED <<base, symbols, address>>
      BY <1>12, <2>2 DEF Emit
    <3>3. pc' \in Addr
      BY <1>12, <3>2, <1>8 DEF Emit, Walks
    <3> QED
      BY <3>1, <3>2, <3>3 DEF Step
  <2> QED
    BY <2>1, <2>2
<1>13. ASSUME Store PROVE TypeOK'
  BY <1>13, StoredTyped, NoSymbolsTyped DEF Store
<1>14. ASSUME NEW e \in Lines, SessionLine(e) PROVE TypeOK'
  <2>1. CASE Refuses(e, pc)
    BY <1>14, <2>1 DEF SessionLine
  <2>2. CASE ~Refuses(e, pc)
    <3>1. Encode(e, pc) \in Seq(Word)
      BY <1>14, <2>2, EncodeTyped DEF SessionLine
    <3>2. Stored(pc, Encode(e, pc)) \in [Addr -> Word]
      BY <3>1, StoredTyped
    <3>3. Forward(pc, Len(Encode(e, pc))) \in Addr
      BY <1>14, EncodeSized, ForwardTyped, AssemblerAssumption DEF SessionLine
    <3> QED
      BY <1>14, <2>2, <3>2, <3>3 DEF SessionLine
  <2> QED
    BY <2>1, <2>2
<1>15. ASSUME EndSession PROVE TypeOK'
  BY <1>15 DEF EndSession, passes
<1>16. CASE UNCHANGED vars
  BY <1>16 DEF vars
<1> QED
  BY <1>1, <1>2, <1>5, <1>6, <1>7, <1>9, <1>10, <1>11, <1>12, <1>13, <1>14, <1>15, <1>16
  DEF Next, FirstPass, SecondPass

\* Whatever the source, the variables of the assembler keep their types.
THEOREM TypeCorrect == Spec => []TypeOK
BY InitTyped, StepTyped, PTL DEF Spec

-------------------------------------------------------------------------------
(* The passes agree. *)

\* Where the address goes after the k-th entry.
After(k) ==
    IF source[k].kind = "org" THEN AddressLiteral(source[k])
    ELSE IF source[k].kind \in Instructions THEN Forward(address[k], Size(source[k]))
    ELSE address[k]

\* An entry the first pass has left: an org has a value, a symbol is defined.
Settled(k) ==
    /\ Anchored /\ source[k].kind = "org" => AddressLiteral(source[k]) # Fail
    /\ source[k].kind = "label" => /\ Known(source[k].label)
                                   /\ symbols[source[k].label] = address[k]

\* Each address follows from the one before, in the first pass up to the entry
\* it has reached; the base is where the first entry was, unless that is an org.
Measured ==
    mode = "first" =>
        /\ pos <= Len(source) + 1
        /\ pos = 1 => pc = base
        /\ pos > 1 => (source[1].kind = "org" \/ address[1] = base)
        /\ \A k \in 1 .. pos - 1 :
              Settled(k) /\ (Anchored => After(k) = IF k + 1 = pos THEN pc ELSE address[k + 1])

Emitted ==
    mode = "second" =>
        /\ \A k \in 1 .. Len(source) :
              Settled(k) /\ (Anchored /\ k < Len(source) => After(k) = address[k + 1])
        /\ Anchored /\ pos <= Len(source) => (Reached.kind = "org" \/ pc = address[pos])

PassInvariant == TypeOK /\ Measured /\ Emitted

\* A step of the first pass that goes on to the next entry.
LEMMA StepFirst ==
    ASSUME TypeOK, mode = "first", pos <= Len(source), Step, Note
    PROVE  /\ source' = source /\ pos' = pos + 1 /\ mode' = "first"
           /\ pos \in Nat \ {0} /\ Len(source) \in Nat
           /\ DOMAIN source = 1 .. Len(source) /\ pos \in DOMAIN source
           /\ address'[pos] = pc
           /\ \A k \in DOMAIN source : k # pos => address'[k] = address[k]
<1>1. /\ source' = source /\ pos' = pos + 1 /\ mode' = "first"
      /\ address' = [address EXCEPT ![pos] = pc]
  BY DEF Step, Note
<1>2. /\ pos \in Nat \ {0} /\ Len(source) \in Nat
      /\ DOMAIN source = 1 .. Len(source)
      /\ DOMAIN address = DOMAIN source
  BY DEF TypeOK
<1>3. pos \in DOMAIN source
  BY <1>2
<1> QED
  BY <1>1, <1>2, <1>3

\* The symbols keep their values, and those of a sum get none that they had not.
SymbolsKept == \A m : Known(m) => Known(m)' /\ symbols'[m] = symbols[m]

NewlyKnown(m) == Known(m)' /\ ~Known(m)

\* An operand that had a value keeps it as long as the symbols keep theirs, and
\* the name of a sum is not defined meanwhile.
LEMMA AddressStays ==
    ASSUME NEW e, AddressLiteral(e) # Fail, SymbolsKept, e.sum => ~NewlyKnown(e.name)
    PROVE  AddressLiteral(e)' = AddressLiteral(e)
<1>1. CASE Known(e.name)
  BY <1>1 DEF AddressLiteral, Expression, Atom, SymbolsKept
<1>2. CASE ~Known(e.name) /\ ~Known(e.name)'
  BY <1>2 DEF AddressLiteral, Expression, Atom
<1>3. CASE ~Known(e.name) /\ Known(e.name)'
  <2>1. ~e.sum
    BY <1>3 DEF NewlyKnown
  <2> QED BY <1>3, <2>1 DEF AddressLiteral, Expression, Atom
<1> QED BY <1>1, <1>2, <1>3

\* A name is defined at most once, by the line the first pass has reached: in an
\* anchored source no org before it adds to that name.
LEMMA AnchoredKeeps ==
    ASSUME TypeOK, Anchored, pos <= Len(source), NEW k \in 1 .. pos - 1, source[k].kind = "org",
           SymbolsKept, AddressLiteral(source[k]) # Fail,
           \A m : NewlyKnown(m) => Reached.kind \in {"equ", "label"} /\ m = Reached.label,
           source' = source
    PROVE  AddressLiteral(source[k])' = AddressLiteral(source[k])
<1>1. k \in DOMAIN source /\ pos \in DOMAIN source /\ k < pos
  BY DEF TypeOK
<1> DEFINE e == source[k]
<1>2. e.sum => ~NewlyKnown(e.name)
  BY <1>1 DEF Anchored, Reached
<1>3. \A f : /\ AddressLiteral(f) # Fail
             /\ f.sum => ~NewlyKnown(f.name)
             => AddressLiteral(f)' = AddressLiteral(f)
  BY AddressStays
<1>4. \A f : f = e => AddressLiteral(f)' = AddressLiteral(e)
  BY <1>2, <1>3
<1>5. \A f : f = e => AddressLiteral(source[k])' = AddressLiteral(f)'
  BY DEF AddressLiteral, Expression, Atom, Known
<1> QED
  BY <1>4, <1>5

LEMMA DefineKeeps ==
    ASSUME NEW n, NEW v, ~Known(n), Define(n, v)
    PROVE  /\ SymbolsKept /\ \A m : NewlyKnown(m) => m = n
           /\ Known(n)' /\ symbols'[n] = v
BY DEF Known, Define, SymbolsKept, NewlyKnown

\* A new symbol changes nothing of what the entries before it mean: an org that
\* had a value keeps it, and the labels keep their addresses.
LEMMA SettledKept ==
    ASSUME PassInvariant, mode = "first", pos <= Len(source), Step, Note, SymbolsKept,
           \A m : NewlyKnown(m) => Reached.kind \in {"equ", "label"} /\ m = Reached.label
    PROVE  \A k \in 1 .. pos - 1 : Settled(k)' /\ (Anchored => After(k)' = After(k))
<1> SUFFICES ASSUME NEW k \in 1 .. pos - 1
             PROVE  Settled(k)' /\ (Anchored => After(k)' = After(k))
  OBVIOUS
<1>1. TypeOK /\ Settled(k)
  BY DEF PassInvariant, Measured
<1>2. source' = source /\ k \in DOMAIN source /\ k # pos /\ address'[k] = address[k]
  BY <1>1, StepFirst
<1>3. ASSUME Anchored, source[k].kind = "org"
      PROVE  /\ AddressLiteral(source[k])' = AddressLiteral(source[k])
             /\ AddressLiteral(source[k]) # Fail
  <2>1. AddressLiteral(source[k]) # Fail
    BY <1>1, <1>3 DEF Settled
  <2> QED
    BY <1>1, <1>2, <1>3, <2>1, AnchoredKeeps
<1>4. Anchored' <=> Anchored
  BY <1>2 DEF Anchored
<1>5. source[k].kind = "label" => /\ Known(source[k].label)'
                                 /\ symbols'[source[k].label] = address[k]
  BY <1>1, <1>2 DEF Settled, SymbolsKept, Known
<1>6. Settled(k)'
  BY <1>2, <1>3, <1>4, <1>5 DEF Settled, Known
<1>7. ASSUME Anchored PROVE After(k)' = After(k)
  BY <1>2, <1>3, <1>7 DEF After
<1> QED
  BY <1>6, <1>7

\* One more entry: what is left to show of a step of the first pass concerns
\* the entry it has reached alone.
LEMMA MeasuredStep ==
    ASSUME PassInvariant, mode = "first", pos <= Len(source), Step, Note,
           SymbolsKept,
           \A m : NewlyKnown(m) => Reached.kind \in {"equ", "label"} /\ m = Reached.label,
           base' = base \/ (pos = 1 /\ source[1].kind = "org"),
           NEW p, p = pos, pc' = After(p)', Settled(p)'
    PROVE  Measured' /\ Emitted'
<1>1. /\ TypeOK
      /\ pos <= Len(source) + 1
      /\ pos = 1 => pc = base
      /\ pos > 1 => (source[1].kind = "org" \/ address[1] = base)
      /\ Anchored => \A k \in 1 .. pos - 1 : After(k) = IF k + 1 = pos THEN pc ELSE address[k + 1]
  BY DEF PassInvariant, Measured
<1>2. /\ source' = source /\ pos' = pos + 1 /\ mode' = "first"
      /\ pos \in Nat \ {0} /\ Len(source) \in Nat /\ DOMAIN source = 1 .. Len(source)
      /\ address'[pos] = pc
      /\ \A k \in DOMAIN source : k # pos => address'[k] = address[k]
  BY <1>1, StepFirst
<1>3. source[1].kind = "org" \/ address'[1] = base'
  <2>1. CASE pos = 1
    BY <1>1, <1>2, <2>1
  <2>2. CASE pos # 1
    BY <1>1, <1>2, <2>2
  <2> QED
    BY <2>1, <2>2
<1>4. \A k \in 1 .. pos - 1 : Settled(k)' /\ (Anchored => After(k)' = After(k))
  BY SettledKept
<1>5. Anchored' <=> Anchored
  BY <1>2 DEF Anchored
<1>6. ASSUME NEW k \in 1 .. pos
      PROVE  Settled(k)' /\ (Anchored => After(k)' = IF k + 1 = pos + 1 THEN pc'
                                                      ELSE address'[k + 1])
  <2>1. CASE k = p
    BY <1>2, <2>1
  <2>2. CASE k # p
    <3>1. k \in 1 .. pos - 1 /\ k + 1 \in 1 .. pos /\ k + 1 # pos + 1
      BY <1>2, <2>2
    <3>2. address'[k + 1] = IF k + 1 = pos THEN pc ELSE address[k + 1]
      BY <1>2, <3>1
    <3> QED
      BY <1>1, <1>4, <3>1, <3>2
  <2> QED
    BY <2>1, <2>2
<1>7. pos' - 1 = pos
  BY <1>2
<1>8. \A k \in 1 .. pos' - 1 :
        Settled(k)' /\ (Anchored' => After(k)' = IF k + 1 = pos' THEN pc' ELSE address'[k + 1])
  BY <1>2, <1>6, <1>7, <1>5
<1> QED
  BY <1>2, <1>3, <1>8 DEF Measured, Emitted

\* As long as the symbols stay, so does what is known of the entries.
LEMMA EntriesStay ==
    ASSUME UNCHANGED <<source, symbols, address>>
    PROVE  /\ \A k : (Settled(k) <=> Settled(k)') /\ After(k) = After(k)'
           /\ Anchored <=> Anchored'
<1>1. Anchored <=> Anchored'
  BY DEF Anchored
<1>2. \A k : AddressLiteral(source[k])' = AddressLiteral(source[k])
  BY DEF AddressLiteral, Expression, Atom, Known
<1> QED
  BY <1>1, <1>2 DEF Settled, After, Known

LEMMA PassStep ==
    PassInvariant /\ [Next]_vars => Measured' /\ Emitted'
<1> SUFFICES ASSUME PassInvariant, [Next]_vars PROVE Measured' /\ Emitted'
  OBVIOUS
<1>0. TypeOK /\ Len(source) \in Nat
  BY DEF PassInvariant, TypeOK
<1>1. ASSUME mode' \in {"idle", "session"} PROVE Measured' /\ Emitted'
  BY <1>1 DEF Measured, Emitted
<1>2. ASSUME NEW a \in Starts, StartSession(a) PROVE Measured' /\ Emitted'
  BY <1>1, <1>2 DEF StartSession
<1>3. ASSUME NEW n \in 1 .. MaxLines, NEW a \in Starts, NEW text \in [1 .. n -> Lines],
             LoadAsm(text, a)
      PROVE  Measured' /\ Emitted'
  <2>1. text \in Seq(Lines) /\ Len(text) \in Nat
    BY AssemblerAssumption
  <2> QED
    BY <1>3, <2>1 DEF LoadAsm, Measured, Emitted
<1>4. Refuse => Measured' /\ Emitted'
  BY <1>1 DEF Refuse
<1>5. ASSUME Org, mode = "first" PROVE Measured' /\ Emitted'
  <2>1. CASE AddressLiteral(Reached) = Fail
    BY <1>4, <1>5, <2>1 DEF Org
  <2>2. CASE AddressLiteral(Reached) # Fail
    <3>1. /\ Step /\ Note /\ UNCHANGED symbols /\ pos <= Len(source)
          /\ pc' = AddressLiteral(Reached) /\ Reached.kind = "org"
          /\ base' = IF pos = 1 THEN pc' ELSE base
      BY <1>5, <2>2 DEF Org
    <3>2. PICK p : p = pos
      OBVIOUS
    <3>3. source' = source /\ source'[p] = Reached
      BY <3>1, <3>2 DEF Step, Reached
    <3>4. AddressLiteral(source[p])' = AddressLiteral(Reached)
      BY <3>1, <3>2, <3>3 DEF AddressLiteral, Expression, Atom, Known, Reached
    <3>5. pc' = After(p)' /\ Settled(p)'
      BY <3>1, <3>3, <3>4, <2>2 DEF After, Settled
    <3>6. base' = base \/ (pos = 1 /\ source[1].kind = "org")
      BY <3>1 DEF Reached
    <3>7. SymbolsKept /\ \A m : ~NewlyKnown(m)
      BY <3>1 DEF Known, SymbolsKept, NewlyKnown
    <3> QED
      BY <1>5, <3>1, <3>2, <3>5, <3>6, <3>7, MeasuredStep
  <2> QED
    BY <2>1, <2>2
<1>6. ASSUME Equ PROVE Measured' /\ Emitted'
  <2>1. CASE Known(Reached.label) \/ Immediate(Reached) = Fail
    BY <1>4, <1>6, <2>1 DEF Equ
  <2>2. CASE ~(Known(Reached.label) \/ Immediate(Reached) = Fail)
    <3>1. /\ Step /\ Note /\ UNCHANGED <<base, pc>> /\ pos <= Len(source)
          /\ mode = "first" /\ Reached.kind = "equ" /\ Reached.label \in Names
          /\ Immediate(Reached) \in Addr
          /\ Define(Reached.label, Immediate(Reached))
      BY <1>0, <1>6, <2>2, ReachedTyped, TargetTyped, AssemblerAssumption DEF Equ, Walks, Entry
    <3>2. PICK p : p = pos
      OBVIOUS
    <3>3. source' = source /\ source'[p] = Reached /\ address'[p] = pc
      BY <1>0, <3>1, <3>2, StepFirst DEF Reached
    <3>4. pc' = After(p)' /\ Settled(p)'
      BY <3>1, <3>3 DEF After, Settled, Instructions, References
    <3>5. SymbolsKept /\ \A m : NewlyKnown(m) => m = Reached.label
      BY <2>2, <3>1, DefineKeeps
    <3> QED
      BY <3>1, <3>2, <3>4, <3>5, MeasuredStep
  <2> QED
    BY <2>1, <2>2
<1>7. ASSUME Label PROVE Measured' /\ Emitted'
  <2>1. CASE Known(Reached.label)
    BY <1>4, <1>7, <2>1 DEF Label
  <2>2. CASE ~Known(Reached.label)
    <3>1. /\ Step /\ Note /\ UNCHANGED <<base, pc>> /\ pos <= Len(source)
          /\ mode = "first" /\ Reached.kind = "label" /\ Reached.label \in Names
          /\ pc \in Addr /\ Define(Reached.label, pc)
      BY <1>0, <1>7, <2>2, ReachedTyped, AssemblerAssumption DEF Label, Walks, Entry, TypeOK
    <3>2. PICK p : p = pos
      OBVIOUS
    <3>3. PICK l : l = Reached.label
      OBVIOUS
    <3>4. /\ Known(l)' /\ symbols'[l] = pc
          /\ SymbolsKept /\ \A m : NewlyKnown(m) => m = l
      BY <2>2, <3>1, <3>3, DefineKeeps
    <3>5. /\ source' = source /\ source'[p] = Reached /\ source'[p].label = l
          /\ address'[p] = pc
      BY <1>0, <3>1, <3>2, <3>3, StepFirst DEF Reached
    <3>6. pc' = After(p)' /\ Settled(p)'
      BY <3>1, <3>4, <3>5 DEF After, Settled, Instructions, References, Known
    <3> QED
      BY <3>1, <3>2, <3>3, <3>4, <3>6, MeasuredStep
  <2> QED
    BY <2>1, <2>2
<1>8. ASSUME Measure PROVE Measured' /\ Emitted'
  <2>1. CASE Refuses(Reached, pc)
    BY <1>4, <1>8, <2>1 DEF Measure
  <2>2. CASE ~Refuses(Reached, pc)
    <3>1. /\ Step /\ Note /\ UNCHANGED <<base, symbols>> /\ pos <= Len(source)
          /\ mode = "first" /\ Reached.kind \in Instructions /\ pc \in Addr
          /\ pc' = Forward(pc, Len(Encode(Reached, pc)))
      BY <1>0, <1>8, <2>2 DEF Measure, Walks, TypeOK
    <3>2. pc' = Forward(pc, Size(Reached))
      BY <1>0, <3>1, ReachedTyped, EncodeSized
    <3>3. PICK p : p = pos
      OBVIOUS
    <3>4. source' = source /\ source'[p] = Reached /\ address'[p] = pc
      BY <1>0, <3>1, <3>3, StepFirst DEF Reached
    <3>5. pc' = After(p)' /\ Settled(p)'
      BY <3>1, <3>2, <3>4 DEF After, Settled, Instructions, References
    <3>6. SymbolsKept /\ \A m : ~NewlyKnown(m)
      BY <3>1 DEF Known, SymbolsKept, NewlyKnown
    <3> QED
      BY <3>1, <3>3, <3>5, <3>6, MeasuredStep
  <2> QED
    BY <2>1, <2>2
<1> USE DEF PassInvariant
<1>9. ASSUME EndFirstPass PROVE Measured' /\ Emitted'
  <2>1. /\ pos = Len(source) + 1 /\ mode = "first" /\ mode' = "second"
        /\ pos' = 1 /\ pc' = base
        /\ UNCHANGED <<source, base, symbols, address>>
    BY <1>0, <1>9 DEF EndFirstPass, Measured, TypeOK
  <2>2. \A k \in 1 .. Len(source) :
          Settled(k) /\ (Anchored /\ k < Len(source) => After(k) = address[k + 1])
    BY <1>0, <2>1 DEF Measured
  <2>3. /\ \A k : (Settled(k) <=> Settled(k)') /\ After(k) = After(k)'
        /\ Anchored <=> Anchored'
    BY <2>1, EntriesStay
  <2>4. 1 <= Len(source) => (source[1].kind = "org" \/ base = address[1])
    BY <1>0, <2>1 DEF Measured
  <2> QED
    BY <2>1, <2>2, <2>3, <2>4 DEF Measured, Emitted, Reached
<1>10. ASSUME mode = "second", Step, UNCHANGED <<symbols, address>>, pos <= Len(source),
              Anchored => pc' = After(pos)
       PROVE  Measured' /\ Emitted'
  <2>1. /\ mode' = "second" /\ pos' = pos + 1 /\ source' = source
        /\ pos \in 1 .. Len(source)
    BY <1>0, <1>10 DEF Step, TypeOK
  <2>2. /\ \A k : (Settled(k) <=> Settled(k)') /\ After(k) = After(k)'
        /\ Anchored <=> Anchored'
    BY <1>10, <2>1, EntriesStay
  <2>3. Anchored /\ pos + 1 <= Len(source) => pc' = address[pos + 1]
    BY <1>0, <1>10, <2>1 DEF Emitted
  <2> QED
    BY <1>10, <2>1, <2>2, <2>3 DEF Measured, Emitted, Reached
<1>11. ASSUME Org, mode = "second" PROVE Measured' /\ Emitted'
  <2>1. CASE AddressLiteral(Reached) = Fail
    BY <1>4, <1>11, <2>1 DEF Org
  <2>2. CASE AddressLiteral(Reached) # Fail
    <3>1. /\ Step /\ UNCHANGED <<symbols, address>> /\ pos <= Len(source)
          /\ pc' = After(pos)
      BY <1>11, <2>2 DEF Org, Note, After, Reached
    <3> QED
      BY <1>10, <1>11, <3>1
  <2> QED
    BY <2>1, <2>2
<1>12. ASSUME Skip PROVE Measured' /\ Emitted'
  <2>1. /\ mode = "second" /\ Step /\ UNCHANGED <<symbols, address, pc>> /\ pos <= Len(source)
        /\ Reached.kind \in {"equ", "label"}
    BY <1>12 DEF Skip, Walks
  <2>2. Anchored => pc = address[pos]
    BY <2>1 DEF Emitted
  <2>3. Anchored => pc' = After(pos)
    BY <2>1, <2>2 DEF After, Reached, Instructions, References
  <2> QED
    BY <1>10, <2>1, <2>3
<1>13. ASSUME Emit PROVE Measured' /\ Emitted'
  <2>1. CASE Refuses(Reached, pc)
    BY <1>4, <1>13, <2>1 DEF Emit
  <2>2. CASE ~Refuses(Reached, pc)
    <3>1. /\ mode = "second" /\ Step /\ UNCHANGED <<symbols, address>> /\ pos <= Len(source)
          /\ Reached.kind \in Instructions /\ pc \in Addr
          /\ pc' = Forward(pc, Len(Encode(Reached, pc)))
      BY <1>0, <1>13, <2>2 DEF Emit, Walks, TypeOK
    <3>2. Reached.kind # "org"
      BY <3>1 DEF Instructions, References
    <3>3. (Anchored => pc = address[pos]) /\ pc' = Forward(pc, Size(Reached))
      BY <1>0, <3>1, <3>2, ReachedTyped, EncodeSized DEF Emitted
    <3>4. Anchored => pc' = After(pos)
      BY <3>1, <3>2, <3>3 DEF After, Reached
    <3> QED
      BY <1>10, <3>1, <3>4
  <2> QED
    BY <2>1, <2>2
<1>14. ASSUME Store PROVE Measured' /\ Emitted'
  BY <1>1, <1>14 DEF Store
<1>15. ASSUME NEW e \in Lines, SessionLine(e) PROVE Measured' /\ Emitted'
  BY <1>1, <1>15 DEF SessionLine
<1>16. ASSUME EndSession PROVE Measured' /\ Emitted'
  BY <1>1, <1>16 DEF EndSession
<1>17. CASE UNCHANGED vars
  <2>1. /\ \A k : (Settled(k) <=> Settled(k)') /\ After(k) = After(k)'
        /\ Anchored <=> Anchored'
    BY <1>17, EntriesStay DEF vars
  <2> QED
    BY <1>17, <2>1 DEF vars, Measured, Emitted, Reached
<1>18. Org => mode \in {"first", "second"}
  BY DEF Org
<1> QED
  BY <1>2, <1>3, <1>5, <1>6, <1>7, <1>8, <1>9, <1>11, <1>12, <1>13, <1>14, <1>15, <1>16,
     <1>17, <1>18
  DEF Next, FirstPass, SecondPass

LEMMA PassInit == Init => PassInvariant
BY InitTyped DEF Init, PassInvariant, Measured, Emitted

LEMMA PassesAgreeHolds == PassInvariant => PassesAgree
<1> SUFFICES ASSUME PassInvariant, mode = "second" PROVE
      /\ Anchored /\ pos <= Len(source) /\ Reached.kind # "org" => pc = address[pos]
      /\ \A k \in DOMAIN source : source[k].kind = "label" =>
            /\ Known(source[k].label)
            /\ symbols[source[k].label] = address[k]
  BY DEF PassesAgree
<1> QED
  BY DEF PassInvariant, TypeOK, Emitted, Settled

\* In every source that adds to no symbol in an org before its definition, the
\* second pass comes to each line where the first pass put it; and in every
\* source labels keep the addresses the first pass gave their lines.
THEOREM PassesMeet == Spec => []PassesAgree
<1>1. PassInvariant /\ [Next]_vars => PassInvariant'
  BY StepTyped, PassStep DEF PassInvariant
<1> QED
  BY <1>1, PassInit, PassesAgreeHolds, PTL DEF Spec

-------------------------------------------------------------------------------
(* The code in memory: addresses are sums of the words before. *)

LEMMA LeastNumber ==
    ASSUME NEW T, T \subseteq Nat, T # {}
    PROVE  \E k \in T : \A j \in T : k <= j
<1> DEFINE less == {pair \in Nat \X Nat : pair[1] < pair[2]}
<1>1. IsWellFoundedOn(less, Nat)
  BY NatLessThanWellFounded DEF OpToRel
<1> HIDE DEF less
<1>2. PICK k \in T : \A j \in T : <<j, k>> \notin less
  BY <1>1, WFMin
<1>3. \A j \in T : ~ (j < k)
  BY <1>2 DEF less
<1> QED BY <1>3

\* What is true of 0 and goes from each number to the next is true up to n.
LEMMA Upward ==
    ASSUME NEW n \in Nat, NEW T, 0 \in T, \A k \in 1 .. n : k - 1 \in T => k \in T
    PROVE  0 .. n \subseteq T
<1> DEFINE U == {k \in 0 .. n : k \notin T}
<1> SUFFICES ASSUME U # {} PROVE FALSE
  OBVIOUS
<1>0. U \subseteq Nat
  OBVIOUS
<1>1. PICK k \in U : \A j \in U : k <= j
  <2> HIDE DEF U
  <2> QED BY <1>0, LeastNumber
<1>2. k \in 1 .. n /\ k - 1 \in 0 .. n /\ k - 1 \notin U
  BY <1>1
<1> QED BY <1>2

\* The sums of n numbers.
LEMMA SumsExist ==
    ASSUME NEW n \in Nat, NEW s \in [1 .. n -> Nat]
    PROVE  \E f \in [0 .. n -> Nat] : f[0] = 0 /\ \A i \in 1 .. n : f[i] = f[i - 1] + s[i]
<1> DEFINE Upto(k) == \E f \in [0 .. k -> Nat] :
               f[0] = 0 /\ \A i \in 1 .. k : f[i] = f[i - 1] + s[i]
           T == {k \in 0 .. n : Upto(k)}
<1>1. Upto(0)
  <2> DEFINE f == [i \in 0 .. 0 |-> 0]
  <2>1. f \in [0 .. 0 -> Nat] /\ f[0] = 0
    OBVIOUS
  <2>2. \A i \in 1 .. 0 : f[i] = f[i - 1] + s[i]
    OBVIOUS
  <2> HIDE DEF f
  <2> QED BY <2>1, <2>2
<1>2. ASSUME NEW k \in 1 .. n, Upto(k - 1) PROVE Upto(k)
  <2>1. PICK f \in [0 .. k - 1 -> Nat] :
            f[0] = 0 /\ \A i \in 1 .. k - 1 : f[i] = f[i - 1] + s[i]
    BY <1>2
  <2> DEFINE g == [i \in 0 .. k |-> IF i = k THEN f[k - 1] + s[k] ELSE f[i]]
  <2>2. g \in [0 .. k -> Nat]
    <3>1. f[k - 1] \in Nat /\ s[k] \in Nat
      OBVIOUS
    <3>2. f[k - 1] + s[k] \in Nat
      BY <3>1
    <3>3. ASSUME NEW i \in 0 .. k, i # k PROVE f[i] \in Nat
      <4>1. i \in 0 .. k - 1
        BY <3>3
      <4> QED BY <4>1
    <3> QED BY <3>2, <3>3
  <2>3. g[0] = 0
    BY <2>1
  <2>4. ASSUME NEW i \in 1 .. k PROVE g[i] = g[i - 1] + s[i]
    <3>1. g[i - 1] = f[i - 1]
      <4>1. i - 1 \in 0 .. k /\ i - 1 # k
        OBVIOUS
      <4> QED BY <4>1
    <3>2. CASE i = k
      <4>1. g[k] = f[k - 1] + s[k]
        OBVIOUS
      <4> HIDE DEF g
      <4> QED BY <3>1, <3>2, <4>1
    <3>3. CASE i # k
      <4>1. i \in 1 .. k - 1 /\ g[i] = f[i]
        BY <3>3
      <4> QED BY <2>1, <3>1, <4>1
    <3> QED BY <3>2, <3>3
  <2> HIDE DEF g
  <2> QED BY <2>2, <2>3, <2>4
<1> HIDE DEF Upto
<1>3. 0 \in T
  BY <1>1
<1>4. \A k \in 1 .. n : k - 1 \in T => k \in T
  BY <1>2
<1>5. n \in T
  <2> HIDE DEF T
  <2>1. 0 .. n \subseteq T
    BY <1>3, <1>4, Upward
  <2> QED BY <2>1
<1> QED BY <1>5 DEF Upto

LEMMA SizeType ==
    ASSUME NEW e
    PROVE  Size(e) \in 0 .. 3
BY DEF Size

LEMMA AheadFacts ==
    ASSUME NEW n \in Nat, n = Len(source)
    PROVE  /\ Ahead[0] = 0
           /\ \A k \in 1 .. n : Ahead[k] = Ahead[k - 1] + Size(source[k])
           /\ \A k \in 0 .. n : Ahead[k] \in Nat
<1> DEFINE s == [k \in 1 .. n |-> Size(source[k])]
           Whole(f) == f = [k \in 0 .. Len(source) |->
                               IF k = 0 THEN 0 ELSE f[k - 1] + Size(source[k])]
<1>1. s \in [1 .. n -> Nat]
  BY SizeType
<1>2. PICK f \in [0 .. n -> Nat] : f[0] = 0 /\ \A i \in 1 .. n : f[i] = f[i - 1] + s[i]
  <2> HIDE DEF s
  <2> QED BY <1>1, SumsExist
<1>3. Whole(f)
  <2> DEFINE g == [k \in 0 .. n |-> IF k = 0 THEN 0 ELSE f[k - 1] + Size(source[k])]
  <2>1. ASSUME NEW k \in 0 .. n PROVE f[k] = g[k]
    <3>1. CASE k = 0
      BY <1>2, <3>1
    <3>2. CASE k # 0
      <4>1. k \in 1 .. n
        BY <3>2
      <4>2. f[k] = f[k - 1] + Size(source[k])
        BY <1>2, <4>1
      <4> QED BY <3>2, <4>2
    <3> QED BY <3>1, <3>2
  <2>2. f = g
    BY <2>1
  <2> QED BY <2>2
<1>4. Ahead = CHOOSE f_1 : Whole(f_1)
  BY DEF Ahead
<1>5. Whole(Ahead)
  <2> HIDE DEF Whole
  <2> QED BY <1>3, <1>4
<1>6. Ahead[0] = 0
  BY <1>5
<1>7. ASSUME NEW k \in 1 .. n PROVE Ahead[k] = Ahead[k - 1] + Size(source[k])
  <2>1. k \in 0 .. Len(source) /\ k # 0
    OBVIOUS
  <2> QED BY <1>5, <2>1
<1>8. 0 .. n \subseteq {k \in 0 .. n : Ahead[k] \in Nat}
  <2> DEFINE T == {k \in 0 .. n : Ahead[k] \in Nat}
  <2>1. 0 \in T
    BY <1>6
  <2>2. \A k \in 1 .. n : k - 1 \in T => k \in T
    BY <1>7, SizeType
  <2> HIDE DEF T
  <2>3. 0 .. n \subseteq T
    BY <2>1, <2>2, Upward
  <2> QED BY <2>3 DEF T
<1> QED BY <1>6, <1>7, <1>8

-------------------------------------------------------------------------------
(* Addresses and displacements. *)

LEMMA SmallMultiple ==
    ASSUME NEW r \in Nat \ {0}, NEW k \in Int, -r < r * k, r * k < r
    PROVE  k = 0
<1>1. CASE k >= 1
  <2>1. r * k >= r * 1
    BY <1>1
  <2> QED BY <2>1
<1>2. CASE k <= -1
  <2>1. r * (-k) >= r * 1
    BY <1>2
  <2>2. r * (-k) = -(r * k)
    OBVIOUS
  <2> QED BY <2>1, <2>2
<1> QED BY <1>1, <1>2

\* Quotient and remainder are the only ones.
LEMMA DivisionUnique ==
    ASSUME NEW d \in Int, NEW r \in Nat \ {0}, NEW q \in Int, NEW m \in 0 .. r - 1,
           d = r * q + m
    PROVE  d \div r = q /\ d % r = m
<1> DEFINE a == d \div r
           b == d % r
<1>1. a \in Int /\ b \in 0 .. r - 1 /\ d = r * a + b
  OBVIOUS
<1> HIDE DEF a, b
<1>2. r * (a - q) = r * a - r * q
  BY <1>1
<1>3. a - q = 0
  <2>1. a - q \in Int /\ r * (a - q) = m - b
    BY <1>1, <1>2
  <2> DEFINE k == a - q
  <2> HIDE DEF k
  <2>2. -r < r * k /\ r * k < r
    BY <1>1, <2>1 DEF k
  <2> QED BY <2>1, <2>2, SmallMultiple DEF k
<1>4. a = q /\ b = m
  BY <1>1, <1>3
<1> QED BY <1>4 DEF a, b

LEMMA Division ==
    ASSUME NEW d \in Int, NEW r \in Nat \ {0}
    PROVE  \E q \in Int, m \in 0 .. r - 1 : d = r * q + m /\ d \div r = q /\ d % r = m
<1>1. d \div r \in Int /\ d % r \in 0 .. r - 1 /\ d = r * (d \div r) + (d % r)
  OBVIOUS
<1> QED BY <1>1

\* Two ways forward are one.
LEMMA ForwardTwice ==
    ASSUME NEW a \in Nat, NEW m \in Int, NEW n \in Int
    PROVE  Forward(Forward(a, m), n) = Forward(a, m + n)
<1> DEFINE r == Top + 1
<1>0. r \in Nat \ {0}
  BY AssemblerAssumption
<1> HIDE DEF r
<1>1. PICK q \in Int, b \in 0 .. r - 1 : a + m = r * q + b /\ (a + m) % r = b
  <2>1. a + m \in Int
    OBVIOUS
  <2> QED BY <1>0, <2>1, Division
<1>2. PICK p \in Int, c \in 0 .. r - 1 : b + n = r * p + c /\ (b + n) % r = c
  <2>1. b + n \in Int
    BY <1>0
  <2> QED BY <1>0, <2>1, Division
<1>3. a + (m + n) = r * (q + p) + c
  <2>1. r * (q + p) = r * q + r * p
    BY <1>0
  <2>2. r * q \in Int /\ r * p \in Int /\ b \in Int /\ c \in Int
    BY <1>0
  <2> QED BY <1>1, <1>2, <2>1, <2>2
<1>4. (a + (m + n)) % r = c
  <2>1. a + (m + n) \in Int /\ q + p \in Int
    OBVIOUS
  <2> QED BY <1>0, <1>3, <2>1, DivisionUnique
<1> QED BY <1>1, <1>2, <1>4 DEF Forward, r

\* Words that were all accepted are found where they were stored.
LEMMA StoredAt ==
    ASSUME NEW a \in Addr, NEW words, Len(words) \in Nat, Len(words) <= Top + 1,
           Reaches(a, Len(words)), NEW j \in 1 .. Len(words)
    PROVE  Stored(a, words)[Forward(a, j - 1)] = words[j]
<1> DEFINE r == Top + 1
           x == Forward(a, j - 1)
<1>0. r \in Nat \ {0} /\ a \in 0 .. r - 1 /\ j - 1 \in 0 .. r - 1 /\ j \in Nat /\ Top = r - 1
  BY AssemblerAssumption DEF Addr
<1>1. x = (a + (j - 1)) % r
  BY DEF Forward
<1> HIDE DEF r, x
<1>2. PICK q \in Int, b \in 0 .. r - 1 : a + (j - 1) = r * q + b /\ (a + (j - 1)) % r = b
  <2>1. a + (j - 1) \in Int
    BY <1>0
  <2> QED BY <1>0, <2>1, Division
<1>3. x - a = r * (-q) + (j - 1)
  <2>1. r * (-q) = -(r * q) /\ r * q \in Int
    BY <1>0
  <2> QED BY <1>0, <1>1, <1>2, <2>1
<1>4. (x - a) % r = j - 1
  <2>1. x - a \in Int /\ -q \in Int
    BY <1>0, <1>1, <1>2
  <2> QED BY <1>0, <1>3, <2>1, DivisionUnique
<1>5. x \in Addr
  BY <1>0, <1>1, <1>2 DEF Addr
<1>6. Reaches(a, j)
  <2>1. \A i \in 1 .. j : i \in 1 .. Len(words)
    BY <1>0
  <2> QED BY <2>1 DEF Reaches
<1>7. 1 + ((x - a) % (Top + 1)) = j
  BY <1>0, <1>4 DEF r
<1>8. Stored(a, words)[x] = words[j]
  <2>1. j <= Len(words)
    BY <1>0
  <2> QED BY <1>5, <1>6, <1>7, <2>1 DEF Stored
<1> QED BY <1>8 DEF x

\* The word of a displacement that fits reads as the displacement.
LEMMA SignedIs ==
    ASSUME NEW half \in Nat \ {0}, NEW d \in -half .. half - 1
    PROVE  Signed(d % (2 * half), half) = d
<1> DEFINE r == 2 * half
<1>0. r \in Nat \ {0} /\ d \in Int
  OBVIOUS
<1>1. CASE d >= 0
  <2>1. d = r * 0 + d /\ d \in 0 .. r - 1 /\ 0 \in Int
    BY <1>1
  <2>2. d % r = d
    <3> HIDE DEF r
    <3> QED BY <1>0, <2>1, DivisionUnique
  <2> QED BY <2>2 DEF Signed
<1>2. CASE d < 0
  <2> DEFINE c == d + r
  <2>1. d = r * (-1) + c /\ c \in 0 .. r - 1 /\ -1 \in Int /\ c >= half /\ c - r = d
    BY <1>2
  <2>2. d % r = c
    <3> HIDE DEF r, c
    <3> QED BY <1>0, <2>1, DivisionUnique
  <2>3. ~(c < half)
    BY <2>1
  <2> QED BY <2>1, <2>2, <2>3 DEF Signed
<1> QED BY <1>1, <1>2

\* The displacement from the word behind an instruction leads to the target.
LEMMA DistanceLeads ==
    ASSUME NEW at \in Addr, NEW t \in Addr
    PROVE  /\ Distance(at, t) \in Int
           /\ Forward(at, 1 + Distance(at, t)) = t
<1> DEFINE r == Top + 1
           d == (t - (at + 1)) % r
<1>0. r \in Nat \ {0} /\ at \in 0 .. r - 1 /\ t \in 0 .. r - 1 /\ at \in Int /\ t \in Int
  BY AssemblerAssumption DEF Addr
<1>1. Distance(at, t) = d \/ Distance(at, t) = d - r
  BY DEF Distance
<1> HIDE DEF r
<1>2. PICK q \in Int, b \in 0 .. r - 1 : t - (at + 1) = r * q + b /\ d = b
  <2>1. t - (at + 1) \in Int
    BY <1>0
  <2> QED BY <1>0, <2>1, Division
<1> HIDE DEF d
<1>3. ASSUME NEW c \in Int, NEW p \in Int, (at + 1) + c = r * p + t
      PROVE  (at + (1 + c)) % r = t
  <2>1. at + (1 + c) \in Int /\ at + (1 + c) = r * p + t
    BY <1>0, <1>3
  <2> QED BY <1>0, <2>1, DivisionUnique
<1>4. /\ r * (-q) = -(r * q) /\ r * (-q - 1) = -(r * q) - r /\ r * q \in Int
      /\ -q \in Int /\ -q - 1 \in Int /\ b \in Int
  BY <1>0
<1>5. CASE Distance(at, t) = d
  <2>1. (at + 1) + b = r * (-q) + t
    BY <1>0, <1>2, <1>4
  <2>2. (at + (1 + b)) % r = t
    BY <1>3, <1>4, <2>1
  <2> QED BY <1>2, <1>4, <1>5, <2>2 DEF Forward, r
<1>6. CASE Distance(at, t) = d - r
  <2> DEFINE c == b - r
  <2>1. c \in Int /\ (at + 1) + c = r * (-q - 1) + t
    BY <1>0, <1>2, <1>4
  <2>2. (at + (1 + c)) % r = t
    <3> HIDE DEF c
    <3> QED BY <1>3, <1>4, <2>1
  <2> QED BY <1>2, <1>6, <2>1, <2>2 DEF Forward, r
<1> QED BY <1>1, <1>5, <1>6

LEMMA HalvesMeet ==
    ASSUME NEW t \in Nat
    PROVE  High(t) * 2 * Near + Low(t) = t
<1> DEFINE r == 2 * Near
<1>0. r \in Nat \ {0} /\ Near \in Nat
  BY AssemblerAssumption
<1>1. /\ t \div r \in Int /\ t % r \in Int
      /\ t = r * (t \div r) + (t % r)
  <2> HIDE DEF r
  <2> QED BY <1>0
<1> DEFINE q == t \div r
           m == t % r
<1>2. q * 2 * Near = (2 * Near) * q
  <2>1. q \in Int
    BY <1>1
  <2> HIDE DEF q
  <2> QED BY <1>0, <2>1
<1> QED BY <1>1, <1>2 DEF High, Low

-------------------------------------------------------------------------------
(* Where the code is, and what it refers to. *)

\* The base of the code is where the first entry was, or what it says if it is
\* an org.
Based ==
    (mode = "first" /\ pos > 1) \/ (mode = "second" /\ Len(source) > 0) =>
        IF source[1].kind = "org" THEN Anchored => AddressLiteral(source[1]) = base
        ELSE address[1] = base

\* The words of the k-th entry are behind those of the entries before it.
EntryWritten(k) ==
    /\ Ahead[k] <= Len(output)
    /\ source[k].kind \in Instructions =>
        /\ ~Refuses(source[k], address[k])
        /\ \A i \in 1 .. Size(source[k]) :
              output[Ahead[k - 1] + i] = Encode(source[k], address[k])[i]

Written ==
    /\ mode = "first" => output = <<>>
    /\ mode = "second" =>
        /\ pos <= Len(source) + 1
        /\ Len(output) = Ahead[pos - 1]
        /\ Anchored => \A k \in 1 .. pos - 1 : EntryWritten(k)

Ended == outcome # "none" => mode = "idle"

LandInvariant == PassInvariant /\ Based /\ Written /\ Ended /\ ReferencesLand

SingleOrg == \A k \in DOMAIN source : source[k].kind = "org" => k = 1

\* Behind an org at the start, the first pass has counted the words before each
\* entry.
LEMMA AddressLands ==
    ASSUME PassInvariant, Based, mode = "second", SingleOrg, Anchored,
           NEW k \in DOMAIN source, source[k].kind # "org"
    PROVE  address[k] = Landing(k)
<1> DEFINE n == Len(source)
           T == {i \in 0 .. n : i = 0 \/ source[i].kind = "org" \/ address[i] = Landing(i)}
<1>0. /\ n \in Nat /\ DOMAIN source = 1 .. n /\ base \in Addr /\ base \in Nat
      /\ \A i \in 1 .. n : source[i] \in Lines /\ address[i] \in Addr
  BY AssemblerAssumption DEF PassInvariant, TypeOK, Addr
<1>1. \A i \in 1 .. n : Settled(i) /\ (i < n => After(i) = address[i + 1])
  BY DEF PassInvariant, Emitted
<1>2. /\ Ahead[0] = 0 /\ \A i \in 1 .. n : Ahead[i] = Ahead[i - 1] + Size(source[i])
      /\ \A i \in 0 .. n : Ahead[i] \in Nat
  BY <1>0, AheadFacts
<1>3. Forward(base, 0) = base
  <2>1. base + 0 = base /\ base \in 0 .. Top /\ Top \in Nat
    BY <1>0, AssemblerAssumption DEF Addr
  <2>2. base % (Top + 1) = base
    <3> DEFINE r == Top + 1
    <3>1. r \in Nat \ {0} /\ base \in 0 .. r - 1 /\ base \in Int /\ base = r * 0 + base /\ 0 \in Int
      BY <2>1
    <3> HIDE DEF r
    <3>2. base % r = base
      BY <3>1, DivisionUnique
    <3> QED BY <3>2 DEF r
  <2> QED BY <2>1, <2>2 DEF Forward
<1>4. ASSUME NEW i \in 1 .. n, i - 1 \in T PROVE i \in T
  <2> SUFFICES ASSUME source[i].kind # "org" PROVE address[i] = Landing(i)
    OBVIOUS
  <2>1. CASE i = 1
    <3>1. address[1] = base
      BY <1>0, <2>1 DEF Based
    <3>2. Landing(1) = Forward(base, 0)
      BY <1>2 DEF Landing
    <3> QED BY <1>3, <2>1, <3>1, <3>2
  <2>2. CASE i # 1
    <3> DEFINE j == i - 1
    <3>1. j \in 1 .. n /\ j < n /\ i = j + 1 /\ j - 1 \in 0 .. n /\ j \in 0 .. n
      BY <1>0, <2>2
    <3> HIDE DEF j
    <3>2. address[i] = After(j)
      BY <1>1, <3>1
    <3>3. Landing(i) = Forward(base, Ahead[j])
      <4>1. i - 1 = j
        BY <1>0, <3>1
      <4> QED BY <4>1 DEF Landing
    <3>4. Ahead[j] = Ahead[j - 1] + Size(source[j]) /\ Ahead[j - 1] \in Nat
      BY <1>2, <3>1
    <3>5. CASE source[j].kind = "org"
      <4>1. j = 1
        BY <1>0, <3>1, <3>5 DEF SingleOrg
      <4>2. After(1) = base
        BY <1>0, <3>1, <3>5, <4>1 DEF After, Based
      <4>3. Ahead[1] = 0
        <5>1. Size(source[1]) = 0
          BY <3>5, <4>1 DEF Size
        <5>2. 1 \in 1 .. n /\ 1 - 1 = 0
          BY <3>1, <4>1
        <5>3. Ahead[1] = Ahead[1 - 1] + Size(source[1])
          BY <1>2, <5>2
        <5> QED BY <1>2, <5>1, <5>2, <5>3
      <4> QED BY <1>3, <3>2, <3>3, <4>1, <4>2, <4>3
    <3>6. CASE source[j].kind # "org"
      <4>1. address[j] = Forward(base, Ahead[j - 1])
        BY <1>4, <3>1, <3>6 DEF Landing, j
      <4>2. CASE source[j].kind \in Instructions
        <5>1. After(j) = Forward(address[j], Size(source[j]))
          BY <3>6, <4>2 DEF After
        <5>2. Forward(Forward(base, Ahead[j - 1]), Size(source[j]))
                = Forward(base, Ahead[j - 1] + Size(source[j]))
          <6>1. Ahead[j - 1] \in Int /\ Size(source[j]) \in Int
            BY <3>4, SizeType
          <6> QED BY <1>0, <6>1, ForwardTwice
        <5> QED BY <3>2, <3>3, <3>4, <4>1, <5>1, <5>2
      <4>3. CASE source[j].kind \notin Instructions
        <5>1. After(j) = address[j]
          BY <3>6, <4>3 DEF After
        <5>2. Size(source[j]) = 0
          BY <4>3 DEF Size, Instructions, References
        <5>3. Ahead[j] = Ahead[j - 1]
          BY <3>4, <5>2
        <5> QED BY <3>2, <3>3, <4>1, <5>1, <5>3
      <4> QED BY <4>2, <4>3
    <3> QED BY <3>5, <3>6
  <2> QED BY <2>1, <2>2
<1>5. 0 .. n \subseteq T
  <2>1. 0 \in T /\ \A i \in 1 .. n : i - 1 \in T => i \in T
    BY <1>0, <1>4
  <2> HIDE DEF T, n
  <2> QED BY <1>0, <2>1, Upward
<1>6. k \in T /\ k # 0
  BY <1>0, <1>5
<1> QED BY <1>6

\* What the second pass makes of a reference to a label.
LEMMA LabelFound ==
    ASSUME PassInvariant, mode = "second", NEW k \in DOMAIN source, NEW l \in DOMAIN source,
           source[k].kind \in {"bra", "bras", "jmp", "lea"}, source[l].kind = "label",
           source[l].label = source[k].name, NEW at
    PROVE  Target(source[k], at) = address[l] /\ address[l] \in Addr
<1>1. source[l] \in Lines /\ l \in 1 .. Len(source) /\ address[l] \in Addr
  BY DEF PassInvariant, TypeOK
<1>2. Settled(l)
  BY <1>1 DEF PassInvariant, Emitted
<1>3. source[k].name # NoName
  BY <1>1, AssemblerAssumption
<1>4. Known(source[k].name) /\ symbols[source[k].name] = address[l]
  BY <1>2 DEF Settled
<1> QED BY <1>1, <1>3, <1>4 DEF Target

LEMMA StoreLands ==
    ASSUME LandInvariant, Store
    PROVE  ReferencesLand'
<1> DEFINE n == Len(source)
<1>0. /\ mode = "second" /\ TypeOK /\ UNCHANGED <<source, base, output>>
      /\ memory' = Stored(base, output)
      /\ outcome' = IF Reaches(base, Len(output)) THEN "loaded" ELSE "faulted"
  BY DEF Store, LandInvariant, PassInvariant
<1>1. /\ n \in Nat /\ DOMAIN source = 1 .. n /\ pos = n + 1 /\ Len(output) \in Nat
      /\ base \in Addr /\ base \in Nat
      /\ \A i \in 1 .. n : source[i] \in Lines /\ source[i] \in Entry /\ address[i] \in Addr
  <2>1. pos <= n + 1 /\ pos > n
    BY <1>0 DEF LandInvariant, Written, Store
  <2> QED BY <1>0, <2>1, AssemblerAssumption DEF TypeOK, Addr
<1>2. Ahead' = Ahead /\ \A k : Landing(k)' = Landing(k)
  BY <1>0 DEF Ahead, Landing
<1>3. /\ \A i \in 1 .. n : Ahead[i] = Ahead[i - 1] + Size(source[i])
      /\ \A i \in 0 .. n : Ahead[i] \in Nat
  BY <1>1, AheadFacts
<1> SUFFICES ASSUME Reaches(base, Len(output)), SingleOrg, Anchored, Len(output) <= Top + 1,
                    NEW k \in 1 .. n, NEW l \in 1 .. n,
                    source[k].kind \in {"bra", "bras", "jmp", "lea"},
                    source[l].kind = "label", source[l].label = source[k].name,
                    \/ source[k].kind \in {"jmp", "bras"}
                    \/ Distance(Landing(k), Landing(l)) \in -Near .. Near - 1
             PROVE  Reference(Landing(k), source[k])' = Landing(l)
  <2>1. (outcome = "loaded")' => Reaches(base, Len(output))
    BY <1>0
  <2>2. /\ (\A i \in DOMAIN source : source[i].kind = "org" => i = 1)' => SingleOrg
        /\ Anchored' => Anchored
        /\ (Len(output) <= Top + 1)' => Len(output) <= Top + 1
    BY <1>0 DEF SingleOrg, Anchored
  <2> QED BY <1>0, <1>1, <1>2, <2>1, <2>2 DEF ReferencesLand
<1> DEFINE e == source[k]
           at == Landing(k)
           t == Landing(l)
           d == Distance(at, t)
           o == Ahead[k - 1]
           code == Encode(e, at)
<1>4. at = address[k] /\ t = address[l] /\ at \in Addr /\ t \in Addr
  <2>1. PassInvariant /\ Based
    BY DEF LandInvariant
  <2>2. k \in DOMAIN source /\ l \in DOMAIN source /\ source[k].kind # "org" /\ source[l].kind # "org"
    BY <1>1
  <2>3. address[k] = Landing(k) /\ address[l] = Landing(l)
    BY <1>0, <2>1, <2>2, AddressLands
  <2> QED BY <1>1, <2>3
<1>5. Target(e, at) = t
  <2>1. PassInvariant /\ k \in DOMAIN source /\ l \in DOMAIN source
    BY <1>1 DEF LandInvariant
  <2> QED BY <1>0, <1>4, <2>1, LabelFound
<1>6. /\ ~Refuses(e, at) /\ o \in Nat /\ o + Size(e) <= Len(output)
      /\ \A i \in 1 .. Size(e) : output[o + i] = code[i]
  <2>1. k \in 1 .. pos - 1 /\ k - 1 \in 0 .. n
    BY <1>1
  <2>2. EntryWritten(k)
    BY <1>0, <2>1 DEF LandInvariant, Written
  <2>3. e.kind \in Instructions
    BY DEF Instructions, References
  <2>4. Ahead[k] = o + Size(e) /\ o \in Nat
    BY <1>3, <2>1
  <2> QED BY <1>4, <2>2, <2>3, <2>4 DEF EntryWritten
<1>7. ASSUME NEW i \in 1 .. Size(e) PROVE memory'[Forward(at, i - 1)] = code[i]
  <2>1. Size(e) \in Nat
    BY SizeType
  <2>2. o + i \in 1 .. Len(output) /\ i \in Nat /\ o \in Nat
    BY <1>1, <1>6, <2>1
  <2>3. Stored(base, output)[Forward(base, (o + i) - 1)] = output[o + i]
    BY <1>1, <2>2, StoredAt
  <2>4. Forward(at, i - 1) = Forward(base, o + (i - 1))
    <3>1. o \in Int /\ i - 1 \in Int
      BY <2>2
    <3>2. at = Forward(base, o)
      BY DEF Landing
    <3> HIDE DEF at, o
    <3> QED BY <1>1, <3>1, <3>2, ForwardTwice
  <2>5. (o + i) - 1 = o + (i - 1)
    BY <2>2
  <2> QED BY <1>0, <1>6, <2>3, <2>4, <2>5
<1>8. /\ d \in Int /\ Forward(at, 1 + d) = t
  BY <1>4, DistanceLeads
<1>9. Forward(at, 0) = at /\ 1 - 1 = 0 /\ 2 - 1 = 1 /\ 3 - 1 = 2
  <2>1. at = Forward(base, o) /\ o \in Int /\ 0 \in Int /\ o + 0 = o
    BY <1>6 DEF Landing
  <2> HIDE DEF at, o
  <2>2. Forward(at, 0) = Forward(base, o + 0)
    BY <1>1, <2>1, ForwardTwice
  <2> QED BY <2>1, <2>2
<1>10. Reference(at, e)' =
         CASE e.kind \in {"bra", "lea"} -> Forward(at, 1 + Signed(memory'[Forward(at, 1)].value, Near))
           [] e.kind = "bras" -> Forward(at, 1 + Signed(memory'[at].value, Short))
           [] OTHER -> memory'[Forward(at, 1)].value * 2 * Near + memory'[Forward(at, 2)].value
  BY <1>0, <1>2 DEF Reference
<1> HIDE DEF at, t, d, o
<1>11. CASE e.kind \in {"bra", "lea"}
  <2>1. code = <<Op(e.kind, 0), Field(Low(d))>> /\ Size(e) = 2
    BY <1>5, <1>11 DEF Encode, Size, ShortAbsolute, d
  <2>2. memory'[Forward(at, 1)] = Field(Low(d))
    <3>1. 2 \in 1 .. Size(e) /\ code[2] = Field(Low(d))
      BY <2>1
    <3> HIDE DEF code, e
    <3> QED BY <1>7, <1>9, <3>1
  <2>3. d \in -Near .. Near - 1
    BY <1>11 DEF d, at, t
  <2>4. Signed(Low(d), Near) = d
    BY <2>3, SignedIs, AssemblerAssumption DEF Low
  <2>5. Field(Low(d)).value = Low(d)
    BY DEF Field
  <2> QED BY <1>8, <1>10, <1>11, <2>2, <2>4, <2>5 DEF at, t
<1>12. CASE e.kind = "bras"
  <2>1. code = <<Op(e.kind, d % (2 * Short))>> /\ Size(e) = 1
    BY <1>5, <1>12 DEF Encode, Size, ShortAbsolute, d
  <2>2. memory'[at] = Op(e.kind, d % (2 * Short))
    <3>1. 1 \in 1 .. Size(e) /\ code[1] = Op(e.kind, d % (2 * Short))
      BY <2>1
    <3> HIDE DEF code, e
    <3> QED BY <1>7, <1>9, <3>1
  <2>3. d \in -Short .. Short - 1
    BY <1>5, <1>6, <1>12 DEF Refuses, d
  <2>4. Signed(d % (2 * Short), Short) = d
    BY <2>3, SignedIs, AssemblerAssumption
  <2>5. Op(e.kind, d % (2 * Short)).value = d % (2 * Short)
    BY DEF Op
  <2> QED BY <1>8, <1>10, <1>12, <2>2, <2>4, <2>5 DEF at, t
<1>13. CASE e.kind = "jmp"
  <2>0. e.name # NoName
    BY <1>1, AssemblerAssumption
  <2>1. code = <<Op(e.kind, 0), Field(High(t)), Field(Low(t))>> /\ Size(e) = 3
    BY <1>0, <1>5, <1>13, <2>0 DEF Encode, Size, ShortAbsolute
  <2>2. memory'[Forward(at, 1)] = Field(High(t)) /\ memory'[Forward(at, 2)] = Field(Low(t))
    <3>1. /\ 2 \in 1 .. Size(e) /\ code[2] = Field(High(t))
          /\ 3 \in 1 .. Size(e) /\ code[3] = Field(Low(t))
      BY <2>1
    <3> HIDE DEF code, e
    <3> QED BY <1>7, <1>9, <3>1
  <2>3. High(t) * 2 * Near + Low(t) = t
    <3>1. t \in Nat
      BY <1>4, AssemblerAssumption DEF Addr
    <3> QED BY <3>1, HalvesMeet
  <2>4. Field(Low(t)).value = Low(t) /\ Field(High(t)).value = High(t)
    BY DEF Field
  <2> QED BY <1>10, <1>13, <2>2, <2>3, <2>4 DEF at, t
<1> QED BY <1>11, <1>12, <1>13

-------------------------------------------------------------------------------
(* The steps keep what the references rest on. *)

\* As long as the symbols stay, an entry means the same.
LEMMA MeansTheSame ==
    ASSUME UNCHANGED <<mode, source, symbols, address>>
    PROVE  /\ Ahead' = Ahead /\ (Anchored' <=> Anchored)
           /\ \A k : /\ AddressLiteral(source[k])' = AddressLiteral(source[k])
                     /\ Encode(source[k], address[k])' = Encode(source[k], address[k])
                     /\ Refuses(source[k], address[k])' <=> Refuses(source[k], address[k])
<1>1. Ahead' = Ahead /\ (Anchored' <=> Anchored)
  BY DEF Ahead, Anchored
<1>2. \A k : /\ AddressLiteral(source[k])' = AddressLiteral(source[k])
             /\ Immediate(source[k])' = Immediate(source[k])
  BY DEF AddressLiteral, Immediate, Expression, Atom, Known
<1>3. \A k : Target(source[k], address[k])' = Target(source[k], address[k])
  BY <1>2 DEF Target, Known
<1>4. \A k : Encode(source[k], address[k])' = Encode(source[k], address[k])
  BY <1>3 DEF Encode, ShortAbsolute
<1>5. \A k : Refuses(source[k], address[k])' <=> Refuses(source[k], address[k])
  BY <1>3 DEF Refuses
<1> QED BY <1>1, <1>2, <1>4, <1>5

\* A step of the first pass behind which the base is still where it was.
LEMMA BasedStep ==
    ASSUME PassInvariant, Based, mode = "first", pos <= Len(source), Step, Note, base' = base,
           pos > 1 \/ source[1].kind # "org", SymbolsKept,
           \A m : NewlyKnown(m) => Reached.kind \in {"equ", "label"} /\ m = Reached.label
    PROVE  Based'
<1>1. /\ source' = source /\ pos' = pos + 1 /\ mode' = "first"
      /\ pos \in Nat \ {0} /\ address'[pos] = pc
      /\ \A k \in DOMAIN source : k # pos => address'[k] = address[k]
      /\ 1 \in DOMAIN source /\ base \in Addr
  BY StepFirst DEF PassInvariant, TypeOK
<1>2. CASE source[1].kind = "org"
  <2>1. Anchored => AddressLiteral(source[1]) = base /\ base # Fail
    BY <1>1, <1>2, AssemblerAssumption DEF Based, Addr, Fail
  <2>2. pos > 1 /\ 1 \in 1 .. pos - 1
    BY <1>1, <1>2
  <2>3. Anchored' <=> Anchored
    BY <1>1 DEF Anchored
  <2>4. TypeOK
    BY DEF PassInvariant
  <2>5. Anchored' => AddressLiteral(source[1])' = base'
    BY <1>1, <1>2, <2>1, <2>2, <2>3, <2>4, AnchoredKeeps
  <2> QED BY <1>1, <1>2, <2>5 DEF Based
<1>3. CASE source[1].kind # "org"
  <2>1. CASE pos = 1
    BY <1>1, <1>3, <2>1 DEF Based, PassInvariant, Measured
  <2>2. CASE pos # 1
    <3>1. address'[1] = base'
      BY <1>1, <1>3, <2>2 DEF Based
    <3> QED BY <1>1, <1>3, <3>1 DEF Based
  <2> QED BY <2>1, <2>2
<1> QED BY <1>2, <1>3

\* A step of the second pass, by the words it appends.
LEMMA WrittenStep ==
    ASSUME PassInvariant, Written, mode = "second", pos <= Len(source), Step,
           UNCHANGED <<symbols, address>>,
           Len(output') = Len(output) + Size(Reached),
           \A i \in 1 .. Len(output) : output'[i] = output[i],
           Anchored /\ Reached.kind \in Instructions =>
               /\ ~Refuses(Reached, address[pos])
               /\ \A i \in 1 .. Size(Reached) :
                     output'[Len(output) + i] = Encode(Reached, address[pos])[i]
    PROVE  Written'
<1> DEFINE n == Len(source)
<1>1. /\ n \in Nat /\ pos \in 1 .. n /\ pos' = pos + 1 /\ pos' - 1 = pos
      /\ UNCHANGED <<mode, source>> /\ Len(output) \in Nat
  BY DEF PassInvariant, TypeOK, Step
<1>2. /\ Ahead' = Ahead /\ (Anchored' <=> Anchored)
      /\ \A k : /\ Encode(source[k], address[k])' = Encode(source[k], address[k])
                /\ Refuses(source[k], address[k])' <=> Refuses(source[k], address[k])
  BY <1>1, MeansTheSame
<1>3. /\ \A i \in 1 .. n : Ahead[i] = Ahead[i - 1] + Size(source[i])
      /\ \A i \in 0 .. n : Ahead[i] \in Nat
  <2>1. source \in Seq(Lines) /\ Lines \subseteq Entry
    BY AssemblerAssumption DEF PassInvariant, TypeOK
  <2> QED BY <2>1, AheadFacts
<1>4. /\ Len(output) = Ahead[pos - 1]
      /\ Anchored => \A k \in 1 .. pos - 1 : EntryWritten(k)
  BY DEF Written
<1>5. \A k : Size(source[k]) \in Nat
  BY SizeType
<1>6. Len(output') = Ahead'[pos' - 1]
  BY <1>1, <1>2, <1>3, <1>4 DEF Reached
<1>7. ASSUME Anchored, NEW k \in 1 .. pos PROVE EntryWritten(k)'
  <2>1. /\ Ahead[k] = Ahead[k - 1] + Size(source[k]) /\ Ahead[k] \in Nat /\ Ahead[k - 1] \in Nat
        /\ Size(source[k]) \in Nat
    BY <1>1, <1>3, <1>5
  <2>2. CASE k = pos
    <3>1. Ahead[k] = Len(output') /\ Ahead[k - 1] = Len(output) /\ Reached = source[k]
      BY <1>1, <1>2, <1>6, <2>2, <1>4 DEF Reached
    <3>2. Ahead[k] <= Len(output')
      BY <2>1, <3>1
    <3> QED BY <1>1, <1>2, <1>7, <2>2, <3>1, <3>2 DEF EntryWritten
  <2>3. CASE k # pos
    <3>1. k \in 1 .. pos - 1
      BY <1>1, <2>3
    <3>2. EntryWritten(k)
      BY <1>4, <1>7, <3>1
    <3>3. Ahead[k] <= Len(output') /\ Ahead[k] <= Len(output)
      BY <1>1, <1>5, <2>1, <3>2 DEF EntryWritten, Reached
    <3>4. \A i \in 1 .. Size(source[k]) : output'[Ahead[k - 1] + i] = output[Ahead[k - 1] + i]
      <4>1. ASSUME NEW a \in Nat, NEW s \in Nat, NEW l \in Nat, a + s <= l,
                   NEW i \in 1 .. s
            PROVE  a + i \in 1 .. l
        BY <4>1
      <4>2. Len(output) \in Nat /\ Ahead[k - 1] + Size(source[k]) <= Len(output)
        BY <1>1, <2>1, <3>3
      <4>3. ASSUME NEW i \in 1 .. Size(source[k])
            PROVE  Ahead[k - 1] + i \in 1 .. Len(output)
        BY <2>1, <4>1, <4>2
      <4>4. \A i \in 1 .. Len(output) : output'[i] = output[i]
        BY <1>1 DEF Step
      <4> QED BY <4>3, <4>4
    <3> QED BY <1>1, <1>2, <3>2, <3>3, <3>4 DEF EntryWritten
  <2> QED BY <2>2, <2>3
<1> QED BY <1>1, <1>2, <1>6, <1>7 DEF Written

LEMMA LandInit == Init => LandInvariant
<1> SUFFICES ASSUME Init PROVE LandInvariant
  OBVIOUS
<1>1. mode = "idle" /\ outcome = "none"
  BY DEF Init
<1> QED BY <1>1, PassInit DEF LandInvariant, Based, Written, Ended, ReferencesLand

LEMMA EndedStep ==
    ASSUME Ended, [Next]_vars
    PROVE  /\ Ended'
           /\ Store \/ UNCHANGED vars \/ outcome' # "loaded"
<1>1. Refuse => mode' = "idle" /\ outcome' = "refused"
  BY DEF Refuse
<1>2. Step => mode' = mode /\ outcome' = outcome
  BY DEF Step
<1>3. CASE FirstPass \/ SecondPass
  <2>1. mode # "idle" /\ (Refuse \/ Step)
    BY <1>3 DEF FirstPass, SecondPass, Org, Equ, Label, Measure, Skip, Emit, Walks
  <2> QED BY <1>1, <1>2, <2>1 DEF Ended
<1>4. ASSUME NEW a \in Starts, StartSession(a) PROVE Ended' /\ outcome' # "loaded"
  BY <1>4 DEF Ended, StartSession
<1>5. ASSUME NEW n \in 1 .. MaxLines, NEW a \in Starts, NEW text \in [1 .. n -> Lines],
             LoadAsm(text, a)
      PROVE  Ended' /\ outcome' # "loaded"
  BY <1>5 DEF Ended, LoadAsm
<1>6. ASSUME NEW e \in Lines, SessionLine(e) PROVE Ended' /\ outcome' # "loaded"
  BY <1>6 DEF Ended, SessionLine
<1>7. CASE EndFirstPass
  BY <1>7 DEF Ended, EndFirstPass
<1>8. CASE EndSession
  BY <1>8 DEF Ended, EndSession
<1>9. CASE Store
  BY <1>9 DEF Ended, Store
<1>10. CASE UNCHANGED vars
  BY <1>10 DEF Ended, vars
<1> QED BY <1>3, <1>4, <1>5, <1>6, <1>7, <1>8, <1>9, <1>10 DEF Next

LEMMA LandStep ==
    ASSUME LandInvariant, [Next]_vars
    PROVE  Based' /\ Written'
<1>0. PassInvariant /\ TypeOK /\ Based /\ Written /\ Len(source) \in Nat /\ pos \in Nat \ {0}
  BY DEF LandInvariant, PassInvariant, TypeOK
<1>1. ASSUME mode' \in {"idle", "session"} PROVE Based' /\ Written'
  BY <1>1 DEF Based, Written
<1>2. ASSUME NEW a \in Starts, StartSession(a) PROVE Based' /\ Written'
  BY <1>1, <1>2 DEF StartSession
<1>3. ASSUME NEW n \in 1 .. MaxLines, NEW a \in Starts, NEW text \in [1 .. n -> Lines],
             LoadAsm(text, a)
      PROVE  Based' /\ Written'
  <2>1. pos' = 1 /\ output' = <<>> /\ mode' \in {"idle", "first"}
    BY <1>3 DEF LoadAsm
  <2> QED BY <2>1 DEF Based, Written
<1>4. Refuse => Based' /\ Written'
  BY <1>1 DEF Refuse
<1>5. ASSUME mode = "first", Step, output' = output PROVE Written'
  BY <1>0, <1>5 DEF Written, Step
<1>6. ASSUME Org, mode = "first" PROVE Based' /\ Written'
  <2>1. CASE AddressLiteral(Reached) = Fail
    BY <1>4, <1>6, <2>1 DEF Org
  <2>2. CASE AddressLiteral(Reached) # Fail
    <3>1. /\ Step /\ Note /\ UNCHANGED symbols /\ pos <= Len(source) /\ output' = output
          /\ Reached.kind = "org" /\ base' = IF pos = 1 THEN AddressLiteral(Reached) ELSE base
      BY <1>6, <2>2 DEF Org
    <3>2. CASE pos = 1
      <4>1. source' = source /\ Reached = source[1]
        BY <3>1, <3>2 DEF Reached, Step
      <4>2. AddressLiteral(source[1])' = AddressLiteral(source[1])
        BY <3>1, <4>1 DEF AddressLiteral, Expression, Atom, Known
      <4>3. AddressLiteral(source[1])' = base' /\ source'[1].kind = "org" /\ mode' = "first"
        BY <1>6, <3>1, <3>2, <4>1, <4>2 DEF Step
      <4> QED BY <1>5, <1>6, <3>1, <4>3 DEF Based
    <3>3. CASE pos # 1
      <4>1. SymbolsKept /\ \A m : ~NewlyKnown(m)
        BY <3>1 DEF Known, SymbolsKept, NewlyKnown
      <4>2. Based'
        BY <1>0, <1>6, <3>1, <3>3, <4>1, BasedStep
      <4> QED BY <1>5, <1>6, <3>1, <4>2
    <3> QED BY <3>2, <3>3
  <2> QED BY <2>1, <2>2
<1>7. ASSUME Equ PROVE Based' /\ Written'
  <2>1. CASE Known(Reached.label) \/ Immediate(Reached) = Fail
    BY <1>4, <1>7, <2>1 DEF Equ
  <2>2. CASE ~(Known(Reached.label) \/ Immediate(Reached) = Fail)
    <3>1. /\ Step /\ Note /\ base' = base /\ output' = output /\ pos <= Len(source)
          /\ mode = "first" /\ Reached.kind = "equ" /\ ~Known(Reached.label)
          /\ Define(Reached.label, Immediate(Reached))
      BY <1>7, <2>2 DEF Equ, Walks
    <3>2. SymbolsKept /\ \A m : NewlyKnown(m) => m = Reached.label
      BY <3>1, DefineKeeps
    <3>3. pos > 1 \/ source[1].kind # "org"
      BY <1>0, <3>1 DEF Reached
    <3> QED BY <1>0, <1>5, <3>1, <3>2, <3>3, BasedStep
  <2> QED BY <2>1, <2>2
<1>8. ASSUME Label PROVE Based' /\ Written'
  <2>1. CASE Known(Reached.label)
    BY <1>4, <1>8, <2>1 DEF Label
  <2>2. CASE ~Known(Reached.label)
    <3>1. /\ Step /\ Note /\ base' = base /\ output' = output /\ pos <= Len(source)
          /\ mode = "first" /\ Reached.kind = "label" /\ Define(Reached.label, pc)
      BY <1>8, <2>2 DEF Label, Walks
    <3>2. SymbolsKept /\ \A m : NewlyKnown(m) => m = Reached.label
      BY <2>2, <3>1, DefineKeeps
    <3>3. pos > 1 \/ source[1].kind # "org"
      BY <1>0, <3>1 DEF Reached
    <3> QED BY <1>0, <1>5, <3>1, <3>2, <3>3, BasedStep
  <2> QED BY <2>1, <2>2
<1>9. ASSUME Measure PROVE Based' /\ Written'
  <2>1. CASE Refuses(Reached, pc)
    BY <1>4, <1>9, <2>1 DEF Measure
  <2>2. CASE ~Refuses(Reached, pc)
    <3>1. /\ Step /\ Note /\ base' = base /\ output' = output /\ UNCHANGED symbols
          /\ pos <= Len(source) /\ mode = "first" /\ Reached.kind \in Instructions
      BY <1>9, <2>2 DEF Measure, Walks
    <3>2. SymbolsKept /\ \A m : ~NewlyKnown(m)
      BY <3>1 DEF Known, SymbolsKept, NewlyKnown
    <3>3. pos > 1 \/ source[1].kind # "org"
      BY <1>0, <3>1 DEF Reached, Instructions, References
    <3> QED BY <1>0, <1>5, <3>1, <3>2, <3>3, BasedStep
  <2> QED BY <2>1, <2>2
<1>10. ASSUME EndFirstPass PROVE Based' /\ Written'
  <2>1. /\ mode = "first" /\ pos > Len(source) /\ mode' = "second" /\ pos' = 1
        /\ UNCHANGED <<source, base, symbols, address, output>> /\ output = <<>>
    BY <1>0, <1>10 DEF EndFirstPass, Written
  <2>2. Based'
    <3>1. Len(source) > 0 => pos > 1
      BY <1>0, <2>1
    <3>2. AddressLiteral(source[1])' = AddressLiteral(source[1]) /\ (Anchored' <=> Anchored)
      BY <2>1 DEF AddressLiteral, Expression, Atom, Known, Anchored
    <3> QED BY <2>1, <3>1, <3>2, <1>0 DEF Based
  <2>3. Ahead' = Ahead /\ Ahead[0] = 0
    <3>1. source \in Seq(Lines) /\ Lines \subseteq Entry
      BY <1>0, AssemblerAssumption DEF TypeOK
    <3> QED BY <2>1, <3>1, AheadFacts DEF Ahead
  <2>4. Written'
    <3>1. Len(output') = 0 /\ 1 - 1 = 0 /\ 1 .. 0 = {} /\ 1 <= Len(source) + 1
      BY <1>0, <2>1
    <3>2. Len(output') = Ahead'[pos' - 1] /\ 1 .. pos' - 1 = {} /\ pos' <= Len(source') + 1
      BY <2>1, <2>3, <3>1
    <3> QED BY <2>1, <3>2 DEF Written
  <2> QED BY <2>2, <2>4
<1>11. ASSUME mode = "second", pos <= Len(source), Step, UNCHANGED <<base, symbols, address>>
       PROVE  Based'
  <2>1. UNCHANGED <<mode, source>>
    BY <1>11 DEF Step
  <2>2. AddressLiteral(source[1])' = AddressLiteral(source[1]) /\ (Anchored' <=> Anchored)
    BY <1>11, <2>1, MeansTheSame
  <2> QED BY <1>0, <1>11, <2>1, <2>2 DEF Based
<1>12. ASSUME mode = "second", pos <= Len(source), Step, UNCHANGED <<symbols, address, output>>,
              Reached.kind \in {"org", "equ", "label"}
       PROVE  Written'
  <2>1. Size(Reached) = 0 /\ Reached.kind \notin Instructions
    BY <1>12 DEF Size, Instructions, References
  <2>2. Len(output) \in Nat
    BY <1>0 DEF TypeOK
  <2>3. Len(output') = Len(output) + Size(Reached)
    BY <1>12, <2>1, <2>2
  <2> QED BY <1>0, <1>12, <2>1, <2>3, WrittenStep
<1>13. ASSUME Org, mode = "second" PROVE Based' /\ Written'
  <2>1. CASE AddressLiteral(Reached) = Fail
    BY <1>4, <1>13, <2>1 DEF Org
  <2>2. CASE AddressLiteral(Reached) # Fail
    <3>1. /\ Step /\ UNCHANGED <<base, symbols, address, output>> /\ pos <= Len(source)
          /\ Reached.kind = "org"
      BY <1>13, <2>2 DEF Org, Note
    <3> QED BY <1>11, <1>12, <1>13, <3>1
  <2> QED BY <2>1, <2>2
<1>14. ASSUME Skip PROVE Based' /\ Written'
  BY <1>11, <1>12, <1>14 DEF Skip, Walks
<1>15. ASSUME Emit PROVE Based' /\ Written'
  <2>1. CASE Refuses(Reached, pc)
    BY <1>4, <1>15, <2>1 DEF Emit
  <2>2. CASE ~Refuses(Reached, pc)
    <3> DEFINE code == Encode(Reached, pc)
    <3>1. /\ mode = "second" /\ Step /\ UNCHANGED <<base, symbols, address>> /\ pos <= Len(source)
          /\ Reached.kind \in Instructions /\ pc \in Addr /\ output' = output \o code
      BY <1>0, <1>15, <2>2 DEF Emit, Walks, TypeOK
    <3>2. Reached \in Lines /\ Reached \in Entry
      BY <1>0, <3>1, ReachedTyped
    <3>3. code \in Seq(Word) /\ output \in Seq(Word) /\ Len(code) = Size(Reached)
      BY <1>0, <2>2, <3>1, <3>2, EncodeTyped, EncodeSized DEF TypeOK
    <3>4. Anchored => pc = address[pos]
      BY <1>0, <3>1 DEF PassInvariant, Emitted, Instructions, References
    <3>5. /\ Len(output \o code) = Len(output) + Len(code)
          /\ \A i \in 1 .. Len(output) : (output \o code)[i] = output[i]
          /\ \A i \in 1 .. Len(code) : (output \o code)[Len(output) + i] = code[i]
      <4> HIDE DEF code
      <4> QED BY <3>3
    <3>6. Written'
      BY <1>0, <2>2, <3>1, <3>3, <3>4, <3>5, WrittenStep
    <3> QED BY <1>11, <3>1, <3>6
  <2> QED BY <2>1, <2>2
<1>16. CASE UNCHANGED vars
  <2>1. UNCHANGED <<mode, source, symbols, address, base, output, pos>>
    BY <1>16 DEF vars
  <2>2. /\ Ahead' = Ahead /\ (Anchored' <=> Anchored)
        /\ \A k : /\ AddressLiteral(source[k])' = AddressLiteral(source[k])
                  /\ Encode(source[k], address[k])' = Encode(source[k], address[k])
                  /\ Refuses(source[k], address[k])' <=> Refuses(source[k], address[k])
    BY <2>1, MeansTheSame
  <2>3. \A k : EntryWritten(k)' <=> EntryWritten(k)
    BY <2>1, <2>2 DEF EntryWritten
  <2> QED BY <1>0, <2>1, <2>2, <2>3 DEF Based, Written
<1>17. Store \/ EndSession => mode' = "idle"
  BY DEF Store, EndSession
<1>18. ASSUME NEW e \in Lines, SessionLine(e) PROVE Based' /\ Written'
  BY <1>1, <1>18 DEF SessionLine
<1>19. Org => mode \in {"first", "second"}
  BY DEF Org
<1> QED
  BY <1>1, <1>2, <1>3, <1>6, <1>7, <1>8, <1>9, <1>10, <1>13, <1>14, <1>15, <1>16, <1>17,
     <1>18, <1>19
  DEF Next, FirstPass, SecondPass

LEMMA LandKept ==
    ASSUME ReferencesLand, UNCHANGED vars
    PROVE  ReferencesLand'
<1>1. UNCHANGED <<mode, source, base, output, memory, outcome>>
  BY DEF vars
<1>2. Ahead' = Ahead
  BY <1>1 DEF Ahead
<1>3. \A k : Landing(k)' = Landing(k)
  BY <1>1, <1>2 DEF Landing
<1>4. \A k : Reference(Landing(k), source[k])' = Reference(Landing(k), source[k])
  BY <1>1, <1>3 DEF Reference
<1>5. \A k, l : Distance(Landing(k), Landing(l))' = Distance(Landing(k), Landing(l))
  BY <1>3 DEF Distance
<1>6. Anchored' <=> Anchored
  BY <1>1 DEF Anchored
<1> QED BY <1>1, <1>3, <1>4, <1>5, <1>6 DEF ReferencesLand

\* Whatever an anchored source holds behind an org at its start, once it is loaded each
\* branch, jump and lea to one of its labels goes, in memory, to the place where
\* the code behind the label has landed; the displacement of a branch with a
\* word and of lea is proved to lead there as far as a word reaches.
THEOREM LabelsAreReached == Spec => []ReferencesLand
<1>1. LandInvariant /\ [Next]_vars => LandInvariant'
  <2> SUFFICES ASSUME LandInvariant, [Next]_vars PROVE LandInvariant'
    OBVIOUS
  <2>1. PassInvariant'
    BY StepTyped, PassStep DEF LandInvariant, PassInvariant
  <2>2. Based' /\ Written'
    BY LandStep
  <2>3. Ended' /\ (Store \/ UNCHANGED vars \/ outcome' # "loaded")
    BY EndedStep DEF LandInvariant
  <2>4. ReferencesLand'
    <3>1. outcome' # "loaded" => ReferencesLand'
      BY DEF ReferencesLand
    <3> QED BY <2>3, <3>1, StoreLands, LandKept DEF LandInvariant
  <2> QED BY <2>1, <2>2, <2>3, <2>4 DEF LandInvariant
<1>2. LandInvariant => ReferencesLand
  BY DEF LandInvariant
<1> QED BY <1>1, <1>2, LandInit, PTL DEF Spec

=============================================================================
