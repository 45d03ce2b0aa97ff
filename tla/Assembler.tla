------------------------------- MODULE Assembler -------------------------------
(* The two-pass assembler of the monitor and the commands that store its code. *)
(*                                                                            *)
(* src/monitor/assembler.js: assembleText walks the entries of a source twice. *)
(* The first pass gives every label its address and lets references to labels *)
(* that are still unknown pass with a stand-in; the second pass encodes. The  *)
(* command loadasm stores the code only if both passes succeed. A session     *)
(* (command a) assembles and stores line by line, without symbols.            *)
(*                                                                            *)
(* An address counts words. Entries are the forms that differ in how they     *)
(* refer to a symbol: bra for the branches with a word and dbra, bras for the *)
(* short ones, jmp for jmp, jsr and a movea.l that names one, lea, long for   *)
(* an operand with .l and a movea.l of a number, imm for an immediate and for *)
(* data, plain for whatever refers to nothing, bad for a mnemonic that is not *)
(* allowed. Names that read as hex digits are numbers to some of them and     *)
(* symbols to others, and to an org one or the other as it is a sum or not.   *)
EXTENDS Integers, Sequences

CONSTANTS
    Names,     \* symbols of a source
    Reading,   \* what the names that are hex digits read as
    Top,       \* the address mask
    Near,      \* displacements of a word are -Near .. Near - 1
    Short,     \* those of a short branch are -Short .. Short - 1 without 0
    Lines,     \* entries a source may hold
    MaxLines,  \* bound: entries of a source, lines of a session
    Starts,    \* addresses given to the commands
    Absent     \* addresses that refuse a store

Addr == 0 .. Top
NoName == "none"
References == {"bra", "bras", "jmp", "lea", "long", "imm"}
Instructions == References \cup {"plain", "bad"}
Entry == [kind : Instructions \cup {"org", "equ", "label"},
          label : Names \cup {NoName},   \* the symbol it defines
          name : Names \cup {NoName},    \* the symbol its operand names
          value : Addr,                  \* its operand otherwise
          sum : BOOLEAN]                 \* whether value is added to the name

ASSUME AssemblerAssumption ==
    /\ Top \in Nat /\ Near \in Nat \ {0} /\ Short \in Nat \ {0} /\ MaxLines \in Nat
    /\ NoName \notin Names
    /\ DOMAIN Reading \subseteq Names /\ \A n \in DOMAIN Reading : Reading[n] \in Addr
    /\ Lines \subseteq Entry /\ Starts \subseteq Addr
    /\ \A e \in Lines : e.kind \in {"equ", "label"} => e.label # NoName
    /\ \A e \in Lines : e.sum => e.name # NoName /\ e.kind \in {"org", "equ", "long", "imm"}

VARIABLES
    mode,     \* idle, first (pass), second (pass), session
    source,   \* the entries being assembled
    pos,      \* the entry a pass has reached, or the line of a session
    base, pc,
    symbols,  \* currentSymbols
    address,  \* entry.address: where the first pass came to each entry
    output,   \* bytes assembled so far
    memory,   \* words the commands have stored
    outcome   \* of the command: none, loaded, refused, faulted, done

passes == <<source, pos, base, pc, symbols, address, output>>
vars == <<mode, source, pos, base, pc, symbols, address, output, memory, outcome>>

Blank == [kind |-> "blank", value |-> 0]
Op(kind, v) == [kind |-> kind, value |-> v]
Field(v) == [kind |-> "field", value |-> v]
Word == [kind : Instructions \cup {"blank", "field"}, value : Nat]

NoSymbols == [n \in {} |-> 0]
Fail == -1

-------------------------------------------------------------------------------
(* Operands. *)

Known(n) == n \in DOMAIN symbols
Reads(n) == n \in DOMAIN Reading

\* Mutant: an address that runs past the last one.
ForwardOn(at, n) == at + n

Forward(at, n) == (at + n) % (Top + 1)

\* expressionAtom: a symbol before hex digits.
Atom(n) ==
    IF Known(n) THEN symbols[n]
    ELSE IF Reads(n) THEN Reading[n]
    ELSE Fail

\* evaluateExpression, of a name alone or a name and a number.
Expression(e) ==
    IF e.sum /\ Atom(e.name) # Fail THEN Forward(Atom(e.name), e.value) ELSE Atom(e.name)

\* parseAddressLiteral: what is hex digits as a whole is a number, and the rest
\* an expression.
AddressLiteral(e) ==
    IF e.name = NoName THEN e.value
    ELSE IF Reads(e.name) /\ ~e.sum THEN Reading[e.name]
    ELSE Expression(e)

\* parseImmediateLiteral: only numbers that no symbol can be come before it.
Immediate(e) ==
    IF e.name = NoName THEN e.value ELSE Expression(e)

\* What the operand of an instruction refers to: resolveLabelReference for the
\* branches and jumps of a source, the encoders for the rest. A branch to an
\* unknown label stands for a branch to itself in the first pass; lea never
\* fails.
Target(e, at) ==
    CASE e.kind \in {"plain", "bad"} -> 0
      [] e.kind = "long" -> AddressLiteral(e)
      [] e.kind = "imm" -> Immediate(e)
      [] e.kind = "lea" -> IF Known(e.name) THEN symbols[e.name] ELSE 0
      [] mode = "session" /\ e.kind \in {"bra", "bras", "jmp"} -> AddressLiteral(e)
      [] OTHER -> IF e.name = NoName THEN e.value
                  ELSE IF Known(e.name) THEN symbols[e.name]
                  ELSE IF mode = "second" THEN Fail
                  ELSE IF e.kind = "jmp" THEN 0
                  ELSE at

\* Mutant: relative to the instruction, not to the word that follows it.
DistanceFromSelf(at, t) ==
    LET d == (t - at) % (Top + 1)
    IN  IF 2 * d > Top THEN d - (Top + 1) ELSE d

\* (target - (address + 2)) | 0
Distance(at, t) ==
    LET d == (t - (at + 1)) % (Top + 1)
    IN  IF 2 * d > Top THEN d - (Top + 1) ELSE d

Low(v) == v % (2 * Near)
High(v) == v \div (2 * Near)

Refuses(e, at) ==
    LET t == Target(e, at)
    IN  \/ e.kind = "bad"
        \/ t = Fail
        \/ /\ e.kind = "bras"
           /\ Distance(at, t) \notin (-Short .. Short - 1) \ {0}

\* A jump to a number takes a word if the number fits one, to a symbol of a
\* source always two.
ShortAbsolute(e, t) ==
    e.kind = "jmp" /\ (e.name = NoName \/ mode = "session") /\ High(t) = 0

\* Mutant: a branch grows short once its label is known and near.
EncodeRelaxed(e, at) ==
    LET t == Target(e, at)
    IN  CASE e.kind = "bra" /\ Distance(at, t) \in (-Short .. Short - 1) \ {0, -1} ->
               <<Op("bras", Distance(at, t) % (2 * Short))>>
          [] e.kind \in {"bra", "lea"} -> <<Op(e.kind, 0), Field(Low(Distance(at, t)))>>
          [] e.kind = "bras" -> <<Op(e.kind, Distance(at, t) % (2 * Short))>>
          [] e.kind = "imm" -> <<Op(e.kind, 0), Field(Low(t))>>
          [] ShortAbsolute(e, t) -> <<Op(e.kind, 1), Field(Low(t))>>
          [] e.kind \in {"jmp", "long"} /\ ~ShortAbsolute(e, t) ->
               <<Op(e.kind, 0), Field(High(t)), Field(Low(t))>>
          [] OTHER -> <<Op(e.kind, 0)>>

\* The words of an instruction: only the short branch looks whether its
\* displacement fits.
Encode(e, at) ==
    LET t == Target(e, at)
    IN  CASE e.kind \in {"bra", "lea"} -> <<Op(e.kind, 0), Field(Low(Distance(at, t)))>>
          [] e.kind = "bras" -> <<Op(e.kind, Distance(at, t) % (2 * Short))>>
          [] e.kind = "imm" -> <<Op(e.kind, 0), Field(Low(t))>>
          [] ShortAbsolute(e, t) -> <<Op(e.kind, 1), Field(Low(t))>>
          [] e.kind \in {"jmp", "long"} /\ ~ShortAbsolute(e, t) ->
               <<Op(e.kind, 0), Field(High(t)), Field(Low(t))>>
          [] OTHER -> <<Op(e.kind, 0)>>

-------------------------------------------------------------------------------
(* assembleText. *)

Reached == source[pos]
Walks(pass) == mode = pass /\ pos <= Len(source)

\* validateLine runs over all entries before the first pass.
LoadAsm(text, a) ==
    /\ mode = "idle" /\ outcome = "none"
    /\ IF \E k \in DOMAIN text : text[k].kind = "bad"
       THEN mode' = mode /\ outcome' = "refused"
       ELSE mode' = "first" /\ outcome' = outcome
    /\ source' = text /\ pos' = 1
    /\ base' = a /\ pc' = a
    /\ symbols' = NoSymbols
    /\ address' = [k \in DOMAIN text |-> 0]
    /\ output' = <<>>
    /\ UNCHANGED memory

\* An error leaves assembleText through its finally; nothing has been stored.
Refuse ==
    /\ mode' = "idle" /\ outcome' = "refused"
    /\ symbols' = NoSymbols
    /\ UNCHANGED <<source, pos, base, pc, address, output, memory>>

Step ==
    /\ pos' = pos + 1
    /\ UNCHANGED <<mode, source, memory, outcome>>

\* The code notes the address of instructions only, and again in the second
\* pass, where PassesAgree says that it is the same.
Note ==
    address' = IF mode = "first" THEN [address EXCEPT ![pos] = pc] ELSE address

Define(n, v) ==
    symbols' = [m \in DOMAIN symbols \cup {n} |-> IF m = n THEN v ELSE symbols[m]]

\* Only an org that is the first entry moves the base of the code.
Org ==
    /\ mode \in {"first", "second"} /\ pos <= Len(source)
    /\ Reached.kind = "org"
    /\ IF AddressLiteral(Reached) = Fail THEN Refuse
       ELSE /\ Step
            /\ pc' = AddressLiteral(Reached)
            /\ base' = IF mode = "first" /\ pos = 1 THEN pc' ELSE base
            /\ Note
            /\ UNCHANGED <<symbols, output>>

Equ ==
    /\ Walks("first") /\ Reached.kind = "equ"
    /\ IF Known(Reached.label) \/ Immediate(Reached) = Fail THEN Refuse
       ELSE /\ Step
            /\ Define(Reached.label, Immediate(Reached))
            /\ Note
            /\ UNCHANGED <<base, pc, output>>

\* A label gets the address of its line. A line with a label and an instruction
\* is two entries here: the label is defined before the operand is looked up.
Label ==
    /\ Walks("first") /\ Reached.kind = "label"
    /\ IF Known(Reached.label) THEN Refuse
       ELSE /\ Step
            /\ Define(Reached.label, pc)
            /\ Note
            /\ UNCHANGED <<base, pc, output>>

Measure ==
    /\ Walks("first") /\ Reached.kind \in Instructions
    /\ IF Refuses(Reached, pc) THEN Refuse
       ELSE /\ Step
            /\ Note
            /\ pc' = Forward(pc, Len(Encode(Reached, pc)))
            /\ UNCHANGED <<base, symbols, output>>

EndFirstPass ==
    /\ mode = "first" /\ pos > Len(source)
    /\ mode' = "second" /\ pos' = 1 /\ pc' = base
    /\ UNCHANGED <<source, base, symbols, address, output, memory, outcome>>

\* The second pass takes the labels as they are.
Skip ==
    /\ Walks("second") /\ Reached.kind \in {"equ", "label"}
    /\ Step
    /\ UNCHANGED <<base, pc, symbols, address, output>>

Emit ==
    /\ Walks("second") /\ Reached.kind \in Instructions
    /\ IF Refuses(Reached, pc) THEN Refuse
       ELSE /\ Step
            /\ output' = output \o Encode(Reached, pc)
            /\ pc' = Forward(pc, Len(Encode(Reached, pc)))
            /\ UNCHANGED <<base, symbols, address>>

-------------------------------------------------------------------------------
(* Storing. *)

\* write8 for one byte after the other: the first refusal ends it.
Reaches(a, k) == \A j \in 1 .. k : Forward(a, j - 1) \notin Absent

Stored(a, words) ==
    [x \in Addr |->
        LET k == 1 + ((x - a) % (Top + 1))
        IN  IF k <= Len(words) /\ Reaches(a, k) THEN words[k] ELSE memory[x]]

\* loadAsmFile stores what assembleText returned, in one piece from its base.
Store ==
    /\ mode = "second" /\ pos > Len(source)
    /\ mode' = "idle"
    /\ memory' = Stored(base, output)
    /\ outcome' = IF Reaches(base, Len(output)) THEN "loaded" ELSE "faulted"
    /\ symbols' = NoSymbols
    /\ UNCHANGED <<source, pos, base, pc, address, output>>

StartSession(a) ==
    /\ mode = "idle" /\ outcome = "none"
    /\ mode' = "session" /\ base' = a /\ pc' = a /\ pos' = 1
    /\ UNCHANGED <<source, symbols, address, output, memory, outcome>>

\* handle: a line that does not assemble is reported and the session goes on; a
\* store that faults leaves the session where it was, its words half written.
SessionLine(e) ==
    /\ mode = "session" /\ pos <= MaxLines /\ e.kind \in Instructions
    /\ pos' = pos + 1
    /\ IF Refuses(e, pc) THEN UNCHANGED <<pc, memory>>
       ELSE LET words == Encode(e, pc)
            IN  /\ memory' = Stored(pc, words)
                /\ pc' = IF Reaches(pc, Len(words)) THEN Forward(pc, Len(words)) ELSE pc
    /\ UNCHANGED <<mode, source, base, symbols, address, output, outcome>>

EndSession ==
    /\ mode = "session"
    /\ mode' = "idle" /\ outcome' = "done"
    /\ UNCHANGED <<passes, memory>>

Init ==
    /\ mode = "idle" /\ outcome = "none"
    /\ source = <<>> /\ pos = 1
    /\ base = 0 /\ pc = 0
    /\ symbols = NoSymbols /\ address = <<>> /\ output = <<>>
    /\ memory = [x \in Addr |-> Blank]

FirstPass == Org \/ Equ \/ Label \/ Measure
SecondPass == Skip \/ Emit

Next ==
    \/ \E a \in Starts : StartSession(a)
    \/ /\ mode = "idle"   \* here too, for TLC to try no sources elsewhere
       /\ \E n \in 1 .. MaxLines, a \in Starts : \E text \in [1 .. n -> Lines] : LoadAsm(text, a)
    \/ FirstPass
    \/ EndFirstPass
    \/ SecondPass
    \/ Store
    \/ \E e \in Lines : SessionLine(e)
    \/ EndSession

Spec == Init /\ [][Next]_vars

-------------------------------------------------------------------------------
(* Properties. *)

\* Whatever the source, addresses stay within the mask, each symbol keeps an
\* address, and assembled words are words.
TypeOK ==
    /\ mode \in {"idle", "first", "second", "session"}
    /\ outcome \in {"none", "loaded", "refused", "faulted", "done"}
    /\ source \in Seq(Lines) /\ pos \in Nat \ {0}
    /\ base \in Addr /\ pc \in Addr
    /\ DOMAIN symbols \subseteq Names /\ \A n \in DOMAIN symbols : symbols[n] \in Addr
    /\ address \in [DOMAIN source -> Addr]
    /\ output \in Seq(Word) /\ memory \in [Addr -> Word]

\* No org adds to a name that a line behind it defines. Only then do its hex
\* digits read as a number in the first pass and as the symbol in the second.
Anchored ==
    \A k, l \in DOMAIN source :
        (/\ k < l /\ source[k].kind = "org" /\ source[k].sum
         /\ source[l].kind \in {"equ", "label"})
        => source[l].label # source[k].name

\* The passes agree: in an anchored source the second one comes to each line at
\* the address the first one gave it, whatever was still unknown then, and in
\* every source a label names the address the first pass gave its line.
PassesAgree ==
    mode = "second" =>
        /\ Anchored /\ pos <= Len(source) /\ Reached.kind # "org" => pc = address[pos]
        /\ \A k \in DOMAIN source : source[k].kind = "label" =>
              /\ Known(source[k].label)
              /\ symbols[source[k].label] = address[k]

\* Words of an entry of a source.
Size(e) ==
    CASE e.kind \in {"bra", "lea", "imm"} -> 2
      [] e.kind = "long" -> 3
      [] e.kind = "jmp" -> IF e.name = NoName /\ High(e.value) = 0 THEN 2 ELSE 3
      [] e.kind \in {"bras", "plain", "bad"} -> 1
      [] OTHER -> 0

\* Words of the first k entries.
Ahead ==
    LET sum[k \in 0 .. Len(source)] == IF k = 0 THEN 0 ELSE sum[k - 1] + Size(source[k])
    IN  sum

\* Where the code that follows the entries before the k-th lands.
Landing(k) == Forward(base, Ahead[k - 1])

Signed(v, half) == IF v < half THEN v ELSE v - 2 * half

\* Where the code of a reference goes when the program runs.
Reference(at, e) ==
    LET word == memory[Forward(at, 1)].value
    IN  CASE e.kind \in {"bra", "lea"} -> Forward(at, 1 + Signed(word, Near))
          [] e.kind = "bras" -> Forward(at, 1 + Signed(memory[at].value, Short))
          [] OTHER -> word * 2 * Near + memory[Forward(at, 2)].value

\* In memory every branch, jump and lea to a label of its source goes to the
\* place where the code that follows the label has landed, forward or backward,
\* in an anchored source whose only org is its first line, and unless the label
\* is out of the reach of a word, which nothing looks at.
ReferencesLand ==
    (/\ outcome = "loaded" /\ Anchored
     /\ \A k \in DOMAIN source : source[k].kind = "org" => k = 1
     /\ Len(output) <= Top + 1)
    => \A k, l \in DOMAIN source :
        (/\ source[k].kind \in {"bra", "bras", "jmp", "lea"}
         /\ source[l].kind = "label" /\ source[l].label = source[k].name
         /\ \/ source[k].kind \in {"jmp", "bras"}
            \/ Distance(Landing(k), Landing(l)) \in -Near .. Near - 1)
        => Reference(Landing(k), source[k]) = Landing(l)

=============================================================================
