----------------------------- MODULE ConsoleProofs -----------------------------
(* The terminal shows a committed line once and swallows nothing else, for    *)
(* any characters, any length of lines and answers, any guest, and whatever is *)
(* typed ahead or to the guest.                                               *)
EXTENDS Console, SequenceTheorems, WellFoundedInduction, TLAPS

-----------------------------------------------------------------------------
(* Lemmas about sequences. *)

LEMMA Bounded ==
    ASSUME NEW S, NEW n \in Nat, NEW s
    PROVE  s \in BoundedSeq(S, n) <=> s \in Seq(S) /\ Len(s) <= n
<1>1. ASSUME s \in BoundedSeq(S, n) PROVE s \in Seq(S) /\ Len(s) <= n
  <2>1. PICK m \in 0 .. n : s \in [1 .. m -> S]
    BY <1>1 DEF BoundedSeq, SeqOf
  <2>2. m \in Nat /\ m <= n
    BY <2>1
  <2>3. s \in Seq(S) /\ Len(s) = m
    BY <2>1, <2>2
  <2> QED BY <2>2, <2>3
<1>2. ASSUME s \in Seq(S), Len(s) <= n PROVE s \in BoundedSeq(S, n)
  <2>1. Len(s) \in 0 .. n /\ s \in [1 .. Len(s) -> S]
    BY <1>2
  <2> QED BY <2>1 DEF BoundedSeq, SeqOf
<1> QED BY <1>1, <1>2

LEMMA Joined ==
    ASSUME NEW S, NEW s \in Seq(S), NEW t \in Seq(S)
    PROVE  s \o t \in Seq(S) /\ Len(s \o t) = Len(s) + Len(t)
BY ConcatProperties

LEMMA Inserted ==
    ASSUME NEW S, NEW s \in Seq(S), NEW i \in 0 .. Len(s), NEW e \in S
    PROVE  InsertAt(s, i + 1, e) \in Seq(S) /\ Len(InsertAt(s, i + 1, e)) = Len(s) + 1
<1>1. SubSeq(s, 1, (i + 1) - 1) \in Seq(S) /\ Len(SubSeq(s, 1, (i + 1) - 1)) = i
  OBVIOUS
<1>2. SubSeq(s, i + 1, Len(s)) \in Seq(S) /\ Len(SubSeq(s, i + 1, Len(s))) = Len(s) - i
  OBVIOUS
<1>3. <<e>> \in Seq(S) /\ Len(<<e>>) = 1
  OBVIOUS
<1> DEFINE before == SubSeq(s, 1, (i + 1) - 1)
           behind == SubSeq(s, i + 1, Len(s))
<1>4. InsertAt(s, i + 1, e) = before \o <<e>> \o behind
  BY DEF InsertAt
<1> HIDE DEF before, behind
<1>5. before \o <<e>> \in Seq(S) /\ Len(before \o <<e>>) = i + 1
  BY <1>1, <1>3, ConcatProperties DEF before
<1>6. behind \in Seq(S) /\ Len(behind) = Len(s) - i
  BY <1>2 DEF behind
<1>7. before \o <<e>> \o behind \in Seq(S) /\ Len(before \o <<e>> \o behind) = Len(s) + 1
  <2> DEFINE front == before \o <<e>>
  <2>1. front \in Seq(S) /\ Len(front) = i + 1
    BY <1>5
  <2> HIDE DEF front
  <2>2. front \o behind \in Seq(S) /\ Len(front \o behind) = Len(front) + Len(behind)
    BY <1>6, <2>1, Joined
  <2>3. (i + 1) + (Len(s) - i) = Len(s) + 1
    OBVIOUS
  <2> QED BY <1>6, <2>1, <2>2, <2>3 DEF front
<1> QED BY <1>4, <1>7

LEMMA Removed ==
    ASSUME NEW S, NEW s \in Seq(S), NEW i \in 1 .. Len(s)
    PROVE  RemoveAt(s, i) \in Seq(S) /\ Len(RemoveAt(s, i)) = Len(s) - 1
<1>1. SubSeq(s, 1, i - 1) \in Seq(S) /\ Len(SubSeq(s, 1, i - 1)) = i - 1
  OBVIOUS
<1>2. SubSeq(s, i + 1, Len(s)) \in Seq(S) /\ Len(SubSeq(s, i + 1, Len(s))) = Len(s) - i
  OBVIOUS
<1> DEFINE before == SubSeq(s, 1, i - 1)
           behind == SubSeq(s, i + 1, Len(s))
<1>3. RemoveAt(s, i) = before \o behind
  BY DEF RemoveAt
<1>4. before \in Seq(S) /\ Len(before) = i - 1 /\ behind \in Seq(S) /\ Len(behind) = Len(s) - i
  BY <1>1, <1>2
<1> HIDE DEF before, behind
<1>5. before \o behind \in Seq(S) /\ Len(before \o behind) = Len(before) + Len(behind)
  BY <1>4, Joined
<1>6. (i - 1) + (Len(s) - i) = Len(s) - 1
  OBVIOUS
<1> QED BY <1>3, <1>4, <1>5, <1>6

\* What is left of a queue when somebody has read from it.
LEMMA Suffix ==
    ASSUME NEW S, NEW s \in Seq(S), NEW t \in Suffixes(s)
    PROVE  /\ t \in Seq(S) /\ Len(t) <= Len(s)
           /\ t # << >> => t[Len(t)] = s[Len(s)] /\ s # << >>
<1>1. CASE t = << >>
  BY <1>1
<1>2. CASE t # << >>
  <2>1. PICK l \in 1 .. Len(s) : t = SubSeq(s, l, Len(s))
    BY <1>2 DEF Suffixes
  <2> QED BY <2>1
<1> QED BY <1>1, <1>2

\* A set of numbers below a bound has a largest one.
LEMMA Largest ==
    ASSUME NEW n \in Nat, NEW T, T \subseteq 0 .. n, T # {}
    PROVE  Max(T) \in T /\ \A k \in T : k <= Max(T)
<1> DEFINE less == {pair \in Nat \X Nat : pair[1] < pair[2]}
           rest == {n - k : k \in T}
<1>1. IsWellFoundedOn(less, Nat)
  BY NatLessThanWellFounded DEF OpToRel
<1>2. rest \subseteq Nat /\ rest # {}
  <2>1. \A k \in T : n - k \in Nat
    OBVIOUS
  <2>2. rest \subseteq Nat
    BY <2>1
  <2>3. PICK k \in T : TRUE
    OBVIOUS
  <2>4. n - k \in rest
    OBVIOUS
  <2> QED BY <2>2, <2>4
<1>3. PICK x \in rest : \A y \in rest : <<y, x>> \notin less
  <2> HIDE DEF less, rest
  <2> QED BY <1>1, <1>2, WFMin
<1>4. PICK k \in T : x = n - k
  BY <1>3
<1>5. \A j \in T : j <= k
  <2> SUFFICES ASSUME NEW j \in T PROVE j <= k
    OBVIOUS
  <2>0. j \in 0 .. n /\ k \in 0 .. n
    OBVIOUS
  <2>1. n - j \in rest /\ n - j \in Nat /\ n - k \in Nat /\ j \in Nat /\ k \in Nat
    BY <2>0
  <2>2. <<n - j, n - k>> \notin less
    BY <1>3, <1>4, <2>1
  <2>3. ~ (n - j < n - k)
    BY <2>1, <2>2
  <2> QED BY <2>1, <2>3
<1>6. \A j \in T : k >= j
  BY <1>5
<1>7. \E m \in T : \A j \in T : m >= j
  BY <1>6
<1>8. Max(T) \in T /\ \A j \in T : Max(T) >= j
  BY <1>7 DEF Max
<1> QED BY <1>8

-----------------------------------------------------------------------------
(* The types of the terminal. *)

Typed == Chars \cup {"nl"}
Message == [ch : Typed \cup {">"}, kind : {"echo", "output"}]

\* The queues hold characters, and a message keeps whether it is an echo.
TypeInvariant == TypeOK /\ rx \in Seq(Typed) /\ tx \in Seq(Message)

LEMMA Texts ==
    ASSUME NEW s
    PROVE  s \in Text <=> s \in Seq(Chars) /\ Len(s) <= LineBound
BY ConsoleAssumption, Bounded DEF Text

LEMMA Histories ==
    ASSUME NEW s
    PROVE  s \in BoundedSeq(Text, HistoryBound) <=> s \in Seq(Text) /\ Len(s) <= HistoryBound
BY ConsoleAssumption, Bounded

LEMMA TypeFacts ==
    ASSUME TypeInvariant
    PROVE  /\ line \in Seq(Chars) /\ Len(line) <= LineBound /\ cursor \in 0 .. Len(line)
           /\ history \in Seq(Text) /\ Len(history) <= HistoryBound /\ index \in 0 .. Len(history)
           /\ draft \in Text /\ line \in Text
           /\ suppress # NoLine => suppress \in Seq(Chars)
           /\ seen \in 0 .. Len(suppress)
           /\ rx \in Seq(Typed) /\ tx \in Seq(Message)
BY Texts, Histories DEF TypeInvariant, TypeOK

LEMMA EditKept ==
    ASSUME TypeInvariant, Key, line' \in Text, cursor' \in 0 .. Len(line'),
           history' = history, index' \in 0 .. Len(history), draft' \in Text
    PROVE  TypeInvariant'
BY DEF TypeInvariant, TypeOK, Key, echo, uart, monitor, witness

LEMMA EmptyText == << >> \in Text /\ Len(<< >>) = 0
<1>1. << >> \in Seq(Chars) /\ Len(<< >>) = 0
  OBVIOUS
<1>2. Len(<< >>) <= LineBound
  BY <1>1, ConsoleAssumption
<1> QED BY <1>1, <1>2, Texts, Zenon

LEMMA KeysKept ==
    ASSUME TypeInvariant,
           Insert \/ Erase \/ Delete \/ MoveCursor \/ HistoryUp \/ HistoryDown
    PROVE  TypeInvariant'
<1>0. /\ line \in Seq(Chars) /\ Len(line) <= LineBound /\ cursor \in 0 .. Len(line)
      /\ history \in Seq(Text) /\ index \in 0 .. Len(history)
      /\ draft \in Text /\ line \in Text
  BY TypeFacts
<1>1. CASE Insert
  <2>1. PICK ch \in Chars : line' = InsertAt(line, cursor + 1, ch)
    BY <1>1 DEF Insert
  <2>2. line' \in Seq(Chars) /\ Len(line') = Len(line) + 1
    BY <1>0, <2>1, Inserted
  <2>3. Len(line') <= LineBound
    BY <1>0, <1>1, <2>2, ConsoleAssumption DEF Insert
  <2>4. line' \in Text /\ cursor' \in 0 .. Len(line')
    BY <1>0, <1>1, <2>2, <2>3, Texts DEF Insert
  <2> QED BY <1>0, <1>1, <2>4, EditKept DEF Insert
<1>2. CASE Erase
  <2>1. cursor \in 1 .. Len(line) /\ line' = RemoveAt(line, cursor) /\ cursor' = cursor - 1
    BY <1>0, <1>2 DEF Erase
  <2>2. line' \in Seq(Chars) /\ Len(line') = Len(line) - 1
    BY <1>0, <2>1, Removed
  <2>3. line' \in Text /\ cursor' \in 0 .. Len(line')
    BY <1>0, <2>1, <2>2, Texts, ConsoleAssumption
  <2> QED BY <1>0, <1>2, <2>3, EditKept DEF Erase
<1>3. CASE Delete
  <2>1. cursor + 1 \in 1 .. Len(line) /\ line' = RemoveAt(line, cursor + 1) /\ cursor' = cursor
    BY <1>0, <1>3 DEF Delete
  <2>2. line' \in Seq(Chars) /\ Len(line') = Len(line) - 1
    BY <1>0, <2>1, Removed
  <2>3. line' \in Text /\ cursor' \in 0 .. Len(line')
    BY <1>0, <2>1, <2>2, Texts, ConsoleAssumption
  <2> QED BY <1>0, <1>3, <2>3, EditKept DEF Delete
<1>4. CASE MoveCursor
  BY <1>0, <1>4, EditKept DEF MoveCursor
<1>5. CASE HistoryUp
  <2>1. index' \in 1 .. Len(history) /\ draft' \in Text
    BY <1>0, <1>5 DEF HistoryUp
  <2>2. history[index'] \in Text
    BY <1>0, <2>1
  <2>3. line' = history[index'] /\ cursor' = Len(line')
    BY <1>5 DEF HistoryUp, SetLine
  <2>4. line' \in Text /\ cursor' \in 0 .. Len(line')
    BY <2>2, <2>3, Texts
  <2> QED BY <1>5, <2>1, <2>4, EditKept DEF HistoryUp
<1>6. CASE HistoryDown
  <2>1. index' \in 0 .. Len(history)
    BY <1>0, <1>6 DEF HistoryDown
  <2>2. line' = (IF index' = 0 THEN draft ELSE history[index']) /\ cursor' = Len(line')
    BY <1>6 DEF HistoryDown, SetLine
  <2>3. line' \in Text
    BY <1>0, <2>1, <2>2
  <2>4. cursor' \in 0 .. Len(line')
    BY <2>2, <2>3, Texts
  <2> QED BY <1>0, <1>6, <2>1, <2>3, <2>4, EditKept DEF HistoryDown
<1> QED BY <1>1, <1>2, <1>3, <1>4, <1>5, <1>6

LEMMA CommitKept ==
    ASSUME TypeInvariant, Commit
    PROVE  TypeInvariant'
<1>0. /\ line \in Seq(Chars) /\ line \in Text
      /\ history \in Seq(Text) /\ Len(history) <= HistoryBound
      /\ rx \in Seq(Typed) /\ tx \in Seq(Message)
  BY TypeFacts
<1>1. rx' \in Seq(Typed) /\ Len(rx') <= QueueBound
  <2> DEFINE sent == Append(line, "nl")
  <2>1. line \in Seq(Typed) /\ "nl" \in Typed
    BY <1>0 DEF Typed
  <2>2. sent \in Seq(Typed) /\ Len(sent) = Len(line) + 1
    BY <2>1
  <2> HIDE DEF sent
  <2>3. rx \o sent \in Seq(Typed) /\ Len(rx \o sent) = Len(rx) + Len(sent)
    BY <1>0, <2>2, Joined
  <2>4. rx' = rx \o sent /\ Len(rx) + Len(line) < QueueBound
    BY DEF Commit, sent
  <2>5. Len(rx) \in Nat /\ Len(line) \in Nat
    BY <1>0
  <2> QED BY <2>2, <2>3, <2>4, <2>5, ConsoleAssumption
<1>2. history' \in Seq(Text) /\ Len(history') <= HistoryBound
  <2>1. CASE history' = history
    BY <1>0, <2>1
  <2>2. CASE Len(history) = HistoryBound /\ history' = Append(Tail(history), line)
    <3>1. history # << >>
      BY <1>0, <2>2, ConsoleAssumption
    <3>2. Tail(history) \in Seq(Text) /\ Len(Tail(history)) = HistoryBound - 1
      BY <1>0, <2>2, <3>1
    <3> QED BY <1>0, <2>2, <3>2, ConsoleAssumption
  <2>3. CASE Len(history) # HistoryBound /\ history' = Append(history, line)
    BY <1>0, <2>3, ConsoleAssumption
  <2> QED BY <2>1, <2>2, <2>3 DEF Commit
<1>3. history' \in BoundedSeq(Text, HistoryBound)
  BY <1>2, Histories
<1>4. suppress' \in Text /\ seen' \in 0 .. Len(suppress')
  BY <1>0 DEF Commit, Expect
<1>5. /\ line' = << >> /\ cursor' = 0 /\ index' = 0 /\ draft' = << >>
      /\ UNCHANGED <<tx, active, wasActive, at>>
  BY DEF Commit, monitor
<1>6. index' \in 0 .. Len(history') /\ cursor' \in 0 .. Len(line')
  BY <1>2, <1>5
<1>7. hurried' \in BOOLEAN /\ unechoed' \in BOOLEAN
  BY Zenon DEF Commit
<1> QED BY <1>0, <1>1, <1>3, <1>4, <1>5, <1>6, <1>7, EmptyText DEF TypeInvariant, TypeOK

LEMMA WrittenFacts ==
    ASSUME NEW text \in Seq(Typed \cup {">"}), NEW kind \in {"echo", "output"}
    PROVE  /\ Written(text, kind) \in Seq(Message) /\ Len(Written(text, kind)) = Len(text)
           /\ \A i \in 1 .. Len(text) : Written(text, kind)[i].kind = kind
<1>1. \A i \in 1 .. Len(text) : [ch |-> text[i], kind |-> kind] \in Message
  BY DEF Message
<1>2. Len(text) \in Nat /\ Written(text, kind) \in [1 .. Len(text) -> Message]
  BY <1>1 DEF Written
<1>3. Written(text, kind) \in Seq(Message) /\ Len(Written(text, kind)) = Len(text)
  BY <1>2
<1> QED BY <1>3 DEF Written

\* What is transmitted follows what the queue holds.
LEMMA Sent ==
    ASSUME tx \in Seq(Message), NEW text \in Seq(Typed \cup {">"}), NEW kind \in {"echo", "output"},
           Transmit(text, kind)
    PROVE  /\ tx' \in Seq(Message) /\ Len(tx') = Len(tx) + Len(text)
           /\ \A i \in 1 .. Len(tx) : tx'[i] = tx[i]
           /\ \A i \in 1 .. Len(text) : tx'[Len(tx) + i] = [ch |-> text[i], kind |-> kind]
<1> DEFINE sent == Written(text, kind)
<1>1. \A i \in 1 .. Len(text) : sent[i] = [ch |-> text[i], kind |-> kind]
  BY DEF Written
<1>3. sent \in Seq(Message) /\ Len(sent) = Len(text)
  BY WrittenFacts
<1>4. tx' = tx \o sent
  BY DEF Transmit
<1> HIDE DEF sent
<1>5. /\ tx \o sent \in Seq(Message)
      /\ Len(tx \o sent) = Len(tx) + Len(sent)
      /\ \A i \in 1 .. Len(tx) : (tx \o sent)[i] = tx[i]
      /\ \A i \in 1 .. Len(sent) : (tx \o sent)[Len(tx) + i] = sent[i]
  BY <1>3
<1> QED BY <1>1, <1>3, <1>4, <1>5

-----------------------------------------------------------------------------
(* The echo that the editor expects. *)

Rest == SubSeq(suppress, seen + 1, Len(suppress))

LEMMA RestFacts ==
    ASSUME TypeInvariant, suppress # NoLine
    PROVE  /\ suppress \in Seq(Chars) /\ Rest \in Seq(Chars) /\ Len(Rest) = Len(suppress) - seen
           /\ seen \in 0 .. Len(suppress) /\ Len(suppress) \in Nat
<1>1. suppress \in Seq(Chars) /\ seen \in 0 .. Len(suppress) /\ Len(suppress) \in Nat
  BY TypeFacts
<1> QED BY <1>1 DEF Rest

LEMMA MatchedFacts ==
    ASSUME TypeInvariant, suppress # NoLine, NEW text \in Seq(Typed \cup {">"})
    PROVE  /\ Matched(text) \in 0 .. Len(Rest) /\ Matched(text) <= Len(text)
           /\ SubSeq(text, 1, Matched(text)) = SubSeq(Rest, 1, Matched(text))
           /\ \A n \in 0 .. Len(Rest) :
                  n <= Len(text) /\ SubSeq(text, 1, n) = SubSeq(Rest, 1, n) => n <= Matched(text)
<1> DEFINE common == {n \in 0 .. Len(Rest) : n <= Len(text) /\ SubSeq(text, 1, n) = SubSeq(Rest, 1, n)}
<1>1. Matched(text) = Max(common)
  BY DEF Matched, Rest
<1>2. Rest \in Seq(Chars) /\ Len(Rest) \in Nat /\ Len(text) \in Nat
  BY RestFacts
<1>3. SubSeq(text, 1, 0) = << >> /\ SubSeq(Rest, 1, 0) = << >>
  BY <1>2
<1>4. 0 \in common
  BY <1>2, <1>3
<1>5. common \subseteq 0 .. Len(Rest) /\ common # {}
  BY <1>4
<1>6. Max(common) \in common /\ \A k \in common : k <= Max(common)
  <2> HIDE DEF common
  <2> QED BY <1>2, <1>5, Largest
<1> QED BY <1>1, <1>6

LEMMA ConsumeFacts ==
    ASSUME TypeInvariant, NEW text \in Seq(Typed \cup {">"})
    PROVE  LET eaten == ConsumeEcho(text) IN
           /\ eaten.suppress = suppress \/ eaten.suppress = NoLine
           /\ eaten.seen \in 0 .. Len(eaten.suppress)
           /\ eaten.swallowed \in 0 .. Len(text)
<1> DEFINE eaten == ConsumeEcho(text)
           n == Matched(text)
           done == seen + n
           break == IF n < Len(text) /\ text[n + 1] = "nl" THEN 1 ELSE 0
<1>0. Len(NoLine) = 1 /\ Len(text) \in Nat /\ seen \in 0 .. Len(suppress)
  BY TypeFacts DEF NoLine
<1>1. CASE suppress = NoLine \/ text = << >>
  <2>1. eaten = [swallowed |-> 0, suppress |-> suppress, seen |-> seen]
    BY <1>1 DEF ConsumeEcho
  <2> QED BY <1>0, <2>1
<1>2. CASE ~(suppress = NoLine \/ text = << >>)
  <2>1. /\ n \in 0 .. Len(Rest) /\ n <= Len(text)
        /\ Len(Rest) = Len(suppress) - seen /\ Len(suppress) \in Nat
    BY <1>2, MatchedFacts, RestFacts
  <2>2. \/ eaten = NoEcho(n + break)
        \/ eaten = [swallowed |-> n, suppress |-> suppress, seen |-> done]
        \/ eaten = NoEcho(0)
    BY <1>2 DEF ConsumeEcho
  <2>3. n + break \in 0 .. Len(text) /\ n \in 0 .. Len(text) /\ done \in 0 .. Len(suppress)
    BY <1>0, <2>1
  <2> HIDE DEF eaten, n, done, break
  <2>4. /\ eaten.suppress = suppress \/ eaten.suppress = NoLine
        /\ eaten.seen \in 0 .. Len(eaten.suppress)
        /\ eaten.swallowed \in 0 .. Len(text)
    BY <1>0, <2>2, <2>3 DEF NoEcho
  <2> QED BY <2>4 DEF eaten
<1> QED BY <1>1, <1>2

-----------------------------------------------------------------------------
(* The parts of a tick. *)

LEMMA PollKept ==
    ASSUME TypeInvariant, PollChar \/ PollLine
    PROVE  TypeInvariant'
<1>0. rx \in Seq(Typed) /\ tx \in Seq(Message) /\ rx # << >>
  BY TypeFacts DEF PollChar, PollLine
<1>1. rx' = Tail(rx) /\ rx' \in Seq(Typed) /\ Len(rx') = Len(rx) - 1 /\ Head(rx) \in Typed
  <2>1. rx' = Tail(rx)
    BY DEF PollChar, PollLine
  <2> QED BY <1>0, <2>1, HeadTailProperties
<1>2. \E ch \in Typed : Transmit(<<ch>>, "echo")
  BY <1>1 DEF PollChar, PollLine, Typed
<1>3. tx' \in Seq(Message)
  <2>1. PICK ch \in Typed : Transmit(<<ch>>, "echo")
    BY <1>2
  <2>2. <<ch>> \in Seq(Typed \cup {">"})
    OBVIOUS
  <2> QED BY <1>0, <2>1, <2>2, Sent
<1>4. Len(rx') <= QueueBound
  BY <1>0, <1>1, ConsoleAssumption DEF TypeInvariant, TypeOK
<1>5. at' \in {"poll", "command"} /\ UNCHANGED <<editor, echo, monitor, witness>>
  BY DEF PollChar, PollLine
<1> QED BY <1>1, <1>3, <1>4, <1>5 DEF TypeInvariant, TypeOK, editor, echo, monitor, witness

\* What a command or the guest prints.
LEMMA Answers ==
    ASSUME NEW answer \in BoundedSeq(Chars, AnswerBound)
    PROVE  /\ answer \in Seq(Typed \cup {">"}) /\ answer \o <<">">> \in Seq(Typed \cup {">"})
           /\ Len(answer \o <<">">>) = Len(answer) + 1
<1>1. answer \in Seq(Chars)
  BY ConsoleAssumption, Bounded
<1>2. answer \in Seq(Typed \cup {">"}) /\ <<">">> \in Seq(Typed \cup {">"})
  BY <1>1 DEF Typed
<1> QED BY <1>2

LEMMA Read ==
    ASSUME TypeInvariant, rx' \in Suffixes(rx)
    PROVE  /\ rx' \in Seq(Typed) /\ Len(rx') <= QueueBound
           /\ rx = << >> => rx' = << >>
           /\ rx' # << >> => rx # << >> /\ rx'[Len(rx')] = rx[Len(rx)]
<1>1. rx \in Seq(Typed) /\ Len(rx) <= QueueBound
  BY DEF TypeInvariant, TypeOK
<1>2. /\ rx' \in Seq(Typed) /\ Len(rx') <= Len(rx)
      /\ rx' # << >> => rx'[Len(rx')] = rx[Len(rx)] /\ rx # << >>
  BY <1>1, Suffix
<1> QED BY <1>1, <1>2, ConsoleAssumption

LEMMA RespondKept ==
    ASSUME TypeInvariant, Respond
    PROVE  TypeInvariant'
<1>1. PICK answer \in BoundedSeq(Chars, AnswerBound) : Transmit(answer \o <<">">>, "output")
  BY DEF Respond
<1>2. tx' \in Seq(Message)
  BY <1>1, Answers, TypeFacts, Sent
<1>3. at' = "poll" /\ UNCHANGED <<editor, echo, monitor, witness>>
  BY DEF Respond
<1>4. rx' \in Seq(Typed) /\ Len(rx') <= QueueBound
  BY Read DEF Respond
<1> QED BY <1>2, <1>3, <1>4 DEF TypeInvariant, TypeOK, editor, echo, monitor, witness

\* A reset empties the queues before its block prints.
LEMMA ResetKept ==
    ASSUME TypeInvariant, ResetMachine
    PROVE  /\ TypeInvariant'
           /\ rx' = << >> /\ \A i \in 1 .. Len(tx') : tx'[i].kind = "output"
<1>1. PICK text \in BoundedSeq(Chars, AnswerBound) :
          tx' = Written(IF active' THEN text \o <<">">> ELSE text, "output")
  BY DEF ResetMachine
<1> DEFINE said == IF active' THEN text \o <<">">> ELSE text
<1>2. said \in Seq(Typed \cup {">"})
  BY Answers
<1> HIDE DEF said
<1>3. tx' = Written(said, "output")
  BY <1>1 DEF said
<1>4. tx' \in Seq(Message) /\ \A i \in 1 .. Len(tx') : tx'[i].kind = "output"
  BY <1>2, <1>3, WrittenFacts
<1>5. rx' = << >> /\ rx' \in Seq(Typed) /\ Len(rx') <= QueueBound
  BY ConsoleAssumption DEF ResetMachine
<1>6. /\ active' \in BOOLEAN /\ unechoed' = TRUE /\ at' = "flush"
      /\ UNCHANGED <<editor, echo, wasActive, hurried>>
  BY DEF ResetMachine
<1> QED BY <1>4, <1>5, <1>6 DEF TypeInvariant, TypeOK, editor, echo

LEMMA RunGuestKept ==
    ASSUME TypeInvariant, RunGuest
    PROVE  TypeInvariant'
<1>1. tx' \in Seq(Message)
  <2>1. CASE \E text \in BoundedSeq(Chars, AnswerBound) : Transmit(text, "output")
    BY <2>1, Answers, TypeFacts, Sent
  <2>2. CASE Transmit(<<">">>, "output")
    <3>1. <<">">> \in Seq(Typed \cup {">"})
      OBVIOUS
    <3> QED BY <2>2, <3>1, TypeFacts, Sent
  <2> QED BY <2>1, <2>2 DEF RunGuest
<1>2. rx' \in Seq(Typed) /\ Len(rx') <= QueueBound
  BY Read DEF RunGuest
<1>3. active' \in BOOLEAN
  BY Zenon DEF RunGuest, TypeInvariant, TypeOK
<1>4. at' = "flush" /\ UNCHANGED <<editor, echo, wasActive, witness>>
  BY DEF RunGuest
<1> QED BY <1>1, <1>2, <1>3, <1>4 DEF TypeInvariant, TypeOK, editor, echo, witness

\* The text a flush hands to the editor.
Flushed == [i \in 1 .. Len(tx) |-> tx[i].ch]

LEMMA FlushedFacts ==
    ASSUME tx \in Seq(Message)
    PROVE  /\ Flushed \in Seq(Typed \cup {">"}) /\ Len(Flushed) = Len(tx) /\ Len(tx) \in Nat
           /\ \A i \in 1 .. Len(tx) : Flushed[i] = tx[i].ch
<1>1. Len(tx) \in Nat /\ \A i \in 1 .. Len(tx) : tx[i].ch \in Typed \cup {">"}
  <2>1. \A i \in 1 .. Len(tx) : tx[i] \in Message
    OBVIOUS
  <2>2. \A m \in Message : m.ch \in Typed \cup {">"}
    BY DEF Message
  <2> QED BY <2>1, <2>2
<1>2. Flushed \in [1 .. Len(tx) -> Typed \cup {">"}]
  BY <1>1 DEF Flushed
<1>3. Flushed \in Seq(Typed \cup {">"}) /\ Len(Flushed) = Len(tx)
  BY <1>1, <1>2
<1> QED BY <1>1, <1>3 DEF Flushed

LEMMA FlushKept ==
    ASSUME TypeInvariant, FlushOutput
    PROVE  TypeInvariant'
<1>1. Flushed \in Seq(Typed \cup {">"})
  BY TypeFacts, FlushedFacts
<1>2. suppress' \in Text \cup {NoLine} /\ seen' \in 0 .. Len(suppress')
  <2>1. CASE Entered
    <3>1. suppress' = NoLine /\ seen' = 0
      BY <2>1 DEF FlushOutput, Eaten, NoEcho
    <3> QED BY <3>1 DEF NoLine
  <2>2. CASE ~Entered
    <3>1. suppress' = ConsumeEcho(Flushed).suppress /\ seen' = ConsumeEcho(Flushed).seen
      BY <2>2 DEF FlushOutput, Eaten, Flushed
    <3>2. suppress \in Text \cup {NoLine}
      BY DEF TypeInvariant, TypeOK
    <3> QED BY <1>1, <3>1, <3>2, ConsumeFacts
  <2> QED BY <2>1, <2>2
<1>3. /\ line' \in Text /\ cursor' \in 0 .. Len(line') /\ draft' \in Text
      /\ history' \in BoundedSeq(Text, HistoryBound) /\ index' \in 0 .. Len(history')
  <2>1. CASE Entered
    <3>1. line' = << >> /\ cursor' = 0 /\ index' = 0 /\ draft' = << >> /\ history' = history
      BY <2>1 DEF FlushOutput, ResetTransientInput
    <3>2. Len(history) \in Nat
      BY TypeFacts
    <3> QED BY <3>1, <3>2, EmptyText DEF TypeInvariant, TypeOK
  <2>2. CASE ~Entered
    BY <2>2 DEF FlushOutput, ResetTransientInput, TypeInvariant, TypeOK, editor
  <2> QED BY <2>1, <2>2
<1>4. /\ tx' = << >> /\ wasActive' = active /\ at' = "idle"
      /\ UNCHANGED <<rx, active, hurried, unechoed>>
  BY DEF FlushOutput, witness
<1>5. tx' \in Seq(Message)
  BY <1>4
<1> QED BY <1>2, <1>3, <1>4, <1>5 DEF TypeInvariant, TypeOK

LEMMA TypesKept == TypeInvariant /\ [Next]_vars => TypeInvariant'
<1> SUFFICES ASSUME TypeInvariant, [Next]_vars PROVE TypeInvariant'
  OBVIOUS
<1>1. CASE Insert \/ Erase \/ Delete \/ MoveCursor \/ HistoryUp \/ HistoryDown
  BY <1>1, KeysKept
<1>2. CASE StartTick \/ StartGuest \/ PollDone
  BY <1>2 DEF StartTick, StartGuest, PollDone, TypeInvariant, TypeOK, editor, echo, uart, monitor, witness
<1>3. CASE UNCHANGED vars
  BY <1>3 DEF vars, TypeInvariant, TypeOK, editor, echo, uart, monitor, witness
<1> QED BY <1>1, <1>2, <1>3, CommitKept, PollKept, RespondKept, ResetKept,
       RunGuestKept, FlushKept DEF Next

-----------------------------------------------------------------------------
(* The echo of the line that was committed last. *)

\* The line the editor expects, with its line break.
Expected(i) == IF i <= Len(suppress) THEN suppress[i] ELSE "nl"
ExpectedLength == Len(suppress) + 1

\* Nothing is on its way to the monitor, and what is printed is no echo.
Silent ==
    /\ rx = << >> /\ at # "command"
    /\ \A i \in 1 .. Len(tx) : tx[i].kind = "output"

\* A line is expected: what the monitor has echoed and what it has still to read
\* make up the line, and whatever else it prints comes after the echo.
LineExpected ==
    /\ suppress # NoLine
    /\ seen = 0 /\ wasActive /\ at # "guest"
    /\ rx # << >> =>
           /\ Len(tx) + Len(rx) = ExpectedLength
           /\ \A i \in 1 .. Len(rx) : rx[i] = Expected(Len(tx) + i)
    /\ rx = << >> => ExpectedLength <= Len(tx)
    /\ \A i \in 1 .. Len(tx) :
           IF i <= ExpectedLength THEN tx[i].kind = "echo" /\ tx[i].ch = Expected(i)
           ELSE tx[i].kind = "output"
    /\ at = "command" => rx = << >> /\ Len(tx) = ExpectedLength
    /\ at = "flush" => rx = << >>

\* The first thing printed after a line was committed is an echo, up to a line
\* break: of that line, or of one that was in the queue before it.
Echoing(k) == tx[k].ch = "nl" /\ \A i \in 1 .. k : tx[i].kind = "echo"
EchoFirst ==
    suppress # NoLine /\ ~unechoed =>
        /\ seen = 0
        /\ \/ /\ at \in {"idle", "poll"} /\ active /\ rx # << >>
              /\ \A i \in 1 .. Len(tx) : tx[i].kind = "echo"
           \/ \E k \in 1 .. Len(tx) : Echoing(k)

\* Lines are queued whole, and a tick runs the guest or polls the monitor.
Tick ==
    /\ at \in {"idle", "guest"} => tx = << >>
    /\ at # "flush" => wasActive = active
    /\ at \in {"poll", "command"} => active
    /\ rx # << >> => rx[Len(rx)] = "nl"

EchoInvariant ==
    /\ Tick
    /\ EchoFirst
    /\ ~hurried => Silent \/ LineExpected

LEMMA LineFacts ==
    ASSUME TypeInvariant, suppress # NoLine
    PROVE  /\ suppress \in Seq(Chars) /\ Len(suppress) \in Nat
           /\ Expected(ExpectedLength) = "nl"
           /\ \A i \in 1 .. Len(suppress) : Expected(i) = suppress[i] /\ Expected(i) # "nl"
<1>1. suppress \in Seq(Chars) /\ Len(suppress) \in Nat
  BY TypeFacts
<1>2. \A i \in 1 .. Len(suppress) : suppress[i] \in Chars
  BY <1>1
<1> QED BY <1>1, <1>2, ConsoleAssumption DEF Expected, ExpectedLength

LEMMA SameEcho ==
    ASSUME EchoInvariant, UNCHANGED <<uart, echo, monitor, at, witness>>
    PROVE  EchoInvariant'
BY DEF EchoInvariant, Tick, EchoFirst, Echoing, Silent, LineExpected, Expected, ExpectedLength,
   uart, echo, monitor, witness

LEMMA KeysEcho ==
    ASSUME EchoInvariant,
           Insert \/ Erase \/ Delete \/ MoveCursor \/ HistoryUp \/ HistoryDown
    PROVE  EchoInvariant'
<1>1. UNCHANGED <<uart, echo, monitor, at, witness>>
  BY DEF Insert, Erase, Delete, MoveCursor, HistoryUp, HistoryDown, Key
<1> QED BY <1>1, SameEcho

\* A line is queued whole; whoever waits for the prompt queues it alone.
LEMMA CommitEcho ==
    ASSUME TypeInvariant, EchoInvariant, Commit
    PROVE  EchoInvariant'
<1>1. /\ line \in Seq(Chars) /\ Len(line) \in Nat /\ rx \in Seq(Typed)
      /\ line \in Seq(Typed) /\ "nl" \in Typed
  BY TypeFacts DEF Typed
<1>2. /\ at = "idle" /\ tx = << >>
      /\ rx' = rx \o Append(line, "nl") /\ suppress' = line /\ seen' = 0
      /\ hurried' = ~(Quiet /\ active) /\ unechoed' = ~active
      /\ UNCHANGED <<tx, active, wasActive, at>>
  BY DEF Commit, Expect, monitor, EchoInvariant, Tick
<1> DEFINE sent == Append(line, "nl")
<1>3. /\ sent \in Seq(Typed) /\ Len(sent) = Len(line) + 1
      /\ \A i \in 1 .. Len(line) + 1 : sent[i] = IF i <= Len(line) THEN line[i] ELSE "nl"
  BY <1>1
<1> HIDE DEF sent
<1>4. rx' # << >> /\ rx'[Len(rx')] = "nl"
  <2>1. /\ rx \o sent \in Seq(Typed) /\ Len(rx \o sent) = Len(rx) + Len(sent)
        /\ (rx \o sent)[Len(rx) + Len(sent)] = sent[Len(sent)]
    BY <1>1, <1>3
  <2> QED BY <1>1, <1>2, <1>3, <2>1 DEF sent
<1>5. Tick'
  BY <1>2, <1>4 DEF EchoInvariant, Tick
<1>6. EchoFirst'
  <2>1. Len(tx') = 0
    BY <1>2
  <2>2. ~unechoed' => active'
    BY <1>2, Zenon
  <2>3. seen' = 0 /\ at' = "idle"
    BY <1>2
  <2>4. \A i \in 1 .. Len(tx') : tx'[i].kind = "echo"
    BY <2>1
  <2> QED BY <1>4, <2>2, <2>3, <2>4 DEF EchoFirst
<1>7. ASSUME ~hurried' PROVE LineExpected'
  <2>1. rx = << >> /\ active /\ wasActive
    BY <1>2, <1>7 DEF Quiet, EchoInvariant, Tick
  <2>2. rx' = sent
    BY <1>2, <1>3, <2>1 DEF sent
  <2>3. Len(tx') = 0 /\ suppress' # NoLine
    BY <1>1, <1>2, ConsoleAssumption DEF NoLine
  <2>4. Len(tx') + Len(rx') = ExpectedLength'
    BY <1>1, <1>2, <1>3, <2>2, <2>3 DEF ExpectedLength
  <2>5. \A i \in 1 .. Len(rx') : rx'[i] = Expected(Len(tx) + i)'
    BY <1>1, <1>2, <1>3, <2>2, <2>3 DEF Expected
  <2> QED BY <1>2, <1>4, <2>1, <2>3, <2>4, <2>5 DEF LineExpected
<1> QED BY <1>5, <1>6, <1>7 DEF EchoInvariant

\* Each character the monitor reads is the next of the line, and so is its echo.
LEMMA PollExpected ==
    ASSUME TypeInvariant, LineExpected, PollChar \/ PollLine
    PROVE  LineExpected'
<1>0. /\ at = "poll" /\ rx \in Seq(Typed) /\ tx \in Seq(Message) /\ rx # << >> /\ rx' = Tail(rx)
      /\ Transmit(<<Head(rx)>>, "echo")
      /\ UNCHANGED <<suppress, seen, active, wasActive, hurried, unechoed>>
      /\ at' = IF Head(rx) = "nl" THEN "command" ELSE "poll"
  BY TypeFacts DEF PollChar, PollLine, echo, monitor, witness
<1>1. suppress # NoLine
  BY DEF LineExpected
<1>2. /\ Len(rx) \in Nat \ {0} /\ Len(tx) \in Nat /\ Head(rx) = rx[1] /\ Head(rx) \in Typed
      /\ rx' \in Seq(Typed) /\ Len(rx') = Len(rx) - 1
      /\ \A i \in 1 .. Len(rx') : rx'[i] = rx[i + 1]
  BY <1>0, HeadTailProperties, EmptySeq
<1>3. /\ tx' \in Seq(Message) /\ Len(tx') = Len(tx) + 1
      /\ \A i \in 1 .. Len(tx) : tx'[i] = tx[i]
      /\ tx'[Len(tx) + 1].kind = "echo" /\ tx'[Len(tx) + 1].ch = Head(rx)
  <2> DEFINE text == <<Head(rx)>>
  <2>1. text \in Seq(Typed \cup {">"}) /\ Len(text) = 1 /\ text[1] = Head(rx)
    BY <1>2
  <2>2. Transmit(text, "echo")
    BY <1>0
  <2> HIDE DEF text
  <2>3. /\ tx' \in Seq(Message) /\ Len(tx') = Len(tx) + Len(text)
        /\ \A i \in 1 .. Len(tx) : tx'[i] = tx[i]
        /\ \A i \in 1 .. Len(text) : tx'[Len(tx) + i] = [ch |-> text[i], kind |-> "echo"]
    BY <1>0, <2>1, <2>2, Sent
  <2>4. tx'[Len(tx) + 1] = [ch |-> Head(rx), kind |-> "echo"]
    BY <2>1, <2>3
  <2> QED BY <2>1, <2>3, <2>4
<1>4. /\ Len(tx) + Len(rx) = ExpectedLength /\ ExpectedLength = Len(suppress) + 1
      /\ Head(rx) = Expected(Len(tx) + 1)
      /\ \A i \in 1 .. Len(rx) : rx[i] = Expected(Len(tx) + i)
      /\ \A i \in 1 .. Len(tx) : tx[i].kind = "echo" /\ tx[i].ch = Expected(i)
  BY <1>0, <1>1, <1>2 DEF LineExpected, ExpectedLength
<1>5. Head(rx) = "nl" <=> Len(rx') = 0
  <2>1. /\ Len(suppress) \in Nat /\ Expected(ExpectedLength) = "nl"
        /\ \A i \in 1 .. Len(suppress) : Expected(i) # "nl"
    BY <1>1, LineFacts
  <2>2. CASE Len(rx) = 1
    <3>1. Len(tx) + 1 = ExpectedLength
      BY <1>4, <2>2
    <3> QED BY <1>2, <1>4, <2>1, <2>2, <3>1
  <2>3. CASE Len(rx) # 1
    <3>1. Len(tx) + 1 \in 1 .. Len(suppress)
      BY <1>2, <1>4, <2>1, <2>3
    <3>2. Expected(Len(tx) + 1) # "nl"
      BY <2>1, <3>1
    <3> QED BY <1>2, <1>4, <2>3, <3>2
  <2> QED BY <2>2, <2>3
<1>6. rx' = << >> <=> Head(rx) = "nl"
  BY <1>2, <1>5
<1>7. ExpectedLength' = ExpectedLength /\ \A i \in Nat : Expected(i)' = Expected(i)
  BY <1>0 DEF ExpectedLength, Expected
<1>10. /\ Len(tx) \in Nat /\ Len(rx) \in Nat /\ Len(tx') = Len(tx) + 1 /\ Len(rx') = Len(rx) - 1
      /\ Len(tx) + Len(rx) = ExpectedLength
  BY <1>2, <1>3, <1>4
<1>11. \A i \in 1 .. Len(tx') :
          tx'[i].kind = "echo" /\ tx'[i].ch = Expected(i)' /\ i <= ExpectedLength
  <2> SUFFICES ASSUME NEW i \in 1 .. Len(tx')
               PROVE  tx'[i].kind = "echo" /\ tx'[i].ch = Expected(i)' /\ i <= ExpectedLength
    OBVIOUS
  <2>1. i \in Nat /\ i <= ExpectedLength /\ (i \in 1 .. Len(tx) \/ i = Len(tx) + 1)
    BY <1>2, <1>3, <1>4
  <2>2. Expected(i)' = Expected(i)
    BY <1>7, <2>1
  <2>3. CASE i \in 1 .. Len(tx)
    BY <1>3, <1>4, <2>1, <2>2, <2>3
  <2>4. CASE i = Len(tx) + 1
    BY <1>3, <1>4, <2>1, <2>2, <2>4
  <2> QED BY <2>1, <2>3, <2>4
<1>12. rx' # << >> =>
          /\ Len(tx') + Len(rx') = ExpectedLength
          /\ \A i \in 1 .. Len(rx') : rx'[i] = Expected(Len(tx) + i)'
  <2>1. Len(tx') + Len(rx') = ExpectedLength
    BY <1>10
  <2>2. ASSUME NEW i \in 1 .. Len(rx') PROVE rx'[i] = Expected(Len(tx) + i)'
    <3>1. i + 1 \in 1 .. Len(rx) /\ Len(tx) + (i + 1) \in Nat
      BY <1>2
    <3>2. rx'[i] = Expected(Len(tx) + (i + 1))
      BY <1>2, <1>4, <3>1
    <3>3. Len(tx') + i = Len(tx) + (i + 1)
      BY <1>2, <1>3
    <3>4. Expected(Len(tx) + i)' = (IF Len(tx') + i <= Len(suppress') THEN suppress'[Len(tx') + i] ELSE "nl")
      BY DEF Expected
    <3> QED BY <1>0, <3>2, <3>3, <3>4 DEF Expected
  <2> QED BY <2>1, <2>2
<1>13. Len(rx') = 0 => Len(tx') = ExpectedLength
  <2>1. ASSUME NEW a \in Nat, NEW b \in Nat, NEW c, a + b = c, b - 1 = 0
        PROVE  a + 1 = c
    BY <2>1
  <2> QED BY <1>10, <2>1
<1>14. rx' = << >> => Len(rx') = 0
  BY <1>5, <1>6
<1> QED BY <1>0, <1>1, <1>6, <1>7, <1>11, <1>12, <1>13, <1>14 DEF LineExpected

\* The queue ends with a line break, so the echo goes on until there is one.
LEMMA PollFirst ==
    ASSUME TypeInvariant, Tick, EchoFirst, PollChar \/ PollLine
    PROVE  Tick' /\ EchoFirst'
<1>0. /\ at = "poll" /\ rx \in Seq(Typed) /\ tx \in Seq(Message) /\ rx # << >> /\ rx' = Tail(rx)
      /\ Transmit(<<Head(rx)>>, "echo")
      /\ UNCHANGED <<suppress, seen, active, wasActive, hurried, unechoed>>
      /\ at' = IF Head(rx) = "nl" THEN "command" ELSE "poll"
  BY TypeFacts DEF PollChar, PollLine, echo, monitor, witness
<1>1. /\ Len(rx) \in Nat \ {0} /\ Len(tx) \in Nat /\ Head(rx) = rx[1] /\ Head(rx) \in Typed
      /\ rx' \in Seq(Typed) /\ Len(rx') = Len(rx) - 1
      /\ \A i \in 1 .. Len(rx') : rx'[i] = rx[i + 1]
  BY <1>0, HeadTailProperties, EmptySeq
<1>2. /\ tx' \in Seq(Message) /\ Len(tx') = Len(tx) + 1
      /\ \A i \in 1 .. Len(tx) : tx'[i] = tx[i]
      /\ tx'[Len(tx) + 1].kind = "echo" /\ tx'[Len(tx) + 1].ch = Head(rx)
  <2> DEFINE text == <<Head(rx)>>
  <2>1. text \in Seq(Typed \cup {">"}) /\ Len(text) = 1 /\ text[1] = Head(rx)
    BY <1>1
  <2>2. Transmit(text, "echo")
    BY <1>0
  <2> HIDE DEF text
  <2>3. /\ tx' \in Seq(Message) /\ Len(tx') = Len(tx) + Len(text)
        /\ \A i \in 1 .. Len(tx) : tx'[i] = tx[i]
        /\ \A i \in 1 .. Len(text) : tx'[Len(tx) + i] = [ch |-> text[i], kind |-> "echo"]
    BY <1>0, <2>1, <2>2, Sent
  <2>4. tx'[Len(tx) + 1] = [ch |-> Head(rx), kind |-> "echo"]
    BY <2>1, <2>3
  <2> QED BY <2>1, <2>3, <2>4
<1>3. rx[Len(rx)] = "nl"
  BY <1>0 DEF Tick
<1>4. rx' # << >> => rx'[Len(rx')] = "nl"
  BY <1>1, <1>3
<1>5. Tick'
  BY <1>0, <1>4 DEF Tick
<1>6. ASSUME suppress' # NoLine, ~unechoed'
      PROVE  /\ seen' = 0
             /\ \/ /\ at' \in {"idle", "poll"} /\ active' /\ rx' # << >>
                   /\ \A i \in 1 .. Len(tx') : tx'[i].kind = "echo"
                \/ \E k \in 1 .. Len(tx') : Echoing(k)'
  <2>1. suppress # NoLine /\ ~unechoed /\ seen' = 0
    BY <1>0, <1>6 DEF EchoFirst
  <2>2. CASE \E k \in 1 .. Len(tx) : Echoing(k)
    <3>1. PICK k \in 1 .. Len(tx) : Echoing(k)
      BY <2>2
    <3>2. k \in 1 .. Len(tx') /\ Echoing(k)'
      BY <1>1, <1>2, <3>1 DEF Echoing
    <3> QED BY <2>1, <3>2
  <2>3. CASE active /\ \A i \in 1 .. Len(tx) : tx[i].kind = "echo"
    <3>1. \A i \in 1 .. Len(tx') : tx'[i].kind = "echo"
      <4> SUFFICES ASSUME NEW i \in 1 .. Len(tx') PROVE tx'[i].kind = "echo"
        OBVIOUS
      <4>1. i \in 1 .. Len(tx) \/ i = Len(tx) + 1
        BY <1>1, <1>2
      <4> QED BY <1>2, <2>3, <4>1
    <3>2. CASE Head(rx) = "nl"
      <4>1. Len(tx') \in 1 .. Len(tx') /\ tx'[Len(tx')].ch = "nl"
        BY <1>1, <1>2, <3>2
      <4>2. Echoing(Len(tx))'
        BY <3>1, <4>1 DEF Echoing
      <4> QED BY <2>1, <4>1, <4>2
    <3>3. CASE Head(rx) # "nl"
      <4>1. rx' # << >>
        BY <1>1, <1>3, <3>3
      <4> QED BY <1>0, <2>1, <2>3, <3>1, <3>3, <4>1
    <3> QED BY <3>2, <3>3
  <2> QED BY <2>1, <2>2, <2>3 DEF EchoFirst
<1> QED BY <1>5, <1>6 DEF EchoFirst

LEMMA PollEcho ==
    ASSUME TypeInvariant, EchoInvariant, PollChar \/ PollLine
    PROVE  EchoInvariant'
<1>1. Tick' /\ EchoFirst'
  BY PollFirst DEF EchoInvariant
<1>2. hurried' = hurried /\ rx # << >>
  BY DEF PollChar, PollLine, witness
<1>3. ~hurried => LineExpected'
  BY <1>2, PollExpected DEF EchoInvariant, Silent
<1> QED BY <1>1, <1>2, <1>3 DEF EchoInvariant

\* Other output follows what is in the queue.
LEMMA OutputFollows ==
    ASSUME TypeInvariant, NEW text \in Seq(Typed \cup {">"}), Transmit(text, "output")
    PROVE  /\ tx' \in Seq(Message) /\ Len(tx) <= Len(tx') /\ Len(tx) \in Nat /\ Len(tx') \in Nat
           /\ \A i \in 1 .. Len(tx) : tx'[i] = tx[i]
           /\ \A i \in 1 .. Len(tx') : i > Len(tx) => tx'[i].kind = "output"
<1>1. /\ tx' \in Seq(Message) /\ Len(tx') = Len(tx) + Len(text)
      /\ \A i \in 1 .. Len(tx) : tx'[i] = tx[i]
      /\ \A i \in 1 .. Len(text) : tx'[Len(tx) + i] = [ch |-> text[i], kind |-> "output"]
      /\ Len(tx) \in Nat /\ Len(text) \in Nat
  <2>1. tx \in Seq(Message)
    BY TypeFacts
  <2>2. /\ tx' \in Seq(Message) /\ Len(tx') = Len(tx) + Len(text)
        /\ \A i \in 1 .. Len(tx) : tx'[i] = tx[i]
        /\ \A i \in 1 .. Len(text) : tx'[Len(tx) + i] = [ch |-> text[i], kind |-> "output"]
    BY <2>1, Sent
  <2> QED BY <2>1, <2>2
<1>2. ASSUME NEW i \in 1 .. Len(tx'), i > Len(tx) PROVE tx'[i].kind = "output"
  <2>1. PICK j \in 1 .. Len(text) : i = Len(tx) + j
    <3>1. i - Len(tx) \in 1 .. Len(text) /\ i = Len(tx) + (i - Len(tx))
      BY <1>1, <1>2
    <3> QED BY <3>1
  <2>2. tx'[i] = [ch |-> text[j], kind |-> "output"]
    BY <1>1, <2>1
  <2> QED BY <2>2
<1> QED BY <1>1, <1>2

\* What was echoed first stays first when more is printed.
LEMMA StillFirst ==
    ASSUME Len(tx) \in Nat, Len(tx') \in Nat, Len(tx) <= Len(tx'),
           \A i \in 1 .. Len(tx) : tx'[i] = tx[i],
           NEW k \in 1 .. Len(tx), Echoing(k)
    PROVE  k \in 1 .. Len(tx') /\ Echoing(k)'
BY DEF Echoing

LEMMA RespondEcho ==
    ASSUME TypeInvariant, EchoInvariant, Respond
    PROVE  EchoInvariant'
<1>0. /\ at = "command" /\ at' = "poll"
      /\ UNCHANGED <<suppress, seen, active, wasActive, hurried, unechoed>>
  BY DEF Respond, echo, monitor, witness
<1>1. /\ Len(tx) <= Len(tx') /\ Len(tx) \in Nat /\ Len(tx') \in Nat
      /\ \A i \in 1 .. Len(tx) : tx'[i] = tx[i]
      /\ \A i \in 1 .. Len(tx') : i > Len(tx) => tx'[i].kind = "output"
  BY Answers, OutputFollows DEF Respond
<1>2. /\ rx = << >> => rx' = << >>
      /\ rx' # << >> => rx # << >> /\ rx'[Len(rx')] = rx[Len(rx)]
  BY Read DEF Respond
<1>3. Tick'
  BY <1>0, <1>2 DEF EchoInvariant, Tick
<1>4. EchoFirst'
  BY <1>0, <1>1, StillFirst DEF EchoInvariant, EchoFirst
<1>5. ASSUME ~hurried' PROVE LineExpected'
  <2>1. LineExpected /\ suppress # NoLine /\ rx = << >> /\ Len(tx) = ExpectedLength
    BY <1>0, <1>5 DEF EchoInvariant, Silent, LineExpected
  <2>2. ExpectedLength' = ExpectedLength /\ \A i \in Nat : Expected(i)' = Expected(i)
    BY <1>0 DEF ExpectedLength, Expected
  <2>3. \A i \in 1 .. Len(tx') :
            IF i <= ExpectedLength THEN tx'[i].kind = "echo" /\ tx'[i].ch = Expected(i)'
            ELSE tx'[i].kind = "output"
    <3>1. \A i \in 1 .. Len(tx) : tx[i].kind = "echo" /\ tx[i].ch = Expected(i)
      BY <1>1, <2>1 DEF LineExpected
    <3> QED BY <1>1, <2>1, <2>2, <3>1
  <2> QED BY <1>0, <1>1, <1>2, <2>1, <2>2, <2>3 DEF LineExpected
<1> QED BY <1>3, <1>4, <1>5 DEF EchoInvariant

\* The guest runs only when no line of a patient user is expected.
LEMMA RunGuestEcho ==
    ASSUME TypeInvariant, EchoInvariant, RunGuest
    PROVE  EchoInvariant'
<1>0. /\ at = "guest" /\ at' = "flush"
      /\ UNCHANGED <<suppress, seen, wasActive, hurried, unechoed>>
      /\ Len(tx) = 0
  BY DEF RunGuest, echo, witness, EchoInvariant, Tick
<1>1. /\ rx = << >> => rx' = << >>
      /\ rx' # << >> => rx # << >> /\ rx'[Len(rx')] = rx[Len(rx)]
  BY Read DEF RunGuest
<1>2. \A i \in 1 .. Len(tx') : tx'[i].kind = "output"
  <2>1. \E text \in Seq(Typed \cup {">"}) : Transmit(text, "output")
    <3>1. <<">">> \in Seq(Typed \cup {">"})
      OBVIOUS
    <3> QED BY <3>1, Answers DEF RunGuest
  <2>2. \A i \in 1 .. Len(tx') : i > Len(tx) => tx'[i].kind = "output"
    BY <2>1, OutputFollows
  <2> QED BY <1>0, <2>2
<1>3. Tick'
  BY <1>0, <1>1 DEF EchoInvariant, Tick
<1>4. EchoFirst'
  BY <1>0 DEF EchoInvariant, EchoFirst
<1>5. ~hurried' => Silent'
  BY <1>0, <1>1, <1>2 DEF EchoInvariant, Silent, LineExpected
<1> QED BY <1>3, <1>4, <1>5 DEF EchoInvariant

\* A reset leaves nothing to read and nothing echoed.
LEMMA ResetEcho ==
    ASSUME TypeInvariant, EchoInvariant, ResetMachine
    PROVE  EchoInvariant'
<1>1. rx' = << >> /\ \A i \in 1 .. Len(tx') : tx'[i].kind = "output"
  BY ResetKept
<1>2. at' = "flush" /\ unechoed'
  BY DEF ResetMachine
<1> QED BY <1>1, <1>2 DEF EchoInvariant, Tick, EchoFirst, Silent

\* The echo of the line is what the editor swallows.
LEMMA WholeEcho ==
    ASSUME TypeInvariant, LineExpected, at = "flush"
    PROVE  ConsumeEcho(Flushed) = NoEcho(ExpectedLength)
<1>. suppress # NoLine
  BY DEF LineExpected
<1>0. /\ seen = 0 /\ rx = << >> /\ ExpectedLength <= Len(tx) /\ ExpectedLength = Len(suppress) + 1
      /\ \A i \in 1 .. ExpectedLength : tx[i].ch = Expected(i)
  <2>1. /\ seen = 0 /\ rx = << >> /\ ExpectedLength <= Len(tx)
        /\ \A i \in 1 .. Len(tx) : i <= ExpectedLength => tx[i].ch = Expected(i)
    BY DEF LineExpected
  <2>2. ExpectedLength = Len(suppress) + 1 /\ Len(suppress) \in Nat /\ Len(tx) \in Nat
    BY LineFacts, TypeFacts DEF ExpectedLength
  <2> QED BY <2>1, <2>2
<1>1. /\ Flushed \in Seq(Typed \cup {">"}) /\ Len(Flushed) = Len(tx) /\ Len(tx) \in Nat
      /\ \A i \in 1 .. Len(tx) : Flushed[i] = tx[i].ch
  BY TypeFacts, FlushedFacts
<1>2. /\ suppress \in Seq(Chars) /\ Len(suppress) \in Nat
      /\ \A i \in 1 .. Len(suppress) : Flushed[i] = suppress[i]
      /\ Flushed[Len(suppress) + 1] = "nl"
  BY <1>0, <1>1, LineFacts
<1>3. Rest = suppress
  BY <1>0, <1>2, SubSeqFull DEF Rest
<1>4. SubSeq(Flushed, 1, Len(suppress)) = SubSeq(Rest, 1, Len(suppress))
  <2> DEFINE begun == SubSeq(Flushed, 1, Len(suppress))
  <2>1. suppress \in Seq(Typed \cup {">"})
    BY <1>2 DEF Typed
  <2>2. begun \in Seq(Typed \cup {">"}) /\ Len(begun) = Len(suppress)
        /\ \A i \in 1 .. Len(suppress) : begun[i] = Flushed[i]
    BY <1>0, <1>1, <1>2
  <2>3. begun = suppress
    <3> HIDE DEF begun
    <3> QED BY <1>2, <2>1, <2>2, SeqEqual
  <2>4. SubSeq(Rest, 1, Len(suppress)) = suppress
    BY <1>2, <1>3, SubSeqFull
  <2> QED BY <2>3, <2>4
<1>5. Matched(Flushed) = Len(suppress)
  <2>1. Matched(Flushed) \in 0 .. Len(suppress)
    BY <1>1, <1>3, MatchedFacts
  <2>2. Len(suppress) <= Matched(Flushed)
    BY <1>0, <1>1, <1>2, <1>3, <1>4, MatchedFacts
  <2> QED BY <1>2, <2>1, <2>2
<1>6. Flushed # << >> /\ Len(suppress) < Len(Flushed)
  BY <1>0, <1>1, <1>2
<1> QED BY <1>0, <1>2, <1>5, <1>6 DEF ConsumeEcho

\* What is swallowed of a text that begins with an echoed line ends with it, at
\* the latest: the expected line holds no line break.
LEMMA FirstEaten ==
    ASSUME TypeInvariant, suppress # NoLine, seen = 0, NEW k \in 1 .. Len(tx), tx[k].ch = "nl"
    PROVE  LET eaten == ConsumeEcho(Flushed) IN
           eaten.suppress = NoLine /\ eaten.swallowed \in 0 .. k
<1> DEFINE eaten == ConsumeEcho(Flushed)
           n == Matched(Flushed)
           break == IF n < Len(Flushed) /\ Flushed[n + 1] = "nl" THEN 1 ELSE 0
<1>1. /\ Flushed \in Seq(Typed \cup {">"}) /\ Len(Flushed) = Len(tx) /\ Len(tx) \in Nat
      /\ Flushed[k] = "nl"
  BY TypeFacts, FlushedFacts
<1>2. /\ Rest \in Seq(Chars) /\ Len(Rest) \in Nat
      /\ n \in 0 .. Len(Rest) /\ n <= Len(Flushed)
      /\ SubSeq(Flushed, 1, n) = SubSeq(Rest, 1, n)
  BY <1>1, RestFacts, MatchedFacts
<1>3. n < k
  <2> SUFFICES ASSUME k <= n PROVE FALSE
    BY <1>1, <1>2
  <2>1. SubSeq(Flushed, 1, n)[k] = Flushed[k]
    BY <1>1, <1>2
  <2>2. SubSeq(Rest, 1, n)[k] = Rest[k] /\ Rest[k] \in Chars
    <3> HIDE DEF n
    <3> QED BY <1>1, <1>2
  <2> QED BY <1>1, <1>2, <2>1, <2>2, ConsoleAssumption
<1>4. n + break \in 0 .. k /\ n # Len(Flushed) /\ Flushed # << >>
  <2> HIDE DEF n
  <2> QED BY <1>1, <1>2, <1>3
<1>5. eaten = NoEcho(n + break) \/ eaten = NoEcho(0)
  BY <1>4 DEF ConsumeEcho
<1> HIDE DEF eaten, n, break
<1>6. eaten.suppress = NoLine /\ eaten.swallowed \in 0 .. k
  BY <1>1, <1>4, <1>5 DEF NoEcho
<1> QED BY <1>6 DEF eaten

\* What the flush makes of the queue.
LEMMA FlushFacts ==
    ASSUME TypeInvariant, EchoInvariant, at = "flush"
    PROVE  /\ ~unechoed => Eaten.suppress = NoLine
           /\ OutputShown /\ EchoHidden
           /\ ~hurried => rx = << >>
<1>0. Len(tx) \in Nat
  BY TypeFacts
<1>1. CASE Entered \/ suppress = NoLine
  <2>1. Eaten.suppress = NoLine /\ Eaten.swallowed = 0
    BY <1>1 DEF Eaten, NoEcho, ConsumeEcho
  <2>2. ~hurried => Silent
    BY <1>1 DEF EchoInvariant, LineExpected, Entered
  <2> QED BY <1>0, <2>1, <2>2 DEF OutputShown, EchoHidden, Silent
<1>2. CASE ~Entered /\ suppress # NoLine
  <2>0. Eaten = ConsumeEcho(Flushed)
    BY <1>2 DEF Eaten, Flushed
  <2>1. ASSUME ~unechoed
        PROVE  Eaten.suppress = NoLine /\ \A i \in 1 .. Eaten.swallowed : tx[i].kind = "echo"
    <3>1. seen = 0
      BY <1>2, <2>1 DEF EchoInvariant, EchoFirst
    <3>2. PICK k \in 1 .. Len(tx) : Echoing(k)
      BY <1>2, <2>1 DEF EchoInvariant, EchoFirst
    <3>3. Eaten.suppress = NoLine /\ Eaten.swallowed \in 0 .. k
      BY <1>2, <2>0, <3>1, <3>2, FirstEaten DEF Echoing
    <3> QED BY <1>0, <3>2, <3>3 DEF Echoing
  <2>2. ASSUME ~hurried
        PROVE  rx = << >> /\ \A i \in 1 .. Len(tx) : tx[i].kind = "echo" => i <= Eaten.swallowed
    <3>1. CASE Silent
      BY <3>1 DEF Silent
    <3>2. CASE LineExpected
      <4>1. Eaten = NoEcho(ExpectedLength)
        BY <2>0, <3>2, WholeEcho
      <4>2. Eaten.swallowed = ExpectedLength
        BY <4>1 DEF NoEcho
      <4>3. rx = << >> /\ \A i \in 1 .. Len(tx) : tx[i].kind = "echo" => i <= ExpectedLength
        BY <3>2 DEF LineExpected
      <4> QED BY <4>2, <4>3
    <3> QED BY <2>2, <3>1, <3>2 DEF EchoInvariant
  <2> QED BY <2>1, <2>2 DEF OutputShown, EchoHidden
<1> QED BY <1>1, <1>2

LEMMA FlushEcho ==
    ASSUME TypeInvariant, EchoInvariant, FlushOutput
    PROVE  EchoInvariant'
<1>0. /\ at = "flush" /\ at' = "idle" /\ tx' = << >> /\ wasActive' = active
      /\ suppress' = Eaten.suppress
      /\ UNCHANGED <<rx, active, hurried, unechoed>>
  BY DEF FlushOutput, witness
<1>1. Tick'
  BY <1>0 DEF EchoInvariant, Tick
<1>2. EchoFirst'
  BY <1>0, FlushFacts DEF EchoFirst
<1>3. ~hurried' => Silent'
  <2>1. Len(tx') = 0
    BY <1>0
  <2> QED BY <1>0, <2>1, FlushFacts DEF Silent
<1> QED BY <1>1, <1>2, <1>3 DEF EchoInvariant

LEMMA StepsEcho ==
    ASSUME TypeInvariant, EchoInvariant, StartTick \/ StartGuest \/ PollDone
    PROVE  EchoInvariant'
<1>0. UNCHANGED <<suppress, seen, rx, tx, wasActive, hurried, unechoed>>
  BY DEF StartTick, StartGuest, PollDone, echo, uart, monitor, witness
<1>1. UNCHANGED <<ExpectedLength>> /\ \A i : Expected(i)' = Expected(i) /\ Echoing(i)' = Echoing(i)
  BY <1>0 DEF ExpectedLength, Expected, Echoing
<1>2. CASE StartTick
  <2>1. at = "idle" /\ at' = (IF active THEN "poll" ELSE "guest") /\ active' = active /\ Len(tx) = 0
    BY <1>2 DEF StartTick, monitor, EchoInvariant, Tick
  <2>2. Tick'
    BY <1>0, <2>1 DEF EchoInvariant, Tick
  <2>3. EchoFirst'
    BY <1>0, <2>1 DEF EchoInvariant, EchoFirst
  <2>4. ~hurried => Silent' \/ LineExpected'
    BY <1>0, <1>1, <2>1 DEF EchoInvariant, Tick, Silent, LineExpected
  <2> QED BY <1>0, <2>2, <2>3, <2>4 DEF EchoInvariant
<1>3. CASE StartGuest
  <2>1. at = "command" /\ at' = "flush"
    BY <1>3 DEF StartGuest
  <2>2. Tick'
    BY <1>0, <2>1 DEF EchoInvariant, Tick
  <2>3. EchoFirst'
    BY <1>0, <1>1, <2>1 DEF EchoInvariant, EchoFirst
  <2>4. ~hurried => LineExpected'
    BY <1>0, <1>1, <2>1 DEF EchoInvariant, Silent, LineExpected
  <2> QED BY <1>0, <2>2, <2>3, <2>4 DEF EchoInvariant
<1>4. CASE PollDone
  <2>1. at = "poll" /\ at' = "flush" /\ rx = << >> /\ active' = active
    BY <1>4 DEF PollDone, monitor
  <2>2. Tick'
    BY <1>0, <2>1 DEF EchoInvariant, Tick
  <2>3. EchoFirst'
    BY <1>0, <1>1, <2>1 DEF EchoInvariant, EchoFirst
  <2>4. ~hurried => Silent' \/ LineExpected'
    BY <1>0, <1>1, <2>1 DEF EchoInvariant, Silent, LineExpected
  <2> QED BY <1>0, <2>2, <2>3, <2>4 DEF EchoInvariant
<1> QED BY <1>2, <1>3, <1>4

LEMMA EchoKept ==
    ASSUME TypeInvariant, EchoInvariant, [Next]_vars
    PROVE  EchoInvariant'
<1>1. CASE UNCHANGED vars
  BY <1>1, SameEcho DEF vars
<1>2. CASE Next
  BY <1>2, KeysEcho, CommitEcho, PollEcho, RespondEcho, RunGuestEcho, ResetEcho, FlushEcho,
     StepsEcho DEF Next
<1> QED BY <1>1, <1>2

-----------------------------------------------------------------------------
(* The theorems. *)

LEMMA Initially == Init => TypeInvariant /\ EchoInvariant
<1> SUFFICES ASSUME Init PROVE TypeInvariant /\ EchoInvariant
  OBVIOUS
<1>1. << >> \in BoundedSeq(Text, HistoryBound)
  <2>1. << >> \in Seq(Text) /\ Len(<< >>) = 0
    OBVIOUS
  <2>2. Len(<< >>) <= HistoryBound
    BY <2>1, ConsoleAssumption
  <2> QED BY <2>1, <2>2, Histories, Zenon
<1>2. Len(history) = 0 /\ Len(line) = 0 /\ Len(rx) = 0 /\ Len(tx) = 0 /\ Len(suppress) = 1
  BY DEF Init, NoLine
<1>3. TypeInvariant
  <2>1. rx \in Seq(Typed) /\ tx \in Seq(Message) /\ Len(rx) <= QueueBound
    BY <1>2, ConsoleAssumption DEF Init
  <2>2. /\ line \in Text /\ draft \in Text /\ suppress \in Text \cup {NoLine}
        /\ history \in BoundedSeq(Text, HistoryBound)
    BY <1>1, EmptyText DEF Init
  <2>3. cursor \in 0 .. Len(line) /\ index \in 0 .. Len(history) /\ seen \in 0 .. Len(suppress)
    BY <1>2 DEF Init
  <2> QED BY <2>1, <2>2, <2>3 DEF Init, TypeInvariant, TypeOK
<1>4. EchoInvariant
  BY <1>2 DEF Init, EchoInvariant, Tick, EchoFirst, Silent
<1> QED BY <1>3, <1>4

\* The cursor stays in the line, the recalled entry in the history and the echo
\* in the line it is expected of, however lines are edited and recalled.
THEOREM TypeCorrect == Spec => []TypeOK
<1>1. TypeInvariant => TypeOK
  BY DEF TypeInvariant
<1> QED BY <1>1, Initially, TypesKept, PTL DEF Spec

LEMMA EchoAlways == Spec => [](TypeInvariant /\ EchoInvariant)
<1>1. TypeInvariant /\ EchoInvariant /\ [Next]_vars => EchoInvariant'
  BY EchoKept
<1> QED BY <1>1, Initially, TypesKept, PTL DEF Spec

\* A line committed to the monitor with nothing under way is shown once: its echo
\* is swallowed, however many characters a tick of the monitor echoes and answers,
\* and whatever was typed ahead, or to a guest, before it.
THEOREM EchoesAreHidden == Spec => []EchoHidden
<1>1. TypeInvariant /\ EchoInvariant => EchoHidden
  BY FlushFacts DEF EchoHidden
<1> QED BY <1>1, EchoAlways, PTL

\* And nothing else is, for lines typed ahead too, unless the monitor does not
\* echo the line: what commands and guests print is all shown.
THEOREM OutputIsShown == Spec => []OutputShown
<1>1. TypeInvariant /\ EchoInvariant => OutputShown
  BY FlushFacts DEF OutputShown
<1> QED BY <1>1, EchoAlways, PTL

=============================================================================
