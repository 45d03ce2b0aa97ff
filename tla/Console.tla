-------------------------------- MODULE Console --------------------------------
(* The terminal of tools/monitor.js: the line editor, which shows a line while *)
(* it is typed and sends it to the UART when it is committed, and the command  *)
(* loop or the guest at the other end, which reads the UART and may echo. So   *)
(* that a line is not shown twice, the editor swallows the echo it expects.    *)
(* Output is written to the UART during a tick and flushed to the editor at    *)
(* its end; keys arrive between ticks, whoever reads the UART and whether or    *)
(* not the line before has been answered.                                      *)
(*                                                                             *)
(* A line break, two characters in the code that are always written together,  *)
(* is one here. Cursor movement on the terminal and redrawing are left out.    *)
EXTENDS Integers, Sequences, SequencesExt

CONSTANTS
    Chars,    \* characters that are typed and printed
    GuestRuns, \* whether commands start the guest, which does not echo
    LineBound, QueueBound,  \* bounds: characters in a line, in the receive queue
    HistoryBound,           \* bound: lines kept of the history, the last ones
    AnswerBound             \* bound: characters of an answer before the prompt

ASSUME ConsoleAssumption ==
    /\ GuestRuns \in BOOLEAN /\ {"nl", ">", "none"} \cap Chars = {}
    /\ LineBound \in Nat /\ QueueBound \in Nat /\ AnswerBound \in Nat
    /\ HistoryBound \in Nat \ {0}

VARIABLES
    line, cursor,    \* the line being typed
    history, index, draft,  \* lines committed, the one recalled, the one set aside
    suppress, seen,  \* suppressLine, <<"none">> if there is none; suppressPos
    rx,              \* the UART's receive queue
    tx,              \* the UART's transmit queue: characters, each an echo or other output
    active,          \* the monitor reads the UART, not the guest
    wasActive,       \* lastMonitorActive
    at,              \* "idle", or the part of the tick to run next
    hurried,         \* history: the line was committed to the guest, or before the last was done
    unechoed         \* history: the monitor does not echo the line: the guest has it, or a reset

editor == <<line, cursor, history, index, draft>>
echo == <<suppress, seen>>
uart == <<rx, tx>>
monitor == <<active, wasActive>>
witness == <<hurried, unechoed>>
vars == <<editor, echo, uart, monitor, at, witness>>

NoLine == <<"none">>
Text == BoundedSeq(Chars, LineBound)

-----------------------------------------------------------------------------
(* Keys. *)

Key == at = "idle" /\ UNCHANGED <<uart, echo, monitor, at, witness>>

Insert ==
    /\ Key
    /\ Len(line) < LineBound
    /\ \E ch \in Chars : line' = InsertAt(line, cursor + 1, ch)
    /\ cursor' = cursor + 1
    /\ UNCHANGED <<history, index, draft>>

Erase ==
    /\ Key
    /\ cursor > 0
    /\ line' = RemoveAt(line, cursor)
    /\ cursor' = cursor - 1
    /\ UNCHANGED <<history, index, draft>>

Delete ==
    /\ Key
    /\ cursor < Len(line)
    /\ line' = RemoveAt(line, cursor + 1)
    /\ UNCHANGED <<cursor, history, index, draft>>

\* Left, Right, Home and End.
MoveCursor ==
    /\ Key
    /\ cursor' \in {0, Len(line), cursor - 1, cursor + 1} \cap 0 .. Len(line)
    /\ UNCHANGED <<line, history, index, draft>>

SetLineOnly(text) == line' = text /\ UNCHANGED cursor  \* mutant
SetLine(text) == line' = text /\ cursor' = Len(text)

\* The first step up sets the line aside; the oldest entry stays.
HistoryUp ==
    /\ Key
    /\ history # <<>>
    /\ index' = IF index = 0 THEN Len(history) ELSE IF index > 1 THEN index - 1 ELSE index
    /\ draft' = IF index = 0 THEN line ELSE draft
    /\ SetLine(history[index'])
    /\ UNCHANGED history

HistoryDown ==
    /\ Key
    /\ index # 0
    /\ index' = IF index < Len(history) THEN index + 1 ELSE 0
    /\ SetLine(IF index' = 0 THEN draft ELSE history[index'])
    /\ UNCHANGED <<history, draft>>

Quiet == rx = <<>> /\ tx = <<>>

\* Mutant: the echo of an empty line is not expected.
ExpectNonempty(text) == suppress' = (IF text = <<>> THEN NoLine ELSE text) /\ seen' = 0

Expect(text) == suppress' = text /\ seen' = 0

\* Enter: a repeated line is kept once.
Commit ==
    /\ at = "idle"
    /\ Len(rx) + Len(line) < QueueBound
    /\ rx' = rx \o Append(line, "nl")
    /\ history' =
           IF line = <<>> \/ (history # <<>> /\ Last(history) = line) THEN history
           ELSE IF Len(history) = HistoryBound THEN Append(Tail(history), line)
           ELSE Append(history, line)
    /\ line' = <<>> /\ cursor' = 0
    /\ index' = 0 /\ draft' = <<>>
    /\ Expect(line)
    /\ hurried' = ~(Quiet /\ active) /\ unechoed' = ~active
    /\ UNCHANGED <<tx, monitor, at>>

-----------------------------------------------------------------------------
(* The tick. *)

Written(text, kind) == [i \in 1 .. Len(text) |-> [ch |-> text[i], kind |-> kind]]
Transmit(text, kind) == tx' = tx \o Written(text, kind)

StartTick ==
    /\ at = "idle"
    /\ at' = IF active THEN "poll" ELSE "guest"
    /\ UNCHANGED <<editor, echo, uart, monitor, witness>>

\* CommandLoop.poll echoes a character, and a line break before its command.
PollChar ==
    /\ at = "poll"
    /\ rx # <<>> /\ Head(rx) # "nl"
    /\ rx' = Tail(rx)
    /\ Transmit(<<Head(rx)>>, "echo")
    /\ UNCHANGED <<editor, echo, monitor, at, witness>>

PollLine ==
    /\ at = "poll"
    /\ rx # <<>> /\ Head(rx) = "nl"
    /\ rx' = Tail(rx)
    /\ Transmit(<<"nl">>, "echo")
    /\ at' = "command"
    /\ UNCHANGED <<editor, echo, monitor, witness>>

\* A command answers, and is followed by the prompt unless it starts the guest.
\* One that steps the guest or dumps memory may read the UART's data register.
Respond ==
    /\ at = "command"
    /\ rx' \in Suffixes(rx)
    /\ \E answer \in BoundedSeq(Chars, AnswerBound) : Transmit(answer \o <<">">>, "output")
    /\ at' = "poll"
    /\ UNCHANGED <<editor, echo, monitor, witness>>

StartGuest ==
    /\ at = "command" /\ GuestRuns
    /\ active' = FALSE
    /\ at' = "flush"
    /\ UNCHANGED <<editor, echo, uart, wasActive, witness>>

\* Reset clears the queues, and with them the echo of its own line, and runs a
\* block, which may trap into the monitor or fault.
ResetMachine ==
    /\ at = "command"
    /\ rx' = <<>>
    /\ active' \in BOOLEAN
    /\ \E text \in BoundedSeq(Chars, AnswerBound) :
           tx' = Written(IF active' THEN text \o <<">">> ELSE text, "output")
    /\ unechoed' = TRUE
    /\ at' = "flush"
    /\ UNCHANGED <<editor, echo, wasActive, hurried>>

PollDone ==
    /\ at = "poll"
    /\ rx = <<>>
    /\ at' = "flush"
    /\ UNCHANGED <<editor, echo, uart, monitor, witness>>

\* The guest prints what it likes and reads the UART or not.
RunGuest ==
    /\ at = "guest"
    /\ rx' \in Suffixes(rx)
    /\ \/ /\ \E text \in BoundedSeq(Chars, AnswerBound) : Transmit(text, "output")
          /\ UNCHANGED active
       \/ /\ Transmit(<<">">>, "output")
          /\ active' = TRUE
    /\ at' = "flush"
    /\ UNCHANGED <<editor, echo, wasActive, witness>>

\* How much of the expected echo the beginning of the text matches, from seen on.
Matched(text) ==
    LET rest == SubSeq(suppress, seen + 1, Len(suppress))
        common == {n \in 0 .. Len(rest) : n <= Len(text) /\ SubSeq(text, 1, n) = SubSeq(rest, 1, n)}
    IN Max(common)

\* Mutant: an echo once swallowed is expected again.
NoEchoAgain(n) == [swallowed |-> n, suppress |-> suppress, seen |-> 0]

\* No echo is expected from here on.
NoEcho(n) == [swallowed |-> n, suppress |-> NoLine, seen |-> 0]

\* consumeSuppressedEcho: how much of the text is swallowed, and what remains
\* expected. A mismatch gives up the echo and shows the text from its start.
ConsumeEcho(text) ==
    LET n == Matched(text)
        done == seen + n
        whole == done = Len(suppress)
        break == IF n < Len(text) /\ text[n + 1] = "nl" THEN 1 ELSE 0
    IN IF suppress = NoLine \/ text = <<>> THEN [swallowed |-> 0, suppress |-> suppress, seen |-> seen]
       ELSE IF whole THEN NoEcho(n + break)
       ELSE IF done # 0 /\ n = Len(text) THEN [swallowed |-> n, suppress |-> suppress, seen |-> done]
       ELSE NoEcho(0)

Entered == active /\ ~wasActive

\* When the monitor has become active, what was typed to the guest is dropped.
ResetTransientInput ==
    IF Entered
    THEN /\ line' = <<>> /\ cursor' = 0
         /\ index' = 0 /\ draft' = <<>>
         /\ UNCHANGED history
    ELSE UNCHANGED editor

\* handleOutput: what is not swallowed of the text is shown.
Eaten == IF Entered THEN NoEcho(0) ELSE ConsumeEcho([i \in 1 .. Len(tx) |-> tx[i].ch])

FlushOutput ==
    /\ at = "flush"
    /\ ResetTransientInput
    /\ suppress' = Eaten.suppress /\ seen' = Eaten.seen
    /\ tx' = <<>>
    /\ wasActive' = active
    /\ at' = "idle"
    /\ UNCHANGED <<rx, active, witness>>

Init ==
    /\ line = <<>> /\ cursor = 0
    /\ history = <<>> /\ index = 0 /\ draft = <<>>
    /\ suppress = NoLine /\ seen = 0
    /\ rx = <<>> /\ tx = <<>>
    /\ active = TRUE /\ wasActive = TRUE
    /\ at = "idle"
    /\ hurried = FALSE /\ unechoed = FALSE

Next ==
    \/ Insert \/ Erase \/ Delete \/ MoveCursor \/ HistoryUp \/ HistoryDown \/ Commit
    \/ StartTick \/ PollChar \/ PollLine \/ Respond \/ StartGuest \/ ResetMachine
    \/ PollDone \/ RunGuest \/ FlushOutput

Spec == Init /\ [][Next]_vars

-----------------------------------------------------------------------------
(* Properties. *)

\* The types of the editor, the queues and the tick; the cursor is in the line
\* and the recalled entry in the history.
TypeOK ==
    /\ line \in Text /\ cursor \in 0 .. Len(line)
    /\ history \in BoundedSeq(Text, HistoryBound) /\ index \in 0 .. Len(history)
    /\ draft \in Text
    /\ suppress \in Text \cup {NoLine} /\ seen \in 0 .. Len(suppress)
    /\ Len(rx) <= QueueBound
    /\ active \in BOOLEAN /\ wasActive \in BOOLEAN
    /\ at \in {"idle", "poll", "command", "guest", "flush"}
    /\ hurried \in BOOLEAN /\ unechoed \in BOOLEAN

\* The echo of a committed line is not shown a second time, if the line was
\* committed to the monitor with nothing under way (line_editor.js; the assertion
\* 'line editor did not suppress echoed command text' of its test). A line typed
\* ahead takes the place of the one before, whose echo is then shown.
EchoHidden ==
    at = "flush" /\ ~hurried => \A i \in 1 .. Len(tx) : tx[i].kind = "echo" => i <= Eaten.swallowed

\* No output that is not an echo is swallowed, whenever lines are committed,
\* unless the line is not echoed at all: then the editor waits for an echo of it
\* in whatever is printed next (line_editor.js; the assertion 'line editor did
\* not preserve later UART output' of its test).
OutputShown ==
    at = "flush" /\ ~unechoed => \A i \in 1 .. Eaten.swallowed : tx[i].kind = "echo"

=============================================================================
