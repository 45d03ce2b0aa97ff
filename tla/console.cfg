SPECIFICATION Spec
CONSTANTS
    Chars = {"a", "b"}
    GuestRuns = TRUE
    LineBound = 2
    QueueBound = 4
    HistoryBound = 1
    AnswerBound = 1
INVARIANTS TypeOK EchoHidden OutputShown
