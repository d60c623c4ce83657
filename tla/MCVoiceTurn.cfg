\* Three utterances suffice for: an answered turn, one cut short, one past the budget.
CONSTANTS
    MaxStarts = 3
    MaxSentences = 1
    MaxPending = 2
    QuickSends = TRUE
SPECIFICATION FairSpec
INVARIANTS
    TypeOK
    HistoryAlternates
    QueuedReplyIsLast
    NoStaleSpeech
    AsksWholeTurn
PROPERTIES
    ClosedTurnsStayClosed
    UnheardReplyIsRetracted
    KeepsQuestions
    HandlersReturn
\* The user may fall silent for good.
CHECK_DEADLOCK FALSE
