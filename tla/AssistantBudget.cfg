\* Three questions and a draft of one account, across a month's end.
SPECIFICATION AssistantSpec
CONSTANTS
    q1 = q1
    q2 = q2
    q3 = q3
    d1 = d1
    Calls = {q1, q2, q3, d1}
    Asks = {q1, q2, q3}
    FreeQuota = 1
    ProQuota = 2
    SummaryMax = 1
    Environments <- SmallEnvironments
    MaxMonth = 2
SYMMETRY AskSymmetry
CHECK_DEADLOCK FALSE
INVARIANTS
    QuotaHolds
    PaidIfDelivered
    HistoryIsPrefix
    NoQuestionReadTwice
