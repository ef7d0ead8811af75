SPECIFICATION FairSpec
CONSTANTS
    b1 = b1
    b2 = b2
    Batches = {b1}
    Chats <- MCChats3
    PageSize = 2
    QueueCap = 1
    NotifyCap = 1
    DeadFlush = 1
    MaxAttempts = 2
    NoTask = NoTask
INVARIANTS SuccessIsComplete Coverage
PROPERTIES KeepsPromise BatchEnds OnlyFeedbackHoldsShutdown
CHECK_DEADLOCK FALSE
