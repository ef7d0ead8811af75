SPECIFICATION Spec
CONSTANTS
    b1 = b1
    b2 = b2
    Batches = {b1, b2}
    Chats <- MCChats2
    PageSize = 2
    QueueCap = 2
    NotifyCap = 1
    DeadFlush = 2
    MaxAttempts = 1
    NoTask = NoTask
SYMMETRY Interchangeable
INVARIANTS PageAccounting OneTaskEach FeedbackIsAwaited LostByShutdownOnly
PROPERTIES DeactivatedIsDead
CHECK_DEADLOCK FALSE
