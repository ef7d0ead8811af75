SPECIFICATION FairSpec
CONSTANTS
    b1 = b1
    b2 = b2
    Batches = {b1}
    Chats <- MCChats2
    PageSize = 2
    QueueCap = 2
    NotifyCap = 1
    DeadFlush = 1
    MaxAttempts = 1
    NoTask = NoTask
PROPERTIES BroadcastsStop
CHECK_DEADLOCK FALSE
