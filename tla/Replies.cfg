SPECIFICATION HandlersFairSpec
CONSTANTS
    u1 = u1
    u2 = u2
    Updates = {u1, u2}
    MaxReplies = 2
    QueueCap = 2
    MaxPolls = 2
    MaxAttempts = 2
    NoMessage = NoMessage
INVARIANTS OneMessageEach InOrder LostByShutdownOnly
PROPERTIES UpdateEnds ReplySettles RepliesDrain
CHECK_DEADLOCK FALSE
