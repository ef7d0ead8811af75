SPECIFICATION FairSpec
CONSTANTS
    u1 = u1
    u2 = u2
    u3 = u3
    workers = workers
    Updates = {u1, u2, u3}
    Plain = {workers}
INVARIANTS QuietClose CrashNeedsGivingUp
PROPERTIES RequestIsHeard ShutdownEnds
CHECK_DEADLOCK FALSE
