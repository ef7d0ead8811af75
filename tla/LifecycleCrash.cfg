SPECIFICATION Spec
CONSTANTS
    u1 = u1
    u2 = u2
    u3 = u3
    workers = workers
    Updates = {u1, u2}
    Plain = {workers}
INVARIANTS ShutdownIsGraceful
CHECK_DEADLOCK FALSE
