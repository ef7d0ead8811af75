SPECIFICATION MuteSpec
CONSTANTS
    u1 = u1
    u2 = u2
    u3 = u3
    u4 = u4
    Updates = {u1, u2, u3, u4}
    MuteCooldown = 1
    SpamCooldown = 3
    MinMute = 2
    MaxDelay = 1
SYMMETRY Interchangeable
INVARIANTS MuteIsEarned BurstBound MutesAgree
PROPERTIES MuteHolds
CHECK_DEADLOCK FALSE
