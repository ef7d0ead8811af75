SPECIFICATION FairSpec
CONSTANTS
    x = x
    y = y
    u1 = u1
    u2 = u2
    u3 = u3
    Users = {x, y}
    Updates = {u1, u2}
    Commands <- MCCommands
    Stranger = Stranger
    Chat = Chat
    None = None
    Amounts <- MCAmounts
    Cooldown = 1
    MaxTime = 3
    MinPlayers = 2
    MaxPlayers = 2
INVARIANTS CountersAddUp NumbersAreUnique PanicNeedsFailure RowsAreFreed
PROPERTIES LengthsAddUp CooldownKept UpdateEnds
CHECK_DEADLOCK FALSE
