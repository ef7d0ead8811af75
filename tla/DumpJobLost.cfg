SPECIFICATION Spec
CONSTANTS
    Runs = {r1, r2, r3}
    Keep = 2
    MaxOverlap = 1
INVARIANTS BackupSurvives
CHECK_DEADLOCK FALSE
