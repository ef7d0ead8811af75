SPECIFICATION Spec
CONSTANTS
    Runs = {r1, r2, r3, r4}
    Keep = 2
    MaxOverlap = 2
SYMMETRY Symmetry
INVARIANTS CompleteSurvives FilesBounded LocalFreed
PROPERTIES KeepNewer
CHECK_DEADLOCK FALSE
