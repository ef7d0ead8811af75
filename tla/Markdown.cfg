SPECIFICATION Spec
\* a text that is rewritten and read stays as it is
CHECK_DEADLOCK FALSE
CONSTANTS
    MaxPieces = 4
    Counts = {9, 11, 14}
    Numerals <- MCNumerals
    Inputs <- MCInputs
INVARIANTS LettersKept ReadAsMeant
