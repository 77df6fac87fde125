SPECIFICATION JsonSpec
CONSTANTS
    MaxLen = 12
    MaxString = 2
    Spaced = FALSE
INVARIANTS
    AcceptsGrammar
CHECK_DEADLOCK FALSE
