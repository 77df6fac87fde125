SPECIFICATION JsonSpec
CONSTANTS
    MaxLen = 12
    MaxString = 2
    Spaced = TRUE
INVARIANTS
    AcceptsGrammar
    ReportedAsWritten
    StackPerLevel
CHECK_DEADLOCK FALSE
