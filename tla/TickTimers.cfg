SPECIFICATION Spec
CONSTANTS
    Word = 16
    TickMs = 2
    Interval <- MCInterval
    MaxLag = 2
    MaxSince = 16
INVARIANTS
    TypeOK
    NeverEarly
    Punctual
PROPERTY EachTimerRuns
