SPECIFICATION Spec
CONSTANTS
    Word = 4
    Values = {0, 1, 2}
    MaxBody = 9
INVARIANTS
    TypeOK
    PaintedRowByRow
    AnsweredWhenComplete
    BodyClipped
CHECK_DEADLOCK FALSE
