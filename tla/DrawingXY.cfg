SPECIFICATION Spec
CONSTANTS
    Word = 4
    Values = {0, 1, 2}
    MaxBody = 9
INVARIANT DrawnFromXY
CHECK_DEADLOCK FALSE
