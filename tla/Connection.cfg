SPECIFICATION Spec
CONSTANTS
    Need = 4
    MaxExtra = 2
INVARIANTS
    TypeOK
    NoDanglingCallback
    UndefinedOnlyAfterFailure
    ClosesItsConnection
PROPERTY AnsweredThenDeleted
CHECK_DEADLOCK FALSE
