SPECIFICATION Spec
CONSTANTS
    NHeaders = 2
    NBody = 2
INVARIANTS
    CallsAsSent
    BodyGapless
    HeadersInOrder
