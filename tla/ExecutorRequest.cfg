CONSTANTS
    N = 3
    Permits = 2
    MaxConnect = 2
    MaxRun = 1
    Expiry = 6
SPECIFICATION Spec
INVARIANTS
    TokenFreshWhenSent
    BatchAnswerIsTrue
    SingleAnswerIsTrue
PROPERTIES
    RequestEnds
CHECK_DEADLOCK FALSE
