CONSTANTS
    Unlimited = Unlimited
    ArgSet <- MCArgSet
    MaxElapsed = 21
SPECIFICATION ATSpec
CONSTRAINT Bounded
INVARIANTS
    NeverFallsThrough
    WithinBudget
PROPERTIES
    LimitedCallEnds
CHECK_DEADLOCK FALSE
