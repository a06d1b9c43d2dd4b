SPECIFICATION Spec
INVARIANT
    PositiveMatchesSent
CHECK_DEADLOCK FALSE
