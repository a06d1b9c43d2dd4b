SPECIFICATION Spec
INVARIANTS
    TypeOK
    DeliveredAreMatches
\* The script ends once it exits.
CHECK_DEADLOCK FALSE
