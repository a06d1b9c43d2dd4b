CONSTANTS
    Agent <- MCAgent
SPECIFICATION Spec
INVARIANTS
    TypeOK
    ReportedPartition
\* After both calls have returned nothing is left to happen.
CHECK_DEADLOCK FALSE
