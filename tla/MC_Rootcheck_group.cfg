CONSTANTS
    Agent <- MCAgent
SPECIFICATION Spec
INVARIANTS
    OneGroupPerAgent
CHECK_DEADLOCK FALSE
