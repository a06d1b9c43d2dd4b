CONSTANTS
    master = master
    worker = worker
    Agent <- MCAgent
    Node <- MCNode
    Owner <- MCOwner
    ARDisabled <- MCARDisabled
    CommandKind <- MCCommandKind
SPECIFICATION Spec
INVARIANTS
    TypeOK
    ReportedIsDelivered
    ErrorGrouping
PROPERTIES
    Termination
    ImplementsFanoutSpec
CHECK_DEADLOCK FALSE
