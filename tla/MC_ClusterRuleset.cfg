CONSTANTS
    master = master
    worker1 = worker1
    worker2 = worker2
    d1 = d1
    d2 = d2
    Node <- MCNode
    CalleeError <- MCCalleeError
    Digest <- MCDigest
SPECIFICATION Spec
INVARIANTS
    TypeOK
PROPERTIES
    ImplementsFanoutSpec
CHECK_DEADLOCK FALSE
