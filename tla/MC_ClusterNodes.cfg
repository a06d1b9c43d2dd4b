CONSTANTS
    master = master
    worker1 = worker1
    worker2 = worker2
    Node <- MCNode
    Master = master
SPECIFICATION Spec
INVARIANTS
    TypeOK
    NodesInfoReportedWhenStable
