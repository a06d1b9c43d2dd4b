CONSTANTS
    None = None
    Agent <- MCAgent
    Row <- MCRow
    Sort <- MCSort
SPECIFICATION Spec
INVARIANTS
    IntegerFieldsSortedNumerically
\* get_item_agent returns or raises once; nothing follows.
CHECK_DEADLOCK FALSE
