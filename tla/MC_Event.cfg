CONSTANTS
    e1 = e1
    e2 = e2
    big = big
    Event <- MCEvent
    Large <- MCLarge
    MaxEvents = 3
SPECIFICATION Spec
INVARIANTS
    TypeOK
    EventsAccounted
\* send_event_to_analysisd returns or raises once; nothing follows.
CHECK_DEADLOCK FALSE
