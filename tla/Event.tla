-------------------------------- MODULE Event --------------------------------
(***************************************************************************)
(* event.send_event_to_analysisd (securics/event.py) with the analysisd   *)
(* queue it writes to (SecuricsAnalysisdQueue, core/securics_queue.py).   *)
(* The queue is opened before the loop; each event is checked against     *)
(* MAX_MSG_SIZE, sent as one datagram, and appended to affected_items, or *)
(* recorded as a failed item under the SecuricsError raised.  An event is *)
(* a model value; Large holds the events whose encoded message exceeds    *)
(* MAX_MSG_SIZE.  analysisd is the ghost sequence delivered.              *)
(***************************************************************************)
EXTENDS FanoutResult, Naturals, Sequences

CONSTANTS
    Event,     \* the events a request may carry
    Large,     \* the events too large for analysisd
    MaxEvents  \* the longest request

ASSUME EventAssumption ==
    Large \subseteq Event /\ MaxEvents \in Nat

VARIABLES
    events,     \* the request's list of events
    pc,         \* "start", "loop", "done" or "raised"
    next,       \* index of the event the loop handles next
    affected,   \* result.affected_items, a sequence of events
    failed,     \* result.failed_items
    total,      \* result.total_affected_items
    delivered   \* the datagrams analysisd received, in order

vars == <<events, pc, next, affected, failed, total, delivered>>

TooLarge  == [code |-> 1012, msg |-> "too large"]   \* send_msg, size check
QueueDown == [code |-> 1014, msg |-> "analysisd"]   \* send_msg, wrapped 1011

-----------------------------------------------------------------------------
Init ==
    /\ events \in UNION {[1..n -> Event] : n \in 0..MaxEvents}
    /\ pc = "start"
    /\ next = 1
    /\ affected = <<>>
    /\ failed = EmptyResult.failed
    /\ total = 0
    /\ delivered = <<>>

\* The with statement opens the queue: _connect either succeeds or raises
\* SecuricsInternalError(1010), which nothing in the function catches.
Open ==
    /\ pc = "start"
    /\ pc' \in {"loop", "raised"}
    /\ UNCHANGED <<events, next, affected, failed, total, delivered>>

\* Bug variant of SendEvent: no size check before the send.
SendEventNoSizeCheck ==
    /\ pc = "loop"
    /\ next <= Len(events)
    /\ LET e == events[next] IN
       \/ /\ delivered' = Append(delivered, e)
          /\ affected' = Append(affected, e)
          /\ UNCHANGED failed
       \/ /\ failed' = AddFailedItem([affected |-> {}, failed |-> failed],
                                     e, QueueDown).failed
          /\ UNCHANGED <<affected, delivered>>
    /\ next' = next + 1
    /\ UNCHANGED <<events, pc, total>>

\* One iteration of the loop for events[next]: send_msg refuses a message
\* above MAX_MSG_SIZE with 1012; otherwise the datagram is sent, and the
\* event appended, or socket.send fails (1011 in _send, re-raised as 1014)
\* and the event is recorded under that error.
SendEvent ==
    /\ pc = "loop"
    /\ next <= Len(events)
    /\ LET e == events[next] IN
       \/ /\ e \in Large
          /\ failed' = AddFailedItem([affected |-> {}, failed |-> failed],
                                     e, TooLarge).failed
          /\ UNCHANGED <<affected, delivered>>
       \/ /\ e \notin Large
          /\ delivered' = Append(delivered, e)
          /\ affected' = Append(affected, e)
          /\ UNCHANGED failed
       \/ /\ e \notin Large
          /\ failed' = AddFailedItem([affected |-> {}, failed |-> failed],
                                     e, QueueDown).failed
          /\ UNCHANGED <<affected, delivered>>
    /\ next' = next + 1
    /\ UNCHANGED <<events, pc, total>>

\* Bug variant of Finish: the total counts the request's events.
FinishCountRequest ==
    /\ pc = "loop"
    /\ next > Len(events)
    /\ total' = Len(events)
    /\ pc' = "done"
    /\ UNCHANGED <<events, next, affected, failed, delivered>>

\* The loop is over and the queue closed: total_affected_items is the
\* length of affected_items.
Finish ==
    /\ pc = "loop"
    /\ next > Len(events)
    /\ total' = Len(affected)
    /\ pc' = "done"
    /\ UNCHANGED <<events, next, affected, failed, delivered>>

Next == Open \/ SendEvent \/ Finish

Spec == Init /\ [][Next]_vars

-----------------------------------------------------------------------------
(* Properties                                                              *)

TypeOK ==
    /\ pc \in {"start", "loop", "done", "raised"}
    /\ next \in 1..Len(events) + 1
    /\ affected \in Seq(Event \ Large)
    /\ DOMAIN failed \subseteq {TooLarge, QueueDown}
    /\ \A k \in DOMAIN failed : failed[k] \subseteq Event
    /\ total \in 0..MaxEvents
    /\ delivered \in Seq(Event \ Large)

\* A finished call accounts for every event of the request, as forwarded
\* or as failed, reports nothing that was not requested, and counts each
\* forwarded datagram once in total_affected_items.
EventsAccounted ==
    pc = "done" =>
        /\ {events[i] : i \in DOMAIN events}
              = {affected[i] : i \in DOMAIN affected} \cup FailedIds(failed)
        /\ total = Len(delivered)
=============================================================================
