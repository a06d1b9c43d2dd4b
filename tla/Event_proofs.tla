----------------------------- MODULE Event_proofs -----------------------------
(***************************************************************************)
(* Proofs about send_event_to_analysisd for every set of events and every *)
(* request length: type correctness, and that a finished call accounts   *)
(* for every requested event and counts each datagram analysisd got once.*)
(***************************************************************************)
EXTENDS Event, TLAPS

\* The failed-items map add_failed_item(id, e) leaves behind on map f.
Extended(f, id, e) ==
    [k \in DOMAIN f \cup {e} |-> IdsOf(f, k) \cup (IF k = e THEN {id} ELSE {})]

\* add_failed_item(id, e) on a failed-items map f leaves Extended(f, id, e).
LEMMA AddFailedItemExtends ==
    ASSUME NEW f, NEW id, NEW e
    PROVE  AddFailedItem([affected |-> {}, failed |-> f], id, e).failed
              = Extended(f, id, e)
BY DEF AddFailedItem, Extended

\* The failed ids grow by exactly the id add_failed_item records.
LEMMA ExtendedIds ==
    ASSUME NEW f, NEW id, NEW e
    PROVE  FailedIds(Extended(f, id, e)) = FailedIds(f) \cup {id}
<1> DEFINE g == Extended(f, id, e)
<1>1. ASSUME NEW x \in FailedIds(g) PROVE x \in FailedIds(f) \cup {id}
    <2>1. PICK k \in DOMAIN f \cup {e} : x \in g[k]
        BY <1>1 DEF FailedIds, Extended
    <2> QED
        BY <2>1 DEF FailedIds, IdsOf, Extended
<1>2. ASSUME NEW x \in FailedIds(f) PROVE x \in FailedIds(g)
    <2>1. PICK k \in DOMAIN f : x \in f[k]
        BY <1>2 DEF FailedIds
    <2>2. x \in g[k]
        BY <2>1 DEF IdsOf, Extended
    <2> QED
        BY <2>2 DEF FailedIds, Extended
<1>3. id \in FailedIds(g)
    <2>1. id \in g[e]
        BY DEF Extended
    <2> QED
        BY <2>1 DEF FailedIds, Extended
<1> QED
    BY <1>1, <1>2, <1>3

\* Recording a request's event e under one of the two errors send_msg
\* raises keeps the failed-items map well typed.
LEMMA ExtendedTyped ==
    ASSUME NEW f, DOMAIN f \subseteq {TooLarge, QueueDown},
           \A k \in DOMAIN f : f[k] \subseteq Event,
           NEW id \in Event, NEW e \in {TooLarge, QueueDown}
    PROVE  /\ DOMAIN Extended(f, id, e) \subseteq {TooLarge, QueueDown}
           /\ \A k \in DOMAIN Extended(f, id, e) : Extended(f, id, e)[k] \subseteq Event
BY DEF Extended, IdsOf

-----------------------------------------------------------------------------
(* The inductive invariant                                                 *)

\* The events the loop has handled.
Seen == {events[i] : i \in 1..next - 1}

\* The events affected_items holds.
Forwarded == {affected[i] : i \in DOMAIN affected}

\* TypeOK does not bound total by itself: total is the length of affected
\* once the call is done, and affected never outgrows the handled prefix
\* of a request of at most MaxEvents events.  Every handled event is
\* forwarded or failed, which is what EventsAccounted needs at the end.
IInv ==
    /\ TypeOK
    /\ events \in Seq(Event)
    /\ Len(events) <= MaxEvents
    /\ affected = delivered
    /\ Len(affected) <= next - 1
    /\ Seen = Forwarded \cup FailedIds(failed)
    /\ pc = "start" => next = 1
    /\ pc = "done" => next = Len(events) + 1 /\ total = Len(delivered)

LEMMA InitIInv == Init => IInv
<1> SUFFICES ASSUME Init PROVE IInv
    OBVIOUS
<1>1. FailedIds(failed) = {}
    BY DEF Init, EmptyResult, FailedIds
<1>2. events \in Seq(Event) /\ Len(events) <= MaxEvents
    <2>1. PICK n \in 0..MaxEvents : events \in [1..n -> Event]
        BY DEF Init
    <2> QED
        BY <2>1, EventAssumption
<1> QED
    BY <1>1, <1>2, EventAssumption DEF Init, IInv, TypeOK, Seen, Forwarded, EmptyResult

LEMMA NextIInv == IInv /\ [Next]_vars => IInv'
<1> SUFFICES ASSUME IInv, [Next]_vars PROVE IInv'
    OBVIOUS
<1> USE EventAssumption
<1>1. CASE Open
    BY <1>1 DEF Open, IInv, TypeOK, Seen, Forwarded
<1>2. CASE SendEvent
    <2> DEFINE e == events[next]
    <2>1. next \in 1..Len(events) /\ e \in Event
        BY <1>2 DEF SendEvent, IInv, TypeOK
    <2>2. Seen' = Seen \cup {e}
        BY <1>2, <2>1 DEF SendEvent, Seen, IInv
    <2>3. /\ next' = next + 1 /\ UNCHANGED <<events, pc, total>> /\ pc = "loop"
          /\ next' \in 1..Len(events') + 1
        BY <1>2, <2>1 DEF SendEvent
    <2>4. ASSUME NEW err \in {TooLarge, QueueDown},
                 failed' = AddFailedItem([affected |-> {}, failed |-> failed], e, err).failed,
                 UNCHANGED <<affected, delivered>>
          PROVE  IInv'
        <3>1. failed' = Extended(failed, e, err)
            BY <2>4, AddFailedItemExtends
        <3>2. FailedIds(failed') = FailedIds(failed) \cup {e}
            <4>1. FailedIds(Extended(failed, e, err)) = FailedIds(failed) \cup {e}
                BY ExtendedIds
            <4> QED
                BY <3>1, <4>1
        <3>3. DOMAIN failed' \subseteq {TooLarge, QueueDown}
              /\ \A k \in DOMAIN failed' : failed'[k] \subseteq Event
            <4>1. /\ DOMAIN Extended(failed, e, err) \subseteq {TooLarge, QueueDown}
                  /\ \A k \in DOMAIN Extended(failed, e, err) :
                        Extended(failed, e, err)[k] \subseteq Event
                BY <2>1, ExtendedTyped DEF IInv, TypeOK
            <4> QED
                BY <3>1, <4>1
        <3>4. Seen' = Forwarded' \cup FailedIds(failed')
            BY <2>2, <3>2, <2>4 DEF IInv, Forwarded
        <3>5. Len(affected') <= next' - 1 /\ affected' = delivered'
            BY <2>3, <2>4 DEF IInv, TypeOK
        <3>6. TypeOK'
            BY <2>3, <2>4, <3>3 DEF IInv, TypeOK
        <3> QED
            BY <2>3, <2>4, <3>4, <3>5, <3>6 DEF IInv
    <2>5. ASSUME e \notin Large, delivered' = Append(delivered, e),
                 affected' = Append(affected, e), UNCHANGED failed
          PROVE  IInv'
        <3>1. Forwarded' = Forwarded \cup {e}
            <4>1. affected \in Seq(Event)
                BY DEF IInv, TypeOK
            <4>2. /\ DOMAIN affected' = 1..Len(affected) + 1
                  /\ \A i \in 1..Len(affected) : affected'[i] = affected[i]
                  /\ affected'[Len(affected) + 1] = e
                BY <4>1, <2>5
            <4>3. DOMAIN affected = 1..Len(affected)
                BY <4>1
            <4> QED
                BY <4>2, <4>3 DEF Forwarded
        <3>2. affected' \in Seq(Event \ Large) /\ Len(affected') <= next' - 1
            <4>1. e \in Event \ Large /\ affected \in Seq(Event \ Large)
                BY <2>1, <2>5 DEF IInv, TypeOK
            <4>2. Len(affected') = Len(affected) + 1 /\ affected' \in Seq(Event \ Large)
                BY <4>1, <2>5
            <4> QED
                BY <4>2, <2>3 DEF IInv, TypeOK
        <3>3. Seen' = Forwarded' \cup FailedIds(failed')
            BY <2>2, <3>1, <2>5 DEF IInv
        <3> QED
            BY <2>3, <2>5, <3>2, <3>3 DEF IInv, TypeOK
    <2> QED
        BY <1>2, <2>4, <2>5 DEF SendEvent
<1>3. CASE Finish
    <2>1. total' = Len(affected) /\ Len(affected) <= MaxEvents
        BY <1>3 DEF Finish, IInv, TypeOK
    <2>2. next = Len(events) + 1
        BY <1>3 DEF Finish, IInv, TypeOK
    <2>3. UNCHANGED <<events, next, affected, failed, delivered>> /\ pc' = "done"
        BY <1>3 DEF Finish
    <2>4. Seen' = Seen /\ Forwarded' = Forwarded
        BY <2>3 DEF Seen, Forwarded
    <2>5. total' \in 0..MaxEvents
        BY <2>1
    <2> QED
        BY <2>1, <2>2, <2>3, <2>4, <2>5 DEF IInv, TypeOK
<1>4. CASE UNCHANGED vars
    BY <1>4 DEF vars, IInv, TypeOK, Seen, Forwarded
<1> QED
    BY <1>1, <1>2, <1>3, <1>4 DEF Next

-----------------------------------------------------------------------------
(* Theorems                                                                *)

\* Every state of every run of send_event_to_analysisd is well typed.
THEOREM TypeCorrect == Spec => []TypeOK
<1>1. IInv => TypeOK
    BY DEF IInv
<1> QED
    BY <1>1, InitIInv, NextIInv, PTL DEF Spec

\* A finished call reports every requested event as forwarded or failed,
\* nothing else, and counts the forwarded datagrams.
THEOREM AccountedCorrect == Spec => []EventsAccounted
<1>1. IInv => EventsAccounted
    <2> SUFFICES ASSUME IInv, pc = "done" PROVE EventsAccounted
        BY DEF EventsAccounted
    <2>1. Seen = {events[i] : i \in DOMAIN events}
        BY DEF IInv, Seen
    <2> QED
        BY <2>1 DEF IInv, Forwarded, EventsAccounted
<1> QED
    BY <1>1, InitIInv, NextIInv, PTL DEF Spec
=============================================================================
