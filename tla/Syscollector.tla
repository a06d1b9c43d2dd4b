----------------------------- MODULE Syscollector -----------------------------
(***************************************************************************)
(* syscollector.get_item_agent (securics/syscollector.py): for each agent  *)
(* of agent_list it either records SecuricsResourceNotFound(1701) or       *)
(* queries the agent's syscollector table and appends every row, tagged    *)
(* with agent_id; then it picks the casting of the sort field from the     *)
(* first row and sorts all rows with merge, each row its own partition.   *)
(*                                                                         *)
(* A row is a record over the fields "f1", "f2" (a field the database      *)
(* returns no value for is absent); values are numbers, as the integer     *)
(* columns whose casting the code adjusts.  The query's page is the        *)
(* agent's whole table (offset 0, a limit above the table sizes).  The     *)
(* get_valid_fields and the query (core/syscollector.py, utils.py, not in *)
(* this repository) may, for an agent of system_agents, raise             *)
(* SecuricsResourceNotFound, which line 76 catches and records under that *)
(* error, or another SecuricsError, which escapes (the wdb socket).  An    *)
(* agent removed after system_agents was read is one such case: the model *)
(* lets every found agent's query take either branch.                     *)
(***************************************************************************)
EXTENDS ShardMerge, FanoutResult, Naturals, Sequences, FiniteSets

CONSTANTS
    Agent,    \* agent ids
    Row,      \* the rows an agent's table may hold
    Sort      \* the sort arguments a request may carry, None among them

ASSUME SyscollectorAssumption ==
    /\ Agent \subseteq Nat
    /\ None \in Sort
    /\ \A s \in Sort \ {None} :
          /\ s = [fields |-> s.fields, order |-> s.order]
          /\ s.order \in {"asc", "desc"}
          /\ Len(s.fields) >= 1

VARIABLES
    registered,   \* system_agents, read once at line 60 and never again
    table,        \* table[a]: the rows the query returns for agent a
    agentList,    \* agent_list of the request, in order
    sort,         \* the sort argument
    pc,           \* "start", "loop", "done" or "raised"
    todo,         \* the agents of agent_list the loop has not reached
    affected,     \* result.affected_items, a sequence of rows
    failed,       \* result.failed_items
    total,        \* result.total_affected_items
    casting       \* result.sort_casting

vars == <<registered, table, agentList, sort, pc, todo, affected, failed,
          total, casting>>

AgentNotFound == [code |-> 1701, msg |-> ""]   \* SecuricsResourceNotFound(1701)
\* The SecuricsResourceNotFound get_valid_fields or the query raises; its
\* code is set outside this repository.
QueryNotFound == [code |-> 0, msg |-> "query"]

\* result.sort_fields and result.sort_ascending.  Without a sort argument
\* the ascending list is ['True'], a non-empty string, which merge takes as
\* ascending.
SortFields == IF sort = None THEN <<"agent_id">> ELSE sort.fields
SortAscending ==
    IF sort = None THEN <<TRUE>>
    ELSE [i \in 1..Len(sort.fields) |-> sort.order = "asc"]

\* item['agent_id'] = agent for every row of the query.
Tagged(rows, a) ==
    [i \in 1..Len(rows) |->
        [f \in DOMAIN rows[i] \cup {"agent_id"} |->
            IF f = "agent_id" THEN a ELSE rows[i][f]]]

\* The casting lines 80-89 compute: with one sort field, the type name of
\* that field in the first row ("int" for the numbers of this model); when
\* the key is missing, the KeyError leaves ['str'].
CastingFor(rows) ==
    IF /\ Len(rows) > 0
       /\ sort # None
       /\ Len(sort.fields) = 1
       /\ sort.fields[1] \in DOMAIN rows[1]
    THEN <<"int">>
    ELSE <<"str">>

-----------------------------------------------------------------------------
Init ==
    /\ registered \in SUBSET Agent
    /\ table \in [Agent -> UNION {[1..n -> Row] : n \in 1..2}]
    /\ agentList \in {s \in UNION {[1..n -> Agent] : n \in 0..Cardinality(Agent)} :
                        \A i, j \in DOMAIN s : i # j => s[i] # s[j]}
    /\ sort \in Sort
    /\ pc = "start"
    /\ todo = <<>>
    /\ affected = <<>>
    /\ failed = EmptyResult.failed
    /\ total = 0
    /\ casting = <<"str">>

\* The result is created with its sort fields, casting ['str'] and
\* ascending flags, and system_agents is read.
Start ==
    /\ pc = "start"
    /\ pc' = "loop"
    /\ todo' = agentList
    /\ UNCHANGED <<registered, table, agentList, sort, affected, failed,
                   total, casting>>

AgentStep ==
    /\ pc = "loop"
    /\ todo # <<>>
    /\ LET a == Head(todo) IN
       \/ /\ \E e \in {AgentNotFound, QueryNotFound} :
                /\ e = AgentNotFound <=> a \notin registered
                /\ failed' = AddFailedItem([affected |-> {}, failed |-> failed],
                                           a, e).failed
          /\ todo' = Tail(todo)
          /\ UNCHANGED <<pc, affected, total>>
       \/ /\ a \in registered
          /\ affected' = affected \o Tagged(table[a], a)
          /\ total' = total + Len(table[a])
          /\ todo' = Tail(todo)
          /\ UNCHANGED <<pc, failed>>
       \/ /\ a \in registered
          /\ pc' = "raised"
          /\ UNCHANGED <<todo, affected, failed, total>>
    /\ UNCHANGED <<registered, table, agentList, sort, casting>>

\* Bug variant of Finish: the type name is appended to ['str'] instead of
\* replacing it.
FinishAppendCast ==
    /\ pc = "loop"
    /\ todo = <<>>
    /\ casting' = IF CastingFor(affected) = <<"int">>
                     THEN casting \o <<"int">> ELSE casting
    /\ affected' = Merge([i \in 1..Len(affected) |-> <<affected[i]>>],
                         SortFields, SortAscending, casting')
    /\ pc' = "done"
    /\ UNCHANGED <<registered, table, agentList, sort, todo, failed, total>>

\* The loop is over: the casting is adjusted from the first row, and the
\* rows are merged, each as its own partition, under the sort fields,
\* ascending flags and casting; the result is returned.
Finish ==
    /\ pc = "loop"
    /\ todo = <<>>
    /\ casting' = CastingFor(affected)
    /\ affected' = Merge([i \in 1..Len(affected) |-> <<affected[i]>>],
                         SortFields, SortAscending, casting')
    /\ pc' = "done"
    /\ UNCHANGED <<registered, table, agentList, sort, todo, failed, total>>

Next == Start \/ AgentStep \/ Finish

Spec == Init /\ [][Next]_vars

-----------------------------------------------------------------------------
(* Properties                                                              *)

TypeOK ==
    /\ registered \subseteq Agent
    /\ sort \in Sort
    /\ pc \in {"start", "loop", "done", "raised"}
    /\ Len(todo) <= Len(agentList)
    /\ DOMAIN failed \subseteq {AgentNotFound, QueryNotFound}
    /\ \A k \in DOMAIN failed : failed[k] \subseteq Agent
    /\ total \in Nat
    /\ casting \in {<<"str">>, <<"int">>}

\* The agents a returned call reports rows of.
AgentsWithRows == {affected[i].agent_id : i \in DOMAIN affected}

IntegerFieldsSortedNumerically ==
    (pc = "done" /\ sort # None) =>
        IsSortedBy(affected, SortFields, SortAscending,
                   [i \in 1..Len(SortFields) |-> "int"])
=============================================================================
