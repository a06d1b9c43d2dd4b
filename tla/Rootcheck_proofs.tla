--------------------------- MODULE Rootcheck_proofs ---------------------------
(***************************************************************************)
(* Proofs about rootcheck.run and rootcheck.clear for every set of agents: *)
(* type correctness, and that a returned call reports each requested      *)
(* agent once (ReportedPartition), whatever the agent database does        *)
(* meanwhile.                                                              *)
(***************************************************************************)
EXTENDS Rootcheck, TLAPS

-----------------------------------------------------------------------------
(* Lemmas on the result operators                                          *)

\* The empty result is a result and reports nobody.
LEMMA EmptyResultFacts ==
    IsResult(EmptyResult) /\ FailedIds(EmptyResult.failed) = {}
BY DEF IsResult, EmptyResult, FailedIds

\* Recording the agents S under error e keeps a result a result, leaves its
\* affected items alone and adds exactly S to its failed ids.
LEMMA AddFailedAllFacts ==
    ASSUME NEW r, IsResult(r), NEW S \in SUBSET Agent, NEW e \in ErrorRecord
    PROVE  /\ IsResult(AddFailedAll(r, S, e))
           /\ AddFailedAll(r, S, e).affected = r.affected
           /\ FailedIds(AddFailedAll(r, S, e).failed) = FailedIds(r.failed) \cup S
<1> DEFINE g == [k \in DOMAIN r.failed \cup {e} |->
                    IdsOf(r.failed, k) \cup (IF k = e THEN S ELSE {})]
<1>1. CASE S = {}
    BY <1>1 DEF AddFailedAll
<1>2. CASE S # {}
    <2>1. AddFailedAll(r, S, e) = [affected |-> r.affected, failed |-> g]
        BY <1>2 DEF AddFailedAll, IsResult
    <2>2. IsResult([affected |-> r.affected, failed |-> g])
        BY DEF IsResult, IdsOf
    <2>3. FailedIds(g) = FailedIds(r.failed) \cup S
        <3>1. ASSUME NEW x \in FailedIds(g) PROVE x \in FailedIds(r.failed) \cup S
            <4>1. PICK k \in DOMAIN r.failed \cup {e} : x \in g[k]
                BY <3>1 DEF FailedIds
            <4>2. x \in IdsOf(r.failed, k) \/ x \in S
                BY <4>1
            <4> QED
                BY <4>2 DEF FailedIds, IdsOf
        <3>2. ASSUME NEW x \in FailedIds(r.failed) PROVE x \in FailedIds(g)
            <4>1. PICK k \in DOMAIN r.failed : x \in r.failed[k]
                BY <3>2 DEF FailedIds
            <4>2. x \in g[k]
                BY <4>1 DEF IdsOf
            <4> QED
                BY <4>2 DEF FailedIds
        <3>3. ASSUME NEW x \in S PROVE x \in FailedIds(g)
            <4>1. x \in g[e]
                BY <3>3 DEF IdsOf
            <4> QED
                BY <4>1 DEF FailedIds
        <3> QED
            BY <3>1, <3>2, <3>3
    <2> QED
        BY <2>1, <2>2, <2>3 DEF IsResult
<1> QED
    BY <1>1, <1>2

\* Appending an agent to affected_items keeps a result a result and leaves
\* its failed items alone.
LEMMA AppendFacts ==
    ASSUME NEW r, IsResult(r), NEW a \in Agent
    PROVE  /\ IsResult([r EXCEPT !.affected = @ \cup {a}])
           /\ [r EXCEPT !.affected = @ \cup {a}].affected = r.affected \cup {a}
           /\ [r EXCEPT !.affected = @ \cup {a}].failed = r.failed
BY DEF IsResult

-----------------------------------------------------------------------------
(* Type correctness                                                        *)

LEMMA InitTypeOK == Init => TypeOK
BY EmptyResultFacts DEF Init, TypeOK

LEMMA NextTypeOK == TypeOK /\ [Next]_vars => TypeOK'
<1> SUFFICES ASSUME TypeOK, [Next]_vars PROVE TypeOK'
    OBVIOUS
<1> USE DEF TypeOK, envVars, runVars, clearVars
<1>1. CASE RunStart
    BY <1>1, AddFailedAllFacts DEF RunStart, ErrorRecord
<1>2. CASE RunQuery
    BY <1>2, AddFailedAllFacts DEF RunQuery, ErrorRecord, Row
<1>3. CASE RunConnect
    BY <1>3 DEF RunConnect
<1>4. ASSUME NEW a \in Agent, RunSend(a) PROVE TypeOK'
    BY <1>4, AddFailedAllFacts, AppendFacts DEF RunSend, ErrorRecord
<1>5. CASE RunReturn
    BY <1>5 DEF RunReturn
<1>6. CASE ClearStart
    BY <1>6, AddFailedAllFacts DEF ClearStart, ErrorRecord
<1>7. ASSUME NEW a \in Agent, ClearAgent(a) PROVE TypeOK'
    BY <1>7, AddFailedAllFacts, AppendFacts DEF ClearAgent, ErrorRecord
<1>8. CASE ClearReturn
    BY <1>8 DEF ClearReturn
<1>9. CASE Environment
    BY <1>9 DEF Environment, AgentRegister, AgentRemove, AgentConnect,
                AgentDisconnect
<1>10. CASE UNCHANGED vars
    BY <1>10 DEF vars
<1> QED
    BY <1>1, <1>2, <1>3, <1>4, <1>5, <1>6, <1>7, <1>8, <1>9, <1>10
       DEF Next, RunStep, ClearStep

\* Every reachable state of run and clear is well typed.
THEOREM TypeCorrect == Spec => []TypeOK
BY InitTypeOK, NextTypeOK, PTL DEF Spec
-----------------------------------------------------------------------------
(* Every requested agent is reported once                                  *)

\* run's requested agents that were not in system_agents, the ids of the
\* non-active rows, and the eligible agents of its loop.
NF == runList \ rsys
NE == {d.id : d \in rrows}
Elig == (runList \ (runList \ rsys)) \ NE

\* The agents a result reports, as affected or as failed.
Reported(r) == r.affected \cup FailedIds(r.failed)

\* What run has reported at each point: nothing before it starts, the
\* unknown agents after the first read, also the non-active ones after the
\* query, and the eligible agents the loop has done.
RunInv ==
    /\ rpc = "start" => rres = EmptyResult /\ rrows = {}
    /\ rpc = "query" =>
           /\ rres.affected = {}
           /\ FailedIds(rres.failed) = NF
           /\ rrows = {}
    /\ rpc \in {"connect", "failed"} =>
           /\ rres.affected = {}
           /\ FailedIds(rres.failed) = NF \cup NE
           /\ NE \subseteq runList
    /\ rpc \in {"loop", "done"} =>
           /\ NE \subseteq runList
           /\ rtodo \subseteq Elig
           /\ Reported(rres) = NF \cup NE \cup (Elig \ rtodo)
           /\ rres.affected \cap FailedIds(rres.failed) = {}
    /\ rpc = "done" => rtodo = {}

\* What clear has reported: the agents its loop is not left with, each once.
ClearInv ==
    /\ cpc = "start" => cres = EmptyResult
    /\ cpc \in {"loop", "done"} =>
           /\ ctodo \subseteq clearList
           /\ Reported(cres) = clearList \ ctodo
           /\ cres.affected \cap FailedIds(cres.failed) = {}
    /\ cpc = "done" => ctodo = {}

IInv == TypeOK /\ RunInv /\ ClearInv

LEMMA InitIInv == Init => IInv
BY InitTypeOK, EmptyResultFacts DEF Init, IInv, RunInv, ClearInv

\* Steps of clear and of the environment leave run's part alone, and the
\* other way round.
LEMMA RunInvUnchanged ==
    ASSUME RunInv, UNCHANGED runVars PROVE RunInv'
BY DEF RunInv, runVars, NF, NE, Elig, Reported

LEMMA ClearInvUnchanged ==
    ASSUME ClearInv, UNCHANGED clearVars PROVE ClearInv'
BY DEF ClearInv, clearVars, Reported

\* A run step keeps RunInv.
LEMMA RunStepRunInv ==
    ASSUME TypeOK, RunInv, RunStep PROVE RunInv'
<1> USE DEF TypeOK
<1>1. CASE RunStart
    <2>1. rres = EmptyResult
        BY <1>1 DEF RunStart, RunInv
    <2>2. /\ runList \ registered \in SUBSET Agent
          /\ AgentNotFound \in ErrorRecord
        BY DEF ErrorRecord
    <2>3. rres' = AddFailedAll(EmptyResult, runList \ registered, AgentNotFound)
        BY <1>1, <2>1 DEF RunStart
    <2>4. EmptyResult.affected = {}
        BY DEF EmptyResult
    <2>5. FailedIds(rres'.failed) = runList \ registered /\ rres'.affected = {}
        BY <2>2, <2>3, <2>4, EmptyResultFacts, AddFailedAllFacts
    <2> QED
        BY <1>1, <2>5 DEF RunStart, RunInv, NF
<1>2. CASE RunQuery
    <2>1. NE' \subseteq runList /\ NE' \subseteq Agent
        BY <1>2 DEF RunQuery, NE
    <2>2. FailedIds(rres'.failed) = FailedIds(rres.failed) \cup NE'
          /\ rres'.affected = rres.affected
        BY <1>2, <2>1, AddFailedAllFacts DEF RunQuery, NE, ErrorRecord
    <2> QED
        BY <1>2, <2>1, <2>2 DEF RunQuery, RunInv, NF
<1>3. CASE RunConnect
    BY <1>3 DEF RunConnect, RunInv, NF, NE, Elig, Reported
<1>4. ASSUME NEW a \in Agent, RunSend(a) PROVE RunInv'
    <2>1. a \in Elig /\ a \notin NF \cup NE
        BY <1>4 DEF RunSend, RunInv, Elig, NF
    <2>2. a \notin Reported(rres)
        BY <1>4, <2>1 DEF RunSend, RunInv
    <2>3. UNCHANGED <<NF, NE, Elig>>
        BY <1>4 DEF RunSend, NF, NE, Elig
    <2>4. CASE rres' = [rres EXCEPT !.affected = @ \cup {a}]
        <3>1. rres'.affected = rres.affected \cup {a} /\ rres'.failed = rres.failed
            BY <2>4, AppendFacts
        <3> QED
            BY <1>4, <2>1, <2>2, <2>3, <3>1 DEF RunSend, RunInv, Reported
    <2>5. CASE rres' = AddFailedAll(rres, {a}, QueueSendFailed)
        <3>1. rres'.affected = rres.affected
              /\ FailedIds(rres'.failed) = FailedIds(rres.failed) \cup {a}
            BY <2>5, AddFailedAllFacts DEF ErrorRecord
        <3> QED
            BY <1>4, <2>1, <2>2, <2>3, <3>1 DEF RunSend, RunInv, Reported
    <2> QED
        BY <1>4, <2>4, <2>5 DEF RunSend
<1>5. CASE RunReturn
    BY <1>5 DEF RunReturn, RunInv, NF, NE, Elig, Reported
<1> QED
    BY <1>1, <1>2, <1>3, <1>4, <1>5 DEF RunStep

\* A clear step keeps ClearInv.
LEMMA ClearStepClearInv ==
    ASSUME TypeOK, ClearInv, ClearStep PROVE ClearInv'
<1> USE DEF TypeOK
<1>1. CASE ClearStart
    <2>1. cres = EmptyResult
        BY <1>1 DEF ClearStart, ClearInv
    <2>2. /\ clearList \ registered \in SUBSET Agent
          /\ AgentNotFound \in ErrorRecord
        BY DEF ErrorRecord
    <2>3. cres' = AddFailedAll(EmptyResult, clearList \ registered, AgentNotFound)
        BY <1>1, <2>1 DEF ClearStart
    <2>4. EmptyResult.affected = {}
        BY DEF EmptyResult
    <2>5. FailedIds(cres'.failed) = clearList \ registered /\ cres'.affected = {}
        BY <2>2, <2>3, <2>4, EmptyResultFacts, AddFailedAllFacts
    <2> QED
        BY <1>1, <2>5 DEF ClearStart, ClearInv, Reported
<1>2. ASSUME NEW a \in Agent, ClearAgent(a) PROVE ClearInv'
    <2>1. a \notin Reported(cres) /\ a \in clearList
        BY <1>2 DEF ClearAgent, ClearInv
    <2>2. CASE cres' = [cres EXCEPT !.affected = @ \cup {a}]
        <3>1. cres'.affected = cres.affected \cup {a} /\ cres'.failed = cres.failed
            BY <2>2, AppendFacts
        <3> QED
            BY <1>2, <2>1, <3>1 DEF ClearAgent, ClearInv, Reported
    <2>3. CASE cres' = AddFailedAll(cres, {a}, DeleteFailed)
        <3>1. cres'.affected = cres.affected
              /\ FailedIds(cres'.failed) = FailedIds(cres.failed) \cup {a}
            BY <2>3, AddFailedAllFacts DEF ErrorRecord
        <3> QED
            BY <1>2, <2>1, <3>1 DEF ClearAgent, ClearInv, Reported
    <2> QED
        BY <1>2, <2>2, <2>3 DEF ClearAgent
<1>3. CASE ClearReturn
    BY <1>3 DEF ClearReturn, ClearInv, Reported
<1> QED
    BY <1>1, <1>2, <1>3 DEF ClearStep

LEMMA NextIInv == IInv /\ [Next]_vars => IInv'
<1> SUFFICES ASSUME IInv, [Next]_vars PROVE IInv'
    OBVIOUS
<1>1. TypeOK'
    BY NextTypeOK DEF IInv
<1>2. CASE RunStep
    <2>1. UNCHANGED clearVars
        BY <1>2 DEF RunStep, RunStart, RunQuery, RunConnect, RunSend, RunReturn
    <2> QED
        BY <1>1, <1>2, <2>1, RunStepRunInv, ClearInvUnchanged DEF IInv
<1>3. CASE ClearStep
    <2>1. UNCHANGED runVars
        BY <1>3 DEF ClearStep, ClearStart, ClearAgent, ClearReturn
    <2> QED
        BY <1>1, <1>3, <2>1, ClearStepClearInv, RunInvUnchanged DEF IInv
<1>4. CASE Environment \/ UNCHANGED vars
    <2>1. UNCHANGED runVars /\ UNCHANGED clearVars
        BY <1>4 DEF Environment, vars
    <2> QED
        BY <1>1, <2>1, RunInvUnchanged, ClearInvUnchanged DEF IInv
<1> QED
    BY <1>2, <1>3, <1>4 DEF Next

\* The strengthening gives the property: when a call has returned its loop
\* has nothing left, so everything requested is reported, each agent once.
LEMMA IInvPartition == IInv => ReportedPartition
<1> SUFFICES ASSUME IInv PROVE ReportedPartition
    OBVIOUS
<1>1. rpc = "done" => ReportsEachOnce(rres, runList)
    <2> SUFFICES ASSUME rpc = "done" PROVE ReportsEachOnce(rres, runList)
        OBVIOUS
    <2>1. Reported(rres) = NF \cup NE \cup Elig /\ NE \subseteq runList
        BY DEF IInv, RunInv
    <2>2. NF \cup NE \cup Elig = runList
        BY <2>1 DEF NF, Elig
    <2> QED
        BY <2>1, <2>2 DEF IInv, RunInv, Reported, ReportsEachOnce
<1>2. cpc = "done" => ReportsEachOnce(cres, clearList)
    BY DEF IInv, ClearInv, Reported, ReportsEachOnce
<1> QED
    BY <1>1, <1>2 DEF ReportedPartition

\* rootcheck.run and rootcheck.clear, whatever the agent database does
\* while they run, return results that report every requested agent, none
\* of them both as affected and as failed, for every set of agents.
THEOREM PartitionCorrect == Spec => []ReportedPartition
<1>1. Init => IInv
    BY InitIInv
<1>2. IInv /\ [Next]_vars => IInv'
    BY NextIInv
<1>3. IInv => ReportedPartition
    BY IInvPartition
<1> QED
    BY <1>1, <1>2, <1>3, PTL DEF Spec

=============================================================================
