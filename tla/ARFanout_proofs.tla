--------------------------- MODULE ARFanout_proofs ---------------------------
(***************************************************************************)
(* Proofs about the active-response fan-out, for every set of agents,      *)
(* nodes and owners the assumptions of ARFanout allow, and about the       *)
(* result operators of FanoutResult it reduces node results with.          *)
(***************************************************************************)
EXTENDS ARFanout, TLAPS

-----------------------------------------------------------------------------
(* Lemmas on the result operators                                          *)

\* The empty result is a result.
LEMMA EmptyIsResult == IsResult(EmptyResult)
BY DEF IsResult, EmptyResult

\* add_failed_item keeps a result a result.
LEMMA AddFailedItemIsResult ==
    ASSUME NEW r, IsResult(r), NEW a \in Agent, NEW e \in ErrorRecord
    PROVE  IsResult(AddFailedItem(r, a, e))
BY DEF IsResult, AddFailedItem, IdsOf

\* Appending an agent to affected_items keeps a result a result.
LEMMA AppendIsResult ==
    ASSUME NEW r, IsResult(r), NEW a \in Agent
    PROVE  IsResult([r EXCEPT !.affected = @ \cup {a}])
BY DEF IsResult

\* The combination of two results is a result.
LEMMA CombineIsResult ==
    ASSUME NEW r, NEW s, IsResult(r), IsResult(s)
    PROVE  IsResult(Combine(r, s))
BY DEF IsResult, Combine, MergeFailed, IdsOf

-----------------------------------------------------------------------------
(* Type correctness                                                        *)

LEMMA InitTypeOK == Init => TypeOK
<1> SUFFICES ASSUME Init PROVE TypeOK
    OBVIOUS
<1>1. \A n \in Node : IsResult(res[n])
    BY EmptyIsResult DEF Init
<1>2. IsResult(combined)
    BY EmptyIsResult DEF Init
<1>3. outcome \in [Agent -> ErrorRecord \cup {NoError}]
    BY DEF Init
<1> QED
    BY <1>1, <1>2, <1>3 DEF Init, TypeOK

LEMMA NextTypeOK == TypeOK /\ [Next]_vars => TypeOK'
<1> SUFFICES ASSUME TypeOK, [Next]_vars PROVE TypeOK'
    OBVIOUS
<1>1. ASSUME NEW n \in Node, RunCommandStart(n) \/ QueueConnectFails(n)
      PROVE TypeOK'
    BY <1>1 DEF RunCommandStart, QueueConnectFails, envVars, nodeVars, coordVars, TypeOK, Mine
<1>2. ASSUME NEW n \in Node, NEW a \in Agent, RunCommandAgent(n, a) PROVE TypeOK'
    <2> DEFINE e == RunCommandCheck(n, a)
    <2>1. e \in ErrorRecord \cup {NoError}
        BY DEF RunCommandCheck, SendARMessage, ValidateCommand, ErrorRecord
    <2>2. CASE e # NoError
              /\ res' = [res EXCEPT ![n] = AddFailedItem(@, a, e)]
              /\ outcome' = [outcome EXCEPT ![a] = e]
              /\ UNCHANGED sent
        <3>1. IsResult(AddFailedItem(res[n], a, e))
            BY <2>1, <2>2, AddFailedItemIsResult DEF TypeOK
        <3> QED
            BY <1>2, <2>1, <2>2, <3>1 DEF RunCommandAgent, envVars, nodeVars, coordVars, TypeOK
    <2>3. CASE e = NoError
              /\ sent' = sent \cup {a}
              /\ res' = [res EXCEPT ![n].affected = @ \cup {a}]
              /\ UNCHANGED outcome
        <3>1. IsResult([res[n] EXCEPT !.affected = @ \cup {a}])
            BY AppendIsResult DEF TypeOK
        <3>2. res' = [res EXCEPT ![n] = [res[n] EXCEPT !.affected = @ \cup {a}]]
            BY <2>3
        <3> QED
            BY <1>2, <2>3, <3>1, <3>2 DEF RunCommandAgent, envVars, nodeVars, coordVars, TypeOK
    <2>4. CASE e = NoError
              /\ res' = [res EXCEPT ![n] = AddFailedItem(@, a, QueueSendFailed)]
              /\ outcome' = [outcome EXCEPT ![a] = QueueSendFailed]
              /\ UNCHANGED sent
        <3>1. QueueSendFailed \in ErrorRecord
            BY DEF ErrorRecord
        <3>2. IsResult(AddFailedItem(res[n], a, QueueSendFailed))
            BY <3>1, AddFailedItemIsResult DEF TypeOK
        <3> QED
            BY <1>2, <2>4, <3>1, <3>2 DEF RunCommandAgent, envVars, nodeVars, coordVars, TypeOK
    <2> QED
        BY <1>2, <2>2, <2>3, <2>4 DEF RunCommandAgent
<1>3. ASSUME NEW n \in Node, RunCommandReturn(n) PROVE TypeOK'
    BY <1>3 DEF RunCommandReturn, envVars, nodeVars, coordVars, TypeOK
<1>4. ASSUME NEW n \in Node, Collect(n) PROVE TypeOK'
    <2>1. CASE npc[n] = "failed"
        BY <1>4, <2>1 DEF Collect, envVars, nodeVars, coordVars, TypeOK
    <2>2. CASE npc[n] # "failed"
        <3>1. IsResult(Combine(combined, res[n]))
            BY CombineIsResult DEF TypeOK
        <3> QED
            BY <1>4, <2>2, <3>1 DEF Collect, envVars, nodeVars, coordVars, TypeOK
    <2> QED
        BY <2>1, <2>2
<1>5. CASE Reply
    BY <1>5 DEF Reply, envVars, nodeVars, coordVars, TypeOK
<1>6. CASE Environment
    BY <1>6 DEF Environment, envVars, nodeVars, coordVars, AgentRemove, AgentDisconnect, TypeOK
<1>7. CASE UNCHANGED vars
    BY <1>7 DEF vars, envVars, nodeVars, coordVars, TypeOK
<1> QED
    BY <1>1, <1>2, <1>3, <1>4, <1>5, <1>6, <1>7 DEF Next

\* Every reachable state of the fan-out is well typed.
THEOREM TypeCorrect == Spec => []TypeOK
BY InitTypeOK, NextTypeOK, PTL DEF Spec
=============================================================================
