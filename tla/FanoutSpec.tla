------------------------------ MODULE FanoutSpec ------------------------------
(***************************************************************************)
(* What a fan-out operation promises its caller (spec.md 3 and 4.2), with  *)
(* no nodes, queues or loops: every target item gets exactly one outcome,  *)
(* affected or failed under one error, and the outcome never changes; the  *)
(* reply, if one is sent, comes after every target has its outcome and     *)
(* lists the affected targets and, under each error, the targets that      *)
(* failed with it.  An operation may instead be aborted, by an exception   *)
(* that is not folded into partial failure.                                *)
(*                                                                         *)
(* ARFanout and ClusterRuleset implement this specification.              *)
(***************************************************************************)
CONSTANTS
    Item,     \* the ids an operation may target
    ErrorId   \* the error identities an item may fail with

VARIABLES
    targets,  \* the items the request names
    status,   \* status[i]: Pending, Affected or Failed(e)
    phase,    \* "run", "done" (replied) or "aborted"
    reply     \* the reply: [affected |-> ids, failed |-> error -> ids]

fsVars == <<targets, status, phase, reply>>

Pending   == [kind |-> "pending"]
Affected  == [kind |-> "affected"]
Failed(e) == [kind |-> "failed", error |-> e]

NoReply == [affected |-> {}, failed |-> [e \in {} |-> {}]]

\* The reply the outcomes determine.
ReplyOf(s) ==
    LET failedIds == {i \in targets : s[i].kind = "failed"}
    IN  [affected |-> {i \in targets : s[i] = Affected},
         failed   |-> [e \in {s[i].error : i \in failedIds} |->
                          {i \in failedIds : s[i].error = e}]]

Init ==
    /\ targets \in SUBSET Item
    /\ status = [i \in Item |-> Pending]
    /\ phase = "run"
    /\ reply = NoReply

\* Target i gets its outcome, before any reply.
Report(i) ==
    /\ phase # "done"
    /\ i \in targets
    /\ status[i] = Pending
    /\ \E o \in {Affected} \cup {Failed(e) : e \in ErrorId} :
          status' = [status EXCEPT ![i] = o]
    /\ UNCHANGED <<targets, phase, reply>>

\* Every target has its outcome: the reply is sent.
Reply ==
    /\ phase = "run"
    /\ \A i \in targets : status[i] # Pending
    /\ phase' = "done"
    /\ reply' = ReplyOf(status)
    /\ UNCHANGED <<targets, status>>

\* The operation ends with an exception instead of a reply.
Abort ==
    /\ phase = "run"
    /\ phase' = "aborted"
    /\ UNCHANGED <<targets, status, reply>>

Next == (\E i \in Item : Report(i)) \/ Reply \/ Abort

Spec == Init /\ [][Next]_fsVars
=============================================================================
