---------------------------- MODULE Maltiverse_proofs ----------------------------
(***************************************************************************)
(* The Maltiverse script sends analysisd only events for truthy answers,  *)
(* at most one per kind and in lookup order, proved for every run.        *)
(*                                                                         *)
(* DeliveredAreMatches speaks of delivered only, and a send step reads    *)
(* matches[j]: the invariant needs what the lookups leave in matches      *)
(* (increasing kinds, each with a truthy answer that no later lookup      *)
(* overwrites) and where the sends stand in it (everything delivered is   *)
(* an event before j, and smaller than every event from j on).            *)
(***************************************************************************)
EXTENDS Maltiverse, TLAPS

\* The lookups so far: increasing kinds below k, each answered truthily.
MatchesInv ==
    /\ \A x \in DOMAIN matches :
          matches[x] < k /\ answer[matches[x]] \in {"ioc", "other"}
    /\ \A x, y \in DOMAIN matches : x < y => matches[x] < matches[y]

\* The sends so far: delivered events come from matches before j, in
\* increasing order, and precede every event still to send.
SendInv ==
    /\ \A x \in DOMAIN delivered : \E i \in 1..j - 1 : delivered[x] = matches[i]
    /\ \A x \in DOMAIN delivered, i \in j..Len(matches) : delivered[x] < matches[i]
    /\ \A x, y \in DOMAIN delivered : x < y => delivered[x] < delivered[y]

IInv ==
    /\ TypeOK
    /\ pc = "args" => k = 1
    /\ pc = "lookup" => k \in 1..NKinds
    /\ pc \in {"args", "lookup"} => j = 1 /\ delivered = <<>>
    /\ MatchesInv
    /\ SendInv

-----------------------------------------------------------------------------
\* There are five lookups.
LEMMA NKindsValue == NKinds = 5
BY DEF NKinds, Kinds

USE NKindsValue

LEMMA InitIInv == Init => IInv
BY DEF Init, IInv, TypeOK, MatchesInv, SendInv

LEMMA ProcessArgsStep == IInv /\ ProcessArgs => IInv'
BY DEF ProcessArgs, IInv, TypeOK, MatchesInv, SendInv

LEMMA LookupStep == IInv /\ Lookup => IInv'
<1> SUFFICES ASSUME IInv, Lookup PROVE IInv'
    OBVIOUS
<1>1. pc = "lookup" /\ k \in 1..NKinds /\ j = 1 /\ delivered = <<>>
      /\ k' = k + 1 /\ UNCHANGED <<j, delivered>>
    BY DEF Lookup, IInv
<1>2. pc' \in {"lookup", "send", "exited"} /\ (pc' = "lookup" => k' \in 1..NKinds)
    BY <1>1 DEF Lookup
<1>3. exitCode' \in 0..7 /\ answer' \in [1..NKinds -> Answers \cup {"none"}]
    BY <1>1 DEF Lookup, IInv, TypeOK, Answers
<1>4. MatchesInv' /\ matches' \in Seq(1..NKinds)
    <2>1. CASE UNCHANGED <<answer, matches>>
        BY <1>1, <2>1 DEF IInv, MatchesInv, TypeOK
    <2>2. CASE \E r \in Answers :
                 /\ answer' = [answer EXCEPT ![k] = r]
                 /\ matches' = IF r = "empty" THEN matches ELSE Append(matches, k)
        <3>1. PICK r \in Answers :
                 /\ answer' = [answer EXCEPT ![k] = r]
                 /\ matches' = IF r = "empty" THEN matches ELSE Append(matches, k)
            BY <2>2
        <3>2. \A x \in DOMAIN matches : answer'[matches[x]] = answer[matches[x]]
            BY <1>1, <3>1 DEF IInv, MatchesInv, TypeOK
        <3>3. CASE r = "empty"
            BY <1>1, <3>1, <3>2, <3>3 DEF IInv, MatchesInv, TypeOK
        <3>4. CASE r # "empty"
            <4>1. answer'[k] \in {"ioc", "other"}
                BY <1>1, <3>1, <3>4 DEF IInv, TypeOK, Answers
            <4> QED
                BY <1>1, <3>1, <3>2, <3>4, <4>1 DEF IInv, MatchesInv, TypeOK
        <3> QED
            BY <3>3, <3>4
    <2> QED
        BY <2>1, <2>2 DEF Lookup
<1>5. SendInv'
    BY <1>1 DEF SendInv
<1> QED
    BY <1>1, <1>2, <1>3, <1>4, <1>5 DEF IInv, TypeOK, Lookup

LEMMA SendStep == IInv /\ Send => IInv'
<1> SUFFICES ASSUME IInv, Send PROVE IInv'
    OBVIOUS
<1>1. pc = "send" /\ j \in 1..Len(matches) /\ j' = j + 1
      /\ UNCHANGED <<alert, k, answer, matches>>
    BY DEF Send, IInv, TypeOK
<1>2. matches[j] \in 1..NKinds
    BY <1>1 DEF IInv, TypeOK
<1>3. CASE delivered' = Append(delivered, matches[j]) /\ UNCHANGED <<pc, exitCode>>
    <2>0. /\ DOMAIN delivered = 1..Len(delivered)
          /\ DOMAIN delivered' = 1..Len(delivered) + 1
          /\ \A x \in DOMAIN delivered : delivered'[x] = delivered[x]
          /\ delivered'[Len(delivered) + 1] = matches[j]
        BY <1>3 DEF IInv, TypeOK
    <2>1. delivered' \in Seq(1..NKinds)
        BY <1>2, <1>3 DEF IInv, TypeOK
    <2>2. ASSUME NEW x \in DOMAIN delivered'
          PROVE  \E i \in 1..j' - 1 : delivered'[x] = matches'[i]
        <3>1. CASE x \in DOMAIN delivered
            <4>1. PICK i \in 1..j - 1 : delivered[x] = matches[i]
                BY <3>1 DEF IInv, SendInv
            <4> QED
                BY <1>1, <2>0, <3>1, <4>1
        <3>2. CASE x = Len(delivered) + 1
            BY <1>1, <2>0, <3>2
        <3> QED
            BY <2>0, <3>1, <3>2
    <2>3. \A x \in DOMAIN delivered', i \in j'..Len(matches') : delivered'[x] < matches'[i]
        BY <1>1, <2>0 DEF IInv, SendInv, MatchesInv, TypeOK
    <2>4. ASSUME NEW x \in DOMAIN delivered', NEW y \in DOMAIN delivered', x < y
          PROVE  delivered'[x] < delivered'[y]
        <3>1. x \in DOMAIN delivered
            BY <2>0, <2>4
        <3>2. CASE y \in DOMAIN delivered
            BY <2>0, <2>4, <3>1, <3>2 DEF IInv, SendInv
        <3>3. CASE y = Len(delivered) + 1
            <4>1. delivered[x] < matches[j]
                BY <1>1, <3>1 DEF IInv, SendInv
            <4> QED
                BY <2>0, <3>1, <3>3, <4>1
        <3> QED
            BY <2>0, <3>2, <3>3
    <2>5. SendInv'
        BY <2>2, <2>3, <2>4 DEF SendInv
    <2> QED
        BY <1>1, <1>3, <2>1, <2>5 DEF IInv, TypeOK, MatchesInv
<1>4. CASE UNCHANGED delivered /\ pc' \in {"send", "exited"} /\ exitCode' \in 0..7
    <2>1. SendInv'
        BY <1>1, <1>4 DEF IInv, SendInv, TypeOK
    <2> QED
        BY <1>1, <1>4, <2>1 DEF IInv, TypeOK, MatchesInv
<1>5. CASE \E e \in Errnos :
             CASE e = 111 -> pc' = "exited" /\ exitCode' = 6 /\ UNCHANGED delivered
               [] e = 90  -> pc' = "exited" /\ exitCode' = 7 /\ UNCHANGED delivered
               [] OTHER   -> UNCHANGED <<pc, exitCode, delivered>>
    <2>1. PICK e \in Errnos :
             CASE e = 111 -> pc' = "exited" /\ exitCode' = 6 /\ UNCHANGED delivered
               [] e = 90  -> pc' = "exited" /\ exitCode' = 7 /\ UNCHANGED delivered
               [] OTHER   -> UNCHANGED <<pc, exitCode, delivered>>
        BY <1>5
    <2>2. UNCHANGED delivered /\ pc' \in {"send", "exited"} /\ exitCode' \in 0..7
        <3>1. CASE e = 111
            BY <2>1, <3>1
        <3>2. CASE e = 90
            BY <2>1, <3>2
        <3>3. CASE e # 111 /\ e # 90
            BY <1>1, <2>1, <3>3 DEF IInv, TypeOK
        <3> QED
            BY <3>1, <3>2, <3>3
    <2> QED
        BY <2>2, <1>4
<1> QED
    BY <1>3, <1>5 DEF Send

LEMMA FinishStep == IInv /\ Finish => IInv'
BY DEF Finish, IInv, TypeOK, MatchesInv, SendInv

LEMMA NextIInv == IInv /\ [Next]_vars => IInv'
BY ProcessArgsStep, LookupStep, SendStep, FinishStep
   DEF Next, vars, IInv, TypeOK, MatchesInv, SendInv

\* IInv holds in every state of the script.
THEOREM IInvHolds == Spec => []IInv
BY InitIInv, NextIInv, PTL DEF Spec

-----------------------------------------------------------------------------
\* Every value the script's variables take is of its type.
THEOREM TypeCorrect == Spec => []TypeOK
BY IInvHolds, PTL DEF IInv

\* analysisd receives only events for kinds the API answered truthily, at
\* most one per kind and in lookup order (the send loop of main over the
\* result of request_maltiverse_info).
THEOREM DeliveredCorrect == Spec => []DeliveredAreMatches
<1>1. IInv => DeliveredAreMatches
    BY DEF IInv, SendInv, MatchesInv, TypeOK, DeliveredAreMatches
<1> QED
    BY <1>1, IInvHolds, PTL
=============================================================================
