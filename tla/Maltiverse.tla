------------------------------ MODULE Maltiverse ------------------------------
(***************************************************************************)
(* The Maltiverse integration script (integrations/maltiverse.py): it     *)
(* checks its arguments, loads the alert, looks up the alert's MD5, SHA1, *)
(* source IP, hostname and URL in the Maltiverse API (in that order, all  *)
(* before any send), and sends one enrichment event per truthy answer to  *)
(* the analysisd socket.  An exception nobody catches ends the script     *)
(* with status 1 (main re-raises it).                                     *)
(*                                                                         *)
(* What the alert holds for kind k is alert[k]; what the API answers is   *)
(* "ioc" (an indicator), "empty" ({}), "other" (a non-empty JSON body     *)
(* that is not an indicator: the status code is never checked) or the    *)
(* request raises.  An event is identified by its kind.                   *)
(***************************************************************************)
EXTENDS Naturals, Sequences

\* request_maltiverse_info: the order of the lookups.
Kinds == <<"md5", "sha1", "srcip", "hostname", "url">>
NKinds == Len(Kinds)
SrcIp == 3

\* What the alert may hold for each kind: absent, or present; a source IP
\* is private, public, or not an IPv4 address at all.
AlertValues(k) ==
    IF k = SrcIp THEN {"absent", "private", "public", "notv4"}
    ELSE {"absent", "present"}

Answers == {"ioc", "empty", "other"}

\* The values send_event's socket.error may carry: 111 and 90 end the
\* script, any other errno is ignored.
Errnos == {111, 90, 11}

VARIABLES
    pc,         \* "args", "lookup", "send" or "exited"
    alert,      \* alert[k]: what the alert file holds for kind k
    k,          \* the next lookup
    answer,     \* answer[k]: what the API answered for kind k ("none" before)
    matches,    \* results of request_maltiverse_info: kinds with a truthy answer
    j,          \* the next event of matches to send
    delivered,  \* the events analysisd received, in order
    exitCode    \* the script's exit status once exited

vars == <<pc, alert, k, answer, matches, j, delivered, exitCode>>

-----------------------------------------------------------------------------
Init ==
    /\ pc = "args"
    /\ alert \in {a \in [1..NKinds -> UNION {AlertValues(x) : x \in 1..NKinds}] :
                    \A x \in 1..NKinds : a[x] \in AlertValues(x)}
    /\ k = 1
    /\ answer = [x \in 1..NKinds |-> "none"]
    /\ matches = <<>>
    /\ j = 1
    /\ delivered = <<>>
    /\ exitCode = 0

\* main and process_args up to the lookups: too few arguments exit 2, a
\* hook URL is_valid_url rejects exits 5, a missing alert file exits 3 and
\* one json cannot decode exits 4; otherwise the API client is built.
ProcessArgs ==
    /\ pc = "args"
    /\ \/ pc' = "lookup" /\ UNCHANGED exitCode
       \/ pc' = "exited" /\ exitCode' \in {2, 3, 4, 5}
    /\ UNCHANGED <<alert, k, answer, matches, j, delivered>>

\* Bug variant of Lookup: every answer is taken as a match.
LookupAnyAnswer ==
    /\ pc = "lookup"
    /\ \/ /\ alert[k] \in {"absent", "private"}
          /\ UNCHANGED <<answer, matches, exitCode>>
          /\ pc' = IF k = NKinds THEN "send" ELSE "lookup"
       \/ /\ alert[k] \in {"present", "public"}
          /\ \E r \in Answers :
                /\ answer' = [answer EXCEPT ![k] = r]
                /\ matches' = Append(matches, k)
          /\ UNCHANGED exitCode
          /\ pc' = IF k = NKinds THEN "send" ELSE "lookup"
       \/ /\ alert[k] \in {"present", "public", "notv4"}
          /\ pc' = "exited"
          /\ exitCode' = 1
          /\ UNCHANGED <<answer, matches>>
    /\ k' = k + 1
    /\ UNCHANGED <<alert, j, delivered>>

\* The get_<kind>_in_alert call for kind k.  A kind the alert lacks, or a
\* private source IP, is skipped.  Otherwise the API is asked and a truthy
\* answer becomes an event (maltiverse_alert).  The request or its .json()
\* may raise, and ipaddress.IPv4Address raises ValueError on a source IP
\* that is not IPv4: the exception leaves main, status 1.
Lookup ==
    /\ pc = "lookup"
    /\ \/ /\ alert[k] \in {"absent", "private"}
          /\ UNCHANGED <<answer, matches, exitCode>>
          /\ pc' = IF k = NKinds THEN "send" ELSE "lookup"
       \/ /\ alert[k] \in {"present", "public"}
          /\ \E r \in Answers :
                /\ answer' = [answer EXCEPT ![k] = r]
                /\ matches' = IF r = "empty" THEN matches ELSE Append(matches, k)
          /\ UNCHANGED exitCode
          /\ pc' = IF k = NKinds THEN "send" ELSE "lookup"
       \/ /\ alert[k] \in {"present", "public", "notv4"}
          /\ pc' = "exited"
          /\ exitCode' = 1
          /\ UNCHANGED <<answer, matches>>
    /\ k' = k + 1
    /\ UNCHANGED <<alert, j, delivered>>

\* Bug variant of Send: the script exits with the socket's errno.
SendExitErrno ==
    /\ pc = "send"
    /\ j <= Len(matches)
    /\ \/ delivered' = Append(delivered, matches[j]) /\ UNCHANGED <<pc, exitCode>>
       \/ \E e \in Errnos :
             IF e \in {111, 90}
             THEN pc' = "exited" /\ exitCode' = e /\ UNCHANGED delivered
             ELSE UNCHANGED <<pc, exitCode, delivered>>
    /\ j' = j + 1
    /\ UNCHANGED <<alert, k, answer, matches>>

\* send_event for the next event: a datagram on a new socket to analysisd
\* (an event above MAX_EVENT_SIZE is only logged and sent anyway).  On a
\* socket.error, errno 111 exits 6 and errno 90 exits 7; any other errno
\* falls through and the script goes on with the next event.
Send ==
    /\ pc = "send"
    /\ j <= Len(matches)
    /\ \/ delivered' = Append(delivered, matches[j]) /\ UNCHANGED <<pc, exitCode>>
       \/ \E e \in Errnos :
             CASE e = 111 -> pc' = "exited" /\ exitCode' = 6 /\ UNCHANGED delivered
               [] e = 90  -> pc' = "exited" /\ exitCode' = 7 /\ UNCHANGED delivered
               [] OTHER   -> UNCHANGED <<pc, exitCode, delivered>>
    /\ j' = j + 1
    /\ UNCHANGED <<alert, k, answer, matches>>

\* Every event was handed to send_event: main returns, status 0.
Finish ==
    /\ pc = "send"
    /\ j > Len(matches)
    /\ pc' = "exited"
    /\ UNCHANGED <<alert, k, answer, matches, j, delivered, exitCode>>

Next == ProcessArgs \/ Lookup \/ Send \/ Finish

Spec == Init /\ [][Next]_vars

-----------------------------------------------------------------------------
(* Properties                                                              *)

TypeOK ==
    /\ pc \in {"args", "lookup", "send", "exited"}
    /\ k \in 1..NKinds + 1
    /\ answer \in [1..NKinds -> Answers \cup {"none"}]
    /\ matches \in Seq(1..NKinds)
    /\ j \in 1..Len(matches) + 1
    /\ delivered \in Seq(1..NKinds)
    /\ exitCode \in 0..7

\* analysisd only receives events for lookups the API answered with
\* something truthy, at most one per kind, in lookup order: nothing is
\* sent for an empty answer, twice, or for a kind never asked.
DeliveredAreMatches ==
    /\ \A x \in DOMAIN delivered : answer[delivered[x]] \in {"ioc", "other"}
    /\ \A x, y \in DOMAIN delivered : x < y => delivered[x] < delivered[y]

\* A script that exits 0 delivered an event for every positive match: the
\* comment at process_args (lines 308-309) says the event is sent to the
\* manager in case of a positive match, and the error codes 6 and 7 are
\* the script's way to report that it could not.
PositiveMatchesSent ==
    (pc = "exited" /\ exitCode = 0) =>
        \A x \in DOMAIN matches : \E y \in DOMAIN delivered : delivered[y] = matches[x]
=============================================================================
