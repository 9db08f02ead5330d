--------------------------- MODULE DnsResolution ---------------------------
(***************************************************************************)
(* What a DNS service instance promises: every query it is asked settles   *)
(* at most once and for good, as an answer, as a DNS error, or as silence. *)
(* An answer carries the identifier of its own query and what the upstream *)
(* server gave for the very question asked, to this query or to an earlier *)
(* one.                                                                    *)
(***************************************************************************)
CONSTANTS Queries, Keys, None

VARIABLES question,   \* question[q]: the key query q asks for
          given,      \* the queries the upstream server has answered
          outcome     \* outcome[q]: how query q settled

vars == <<question, given, outcome>>

Init ==
  /\ question = [q \in Queries |-> None]
  /\ given = {}
  /\ outcome = [q \in Queries |-> None]

Ask(q, k) ==
  /\ question[q] = None
  /\ question' = [question EXCEPT ![q] = k]
  /\ UNCHANGED <<given, outcome>>

Open(q) == question[q] # None /\ outcome[q] = None

UpstreamGives(q) ==
  /\ Open(q)
  /\ given' = given \cup {q}
  /\ UNCHANGED <<question, outcome>>

Answer(q) ==
  /\ Open(q)
  /\ \E g \in given :
       /\ question[g] = question[q]
       /\ outcome' = [outcome EXCEPT ![q] =
            [kind |-> "answer", id |-> q, key |-> question[q], from |-> g]]
  /\ UNCHANGED <<question, given>>

Fail(q) ==
  /\ Open(q)
  /\ \E k \in {"rcode", "silent"} :
       outcome' = [outcome EXCEPT ![q] = [kind |-> k]]
  /\ UNCHANGED <<question, given>>

Next == \E q \in Queries :
  \/ \E k \in Keys : Ask(q, k)
  \/ UpstreamGives(q) \/ Answer(q) \/ Fail(q)

Spec == Init /\ [][Next]_vars
=============================================================================
