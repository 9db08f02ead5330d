---------------------------- MODULE RequestReply ----------------------------
(***************************************************************************)
(* What a DNS service endpoint promises its clients, whatever transport it *)
(* speaks: a reply is only ever sent for a request that was made, it goes  *)
(* to the client that made it, and no request is answered twice.  Losing a *)
(* request, or never answering it, is allowed.                             *)
(***************************************************************************)
CONSTANT Requests   \* every request has a field from: the client that makes it

VARIABLES asked,    \* the requests made so far
          replies   \* the replies sent so far

vars == <<asked, replies>>

Init ==
  /\ asked = {}
  /\ replies = {}

Ask(r) ==
  /\ r \notin asked
  /\ asked' = asked \cup {r}
  /\ UNCHANGED replies

Reply(r) ==
  /\ r \in asked
  /\ \A y \in replies : y.query # r
  /\ replies' = replies \cup {[to |-> r.from, query |-> r]}
  /\ UNCHANGED asked

Next == \E r \in Requests : Ask(r) \/ Reply(r)

Spec == Init /\ [][Next]_vars
=============================================================================
