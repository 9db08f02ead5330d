-------------------------- MODULE MCResolverFactory --------------------------
(* A small instance of the factory of resolver instances: two queries, each  *)
(* with a call within its call, and one request beside them.                 *)
EXTENDS ResolverFactory, TLC
CONSTANTS r1, c1, c2
HostOnly == {<<"host", Initial>>}
CallerSymmetry == Permutations(Callers)
=============================================================================
