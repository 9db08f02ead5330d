--------------------------- MODULE MCResolverStore ---------------------------
(* A small instance of the administration of resolvers: two requests, two    *)
(* names and two keys.                                                       *)
EXTENDS ResolverStore

CONSTANTS r1, r2
=============================================================================
