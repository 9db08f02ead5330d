------------------------ MODULE MCDnsServiceInstance ------------------------
(* Small instances of the service instance: two queries at once, for one    *)
(* name with two record types and for the root.                             *)
EXTENDS DnsServiceInstance

CONSTANTS q1, q2, example, root, A, MX

Config(c, l, p) == [cache |-> c, log |-> l, props |-> p]

\* A service with everything on, and one with neither cache nor log.
Working == {Config(TRUE, TRUE, "ok"), Config(FALSE, FALSE, "ok")}

\* ... and those whose cache properties are missing or no numbers.
AllConfigs ==
  Working \cup {Config(TRUE, FALSE, "missing"), Config(TRUE, FALSE, "malformed")}

CacheOnly == {Config(TRUE, FALSE, "ok")}
=============================================================================
