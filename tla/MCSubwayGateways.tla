-------------------------- MODULE MCSubwayGateways --------------------------
(* Small instances of DNS Subway: two or three queries for one or two of    *)
(* its domains, two target ports, two or three local addresses.             *)
EXTENDS SubwayGateways, TLC

CONSTANTS q1, q2, q3, wiki, shop

HttpAndHttps == <<80, 443>>

AllConfigs == [shared : BOOLEAN, subnet : BOOLEAN]

SharedSubnet == {[shared |-> TRUE, subnet |-> TRUE]}
=============================================================================
