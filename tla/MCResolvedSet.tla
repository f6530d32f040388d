---------------------------- MODULE MCResolvedSet ---------------------------
(* A small instance of ResolvedSet.  TTLs are below the floor and above the  *)
(* ceiling.                                                                  *)
EXTENDS ResolvedSet, TLC

CONSTANTS h1, h2, d1, d2, i1, i2

MCHandlers == {h1, h2}
MCDomains == {d1, d2}
MCIps == {i1, i2}
OneIp == {i1}
MCPolicies == {{d1}, {d2}}
MCTTLs == {0, 9}
Symmetric == Permutations(MCHandlers)
=============================================================================
