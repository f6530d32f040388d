--------------------------- MODULE MCPolicyReload ---------------------------
(* Instances of PolicyReload for TLC: two readable policies and one that   *)
(* does not parse; a file may also be missing.                             *)
EXTENDS PolicyReload

CONSTANTS p1, p2, p3, broken

MCContents == {p1, p2, p3, broken}
MCReadable == {p1, p2, p3}
=============================================================================
