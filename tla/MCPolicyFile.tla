---------------------------- MODULE MCPolicyFile ----------------------------
(* Small instances of PolicyFile.                                          *)
EXTENDS PolicyFile

CONSTANTS a, b, c, stump

Two == {a, b}
Three == {a, b, c}
OneStump == {stump}
OnlyTheLast == {{c}}
AnyOfTwo == SUBSET Two
OneWriter == {{"learner"}, {"poller"}}
OnlyLearner == {{"learner"}}
BothWriters == {{"learner", "poller"}}
=============================================================================
