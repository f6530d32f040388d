----------------------------- MODULE Allowlist -----------------------------
(***************************************************************************)
(* What appending to the policy file promises: the allowlist only grows,   *)
(* one value at a time, and a value is reported as added only once it is   *)
(* there.  A rewrite that fails, or dies half way, leaves a part of the    *)
(* list, an entry of it perhaps cut short, or a file that is no policy and *)
(* that nothing rewrites any more.                                         *)
(***************************************************************************)
CONSTANTS
  Values,
  Stumps     \* what can be left of an entry that was cut short

VARIABLES
  list,      \* the allowlist of the policy file
  parses,    \* whether the file is a policy
  reported   \* values the process has reported as added

vars == <<list, parses, reported>>

Init == list \subseteq Values /\ parses = TRUE /\ reported = {}

Add ==
  /\ parses
  /\ \E v \in Values : list' = list \cup {v} /\ reported' \in {reported, reported \cup {v}}
  /\ UNCHANGED parses

Report ==
  /\ parses
  /\ \E v \in list : reported' = reported \cup {v}
  /\ UNCHANGED <<list, parses>>

\* An interrupted rewrite that was adding v.
Tear ==
  /\ parses
  /\ \/ /\ \E v \in Values, stump \in {{}} \cup {{s} : s \in Stumps} :
             list' \subseteq list \cup {v} \cup stump
        /\ UNCHANGED parses
     \/ list' = {} /\ parses' = FALSE
  /\ UNCHANGED reported

Spec == Init /\ [][Add \/ Report \/ Tear]_vars
=============================================================================
