----------------------------- MODULE Approvals -----------------------------
(***************************************************************************)
(* What remote unblock promises: the allowlist of a host only grows, and   *)
(* only by values an administrator asked for on that host or on all hosts. *)
(***************************************************************************)
CONSTANTS
  Hosts,
  Values,
  All      \* the target that stands for all hosts

VARIABLES
  asked,   \* what administrators asked for: [value, target]
  allowed  \* allowed[h]: the values added to the policy file of h

vars == <<asked, allowed>>

Init == asked = {} /\ allowed = [h \in Hosts |-> {}]

Ask ==
  /\ \E v \in Values, t \in Hosts \cup {All} : asked' = asked \cup {[value |-> v, target |-> t]}
  /\ UNCHANGED allowed

Unblock(h) ==
  /\ \E q \in asked :
       /\ q.target \in {All, h}
       /\ allowed' = [allowed EXCEPT ![h] = @ \cup {q.value}]
  /\ UNCHANGED asked

Spec == Init /\ [][Ask \/ \E h \in Hosts : Unblock(h)]_vars
=============================================================================
