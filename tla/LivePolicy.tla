----------------------------- MODULE LivePolicy -----------------------------
(***************************************************************************)
(* What the live reload of g0efilter promises, whatever the mechanism.     *)
(*                                                                         *)
(* The policy file goes through revisions 1, 2, ... : history[r] is what   *)
(* revision r holds.  Two consumers follow the file, each by jumping       *)
(* forward to a later revision that parses and validates: the kernel       *)
(* ruleset, and the userspace services (the DNS, HTTP and HTTPS filters),  *)
(* which never overtake the kernel.  Neither ever goes back to an older    *)
(* revision.  Revision 0 stands for "none yet".                            *)
(***************************************************************************)
EXTENDS Naturals, Sequences

CONSTANTS
  Contents,  \* what a policy file can hold, byte for byte
  Readable,  \* the contents policy.Read accepts
  Absent     \* the file does not exist

VARIABLES
  history,   \* history[r]: content of the r-th revision of the file
  kernel,    \* revision the nftables ruleset was generated from
  services,  \* revision the last service group was started with
  up         \* whether that group still runs

vars == <<history, kernel, services, up>>

Init ==
  /\ history \in {<<c>> : c \in Contents \cup {Absent}}
  /\ kernel = 0
  /\ services = 0
  /\ up = FALSE

Edit ==
  /\ \E c \in Contents \cup {Absent} : history' = Append(history, c)
  /\ UNCHANGED <<kernel, services, up>>

\* Enforcing a revision again is a step that changes nothing.
Enforce ==
  /\ \E r \in kernel..Len(history) :
       /\ r > 0
       /\ history[r] \in Readable
       /\ kernel' = r
  /\ UNCHANGED <<history, services, up>>

Serve ==
  /\ \E r \in services..kernel :
       /\ r > 0
       /\ history[r] \in Readable
       /\ services' = r
  /\ up' = TRUE
  /\ UNCHANGED <<history, kernel>>

StopServing ==
  /\ up' = FALSE
  /\ UNCHANGED <<history, kernel, services>>

Next == Edit \/ Enforce \/ Serve \/ StopServing

Spec == Init /\ [][Next]_vars
=============================================================================
