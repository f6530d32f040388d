----------------------------- MODULE RecentLog ------------------------------
(***************************************************************************)
(* What the log store of the dashboard promises: the newest entries, the   *)
(* newest first, numbered from one since the last clear, and never more of *)
(* them than its size.                                                     *)
(***************************************************************************)
EXTENDS Naturals, Sequences

CONSTANTS Events, Size

VARIABLES recent, nextID

Init == recent = <<>> /\ nextID = 1

\* The newest n of a log.
Newest(log, n) == [i \in 1..(IF Len(log) < n THEN Len(log) ELSE n) |-> log[i]]

Insert ==
  /\ \E e \in Events : recent' = Newest(<<[id |-> nextID, event |-> e]>> \o recent, Size)
  /\ nextID' = nextID + 1

Clear == recent' = <<>> /\ nextID' = 1

Next == Insert \/ Clear

Spec == Init /\ [][Next]_<<recent, nextID>>
=============================================================================
