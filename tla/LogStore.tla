------------------------------ MODULE LogStore ------------------------------
(***************************************************************************)
(* The log store of the dashboard (dashboard/store.go): a ring of entries. *)
(* Every operation holds the mutex and is one step.                        *)
(***************************************************************************)
EXTENDS Naturals, Sequences

CONSTANTS
  Events, \* what an entry can report
  Size    \* newMemStore makes it at least one

ASSUME SizeAssumption == Size \in Nat \ {0}
ASSUME EventsAssumption == Events # {}

VARIABLES buf, head, count, nextID

storeVars == <<buf, head, count, nextID>>

Entries == [id : Nat \ {0}, event : Events]
Cells == 0..(Size - 1)

StoreTypeOK ==
  /\ buf \in [Cells -> Entries]
  /\ head \in Cells /\ count \in 0..Size /\ nextID \in Nat \ {0}

\* What the cells hold before they are written is never read.
StoreInit ==
  /\ buf = [c \in Cells |-> [id |-> 1, event |-> CHOOSE e \in Events : TRUE]]
  /\ head = 0 /\ count = 0 /\ nextID = 1

\* Defect: the ring is taken to be one longer than it is.
Count_OneMore == IF count < Size + 1 THEN count + 1 ELSE count

Count == IF count < Size THEN count + 1 ELSE count

Store(e) ==
  /\ buf' = [buf EXCEPT ![head] = [id |-> nextID, event |-> e]]
  /\ head' = IF head + 1 = Size THEN 0 ELSE head + 1
  /\ count' = Count
  /\ nextID' = nextID + 1

\* memStore.Clear, which leaves the cells as they are.
ClearStore == head' = 0 /\ count' = 0 /\ nextID' = 1 /\ UNCHANGED buf

StoreNext == ClearStore \/ \E e \in Events : Store(e)

StoreSpec == StoreInit /\ [][StoreNext]_storeVars

\* prevIndex, i times from head.
Cell(i) == IF i <= head THEN head - i ELSE head + Size - i

\* Query without a filter: back from head.
Recent == [i \in 1..count |-> buf[Cell(i)]]

-----------------------------------------------------------------------------
(* Properties.                                                             *)

AsRecentLog == INSTANCE RecentLog WITH recent <- Recent

\* A reader of the ring, at any moment, sees the newest entries in order, and
\* none from before the last clear.
IsRecentLog == AsRecentLog!Spec
=============================================================================
