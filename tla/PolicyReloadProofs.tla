------------------------- MODULE PolicyReloadProofs -------------------------
(***************************************************************************)
(* Theorems about PolicyReload, for every set of contents, every bound on  *)
(* edits and every environment.                                            *)
(*                                                                         *)
(* The properties the runs check are not inductive by themselves.  IInv    *)
(* adds what the code relies on without saying it: which actor may be      *)
(* where (Phases), that the watcher reloads only what differs from the     *)
(* hash it remembers and holds the newest revision while it applies and    *)
(* sends it (WatcherHolds), that the channel is a single slot              *)
(* (SingleSlot), and that every revision that has been read is a readable  *)
(* one (AllReadable).                                                      *)
(***************************************************************************)
EXTENDS PolicyReload, SequenceTheorems, TLAPS

\* Run has not yet started the other goroutines, or never will.
Starting == runPC \in {"load", "apply", "hash", "failed"}

Phases ==
  /\ Starting <=> watchPC = "off"
  /\ Starting <=> supPC = "off"
  /\ Cancelled <=> supPC = "returned"
  /\ watchPC = "exited" => Cancelled
  /\ Starting => reloadCh = <<>> /\ services = 0 /\ up = FALSE
  /\ runPC \in {"load", "apply"} => kernel = 0
  /\ runPC \in {"apply", "hash"} => runRev > 0
  /\ runPC = "hash" => kernel = runRev
  /\ ~Starting => services > 0 /\ kernel > 0

WatcherHolds ==
  /\ watchPC \in {"read", "apply"} => lastHash \notin {newHash, NoHash}
  /\ watchPC = "apply" => watchRev > 0 /\ kernel <= watchRev
  /\ watchPC \in {"send", "drain", "push"} => watchRev > 0 /\ kernel = watchRev

SingleSlot ==
  /\ Len(reloadCh) <= ReloadCap
  /\ watchPC = "push" => reloadCh = <<>>

IsReadable(r) == r > 0 => history[r] \in Readable

AllReadable ==
  /\ IsReadable(kernel) /\ IsReadable(services)
  /\ runPC = "apply" => IsReadable(runRev)
  /\ watchPC = "apply" => IsReadable(watchRev)
  /\ supPC = "start" => supRev > 0 /\ IsReadable(supRev)
  /\ \A i \in 1..Len(reloadCh) : reloadCh[i] > 0 /\ IsReadable(reloadCh[i])

IInv == /\ TypeOK
        /\ Phases
        /\ WatcherHolds
        /\ SingleSlot
        /\ AllReadable
        /\ Monotone
        /\ InSync

-----------------------------------------------------------------------------
(* The channel as a slot.                                                  *)

\* Putting one update in an empty channel, and taking the only update out.
LEMMA FillSlot ==
  ASSUME NEW S, NEW r \in S
  PROVE  /\ Append(<<>>, r) \in Seq(S) /\ Append(<<>>, r) # <<>>
         /\ Len(Append(<<>>, r)) = 1 /\ Append(<<>>, r)[1] = r
<1>1. Append(<<>>, r) # <<>>
  BY EmptySeq, AppendProperties, Zenon
<1>2. QED
  BY <1>1

LEMMA DrainSlot ==
  ASSUME NEW S, NEW s \in Seq(S), s # <<>>, Len(s) <= 1
  PROVE  Len(s) = 1 /\ Head(s) \in S /\ Head(s) = s[1] /\ Tail(s) = <<>>
<1>1. Len(s) \in Nat \ {0}
  BY EmptySeq, Zenon
<1>2. Len(s) = 1
  BY <1>1
<1>3. Head(s) \in S /\ Head(s) = s[1]
  BY <1>2
<1>4. Tail(s) \in Seq(S) /\ Len(Tail(s)) = Len(s) - 1
  BY HeadTailProperties
<1>5. Len(Tail(s)) = 0
  BY <1>2, <1>4
<1>6. Tail(s) = <<>>
  BY <1>4, <1>5, EmptySeq, Zenon
<1>7. QED
  BY <1>2, <1>3, <1>6

\* The empty channel.
LEMMA EmptySlot ==
  ASSUME NEW S, NEW s, s = <<>>
  PROVE  s \in Seq(S) /\ Len(s) = 0
BY EmptySeq, Zenon

-----------------------------------------------------------------------------

\* Visible everywhere below: the assumptions on the constants, the parts of
\* the invariant about control, and the abbreviations of PolicyReload.
USE MaxEditsAssumption, NoHashAssumption, AbsentAssumption, ReadableAssumption
    DEF TypeOK, Phases, WatcherHolds, SingleSlot, Starting, Cancelled, Revisions,
        Files, ReloadCap, File, Rev, TickDone, runVars, watcherVars, supVars

\* An edit keeps every earlier revision.
LEMMA EditKeepsRevisions ==
  ASSUME TypeOK, Edit
  PROVE  /\ history' \in Seq(Files) /\ Len(history') = Len(history) + 1
         /\ Len(history') \in Revisions
         /\ \A r \in 1..Len(history) : history'[r] = history[r]
BY DEF Edit

-----------------------------------------------------------------------------
(* The initial states.                                                     *)

\* The invariant holds at first.
LEMMA Initial == Init => IInv
<1> SUFFICES ASSUME Init PROVE IInv
  OBVIOUS
<1>1. PICK c \in Files : history = <<c>>
  BY DEF Init
<1>2. history \in Seq(Files) /\ Len(history) = 1 /\ Len(history) \in Revisions
  BY <1>1
<1>3. reloadCh \in Seq(Revisions) /\ Len(reloadCh) = 0
  BY EmptySlot DEF Init
<1>4. /\ kernel = 0 /\ runPC = "load" /\ runRev = 0 /\ watchPC = "off"
      /\ lastHash = NoHash /\ newHash = NoHash /\ watchRev = 0
      /\ supPC = "off" /\ supRev = 0 /\ services = 0 /\ up = FALSE /\ killed = FALSE
  BY DEF Init
<1>5. up \in BOOLEAN /\ killed \in BOOLEAN
  BY <1>4
<1>6. TypeOK
  BY <1>2, <1>3, <1>4, <1>5
<1>7. Phases /\ WatcherHolds /\ SingleSlot
  BY <1>2, EmptySeq DEF Init
<1>8. AllReadable /\ Monotone /\ InSync
  BY <1>2 DEF Init, AllReadable, IsReadable, Monotone, InSync, Newest, ReloadOwed
<1>9. QED
  BY <1>6, <1>7, <1>8 DEF IInv

-----------------------------------------------------------------------------
(* Each action preserves the invariant.                                    *)

\* A new revision of the file: the older ones keep their content.
LEMMA EditStep == IInv /\ Edit => IInv'
<1> SUFFICES ASSUME IInv, Edit PROVE IInv'
  OBVIOUS
<1> USE DEF IInv, Edit
<1>1. TypeOK'
  BY EditKeepsRevisions
<1>2. Phases'
  OBVIOUS
<1>3. WatcherHolds'
  OBVIOUS
<1>4. SingleSlot'
  OBVIOUS
<1>5. AllReadable'
  <2>1. \A r \in 1..Len(history) : history'[r] = history[r]
    BY EditKeepsRevisions
  <2>2. AllReadable /\ UNCHANGED <<kernel, runVars, watcherVars, reloadCh, supVars, killed>>
    OBVIOUS
  <2>3. \A i \in 1..Len(reloadCh) : reloadCh[i] \in 1..Len(history)
    BY DEF Monotone, AllReadable
  <2>4. QED
    BY <2>1, <2>2, <2>3 DEF AllReadable, IsReadable
<1>6. Monotone'
  BY DEF Monotone
<1>7. InSync'
  BY DEF InSync, Newest, ReloadOwed
<1> QED
  BY <1>1, <1>2, <1>3, <1>4, <1>5, <1>6, <1>7

\* Startup reads the file.
LEMMA RunReadStep == IInv /\ RunRead => IInv'
<1> SUFFICES ASSUME IInv, RunRead PROVE IInv'
  OBVIOUS
<1> USE DEF IInv, RunRead
<1>1. TypeOK'
  OBVIOUS
<1>2. Phases'
  OBVIOUS
<1>3. WatcherHolds'
  OBVIOUS
<1>4. SingleSlot'
  OBVIOUS
<1>5. AllReadable'
  BY DEF AllReadable, IsReadable
<1>6. Monotone'
  BY DEF Monotone
<1>7. InSync'
  BY DEF InSync, Newest, ReloadOwed
<1> QED
  BY <1>1, <1>2, <1>3, <1>4, <1>5, <1>6, <1>7

\* Startup applies what it has read, or fails.
LEMMA RunApplyStep == IInv /\ RunApply => IInv'
<1> SUFFICES ASSUME IInv, RunApply PROVE IInv'
  OBVIOUS
<1> USE DEF IInv, RunApply
<1>1. TypeOK'
  OBVIOUS
<1>2. Phases'
  OBVIOUS
<1>3. WatcherHolds'
  OBVIOUS
<1>4. SingleSlot'
  OBVIOUS
<1>5. AllReadable'
  BY DEF AllReadable, IsReadable
<1>6. Monotone'
  BY DEF Monotone
<1>7. InSync'
  BY DEF InSync, Newest, ReloadOwed
<1> QED
  BY <1>1, <1>2, <1>3, <1>4, <1>5, <1>6, <1>7

\* Startup hashes the file and starts the other goroutines in step.
LEMMA RunHashStep == IInv /\ RunHash => IInv'
<1> SUFFICES ASSUME IInv, RunHash PROVE IInv'
  OBVIOUS
<1> USE DEF IInv, RunHash
<1>1. TypeOK'
  OBVIOUS
<1>2. Phases'
  OBVIOUS
<1>3. WatcherHolds'
  OBVIOUS
<1>4. SingleSlot'
  OBVIOUS
<1>5. AllReadable'
  BY DEF AllReadable, IsReadable
<1>6. Monotone'
  BY DEF Monotone
<1>7. InSync'
  BY DEF InSync, Newest, ReloadOwed
<1> QED
  BY <1>1, <1>2, <1>3, <1>4, <1>5, <1>6, <1>7

\* A tick compares hashes: nothing that is enforced or served moves.
LEMMA TickStep == IInv /\ Tick => IInv'
<1> SUFFICES ASSUME IInv, Tick PROVE IInv'
  OBVIOUS
<1> USE DEF IInv, Tick
<1>1. TypeOK'
  OBVIOUS
<1>2. Phases'
  OBVIOUS
<1>3. WatcherHolds'
  OBVIOUS
<1>4. SingleSlot'
  OBVIOUS
<1>5. AllReadable'
  BY DEF AllReadable, IsReadable
<1>6. Monotone'
  BY DEF Monotone
<1>7. InSync'
  BY DEF InSync, Newest, ReloadOwed
<1> QED
  BY <1>1, <1>2, <1>3, <1>4, <1>5, <1>6, <1>7

\* The watcher takes the newest revision, so never one behind the kernel.
LEMMA WatchReadStep == IInv /\ WatchRead => IInv'
<1> SUFFICES ASSUME IInv, WatchRead PROVE IInv'
  OBVIOUS
<1> USE DEF IInv, WatchRead
<1>1. TypeOK'
  OBVIOUS
<1>2. Phases'
  OBVIOUS
<1>3. WatcherHolds'
  OBVIOUS
<1>4. SingleSlot'
  OBVIOUS
<1>5. AllReadable'
  BY DEF AllReadable, IsReadable
<1>6. Monotone'
  BY DEF Monotone
<1>7. InSync'
  BY DEF InSync, Newest, ReloadOwed
<1> QED
  BY <1>1, <1>2, <1>3, <1>4, <1>5, <1>6, <1>7

\* The kernel moves ahead of the services: the watcher now owes an update.
LEMMA WatchApplyStep == IInv /\ WatchApply => IInv'
<1> SUFFICES ASSUME IInv, WatchApply PROVE IInv'
  OBVIOUS
<1> USE DEF IInv, WatchApply
<1>1. TypeOK'
  OBVIOUS
<1>2. Phases'
  OBVIOUS
<1>3. WatcherHolds'
  OBVIOUS
<1>4. SingleSlot'
  OBVIOUS
<1>5. AllReadable'
  BY DEF AllReadable, IsReadable
<1>6. Monotone'
  BY DEF Monotone
<1>7. InSync'
  BY DEF InSync, Newest, ReloadOwed
<1> QED
  BY <1>1, <1>2, <1>3, <1>4, <1>5, <1>6, <1>7

\* When nft fails the kernel stays, or moves ahead and a reload is owed.
LEMMA WatchApplyFailStep == IInv /\ WatchApplyFail => IInv'
<1> SUFFICES ASSUME IInv, WatchApplyFail PROVE IInv'
  OBVIOUS
<1> USE DEF IInv, WatchApplyFail, NftFails
<1>1. TypeOK'
  OBVIOUS
<1>2. Phases'
  OBVIOUS
<1>3. WatcherHolds'
  OBVIOUS
<1>4. SingleSlot'
  OBVIOUS
<1>5. AllReadable'
  BY DEF AllReadable, IsReadable
<1>6. Monotone'
  BY DEF Monotone
<1>7. InSync'
  BY DEF InSync, Newest, ReloadOwed
<1> QED
  BY <1>1, <1>2, <1>3, <1>4, <1>5, <1>6, <1>7

\* The owed update goes into an empty slot, or the slot is full.
LEMMA SendFastStep == IInv /\ SendFast => IInv'
<1> SUFFICES ASSUME IInv, SendFast PROVE IInv'
  OBVIOUS
<1> USE DEF IInv, SendFast
<1>1. TypeOK'
  OBVIOUS
<1>2. Phases'
  OBVIOUS
<1>3. WatcherHolds'
  OBVIOUS
<1>4. SingleSlot'
  OBVIOUS
<1>5. AllReadable'
  BY DEF AllReadable, IsReadable
<1>6. Monotone'
  BY DEF Monotone
<1>7. InSync'
  BY DEF InSync, Newest, ReloadOwed
<1> QED
  BY <1>1, <1>2, <1>3, <1>4, <1>5, <1>6, <1>7

\* The slot is emptied while the newer update is still in hand.
LEMMA SendDrainStep == IInv /\ SendDrain => IInv'
<1> SUFFICES ASSUME IInv, SendDrain PROVE IInv'
  OBVIOUS
<1> USE DEF IInv, SendDrain
<1>1. TypeOK'
  OBVIOUS
<1>2. Phases'
  OBVIOUS
<1>3. WatcherHolds'
  OBVIOUS
<1>4. SingleSlot'
  OBVIOUS
<1>5. AllReadable'
  BY DEF AllReadable, IsReadable
<1>6. Monotone'
  BY DEF Monotone
<1>7. InSync'
  BY DEF InSync, Newest, ReloadOwed
<1> QED
  BY <1>1, <1>2, <1>3, <1>4, <1>5, <1>6, <1>7

\* The owed update goes into the slot the watcher emptied.
LEMMA SendPushStep == IInv /\ SendPush => IInv'
<1> SUFFICES ASSUME IInv, SendPush PROVE IInv'
  OBVIOUS
<1> USE DEF IInv
<1>1. /\ watchPC = "push" /\ watchPC' = "idle" /\ lastHash' = newHash
      /\ UNCHANGED <<history, kernel, runVars, newHash, watchRev, supVars, killed>>
  BY DEF SendPush
<1>2. reloadCh = <<>> /\ watchRev \in Revisions /\ kernel = watchRev
  BY <1>1
<1>3. CASE Cancelled /\ UNCHANGED reloadCh
  BY <1>1, <1>3 DEF AllReadable, IsReadable, Monotone, InSync, Newest, ReloadOwed
<1>4. CASE reloadCh' = Append(reloadCh, watchRev)
  <2>1. /\ reloadCh' \in Seq(Revisions) /\ reloadCh' # <<>>
        /\ Len(reloadCh') = 1 /\ reloadCh'[1] = watchRev
    BY <1>2, <1>4, FillSlot
  <2>2. TypeOK' /\ Phases' /\ WatcherHolds' /\ SingleSlot'
    BY <1>1, <2>1
  <2>3. AllReadable'
    BY <1>1, <1>2, <2>1 DEF AllReadable, IsReadable
  <2>4. Monotone'
    BY <1>1, <1>2, <2>1 DEF Monotone
  <2>5. InSync'
    BY <1>1, <1>2, <2>1 DEF InSync, Newest, ReloadOwed
  <2>6. QED
    BY <2>2, <2>3, <2>4, <2>5
<1>5. QED
  BY <1>3, <1>4 DEF SendPush

\* The watcher leaves only after the context is cancelled.
LEMMA WatchExitStep == IInv /\ WatchExit => IInv'
<1> SUFFICES ASSUME IInv, WatchExit PROVE IInv'
  OBVIOUS
<1> USE DEF IInv, WatchExit
<1>1. TypeOK'
  OBVIOUS
<1>2. Phases'
  OBVIOUS
<1>3. WatcherHolds'
  OBVIOUS
<1>4. SingleSlot'
  OBVIOUS
<1>5. AllReadable'
  BY DEF AllReadable, IsReadable
<1>6. Monotone'
  BY DEF Monotone
<1>7. InSync'
  BY DEF InSync, Newest, ReloadOwed
<1> QED
  BY <1>1, <1>2, <1>3, <1>4, <1>5, <1>6, <1>7

\* The supervisor takes the update out of the slot: it is still the newest.
LEMMA ReceiveStep == IInv /\ Receive => IInv'
<1> SUFFICES ASSUME IInv, Receive PROVE IInv'
  OBVIOUS
<1> USE DEF IInv
<1>1. /\ reloadCh # <<>>
      /\ supPC = "select" /\ supPC' = "start" /\ up' = FALSE
      /\ UNCHANGED <<history, kernel, runVars, watcherVars, services, killed>>
  BY DEF Receive
<1>2. /\ Len(reloadCh) = 1
      /\ supRev' = reloadCh[1] /\ supRev' \in Revisions /\ reloadCh' = <<>>
  BY DrainSlot DEF Receive
<1>3. reloadCh' \in Seq(Revisions) /\ Len(reloadCh') = 0
  BY <1>2, EmptySlot
<1>4. /\ supRev' \in 0..Len(history) /\ supRev' > 0 /\ IsReadable(supRev')
      /\ supRev' <= kernel /\ supRev' >= services
  BY <1>1, <1>2 DEF Monotone, AllReadable, IsReadable
<1>5. TypeOK'
  BY <1>1, <1>3, <1>4
<1>b. Phases' /\ WatcherHolds'
  BY <1>1, <1>2
<1>6. SingleSlot'
  BY <1>1, <1>2, <1>3
<1>7. AllReadable'
  BY <1>1, <1>3, <1>4 DEF AllReadable, IsReadable
<1>8. Monotone'
  BY <1>1, <1>3, <1>4 DEF Monotone
<1>9. InSync'
  BY <1>1, <1>2 DEF InSync, Newest, ReloadOwed
<1>10. QED
  BY <1>5, <1>b, <1>6, <1>7, <1>8, <1>9

\* The update in hand becomes the group that runs.
LEMMA StartGroupStep == IInv /\ StartGroup => IInv'
<1> SUFFICES ASSUME IInv, StartGroup PROVE IInv'
  OBVIOUS
<1> USE DEF IInv, StartGroup
<1>1. TypeOK'
  OBVIOUS
<1>2. Phases'
  BY DEF AllReadable
<1>3. WatcherHolds'
  OBVIOUS
<1>4. SingleSlot'
  OBVIOUS
<1>5. AllReadable'
  BY DEF AllReadable, IsReadable
<1>6. Monotone'
  BY DEF Monotone
<1>7. InSync'
  BY DEF InSync, Newest, ReloadOwed
<1> QED
  BY <1>1, <1>2, <1>3, <1>4, <1>5, <1>6, <1>7

\* Cancelling the context ends what InSync speaks of.
LEMMA ShutdownStep == IInv /\ Shutdown => IInv'
<1> SUFFICES ASSUME IInv, Shutdown PROVE IInv'
  OBVIOUS
<1> USE DEF IInv, Shutdown
<1>1. TypeOK'
  OBVIOUS
<1>2. Phases'
  OBVIOUS
<1>3. WatcherHolds'
  OBVIOUS
<1>4. SingleSlot'
  OBVIOUS
<1>5. AllReadable'
  BY DEF AllReadable, IsReadable
<1>6. Monotone'
  BY DEF Monotone
<1>7. InSync'
  BY DEF InSync, Newest, ReloadOwed
<1> QED
  BY <1>1, <1>2, <1>3, <1>4, <1>5, <1>6, <1>7

\* The invariant is inductive.
LEMMA Inductive == IInv /\ [Next]_vars => IInv'
<1> SUFFICES ASSUME IInv, [Next]_vars PROVE IInv'
  OBVIOUS
<1>1. CASE Next
  BY <1>1, EditStep, RunReadStep, RunApplyStep, RunHashStep, TickStep, WatchReadStep,
     WatchApplyStep, WatchApplyFailStep, SendFastStep, SendDrainStep, SendPushStep,
     WatchExitStep, ReceiveStep, StartGroupStep, ShutdownStep DEF Next, Watch
<1>2. CASE UNCHANGED vars
  BY <1>2 DEF IInv, vars, AllReadable, IsReadable, Monotone, InSync, Newest, ReloadOwed
<1>3. QED
  BY <1>1, <1>2

\* The inductive invariant holds in every reachable state.
THEOREM Invariance == Spec => []IInv
<1>1. Init => IInv
  BY Initial
<1>2. IInv /\ [Next]_vars => IInv'
  BY Inductive
<1>3. QED
  BY <1>1, <1>2, PTL DEF Spec

-----------------------------------------------------------------------------
(* The properties the runs check.                                          *)

\* Every variable keeps its type, and no revision is ever named before the
\* file has reached it.
THEOREM TypeCorrect == Spec => []TypeOK
<1>1. IInv => TypeOK
  BY DEF IInv
<1>2. QED
  BY <1>1, Invariance, PTL

\* Between two reloads the services that run, or that the newest undelivered
\* update will start, have the policy the kernel enforces, or nft was killed
\* after its commit and the watcher still owes the services a reload.
THEOREM KernelAndServicesInSync == Spec => []InSync
<1>1. IInv => InSync
  BY DEF IInv
<1>2. QED
  BY <1>1, Invariance, PTL

\* Updates never overtake the kernel and never arrive out of order.
THEOREM UpdatesInOrder == Spec => []Monotone
<1>1. IInv => Monotone
  BY DEF IInv
<1>2. QED
  BY <1>1, Invariance, PTL

\* The blocking send at the end of sendLatest always finds the slot free.
THEOREM SendLatestNeverBlocks == Spec => []PushNeverBlocks
<1>1. IInv => PushNeverBlocks
  <2> SUFFICES ASSUME IInv, watchPC = "push" PROVE Len(reloadCh) < ReloadCap
    BY DEF PushNeverBlocks
  <2>1. Len(reloadCh) = 0
    BY EmptySlot DEF IInv
  <2>2. QED
    BY <2>1
<1>2. QED
  BY <1>1, Invariance, PTL

-----------------------------------------------------------------------------
(* The reload machine implements the promise.                              *)

\* Both start with nothing enforced and nothing served.
LEMMA PromiseInitial == Init => Promise!Init
BY DEF Init, Promise!Init

\* Each action is a step of the promise or leaves its variables alone.
LEMMA PromiseStep == IInv /\ [Next]_vars => [Promise!Next]_(Promise!vars)
<1> SUFFICES ASSUME IInv, [Next]_vars PROVE Promise!Next \/ UNCHANGED Promise!vars
  OBVIOUS
<1> USE DEF IInv, Promise!Next, Promise!vars
<1>1. CASE Edit
  BY <1>1 DEF Edit, Promise!Edit
<1>2. CASE RunApply
  <2>1. CASE kernel' = runRev
    <3>1. runRev \in kernel..Len(history) /\ runRev > 0 /\ history[runRev] \in Readable
      BY <1>2 DEF RunApply, AllReadable, IsReadable
    <3>2. QED
      BY <1>2, <2>1, <3>1 DEF RunApply, Promise!Enforce
  <2>2. CASE UNCHANGED kernel
    BY <1>2, <2>2 DEF RunApply
  <2>3. QED
    BY <1>2, <2>1, <2>2 DEF RunApply
<1>3. CASE RunHash
  <2>1. runRev \in services..kernel /\ runRev > 0 /\ history[runRev] \in Readable
    BY <1>3 DEF RunHash, AllReadable, IsReadable
  <2>2. QED
    BY <1>3, <2>1 DEF RunHash, Promise!Serve
<1>4. CASE WatchApply
  <2>1. watchRev \in kernel..Len(history) /\ watchRev > 0 /\ history[watchRev] \in Readable
    BY <1>4 DEF WatchApply, AllReadable, IsReadable
  <2>2. QED
    BY <1>4, <2>1 DEF WatchApply, Promise!Enforce
<1>5. CASE Receive
  BY <1>5 DEF Receive, Promise!StopServing
<1>6. CASE StartGroup
  <2>1. supRev \in services..kernel /\ supRev > 0 /\ history[supRev] \in Readable
    BY <1>6 DEF StartGroup, AllReadable, IsReadable, Monotone
  <2>2. QED
    BY <1>6, <2>1 DEF StartGroup, Promise!Serve
<1>7. CASE Shutdown
  BY <1>7 DEF Shutdown, Promise!StopServing
<1>8. CASE WatchApplyFail
  <2>1. watchRev \in kernel..Len(history) /\ watchRev > 0 /\ history[watchRev] \in Readable
    BY <1>8 DEF WatchApplyFail, AllReadable, IsReadable
  <2>2. QED
    BY <1>8, <2>1 DEF WatchApplyFail, NftFails, Promise!Enforce
<1>9. CASE RunRead \/ UNCHANGED vars
  BY <1>9 DEF RunRead, vars
<1>10. CASE Watch /\ ~WatchApply /\ ~WatchApplyFail
  BY <1>10 DEF Watch, Tick, WatchRead, SendFast, SendDrain, SendPush, WatchExit
<1>11. QED
  BY <1>1, <1>2, <1>3, <1>4, <1>5, <1>6, <1>7, <1>8, <1>9, <1>10 DEF Next, Watch

\* Every behaviour of the reload machine is one LivePolicy allows: both halves
\* of the filter only move forward, through readable revisions, the services
\* behind the kernel.
THEOREM Implementation == Spec => ImplementsLivePolicy
<1>1. Init => Promise!Init
  BY PromiseInitial
<1>2. IInv /\ [Next]_vars => [Promise!Next]_(Promise!vars)
  BY PromiseStep
<1>3. QED
  BY <1>1, <1>2, Invariance, PTL DEF Spec, ImplementsLivePolicy, Promise!Spec
=============================================================================
