---------------------------- MODULE PolicyReload ----------------------------
(***************************************************************************)
(* Live reload of the policy file, internal/g0efilter/app.go.              *)
(*                                                                         *)
(* Four actors share the policy file, the kernel ruleset and reloadCh:     *)
(*   Run         the startup path: loads and applies the policy, THEN      *)
(*               hashes the file, then starts services and the watcher     *)
(*   watcher     pollPolicyChanges: each tick hashes the file, and when    *)
(*               the hash moved reads it again, applies it to nftables     *)
(*               and hands it to the supervisor through reloadCh           *)
(*   supervisor  supervise: restarts the service group with each update    *)
(*   operator    whoever writes the file: a person, the learner, the       *)
(*               unblock poller.  A save that truncates before it writes   *)
(*               is two writes, the first one of an empty file.            *)
(*                                                                         *)
(* A policy is named by the revision of the file it was read from, and the *)
(* SHA-256 of a file is the content itself (no collisions).                *)
(***************************************************************************)
EXTENDS Naturals, Sequences

CONSTANTS
  Contents,      \* what the file can hold, byte for byte
  Readable,      \* the contents policy.Read accepts
  Absent,        \* the file does not exist
  NoHash,        \* the empty string a failed hash leaves in lastHash
  MaxEdits       \* bound on the revisions of the file

ASSUME ReadableAssumption == Readable \subseteq Contents
ASSUME AbsentAssumption == Absent \notin Contents
ASSUME NoHashAssumption == NoHash \notin Contents \cup {Absent}
ASSUME MaxEditsAssumption == MaxEdits \in Nat \ {0}

VARIABLES
  history,   \* history[r]: content of the r-th revision of the policy file
  kernel,    \* revision the nftables ruleset was generated from, 0 for none
  runPC,     \* where Run is
  runRev,    \* revision Run has read, 0 before
  watchPC,   \* where checkPolicyTick is
  lastHash,  \* hash the watcher compares with
  newHash,   \* hash this tick computed
  watchRev,  \* revision this tick has read
  reloadCh,  \* the channel: revisions of the updates it buffers
  supPC,     \* where supervise is
  supRev,    \* revision of the update supervise has received
  services,  \* revision the last service group was started with, 0 for none
  up,        \* whether that group's context is still live
  killed     \* history: the last ruleset the watcher installed came from an nft
             \* run that was killed after its commit, and so counts as failed

watcherVars == <<watchPC, lastHash, newHash, watchRev>>
supVars == <<supPC, supRev, services, up>>
runVars == <<runPC, runRev>>
vars == <<history, kernel, runVars, watcherVars, reloadCh, supVars, killed>>

Revisions == 1..(MaxEdits + 1)
Files == Contents \cup {Absent}

\* The latest revision of the file, and what it holds.
Rev == Len(history)
File == history[Rev]

\* The buffer of reloadCh: make(chan policyUpdate, 1).
ReloadCap == 1

\* cancel() has been called: ctx.Done() is ready in every goroutine.
Cancelled == runPC = "stopped"

TypeOK ==
  /\ history \in Seq(Files)
  /\ Len(history) \in Revisions
  /\ kernel \in 0..Len(history)
  /\ runPC \in {"load", "apply", "hash", "running", "stopped", "failed"}
  /\ runRev \in 0..Len(history)
  /\ watchPC \in {"off", "idle", "read", "apply", "send", "drain", "push", "exited"}
  /\ lastHash \in Contents \cup {NoHash}
  /\ newHash \in Contents \cup {NoHash}
  /\ watchRev \in 0..Len(history)
  /\ reloadCh \in Seq(Revisions)
  /\ supPC \in {"off", "select", "start", "returned"}
  /\ supRev \in 0..Len(history)
  /\ services \in 0..Len(history)
  /\ up \in BOOLEAN
  /\ killed \in BOOLEAN

Init ==
  /\ history \in {<<c>> : c \in Files}
  /\ kernel = 0
  /\ runPC = "load" /\ runRev = 0
  /\ watchPC = "off" /\ lastHash = NoHash /\ newHash = NoHash /\ watchRev = 0
  /\ reloadCh = <<>>
  /\ supPC = "off" /\ supRev = 0 /\ services = 0 /\ up = FALSE
  /\ killed = FALSE

-----------------------------------------------------------------------------
(* The operator.                                                           *)

Edit ==
  /\ Len(history) <= MaxEdits
  /\ \E c \in Files \ {File} : history' = Append(history, c)
  /\ UNCHANGED <<kernel, runVars, watcherVars, reloadCh, supVars, killed>>

-----------------------------------------------------------------------------
(* Startup.                                                                *)

\* loadAndApplyPolicy, first half: policy.Read.  An unreadable policy makes
\* Run return its error, before any ruleset or service exists.
RunRead ==
  /\ runPC = "load"
  /\ IF File \in Readable
     THEN runPC' = "apply" /\ runRev' = Rev
     ELSE runPC' = "failed" /\ UNCHANGED runRev
  /\ UNCHANGED <<history, kernel, watcherVars, reloadCh, supVars, killed>>

\* loadAndApplyPolicy, second half: the nft run, which may fail, or be killed
\* at its deadline when the ruleset is already in place.
RunApply ==
  /\ runPC = "apply"
  /\ \/ runPC' = "hash" /\ kernel' = runRev
     \/ runPC' = "failed" /\ kernel' \in {kernel, runRev}
  /\ UNCHANGED <<history, runRev, watcherVars, reloadCh, supVars, killed>>

\* Defect: the hash of a missing file is taken for a hash.
RunHash_HashOfNothing ==
  /\ runPC = "hash"
  /\ lastHash' = File
  /\ runPC' = "running"
  /\ services' = runRev /\ up' = TRUE
  /\ watchPC' = "idle"
  /\ supPC' = "select"
  /\ UNCHANGED <<history, kernel, runRev, newHash, watchRev, reloadCh, supRev, killed>>

\* fileSHA256Hex, which leaves "" when the file cannot be opened (an existing
\* file is assumed to be readable, here and below); then Run starts the
\* service group, the watcher and supervise.
RunHash ==
  /\ runPC = "hash"
  /\ lastHash' = IF File = Absent THEN NoHash ELSE File
  /\ runPC' = "running"
  /\ services' = runRev /\ up' = TRUE
  /\ watchPC' = "idle"
  /\ supPC' = "select"
  /\ UNCHANGED <<history, kernel, runRev, newHash, watchRev, reloadCh, supRev, killed>>

-----------------------------------------------------------------------------
(* The watcher.                                                            *)

\* The head of checkPolicyTick.  A file that cannot be hashed, or whose hash
\* has not moved, ends the tick with lastHash as it was: no state changes.
\* An empty lastHash is replaced without a reload.
Tick ==
  /\ watchPC = "idle" /\ ~Cancelled
  /\ File # Absent /\ File # lastHash
  /\ IF lastHash = NoHash
     THEN lastHash' = File /\ UNCHANGED <<watchPC, newHash>>
     ELSE watchPC' = "read" /\ newHash' = File /\ UNCHANGED lastHash
  /\ UNCHANGED <<history, kernel, runVars, watchRev, reloadCh, supVars, killed>>

\* Defect: the policy is applied without being validated.
WatchRead_Unvalidated ==
  /\ watchPC = "read"
  /\ watchPC' = "apply" /\ watchRev' = Rev
  /\ UNCHANGED <<history, kernel, runVars, lastHash, newHash, reloadCh, supVars, killed>>

\* policy.Read in loadAndApplyPolicy: the file is read a second time.  An
\* unreadable policy ends the tick with the old lastHash.
WatchRead ==
  /\ watchPC = "read"
  /\ IF File \in Readable
     THEN watchPC' = "apply" /\ watchRev' = Rev
     ELSE watchPC' = "idle" /\ UNCHANGED watchRev
  /\ UNCHANGED <<history, kernel, runVars, lastHash, newHash, reloadCh, supVars, killed>>

\* nft applies the whole ruleset in one transaction.
WatchApply ==
  /\ watchPC = "apply"
  /\ kernel' = watchRev /\ killed' = FALSE
  /\ watchPC' = "send"
  /\ UNCHANGED <<history, runVars, lastHash, newHash, watchRev, reloadCh, supVars>>

\* What an nft run that returns an error leaves: the old ruleset, or, when it
\* was killed at its deadline (or with the context) after its commit, the new.
NftFails == \/ UNCHANGED <<kernel, killed>>
            \/ kernel' = watchRev /\ killed' = TRUE

\* Defect: the new hash is remembered although the reload failed.
WatchApplyFail_Forgets ==
  /\ watchPC = "apply" /\ NftFails
  /\ watchPC' = "idle" /\ lastHash' = newHash
  /\ UNCHANGED <<history, runVars, newHash, watchRev, reloadCh, supVars>>

\* The watcher sees an error either way and keeps lastHash, so that the next
\* tick tries again; the services hear nothing.
WatchApplyFail ==
  /\ watchPC = "apply" /\ NftFails
  /\ watchPC' = "idle"
  /\ UNCHANGED <<history, runVars, lastHash, newHash, watchRev, reloadCh, supVars>>

\* sendLatest has returned: checkPolicyTick returns the hash it computed.
TickDone == watchPC' = "idle" /\ lastHash' = newHash

\* Defect: drop newest, a non-blocking send to a full channel.
SendFast_DropsNewest ==
  /\ watchPC = "send"
  /\ TickDone
  /\ reloadCh' = IF Cancelled \/ Len(reloadCh) >= ReloadCap THEN reloadCh
                 ELSE Append(reloadCh, watchRev)
  /\ UNCHANGED <<history, kernel, runVars, newHash, watchRev, supVars, killed>>

\* sendLatest, fast path: the first select and the non-blocking send.
SendFast ==
  /\ watchPC = "send"
  /\ IF Cancelled
     THEN TickDone /\ UNCHANGED reloadCh
     ELSE IF Len(reloadCh) < ReloadCap
     THEN TickDone /\ reloadCh' = Append(reloadCh, watchRev)
     ELSE watchPC' = "drain" /\ UNCHANGED <<lastHash, reloadCh>>
  /\ UNCHANGED <<history, kernel, runVars, newHash, watchRev, supVars, killed>>

\* sendLatest, "drop oldest": the buffered update may be gone by now.
SendDrain ==
  /\ watchPC = "drain"
  /\ \/ /\ Cancelled /\ TickDone
        /\ UNCHANGED reloadCh
     \/ /\ watchPC' = "push"
        /\ reloadCh' = IF reloadCh = <<>> THEN <<>> ELSE Tail(reloadCh)
        /\ UNCHANGED lastHash
  /\ UNCHANGED <<history, kernel, runVars, newHash, watchRev, supVars, killed>>

\* sendLatest, "push newest": blocks while the buffer is full.
SendPush ==
  /\ watchPC = "push"
  /\ \/ Cancelled /\ TickDone /\ UNCHANGED reloadCh
     \/ /\ Len(reloadCh) < ReloadCap
        /\ TickDone /\ reloadCh' = Append(reloadCh, watchRev)
  /\ UNCHANGED <<history, kernel, runVars, newHash, watchRev, supVars, killed>>

\* pollPolicyChanges returns once the context is done.
WatchExit ==
  /\ watchPC = "idle" /\ Cancelled
  /\ watchPC' = "exited"
  /\ UNCHANGED <<history, kernel, runVars, lastHash, newHash, watchRev, reloadCh, supVars, killed>>

-----------------------------------------------------------------------------
(* The supervisor.                                                         *)

\* case upd := <-reloadCh, up to stopServices in restartServices.  The guard
\* on ctx.Err() never fires here: only this goroutine cancels the context.
Receive ==
  /\ supPC = "select" /\ reloadCh # <<>>
  /\ supRev' = Head(reloadCh) /\ reloadCh' = Tail(reloadCh)
  /\ up' = FALSE
  /\ supPC' = "start"
  /\ UNCHANGED <<history, kernel, runVars, watcherVars, services, killed>>

\* startServiceGroup in restartServices.
StartGroup ==
  /\ supPC = "start"
  /\ services' = supRev /\ up' = TRUE
  /\ supPC' = "select"
  /\ UNCHANGED <<history, kernel, runVars, watcherVars, reloadCh, supRev, killed>>

\* case sig := <-sigCh: cancel the context, stop the services and return.
Shutdown ==
  /\ supPC = "select"
  /\ supPC' = "returned" /\ runPC' = "stopped" /\ up' = FALSE
  /\ UNCHANGED <<history, kernel, runRev, watcherVars, reloadCh, supRev, services, killed>>

-----------------------------------------------------------------------------

Watch == \/ Tick \/ WatchRead \/ WatchApply \/ WatchApplyFail
         \/ SendFast \/ SendDrain \/ SendPush \/ WatchExit

Next == \/ Edit
        \/ RunRead \/ RunApply \/ RunHash
        \/ Watch
        \/ Receive \/ StartGroup \/ Shutdown

\* Every goroutine is scheduled and the ticker keeps ticking.  nft may fail,
\* but not for ever.  Nothing obliges anyone to edit the file or to signal.
Fairness ==
  /\ WF_vars(RunRead) /\ WF_vars(RunApply) /\ WF_vars(RunHash)
  /\ WF_vars(Watch) /\ SF_vars(WatchApply)
  /\ WF_vars(Receive \/ StartGroup)

Spec == Init /\ [][Next]_vars
FairSpec == Spec /\ Fairness

-----------------------------------------------------------------------------
(* Properties.                                                             *)

\* The update the supervisor will act on last: the newest one still on its
\* way, or the group that runs when none is.
Newest == IF reloadCh # <<>> THEN reloadCh[Len(reloadCh)]
          ELSE IF supPC = "start" THEN supRev
          ELSE services

\* The watcher owes a reload: its last apply was killed after the commit, and it
\* remembers the hash of an earlier file, so that any other file is reloaded.
ReloadOwed == killed /\ lastHash \notin {newHash, NoHash}

\* Whenever the watcher is between two reloads of a running instance, the
\* supervisor runs, or is about to run, exactly the revision the kernel
\* enforces: sendLatest may drop updates but never the newest one.  Only an nft
\* run killed after its commit puts the two halves of the filter on different
\* policies, and then a reload is still owed.
InSync ==
  watchPC \in {"idle", "read", "apply"} /\ ~Cancelled => Newest = kernel \/ ReloadOwed

\* sendLatest never blocks in its last select: the watcher is the only sender,
\* so the slot it drained is still free when it pushes.
PushNeverBlocks == watchPC = "push" => Len(reloadCh) < ReloadCap

\* The revisions on their way to the supervisor only get newer: what runs, what
\* was received, what is buffered, what the kernel enforces, what the file holds.
Monotone ==
  /\ services <= kernel
  /\ supPC = "start" => services <= supRev /\ supRev <= kernel
  /\ \A i \in 1..Len(reloadCh) :
       /\ reloadCh[i] <= kernel
       /\ reloadCh[i] >= IF supPC = "start" THEN supRev ELSE services

\* The kernel enforces what the file holds.
Enforced == kernel > 0 /\ history[kernel] = File

\* The reload machine implements the promise of LivePolicy.
Promise == INSTANCE LivePolicy
ImplementsLivePolicy == Promise!Spec

\* Once edits stop, an instance that is not shut down ends up enforcing what
\* the file holds, unless that cannot be read as a policy.
Settled ==
  <>[](\/ runPC \in {"stopped", "failed"}
       \/ File \notin Readable
       \/ Enforced)

\* Nobody writes the file between Run's reading it and hashing it.
QuietStartup == runPC \in {"apply", "hash"} => Rev = runRev

\* No write puts back bytes that the file held before.
FreshBytes == \A r, s \in 1..Len(history) : history[r] = history[s] => r = s

\* Edits apply, though ticks fail half way, nft fails and updates are dropped,
\* if no write falls between reading and hashing or brings back a hash.
EditsApply == []QuietStartup /\ []FreshBytes => Settled

\* The owed reload cannot happen: the file is no policy, or holds again what the
\* watcher remembers.
ReloadBlocked == killed /\ (File \notin Readable \/ File = lastHash)

\* The services catch up with every ruleset the watcher installs, or with a
\* newer one, unless the instance stops, or nft was killed after a commit and the
\* file then stays one that is not reloaded.
ServicesFollow ==
  []<>~ReloadBlocked =>
    \A r \in Revisions :
      kernel = r ~> (up /\ services >= r) \/ runPC \in {"stopped", "failed"}
=============================================================================
