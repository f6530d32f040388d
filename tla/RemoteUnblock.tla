--------------------------- MODULE RemoteUnblock ---------------------------
(***************************************************************************)
(* Remote unblock: the dashboard (dashboard/unblock.go, handlers.go) and   *)
(* the pollers of the filters (g0efilter/app.go).                          *)
(*                                                                         *)
(* An administrator asks the dashboard to allow a value on one host or on  *)
(* all of them.  The dashboard keeps the pending requests in memory.  Each *)
(* host polls for the requests addressed to it, appends their values to    *)
(* its policy file one by one, and acknowledges each; an acknowledged      *)
(* request is pending no more.  Every call may fail before or after the    *)
(* dashboard has acted on it, and either side may restart.                 *)
(*                                                                         *)
(* An append is one step here, which PolicyFile shows it to be when the    *)
(* poller is the only writer.  A value stands for a type and a value.      *)
(***************************************************************************)
EXTENDS Naturals, Sequences, FiniteSets

CONSTANTS
  Hosts,        \* the filters that poll
  Named,        \* those whose HOSTNAME is set
  Values,       \* what the dashboard takes: any printable text of some length
  Acceptable,   \* what an append to a policy file takes: a name or an address
  All,          \* the empty target_hostname: all hosts
  Targets,      \* the targets administrators choose
  MaxPending,   \* the store's maxPending
  MaxCompleted, \* the store's maxCompleted
  MaxIds,       \* bound on the requests the store accepts
  MaxRestarts   \* bound on the restarts of the dashboard

ASSUME AcceptableAssumption == Acceptable \subseteq Values
ASSUME NamedAssumption == Named \subseteq Hosts
ASSUME TargetsAssumption == All \notin Hosts /\ Targets \subseteq Hosts \cup {All}
ASSUME BoundsAssumption ==
  MaxPending \in Nat /\ MaxCompleted \in Nat \ {0} /\ MaxIds \in Nat /\ MaxRestarts \in Nat

VARIABLES
  pending,    \* the store: requests, [id, value, target]
  completed,  \* the store: acknowledged requests, oldest first
  lastId,     \* generateID, which never gives an id twice
  asked,      \* what administrators were told is queued: [value, target]
  allowed,    \* allowed[h]: values added to the policy file of h
  batch,      \* batch[h]: requests h has fetched and not processed
  ack,        \* ack[h]: the id h is about to acknowledge, 0 for none
  restarts

vars == <<pending, completed, lastId, asked, allowed, batch, ack, restarts>>

Ids == 1..MaxIds
Target == Hosts \cup {All}
Ask == [value : Values, target : Target]
Request == [id : Ids, value : Values, target : Target]

\* Types; an id is given to one request only, and the lists stay bounded.
TypeOK ==
  /\ pending \subseteq Request /\ Cardinality(pending) <= MaxPending
  /\ \A r, s \in pending : r.id = s.id => r = s
  /\ completed \in Seq(Ask) /\ Len(completed) <= MaxCompleted
  /\ lastId \in 0..MaxIds
  /\ asked \subseteq Ask
  /\ allowed \in [Hosts -> SUBSET Values]
  /\ batch \in [Hosts -> SUBSET Request]
  /\ ack \in [Hosts -> 0..MaxIds]
  /\ restarts \in 0..MaxRestarts

Init ==
  /\ pending = {} /\ completed = <<>> /\ lastId = 0 /\ asked = {}
  /\ allowed = [h \in Hosts |-> {}]
  /\ batch = [h \in Hosts |-> {}]
  /\ ack = [h \in Hosts |-> 0]
  /\ restarts = 0

-----------------------------------------------------------------------------
(* The dashboard.                                                          *)

\* Defect: a request for the same value on another host counts as a duplicate.
Create_IgnoresTarget(v, t) ==
  /\ asked' = asked \cup {[value |-> v, target |-> t]}
  /\ \/ /\ \E r \in pending : r.value = v
        /\ UNCHANGED <<pending, lastId>>
     \/ /\ \A r \in pending : r.value # v
        /\ Cardinality(pending) < MaxPending /\ lastId < MaxIds
        /\ lastId' = lastId + 1
        /\ pending' = pending \cup {[id |-> lastId', value |-> v, target |-> t]}
  /\ UNCHANGED <<completed, allowed, batch, ack, restarts>>

\* Defect: the capacity is not looked at.
Create_Unbounded(v, t) ==
  /\ \A r \in pending : ~(r.value = v /\ r.target = t)
  /\ lastId < MaxIds
  /\ lastId' = lastId + 1
  /\ pending' = pending \cup {[id |-> lastId', value |-> v, target |-> t]}
  /\ asked' = asked \cup {[value |-> v, target |-> t]}
  /\ UNCHANGED <<completed, allowed, batch, ack, restarts>>

\* createUnblockHandler, Add.  A duplicate of a pending request is answered with
\* its id and a full store refuses; neither changes anything.
Create(v, t) ==
  /\ \A r \in pending : ~(r.value = v /\ r.target = t)
  /\ Cardinality(pending) < MaxPending /\ lastId < MaxIds
  /\ lastId' = lastId + 1
  /\ pending' = pending \cup {[id |-> lastId', value |-> v, target |-> t]}
  /\ asked' = asked \cup {[value |-> v, target |-> t]}
  /\ UNCHANGED <<completed, allowed, batch, ack, restarts>>

\* Defect: every host sees the requests of all.
PendingFor_Everything(h) == pending

\* GetPendingForHost, and GetPending for a host that sends no hostname.
PendingFor(h) == {r \in pending : h \in Named => r.target \in {All, h}}

\* Defect: the acknowledged request is not deleted.
Acknowledge_Keeps(r) ==
  LET done == Append(completed, [value |-> r.value, target |-> r.target])
  IN /\ completed' = IF Len(done) > MaxCompleted THEN Tail(done) ELSE done
     /\ UNCHANGED pending

\* Acknowledge.  The list of completed requests is cut to its last entries.
Acknowledge(r) ==
  LET done == Append(completed, [value |-> r.value, target |-> r.target])
  IN /\ pending' = pending \ {r}
     /\ completed' = IF Len(done) > MaxCompleted THEN Tail(done) ELSE done

\* The dashboard keeps nothing on disk.
Restart ==
  /\ restarts < MaxRestarts
  /\ restarts' = restarts + 1
  /\ pending' = {} /\ completed' = <<>>
  /\ UNCHANGED <<lastId, asked, allowed, batch, ack>>

-----------------------------------------------------------------------------
(* The poller of a host.                                                   *)

\* fetchPendingUnblocks; a call that fails leaves everything as it was.
Fetch(h) ==
  /\ batch[h] = {} /\ ack[h] = 0
  /\ PendingFor(h) # {}
  /\ batch' = [batch EXCEPT ![h] = PendingFor(h)]
  /\ UNCHANGED <<pending, completed, lastId, asked, allowed, ack, restarts>>

\* applyUnblock: appended, and about to be acknowledged.
Apply(h, r) ==
  /\ ack[h] = 0
  /\ r \in batch[h] /\ r.value \in Acceptable
  /\ allowed' = [allowed EXCEPT ![h] = @ \cup {r.value}]
  /\ batch' = [batch EXCEPT ![h] = @ \ {r}]
  /\ ack' = [ack EXCEPT ![h] = r.id]
  /\ UNCHANGED <<pending, completed, lastId, asked, restarts>>

\* Defect: a request that cannot be applied is acknowledged all the same.
ApplyFails_AcksAnyway(h) ==
  /\ ack[h] = 0
  /\ \E r \in batch[h] :
       /\ batch' = [batch EXCEPT ![h] = @ \ {r}]
       /\ ack' = [ack EXCEPT ![h] = r.id]
  /\ UNCHANGED <<pending, completed, lastId, asked, allowed, restarts>>

\* applyUnblock fails, as it always does for a value that is not acceptable: on to
\* the next request of the batch.  The request stays pending.
ApplyFails(h) ==
  /\ ack[h] = 0
  /\ \E r \in batch[h] : batch' = [batch EXCEPT ![h] = @ \ {r}]
  /\ UNCHANGED <<pending, completed, lastId, asked, allowed, ack, restarts>>

\* acknowledgeUnblock reaches the dashboard.  What it answers (200, 404), and
\* whether the answer arrives, makes no difference but to the log.
Acked(h) ==
  /\ ack[h] # 0
  /\ \/ \E r \in pending : r.id = ack[h] /\ Acknowledge(r)
     \/ (\A r \in pending : r.id # ack[h]) /\ UNCHANGED <<pending, completed>>
  /\ ack' = [ack EXCEPT ![h] = 0]
  /\ UNCHANGED <<lastId, asked, allowed, batch, restarts>>

\* It does not reach the dashboard.
AckLost(h) ==
  /\ ack[h] # 0
  /\ ack' = [ack EXCEPT ![h] = 0]
  /\ UNCHANGED <<pending, completed, lastId, asked, allowed, batch, restarts>>

\* The host restarts; its policy file stays.
HostRestart(h) ==
  /\ batch[h] # {} \/ ack[h] # 0
  /\ batch' = [batch EXCEPT ![h] = {}]
  /\ ack' = [ack EXCEPT ![h] = 0]
  /\ UNCHANGED <<pending, completed, lastId, asked, allowed, restarts>>

ApplyAny(h) == \E r \in batch[h] : Apply(h, r)

Next ==
  \/ \E v \in Values, t \in Targets : Create(v, t)
  \/ Restart
  \/ \E h \in Hosts : \/ Fetch(h) \/ ApplyAny(h) \/ ApplyFails(h)
                      \/ Acked(h) \/ AckLost(h) \/ HostRestart(h)

Spec == Init /\ [][Next]_vars

\* Tickers fire and batches are worked through; fetches, appends of what is
\* acceptable and acknowledgements that keep being tried succeed some day.
Fairness ==
  \A h \in Hosts :
    /\ SF_vars(Fetch(h)) /\ WF_vars(ApplyAny(h) \/ ApplyFails(h)) /\ SF_vars(Acked(h))
    /\ \A v \in Acceptable, t \in {h, All} :
         SF_vars(\E r \in batch[h] : r.value = v /\ r.target = t /\ Apply(h, r))

FairSpec == Spec /\ Fairness

-----------------------------------------------------------------------------
(* Properties.                                                             *)

\* The hosts a target means.
Addressed(t) == IF t = All THEN Hosts ELSE {t}

\* With every host named, the files hold what was asked for, where it was asked.
ImplementsApprovals == INSTANCE Approvals

IsApproved == ImplementsApprovals!Spec

\* The dashboard shows a request as done only when a host it was for has applied
\* it, over lost and stale acknowledgements.
CompletedWasApplied ==
  \A i \in 1..Len(completed) :
    \E h \in Addressed(completed[i].target) : completed[i].value \in allowed[h]

\* What an administrator was told is queued is still queued, or applied at a
\* host it was for, as long as the dashboard has not restarted.
NothingForgotten ==
  restarts = 0 =>
    \A q \in asked :
      \/ \E r \in pending : r.value = q.value /\ r.target = q.target
      \/ \E h \in Addressed(q.target) : q.value \in allowed[h]

\* A request for one host gets into its policy file, if the file can list its
\* value.
ReachesItsHost ==
  \A v \in Acceptable, h \in Hosts :
    [value |-> v, target |-> h] \in asked ~> (v \in allowed[h] \/ restarts > 0)

\* Such a request is not pending for ever: its acknowledgement gets through, and
\* requests that fail at every poll do not keep it back.
PendingDrains ==
  \A v \in Acceptable, t \in Targets :
    (\E r \in pending : r.value = v /\ r.target = t)
      ~> (\A r \in pending : ~(r.value = v /\ r.target = t))

\* A request reaches the host, and its acknowledgement the dashboard.
RequestsSettle == ReachesItsHost /\ PendingDrains
=============================================================================
