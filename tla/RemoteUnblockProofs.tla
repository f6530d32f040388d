------------------------ MODULE RemoteUnblockProofs ------------------------
(***************************************************************************)
(* Proofs about RemoteUnblock, for any number of hosts, values, requests   *)
(* and restarts.                                                           *)
(*                                                                         *)
(* The pollers act on copies: the batch fetched some time ago, and the id  *)
(* of a request that may be gone, or acknowledged by another host.  The    *)
(* argument is that an id means the same request everywhere, so that what  *)
(* an acknowledgement removes is what the host has applied.                *)
(***************************************************************************)
EXTENDS RemoteUnblock, FiniteSetTheorems, TLAPS

\* Every host sends its name with its polls.
AllNamed == Named = Hosts

\* What a request was queued for.
AskOf(r) == [value |-> r.value, target |-> r.target]

\* The requests at the dashboard: their ids are theirs alone, and given out.
PendingOK ==
  /\ IsFiniteSet(pending)
  /\ \A r \in pending : r.id <= lastId /\ AskOf(r) \in asked
  /\ \A r, s \in pending : r.id = s.id => r = s

\* The copies at a host: meant for it, and the same as the originals.
BatchOK ==
  \A h \in Hosts : \A r \in batch[h] :
    /\ r.target \in {All, h}
    /\ r.id <= lastId /\ AskOf(r) \in asked
    /\ \A s \in pending : s.id = r.id => s = r

\* What a host is about to acknowledge, if it is still pending, is applied.
AckOK ==
  \A h \in Hosts :
    /\ ack[h] <= lastId
    /\ \A s \in pending : s.id = ack[h] => s.target \in {All, h} /\ s.value \in allowed[h]

IInv == TypeOK /\ PendingOK /\ BatchOK /\ AckOK /\ CompletedWasApplied

-----------------------------------------------------------------------------
(* The bounded list of completed requests.                                 *)

\* Appending to the list and cutting it to its last M entries keeps the bound
\* and adds no entry but the new one.
LEMMA BoundedAppend ==
  ASSUME NEW S, NEW s \in Seq(S), NEW q \in S, NEW M \in Nat \ {0}, Len(s) <= M,
         NEW t, t = IF Len(Append(s, q)) > M THEN Tail(Append(s, q)) ELSE Append(s, q)
  PROVE  /\ t \in Seq(S) /\ Len(t) <= M
         /\ \A i \in 1..Len(t) : t[i] = q \/ \E j \in 1..Len(s) : t[i] = s[j]
<1> DEFINE u == Append(s, q)
<1>1. u \in Seq(S) /\ Len(u) = Len(s) + 1 /\ Len(s) \in Nat
  OBVIOUS
<1>2. \A i \in 1..Len(u) : u[i] = q \/ \E j \in 1..Len(s) : u[i] = s[j]
  <2> SUFFICES ASSUME NEW i \in 1..Len(u)
               PROVE  u[i] = q \/ \E j \in 1..Len(s) : u[i] = s[j]
    OBVIOUS
  <2>1. CASE i = Len(s) + 1
    BY <2>1
  <2>2. CASE i \in 1..Len(s)
    BY <2>2
  <2> QED
    BY <1>1, <2>1, <2>2
<1>3. CASE Len(u) <= M
  <2>1. t = u
    BY <1>1, <1>3
  <2> HIDE DEF u
  <2> QED
    BY <1>1, <1>2, <1>3, <2>1
<1>4. CASE Len(u) > M
  <2>1. t = Tail(u)
    BY <1>4
  <2> HIDE DEF u
  <2>2. t \in Seq(S) /\ Len(t) = Len(u) - 1 /\ \A i \in 1..Len(t) : t[i] = u[i + 1]
    BY <1>1, <1>4, <2>1
  <2>3. \A i \in 1..Len(t) : i + 1 \in 1..Len(u)
    BY <1>1, <2>2
  <2> QED
    BY <1>1, <1>2, <2>2, <2>3
<1> QED
  BY <1>1, <1>3, <1>4

-----------------------------------------------------------------------------
(* The invariant.                                                          *)

LEMMA InitIInv == Init => IInv
<1> SUFFICES ASSUME Init PROVE IInv
  OBVIOUS
<1> USE BoundsAssumption
<1>1. IsFiniteSet({}) /\ Cardinality({}) = 0
  BY FS_EmptySet
<1>2. TypeOK
  BY <1>1 DEF Init, TypeOK
<1>3. PendingOK /\ BatchOK /\ AckOK
  BY <1>1 DEF Init, PendingOK, BatchOK, AckOK
<1>4. CompletedWasApplied
  BY DEF Init, CompletedWasApplied
<1> QED
  BY <1>2, <1>3, <1>4 DEF IInv

\* CompletedWasApplied is kept by a step that completes nothing and forgets
\* nothing that a host has applied.
LEMMA CompletedKept ==
  ASSUME TypeOK, CompletedWasApplied, completed' \in {completed, <<>>},
         \A h \in Hosts : allowed[h] \subseteq allowed'[h]
  PROVE  CompletedWasApplied'
<1>1. Addressed(All) = Hosts /\ \A t \in Hosts : Addressed(t) = {t}
  BY TargetsAssumption DEF Addressed
<1>2. CASE completed' = completed
  <2> SUFFICES ASSUME NEW i \in 1..Len(completed)
               PROVE  \E h \in Addressed(completed[i].target) : completed[i].value \in allowed'[h]
    BY <1>2 DEF CompletedWasApplied, Addressed
  <2>1. completed[i].target \in Target
    <3>1. completed[i] \in Ask
      BY DEF TypeOK
    <3> QED
      BY <3>1 DEF Ask
  <2>2. Addressed(completed[i].target) \subseteq Hosts
    BY <1>1, <2>1 DEF Target
  <2> QED
    BY <2>2 DEF CompletedWasApplied
<1>3. CASE completed' = <<>>
  BY <1>3 DEF CompletedWasApplied
<1> QED
  BY <1>2, <1>3

LEMMA CreateStep ==
  ASSUME IInv, NEW v \in Values, NEW t \in Targets, Create(v, t)
  PROVE  IInv'
<1> DEFINE n == [id |-> lastId + 1, value |-> v, target |-> t]
<1> USE BoundsAssumption
<1>1. lastId + 1 \in Ids /\ lastId \in Nat /\ t \in Target /\ lastId' = lastId + 1
  BY TargetsAssumption DEF IInv, TypeOK, Create, Ids, Target
<1>2. n \in Request /\ AskOf(n) = [value |-> v, target |-> t] /\ AskOf(n) \in Ask
  BY <1>1 DEF Request, Ask, AskOf
<1>3. pending' = pending \cup {n} /\ asked' = asked \cup {AskOf(n)}
  BY <1>1, <1>2 DEF Create
<1>4. n.id = lastId + 1
  OBVIOUS
<1>5. IsFiniteSet(pending') /\ Cardinality(pending') <= MaxPending
  <2>1. IsFiniteSet(pending) /\ Cardinality(pending) \in Nat /\ Cardinality(pending) < MaxPending
    BY FS_CardinalityType DEF IInv, PendingOK, Create
  <2>2. Cardinality(pending') \in {Cardinality(pending), Cardinality(pending) + 1} /\ IsFiniteSet(pending')
    BY <1>3, <2>1, FS_AddElement
  <2> QED
    BY <2>1, <2>2
<1> HIDE DEF n
<1>6. PendingOK'
  <2>1. \A r \in pending : r.id \in Nat /\ r.id <= lastId /\ AskOf(r) \in asked
    BY DEF IInv, TypeOK, PendingOK, Request, Ids
  <2>2. \A r \in pending' : r.id <= lastId' /\ AskOf(r) \in asked'
    BY <1>1, <1>3, <1>4, <2>1
  <2>3. \A r, s \in pending' : r.id = s.id => r = s
    BY <1>1, <1>3, <1>4, <2>1 DEF IInv, PendingOK
  <2> QED
    BY <1>5, <2>2, <2>3 DEF PendingOK, AskOf
<1>7. TypeOK'
  <2>1. pending' \subseteq Request /\ asked' \subseteq Ask /\ lastId' \in 0..MaxIds
    BY <1>1, <1>2, <1>3 DEF IInv, TypeOK, Ids
  <2>2. \A r, s \in pending' : r.id = s.id => r = s
    BY <1>6 DEF PendingOK
  <2> QED
    BY <1>5, <2>1, <2>2 DEF IInv, TypeOK, Create
<1>8. BatchOK'
  <2> SUFFICES ASSUME NEW h \in Hosts, NEW r \in batch[h]
               PROVE  /\ r.target \in {All, h}
                      /\ r.id <= lastId' /\ AskOf(r) \in asked'
                      /\ \A s \in pending' : s.id = r.id => s = r
    BY DEF Create, BatchOK, AskOf
  <2>1. r.id \in Nat /\ r.id <= lastId /\ AskOf(r) \in asked /\ r.target \in {All, h}
    BY DEF IInv, TypeOK, BatchOK, Request, Ids
  <2>2. \A s \in pending : s.id = r.id => s = r
    BY DEF IInv, BatchOK
  <2> QED
    BY <1>1, <1>3, <1>4, <2>1, <2>2
<1>9. AckOK'
  <2> SUFFICES ASSUME NEW h \in Hosts
               PROVE  /\ ack[h] <= lastId'
                      /\ \A s \in pending' : s.id = ack[h] => s.target \in {All, h} /\ s.value \in allowed[h]
    BY DEF Create, AckOK
  <2>1. ack[h] \in Nat /\ ack[h] <= lastId
    BY DEF IInv, TypeOK, AckOK
  <2>2. \A s \in pending : s.id = ack[h] => s.target \in {All, h} /\ s.value \in allowed[h]
    BY DEF IInv, AckOK
  <2> QED
    BY <1>1, <1>3, <1>4, <2>1, <2>2
<1>10. CompletedWasApplied'
  BY CompletedKept DEF IInv, Create
<1> QED
  BY <1>6, <1>7, <1>8, <1>9, <1>10 DEF IInv

LEMMA RestartStep ==
  ASSUME IInv, Restart
  PROVE  IInv'
<1> USE BoundsAssumption
<1>1. IsFiniteSet({}) /\ Cardinality({}) = 0
  BY FS_EmptySet
<1>2. TypeOK'
  BY <1>1 DEF IInv, TypeOK, Restart
<1>3. PendingOK' /\ BatchOK' /\ AckOK'
  BY <1>1 DEF IInv, PendingOK, BatchOK, AckOK, Restart, AskOf
<1>4. CompletedWasApplied'
  BY CompletedKept DEF IInv, Restart
<1> QED
  BY <1>2, <1>3, <1>4 DEF IInv

LEMMA FetchStep ==
  ASSUME AllNamed, IInv, NEW h \in Hosts, Fetch(h)
  PROVE  IInv'
<1>1. batch' = [batch EXCEPT ![h] = PendingFor(h)] /\ batch \in [Hosts -> SUBSET Request]
  BY DEF Fetch, IInv, TypeOK
<1>2. PendingFor(h) \subseteq pending /\ \A r \in PendingFor(h) : r.target \in {All, h}
  BY DEF AllNamed, PendingFor
<1>3. TypeOK'
  BY <1>1, <1>2 DEF IInv, TypeOK, Fetch
<1>4. PendingOK' /\ AckOK'
  BY DEF IInv, PendingOK, AckOK, Fetch, AskOf
<1>5. BatchOK'
  <2> SUFFICES ASSUME NEW k \in Hosts, NEW r \in batch'[k]
               PROVE  /\ r.target \in {All, k}
                      /\ r.id <= lastId /\ AskOf(r) \in asked
                      /\ \A s \in pending : s.id = r.id => s = r
    BY DEF Fetch, BatchOK, AskOf
  <2>1. CASE k = h
    BY <1>1, <1>2, <2>1 DEF IInv, PendingOK
  <2>2. CASE k # h
    BY <1>1, <2>2 DEF IInv, BatchOK
  <2> QED
    BY <2>1, <2>2
<1>6. CompletedWasApplied'
  BY CompletedKept DEF IInv, Fetch
<1> QED
  BY <1>3, <1>4, <1>5, <1>6 DEF IInv

LEMMA ApplyStep ==
  ASSUME IInv, NEW h \in Hosts, NEW r \in batch[h], Apply(h, r)
  PROVE  IInv'
<1>1. r \in Request /\ r.id \in 0..MaxIds /\ r.value \in Values
  BY BoundsAssumption DEF IInv, TypeOK, Request, Ids
<1>2. /\ allowed' = [allowed EXCEPT ![h] = allowed[h] \cup {r.value}]
      /\ batch' = [batch EXCEPT ![h] = batch[h] \ {r}]
      /\ ack' = [ack EXCEPT ![h] = r.id]
      /\ allowed \in [Hosts -> SUBSET Values] /\ batch \in [Hosts -> SUBSET Request]
      /\ ack \in [Hosts -> 0..MaxIds]
  BY DEF Apply, IInv, TypeOK
<1>3. TypeOK'
  BY <1>1, <1>2 DEF IInv, TypeOK, Apply
<1>4. PendingOK'
  BY DEF IInv, PendingOK, Apply, AskOf
<1>5. \A k \in Hosts : batch'[k] \subseteq batch[k] /\ allowed[k] \subseteq allowed'[k]
  BY <1>2
<1>6. BatchOK'
  BY <1>5 DEF IInv, BatchOK, Apply, AskOf
<1>7. AckOK'
  <2> SUFFICES ASSUME NEW k \in Hosts
               PROVE  /\ ack'[k] <= lastId
                      /\ \A s \in pending : s.id = ack'[k] => s.target \in {All, k} /\ s.value \in allowed'[k]
    BY DEF Apply, AckOK
  <2>1. CASE k = h
    <3>1. ack'[k] = r.id /\ r.value \in allowed'[k]
      BY <1>2, <2>1
    <3>2. r.target \in {All, k} /\ r.id <= lastId /\ \A s \in pending : s.id = r.id => s = r
      BY <2>1 DEF IInv, BatchOK
    <3> QED
      BY <3>1, <3>2
  <2>2. CASE k # h
    BY <1>2, <2>2 DEF IInv, AckOK
  <2> QED
    BY <2>1, <2>2
<1>8. CompletedWasApplied'
  BY <1>5, CompletedKept DEF IInv, Apply
<1> QED
  BY <1>3, <1>4, <1>6, <1>7, <1>8 DEF IInv

LEMMA ApplyFailsStep ==
  ASSUME IInv, NEW h \in Hosts, ApplyFails(h) \/ HostRestart(h) \/ AckLost(h)
  PROVE  IInv'
<1>1. batch \in [Hosts -> SUBSET Request] /\ ack \in [Hosts -> 0..MaxIds] /\ 0 \in 0..MaxIds
  BY BoundsAssumption DEF IInv, TypeOK
<1>2. /\ batch' \in [Hosts -> SUBSET Request] /\ \A k \in Hosts : batch'[k] \subseteq batch[k]
      /\ ack' \in [Hosts -> 0..MaxIds] /\ \A k \in Hosts : ack'[k] \in {ack[k], 0}
  BY <1>1 DEF ApplyFails, HostRestart, AckLost
<1>3. UNCHANGED <<pending, completed, lastId, asked, allowed, restarts>>
  BY DEF ApplyFails, HostRestart, AckLost
<1>4. TypeOK'
  BY <1>2, <1>3 DEF IInv, TypeOK
<1>5. PendingOK'
  BY <1>3 DEF IInv, PendingOK, AskOf
<1>6. BatchOK'
  BY <1>2, <1>3 DEF IInv, BatchOK, AskOf
<1>7. AckOK'
  <2>1. \A s \in pending : s.id # 0
    BY DEF IInv, TypeOK, Request, Ids
  <2>2. lastId \in Nat
    BY DEF IInv, TypeOK
  <2> QED
    BY <1>2, <1>3, <2>1, <2>2 DEF IInv, AckOK
<1>8. CompletedWasApplied'
  BY <1>3, CompletedKept DEF IInv
<1> QED
  BY <1>4, <1>5, <1>6, <1>7, <1>8 DEF IInv

LEMMA AckedStep ==
  ASSUME IInv, NEW h \in Hosts, Acked(h)
  PROVE  IInv'
<1>1. /\ ack' = [ack EXCEPT ![h] = 0] /\ ack \in [Hosts -> 0..MaxIds] /\ 0 \in 0..MaxIds
      /\ UNCHANGED <<lastId, asked, allowed, batch, restarts>>
  BY BoundsAssumption DEF Acked, IInv, TypeOK
<1>2. /\ pending' \subseteq pending /\ IsFiniteSet(pending')
      /\ Cardinality(pending') <= MaxPending
  <2>1. pending' \subseteq pending
    BY DEF Acked, Acknowledge
  <2>2. IsFiniteSet(pending) /\ Cardinality(pending) <= MaxPending
    BY DEF IInv, TypeOK, PendingOK
  <2>3. IsFiniteSet(pending') /\ Cardinality(pending') <= Cardinality(pending)
    BY <2>1, <2>2, FS_Subset
  <2>4. Cardinality(pending) \in Nat /\ Cardinality(pending') \in Nat
    BY <2>2, <2>3, FS_CardinalityType
  <2> QED
    BY <2>1, <2>2, <2>3, <2>4, BoundsAssumption
<1>3. /\ completed' \in Seq(Ask) /\ Len(completed') <= MaxCompleted
      /\ CompletedWasApplied'
  <2>1. CASE UNCHANGED completed
    BY <1>1, <2>1, CompletedKept DEF IInv, TypeOK
  <2>2. ASSUME NEW r \in pending, r.id = ack[h], Acknowledge(r)
        PROVE  /\ completed' \in Seq(Ask) /\ Len(completed') <= MaxCompleted
               /\ CompletedWasApplied'
    <3>1. r \in Request /\ AskOf(r) \in Ask
      BY DEF IInv, TypeOK, Request, Ask, AskOf
    <3>2. completed \in Seq(Ask) /\ Len(completed) <= MaxCompleted /\ MaxCompleted \in Nat \ {0}
      BY BoundsAssumption DEF IInv, TypeOK
    <3>3. completed' = IF Len(Append(completed, AskOf(r))) > MaxCompleted
                       THEN Tail(Append(completed, AskOf(r))) ELSE Append(completed, AskOf(r))
      BY <2>2 DEF Acknowledge, AskOf
    <3>4. /\ completed' \in Seq(Ask) /\ Len(completed') <= MaxCompleted
          /\ \A i \in 1..Len(completed') :
               completed'[i] = AskOf(r) \/ \E j \in 1..Len(completed) : completed'[i] = completed[j]
      BY <3>1, <3>2, <3>3, BoundedAppend
    <3>5. r.target \in {All, h} /\ r.value \in allowed[h]
      BY <2>2 DEF IInv, AckOK
    <3>6. h \in Addressed(AskOf(r).target) /\ AskOf(r).value \in allowed[h]
      BY <3>5 DEF Addressed, AskOf
    <3>7. \A j \in 1..Len(completed) :
            \E k \in Addressed(completed[j].target) : completed[j].value \in allowed[k]
      BY DEF IInv, CompletedWasApplied
    <3>8. \A i \in 1..Len(completed') :
            \E k \in Addressed(completed'[i].target) : completed'[i].value \in allowed[k]
      <4> SUFFICES ASSUME NEW i \in 1..Len(completed')
                   PROVE  \E k \in Addressed(completed'[i].target) : completed'[i].value \in allowed[k]
        OBVIOUS
      <4>1. CASE completed'[i] = AskOf(r)
        BY <3>6, <4>1
      <4>2. ASSUME NEW j \in 1..Len(completed), completed'[i] = completed[j]
            PROVE  \E k \in Addressed(completed'[i].target) : completed'[i].value \in allowed[k]
        BY <3>7, <4>2
      <4> QED
        BY <3>4, <4>1, <4>2
    <3> QED
      BY <1>1, <3>4, <3>8 DEF CompletedWasApplied, Addressed
  <2> QED
    BY <2>1, <2>2 DEF Acked
<1>4. TypeOK'
  BY <1>1, <1>2, <1>3 DEF IInv, TypeOK
<1>5. PendingOK' /\ BatchOK'
  BY <1>1, <1>2 DEF IInv, PendingOK, BatchOK, AskOf
<1>6. AckOK'
  <2>1. \A s \in pending : s.id # 0
    BY DEF IInv, TypeOK, Request, Ids
  <2>2. lastId \in Nat /\ \A k \in Hosts : ack'[k] \in {ack[k], 0}
    BY <1>1 DEF IInv, TypeOK
  <2> QED
    BY <1>1, <1>2, <2>1, <2>2 DEF IInv, AckOK
<1> QED
  BY <1>3, <1>4, <1>5, <1>6 DEF IInv

-----------------------------------------------------------------------------
(* The theorems.                                                           *)

\* No action, of the dashboard or of any host, leaves the invariant.
LEMMA NextIInv == ASSUME AllNamed, IInv, [Next]_vars PROVE IInv'
<1>1. CASE UNCHANGED vars
  BY <1>1 DEF vars, IInv, TypeOK, PendingOK, BatchOK, AckOK, AskOf, CompletedWasApplied, Addressed
<1>2. ASSUME NEW v \in Values, NEW t \in Targets, Create(v, t) PROVE IInv'
  BY <1>2, CreateStep
<1>3. CASE Restart
  BY <1>3, RestartStep
<1>4. ASSUME NEW h \in Hosts,
             Fetch(h) \/ ApplyAny(h) \/ ApplyFails(h) \/ Acked(h) \/ AckLost(h) \/ HostRestart(h)
      PROVE IInv'
  BY <1>4, FetchStep, ApplyStep, ApplyFailsStep, AckedStep DEF ApplyAny
<1> QED
  BY <1>1, <1>2, <1>3, <1>4 DEF Next

LEMMA Invariance == AllNamed /\ Spec => []IInv
<1>1. SUFFICES ASSUME AllNamed PROVE Spec => []IInv
  OBVIOUS
<1>2. Init => IInv
  BY InitIInv
<1>3. IInv /\ [Next]_vars => IInv'
  BY <1>1, NextIInv
<1> QED
  BY <1>2, <1>3, PTL DEF Spec

\* Types, the bounds of the store, and ids that are never shared.
THEOREM Typed == AllNamed /\ Spec => []TypeOK
<1>1. IInv => TypeOK
  BY DEF IInv
<1> QED
  BY <1>1, Invariance, PTL

\* Whatever is lost, repeated, restarted or late, a request the dashboard shows
\* as completed has been applied by a host it was for (memUnblockStore,
\* processUnblockBatch).
THEOREM CompletedApplied == AllNamed /\ Spec => []CompletedWasApplied
<1>1. IInv => CompletedWasApplied
  BY DEF IInv
<1> QED
  BY <1>1, Invariance, PTL

-----------------------------------------------------------------------------
(* What was queued.                                                        *)

\* A request is queued or applied: only an acknowledgement takes it out of the
\* queue, and AckOK says that the value is in the policy file by then.
LEMMA NextNothingForgotten ==
  ASSUME IInv, NothingForgotten, [Next]_vars
  PROVE  NothingForgotten'
<1> SUFFICES ASSUME restarts' = 0, NEW q \in asked'
             PROVE  \/ \E r \in pending' : r.value = q.value /\ r.target = q.target
                    \/ \E h \in Addressed(q.target) : q.value \in allowed'[h]
  BY DEF NothingForgotten, Addressed
<1>1. restarts = 0 /\ UNCHANGED restarts
  <2>1. restarts \in Nat
    BY BoundsAssumption DEF IInv, TypeOK
  <2>2. restarts' \in {restarts, restarts + 1} /\ (restarts' = restarts + 1 \/ UNCHANGED restarts)
    BY <2>1 DEF Next, vars, Create, Restart, Fetch, ApplyAny, Apply, ApplyFails, Acked, AckLost, HostRestart
  <2> QED
    BY <2>1, <2>2
<1>2. ~Restart
  <2>1. restarts \in Nat
    BY BoundsAssumption DEF IInv, TypeOK
  <2> QED
    BY <1>1, <2>1 DEF Restart
<1>3. \A h \in Hosts : allowed[h] \subseteq allowed'[h]
  BY DEF IInv, TypeOK, Next, vars, Create, Restart, Fetch, ApplyAny, Apply, ApplyFails, Acked, AckLost, HostRestart
<1>4. \A k \in asked :
        \/ \E r \in pending : r.value = k.value /\ r.target = k.target
        \/ \E h \in Addressed(k.target) : k.value \in allowed'[h]
  <2>1. \A k \in asked : Addressed(k.target) \subseteq Hosts
    BY DEF IInv, TypeOK, Ask, Target, Addressed
  <2> QED
    BY <1>1, <1>3, <2>1 DEF NothingForgotten
<1>5. CASE pending \subseteq pending' /\ asked' = asked
  BY <1>4, <1>5
<1>6. ASSUME NEW v \in Values, NEW t \in Targets, Create(v, t)
      PROVE  \/ \E r \in pending' : r.value = q.value /\ r.target = q.target
             \/ \E h \in Addressed(q.target) : q.value \in allowed'[h]
  <2>1. PICK n : pending' = pending \cup {n} /\ n = [id |-> lastId', value |-> v, target |-> t]
    BY <1>6 DEF Create
  <2>2. q \in asked \/ (q.value = v /\ q.target = t)
    BY <1>6 DEF Create
  <2>3. pending \subseteq pending' /\ n \in pending' /\ n.value = v /\ n.target = t
    BY <2>1
  <2> QED
    BY <1>4, <2>2, <2>3
<1>7. ASSUME NEW h \in Hosts, Acked(h)
      PROVE  \/ \E r \in pending' : r.value = q.value /\ r.target = q.target
             \/ \E k \in Addressed(q.target) : q.value \in allowed'[k]
  <2>1. q \in asked /\ allowed' = allowed
    BY <1>7 DEF Acked
  <2>2. CASE pending' = pending
    BY <1>4, <2>1, <2>2
  <2>3. ASSUME NEW r \in pending, r.id = ack[h], pending' = pending \ {r}
        PROVE  \/ \E s \in pending' : s.value = q.value /\ s.target = q.target
               \/ \E k \in Addressed(q.target) : q.value \in allowed'[k]
    <3>1. r.target \in {All, h} /\ r.value \in allowed[h]
      BY <2>3 DEF IInv, AckOK
    <3>2. h \in Addressed(r.target)
      BY <3>1 DEF Addressed
    <3>3. CASE r.value = q.value /\ r.target = q.target
      BY <2>1, <3>1, <3>2, <3>3
    <3>4. CASE ~(r.value = q.value /\ r.target = q.target)
      BY <1>4, <2>1, <2>3, <3>4
    <3> QED
      BY <3>3, <3>4
  <2> QED
    BY <1>7, <2>2, <2>3 DEF Acked, Acknowledge
<1>8. ASSUME NEW h \in Hosts, Fetch(h) \/ ApplyAny(h) \/ ApplyFails(h) \/ AckLost(h) \/ HostRestart(h)
      PROVE  pending' = pending /\ asked' = asked
  BY <1>8 DEF Fetch, ApplyAny, Apply, ApplyFails, AckLost, HostRestart
<1>9. CASE UNCHANGED vars
  BY <1>5, <1>9 DEF vars
<1> QED
  BY <1>2, <1>5, <1>6, <1>7, <1>8, <1>9 DEF Next

\* What an administrator was told is queued is still queued, or applied at a
\* host it was for, until the dashboard restarts (memUnblockStore.Acknowledge).
THEOREM Remembered == AllNamed /\ Spec => []NothingForgotten
<1>1. Init => NothingForgotten
  BY DEF Init, NothingForgotten
<1>2. IInv /\ NothingForgotten /\ [Next]_vars => NothingForgotten'
  BY NextNothingForgotten
<1> QED
  BY <1>1, <1>2, Invariance, PTL DEF Spec

-----------------------------------------------------------------------------
(* The refinement.                                                         *)

\* Every step of the dashboard and of the pollers is a step of Approvals, or
\* changes nothing there.
LEMMA StepApproved ==
  ASSUME IInv, [Next]_vars
  PROVE  [ImplementsApprovals!Ask \/ \E h \in Hosts : ImplementsApprovals!Unblock(h)]_<<asked, allowed>>
<1>1. CASE UNCHANGED <<asked, allowed>>
  BY <1>1
<1>2. ASSUME NEW v \in Values, NEW t \in Targets, Create(v, t)
      PROVE  ImplementsApprovals!Ask
  BY <1>2, TargetsAssumption DEF Create, ImplementsApprovals!Ask
<1>3. ASSUME NEW h \in Hosts, NEW r \in batch[h], Apply(h, r)
      PROVE  ImplementsApprovals!Unblock(h)
  <2>1. r.target \in {All, h} /\ AskOf(r) \in asked
    BY DEF IInv, BatchOK
  <2>2. AskOf(r).target = r.target /\ AskOf(r).value = r.value
    BY DEF AskOf
  <2>3. allowed' = [allowed EXCEPT ![h] = @ \cup {AskOf(r).value}] /\ asked' = asked
    BY <1>3, <2>2 DEF Apply
  <2> QED
    BY <2>1, <2>2, <2>3 DEF ImplementsApprovals!Unblock
<1>4. CASE Restart
  BY <1>1, <1>4 DEF Restart
<1>5. ASSUME NEW h \in Hosts,
             Fetch(h) \/ ApplyFails(h) \/ Acked(h) \/ AckLost(h) \/ HostRestart(h)
      PROVE  UNCHANGED <<asked, allowed>>
  BY <1>5 DEF Fetch, ApplyFails, Acked, AckLost, HostRestart
<1>6. CASE UNCHANGED vars
  BY <1>1, <1>6 DEF vars
<1> QED
  BY <1>1, <1>2, <1>3, <1>4, <1>5, <1>6 DEF Next, ApplyAny

\* Remote unblock implements Approvals: over lost calls, restarts and stale
\* batches, a host appends only values that were asked for on it or on all.
THEOREM OnlyApproved == AllNamed /\ Spec => IsApproved
<1>1. Init => ImplementsApprovals!Init
  BY DEF Init, ImplementsApprovals!Init
<1>2. IInv /\ [Next]_vars
        => [ImplementsApprovals!Ask \/ \E h \in Hosts : ImplementsApprovals!Unblock(h)]_<<asked, allowed>>
  BY StepApproved
<1> QED
  BY <1>1, <1>2, Invariance, PTL DEF Spec, IsApproved, ImplementsApprovals!Spec, ImplementsApprovals!vars
=============================================================================
