------------------------- MODULE ResolvedSetProofs -------------------------
(***************************************************************************)
(* Proofs about ResolvedSet, for any number of concurrent queries,         *)
(* addresses, domains and reloads, and commands that fail at any point.    *)
(*                                                                         *)
(* The invariant follows an address from the moment a handler is through   *)
(* with it, before the answer: that is when the promise to the client      *)
(* begins, and other handlers may delete the element from then on.         *)
(***************************************************************************)
EXTENDS ResolvedSet, TLAPS

Running == {"add", "delete", "readd"}

\* Address i is open for t at least, or is being refreshed, or is known to have
\* been lost.
Covered(i, t) ==
  \/ left[i] >= t
  \/ i \in lost
  \/ \E h \in Handlers : ip[h] = i /\ pc[h] = "readd"

\* What a handler is about to answer holds for the floor; an idle one is about
\* to answer nothing.
DueOK ==
  \A h \in Handlers :
    /\ pc[h] = "idle" => due[h] = {}
    /\ \A i \in due[h] : Covered(i, Floor)

\* A handler is busy with a domain its group permits, and its commands are under
\* a context that was alive when the ruleset was installed, or later.
HandlerOK ==
  \A h \in Handlers :
    /\ pc[h] # "idle" => domain[h] \in groups[group[h]]
    /\ pc[h] \in Running => group[h] >= since

\* A restart that is due stays within the bound.
BoundOK == behind => Len(groups) <= MaxReloads

IInv == TypeOK /\ BoundOK /\ DueOK /\ HandlerOK /\ AnsweredIsOpen /\ OpenIsRecent

-----------------------------------------------------------------------------
\* clampTTL is between the floor and the ceiling.
LEMMA Clamped == \A t \in TTLs : Clamp(t) \in 0..Ceiling /\ Clamp(t) >= Floor /\ Clamp(t) > 0
  BY TimesAssumption DEF Clamp

LEMMA InitIInv == Init => IInv
<1> SUFFICES ASSUME Init PROVE IInv
  OBVIOUS
<1>1. TypeOK
  <2>1. groups \in Seq(Policies) /\ Len(groups) = 1
    BY DEF Init
  <2>2. (CHOOSE d \in Domains : TRUE) \in Domains /\ (CHOOSE i \in Ips : TRUE) \in Ips
        /\ (CHOOSE t \in TTLs : TRUE) \in TTLs
    BY NonEmptyAssumption
  <2>3. 1 \in 1..(MaxReloads + 1) /\ 1 \in 1..1 /\ 0 \in 0..Ceiling /\ 0 \in 0..Floor
    BY TimesAssumption, BoundsAssumption
  <2>4. behind \in BOOLEAN
    BY DEF Init
  <2> QED
    BY <2>1, <2>2, <2>3, <2>4 DEF Init, TypeOK
<1>2. BoundOK /\ DueOK /\ HandlerOK
  BY DEF Init, BoundOK, DueOK, HandlerOK, Running
<1>3. AnsweredIsOpen /\ OpenIsRecent
  BY DEF Init, AnsweredIsOpen, OpenIsRecent
<1> QED
  BY <1>1, <1>2, <1>3 DEF IInv

\* Whatever touches the set keeps an address covered: it is opened for the floor
\* at least, or its handler goes on to add it again, or gives up and says so.
LEMMA SetStep ==
  ASSUME IInv, NEW h \in Handlers, Add(h) \/ Delete(h) \/ Readd(h) \/ Killed(h)
  PROVE  IInv'
<1> USE TimesAssumption
<1> DEFINE i == ip[h]
<1>0. /\ i \in Ips /\ ttl[h] \in TTLs /\ domain[h] \in Domains /\ pc[h] \in Running
      /\ pc \in [Handlers -> {"idle", "next", "add", "delete", "readd"}]
      /\ left \in [Ips -> 0..Ceiling] /\ opened \in [Ips -> Domains]
      /\ due \in [Handlers -> SUBSET Ips] /\ lost \subseteq Ips /\ owed \in [Ips -> 0..Floor]
  BY DEF IInv, TypeOK, Add, Delete, Readd, Killed, Running
<1>1. /\ UNCHANGED <<policyVars, group, domain, ttl, todo, ip, owed>>
      /\ \/ /\ left' = [left EXCEPT ![i] = Clamp(ttl[h])] /\ opened' = [opened EXCEPT ![i] = domain[h]]
         \/ /\ left' \in {left, [left EXCEPT ![i] = 0]} /\ opened' = opened
      /\ \/ /\ left'[i] = Clamp(ttl[h]) \/ i \in lost'
            /\ lost' \in {lost \ {i}, lost \cup {i}} /\ pc' = [pc EXCEPT ![h] = "next"]
            /\ due' = [due EXCEPT ![h] = @ \cup {i}]
         \/ /\ pc[h] = "add" /\ left'[i] \in {left[i], Clamp(ttl[h])}
            /\ lost' = lost /\ pc' = [pc EXCEPT ![h] = "delete"] /\ due' = due
         \/ /\ pc[h] = "delete"
            /\ lost' = lost /\ pc' = [pc EXCEPT ![h] = "readd"] /\ due' = due
  BY <1>0 DEF Add, Delete, Readd, Killed, Put, Open, Start, GiveUp, Done
<1>2. Clamp(ttl[h]) \in 0..Ceiling /\ Clamp(ttl[h]) >= Floor /\ Clamp(ttl[h]) > 0
  BY <1>0, Clamped
<1> HIDE DEF i
<1>3. left' \in [Ips -> 0..Ceiling] /\ opened' \in [Ips -> Domains] /\ lost' \subseteq Ips
      /\ pc' \in [Handlers -> {"idle", "next", "add", "delete", "readd"}]
      /\ due' \in [Handlers -> SUBSET Ips]
  BY <1>0, <1>1, <1>2
<1>4. TypeOK'
  BY <1>1, <1>3 DEF IInv, TypeOK, policyVars
<1>5. \A j \in Ips, t \in 0..Floor : Covered(j, t) => Covered(j, t)'
  <2> SUFFICES ASSUME NEW j \in Ips, NEW t \in 0..Floor, Covered(j, t)
               PROVE  Covered(j, t)'
    OBVIOUS
  <2>1. CASE j # i
    <3>1. left'[j] = left[j] /\ (j \in lost => j \in lost') /\ ip' = ip
      BY <1>0, <1>1, <2>1
    <3>2. \A k \in Handlers : ip[k] = j => pc'[k] = pc[k]
      BY <1>0, <1>1, <2>1 DEF i
    <3> QED
      BY <3>1, <3>2 DEF Covered
  <2>2. CASE j = i
    <3>1. left'[i] = left[i] \/ left'[i] = Clamp(ttl[h]) \/ i \in lost' \/ pc'[h] = "readd"
      BY <1>0, <1>1
    <3>2. CASE left'[i] = Clamp(ttl[h])
      BY <1>2, <2>2, <3>2 DEF Covered
    <3>3. CASE i \in lost' \/ pc'[h] = "readd"
      BY <1>1, <2>2, <3>3 DEF Covered, i
    <3>4. CASE left'[i] = left[i] /\ i \notin lost' /\ pc'[h] # "readd" /\ left'[i] # Clamp(ttl[h])
      <4>1. pc[h] = "add" /\ pc'[h] = "delete" /\ lost' = lost /\ ip' = ip
        BY <1>0, <1>1, <3>4
      <4>2. \A k \in Handlers : pc[k] = "readd" => pc'[k] = "readd"
        BY <1>0, <1>1, <4>1
      <4> QED
        BY <2>2, <3>4, <4>1, <4>2 DEF Covered
    <3> QED
      BY <3>1, <3>2, <3>3, <3>4
  <2> QED
    BY <2>1, <2>2
<1>6. due' # due => left'[i] >= Floor \/ i \in lost'
  <2>1. due' # due => left'[i] = Clamp(ttl[h]) \/ i \in lost'
    BY <1>0, <1>1
  <2> QED
    BY <1>2, <2>1
<1>7. DueOK'
  <2> SUFFICES ASSUME NEW k \in Handlers
               PROVE  /\ pc'[k] = "idle" => due'[k] = {}
                      /\ \A j \in due'[k] : Covered(j, Floor)'
    BY DEF DueOK, Covered
  <2>1. pc'[k] = "idle" => due'[k] = {}
    BY <1>0, <1>1 DEF IInv, DueOK, Running
  <2>2. ASSUME NEW j \in due'[k] PROVE Covered(j, Floor)'
    <3>1. CASE j \in due[k]
      BY <1>0, <1>5, <3>1 DEF IInv, DueOK
    <3>2. CASE j \notin due[k]
      <4>1. j = i /\ due' # due
        BY <1>0, <1>1, <2>2, <3>2
      <4>2. left'[j] >= Floor \/ j \in lost'
        BY <1>6, <4>1
      <4> QED
        BY <4>2 DEF Covered
    <3> QED
      BY <3>1, <3>2
  <2> QED
    BY <2>1, <2>2
<1>8. HandlerOK'
  <2>1. \A k \in Handlers : (pc'[k] \in Running => pc[k] \in Running) /\ (pc'[k] # "idle" => pc[k] # "idle")
    BY <1>0, <1>1 DEF Running
  <2> QED
    BY <1>1, <2>1 DEF IInv, HandlerOK, policyVars
<1>9. AnsweredIsOpen'
  <2> SUFFICES ASSUME NEW j \in Ips, owed'[j] > 0
               PROVE  Covered(j, owed[j])'
    BY <1>1 DEF AnsweredIsOpen, Covered
  <2>1. Covered(j, owed[j]) /\ owed[j] \in 0..Floor
    BY <1>0, <1>1 DEF IInv, AnsweredIsOpen, Covered
  <2>2. owed'[j] = owed[j]
    BY <1>1
  <2> QED
    BY <1>1, <1>5, <2>1, <2>2 DEF Covered
<1>10. OpenIsRecent'
  <2> SUFFICES ASSUME NEW j \in Ips, left'[j] > 0
               PROVE  \E g \in since..Len(groups) : opened'[j] \in groups[g]
    BY <1>1 DEF OpenIsRecent, policyVars
  <2>1. CASE left[j] > 0 /\ opened'[j] = opened[j]
    BY <2>1 DEF IInv, OpenIsRecent
  <2>2. CASE ~(left[j] > 0 /\ opened'[j] = opened[j])
    <3>1. opened'[j] = domain[h]
      BY <1>0, <1>1, <2>2
    <3>2. domain[h] \in groups[group[h]] /\ group[h] >= since
      BY <1>0 DEF IInv, HandlerOK, Running
    <3>3. group[h] \in 1..Len(groups) /\ since \in 1..Len(groups) /\ Len(groups) \in Nat
      BY DEF IInv, TypeOK
    <3>4. group[h] \in since..Len(groups)
      BY <3>2, <3>3
    <3> QED
      BY <3>1, <3>2, <3>4
  <2> QED
    BY <2>1, <2>2
<1>11. BoundOK'
  BY <1>1 DEF IInv, BoundOK, policyVars
<1> QED
  BY <1>11, <1>4, <1>7, <1>8, <1>9, <1>10 DEF IInv

LEMMA QueryStep ==
  ASSUME IInv, NEW h \in Handlers, Query(h)
  PROVE  IInv'
<1>0. /\ UNCHANGED <<enforced, groups, behind, since, left, opened, lost, ip, owed>>
      /\ pc[h] = "idle" /\ pc' = [pc EXCEPT ![h] = "next"] /\ due' = [due EXCEPT ![h] = {}]
      /\ group' = [group EXCEPT ![h] = Len(groups)]
  BY DEF Query, policyVars, setVars
<1>1. PICK d \in groups[Len(groups)] : domain' = [domain EXCEPT ![h] = d]
  BY DEF Query
<1>2. Len(groups) \in 1..Len(groups) /\ groups[Len(groups)] \in Policies /\ d \in Domains
  BY PoliciesAssumption DEF IInv, TypeOK
<1>3. TypeOK'
  BY <1>0, <1>1, <1>2 DEF IInv, TypeOK, Query
<1>4. \A k \in Handlers : pc[k] = "readd" => pc'[k] = "readd"
  BY <1>0 DEF IInv, TypeOK
<1>5. DueOK'
  BY <1>0, <1>4 DEF IInv, TypeOK, DueOK, Covered
<1>6. HandlerOK'
  BY <1>0, <1>1 DEF IInv, TypeOK, HandlerOK, Running
<1>7. AnsweredIsOpen'
  BY <1>0, <1>4 DEF IInv, AnsweredIsOpen
<1>8. OpenIsRecent'
  BY <1>0 DEF IInv, OpenIsRecent
<1>9. BoundOK'
  BY <1>0 DEF IInv, BoundOK
<1> QED
  BY <1>3, <1>5, <1>6, <1>7, <1>8, <1>9 DEF IInv

LEMMA BeginStep ==
  ASSUME IInv, NEW h \in Handlers, NEW i \in Ips, Begin(h, i)
  PROVE  IInv'
<1>0. /\ UNCHANGED <<enforced, groups, behind, since, left, opened, group, domain, ttl, owed>>
      /\ pc[h] = "next" /\ ip' = [ip EXCEPT ![h] = i] /\ todo' = [todo EXCEPT ![h] = @ \ {i}]
      /\ \/ Alive(h) /\ pc' = [pc EXCEPT ![h] = "add"] /\ lost' = lost /\ due' = due
         \/ pc' = pc /\ lost' = lost \cup {i} /\ due' = [due EXCEPT ![h] = @ \cup {i}]
  BY DEF Begin, policyVars
<1>1. TypeOK'
  <2>1. /\ pc' \in [Handlers -> {"idle", "next", "add", "delete", "readd"}]
        /\ ip' \in [Handlers -> Ips] /\ lost' \subseteq Ips
    BY <1>0 DEF IInv, TypeOK
  <2>2. todo \in [Handlers -> SUBSET Ips] /\ due \in [Handlers -> SUBSET Ips]
    BY DEF IInv, TypeOK
  <2>3. todo' \in [Handlers -> SUBSET Ips]
    BY <1>0, <2>2
  <2>4. due[h] \cup {i} \in SUBSET Ips
    BY <2>2
  <2>5. due' \in [Handlers -> SUBSET Ips]
    BY <1>0, <2>2, <2>4
  <2> QED
    BY <1>0, <2>1, <2>3, <2>5 DEF IInv, TypeOK
<1>2. \A k \in Handlers : pc[k] = "readd" => pc'[k] = "readd" /\ ip'[k] = ip[k]
  BY <1>0 DEF IInv, TypeOK
<1>3. \A j \in Ips : \A k \in Handlers : j \in due'[k] => j \in due[k] \/ j \in lost'
  <2>1. due \in [Handlers -> SUBSET Ips]
    BY DEF IInv, TypeOK
  <2>2. CASE lost' = lost /\ due' = due
    BY <2>2
  <2>3. CASE lost' = lost \cup {i} /\ due' = [due EXCEPT ![h] = @ \cup {i}]
    BY <2>1, <2>3
  <2>4. QED
    BY <1>0, <2>2, <2>3
<1>4. DueOK'
  <2>1. \A k \in Handlers : pc'[k] = "idle" => due'[k] = {}
    BY <1>0 DEF IInv, TypeOK, DueOK
  <2>2. \A k \in Handlers : due'[k] \subseteq Ips
    BY <1>1 DEF TypeOK
  <2> QED
    BY <1>0, <1>2, <1>3, <2>1, <2>2 DEF IInv, DueOK, Covered
<1>5. HandlerOK'
  <2>1. since <= Len(groups) /\ pc \in [Handlers -> {"idle", "next", "add", "delete", "readd"}]
    BY DEF IInv, TypeOK
  <2> QED
    BY <1>0, <2>1 DEF IInv, HandlerOK, Running, Alive
<1>6. AnsweredIsOpen'
  BY <1>0, <1>2 DEF IInv, AnsweredIsOpen
<1>7. OpenIsRecent'
  BY <1>0 DEF IInv, OpenIsRecent
<1>9. BoundOK'
  BY <1>0 DEF IInv, BoundOK
<1> QED
  BY <1>1, <1>4, <1>5, <1>6, <1>7, <1>9 DEF IInv

LEMMA AnswerStep ==
  ASSUME IInv, NEW h \in Handlers, Answer(h)
  PROVE  IInv'
<1>0. /\ UNCHANGED <<enforced, groups, behind, since, left, opened, lost, group, domain, ttl, todo, ip>>
      /\ pc[h] = "next" /\ pc' = [pc EXCEPT ![h] = "idle"] /\ due' = [due EXCEPT ![h] = {}]
      /\ owed' = [i \in Ips |-> IF i \in due[h] THEN Floor ELSE owed[i]]
  BY DEF Answer, policyVars, setVars
<1>1. TypeOK'
  BY <1>0, TimesAssumption DEF IInv, TypeOK
<1>2. \A k \in Handlers : pc[k] = "readd" => pc'[k] = "readd"
  BY <1>0 DEF IInv, TypeOK
<1>3. DueOK'
  BY <1>0, <1>2 DEF IInv, TypeOK, DueOK, Covered
<1>4. HandlerOK'
  BY <1>0 DEF IInv, TypeOK, HandlerOK, Running
<1>5. AnsweredIsOpen'
  <2> SUFFICES ASSUME NEW i \in Ips, owed'[i] > 0 
               PROVE  \/ left[i] >= owed'[i]
                      \/ i \in lost
                      \/ \E k \in Handlers : ip[k] = i /\ pc'[k] = "readd"
    BY <1>0 DEF AnsweredIsOpen
  <2>1. CASE i \in due[h]
    <3>1. owed'[i] = Floor /\ Covered(i, Floor)
      BY <1>0, <2>1 DEF IInv, DueOK
    <3> QED
      BY <1>0, <1>2, <3>1 DEF Covered
  <2>2. CASE i \notin due[h]
    <3>1. owed'[i] = owed[i]
      BY <1>0, <2>2
    <3>2. Covered(i, owed[i])
      BY <3>1 DEF IInv, AnsweredIsOpen, Covered
    <3> QED
      BY <1>0, <1>2, <3>1, <3>2 DEF Covered
  <2> QED
    BY <2>1, <2>2
<1>6. OpenIsRecent'
  BY <1>0 DEF IInv, OpenIsRecent
<1>9. BoundOK'
  BY <1>0 DEF IInv, BoundOK
<1> QED
  BY <1>1, <1>3, <1>4, <1>5, <1>6, <1>9 DEF IInv

LEMMA ElapseStep ==
  ASSUME IInv, Elapse
  PROVE  IInv'
<1> USE TimesAssumption
<1>0. /\ UNCHANGED <<enforced, groups, behind, since, opened, lost, pc, group, domain, ttl, todo, ip, due>>
      /\ \A h \in Handlers : pc[h] = "idle"
      /\ left' = [i \in Ips |-> IF left[i] > 0 THEN left[i] - 1 ELSE 0]
      /\ owed' = [i \in Ips |-> IF owed[i] > 0 THEN owed[i] - 1 ELSE 0]
  BY DEF Elapse, policyVars
<1>1. left \in [Ips -> 0..Ceiling] /\ owed \in [Ips -> 0..Floor]
  BY DEF IInv, TypeOK
<1>2. TypeOK'
  <2>1. left' \in [Ips -> 0..Ceiling] /\ owed' \in [Ips -> 0..Floor]
    BY <1>0, <1>1
  <2> QED
    BY <1>0, <2>1 DEF IInv, TypeOK
<1>3. BoundOK' /\ DueOK' /\ HandlerOK'
  BY <1>0 DEF IInv, BoundOK, DueOK, HandlerOK, Running
<1>4. AnsweredIsOpen'
  <2> SUFFICES ASSUME NEW i \in Ips, owed'[i] > 0 PROVE left'[i] >= owed'[i] \/ i \in lost
    BY <1>0 DEF AnsweredIsOpen
  <2>1. owed[i] > 0 /\ owed'[i] = owed[i] - 1
    BY <1>0, <1>1
  <2>2. left[i] >= owed[i] \/ i \in lost
    BY <1>0, <2>1 DEF IInv, AnsweredIsOpen
  <2> QED
    BY <1>0, <1>1, <2>1, <2>2
<1>5. OpenIsRecent'
  <2>1. \A i \in Ips : left'[i] > 0 => left[i] > 0
    BY <1>0, <1>1
  <2> QED
    BY <1>0, <2>1 DEF IInv, OpenIsRecent
<1> QED
  BY <1>2, <1>3, <1>4, <1>5 DEF IInv

LEMMA ReloadStep ==
  ASSUME IInv, Reload
  PROVE  IInv'
<1> USE TimesAssumption
<1>0. /\ Len(groups) <= MaxReloads /\ UNCHANGED <<groups, opened, pc, group, domain, ttl, todo, ip>>
      /\ \A h \in Handlers : ~Alive(h) => pc[h] \in {"idle", "next"}
      /\ enforced' \in Policies /\ behind' = TRUE /\ since' = Len(groups)
      /\ left' = [i \in Ips |-> 0] /\ lost' = {}
      /\ due' = [h \in Handlers |-> {}] /\ owed' = [i \in Ips |-> 0]
  BY DEF Reload
<1>1. TypeOK'
  BY <1>0 DEF IInv, TypeOK
<1>2. BoundOK' /\ DueOK' /\ AnsweredIsOpen' /\ OpenIsRecent'
  BY <1>0 DEF BoundOK, DueOK, AnsweredIsOpen, OpenIsRecent
<1>3. HandlerOK'
  <2>1. \A h \in Handlers : pc[h] \in Running => group[h] = Len(groups)
    BY <1>0 DEF Running, Alive
  <2>2. Len(groups) \in Nat
    BY DEF IInv, TypeOK
  <2> QED
    BY <1>0, <2>1, <2>2 DEF IInv, HandlerOK
<1> QED
  BY <1>1, <1>2, <1>3 DEF IInv

LEMMA RestartStep ==
  ASSUME IInv, Restart
  PROVE  IInv'
<1>0. /\ Len(groups) <= MaxReloads
      /\ UNCHANGED <<enforced, since, left, opened, lost, pc, group, domain, ttl, todo, ip, due, owed>>
      /\ groups' = Append(groups, enforced) /\ behind' = FALSE
  BY DEF IInv, BoundOK, Restart, setVars
<1>1. /\ groups \in Seq(Policies) /\ enforced \in Policies /\ since \in 1..Len(groups)
      /\ group \in [Handlers -> 1..Len(groups)]
  BY DEF IInv, TypeOK
<1>2. /\ groups' \in Seq(Policies) /\ Len(groups') = Len(groups) + 1 /\ Len(groups) \in Nat
      /\ \A g \in 1..Len(groups) : groups'[g] = groups[g]
  BY <1>0, <1>1
<1>3. TypeOK'
  <2>1. Len(groups') \in 1..(MaxReloads + 1) /\ since' \in 1..Len(groups')
    BY <1>0, <1>1, <1>2, BoundsAssumption
  <2>2. group' \in [Handlers -> 1..Len(groups')]
    BY <1>0, <1>1, <1>2
  <2> QED
    BY <1>0, <1>2, <2>1, <2>2 DEF IInv, TypeOK
<1>4. BoundOK' /\ DueOK' /\ AnsweredIsOpen'
  BY <1>0 DEF IInv, BoundOK, DueOK, Covered, AnsweredIsOpen
<1>5. HandlerOK'
  BY <1>0, <1>1, <1>2 DEF IInv, HandlerOK
<1>6. OpenIsRecent'
  <2> SUFFICES ASSUME NEW i \in Ips, left[i] > 0
               PROVE  \E g \in since..Len(groups') : opened[i] \in groups'[g]
    BY <1>0 DEF OpenIsRecent
  <2>1. PICK g \in since..Len(groups) : opened[i] \in groups[g]
    BY DEF IInv, OpenIsRecent
  <2>2. g \in 1..Len(groups) /\ g \in since..Len(groups')
    BY <1>1, <1>2, <2>1
  <2> QED
    BY <1>2, <2>1, <2>2
<1> QED
  BY <1>3, <1>4, <1>5, <1>6 DEF IInv

-----------------------------------------------------------------------------
\* No step leaves the invariant.
LEMMA NextIInv == IInv /\ [Next]_vars => IInv'
<1> SUFFICES ASSUME IInv, [Next]_vars PROVE IInv'
  OBVIOUS
<1>1. ASSUME NEW h \in Handlers, Query(h) PROVE IInv'
  BY <1>1, QueryStep
<1>2. ASSUME NEW h \in Handlers, NEW i \in Ips, Begin(h, i) PROVE IInv'
  BY <1>2, BeginStep
<1>3. ASSUME NEW h \in Handlers, Add(h) \/ Delete(h) \/ Readd(h) \/ Killed(h) PROVE IInv'
  BY <1>3, SetStep
<1>4. ASSUME NEW h \in Handlers, Answer(h) PROVE IInv'
  BY <1>4, AnswerStep
<1>5. CASE Elapse
  BY <1>5, ElapseStep
<1>6. CASE Reload
  BY <1>6, ReloadStep
<1>7. CASE Restart
  BY <1>7, RestartStep
<1>8. CASE UNCHANGED vars
  BY <1>8 DEF vars, policyVars, setVars, IInv, TypeOK, BoundOK, DueOK, Covered, HandlerOK,
    AnsweredIsOpen, OpenIsRecent
<1> QED
  BY <1>1, <1>2, <1>3, <1>4, <1>5, <1>6, <1>7, <1>8 DEF Next

LEMMA Invariance == Spec => []IInv
  BY InitIInv, NextIInv, PTL DEF Spec

\* Types: whatever TTL an answer carries, no element outlives the ceiling.
THEOREM Typed == Spec => []TypeOK
<1>1. IInv => TypeOK
  BY DEF IInv
<1> QED
  BY <1>1, Invariance, PTL

\* dns_filter.go:533: what a client was told is open for the floor, however the
\* handlers' add, delete and add of one address interleave, except while it is
\* being added again, after a failure that was logged, and after a reload.
THEOREM AnswersHold == Spec => []AnsweredIsOpen
<1>1. IInv => AnsweredIsOpen
  BY DEF IInv
<1> QED
  BY <1>1, Invariance, PTL

\* Whatever is open was allowed by the policy of a group that has run since the
\* ruleset was installed: nothing survives two reloads.
THEOREM OnlyRecentGrants == Spec => []OpenIsRecent
<1>1. IInv => OpenIsRecent
  BY DEF IInv
<1> QED
  BY <1>1, Invariance, PTL
============================================================================
