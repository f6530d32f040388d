--------------------------- MODULE DnsFilterProofs ---------------------------
(***************************************************************************)
(* The limiter for every number of sources, rate, burst and size of its    *)
(* map; and the DNS filter uses it as it is meant to be used, so that what *)
(* holds of the limiter holds in the filter.                               *)
(***************************************************************************)
EXTENDS DnsFilter, FiniteSetTheorems, WellFoundedInduction, TLAPS

(***************************************************************************)
(* RateHolds counts from the time a bucket was made to its last query: the *)
(* invariant adds that these times are in order, so that what a bucket     *)
(* gains until now is gained on top of it.                                 *)
(***************************************************************************)
TimesInOrder == \A s \in DOMAIN buckets : born[s] <= buckets[s].last /\ buckets[s].last <= now

Balance ==
  \A s \in DOMAIN buckets :
    spent[s] + buckets[s].tokens <= Burst + Qps * (buckets[s].last - born[s])

Bounded == Cardinality(DOMAIN buckets) <= MaxSources

LimiterInv == LimiterTypeOK /\ TimesInOrder /\ Balance /\ Bounded

LEMMA RateIsBalance == LimiterInv => RateHolds
BY DEF LimiterInv, Balance, Bounded, RateHolds

\* What the type invariant says of one bucket.
LEMMA OneBucket ==
  ASSUME LimiterTypeOK, NEW s \in DOMAIN buckets
  PROVE  /\ s \in Sources
         /\ buckets[s] \in [tokens : 0..Burst, last : 0..MaxTime]
         /\ buckets[s].tokens \in 0..Burst
         /\ buckets[s].last \in Nat /\ buckets[s].last <= MaxTime
         /\ spent[s] \in Nat /\ born[s] \in Nat
<1>1. PICK S \in SUBSET Sources : buckets \in [S -> Buckets]
  BY DEF LimiterTypeOK
<1>2. s \in Sources /\ buckets[s] \in [tokens : 0..Burst, last : 0..MaxTime]
  BY <1>1 DEF Buckets
<1>3. QED
  BY <1>2, ClockAssumption, RatesAssumption DEF LimiterTypeOK

LEMMA DomainIsFinite ==
  ASSUME LimiterTypeOK
  PROVE  DOMAIN buckets \subseteq Sources /\ IsFiniteSet(DOMAIN buckets)
<1>1. DOMAIN buckets \subseteq Sources
  BY DEF LimiterTypeOK
<1>2. QED
  BY <1>1, ClockAssumption, FS_Subset

LEMMA LimiterInitInv == LimiterInit => LimiterInv
<1> SUFFICES ASSUME LimiterInit PROVE LimiterInv
  OBVIOUS
<1>1. DOMAIN buckets = {}
  BY DEF LimiterInit
<1>2. LimiterTypeOK
  <2>1. buckets \in [{} -> Buckets]
    BY DEF LimiterInit
  <2>2. \E S \in SUBSET Sources : buckets \in [S -> Buckets]
    BY <2>1
  <2>3. QED
    BY <2>2, ClockAssumption DEF LimiterInit, LimiterTypeOK
<1>3. Bounded
  BY <1>1, FS_EmptySet, RoomAssumption DEF Bounded
<1>4. QED
  BY <1>1, <1>2, <1>3 DEF LimiterInv, TimesInOrder, Balance

LEMMA ElapseStep ==
  ASSUME LimiterInv, Elapse PROVE LimiterInv'
<1> USE DEF LimiterInv, Elapse
<1>1. LimiterTypeOK'
  BY ClockAssumption DEF LimiterTypeOK
<1>2. TimesInOrder'
  <2> SUFFICES ASSUME NEW s \in DOMAIN buckets
               PROVE  born[s] <= buckets[s].last /\ buckets[s].last <= now + 1
    BY DEF TimesInOrder
  <2>1. QED
    BY OneBucket, ClockAssumption DEF TimesInOrder, LimiterTypeOK
<1>3. Balance' /\ Bounded'
  BY DEF Balance, Bounded
<1>4. QED
  BY <1>1, <1>2, <1>3

\* A bucket never holds more than its burst, nor more than it had and has gained.
LEMMA RefilledBounds ==
  ASSUME LimiterTypeOK, TimesInOrder, NEW s \in DOMAIN buckets
  PROVE  /\ Refilled(buckets[s]) \in 0..Burst
         /\ Refilled(buckets[s]) <= buckets[s].tokens + Qps * (now - buckets[s].last)
<1> DEFINE gain == Qps * (now - buckets[s].last)
<1>1. now - buckets[s].last \in Nat
  BY OneBucket, ClockAssumption DEF TimesInOrder, LimiterTypeOK
<1>2. gain \in Nat
  BY <1>1, RatesAssumption
<1>3. buckets[s].tokens \in Nat /\ Burst \in Nat
  BY OneBucket, RatesAssumption
<1>4. Refilled(buckets[s]) = Min2(Burst, buckets[s].tokens + gain)
  BY DEF Refilled
<1> HIDE DEF gain
<1>5. Min2(Burst, buckets[s].tokens + gain) \in 0..Burst
      /\ Min2(Burst, buckets[s].tokens + gain) <= buckets[s].tokens + gain
  BY <1>2, <1>3 DEF Min2
<1>6. QED
  BY <1>4, <1>5 DEF gain

\* The gains of two periods add up.
LEMMA GainsAdd ==
  ASSUME NEW k \in Nat, NEW a \in Nat, NEW b \in Nat, NEW c \in Nat, a <= b, b <= c
  PROVE  Qps * (b - a) + Qps * (c - b) = Qps * (c - a) /\ Qps * (c - a) \in Nat
BY RatesAssumption

LEMMA DrawStep ==
  ASSUME LimiterInv, NEW s \in DOMAIN buckets, NEW passed \in BOOLEAN, Draw(s, passed)
  PROVE  LimiterInv'
<1> USE DEF LimiterInv
<1> DEFINE tokens == Refilled(buckets[s])
           left == IF passed THEN tokens - 1 ELSE tokens
<1>1. tokens \in 0..Burst /\ tokens <= buckets[s].tokens + Qps * (now - buckets[s].last)
  BY RefilledBounds
<1>2. /\ passed = (tokens >= 1)
      /\ buckets' = [buckets EXCEPT ![s] = [tokens |-> left, last |-> now]]
      /\ spent' = [spent EXCEPT ![s] = IF passed THEN @ + 1 ELSE @]
      /\ now' = now /\ born' = born
  BY DEF Draw
<1> HIDE DEF tokens
<1>3. Burst \in Nat /\ Qps \in Nat /\ MaxTime \in Nat /\ now \in Nat /\ now <= MaxTime
  BY RatesAssumption, ClockAssumption DEF LimiterTypeOK
<1>4. left \in 0..Burst
  <2>1. CASE tokens >= 1
    <3>1. left = tokens - 1
      BY <1>2, <2>1
    <3>2. QED
      BY <1>1, <1>3, <2>1, <3>1
  <2>2. CASE ~(tokens >= 1)
    <3>1. left = tokens
      BY <1>2, <2>2
    <3>2. QED
      BY <1>1, <3>1
  <2>3. QED
    BY <2>1, <2>2
<1>5. /\ buckets[s].tokens \in Nat /\ buckets[s].last \in Nat
      /\ spent[s] \in Nat /\ born[s] \in Nat /\ s \in Sources
      /\ born[s] <= buckets[s].last /\ buckets[s].last <= now
  BY OneBucket, RatesAssumption DEF TimesInOrder
<1>6. /\ DOMAIN buckets' = DOMAIN buckets
      /\ buckets'[s].tokens = left /\ buckets'[s].last = now
      /\ \A t \in DOMAIN buckets \ {s} : buckets'[t] = buckets[t] /\ spent'[t] = spent[t]
  <2>1. spent \in [Sources -> Nat] /\ DOMAIN buckets \subseteq Sources
    BY DomainIsFinite DEF LimiterTypeOK
  <2>2. QED
    BY <1>2, <2>1
<1>7. spent'[s] = IF passed THEN spent[s] + 1 ELSE spent[s]
  BY <1>2, <1>5 DEF LimiterTypeOK
<1>8. spent'[s] + left = spent[s] + tokens
  <2>1. CASE passed
    BY <1>1, <1>3, <1>5, <1>7, <2>1
  <2>2. CASE ~passed
    BY <1>1, <1>3, <1>5, <1>7, <2>2
  <2>3. QED
    BY <2>1, <2>2
<1>9. LimiterTypeOK'
  <2>1. PICK S \in SUBSET Sources : buckets \in [S -> Buckets]
    BY DEF LimiterTypeOK
  <2>2. [tokens |-> left, last |-> now] \in Buckets
    BY <1>3, <1>4 DEF Buckets
  <2>3. buckets' \in [S -> Buckets]
    BY <1>2, <2>1, <2>2
  <2>4. spent' \in [Sources -> Nat]
    <3>1. CASE passed
      BY <1>2, <3>1 DEF LimiterTypeOK
    <3>2. CASE ~passed
      BY <1>2, <3>2 DEF LimiterTypeOK
    <3>3. QED
      BY <3>1, <3>2
  <2>5. QED
    BY <1>2, <2>3, <2>4 DEF LimiterTypeOK
<1>10. TimesInOrder'
  <2> SUFFICES ASSUME NEW t \in DOMAIN buckets
               PROVE  born[t] <= buckets'[t].last /\ buckets'[t].last <= now
    BY <1>2, <1>6 DEF TimesInOrder
  <2>1. CASE t = s
    BY <1>3, <1>5, <1>6, <2>1
  <2>2. CASE t # s
    BY <1>6, <2>2 DEF TimesInOrder
  <2>3. QED
    BY <2>1, <2>2
<1>11. Balance'
  <2> SUFFICES ASSUME NEW t \in DOMAIN buckets
               PROVE  spent'[t] + buckets'[t].tokens
                        <= Burst + Qps * (buckets'[t].last - born[t])
    BY <1>2, <1>6 DEF Balance
  <2>1. CASE t = s
    <3>1. spent[s] + buckets[s].tokens <= Burst + Qps * (buckets[s].last - born[s])
      BY DEF Balance
    <3>2. Qps * (buckets[s].last - born[s]) + Qps * (now - buckets[s].last)
            = Qps * (now - born[s])
      BY <1>3, <1>5, GainsAdd
    <3>3. /\ Qps * (buckets[s].last - born[s]) \in Nat /\ Qps * (now - buckets[s].last) \in Nat
      BY <1>3, <1>5
    <3>4. spent[s] + tokens <= Burst + Qps * (now - born[s])
      BY <1>1, <1>3, <1>5, <3>1, <3>2, <3>3
    <3>5. QED
      BY <1>6, <1>8, <2>1, <3>4
  <2>2. CASE t # s
    BY <1>6, <2>2 DEF Balance
  <2>3. QED
    BY <2>1, <2>2
<1>12. Bounded'
  BY <1>6 DEF Bounded
<1>13. QED
  BY <1>9, <1>10, <1>11, <1>12

-----------------------------------------------------------------------------
(* A new bucket.                                                           *)

Pruned == IF Crowded(DOMAIN buckets) THEN Busy ELSE DOMAIN buckets

\* Which sources keep their bucket: all that are not pruned, but for one if that
\* leaves too many, which is none of those heard of later than another that stays.
LEMMA KeptIs ==
  ASSUME LimiterTypeOK, NEW K \in Kept
  PROVE  /\ K \subseteq Pruned /\ Pruned \subseteq DOMAIN buckets
         /\ \/ ~Crowded(Pruned) /\ K = Pruned
            \/ /\ Crowded(Pruned)
               /\ \E s \in Pruned : /\ K = Pruned \ {s}
                                   /\ \A t \in Pruned : buckets[s].last <= buckets[t].last
<1> DEFINE Oldest == {s \in Pruned : \A t \in Pruned : buckets[s].last <= buckets[t].last}
<1>1. Pruned \subseteq DOMAIN buckets
  BY DEF Pruned, Busy
<1>2. Kept = IF Crowded(Pruned) THEN {Pruned \ {s} : s \in Oldest} ELSE {Pruned}
  BY DEF Kept, Pruned
<1>3. CASE Crowded(Pruned)
  <2>1. PICK s \in Oldest : K = Pruned \ {s}
    BY <1>2, <1>3
  <2>2. QED
    BY <1>1, <1>3, <2>1
<1>4. CASE ~Crowded(Pruned)
  <2>1. K = Pruned
    BY <1>2, <1>4
  <2>2. QED
    BY <1>1, <1>4, <2>1
<1>5. QED
  BY <1>3, <1>4

LEMMA CrowdedIs ==
  ASSUME NEW S, IsFiniteSet(S)
  PROVE  Cardinality(S) \in Nat /\ (Crowded(S) <=> Cardinality(S) >= MaxSources)
BY FS_CardinalityType DEF Crowded

\* There is room for one more.
LEMMA KeptHasRoom ==
  ASSUME LimiterTypeOK, Bounded, NEW K \in Kept, NEW s
  PROVE  Cardinality(K \cup {s}) <= MaxSources
<1>1. IsFiniteSet(DOMAIN buckets) /\ Pruned \subseteq DOMAIN buckets /\ K \subseteq Pruned
  BY DomainIsFinite, KeptIs
<1>2. /\ IsFiniteSet(Pruned) /\ IsFiniteSet(K)
      /\ Cardinality(Pruned) <= Cardinality(DOMAIN buckets)
  BY <1>1, FS_Subset
<1>3. Cardinality(Pruned) \in Nat /\ Cardinality(K) \in Nat /\ Cardinality(DOMAIN buckets) \in Nat
  BY <1>1, <1>2, FS_CardinalityType
<1>4. Cardinality(K) + 1 <= MaxSources
  <2>1. CASE Crowded(Pruned)
    <3>1. PICK t \in Pruned : K = Pruned \ {t}
      BY KeptIs, <2>1
    <3>2. Cardinality(K) = Cardinality(Pruned) - 1
      BY <1>2, <3>1, FS_RemoveElement
    <3>3. QED
      BY <1>2, <1>3, <3>2, RoomAssumption DEF Bounded
  <2>2. CASE ~Crowded(Pruned)
    <3>1. K = Pruned
      BY KeptIs, <2>2
    <3>2. ~(Cardinality(Pruned) >= MaxSources)
      BY <2>2 DEF Crowded
    <3>3. QED
      BY <1>3, <3>1, <3>2, RoomAssumption
  <2>3. QED
    BY <2>1, <2>2
<1>5. Cardinality(K \cup {s}) = IF s \in K THEN Cardinality(K) ELSE Cardinality(K) + 1
  BY <1>2, FS_AddElement
<1>6. QED
  BY <1>3, <1>4, <1>5, RoomAssumption

LEMMA AdmitStep ==
  ASSUME LimiterInv, NEW s \in Sources, s \notin DOMAIN buckets, Admit(s)
  PROVE  LimiterInv'
<1> USE DEF LimiterInv
<1>1. PICK K \in Kept :
        /\ buckets' = [t \in K \cup {s} |->
             IF t = s THEN [tokens |-> Burst - 1, last |-> now] ELSE buckets[t]]
        /\ spent' = [spent EXCEPT ![s] = 1]
        /\ born' = [born EXCEPT ![s] = now]
        /\ now' = now
  BY DEF Admit
<1>2. K \subseteq DOMAIN buckets /\ DOMAIN buckets \subseteq Sources
  BY KeptIs, DomainIsFinite
<1>3. Burst \in Nat \ {0} /\ Qps \in Nat /\ MaxTime \in Nat /\ now \in Nat /\ now <= MaxTime
  BY RatesAssumption, ClockAssumption DEF LimiterTypeOK
<1>4. /\ DOMAIN buckets' = K \cup {s}
      /\ buckets'[s] = [tokens |-> Burst - 1, last |-> now]
      /\ spent'[s] = 1 /\ born'[s] = now
  BY <1>1 DEF LimiterTypeOK
<1>5. ASSUME NEW t \in K
      PROVE  /\ t \in DOMAIN buckets /\ t # s
             /\ buckets'[t] = buckets[t] /\ spent'[t] = spent[t] /\ born'[t] = born[t]
  BY <1>1, <1>2 DEF LimiterTypeOK
<1>6. LimiterTypeOK'
  <2>1. K \cup {s} \in SUBSET Sources
    BY <1>2
  <2>2. PICK S \in SUBSET Sources : buckets \in [S -> Buckets]
    BY DEF LimiterTypeOK
  <2>3. [tokens |-> Burst - 1, last |-> now] \in Buckets
    BY <1>3 DEF Buckets
  <2>4. buckets' \in [K \cup {s} -> Buckets]
    BY <1>1, <1>2, <2>2, <2>3
  <2>5. spent' \in [Sources -> Nat] /\ born' \in [Sources -> 0..MaxTime] /\ now' \in 0..MaxTime
    BY <1>1, <1>3 DEF LimiterTypeOK
  <2>6. QED
    BY <2>1, <2>4, <2>5 DEF LimiterTypeOK
<1>7. TimesInOrder'
  <2> SUFFICES ASSUME NEW t \in K \cup {s}
               PROVE  born'[t] <= buckets'[t].last /\ buckets'[t].last <= now
    BY <1>1, <1>4 DEF TimesInOrder
  <2>1. CASE t = s
    BY <1>3, <1>4, <2>1
  <2>2. CASE t # s
    BY <1>5, <2>2 DEF TimesInOrder
  <2>3. QED
    BY <2>1, <2>2
<1>8. Balance'
  <2> SUFFICES ASSUME NEW t \in K \cup {s}
               PROVE  spent'[t] + buckets'[t].tokens
                        <= Burst + Qps * (buckets'[t].last - born'[t])
    BY <1>4 DEF Balance
  <2>1. CASE t = s
    BY <1>3, <1>4, <2>1
  <2>2. CASE t # s
    BY <1>5, <2>2 DEF Balance
  <2>3. QED
    BY <2>1, <2>2
<1>9. Bounded'
  BY <1>4, KeptHasRoom DEF Bounded
<1>10. QED
  BY <1>6, <1>7, <1>8, <1>9

LEMMA AllowStep ==
  ASSUME LimiterInv, NEW s \in Sources, NEW passed \in BOOLEAN, Allow(s, passed)
  PROVE  LimiterInv'
BY DrawStep, AdmitStep DEF Allow

LEMMA LimiterStep ==
  ASSUME LimiterInv, [LimiterNext]_limiterVars PROVE LimiterInv'
<1>1. CASE UNCHANGED limiterVars
  BY <1>1 DEF limiterVars, LimiterInv, LimiterTypeOK, TimesInOrder, Balance, Bounded
<1>2. CASE Elapse
  BY <1>2, ElapseStep
<1>3. ASSUME NEW s \in Sources, NEW passed \in BOOLEAN, Allow(s, passed) PROVE LimiterInv'
  BY <1>3, AllowStep
<1>4. QED
  BY <1>1, <1>2, <1>3 DEF LimiterNext

\* A source that keeps asking gets its burst and its rate, and the map of buckets
\* stays within its bound.
THEOREM LimiterHolds == LimiterSpec => [](LimiterTypeOK /\ RateHolds)
<1>1. LimiterInit => LimiterInv
  BY LimiterInitInv
<1>2. LimiterInv /\ [LimiterNext]_limiterVars => LimiterInv'
  BY LimiterStep
<1>3. LimiterInv => LimiterTypeOK /\ RateHolds
  BY RateIsBalance DEF LimiterInv
<1>4. QED
  BY <1>1, <1>2, <1>3, PTL DEF LimiterSpec

-----------------------------------------------------------------------------
(* What becomes of a bucket that goes.                                     *)

Dropped(s) ==
  \/ now - buckets[s].last > IdleEvict
  \/ Crowded({t \in DOMAIN buckets' : buckets'[t].last >= buckets[s].last})

LEMMA AdmitDrops ==
  ASSUME LimiterInv, NEW s \in Sources, s \notin DOMAIN buckets, Admit(s),
         NEW d \in DOMAIN buckets \ DOMAIN buckets'
  PROVE  Dropped(d)
<1> USE DEF LimiterInv
<1>1. PICK K \in Kept :
        buckets' = [t \in K \cup {s} |->
          IF t = s THEN [tokens |-> Burst - 1, last |-> now] ELSE buckets[t]]
  BY DEF Admit
<1>2. K \subseteq Pruned /\ Pruned \subseteq DOMAIN buckets /\ s \notin K
  BY KeptIs
<1>3. /\ DOMAIN buckets' = K \cup {s} /\ d \notin K
      /\ buckets'[s].last = now
      /\ \A t \in K : buckets'[t] = buckets[t]
  BY <1>1, <1>2
<1>4. buckets[d].last \in Nat /\ buckets[d].last <= now /\ now \in Nat
  BY OneBucket, ClockAssumption DEF TimesInOrder, LimiterTypeOK
<1>5. CASE d \notin Pruned
  <2>1. d \notin Busy
    BY <1>5 DEF Pruned, Busy
  <2>2. ~(now - buckets[d].last <= IdleEvict)
    BY <2>1 DEF Busy
  <2>3. QED
    BY <1>4, <2>2, RoomAssumption DEF Dropped
<1>6. CASE d \in Pruned
  <2>1. K # Pruned
    BY <1>3, <1>6
  <2>2. Crowded(Pruned)
    BY <2>1, KeptIs
  <2>3. PICK e \in Pruned : /\ K = Pruned \ {e}
                            /\ \A t \in Pruned : buckets[e].last <= buckets[t].last
    BY <2>1, KeptIs
  <2>4. e = d
    BY <1>3, <1>6, <2>3
  <2>5. {t \in DOMAIN buckets' : buckets'[t].last >= buckets[d].last} = K \cup {s}
    <3>1. ASSUME NEW t \in K PROVE buckets'[t].last >= buckets[d].last
      <4>1. buckets[d].last <= buckets[t].last /\ t \in DOMAIN buckets
        BY <1>2, <2>3, <2>4
      <4>2. buckets[t].last \in Nat
        BY <4>1, OneBucket
      <4>3. QED
        BY <1>3, <1>4, <4>1, <4>2
    <3>2. buckets'[s].last >= buckets[d].last
      BY <1>3, <1>4
    <3>3. QED
      BY <1>3, <3>1, <3>2
  <2>6. /\ IsFiniteSet(Pruned) /\ IsFiniteSet(K)
        /\ Cardinality(K) = Cardinality(Pruned) - 1
        /\ Cardinality(K \cup {s}) = Cardinality(K) + 1
        /\ IsFiniteSet(K \cup {s})
    <3>1. IsFiniteSet(Pruned)
      BY <1>2, DomainIsFinite, FS_Subset
    <3>2. IsFiniteSet(K) /\ Cardinality(K) = Cardinality(Pruned) - 1
      BY <2>3, <3>1, FS_RemoveElement
    <3>3. QED
      BY <1>2, <3>1, <3>2, FS_AddElement
  <2>7. Crowded(K \cup {s})
    <3>1. Cardinality(Pruned) \in Nat /\ Cardinality(Pruned) >= MaxSources
      BY <2>2, <2>6, CrowdedIs
    <3>2. Cardinality(K \cup {s}) = Cardinality(Pruned)
      BY <2>6, <3>1
    <3>3. QED
      BY <2>6, <3>1, <3>2, CrowdedIs
  <2>8. QED
    BY <2>5, <2>7 DEF Dropped
<1>7. QED
  BY <1>5, <1>6

LEMMA LimiterDrops ==
  ASSUME LimiterInv, [LimiterNext]_limiterVars, NEW d \in DOMAIN buckets \ DOMAIN buckets'
  PROVE  Dropped(d)
<1>1. buckets' # buckets
  OBVIOUS
<1>2. PICK s \in Sources, passed \in BOOLEAN : Allow(s, passed)
  BY <1>1 DEF LimiterNext, Elapse, limiterVars
<1>3. CASE s \in DOMAIN buckets
  <2>1. Draw(s, passed)
    BY <1>2, <1>3 DEF Allow
  <2>2. DOMAIN buckets' = DOMAIN buckets
    BY <2>1 DEF Draw
  <2>3. QED
    BY <2>2
<1>4. CASE s \notin DOMAIN buckets
  BY <1>2, <1>4, AdmitDrops DEF Allow
<1>5. QED
  BY <1>3, <1>4

\* A source gets a new bucket only after a long pause, or when as many others as
\* the map has room for have asked since.
THEOREM LimiterBucketsLast == LimiterSpec => BucketsLast
<1>1. LimiterInit => LimiterInv
  BY LimiterInitInv
<1>2. LimiterInv /\ [LimiterNext]_limiterVars => LimiterInv'
  BY LimiterStep
<1>3. LimiterInv /\ [LimiterNext]_limiterVars =>
        [\A s \in DOMAIN buckets \ DOMAIN buckets' :
           \/ now - buckets[s].last > IdleEvict
           \/ Crowded({t \in DOMAIN buckets' : buckets'[t].last >= buckets[s].last})]_limiterVars
  BY LimiterDrops DEF Dropped
<1>4. QED
  BY <1>1, <1>2, <1>3, PTL DEF LimiterSpec, BucketsLast

-----------------------------------------------------------------------------
(* The filter.                                                             *)

LEMMA FilterStep ==
  ASSUME [Next]_vars PROVE [LimiterNext]_limiterVars
<1>1. CASE UNCHANGED vars
  BY <1>1 DEF vars
<1>2. ASSUME NEW h \in Handlers, Handle(h) PROVE UNCHANGED limiterVars
  BY <1>2 DEF Handle, Dial, NoAnswer, Truncated, Respond, Return
<1>3. ASSUME NEW h \in Handlers, NEW s \in Sources, NEW r \in Requests, Receive(h, s, r)
      PROVE  [LimiterNext]_limiterVars
  BY <1>3 DEF Receive, LimiterNext
<1>4. CASE Tick
  BY <1>4 DEF Tick, LimiterNext
<1>5. QED
  BY <1>1, <1>2, <1>3, <1>4 DEF Next

\* The filter uses the limiter as its specification says, whichever queries are
\* refused for other reasons and however the forwarded ones end.
THEOREM FilterUsesLimiter == Spec => LimiterSpec
<1>1. Init => LimiterInit
  BY DEF Init
<1>2. [Next]_vars => [LimiterNext]_limiterVars
  BY FilterStep
<1>3. QED
  BY <1>1, <1>2, PTL DEF Spec, LimiterSpec

\* So no source has more queries handled than its burst and its rate allow.
THEOREM FilterRateHolds == Spec => []RateHolds
BY FilterUsesLimiter, LimiterHolds, PTL

\* And none gets around that by being forgotten too early.
THEOREM FilterBucketsLast == Spec => BucketsLast
BY FilterUsesLimiter, LimiterBucketsLast, PTL

-----------------------------------------------------------------------------
(* The types of the filter.                                                *)

AllRecords == UNION {p.records : p \in Responses}

Outcomes ==
  [answer : {"none", "REFUSED", "sinkhole", "NXDOMAIN", "SERVFAIL", "upstream"},
   reports : SUBSET {"AUDIT", "BLOCKED", "ALLOWED", "ERROR"}, sent : BOOLEAN,
   opened : SUBSET {a.ip : a \in AllRecords}, ttl : Nat,
   learned : SUBSET {r.name : r \in Requests}, told : SUBSET AllRecords]

\* What the settings are made of never changes, and what is done about a query is
\* typed before it is answered.
FilterInv ==
  /\ LimiterInv /\ TypeOK
  /\ o \in [Switches -> BOOLEAN] /\ upstreams \in Seq(Behaviours) \ {<<>>}
  /\ done \in [Handlers -> Outcomes]

LEMMA UntouchedIsOutcome == Untouched \in Outcomes /\ Untouched.answer = "none"
BY DEF Untouched, Outcomes

LEMMA SwitchesAre ==
  ASSUME FilterInv
  PROVE  /\ o.learning \in BOOLEAN /\ o.defaultAllow \in BOOLEAN /\ o.audit \in BOOLEAN
         /\ o.hardening \in BOOLEAN /\ o.hook \in BOOLEAN
BY DEF FilterInv, Switches

LEMMA LastIsPositive ==
  ASSUME FilterInv PROVE Len(upstreams) \in Nat \ {0}
BY DEF FilterInv

LEMMA FilterInitInv == Init => FilterInv
<1> SUFFICES ASSUME Init PROVE FilterInv
  OBVIOUS
<1>1. PICK s \in Settings : o = s.options /\ upstreams = s.upstreams /\ queries = s.queries
  BY DEF Init
<1>2. o \in [Switches -> BOOLEAN] /\ upstreams \in Seq(Behaviours) \ {<<>>} /\ queries \in Nat
  BY <1>1, SettingsAssumption
<1>3. 1 \in 1..Len(upstreams)
  BY <1>2
<1>4. Idle \in Requests
  BY RequestsAssumption DEF Idle
<1>5. LimiterInv /\ LimiterTypeOK
  BY LimiterInitInv DEF Init, LimiterInv
<1>6. done \in [Handlers -> Outcomes]
      /\ \A h \in Handlers : pc[h] = "idle" /\ done[h].answer = "none"
  BY UntouchedIsOutcome DEF Init
<1>7. TypeOK
  BY <1>2, <1>3, <1>4, <1>5, <1>6, PortsAssumption DEF Init, TypeOK
<1>8. QED
  BY <1>2, <1>5, <1>6, <1>7 DEF FilterInv

\* How far each query is, and what has been done about it.
Progress ==
  /\ pc \in [Handlers -> {"idle", "dial", "wait", "answered"}]
  /\ done \in [Handlers -> Outcomes]
  /\ \A h \in Handlers : pc[h] = "answered" <=> done[h].answer # "none"

\* Where each query is forwarded to, and from which port.
Routes ==
  /\ dnsForwardPort \in 0..(Ports - 1)
  /\ at \in [Handlers -> 1..Len(upstreams)]
  /\ attempt \in [Handlers -> {"udp", "again", "tcp"}]
  /\ port \in [Handlers -> 0..(Ports - 1)]

LEMMA PartsOfInv ==
  FilterInv <=> /\ LimiterInv /\ queries \in Nat /\ Progress /\ Routes
                /\ request \in [Handlers -> Requests] /\ expired \in [Handlers -> BOOLEAN]
                /\ o \in [Switches -> BOOLEAN] /\ upstreams \in Seq(Behaviours) \ {<<>>}
BY DEF FilterInv, TypeOK, LimiterInv, Progress, Routes

LEMMA PartsMakeNext ==
  ASSUME LimiterInv', queries' \in Nat, Progress', Routes', request' \in [Handlers -> Requests],
         expired' \in [Handlers -> BOOLEAN], FilterInv, UNCHANGED <<o, upstreams>>
  PROVE  FilterInv'
BY DEF FilterInv, TypeOK, LimiterInv, Progress, Routes

LEMMA LimiterStays ==
  ASSUME FilterInv, [Next]_vars PROVE LimiterInv'
BY FilterStep, LimiterStep DEF FilterInv

LEMMA ProgressMoves ==
  ASSUME Progress, NEW h \in Handlers, NEW p \in {"idle", "dial", "wait", "answered"},
         NEW what \in Outcomes, p = "answered" <=> what.answer # "none",
         pc' = [pc EXCEPT ![h] = p], done' = [done EXCEPT ![h] = what]
  PROVE  Progress'
<1>1. \A g \in Handlers : /\ pc'[g] = IF g = h THEN p ELSE pc[g]
                          /\ done'[g] = IF g = h THEN what ELSE done[g]
  BY DEF Progress
<1>2. /\ pc' \in [Handlers -> {"idle", "dial", "wait", "answered"}]
      /\ done' \in [Handlers -> Outcomes]
  BY DEF Progress
<1>3. ASSUME NEW g \in Handlers PROVE pc'[g] = "answered" <=> done'[g].answer # "none"
  BY <1>1 DEF Progress
<1>4. QED
  BY <1>2, <1>3 DEF Progress

LEMMA ProgressStays ==
  ASSUME Progress, NEW h \in Handlers, pc[h] # "answered",
         NEW p \in {"dial", "wait"}, pc' = [pc EXCEPT ![h] = p], UNCHANGED done
  PROVE  Progress'
<1>1. \A g \in Handlers : pc'[g] = IF g = h THEN p ELSE pc[g]
  BY DEF Progress
<1>2. pc' \in [Handlers -> {"idle", "dial", "wait", "answered"}]
  BY DEF Progress
<1>3. QED
  BY <1>1, <1>2 DEF Progress

\* A change of some fields of an outcome.
LEMMA OutcomeChanges ==
  ASSUME NEW d \in Outcomes,
         NEW answer \in {"REFUSED", "sinkhole", "NXDOMAIN", "SERVFAIL", "upstream"},
         NEW reports \in SUBSET {"AUDIT", "BLOCKED", "ALLOWED", "ERROR"},
         NEW told \in SUBSET AllRecords, NEW opened \in SUBSET {a.ip : a \in AllRecords},
         NEW ttl \in Nat
  PROVE  /\ [d EXCEPT !.answer = answer, !.reports = reports] \in Outcomes
         /\ [d EXCEPT !.answer = answer, !.reports = reports].answer # "none"
         /\ [d EXCEPT !.answer = answer, !.told = told, !.opened = opened, !.ttl = ttl,
                      !.reports = reports] \in Outcomes
         /\ [d EXCEPT !.answer = answer, !.told = told, !.opened = opened, !.ttl = ttl,
                      !.reports = reports].answer # "none"
BY DEF Outcomes

LEMMA PortsRotate ==
  ASSUME dnsForwardPort \in 0..(Ports - 1) PROVE NextPort \in 0..(Ports - 1)
BY PortsAssumption DEF NextPort

LEMMA FreshPortTyped ==
  ASSUME Routes, NEW h \in Handlers, FreshPort(h)
  PROVE  dnsForwardPort' \in 0..(Ports - 1) /\ port' \in [Handlers -> 0..(Ports - 1)]
<1>1. NextPort \in 0..(Ports - 1)
  BY PortsRotate DEF Routes
<1>2. dnsForwardPort' = NextPort /\ port' = [port EXCEPT ![h] = NextPort]
  BY DEF FreshPort
<1> HIDE DEF NextPort
<1>3. QED
  BY <1>1, <1>2 DEF Routes

\* An attempt that fails leads to the next one, or to an answer.
LEMMA FailTyped ==
  ASSUME FilterInv, NEW h \in Handlers, pc[h] \in {"dial", "wait"}, Fail(h),
         UNCHANGED upstreams
  PROVE  Progress' /\ Routes'
<1> USE PartsOfInv
<1>1. CASE /\ attempt' = [attempt EXCEPT ![h] = "again"] /\ FreshPort(h)
           /\ pc' = [pc EXCEPT ![h] = "dial"] /\ UNCHANGED <<at, done>>
  <2>1. Progress'
    BY <1>1, ProgressStays
  <2>2. attempt' \in [Handlers -> {"udp", "again", "tcp"}]
    BY <1>1 DEF Routes
  <2>3. QED
    BY <1>1, <2>1, <2>2, FreshPortTyped DEF Routes
<1>2. CASE /\ at[h] < Len(upstreams)
           /\ at' = [at EXCEPT ![h] = @ + 1] /\ attempt' = [attempt EXCEPT ![h] = "udp"]
           /\ pc' = [pc EXCEPT ![h] = "dial"] /\ UNCHANGED <<dnsForwardPort, port, done>>
  <2>1. Progress'
    BY <1>2, ProgressStays
  <2>2. attempt' \in [Handlers -> {"udp", "again", "tcp"}]
    BY <1>2 DEF Routes
  <2>3. at[h] \in 1..Len(upstreams) /\ Len(upstreams) \in Nat
    BY LastIsPositive DEF Routes
  <2>4. at[h] + 1 \in 1..Len(upstreams)
    BY <1>2, <2>3
  <2>5. at' \in [Handlers -> 1..Len(upstreams)]
    BY <1>2, <2>4 DEF Routes
  <2>6. QED
    BY <1>2, <2>1, <2>2, <2>5 DEF Routes
<1>3. CASE GiveUp(h)
  <2> DEFINE what == [done[h] EXCEPT !.answer = "SERVFAIL", !.reports = @ \cup {"ERROR"}]
  <2>1. done[h] \in Outcomes
    BY DEF Progress
  <2>2. done[h].reports \cup {"ERROR"} \in SUBSET {"AUDIT", "BLOCKED", "ALLOWED", "ERROR"}
    BY <2>1 DEF Outcomes
  <2>3. what \in Outcomes /\ what.answer # "none"
    BY <2>1, <2>2 DEF Outcomes
  <2>4. pc' = [pc EXCEPT ![h] = "answered"] /\ done' = [done EXCEPT ![h] = what]
    BY <1>3 DEF GiveUp, Answer
  <2> HIDE DEF what
  <2>5. Progress'
    BY <2>3, <2>4, ProgressMoves
  <2>6. QED
    BY <1>3, <2>5 DEF GiveUp, Routes
<1>4. QED
  BY <1>1, <1>2, <1>3 DEF Fail

LEMMA NatMinimum ==
  ASSUME NEW T, T \subseteq Nat, T # {} PROVE \E x \in T : \A y \in T : x <= y
<1>1. PICK x \in T : \A y \in T : ~(<<y, x>> \in OpToRel(<, Nat))
  BY NatLessThanWellFounded, WFMin
<1>2. ASSUME NEW y \in T PROVE x <= y
  <2>1. <<y, x>> \in Nat \X Nat
    BY <1>2
  <2>2. ~(y < x)
    BY <1>1, <2>1 DEF OpToRel
  <2>3. QED
    BY <2>2
<1>3. QED
  BY <1>2

\* Addresses are opened for as long as the one that expires first is good.
LEMMA OpenForIsMinimum ==
  ASSUME NEW p \in Responses
  PROVE  OpenFor(p.records) \in Nat /\ \A a \in p.records : OpenFor(p.records) <= a.ttl
<1>1. CASE p.records = {}
  BY <1>1 DEF OpenFor
<1>2. CASE p.records # {}
  <2> DEFINE ttls == {a.ttl : a \in p.records}
  <2>1. ttls \subseteq Nat /\ ttls # {}
    BY <1>2, ResponsesAssumption
  <2>2. \E t \in ttls : \A y \in ttls : t <= y
    BY <2>1, NatMinimum
  <2>3. \E t \in ttls : \A a \in p.records : t <= a.ttl
    BY <2>2
  <2>4. OpenFor(p.records) = CHOOSE t \in ttls : \A a \in p.records : t <= a.ttl
    BY <1>2 DEF OpenFor
  <2>5. OpenFor(p.records) \in ttls /\ \A a \in p.records : OpenFor(p.records) <= a.ttl
    BY <2>3, <2>4
  <2>6. QED
    BY <2>1, <2>5
<1>3. QED
  BY <1>1, <1>2

\* What an answered query leaves behind, by the response.
Passed(h, p) ==
  LET opened == IF Full(h) /\ o.hook THEN {a.ip : a \in p.records} ELSE {}
  IN [done[h] EXCEPT
       !.answer = "upstream", !.told = p.records, !.opened = opened,
       !.ttl = IF opened = {} THEN 0 ELSE OpenFor(p.records),
       !.reports = @ \cup (IF ExfilResponse(p) THEN {"AUDIT"} ELSE {})
                     \cup (IF Full(h) THEN {"ALLOWED"} ELSE {})]

Stolen(h) == [done[h] EXCEPT !.answer = "SERVFAIL", !.reports = @ \cup {"BLOCKED"}]

LEMMA RespondIs ==
  ASSUME NEW h \in Handlers, Respond(h)
  PROVE  \E p \in Responses :
           /\ ExfilResponse(p) /\ Enforcing => Answer(h, Stolen(h))
           /\ ~(ExfilResponse(p) /\ Enforcing) => Answer(h, Passed(h, p))
BY DEF Respond, Passed, Stolen

LEMMA PassedTyped ==
  ASSUME NEW h \in Handlers, done[h] \in Outcomes, NEW p \in Responses
  PROVE  /\ Passed(h, p) \in Outcomes /\ Passed(h, p).answer # "none"
         /\ Stolen(h) \in Outcomes /\ Stolen(h).answer # "none"
<1> DEFINE opened == IF Full(h) /\ o.hook THEN {a.ip : a \in p.records} ELSE {}
           ttl == IF opened = {} THEN 0 ELSE OpenFor(p.records)
           reports == done[h].reports \cup (IF ExfilResponse(p) THEN {"AUDIT"} ELSE {})
                                      \cup (IF Full(h) THEN {"ALLOWED"} ELSE {})
<1>1. p.records \in SUBSET AllRecords
  BY DEF AllRecords
<1>2. opened \in SUBSET {a.ip : a \in AllRecords}
  BY <1>1
<1>3. ttl \in Nat
  <2>1. OpenFor(p.records) \in Nat
    BY OpenForIsMinimum
  <2> HIDE DEF opened
  <2>2. QED
    BY <2>1
<1>4. done[h].reports \in SUBSET {"AUDIT", "BLOCKED", "ALLOWED", "ERROR"}
  BY DEF Outcomes
<1>5. reports \in SUBSET {"AUDIT", "BLOCKED", "ALLOWED", "ERROR"}
  BY <1>4
<1>6. Passed(h, p) = [done[h] EXCEPT
        !.answer = "upstream", !.told = p.records, !.opened = opened, !.ttl = ttl,
        !.reports = reports]
  BY DEF Passed
<1> HIDE DEF opened, ttl, reports
<1>7. Passed(h, p) \in Outcomes /\ Passed(h, p).answer # "none"
  BY <1>1, <1>2, <1>3, <1>5, <1>6 DEF Outcomes
<1>8. done[h].reports \cup {"BLOCKED"} \in SUBSET {"AUDIT", "BLOCKED", "ALLOWED", "ERROR"}
  BY <1>4
<1>9. Stolen(h) \in Outcomes /\ Stolen(h).answer # "none"
  BY <1>8 DEF Stolen, Outcomes
<1>10. QED
  BY <1>7, <1>9

\* The three ways a query ends or goes on when it has been received.
LEMMA ReceiveIs ==
  ASSUME NEW h \in Handlers, NEW s \in Sources, NEW r \in Requests, Receive(h, s, r)
  PROVE  \/ \E answer \in {"REFUSED", "sinkhole", "NXDOMAIN"}, reports \in {{}, {"BLOCKED"}} :
              /\ Reply(h, answer, reports)
              /\ reports = {"BLOCKED"} => Enforcing \/ (~Permitted(r) /\ ~Audited(Permitted(r), o))
         \/ /\ ~Refused(r) /\ (Permitted(r) \/ Audited(Permitted(r), o))
            /\ ~(ExfilQuery(r) /\ Enforcing)
            /\ Forward(h, r, IF ExfilQuery(r) \/ Audited(Permitted(r), o) THEN {"AUDIT"} ELSE {})
BY DEF Receive, Decide

LEMMA LearnedIsName ==
  ASSUME NEW r \in Requests
  PROVE  /\ Learned(r.name, Allowlist, o) \subseteq {r.name}
         /\ Learned(r.name, Allowlist, o) # {} => o.learning
         /\ Learned(r.name, Allowlist, o) \in SUBSET {q.name : q \in Requests}
BY DEF Learned

LEMMA ReceiveTyped ==
  ASSUME FilterInv, NEW h \in Handlers, NEW s \in Sources, NEW r \in Requests, Receive(h, s, r)
  PROVE  FilterInv'
<1> USE PartsOfInv
<1>1. queries' \in Nat /\ request' \in [Handlers -> Requests] /\ UNCHANGED <<o, upstreams>>
  BY DEF Receive
<1>2. ASSUME NEW answer \in {"REFUSED", "sinkhole", "NXDOMAIN"},
             NEW reports \in {{}, {"BLOCKED"}}, Reply(h, answer, reports)
      PROVE  Progress' /\ Routes' /\ expired' \in [Handlers -> BOOLEAN]
  <2> DEFINE what == [Untouched EXCEPT !.answer = answer, !.reports = reports]
  <2>1. what \in Outcomes /\ what.answer # "none"
    BY UntouchedIsOutcome, OutcomeChanges
  <2>2. pc' = [pc EXCEPT ![h] = "answered"] /\ done' = [done EXCEPT ![h] = what]
    BY <1>2 DEF Reply, Answer
  <2> HIDE DEF what
  <2>3. Progress'
    BY <2>1, <2>2, ProgressMoves
  <2>4. QED
    BY <1>1, <1>2, <2>3 DEF Reply, Routes
<1>3. ASSUME NEW reports \in {{}, {"AUDIT"}}, Forward(h, r, reports)
      PROVE  Progress' /\ Routes' /\ expired' \in [Handlers -> BOOLEAN]
  <2> DEFINE names == Learned(r.name, Allowlist, o)
             what == [Untouched EXCEPT !.reports = reports, !.learned = names]
  <2>1. names \in SUBSET {q.name : q \in Requests}
    BY LearnedIsName
  <2>2. done' = [done EXCEPT ![h] = what] /\ pc' = [pc EXCEPT ![h] = "dial"]
    BY <1>3 DEF Forward
  <2> HIDE DEF names
  <2>3. what \in Outcomes /\ what.answer = "none"
    BY <2>1 DEF Untouched, Outcomes
  <2> HIDE DEF what
  <2>4. Progress'
    BY <2>2, <2>3, ProgressMoves
  <2>5. expired' \in [Handlers -> BOOLEAN] /\ attempt' \in [Handlers -> {"udp", "again", "tcp"}]
    BY <1>3 DEF Forward, Routes
  <2>6. at' \in [Handlers -> 1..Len(upstreams)]
    <3>1. 1 \in 1..Len(upstreams)
      BY LastIsPositive
    <3>2. QED
      BY <1>3, <3>1 DEF Forward, Routes
  <2>7. QED
    BY <1>1, <1>3, <2>4, <2>5, <2>6, FreshPortTyped DEF Forward, Routes
<1>4. Progress' /\ Routes' /\ expired' \in [Handlers -> BOOLEAN]
  BY <1>2, <1>3, ReceiveIs
<1>5. LimiterInv'
  BY LimiterStays DEF Next
<1>6. QED
  BY <1>1, <1>4, <1>5, PartsMakeNext

\* A query that is being forwarded: its socket is bound, or it has an outcome.
LEMMA HandleTyped ==
  ASSUME FilterInv, NEW h \in Handlers, Handle(h)
  PROVE  Progress' /\ Routes' /\ expired' \in [Handlers -> BOOLEAN]
<1> USE PartsOfInv
<1>1. CASE Dial(h)
  <2>1. CASE ~expired[h] /\ (attempt[h] = "tcp" \/ Alone(h))
    <3> DEFINE what == [done[h] EXCEPT !.sent = TRUE]
    <3>1. /\ pc' = [pc EXCEPT ![h] = "wait"] /\ done' = [done EXCEPT ![h] = what]
          /\ UNCHANGED <<dnsForwardPort, at, attempt, port, expired, upstreams>>
      BY <1>1, <2>1 DEF Dial
    <3>2. done[h] \in Outcomes /\ done[h].answer = "none"
      BY <1>1 DEF Dial, Progress
    <3>3. what \in Outcomes /\ what.answer = "none"
      BY <3>2 DEF Outcomes
    <3> HIDE DEF what
    <3>4. Progress'
      BY <3>1, <3>3, ProgressMoves
    <3>5. QED
      BY <3>1, <3>4 DEF Routes
  <2>2. CASE ~(~expired[h] /\ (attempt[h] = "tcp" \/ Alone(h)))
    BY <1>1, <2>2, FailTyped DEF Dial
  <2>3. QED
    BY <2>1, <2>2
<1>2. CASE NoAnswer(h)
  <2>1. Progress' /\ Routes'
    BY <1>2, FailTyped DEF NoAnswer
  <2>2. expired' \in [Handlers -> BOOLEAN]
    BY <1>2 DEF NoAnswer
  <2>3. QED
    BY <2>1, <2>2
<1>3. CASE Truncated(h)
  <2>1. /\ attempt' = [attempt EXCEPT ![h] = "tcp"] /\ pc' = [pc EXCEPT ![h] = "dial"]
        /\ pc[h] = "wait" /\ UNCHANGED <<upstreams, dnsForwardPort, at, port, expired, done>>
    BY <1>3 DEF Truncated, Answers
  <2>2. Progress'
    BY <2>1, ProgressStays
  <2>3. QED
    BY <2>1, <2>2 DEF Routes
<1>4. CASE Respond(h)
  <2>1. PICK p \in Responses : /\ ExfilResponse(p) /\ Enforcing => Answer(h, Stolen(h))
                               /\ ~(ExfilResponse(p) /\ Enforcing) => Answer(h, Passed(h, p))
    BY <1>4, RespondIs
  <2>2. done[h] \in Outcomes
    BY DEF Progress
  <2>3. Progress'
    BY <2>1, <2>2, PassedTyped, ProgressMoves DEF Answer
  <2>4. QED
    BY <1>4, <2>3 DEF Respond, Routes
<1>5. CASE Return(h)
  <2>1. pc' = [pc EXCEPT ![h] = "idle"] /\ done' = [done EXCEPT ![h] = Untouched]
    BY <1>5 DEF Return
  <2>2. Progress'
    BY <2>1, UntouchedIsOutcome, ProgressMoves
  <2>3. 1 \in 1..Len(upstreams) /\ 0 \in 0..(Ports - 1)
    BY LastIsPositive, PortsAssumption
  <2>4. QED
    BY <1>5, <2>2, <2>3 DEF Return, Routes
<1>6. QED
  BY <1>1, <1>2, <1>3, <1>4, <1>5 DEF Handle

LEMMA HandleLeaves ==
  ASSUME FilterInv, NEW h \in Handlers, Handle(h)
  PROVE  UNCHANGED <<o, upstreams, queries>> /\ request' \in [Handlers -> Requests]
<1>1. Idle \in Requests
  BY RequestsAssumption DEF Idle
<1>2. CASE Return(h)
  BY <1>1, <1>2, PartsOfInv DEF Return
<1>3. QED
  BY <1>2, PartsOfInv DEF Handle, Dial, NoAnswer, Truncated, Respond, Return

LEMMA FilterInvStep ==
  ASSUME FilterInv, [Next]_vars PROVE FilterInv'
<1>1. CASE UNCHANGED dnsVars
  <2>1. Progress' /\ Routes'
    BY <1>1, PartsOfInv DEF dnsVars, Progress, Routes
  <2>2. QED
    BY <1>1, <2>1, PartsOfInv, LimiterStays, PartsMakeNext DEF dnsVars
<1>2. ASSUME NEW h \in Handlers, Handle(h) PROVE FilterInv'
  <2>1. Progress' /\ Routes' /\ expired' \in [Handlers -> BOOLEAN]
    BY <1>2, HandleTyped
  <2>2. LimiterInv'
    BY LimiterStays
  <2>3. QED
    BY <1>2, <2>1, <2>2, HandleLeaves, PartsOfInv, PartsMakeNext
<1>3. ASSUME NEW h \in Handlers, NEW s \in Sources, NEW r \in Requests, Receive(h, s, r)
      PROVE  FilterInv'
  BY <1>3, ReceiveTyped
<1>4. QED
  BY <1>1, <1>2, <1>3 DEF Next, Tick, vars

THEOREM FilterInvariance == Spec => []FilterInv
<1>1. FilterInv /\ [Next]_vars => FilterInv'
  BY FilterInvStep
<1>2. QED
  BY <1>1, FilterInitInv, PTL DEF Spec

\* For any number of concurrent queries, any upstreams and settings: the types, the
\* rotation of the ports stays in its range, the upstream in use is one of those
\* configured, and a query is answered exactly when its handler is done with it.
THEOREM FilterTyped == Spec => []TypeOK
<1>1. FilterInv => TypeOK
  BY DEF FilterInv
<1>2. QED
  BY <1>1, FilterInvariance, PTL

-----------------------------------------------------------------------------
(* The verdicts.                                                           *)

Against(r) == r.name \in Stopped[o.defaultAllow] /\ ~o.learning

\* While a query is forwarded, it is one that may leave, and what must be said of
\* it in the end is already noted.
Forwarding(r, d) ==
  /\ r.valid /\ (Against(r) => o.audit /\ "AUDIT" \in d.reports)
  /\ ExfilQuery(r) => (o.audit \/ o.learning) /\ "AUDIT" \in d.reports
  /\ d.reports \subseteq {"AUDIT"} /\ d.opened = {} /\ d.told = {}
  /\ d.learned \subseteq {r.name} /\ (d.learned # {} => o.learning)

Settled(r, d) ==
  /\ d.sent \/ d.answer = "upstream" =>
       /\ r.valid /\ (Against(r) => o.audit)
       /\ ExfilQuery(r) => (o.audit \/ o.learning) /\ "AUDIT" \in d.reports
  /\ d.answer = "upstream" =>
       /\ Against(r) => "AUDIT" \in d.reports
       /\ "ALLOWED" \in d.reports <=> ~Against(r)
  /\ "ALLOWED" \in d.reports => d.answer = "upstream"
  /\ "BLOCKED" \in d.reports => d.answer # "upstream" /\ Enforcing
  /\ d.opened # {} => /\ "ALLOWED" \in d.reports /\ o.hook
                      /\ d.opened = {a.ip : a \in d.told}
                      /\ \A a \in d.told : d.ttl <= a.ttl
  /\ d.learned \subseteq {r.name} /\ (d.learned # {} => o.learning)

Account(h) ==
  /\ pc[h] \in {"dial", "wait"} => Forwarding(request[h], done[h])
  /\ pc[h] = "answered" => Settled(request[h], done[h])

Accounts == \A h \in Handlers : Account(h)

\* The lists stop what the documents say that they stop.
PolicyAsDocumented == AsDocumented({r.name : r \in Requests}, Stopped, Allowlist, Denylist)

LEMMA AccountsAreTrue == Accounts => VerdictIsTrue
BY DEF Accounts, Account, Settled, Against, ExfilQuery, VerdictIsTrue

LEMMA PermittedIsNotAgainst ==
  ASSUME FilterInv, PolicyAsDocumented, NEW r \in Requests
  PROVE  /\ Permitted(r) <=> ~Against(r)
         /\ Audited(Permitted(r), o) <=> Against(r) /\ o.audit
<1>1. o.learning \in BOOLEAN /\ o.defaultAllow \in BOOLEAN
  BY SwitchesAre
<1> DEFINE d == o.defaultAllow
           plain == [learning |-> FALSE, defaultAllow |-> d]
<1>2. r.name \in Stopped[d] <=> ~Permits(r.name, Allowlist, Denylist, plain)
  BY <1>1 DEF PolicyAsDocumented, AsDocumented
<1>3. Permits(r.name, Allowlist, Denylist, plain)
        <=> \/ ~d /\ r.name # None /\ Allows(Allowlist, r.name)
            \/ d /\ (r.name = None \/ Allows(Allowlist, r.name) \/ ~Allows(Denylist, r.name))
  BY DEF Permits
<1>4. Permitted(r) <=> o.learning \/ Permits(r.name, Allowlist, Denylist, plain)
  BY <1>3 DEF Permitted, Permits
<1>5. Permitted(r) <=> ~Against(r)
  BY <1>2, <1>4 DEF Against
<1>6. QED
  BY <1>5 DEF Audited

\* Nothing changes for the queries of the other handlers.
LEMMA AccountStays ==
  ASSUME NEW g \in Handlers, Account(g), UNCHANGED o,
         pc'[g] = pc[g], request'[g] = request[g], done'[g] = done[g]
  PROVE  Account(g)'
BY DEF Account, Forwarding, Settled, Against, ExfilQuery, Enforcing

\* The outcome of h moves on.
LEMMA AccountMoves ==
  ASSUME FilterInv, Accounts, NEW h \in Handlers, UNCHANGED o,
         NEW p \in {"idle", "dial", "wait", "answered"}, NEW what, NEW r \in Requests,
         pc' = [pc EXCEPT ![h] = p], done' = [done EXCEPT ![h] = what],
         request' = [request EXCEPT ![h] = r],
         p \in {"dial", "wait"} => Forwarding(r, what),
         p = "answered" => Settled(r, what)
  PROVE  Accounts'
<1>1. ASSUME NEW g \in Handlers, g # h PROVE Account(g)'
  <2>1. pc'[g] = pc[g] /\ request'[g] = request[g] /\ done'[g] = done[g]
    BY <1>1, PartsOfInv DEF Progress
  <2>2. QED
    BY <2>1, AccountStays DEF Accounts
<1>2. pc'[h] = p /\ request'[h] = r /\ done'[h] = what
  BY PartsOfInv DEF Progress
<1>3. Account(h)'
  BY <1>2 DEF Account, Forwarding, Settled, Against, ExfilQuery, Enforcing
<1>4. QED
  BY <1>1, <1>3 DEF Accounts

LEMMA ReceiveAccounts ==
  ASSUME FilterInv, Accounts, PolicyAsDocumented,
         NEW h \in Handlers, NEW s \in Sources, NEW r \in Requests, Receive(h, s, r)
  PROVE  Accounts'
<1>1. UNCHANGED o /\ request' = [request EXCEPT ![h] = r]
  BY DEF Receive
<1>2. ASSUME NEW answer \in {"REFUSED", "sinkhole", "NXDOMAIN"},
             NEW reports \in {{}, {"BLOCKED"}}, Reply(h, answer, reports),
             reports = {"BLOCKED"} => Enforcing \/ (~Permitted(r) /\ ~Audited(Permitted(r), o))
      PROVE  Accounts'
  <2> DEFINE what == [Untouched EXCEPT !.answer = answer, !.reports = reports]
  <2>1. pc' = [pc EXCEPT ![h] = "answered"] /\ done' = [done EXCEPT ![h] = what]
    BY <1>2 DEF Reply, Answer
  <2>2. reports = {"BLOCKED"} => Enforcing
    BY <1>2, PermittedIsNotAgainst DEF Enforcing, Against
  <2>3. /\ what.answer = answer /\ what.reports = reports /\ what.sent = FALSE
        /\ what.opened = {} /\ what.learned = {}
    BY DEF Untouched
  <2> HIDE DEF what
  <2>4. Settled(r, what)
    BY <1>2, <2>2, <2>3 DEF Settled
  <2>5. QED
    BY <1>1, <2>1, <2>4, AccountMoves
<1>3. CASE /\ ~Refused(r) /\ (Permitted(r) \/ Audited(Permitted(r), o))
           /\ ~(ExfilQuery(r) /\ Enforcing)
           /\ Forward(h, r, IF ExfilQuery(r) \/ Audited(Permitted(r), o) THEN {"AUDIT"} ELSE {})
  <2> DEFINE reports == IF ExfilQuery(r) \/ Audited(Permitted(r), o) THEN {"AUDIT"} ELSE {}
             names == Learned(r.name, Allowlist, o)
             what == [Untouched EXCEPT !.reports = reports, !.learned = names]
  <2>1. pc' = [pc EXCEPT ![h] = "dial"] /\ done' = [done EXCEPT ![h] = what]
    BY <1>3 DEF Forward
  <2>2. names \subseteq {r.name} /\ (names # {} => o.learning)
    BY LearnedIsName
  <2>3. r.valid /\ (Against(r) => o.audit /\ "AUDIT" \in reports) /\ reports \subseteq {"AUDIT"}
    BY <1>3, PermittedIsNotAgainst DEF Refused
  <2>4. ExfilQuery(r) => (o.audit \/ o.learning) /\ "AUDIT" \in reports
    BY <1>3 DEF Enforcing
  <2> HIDE DEF reports, names
  <2>5. what.reports = reports /\ what.opened = {} /\ what.told = {} /\ what.learned = names
    BY DEF Untouched
  <2> HIDE DEF what
  <2>6. Forwarding(r, what)
    BY <2>2, <2>3, <2>4, <2>5 DEF Forwarding
  <2>7. QED
    BY <1>1, <2>1, <2>6, AccountMoves
<1>4. QED
  BY <1>2, <1>3, ReceiveIs

\* The outcome changes in the fields named here only.
LEMMA ChangedFields ==
  ASSUME NEW d \in Outcomes
  PROVE  /\ \A sent : LET e == [d EXCEPT !.sent = sent]
                      IN /\ e.reports = d.reports /\ e.opened = d.opened /\ e.told = d.told
                         /\ e.learned = d.learned /\ e.answer = d.answer
         /\ \A answer, reports : LET e == [d EXCEPT !.answer = answer, !.reports = reports]
                                 IN /\ e.answer = answer /\ e.reports = reports
                                    /\ e.opened = d.opened /\ e.learned = d.learned
BY DEF Outcomes

\* A query that fails, or whose response is withheld.
LEMMA WithheldIsSettled ==
  ASSUME NEW r, NEW d \in Outcomes, Forwarding(r, d), NEW report \in {"ERROR", "BLOCKED"},
         report = "BLOCKED" => Enforcing
  PROVE  Settled(r, [d EXCEPT !.answer = "SERVFAIL", !.reports = @ \cup {report}])
<1> DEFINE e == [d EXCEPT !.answer = "SERVFAIL", !.reports = d.reports \cup {report}]
<1>1. /\ e.answer = "SERVFAIL" /\ e.reports = d.reports \cup {report}
      /\ e.opened = d.opened /\ e.learned = d.learned
  BY ChangedFields
<1>2. e = [d EXCEPT !.answer = "SERVFAIL", !.reports = @ \cup {report}]
  OBVIOUS
<1> HIDE DEF e
<1>3. Settled(r, e)
  BY <1>1 DEF Forwarding, Settled
<1>4. QED
  BY <1>2, <1>3

\* A query whose response is passed on.
LEMMA PassedIsSettled ==
  ASSUME FilterInv, PolicyAsDocumented, NEW h \in Handlers, NEW p \in Responses,
         Forwarding(request[h], done[h])
  PROVE  Settled(request[h], Passed(h, p))
<1> DEFINE r == request[h]
           d == done[h]
           opened == IF Full(h) /\ o.hook THEN {a.ip : a \in p.records} ELSE {}
           ttl == IF opened = {} THEN 0 ELSE OpenFor(p.records)
           reports == d.reports \cup (IF ExfilResponse(p) THEN {"AUDIT"} ELSE {})
                                \cup (IF Full(h) THEN {"ALLOWED"} ELSE {})
           e == [d EXCEPT !.answer = "upstream", !.told = p.records, !.opened = opened,
                          !.ttl = ttl, !.reports = reports]
<1>1. d \in Outcomes /\ r \in Requests
  BY PartsOfInv DEF Progress
<1>2. Full(h) <=> ~Against(r)
  BY <1>1, PermittedIsNotAgainst DEF Full
<1>3. /\ d.reports \subseteq {"AUDIT"} /\ (Against(r) => o.audit /\ "AUDIT" \in d.reports)
      /\ r.valid /\ d.learned \subseteq {r.name} /\ (d.learned # {} => o.learning)
      /\ ExfilQuery(r) => (o.audit \/ o.learning) /\ "AUDIT" \in d.reports
  BY DEF Forwarding
<1>4. /\ "ALLOWED" \in reports <=> ~Against(r)
      /\ "BLOCKED" \notin reports
      /\ Against(r) => "AUDIT" \in reports
      /\ ExfilQuery(r) => (o.audit \/ o.learning) /\ "AUDIT" \in reports
  BY <1>2, <1>3
<1>5. /\ opened # {} => /\ ~Against(r) /\ o.hook /\ opened = {a.ip : a \in p.records}
                        /\ \A a \in p.records : ttl <= a.ttl
  BY <1>2, OpenForIsMinimum
<1>6. e = Passed(h, p)
  BY DEF Passed
<1> HIDE DEF opened, ttl, reports, r, d
<1>7. /\ e.answer = "upstream" /\ e.told = p.records /\ e.opened = opened /\ e.ttl = ttl
      /\ e.reports = reports /\ e.learned = d.learned
  BY <1>1 DEF Outcomes
<1> HIDE DEF e
<1>8. Settled(r, e)
  BY <1>3, <1>4, <1>5, <1>7 DEF Settled
<1>9. QED
  BY <1>6, <1>8 DEF r

\* An attempt that fails: the query goes on, or is answered with the failure.
LEMMA FailAccounts ==
  ASSUME FilterInv, Accounts, NEW h \in Handlers, pc[h] \in {"dial", "wait"}, Fail(h),
         UNCHANGED <<o, request>>
  PROVE  Accounts'
<1>1. done[h] \in Outcomes /\ request[h] \in Requests /\ Forwarding(request[h], done[h])
  BY PartsOfInv DEF Progress, Accounts, Account
<1>2. request' = [request EXCEPT ![h] = request[h]]
  BY PartsOfInv
<1>3. CASE pc' = [pc EXCEPT ![h] = "dial"] /\ UNCHANGED done
  <2>1. done' = [done EXCEPT ![h] = done[h]]
    BY <1>3, PartsOfInv DEF Progress
  <2>2. QED
    BY <1>1, <1>2, <1>3, <2>1, AccountMoves
<1>4. CASE GiveUp(h)
  <2> DEFINE what == [done[h] EXCEPT !.answer = "SERVFAIL", !.reports = @ \cup {"ERROR"}]
  <2>1. pc' = [pc EXCEPT ![h] = "answered"] /\ done' = [done EXCEPT ![h] = what]
    BY <1>4 DEF GiveUp, Answer
  <2>2. Settled(request[h], what)
    BY <1>1, WithheldIsSettled
  <2> HIDE DEF what
  <2>3. QED
    BY <1>1, <1>2, <2>1, <2>2, AccountMoves
<1>5. QED
  BY <1>3, <1>4 DEF Fail

LEMMA HandleAccounts ==
  ASSUME FilterInv, Accounts, PolicyAsDocumented, NEW h \in Handlers, Handle(h)
  PROVE  Accounts'
<1>1. /\ done[h] \in Outcomes /\ request[h] \in Requests
      /\ pc[h] \in {"dial", "wait"} => Forwarding(request[h], done[h])
  BY PartsOfInv DEF Progress, Accounts, Account
<1>2. request = [request EXCEPT ![h] = request[h]] /\ done = [done EXCEPT ![h] = done[h]]
  BY PartsOfInv DEF Progress
<1>3. CASE Dial(h)
  <2>1. CASE ~expired[h] /\ (attempt[h] = "tcp" \/ Alone(h))
    <3> DEFINE what == [done[h] EXCEPT !.sent = TRUE]
    <3>1. /\ pc' = [pc EXCEPT ![h] = "wait"] /\ done' = [done EXCEPT ![h] = what]
          /\ UNCHANGED <<o, request>> /\ pc[h] = "dial"
      BY <1>3, <2>1 DEF Dial
    <3>2. /\ what.reports = done[h].reports /\ what.opened = done[h].opened
          /\ what.told = done[h].told /\ what.learned = done[h].learned
      BY <1>1, ChangedFields
    <3> HIDE DEF what
    <3>3. Forwarding(request[h], what)
      BY <1>1, <3>1, <3>2 DEF Forwarding
    <3>4. QED
      BY <1>1, <1>2, <3>1, <3>3, AccountMoves
  <2>2. CASE ~(~expired[h] /\ (attempt[h] = "tcp" \/ Alone(h)))
    BY <1>3, <2>2, FailAccounts DEF Dial
  <2>3. QED
    BY <2>1, <2>2
<1>4. CASE NoAnswer(h)
  BY <1>4, FailAccounts DEF NoAnswer
<1>5. CASE Truncated(h)
  <2>1. /\ pc' = [pc EXCEPT ![h] = "dial"] /\ pc[h] = "wait"
        /\ UNCHANGED <<o, request, done>>
    BY <1>5 DEF Truncated, Answers
  <2>2. QED
    BY <1>1, <1>2, <2>1, AccountMoves
<1>6. CASE Respond(h)
  <2>1. PICK p \in Responses : /\ ExfilResponse(p) /\ Enforcing => Answer(h, Stolen(h))
                               /\ ~(ExfilResponse(p) /\ Enforcing) => Answer(h, Passed(h, p))
    BY <1>6, RespondIs
  <2>2. UNCHANGED <<o, request>> /\ pc[h] = "wait"
    BY <1>6 DEF Respond, Answers
  <2>3. Settled(request[h], Passed(h, p))
    BY <1>1, <2>2, PassedIsSettled
  <2>4. Enforcing => Settled(request[h], Stolen(h))
    BY <1>1, <2>2, WithheldIsSettled DEF Stolen
  <2>5. CASE ExfilResponse(p) /\ Enforcing
    BY <1>1, <1>2, <2>1, <2>2, <2>4, <2>5, AccountMoves DEF Answer
  <2>6. CASE ~(ExfilResponse(p) /\ Enforcing)
    BY <1>1, <1>2, <2>1, <2>2, <2>3, <2>6, AccountMoves DEF Answer
  <2>7. QED
    BY <2>5, <2>6
<1>7. CASE Return(h)
  <2>1. /\ pc' = [pc EXCEPT ![h] = "idle"] /\ done' = [done EXCEPT ![h] = Untouched]
        /\ request' = [request EXCEPT ![h] = Idle] /\ UNCHANGED o
    BY <1>7 DEF Return
  <2>2. Idle \in Requests
    BY RequestsAssumption DEF Idle
  <2>3. QED
    BY <2>1, <2>2, AccountMoves
<1>8. QED
  BY <1>3, <1>4, <1>5, <1>6, <1>7 DEF Handle

LEMMA AccountsStep ==
  ASSUME FilterInv, Accounts, PolicyAsDocumented, [Next]_vars PROVE Accounts'
<1>1. CASE UNCHANGED dnsVars
  BY <1>1, AccountStays DEF Accounts, dnsVars
<1>2. QED
  BY <1>1, HandleAccounts, ReceiveAccounts DEF Next, Tick, vars

\* For any names, settings and upstreams, and any number of queries that are
\* handled at the same time: if the lists stop what the documents say they stop,
\* every query is answered, reported, learned and opened accordingly.
THEOREM VerdictIsTrueHolds ==
  ASSUME PolicyAsDocumented PROVE Spec => []VerdictIsTrue
<1>1. Init => Accounts
  BY DEF Init, Accounts, Account
<1>2. FilterInv /\ Accounts /\ [Next]_vars => Accounts'
  BY AccountsStep
<1>3. QED
  BY <1>1, <1>2, FilterInvariance, AccountsAreTrue, PTL DEF Spec
-----------------------------------------------------------------------------
(* The fallback to the next upstream.                                      *)

\* In time, the second attempt at an upstream that would answer finds its port free.
\* A query that finds both of its ports taken gives the upstream up; ports come
\* round after Ports attempts, 4000 in the code.
PortIsFree ==
  \A h \in Handlers :
    Dial(h) /\ attempt[h] = "again" /\ upstreams[at[h]] = "well" /\ ~expired[h] => Alone(h)

\* That the i-th upstream gave no answer is no failure of the filter.
Excused(i) == upstreams[i] = "well" => \E j \in 1..(i - 1) : upstreams[j] = "silent"

\* A query has gone past an upstream only for a reason, and its time is over only
\* because of an upstream that it has tried.
Tried(h) ==
  /\ pc[h] \in {"dial", "wait"} =>
       /\ "ERROR" \notin done[h].reports
       /\ \A i \in 1..(at[h] - 1) : Excused(i)
       /\ expired[h] => \E j \in 1..at[h] : upstreams[j] = "silent"
  /\ "ERROR" \in done[h].reports => \A i \in 1..Len(upstreams) : Excused(i)

Tries == \A h \in Handlers : Tried(h)

LEMMA TriedStays ==
  ASSUME NEW g \in Handlers, Tried(g), UNCHANGED upstreams,
         pc'[g] = pc[g], done'[g] = done[g], at'[g] = at[g], expired'[g] = expired[g]
  PROVE  Tried(g)'
BY DEF Tried, Excused

\* Only the query of h moves on.
LEMMA TriedMoves ==
  ASSUME Tries, NEW h \in Handlers, UNCHANGED upstreams,
         \A g \in Handlers \ {h} : /\ pc'[g] = pc[g] /\ done'[g] = done[g]
                                   /\ at'[g] = at[g] /\ expired'[g] = expired[g],
         Tried(h)'
  PROVE  Tries'
<1>1. ASSUME NEW g \in Handlers, g # h PROVE Tried(g)'
  BY <1>1, TriedStays DEF Tries
<1>2. QED
  BY <1>1 DEF Tries

\* The second attempt, or the one by TCP, fails only for a reason.
LEMMA FailTried ==
  ASSUME FilterInv, Tries, NEW h \in Handlers, pc[h] \in {"dial", "wait"}, Fail(h),
         UNCHANGED upstreams, \A g \in Handlers \ {h} : expired'[g] = expired[g],
         expired'[h] => \E j \in 1..at[h] : upstreams[j] = "silent",
         attempt[h] # "udp" => Excused(at[h])
  PROVE  Tries'
<1>1. /\ pc \in [Handlers -> {"idle", "dial", "wait", "answered"}]
      /\ done \in [Handlers -> Outcomes] /\ at \in [Handlers -> 1..Len(upstreams)]
  BY PartsOfInv DEF Progress, Routes
<1>2. /\ "ERROR" \notin done[h].reports /\ \A i \in 1..(at[h] - 1) : Excused(i)
  BY DEF Tries, Tried
<1>3. at[h] \in 1..Len(upstreams) /\ Len(upstreams) \in Nat
  BY <1>1, LastIsPositive
<1>4. \A i : Excused(i)' <=> Excused(i)
  BY DEF Excused
<1>5. CASE /\ attempt[h] = "udp" /\ pc' = [pc EXCEPT ![h] = "dial"] /\ UNCHANGED <<at, done>>
  <2>1. pc'[h] = "dial" /\ at'[h] = at[h] /\ done'[h] = done[h]
    BY <1>1, <1>5
  <2>2. Tried(h)'
    BY <1>2, <1>4, <2>1 DEF Tried
  <2>3. QED
    BY <1>1, <1>5, <2>2, TriedMoves
<1>6. CASE /\ attempt[h] # "udp" /\ at[h] < Len(upstreams) /\ at' = [at EXCEPT ![h] = @ + 1]
           /\ pc' = [pc EXCEPT ![h] = "dial"] /\ UNCHANGED done
  <2>1. pc'[h] = "dial" /\ at'[h] = at[h] + 1 /\ done'[h] = done[h]
    BY <1>1, <1>6
  <2>2. \A i \in 1..(at'[h] - 1) : Excused(i)
    BY <1>2, <1>3, <1>6, <2>1
  <2>3. expired'[h] => \E j \in 1..at'[h] : upstreams'[j] = "silent"
    BY <1>3, <2>1
  <2>4. Tried(h)'
    BY <1>2, <1>4, <2>1, <2>2, <2>3 DEF Tried
  <2>5. QED
    BY <1>1, <1>6, <2>4, TriedMoves
<1>7. CASE attempt[h] # "udp" /\ at[h] = Len(upstreams) /\ GiveUp(h)
  <2>1. pc' = [pc EXCEPT ![h] = "answered"] /\ UNCHANGED at
        /\ \A g \in Handlers \ {h} : done'[g] = done[g]
    BY <1>1, <1>7 DEF GiveUp, Answer
  <2>2. pc'[h] = "answered"
    BY <1>1, <2>1
  <2>3. \A i \in 1..Len(upstreams) : Excused(i)
    BY <1>2, <1>3, <1>7
  <2>4. Tried(h)'
    BY <1>4, <2>2, <2>3 DEF Tried
  <2>5. QED
    BY <1>1, <2>1, <2>4, TriedMoves
<1>8. QED
  BY <1>5, <1>6, <1>7 DEF Fail

LEMMA DialTried ==
  ASSUME FilterInv, Tries, PortIsFree, NEW h \in Handlers, Dial(h)
  PROVE  Tries'
<1>1. /\ pc \in [Handlers -> {"idle", "dial", "wait", "answered"}]
      /\ done \in [Handlers -> Outcomes] /\ at \in [Handlers -> 1..Len(upstreams)]
      /\ attempt \in [Handlers -> {"udp", "again", "tcp"}]
  BY PartsOfInv DEF Progress, Routes
<1>2. pc[h] = "dial" /\ UNCHANGED <<upstreams, expired>>
  BY DEF Dial
<1>3. CASE ~expired[h] /\ (attempt[h] = "tcp" \/ Alone(h))
  <2>1. /\ pc' = [pc EXCEPT ![h] = "wait"] /\ done' = [done EXCEPT ![h].sent = TRUE]
        /\ UNCHANGED at
    BY <1>3 DEF Dial
  <2>2. pc'[h] = "wait" /\ done'[h] = [done[h] EXCEPT !.sent = TRUE] /\ done[h] \in Outcomes
    BY <1>1, <2>1
  <2>3. done'[h].reports = done[h].reports
    BY <2>2, ChangedFields
  <2>4. Tried(h)'
    BY <1>2, <2>1, <2>2, <2>3 DEF Tries, Tried, Excused
  <2>5. QED
    BY <1>1, <1>2, <2>1, <2>4, TriedMoves
<1>4. CASE ~(~expired[h] /\ (attempt[h] = "tcp" \/ Alone(h)))
  <2>1. attempt[h] # "udp" => expired[h] \/ upstreams[at[h]] # "well"
    BY <1>1, <1>2, <1>4 DEF PortIsFree
  <2>2. expired[h] => \E j \in 1..at[h] : upstreams[j] = "silent"
    BY <1>2 DEF Tries, Tried
  <2>3. at[h] \in Nat
    BY <1>1
  <2>4. expired[h] \/ upstreams[at[h]] # "well" => Excused(at[h])
    BY <2>2, <2>3 DEF Excused
  <2>5. Fail(h)
    BY <1>4 DEF Dial
  <2>6. QED
    BY <1>2, <2>1, <2>2, <2>4, <2>5, FailTried
<1>5. QED
  BY <1>3, <1>4

LEMMA NoAnswerTried ==
  ASSUME FilterInv, Tries, NEW h \in Handlers, NoAnswer(h)
  PROVE  Tries'
<1>1. at[h] \in 1..Len(upstreams) /\ expired \in [Handlers -> BOOLEAN]
  BY PartsOfInv DEF Routes
<1>2. /\ pc[h] = "wait" /\ Fail(h) /\ UNCHANGED upstreams /\ upstreams[at[h]] # "well"
      /\ \/ UNCHANGED expired
         \/ upstreams[at[h]] = "silent" /\ expired' = [expired EXCEPT ![h] = TRUE]
  BY DEF NoAnswer
<1>3. \A g \in Handlers \ {h} : expired'[g] = expired[g]
  BY <1>1, <1>2
<1>4. at[h] \in 1..at[h]
  BY <1>1
<1>5. expired'[h] => \E j \in 1..at[h] : upstreams[j] = "silent"
  BY <1>2, <1>4 DEF Tries, Tried
<1>6. Excused(at[h])
  BY <1>2 DEF Excused
<1>7. QED
  BY <1>2, <1>3, <1>5, <1>6, FailTried

\* A query that gets a response, or whose handler is through with it.
LEMMA OthersTried ==
  ASSUME FilterInv, Tries, NEW h \in Handlers, Truncated(h) \/ Respond(h) \/ Return(h)
  PROVE  Tries'
<1>1. /\ pc \in [Handlers -> {"idle", "dial", "wait", "answered"}]
      /\ done \in [Handlers -> Outcomes] /\ at \in [Handlers -> 1..Len(upstreams)]
      /\ expired \in [Handlers -> BOOLEAN]
  BY PartsOfInv DEF Progress, Routes
<1>2. CASE Truncated(h)
  <2>1. /\ pc[h] = "wait" /\ pc' = [pc EXCEPT ![h] = "dial"]
        /\ UNCHANGED <<upstreams, at, expired, done>>
    BY <1>2 DEF Truncated, Answers
  <2>2. Tried(h)'
    BY <1>1, <2>1 DEF Tries, Tried, Excused
  <2>3. QED
    BY <1>1, <2>1, <2>2, TriedMoves
<1>3. CASE Respond(h)
  <2>1. PICK p \in Responses : \/ Answer(h, Stolen(h))
                               \/ Answer(h, Passed(h, p))
    BY <1>3, RespondIs
  <2>2. pc[h] = "wait" /\ UNCHANGED <<upstreams, at, expired>>
    BY <1>3 DEF Respond, Answers
  <2>3. "ERROR" \notin done[h].reports /\ done[h] \in Outcomes
    BY <1>1, <2>2 DEF Tries, Tried
  <2>4. "ERROR" \notin Stolen(h).reports
    <3>1. Stolen(h).reports = done[h].reports \cup {"BLOCKED"}
      BY <2>3 DEF Stolen, Outcomes
    <3>2. QED
      BY <2>3, <3>1
  <2>5. "ERROR" \notin Passed(h, p).reports
    <3>1. Passed(h, p).reports = done[h].reports \cup (IF ExfilResponse(p) THEN {"AUDIT"} ELSE {})
                                                \cup (IF Full(h) THEN {"ALLOWED"} ELSE {})
      BY <2>3 DEF Passed, Outcomes
    <3>2. QED
      BY <2>3, <3>1
  <2>6. /\ pc'[h] = "answered" /\ "ERROR" \notin done'[h].reports
        /\ \A g \in Handlers \ {h} : pc'[g] = pc[g] /\ done'[g] = done[g]
    BY <1>1, <2>1, <2>4, <2>5 DEF Answer
  <2>7. Tried(h)'
    BY <2>6 DEF Tried
  <2>8. QED
    BY <2>2, <2>6, <2>7, TriedMoves
<1>4. CASE Return(h)
  <2>1. /\ pc' = [pc EXCEPT ![h] = "idle"] /\ done' = [done EXCEPT ![h] = Untouched]
        /\ at' = [at EXCEPT ![h] = 1] /\ expired' = [expired EXCEPT ![h] = FALSE]
        /\ UNCHANGED upstreams
    BY <1>4 DEF Return
  <2>2. pc'[h] = "idle" /\ "ERROR" \notin done'[h].reports
    BY <1>1, <2>1 DEF Untouched
  <2>3. Tried(h)'
    BY <2>2 DEF Tried
  <2>4. QED
    BY <1>1, <2>1, <2>3, TriedMoves
<1>5. QED
  BY <1>2, <1>3, <1>4

LEMMA ReceiveTried ==
  ASSUME FilterInv, Tries, NEW h \in Handlers, NEW s \in Sources, NEW r \in Requests,
         Receive(h, s, r)
  PROVE  Tries'
<1>1. /\ pc \in [Handlers -> {"idle", "dial", "wait", "answered"}]
      /\ done \in [Handlers -> Outcomes] /\ at \in [Handlers -> 1..Len(upstreams)]
      /\ expired \in [Handlers -> BOOLEAN] /\ UNCHANGED upstreams
  BY PartsOfInv DEF Progress, Routes, Receive
<1>2. ASSUME NEW answer \in {"REFUSED", "sinkhole", "NXDOMAIN"},
             NEW reports \in {{}, {"BLOCKED"}}, Reply(h, answer, reports)
      PROVE  Tries'
  <2> DEFINE what == [Untouched EXCEPT !.answer = answer, !.reports = reports]
  <2>1. /\ pc' = [pc EXCEPT ![h] = "answered"] /\ done' = [done EXCEPT ![h] = what]
        /\ UNCHANGED <<at, expired>>
    BY <1>2 DEF Reply, Answer
  <2>2. what.reports = reports
    BY DEF Untouched
  <2> HIDE DEF what
  <2>3. pc'[h] = "answered" /\ "ERROR" \notin done'[h].reports
    BY <1>1, <1>2, <2>1, <2>2
  <2>4. Tried(h)'
    BY <2>3 DEF Tried
  <2>5. QED
    BY <1>1, <2>1, <2>4, TriedMoves
<1>3. ASSUME NEW reports \in {{}, {"AUDIT"}}, Forward(h, r, reports)
      PROVE  Tries'
  <2> DEFINE what == [Untouched EXCEPT !.reports = reports, !.learned = Learned(r.name, Allowlist, o)]
  <2>1. /\ pc' = [pc EXCEPT ![h] = "dial"] /\ done' = [done EXCEPT ![h] = what]
        /\ at' = [at EXCEPT ![h] = 1] /\ expired' = [expired EXCEPT ![h] = FALSE]
    BY <1>3 DEF Forward
  <2>2. what.reports = reports
    BY DEF Untouched
  <2> HIDE DEF what
  <2>3. "ERROR" \notin done'[h].reports /\ at'[h] = 1 /\ ~expired'[h]
    BY <1>1, <1>3, <2>1, <2>2
  <2>4. Tried(h)'
    BY <2>3 DEF Tried
  <2>5. QED
    BY <1>1, <2>1, <2>4, TriedMoves
<1>4. QED
  BY <1>2, <1>3, ReceiveIs

LEMMA TriesStep ==
  ASSUME FilterInv, Tries, [PortIsFree]_vars, [Next]_vars PROVE Tries'
<1>1. CASE UNCHANGED dnsVars
  BY <1>1, TriedStays DEF Tries, dnsVars
<1>2. CASE \E h \in Handlers : Handle(h)
  <2>1. PICK h \in Handlers : Handle(h)
    BY <1>2
  <2>2. CASE Dial(h) /\ PortIsFree
    BY <2>2, DialTried
  <2>3. CASE UNCHANGED vars
    BY <2>3, TriedStays DEF Tries, vars, dnsVars
  <2>4. QED
    BY <2>1, <2>2, <2>3, NoAnswerTried, OthersTried DEF Handle
<1>3. QED
  BY <1>1, <1>2, ReceiveTried DEF Next, Tick, vars

\* For any number of concurrent queries and any upstreams: as long as those second
\* attempts find their ports free, no query fails that an upstream would have
\* answered, unless one that says nothing came before.  A port taken by another
\* query once, and upstreams that refuse, do not matter.
THEOREM FallsBackHolds == Spec /\ [][PortIsFree]_vars => []FallsBack
<1>1. Init => Tries
  BY DEF Init, Tries, Tried, Untouched
<1>2. FilterInv /\ Tries /\ [PortIsFree]_vars /\ [Next]_vars => Tries'
  BY TriesStep
<1>3. Tries => FallsBack
  BY DEF Tries, Tried, Excused, FallsBack
<1>4. QED
  BY <1>1, <1>2, <1>3, FilterInvariance, PTL DEF Spec
=============================================================================
