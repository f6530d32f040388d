----------------------------- MODULE RateLimiter ----------------------------
(***************************************************************************)
(* The per-source limit on DNS queries (dnsRateLimiter in                  *)
(* filter/dns_hardening.go): token buckets in a map of bounded size.  A    *)
(* call holds the mutex throughout and is one step.  Time is counted in    *)
(* units in which a bucket gains Qps tokens.                               *)
(***************************************************************************)
EXTENDS Naturals, FiniteSets

CONSTANTS
  Sources,     \* the addresses queries come from
  Burst, Qps,  \* newDNSRateLimiter replaces what is not positive
  MaxSources,  \* rateLimiterMaxSources
  IdleEvict,   \* rateLimiterIdleEvict
  MaxTime      \* bound on the clock

ASSUME RatesAssumption == Burst \in Nat \ {0} /\ Qps \in Nat \ {0}
ASSUME RoomAssumption == MaxSources \in Nat \ {0} /\ IdleEvict \in Nat
ASSUME ClockAssumption == MaxTime \in Nat /\ IsFiniteSet(Sources)

VARIABLES
  now,
  buckets, \* for the sources that have one: tokens, and when they were counted
  \* What the properties speak of, for the bucket of each source:
  spent,   \* queries it has let through
  born     \* when it was made

limiterVars == <<now, buckets, spent, born>>

Buckets == [tokens : 0..Burst, last : 0..MaxTime]

LimiterTypeOK ==
  /\ now \in 0..MaxTime
  /\ \E S \in SUBSET Sources : buckets \in [S -> Buckets]
  /\ spent \in [Sources -> Nat] /\ born \in [Sources -> 0..MaxTime]

LimiterInit ==
  /\ now = 0
  /\ buckets = [s \in {} |-> [tokens |-> Burst, last |-> 0]]
  /\ spent = [s \in Sources |-> 0] /\ born = [s \in Sources |-> 0]

Min2(a, b) == IF a < b THEN a ELSE b

Crowded(S) == Cardinality(S) >= MaxSources

\* pruneLocked leaves these.
Busy == {s \in DOMAIN buckets : now - buckets[s].last <= IdleEvict}

\* Defect: any bucket goes when there are too many.
Kept_Any ==
  LET pruned == IF Crowded(DOMAIN buckets) THEN Busy ELSE DOMAIN buckets
  IN IF Crowded(pruned) THEN {pruned \ {s} : s \in pruned} ELSE {pruned}

\* The sources that keep their bucket when a new one is to be made: the idle ones
\* go, and one of those heard of least recently if that is not enough.
Kept ==
  LET pruned == IF Crowded(DOMAIN buckets) THEN Busy ELSE DOMAIN buckets
      Oldest == {s \in pruned : \A t \in pruned : buckets[s].last <= buckets[t].last}
  IN IF Crowded(pruned) THEN {pruned \ {s} : s \in Oldest} ELSE {pruned}

Refilled(b) == Min2(Burst, b.tokens + Qps * (now - b.last))

\* Defect: the time of the count is not moved on.
Draw_SameTime(s, passed) ==
  LET tokens == Refilled(buckets[s])
  IN /\ passed = (tokens >= 1)
     /\ buckets' = [buckets EXCEPT ![s].tokens = IF passed THEN tokens - 1 ELSE tokens]
     /\ spent' = [spent EXCEPT ![s] = IF passed THEN @ + 1 ELSE @]
     /\ UNCHANGED <<now, born>>

\* s has a bucket: what it has gained, less one if that lets the query pass.
Draw(s, passed) ==
  LET tokens == Refilled(buckets[s])
  IN /\ passed = (tokens >= 1)
     /\ buckets' = [buckets EXCEPT ![s] =
          [tokens |-> IF passed THEN tokens - 1 ELSE tokens, last |-> now]]
     /\ spent' = [spent EXCEPT ![s] = IF passed THEN @ + 1 ELSE @]
     /\ UNCHANGED <<now, born>>

\* s has none, and gets a full one.
Admit(s) ==
  \E K \in Kept :
    /\ buckets' = [t \in K \cup {s} |->
         IF t = s THEN [tokens |-> Burst - 1, last |-> now] ELSE buckets[t]]
    /\ spent' = [spent EXCEPT ![s] = 1]
    /\ born' = [born EXCEPT ![s] = now]
    /\ UNCHANGED now

\* allow
Allow(s, passed) ==
  IF s \in DOMAIN buckets THEN Draw(s, passed) ELSE passed /\ Admit(s)

Elapse ==
  /\ now < MaxTime /\ now' = now + 1
  /\ UNCHANGED <<buckets, spent, born>>

LimiterNext == Elapse \/ \E s \in Sources, passed \in BOOLEAN : Allow(s, passed)

LimiterSpec == LimiterInit /\ [][LimiterNext]_limiterVars

-----------------------------------------------------------------------------
(* Properties.                                                             *)

\* Whatever the order of queries, refusals and pauses, a bucket lets through its
\* burst and what it has gained since it was made; and a flood of new sources
\* does not make the map grow.
RateHolds ==
  /\ \A s \in DOMAIN buckets :
       spent[s] + buckets[s].tokens <= Burst + Qps * (buckets[s].last - born[s])
  /\ Cardinality(DOMAIN buckets) <= MaxSources

\* A source that is refused gets a full burst again only if it pauses for long,
\* or if MaxSources others have asked since: its bucket is dropped for no less.
BucketsLast ==
  [][\A s \in DOMAIN buckets \ DOMAIN buckets' :
       \/ now - buckets[s].last > IdleEvict
       \/ Crowded({t \in DOMAIN buckets' : buckets'[t].last >= buckets[s].last})]_limiterVars
=============================================================================
