---------------------------- MODULE ResolvedSet ----------------------------
(***************************************************************************)
(* The addresses dns-strict opens (nftables/resolved.go, and the handler   *)
(* of filter/dns_filter.go that pushes them).                              *)
(*                                                                         *)
(* A handler forwards a permitted query, puts the addresses of the answer  *)
(* into a kernel set with a timeout, and only then answers.  Adding an     *)
(* element that is there fails, so a refresh is up to three nft commands:  *)
(* add, delete, add.  Handlers run concurrently and share the set.  A      *)
(* reload makes a new, empty set at once; the service group with the old   *)
(* policy goes on until the supervisor cancels it, after which its         *)
(* commands fail.                                                          *)
(*                                                                         *)
(* The order of ruleset and services in a reload is PolicyReload's.        *)
(***************************************************************************)
EXTENDS Naturals, Sequences, FiniteSets

CONSTANTS
  Handlers,   \* concurrent queries
  Domains, Ips,
  Policies,   \* the domains a policy opens addresses for; none if it degrades
  TTLs,       \* the TTLs of answers
  Floor,      \* minResolvedTTL
  Ceiling,    \* maxResolvedTTL
  MaxReloads, \* bound on reloads
  Faults      \* TRUE: nft commands may time out

ASSUME PoliciesAssumption == Policies \subseteq SUBSET Domains
ASSUME NonEmptyAssumption == Domains # {} /\ Ips # {} /\ TTLs # {}
ASSUME TimesAssumption ==
  TTLs \subseteq Nat /\ Floor \in Nat \ {0} /\ Ceiling \in Nat /\ Floor <= Ceiling
ASSUME BoundsAssumption == MaxReloads \in Nat /\ Faults \in BOOLEAN

VARIABLES
  enforced, \* the domains of the policy the ruleset was made from
  groups,   \* the policies of the service groups started so far
  behind,   \* the ruleset is newer than the running group
  left,     \* left[i]: the time left of address i in the set, 0 if absent
  pc, group, domain, ttl, todo, ip, \* a handler, from the forwarded answer on
  \* What the properties speak of:
  opened,   \* opened[i]: the domain i was last opened for
  since,    \* the group that ran when the ruleset was installed
  due,      \* due[h]: addresses h has dealt with since the last reload
  owed,     \* owed[i]: how long clients that were answered count on i
  lost      \* addresses whose last update failed, which is logged

setVars == <<left, opened, lost>>
policyVars == <<enforced, groups, behind, since>>
vars == <<policyVars, setVars, pc, group, domain, ttl, todo, ip, due, owed>>

\* Types; no timeout passes the ceiling, and no handler is of a future group.
TypeOK ==
  /\ enforced \in Policies /\ groups \in Seq(Policies)
  /\ Len(groups) \in 1..(MaxReloads + 1) /\ since \in 1..Len(groups)
  /\ behind \in BOOLEAN
  /\ left \in [Ips -> 0..Ceiling] /\ owed \in [Ips -> 0..Floor]
  /\ pc \in [Handlers -> {"idle", "next", "add", "delete", "readd"}]
  /\ group \in [Handlers -> 1..Len(groups)]
  /\ domain \in [Handlers -> Domains] /\ opened \in [Ips -> Domains]
  /\ ttl \in [Handlers -> TTLs]
  /\ todo \in [Handlers -> SUBSET Ips] /\ due \in [Handlers -> SUBSET Ips]
  /\ ip \in [Handlers -> Ips]
  /\ lost \subseteq Ips

Init ==
  /\ enforced \in Policies /\ groups = <<enforced>> /\ behind = FALSE /\ since = 1
  /\ left = [i \in Ips |-> 0] /\ owed = [i \in Ips |-> 0] /\ lost = {}
  /\ pc = [h \in Handlers |-> "idle"]
  /\ group = [h \in Handlers |-> 1]
  /\ domain = [h \in Handlers |-> CHOOSE d \in Domains : TRUE]
  /\ opened = [i \in Ips |-> CHOOSE d \in Domains : TRUE]
  /\ ttl = [h \in Handlers |-> CHOOSE t \in TTLs : TRUE]
  /\ todo = [h \in Handlers |-> {}] /\ due = [h \in Handlers |-> {}]
  /\ ip = [h \in Handlers |-> CHOOSE i \in Ips : TRUE]

-----------------------------------------------------------------------------
(* A query, from its upstream answer on.                                   *)

\* Defect: only the floor is applied.
Clamp_NoCeiling(t) == IF t < Floor THEN Floor ELSE t

\* clampTTL.
Clamp(t) == IF t < Floor THEN Floor ELSE IF t > Ceiling THEN Ceiling ELSE t

\* Defect: the commands run under a context nobody cancels.
Alive_Always(h) == group[h] \in 1..Len(groups)

\* The context of the handler's group is not cancelled; runNft starts no command
\* under a cancelled one.
Alive(h) == group[h] = Len(groups)

\* handle: the running group permits the name, and upstream has answered.
Query(h) ==
  /\ pc[h] = "idle"
  /\ \E d \in groups[Len(groups)] : domain' = [domain EXCEPT ![h] = d]
  /\ \E t \in TTLs : ttl' = [ttl EXCEPT ![h] = t]
  /\ \E is \in SUBSET Ips \ {{}} : todo' = [todo EXCEPT ![h] = is]
  /\ group' = [group EXCEPT ![h] = Len(groups)]
  /\ due' = [due EXCEPT ![h] = {}]
  /\ pc' = [pc EXCEPT ![h] = "next"]
  /\ UNCHANGED <<policyVars, setVars, ip, owed>>

\* AddResolvedIPs: the next address; its first command is started.
Begin(h, i) ==
  /\ pc[h] = "next" /\ i \in todo[h]
  /\ todo' = [todo EXCEPT ![h] = @ \ {i}]
  /\ ip' = [ip EXCEPT ![h] = i]
  /\ IF Alive(h)
     THEN pc' = [pc EXCEPT ![h] = "add"] /\ UNCHANGED <<lost, due>>
     ELSE lost' = lost \cup {i} /\ due' = [due EXCEPT ![h] = @ \cup {i}] /\ UNCHANGED pc
  /\ UNCHANGED <<policyVars, left, opened, group, domain, ttl, owed>>

\* h is through with its address.
Done(h) ==
  /\ pc' = [pc EXCEPT ![h] = "next"]
  /\ due' = [due EXCEPT ![h] = @ \cup {ip[h]}]

\* The element, which was absent, is in the set from now on.
Put(h) ==
  /\ left[ip[h]] = 0
  /\ left' = [left EXCEPT ![ip[h]] = Clamp(ttl[h])]
  /\ opened' = [opened EXCEPT ![ip[h]] = domain[h]]

\* The same, and the command reports it.
Open(h) == Put(h) /\ lost' = lost \ {ip[h]} /\ Done(h)

\* The update of this address has failed; the handler goes on.
GiveUp(h) == lost' = lost \cup {ip[h]} /\ Done(h)

\* The next command is started, unless the context has ended.
Start(h, command) ==
  IF Alive(h) THEN pc' = [pc EXCEPT ![h] = command] /\ UNCHANGED <<lost, due>> ELSE GiveUp(h)

Add(h) ==
  /\ pc[h] = "add"
  /\ \/ Open(h)
     \/ left[ip[h]] > 0 /\ Start(h, "delete") /\ UNCHANGED <<left, opened>>
  /\ UNCHANGED <<policyVars, group, domain, ttl, todo, ip, owed>>

\* The result of the delete is not looked at.
Delete(h) ==
  /\ pc[h] = "delete"
  /\ left' = [left EXCEPT ![ip[h]] = 0]
  /\ Start(h, "readd")
  /\ UNCHANGED <<policyVars, opened, group, domain, ttl, todo, ip, owed>>

Readd(h) ==
  /\ pc[h] = "readd"
  /\ \/ Open(h)
     \/ left[ip[h]] > 0 /\ GiveUp(h) /\ UNCHANGED <<left, opened>>
  /\ UNCHANGED <<policyVars, group, domain, ttl, todo, ip, owed>>

\* The running command is killed with the context of its group, or times out:
\* before it had its effect, or after.
Killed(h) ==
  /\ Faults \/ ~Alive(h)
  /\ \/ pc[h] = "add" /\ Start(h, "delete")
     \/ pc[h] = "delete" /\ Start(h, "readd")
     \/ pc[h] = "readd" /\ GiveUp(h)
  /\ \/ UNCHANGED <<left, opened>>
     \/ pc[h] \in {"add", "readd"} /\ Put(h)
  /\ UNCHANGED <<policyVars, group, domain, ttl, todo, ip, owed>>

\* Defect: the client is answered while the addresses are being added.
Answer_First(h) ==
  /\ pc[h] = "next"
  /\ todo' = [todo EXCEPT ![h] = {}]
  /\ owed' = [i \in Ips |-> IF i \in todo[h] \cup due[h] THEN Floor ELSE owed[i]]
  /\ pc' = [pc EXCEPT ![h] = "idle"]
  /\ due' = [due EXCEPT ![h] = {}]
  /\ UNCHANGED <<policyVars, setVars, group, domain, ttl, ip>>

\* WriteMsg, after the push.  The client connects to what it is told.
Answer(h) ==
  /\ pc[h] = "next" /\ todo[h] = {}
  /\ owed' = [i \in Ips |-> IF i \in due[h] THEN Floor ELSE owed[i]]
  /\ pc' = [pc EXCEPT ![h] = "idle"]
  /\ due' = [due EXCEPT ![h] = {}]
  /\ UNCHANGED <<policyVars, setVars, group, domain, ttl, todo, ip>>

-----------------------------------------------------------------------------
(* Time and reloads.                                                       *)

\* Commands take seconds at most, timeouts are minutes: a handler is done before
\* a unit of time has passed.
Elapse ==
  /\ \A h \in Handlers : pc[h] = "idle"
  /\ \E i \in Ips : left[i] > 0
  /\ left' = [i \in Ips |-> IF left[i] > 0 THEN left[i] - 1 ELSE 0]
  /\ owed' = [i \in Ips |-> IF owed[i] > 0 THEN owed[i] - 1 ELSE 0]
  /\ UNCHANGED <<policyVars, opened, lost, pc, group, domain, ttl, todo, ip, due>>

\* loadAndApplyPolicy: new tables with an empty set.  What was answered before
\* is owed no more.  A command of a cancelled group is killed long before.
Reload ==
  /\ Len(groups) <= MaxReloads
  /\ \A h \in Handlers : ~Alive(h) => pc[h] \in {"idle", "next"}
  /\ enforced' \in Policies
  /\ behind' = TRUE /\ since' = Len(groups)
  /\ left' = [i \in Ips |-> 0] /\ lost' = {}
  /\ due' = [h \in Handlers |-> {}]
  /\ owed' = [i \in Ips |-> 0]
  /\ UNCHANGED <<groups, opened, pc, group, domain, ttl, todo, ip>>

\* restartServices: the group is cancelled and one with the new policy started.
Restart ==
  /\ behind
  /\ groups' = Append(groups, enforced) /\ behind' = FALSE
  /\ UNCHANGED <<enforced, since, setVars, pc, group, domain, ttl, todo, ip, due, owed>>

Next ==
  \/ \E h \in Handlers : \/ Query(h) \/ Add(h) \/ Delete(h) \/ Readd(h) \/ Killed(h) \/ Answer(h)
                         \/ \E i \in Ips : Begin(h, i)
  \/ Elapse \/ Reload \/ Restart

Spec == Init /\ [][Next]_vars

-----------------------------------------------------------------------------
(* Properties.                                                             *)

\* dns_filter.go:533, a client that connects at once does not race the update:
\* from the answer until the floor has passed the address is open, save for the
\* moment of a refresh, a failed update, and a reload.
AnsweredIsOpen ==
  \A i \in Ips : owed[i] > 0 =>
    \/ left[i] >= owed[i]
    \/ i \in lost
    \/ \E h \in Handlers : ip[h] = i /\ pc[h] = "readd"

\* An open address was resolved for a domain that the enforced policy allows, or
\* a group that has run since it was installed: the window between ruleset and
\* services leaves entries of one older policy at most, and a cancelled group
\* adds none.
OpenIsRecent ==
  \A i \in Ips : left[i] > 0 => \E g \in since..Len(groups) : opened[i] \in groups[g]
=============================================================================
