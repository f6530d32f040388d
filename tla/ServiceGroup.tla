---------------------------- MODULE ServiceGroup ----------------------------
(***************************************************************************)
(* The listeners of successive service groups (g0efilter/app.go,           *)
(* filter/dns_filter.go, serveTCP of filter/common.go).                    *)
(*                                                                         *)
(* Every reload cancels the running group and starts the next one at once, *)
(* while the old one still holds its ports.  A group has a goroutine per   *)
(* service that tries to serve and, after an error, tries again five       *)
(* seconds later.  The HTTP and HTTPS services bind in that goroutine.     *)
(* The DNS service hands its two servers, UDP and TCP, to goroutines of    *)
(* their own, which bind when they get to run, and returns the first error *)
(* while the other server of the attempt goes on.  Another goroutine waits *)
(* for the cancellation and shuts the servers down; a server that has not  *)
(* started yet is then missed (ShutdownContext returns an error), binds    *)
(* later, and is never shut down.                                          *)
(*                                                                         *)
(* A group is the number of the policy it serves with.                     *)
(***************************************************************************)
EXTENDS Naturals, FiniteSets

CONSTANT MaxGroups \* bound on reloads

ASSUME MaxGroupsAssumption == MaxGroups \in Nat \ {0}

Groups == 1..MaxGroups
Services == {"dns", "https", "http"}
PortsOf(s) == IF s = "dns" THEN {"udp", "tcp"} ELSE {s}
Ports == {"udp", "tcp", "https", "http"}
NoGroup == 0

VARIABLES
  mode,     \* dns or https
  current,  \* the group started last
  stopped,  \* the context of them all is cancelled
  loop,     \* loop[g][s]: the goroutine of runServiceWithRetry
  pending,  \* pending[g][p]: a DNS server of the last attempt that has not bound yet
  holder,   \* holder[p]: the group that has the port
  orphans   \* ports held by a server that was missed

groupVars == <<mode, current, stopped, loop, pending, holder, orphans>>

Active == IF mode = "dns" THEN {"dns"} ELSE {"https", "http"}
Cancelled(g) == g < current \/ stopped

\* Types; ports are orphaned in the dns modes only, and by cancelled groups.
GroupTypeOK ==
  /\ mode \in {"dns", "https"} /\ current \in Groups /\ stopped \in BOOLEAN
  /\ loop \in [Groups -> [Services -> {"off", "begin", "serving", "waiting", "done"}]]
  /\ pending \in [Groups -> [Ports -> {"none", "starting", "missed"}]]
  /\ holder \in [Ports -> Groups \cup {NoGroup}]
  /\ orphans \subseteq Ports
  /\ \A p \in orphans : mode = "dns" /\ holder[p] # NoGroup /\ Cancelled(holder[p])

Started == [s \in Services |-> IF s \in Active THEN "begin" ELSE "off"]

GroupInit ==
  /\ mode \in {"dns", "https"} /\ current = 1 /\ stopped = FALSE
  /\ loop = [g \in Groups |-> IF g = 1 THEN Started ELSE [s \in Services |-> "off"]]
  /\ pending = [g \in Groups |-> [p \in Ports |-> "none"]]
  /\ holder = [p \in Ports |-> NoGroup]
  /\ orphans = {}

Goto(g, s, l) == loop' = [loop EXCEPT ![g][s] = l]

-----------------------------------------------------------------------------
(* The goroutine of a service.                                             *)

\* Serve80, Serve443: Listen, and then Accept until the listener is closed.
Listen(g, s) ==
  /\ s # "dns" /\ loop[g][s] = "begin" /\ ~Cancelled(g)
  /\ IF holder[s] = NoGroup
     THEN holder' = [holder EXCEPT ![s] = g] /\ Goto(g, s, "serving")
     ELSE UNCHANGED holder /\ Goto(g, s, "waiting")
  /\ UNCHANGED <<mode, current, stopped, pending, orphans>>

\* runDNSServers starts both servers.
StartServers(g) ==
  /\ loop[g]["dns"] = "begin" /\ ~Cancelled(g)
  /\ pending' = [pending EXCEPT ![g] = [p \in Ports |-> IF p \in PortsOf("dns") THEN "starting" ELSE @[p]]]
  /\ Goto(g, "dns", "serving")
  /\ UNCHANGED <<mode, current, stopped, holder, orphans>>

\* Defect: a failing server is logged, and nobody is told.
BindFails_Quiet(g, p) ==
  /\ pending[g][p] # "none" /\ holder[p] # NoGroup
  /\ pending' = [pending EXCEPT ![g][p] = "none"]
  /\ UNCHANGED <<mode, current, stopped, loop, holder, orphans>>

\* ListenAndServe finds the port taken, also by the group's own earlier attempt;
\* the first error ends Serve53.
BindFails(g, p) ==
  /\ pending[g][p] # "none" /\ holder[p] # NoGroup
  /\ pending' = [pending EXCEPT ![g][p] = "none"]
  /\ IF loop[g]["dns"] = "serving" THEN Goto(g, "dns", "waiting") ELSE UNCHANGED loop
  /\ UNCHANGED <<mode, current, stopped, holder, orphans>>

\* ListenAndServe takes the port.
Bind(g, p) ==
  /\ pending[g][p] # "none" /\ holder[p] = NoGroup
  /\ holder' = [holder EXCEPT ![p] = g]
  /\ orphans' = IF pending[g][p] = "missed" THEN orphans \cup {p} ELSE orphans
  /\ pending' = [pending EXCEPT ![g][p] = "none"]
  /\ UNCHANGED <<mode, current, stopped, loop>>

\* Defect: the context is looked at once only.
Retry_Once(g, s) == FALSE /\ loop[g][s] = "waiting" /\ UNCHANGED groupVars

\* time.After(retryDelay).  A goroutine started five seconds ago has run by now.
Retry(g, s) ==
  /\ loop[g][s] = "waiting" /\ ~Cancelled(g)
  /\ \A p \in PortsOf(s) : pending[g][p] = "none"
  /\ Goto(g, s, "begin")
  /\ UNCHANGED <<mode, current, stopped, pending, holder, orphans>>

\* The goroutine sees that its context has ended, wherever it waits; Accept
\* returns when the listener is closed.
Leave(g, s) ==
  /\ loop[g][s] \in {"begin", "serving", "waiting"} /\ Cancelled(g)
  /\ loop[g][s] = "serving" /\ s # "dns" => holder[s] # g
  /\ Goto(g, s, "done")
  /\ UNCHANGED <<mode, current, stopped, pending, holder, orphans>>

-----------------------------------------------------------------------------
(* The goroutine that waits for the cancellation.                          *)

\* ShutdownContext of a server that has not started: an error, not looked at.
Miss(g, p) ==
  /\ pending[g][p] = "starting" /\ Cancelled(g)
  /\ pending' = [pending EXCEPT ![g][p] = "missed"]
  /\ UNCHANGED <<mode, current, stopped, loop, holder, orphans>>

\* Defect: a missed server is thought to be shut down.
Release_Missed(g, p) ==
  /\ holder[p] = g /\ Cancelled(g)
  /\ holder' = [holder EXCEPT ![p] = NoGroup]
  /\ UNCHANGED <<mode, current, stopped, loop, pending, orphans>>

\* ShutdownContext, or Close of the listener: the port is free.
Release(g, p) ==
  /\ holder[p] = g /\ p \notin orphans /\ Cancelled(g)
  /\ holder' = [holder EXCEPT ![p] = NoGroup]
  /\ UNCHANGED <<mode, current, stopped, loop, pending, orphans>>

-----------------------------------------------------------------------------
(* The supervisor.                                                         *)

\* restartServices: cancel, and start the next group.
Restart ==
  /\ ~stopped /\ current < MaxGroups
  /\ current' = current + 1
  /\ loop' = [loop EXCEPT ![current + 1] = Started]
  /\ UNCHANGED <<mode, stopped, pending, holder, orphans>>

\* stopServices at shutdown.
Stop ==
  /\ ~stopped
  /\ stopped' = TRUE
  /\ UNCHANGED <<mode, current, loop, pending, holder, orphans>>

Goroutine(g) ==
  \/ \E s \in Services : Listen(g, s) \/ Retry(g, s) \/ Leave(g, s)
  \/ StartServers(g)
  \/ \E p \in Ports : BindFails(g, p) \/ Bind(g, p) \/ Miss(g, p) \/ Release(g, p)

GroupNext == Restart \/ Stop \/ \E g \in Groups : Goroutine(g)

\* Goroutines run and timers fire.  Nobody has to reload or to stop.
GroupFairness ==
  \A g \in Groups :
    /\ WF_groupVars(StartServers(g))
    /\ \A s \in Services : WF_groupVars(Listen(g, s)) /\ WF_groupVars(Retry(g, s)) /\ WF_groupVars(Leave(g, s))
    /\ \A p \in Ports : WF_groupVars(BindFails(g, p) \/ Bind(g, p)) /\ WF_groupVars(Release(g, p))

GroupSpec == GroupInit /\ [][GroupNext]_groupVars /\ GroupFairness

-----------------------------------------------------------------------------
(* Properties.                                                             *)

ActivePorts == UNION {PortsOf(s) : s \in Active}

\* The running group never believes that it serves while one of its ports is
\* somebody else's: it has the port, or is about to bind, or will try again.
\* (runDNSServers returns the first of two errors and leaves the other server.)
NeverStuck ==
  ~stopped =>
    \A s \in Active : \A p \in PortsOf(s) :
      \/ holder[p] = current
      \/ pending[current][p] = "starting"
      \/ loop[current][s] \in {"begin", "waiting"}

Served(p) == holder[p] = IF stopped THEN NoGroup ELSE current

\* After the last reload the last group has every port, whatever it had to wait
\* for, and after a shutdown nobody has: save for ports held by a missed server.
Settles == <>[](\A p \in ActivePorts : Served(p) \/ p \in orphans)

\* docs/policy.md:19, "edits apply without restarting the container": the group
\* with the last policy ends up serving.
EditsAreServed == <>[](stopped \/ \A p \in ActivePorts : Served(p))
=============================================================================
