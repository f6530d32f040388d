------------------------------ MODULE DnsFilter ------------------------------
(***************************************************************************)
(* The DNS proxy (filter/dns_filter.go, filter/dns_hardening.go): what     *)
(* becomes of a query, from the limiter to the answer.  A goroutine per    *)
(* query runs handle; they share the limiter and the counter the source    *)
(* ports of forwarded queries are taken from.                              *)
(*                                                                         *)
(* A decision depends on the query and on settings that never change, so   *)
(* handle up to forward is one step, and each attempt to reach an upstream *)
(* two: its socket is bound, and it ends.  That the answer's addresses are *)
(* in the kernel before the client sees it is ResolvedSet's; starting and  *)
(* stopping the servers is ServiceGroup's.  The DNS library refuses        *)
(* messages that do not have one question.                                 *)
(***************************************************************************)
EXTENDS RateLimiter, Hosts

CONSTANTS
  Handlers,            \* bound on concurrent queries
  Requests,            \* name, valid, qtype, and long: a label or the name is
  Responses,           \* truncated, bulky (or a NULL record), and the A/AAAA records
  Settings,            \* the options, the upstreams in the order they are tried, and a
                       \* bound on the queries
  Allowlist, Denylist,
  Stopped,             \* the names the documents say are stopped, by the default action
  Ports                \* size of the range MarkedDNSDialer rotates through

\* What an upstream does: it answers, by UDP only, refuses at once, or says nothing.
Behaviours == {"well", "udp", "refuses", "silent"}

Switches == {"learning", "defaultAllow", "audit", "hardening", "hook"}

ASSUME PortsAssumption == Ports \in Nat \ {0}
ASSUME RequestsAssumption == Requests # {}
ASSUME ResponsesAssumption == \A p \in Responses : \A a \in p.records : a.ttl \in Nat
ASSUME SettingsAssumption ==
  \A s \in Settings :
    /\ s.queries \in Nat /\ s.options \in [Switches -> BOOLEAN]
    /\ s.upstreams \in Seq(Behaviours) \ {<<>>}  \* defaultUpstreamsFromEnv

VARIABLES
  o, upstreams, \* the settings of this instance
  dnsForwardPort,
  queries,      \* how many more are made
  pc, request,
  at,           \* the upstream in use, and how: by UDP, once again, by TCP
  attempt,
  port,         \* the source port of the UDP client
  expired,      \* the timeout of the whole of forward has passed
  done          \* what h has done about its query: see Untouched

dnsVars == <<o, upstreams, dnsForwardPort, queries, pc, request, at, attempt, port, expired, done>>
vars == <<limiterVars, dnsVars>>

\* The answer, the actions reported, whether the query left, the addresses that
\* were opened, the name that was learned, the records the client was told.
Untouched == [answer |-> "none", reports |-> {}, sent |-> FALSE, opened |-> {}, ttl |-> 0,
              learned |-> {}, told |-> {}]

Idle == CHOOSE r \in Requests : TRUE

Init ==
  /\ LimiterInit
  /\ \E s \in Settings :
       o = s.options /\ upstreams = s.upstreams /\ queries = s.queries
  /\ dnsForwardPort = 0
  /\ pc = [h \in Handlers |-> "idle"]
  /\ request = [h \in Handlers |-> Idle]
  /\ at = [h \in Handlers |-> 1] /\ attempt = [h \in Handlers |-> "udp"]
  /\ port = [h \in Handlers |-> 0] /\ expired = [h \in Handlers |-> FALSE]
  /\ done = [h \in Handlers |-> Untouched]

TypeOK ==
  /\ LimiterTypeOK
  /\ queries \in Nat /\ dnsForwardPort \in 0..(Ports - 1)
  /\ pc \in [Handlers -> {"idle", "dial", "wait", "answered"}]
  /\ request \in [Handlers -> Requests]
  /\ at \in [Handlers -> 1..Len(upstreams)]
  /\ attempt \in [Handlers -> {"udp", "again", "tcp"}]
  /\ port \in [Handlers -> 0..(Ports - 1)] /\ expired \in [Handlers -> BOOLEAN]
  /\ \A h \in Handlers : pc[h] = "answered" <=> done[h].answer # "none"

-----------------------------------------------------------------------------
(* The decision.                                                           *)

Enforcing == ~o.audit /\ ~o.learning

\* checkExfilQuery
LooksLikeTunnel(r) == r.qtype = "NULL" \/ r.long

\* blockExfilQuery, which does not ask about the root.
ExfilQuery(r) == o.hardening /\ r.name # None /\ LooksLikeTunnel(r)

\* blockExfilResponse
ExfilResponse(response) == o.hardening /\ response.bulky

Permitted(r) == Permits(r.name, Allowlist, Denylist, o)

\* WriteMsg: the query of h is answered, and everything about it is known.
Answer(h, what) == pc' = [pc EXCEPT ![h] = "answered"] /\ done' = [done EXCEPT ![h] = what]

Reply(h, answer, reports) ==
  /\ Answer(h, [Untouched EXCEPT !.answer = answer, !.reports = reports])
  /\ UNCHANGED <<dnsForwardPort, at, attempt, port, expired>>

\* Defect: the range is one too long.
NextPort_OneMore == (dnsForwardPort + 1) % (Ports + 1)

NextPort == (dnsForwardPort + 1) % Ports

\* MarkedDNSDialer: the rotated port.
FreshPort(h) == dnsForwardPort' = NextPort /\ port' = [port EXCEPT ![h] = NextPort]

\* handleAllowedRequest, up to the first attempt of forward.
Forward(h, r, reports) ==
  /\ done' = [done EXCEPT ![h] = [Untouched EXCEPT
       !.reports = reports, !.learned = Learned(r.name, Allowlist, o)]]
  /\ FreshPort(h)
  /\ at' = [at EXCEPT ![h] = 1] /\ attempt' = [attempt EXCEPT ![h] = "udp"]
  /\ expired' = [expired EXCEPT ![h] = FALSE]
  /\ pc' = [pc EXCEPT ![h] = "dial"]

\* sanitizeAndLogQname: in every mode.
Refused(r) == ~r.valid

\* handle, once the limiter has let the query pass.
Decide(h, r) ==
  LET audited == Audited(Permitted(r), o)
      noted == IF ExfilQuery(r) \/ audited THEN {"AUDIT"} ELSE {}
  IN \/ Refused(r) /\ Reply(h, "REFUSED", {})
     \/ /\ ~Refused(r) /\ ExfilQuery(r) /\ Enforcing
        /\ Reply(h, "REFUSED", {"BLOCKED"})
     \/ /\ ~Refused(r) /\ ~(ExfilQuery(r) /\ Enforcing)
        /\ \/ ~Permitted(r) /\ ~audited
              /\ Reply(h, IF r.qtype \in {"A", "AAAA"} THEN "sinkhole" ELSE "NXDOMAIN", {"BLOCKED"})
           \/ (Permitted(r) \/ audited) /\ Forward(h, r, noted)

\* The limiter is part of the hardening, and comes first.
Receive(h, s, r) ==
  /\ pc[h] = "idle" /\ queries > 0
  /\ queries' = queries - 1
  /\ request' = [request EXCEPT ![h] = r]
  /\ \E passed \in BOOLEAN :
       /\ IF o.hardening THEN Allow(s, passed) ELSE passed /\ UNCHANGED limiterVars
       /\ IF passed THEN Decide(h, r) ELSE Reply(h, "REFUSED", {})
  /\ UNCHANGED <<o, upstreams>>

-----------------------------------------------------------------------------
(* forward                                                                 *)

Alone(h) == \A g \in Handlers \ {h} : ~(pc[g] = "wait" /\ attempt[g] # "tcp" /\ port[g] = port[h])

\* Every upstream has failed.
GiveUp(h) ==
  /\ Answer(h, [done[h] EXCEPT !.answer = "SERVFAIL", !.reports = @ \cup {"ERROR"}])
  /\ UNCHANGED <<dnsForwardPort, at, attempt, port>>

\* Defect: the second attempt is bound to the same port.
Fail_SamePort(h) ==
  \/ /\ attempt[h] = "udp"
     /\ attempt' = [attempt EXCEPT ![h] = "again"]
     /\ pc' = [pc EXCEPT ![h] = "dial"] /\ UNCHANGED <<dnsForwardPort, port, at, done>>
  \/ /\ attempt[h] # "udp" /\ at[h] < Len(upstreams)
     /\ at' = [at EXCEPT ![h] = @ + 1] /\ attempt' = [attempt EXCEPT ![h] = "udp"]
     /\ pc' = [pc EXCEPT ![h] = "dial"] /\ UNCHANGED <<dnsForwardPort, port, done>>
  \/ attempt[h] # "udp" /\ at[h] = Len(upstreams) /\ GiveUp(h)

\* Defect: a failed attempt is repeated with the same upstream.
Fail_Again(h) ==
  /\ attempt' = [attempt EXCEPT ![h] = "again"] /\ FreshPort(h)
  /\ pc' = [pc EXCEPT ![h] = "dial"] /\ UNCHANGED <<at, done>>

\* The attempt has failed: one more by UDP on a fresh port, or the next upstream.
Fail(h) ==
  \/ /\ attempt[h] = "udp"
     /\ attempt' = [attempt EXCEPT ![h] = "again"] /\ FreshPort(h)
     /\ pc' = [pc EXCEPT ![h] = "dial"] /\ UNCHANGED <<at, done>>
  \/ /\ attempt[h] # "udp" /\ at[h] < Len(upstreams)
     /\ at' = [at EXCEPT ![h] = @ + 1] /\ attempt' = [attempt EXCEPT ![h] = "udp"]
     /\ pc' = [pc EXCEPT ![h] = "dial"] /\ UNCHANGED <<dnsForwardPort, port, done>>
  \/ attempt[h] # "udp" /\ at[h] = Len(upstreams) /\ GiveUp(h)

\* ExchangeContext dials: not under a context that has ended, and not from a port
\* that another query is forwarded from.
Dial(h) ==
  /\ pc[h] = "dial"
  /\ IF ~expired[h] /\ (attempt[h] = "tcp" \/ Alone(h))
     THEN /\ pc' = [pc EXCEPT ![h] = "wait"]
          /\ done' = [done EXCEPT ![h].sent = TRUE]
          /\ UNCHANGED <<dnsForwardPort, at, attempt, port>>
     ELSE Fail(h)
  /\ UNCHANGED <<limiterVars, o, upstreams, queries, request, expired>>

\* No answer, or none before the deadline: the client's timeout and that of the
\* context are the same, so a silent upstream uses up all the time there is.
NoAnswer(h) ==
  /\ pc[h] = "wait"
  /\ \/ upstreams[at[h]] = "refuses" /\ UNCHANGED expired
     \/ upstreams[at[h]] = "udp" /\ attempt[h] = "tcp" /\ UNCHANGED expired
     \/ upstreams[at[h]] = "silent" /\ expired' = [expired EXCEPT ![h] = TRUE]
  /\ Fail(h)
  /\ UNCHANGED <<limiterVars, o, upstreams, queries, request>>

Answers(h) ==
  /\ pc[h] = "wait"
  /\ upstreams[at[h]] = "well" \/ (upstreams[at[h]] = "udp" /\ attempt[h] # "tcp")

\* What does not fit into a datagram is asked for again by TCP.
Truncated(h) ==
  /\ Answers(h) /\ attempt[h] # "tcp"
  /\ \E response \in Responses : response.truncated
  /\ attempt' = [attempt EXCEPT ![h] = "tcp"] /\ pc' = [pc EXCEPT ![h] = "dial"]
  /\ UNCHANGED <<limiterVars, o, upstreams, dnsForwardPort, queries, request, at, port, expired, done>>

\* extractAnswerIPs
OpenFor(records) ==
  IF records = {} THEN 0
  ELSE CHOOSE t \in {a.ttl : a \in records} : \A a \in records : t <= a.ttl

\* Defect: what audit mode lets through counts as permitted.
Full_Always(h) == TRUE

\* fullyPermitted
Full(h) == Permitted(request[h])

\* handleAllowedRequest, from the answer of forward on.
Respond(h) ==
  /\ Answers(h)
  /\ \E response \in Responses :
       LET bulky == ExfilResponse(response)
           opened == IF Full(h) /\ o.hook THEN {a.ip : a \in response.records} ELSE {}
       IN /\ response.truncated => attempt[h] = "tcp"
          /\ IF bulky /\ Enforcing
             THEN Answer(h, [done[h] EXCEPT !.answer = "SERVFAIL", !.reports = @ \cup {"BLOCKED"}])
             ELSE Answer(h, [done[h] EXCEPT
                    !.answer = "upstream", !.told = response.records, !.opened = opened,
                    !.ttl = IF opened = {} THEN 0 ELSE OpenFor(response.records),
                    !.reports = @ \cup (IF bulky THEN {"AUDIT"} ELSE {})
                                  \cup (IF Full(h) THEN {"ALLOWED"} ELSE {})])
  /\ UNCHANGED <<limiterVars, o, upstreams, dnsForwardPort, queries, request, at, attempt, port, expired>>

\* The goroutine ends.
Return(h) ==
  /\ pc[h] = "answered"
  /\ pc' = [pc EXCEPT ![h] = "idle"]
  /\ request' = [request EXCEPT ![h] = Idle] /\ done' = [done EXCEPT ![h] = Untouched]
  /\ at' = [at EXCEPT ![h] = 1] /\ attempt' = [attempt EXCEPT ![h] = "udp"]
  /\ port' = [port EXCEPT ![h] = 0] /\ expired' = [expired EXCEPT ![h] = FALSE]
  /\ UNCHANGED <<limiterVars, o, upstreams, dnsForwardPort, queries>>

Tick == o.hardening /\ Elapse /\ UNCHANGED dnsVars

Handle(h) == Dial(h) \/ NoAnswer(h) \/ Truncated(h) \/ Respond(h) \/ Return(h)

Next ==
  \/ \E h \in Handlers : Handle(h) \/ \E s \in Sources, r \in Requests : Receive(h, s, r)
  \/ Tick

Spec == Init /\ [][Next]_vars

\* Goroutines are scheduled; an attempt ends, by the deadline if nothing else.
FairSpec == Spec /\ \A h \in Handlers : WF_vars(Handle(h))

-----------------------------------------------------------------------------
(* Properties.                                                             *)

\* What has become of a query when it is answered.  Of a name that the policy stops
\* nothing leaves, unless audit lets it; of one that looks like a tunnel nothing
\* leaves either, though its name be allowed, unless audit or learning lets it;
\* everything that passes is reported as what it is, and only what is reported as
\* allowed opens addresses, those the client is told, and for no longer than any of
\* them is good.
VerdictIsTrue ==
  \A h \in Handlers : pc[h] = "answered" =>
    LET r == request[h]
        d == done[h]
        against == r.name \in Stopped[o.defaultAllow] /\ ~o.learning
        tunnel == o.hardening /\ r.name # None /\ LooksLikeTunnel(r)
    IN /\ d.sent \/ d.answer = "upstream" =>
            /\ r.valid /\ (against => o.audit)
            /\ tunnel => (o.audit \/ o.learning) /\ "AUDIT" \in d.reports
       /\ d.answer = "upstream" =>
            /\ against => "AUDIT" \in d.reports
            /\ "ALLOWED" \in d.reports <=> ~against
       /\ "ALLOWED" \in d.reports => d.answer = "upstream"
       /\ "BLOCKED" \in d.reports => d.answer # "upstream" /\ Enforcing
       /\ d.opened # {} => /\ "ALLOWED" \in d.reports /\ o.hook
                           /\ d.opened = {a.ip : a \in d.told}
                           /\ \A a \in d.told : d.ttl <= a.ttl
       /\ d.learned \subseteq {r.name} /\ (d.learned # {} => o.learning)

\* dns_filter.go:629, "try next upstream": a query fails only if no upstream
\* would answer it, or one that says nothing was tried before.  That the first
\* upstreams refuse does not matter, nor that another query holds the port, as long
\* as there are no more queries than ports.
FallsBack ==
  \A h \in Handlers : "ERROR" \in done[h].reports =>
    \A i \in 1..Len(upstreams) :
      upstreams[i] = "well" => \E j \in 1..(i - 1) : upstreams[j] = "silent"

\* Every query is answered, however the upstreams behave.
EveryQueryAnswered == \A h \in Handlers : pc[h] = "dial" ~> pc[h] = "answered"
=============================================================================
