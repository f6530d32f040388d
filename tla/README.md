# g0efilter: verification models

g0efilter is an egress filter for containers. One process per protected
network namespace installs an nftables ruleset, redirects DNS, HTTP and HTTPS
traffic to local proxies that decide by domain name, and reloads its policy file
while it runs. A second program, the dashboard, collects the filter's events,
streams them to browsers and hands administrators' "unblock" requests back to
the filters. This directory holds TLA+ models of both, the TLC runs that check
them and the TLAPS proofs about them.

## Inventory

| Component | State | Operations | Interacts with | Hard part | Model |
|---|---|---|---|---|---|
| Policy live reload (`g0efilter/app.go`) | policy file, kernel ruleset, `lastHash`, `reloadCh`, service group | startup load, tick (hash, read, apply, send), supervise, shutdown | policy file, nftables, services | the file is read twice per tick, stale updates are dropped, nft fails | `PolicyReload` |
| Policy file (`policy/policy.go`, `learner.go`) | YAML on disk | `AppendDomain`, `AppendIP`, learner `record`/`flush` | watcher, learner, unblock poller, editors | unlocked read-modify-write, truncating writes | `PolicyFile` |
| Kernel ruleset (`nftables/nftables.go`) | four tables | generate, apply, log prefixes | reload, NFLOG | three modes, two stances, two hooks, rule order | `Ruleset`, `Egress` |
| Resolved set (`nftables/resolved.go`, `dns-strict`) | timed set of addresses | add, delete, expire, flush by reload | DNS filter, reload | an element is replaced in three commands, old service groups | `ResolvedSet` |
| Service groups (`app.go`, `dns_filter.go`, `common.go`) | listeners of successive groups | bind, fail, retry, shut down | reload, the ports | the new group binds while the old one holds the ports; servers in goroutines of their own | `ServiceGroup` |
| DNS filter (`filter/dns_filter.go`, `dns_hardening.go`) | queries under way, rate-limit buckets, source ports | limit, decide, forward, answer | upstream resolvers, resolved set | order of the checks, one deadline over several upstreams, a bounded map | `DnsFilter`, `RateLimiter` |
| HTTP and HTTPS filters (`filter/http_filter.go`, `https_filter.go`, `common.go`, `clienthello.go`) | connections | accept, parse, decide, dial, splice | policy, learner | decision order, two buffers before the copying, one deadline | `Relay`, `Hosts` |
| Remote unblock (`app.go`, `dashboard/unblock.go`) | pending and completed requests | create, poll, apply, acknowledge | dashboard, policy file | two processes, lost answers, restarts, several filters | `RemoteUnblock` |
| Log shipping (`logging/logging.go`) | bounded queue, workers | enqueue, post, retry, stop | dashboard | retries after a lost answer, shutdown | `LogPipeline` |
| Dashboard log (`dashboard/store.go`, `broadcaster.go`, `handlers.go`, `payload.go`) | ring buffer, streams | ingest, query, clear, follow | filters, browsers | storing and sending are two steps, so are the two of a clear; slow pages | `LogStore`, `LogPipeline` |
| Dashboard server, configuration, page | settings; the browser's copy | route, render | | | not modelled |
| Flow bookkeeping (`actions/flow.go`) | recent synthetic events | mark, check, prune | NFLOG stream | two sources report one connection | not modelled |
| Alerts (`alerting/notifier.go`) | time of the last alert per key | notify, clean up | NFLOG, filters | a failed send | not modelled |
| Process lookup (`procinfo/procinfo.go`) | cache | look up, resolve, evict | /proc | stale entries | not modelled |
| Rate limiters (`dns_hardening.go`, `dashboard/rate_limiter.go`) | token buckets | allow, prune, evict | DNS, dashboard API | bounded map | `RateLimiter` (DNS) |
| Commands, network helpers, action scripts | none that changes | parse, dial | | pure code and I/O | not modelled |

### What makes each component correct

- **Live reload**: what the kernel enforces and what the services enforce are the
  same policy whenever no reload is under way or owed; a policy that does not parse
  or that nft refuses changes nothing; updates are neither lost nor reordered; every
  edit is enforced in the end.
- **Policy file**: an append that succeeds never removes a value, and nothing is
  reported as added that is not there.
- **Ruleset**: nothing leaves that neither the policy nor a proxy let through;
  what the allowlist names passes; the proxies' own packets are not sent back to
  them; a denied address is never reached; audit never blocks; reports are true.
- **Resolved set**: an address is open from before its answer is sent until its
  TTL ends or the policy is reloaded, and for no domain that neither the policy
  nor the one just replaced allows.
- **Service groups**: after a reload one group serves, with the new policy, and
  the old one lets go of its ports; a group that lacks a port tries again.
- **DNS filter**: nothing that the policy stops is forwarded; every query is
  answered; one failing upstream does not take the answer of another away; no
  source gets more than its rate, and the map of sources stays bounded.
- **HTTP and HTTPS filters**: one verdict, the right one, per connection; the
  server gets exactly what the client sent; no connection holds the proxy for ever.
- **Remote unblock**: a host appends what was asked for it and nothing else; what
  is shown as done is done; what is queued is not forgotten.
- **Log shipping, dashboard log**: an event that was logged is shipped or dropped
  on purpose, and stored no more often than retries make it; the store is a log of
  the newest entries; a page that keeps up is told every one of them.

## Modules

| Module | What it is | Code |
|---|---|---|
| `LivePolicy` | abstract: an enforced policy that changes to policies the file held | what `docs/policy.md` promises of live reload |
| `PolicyReload` | `Run`, the watcher and the supervisor as interleaved steps, with edits | `g0efilter/app.go` |
| `PolicyReloadProofs` | inductive invariant, safety, refinement of `LivePolicy` | |
| `Ruleset` | the nftables templates as sequences of rules, and how a chain decides | `nftables/nftables.go` |
| `Egress` | a flow meeting the installed ruleset, with conntrack, reloads and resolved entries | `ApplyPolicyRulesWithContext`, the kernel |
| `EgressProofs` | any policies, settings and flows: what every generated chain does, and the five safety properties | |
| `Allowlist` | abstract: a list that grows atomically, and what was reported | |
| `PolicyFile` | learner and unblock poller appending with read, truncate, write | `policy/policy.go`, `learner.go`, `app.go` |
| `PolicyFileProofs` | one writer: invariant, safety, refinement of `Allowlist` | |
| `Approvals` | abstract: hosts allow only what was asked for on them | |
| `RemoteUnblock` | the dashboard's pending list and the pollers | `dashboard/unblock.go`, `handlers.go`, `app.go` |
| `RemoteUnblockProofs` | named hosts: invariant, safety, refinement of `Approvals` | |
| `ResolvedSet` | dns-strict: concurrent handlers that put addresses into the kernel's timed set before they answer, under reloads | `nftables/resolved.go`, `filter/dns_filter.go`, `app.go` |
| `ResolvedSetProofs` | any handlers and reloads: invariant and safety | |
| `ServiceGroup` | listeners of successive groups on the same ports | `app.go`, `filter/dns_filter.go`, `filter/common.go` |
| `Hosts` | names, patterns and the verdict on a name | `filter/common.go`, `validate.go` |
| `Relay` | one connection through the HTTP or HTTPS filter; uses `Hosts` | `filter/http_filter.go`, `https_filter.go`, `clienthello.go`, `common.go` |
| `ServingProofs` | any number of reloads, and streams, names and options of a connection: invariants and safety of `ServiceGroup` and `Relay` | |
| `RateLimiter` | the token buckets of the DNS filter | `filter/dns_hardening.go` |
| `DnsFilter` | queries from the limiter to the answer; composes `RateLimiter` and `Hosts` | `filter/dns_filter.go`, `dns_hardening.go`, `netutil.go` |
| `DnsFilterProofs` | any rates, sources, settings and handlers: safety of the limiter, alone and in the filter, the verdicts, the fallback | |
| `RecentLog` | abstract: the newest entries, numbered since the last clear | |
| `LogStore` | the ring buffer, shown to implement `RecentLog` | `dashboard/store.go` |
| `LogPipeline` | the filter's queue and workers, the dashboard's handlers and streams; composes `LogStore` | `logging/logging.go`, `dashboard/handlers.go`, `payload.go`, `broadcaster.go` |
| `LogPipelineProofs` | any sizes, workers and pages: invariant, safety, refinement of `RecentLog` | |
| `MC*` | values for the constants of small instances | |

An operator named `X_Something` next to an action or rule `X` is that definition
with a plausible defect. It is not part of the specification: putting it in X's
place must break the property it was written for, which shows that the property
can fail.

How the modules hang together: `PolicyReload` says which policy kernel and
services carry; `ServiceGroup` which group of services has the ports after that
many reloads; `Egress` what the kernel does with a flow under a policy, taking
the proxies' packets as marked; `Relay` and `DnsFilter` what the proxies do with
what the kernel hands them; `ResolvedSet` what the DNS filter's answers do to the
kernel, under the reloads of `PolicyReload`. `PolicyFile` and `RemoteUnblock` are
where edits other than a person's come from. `LogPipeline` is the way of the
verdicts out.

### PolicyReload

`history` is every content the file has had; a revision is an index into it.
`kernel` and `services` are the revisions each enforces, `lastHash` the content
of the last hash (SHA-256 is taken as injective), `reloadCh` the channel of
capacity one. `Run` is `RunRead`, `RunApply`, `RunHash`: `loadInitialPolicy`
reads and applies the policy and only then hashes the file. A tick is `Tick`
(hash), `WatchRead` (the second read, in `loadAndApplyPolicy`), `WatchApply` or
`WatchApplyFail` (nft), then `sendLatest` as `SendFast`, `SendDrain`, `SendPush`,
because the supervisor may take the buffered update between any two of its
selects. The supervisor is `Receive`, `StartGroup`, `Shutdown`. `Edit` may give
the file any content, none included, at any moment. A truncating save counts as
two edits. An existing file is taken to be readable. The test of `ctx.Err` in
`supervise` (the context can only end in the same select) is left out.

nft applies a ruleset completely or not at all (`nft -f` is one transaction), but
whether the run counts as failed is another matter: `applyRuleset` kills nft after
ten seconds, or when the context ends, also when the ruleset is already committed
(`NftFails`, and the second disjunct of `RunApply`). The watcher then keeps its
`lastHash` and sends nothing, so that kernel and services differ until a later tick
reloads. `killed` is history: the ruleset that stands came from such a run.

`InSync` excuses this state and no other (`ReloadOwed`). `EditsApply` has two
hypotheses, and both are needed: no edit between reading and hashing at startup,
and no edit that restores earlier bytes. `ServicesFollow` has one, and it is needed
too: a reload that is owed is not for ever blocked (`ReloadBlocked`) by a file that
is no policy or that holds again the bytes of `lastHash`. It names only states
after a killed run, so that without one the services always follow.

### Ruleset and Egress

Every template of the Go file is a sequence of rules with what they match and
what they do, in the order of the template; rule text, counters and the table
names are gone. `generateEnforcingRuleset` chooses templates as the Go function
does, `auditRuleset` rewrites them. `Verdict` (nftables evaluation) and conntrack
are external. One flow is enough, since no rule relates two flows: the first
packet is translated by the NAT chain, keeps its original output interface, and
meets the filter chain; later packets take the remembered translation.

### PolicyFile

A batch (`todo[w]`) is taken by `Flush` or `Poll`, then every value goes through
`Load`, `Truncate`, `Write`; `pc`, `arg` and `base` are the locals of
`appendToAllowlist`. The order of values in a batch is left open: the code's is
one of them. A failed load, a failed write and a crash at any step are actions
(`Faults`, `MaxCrashes`). A write that fails, or whose process dies, is cut off
after some byte (`CutOff`): the file holds any part of the data, perhaps with its
last entry shortened, or it does not parse (`garbled`) and nothing can be appended
any more. A shortened entry is a member of `Stumps`, which no writer asks for;
which entries are left is any subset, more than the prefixes there can be, because
the order in the file is not modelled. `torn` says that this has happened. A
process with a file that does not parse would not start again; here it starts and
every load fails, which comes to the same for the file. Values are already
normalised, a domain or an address alike.

### RemoteUnblock

One action per call: `Create`, `Fetch`, `Apply`, `ApplyFails`, `Acked`,
`AckLost`. A lost answer equals a call that arrived, because the poller only
logs what comes back; that is why `Acked` has no outcome. Append to a host's
file is one step, which `PolicyFile` justifies for one writer; removing values
from a host's file by hand is left out. `Named` are the hosts that send
`HOSTNAME`. The dashboard takes any printable text (`Values`), an append only
domains and addresses (`Acceptable`): a request for anything else fails at every
poll (`ApplyFails`) and is never acknowledged. In the instance one host alone is
asked by name; requests for every host by name are in the proofs.

### ResolvedSet

A handler (`pc[h]`) starts at the upstream answer to a permitted query. `Begin`
takes an address of the answer, `Add`, `Delete` and `Readd` are the three nft
commands of `addResolvedElement`, each atomic in the kernel, and `Killed` is a
command that its context or its 3 s timeout ends, before or after it had its
effect. `GiveUp` is what `strictResolvedHook` does with an error: it logs it.
`Answer` is `WriteMsg`. `Reload` makes a new set, `Restart` cancels the group:
from then on `Alive` is false for its handlers and no command is started. A
policy under which the hook is absent (default allow, learning) is one that
allows no domain here, since it opens nothing. Two relations of time are taken
from the code's constants: a handler is through (seconds) before a unit of an
element's timeout (minutes) has passed, and a command is killed before the next
reload but one. The order of the addresses of an answer is left open.

`owed`, `due`, `lost`, `since` and `opened` are history: what clients were told,
what a handler is about to tell, failed updates, and where the set came from.

### ServiceGroup

`loop[g][s]` is the goroutine of `runServiceWithRetry` for service `s` of group
`g`, `pending` the DNS servers whose `ListenAndServe` has not run yet, `holder`
who has a port. `Restart` starts the next group in the step that cancels the old
one, as `restartServices` does; releasing the ports is the old group's own doing
(`Release`, `Miss`). Taken from the DNS library: shutting down a server that has
not started is an error and does not keep it from starting later.

### Relay

A connection is one behaviour: `ReadHead` (five seconds at most: `ParseFails`),
`Block` or `Admit`, `TargetKnown`, `Dial`, then the two copying goroutines, `up*`
and `down*`, whose steps interleave. A stream is the numbers of its chunks. What
was read from the client before the copying lies in two buffers, `head` and
`ahead`, and `pos` counts what has been taken from the socket. `age` and
`expired` are the deadline of `setConnTimeouts`; `moved` is history. `Hosts` has
names as sequences of labels and one operator per function of `common.go`.

What the documents say of a name is data of the instance: `Stopped` gives, for
each default action, the names that are stopped, and `VerdictIsTrue`, of `Relay`
and of `DnsFilter`, compares with it what becomes of a connection or a query.
`AsDocumented` says that the lists and `Stopped` agree: for the name alone, with
neither learning nor auditing on, `Permits` stops what `Stopped` names.

### DnsFilter and RateLimiter

The limiter's `Allow` is one step under its mutex; time is in units in which a
bucket gains `Qps` tokens. `Receive` takes a query through `rateLimited` and
`handle` down to the first dial, in one step, because the decision reads settings
that never change; the limiter is the shared state it touches. `Dial`,
`NoAnswer`, `Truncated` and `Respond` are the attempts of `forward`: an upstream
answers, answers by UDP only, refuses at once, or says nothing, which uses up the
deadline all attempts share (`expired`). An answer by TCP is taken as it comes,
truncated or not. `port` comes from the shared rotating
counter; two UDP forwards cannot use one port at a time (`Alone`). `done[h]` is
what the handler has done about its query so far, and is what the properties
speak of. A message without a question is refused by the library.

### LogStore and LogPipeline

`LogStore` is `memStore`: cells, `head`, `count`, `nextID`; `Recent` is `Query`.
In `LogPipeline` a worker is `Take`, `Post`, then an answer (`Reply`), or
`PostFails` or `Cancel`, then `Retry`, which gives up when the time for the
retries is over (`Late`). The handler of a post stores the entry (`Insert`),
sends it to the streams (`Send`) and answers; each is a step of its own, so
handlers, clears and pages interleave. A handler goes on when its worker has
cancelled, and may outlive the filter. `Stop` and `Exit` are the filter's
shutdown, which does not wait for the queue. `copies`, `lost`, `given`, `told`,
`since`, `missed` and `early` are history. Clears may overlap: `clearing` counts
those whose notice has not been sent. One event is one post; the startup
probe and the entries the dashboard rejects change nothing. A handler takes far
less (no I/O) than the wait before a retry, so that a worker has one handler.

## Runs

Twelve runs; the three that expect a violation are the findings below.

| Run | Question | Bounds |
|---|---|---|
| `reload` | do kernel and services stay in step, does it all implement `LivePolicy`, is every edit enforced, do the services follow? | four contents, one unparsable, and no file; three edits: two updates on their way and a third being sent; nft runs that fail before or after their commit |
| `egress_rules` | who gets out, who is proxied, who is dropped, what is reported? | two remote and two loopback addresses, every mode, stance, audit, family, protocol and port the rules name, marked or not |
| `file_writers` | does one writer lose or misreport anything, does every value arrive? | three values, one of them listed from the start, the learner holds two (so the cap is met); loads that fail, writes cut off anywhere, with one shortened entry that parses, and one crash |
| `file_two_writers` | do two writers? violated | two values, no failures |
| `unblock_hosts` | do requests reach the hosts they are for and no other, is nothing forgotten, does everything that can be applied settle? | two hosts, requests for one of them (the other must not get those) and for all, one value that can be listed and one that cannot, two pending of three requests (so the store fills), one completed entry (so the list is cut), one restart |
| `resolved_set` | is an address open when the client is told it, and for whom does it stay open? | two handlers on one address (what they race for), two policies of one domain each, two reloads, TTLs below the floor (2) and above the ceiling (3), failing commands |
| `relay_stream` | does the server get the client's stream, is the verdict the documented one, does every connection end? | seven names against an allowlist and a denylist with each kind of pattern, all 16 option settings; a head of two chunks, three from the client, one from the server |
| `relay_idle` | does the deadline end idle connections only? violated | one name, one setting |
| `group_settles` | is a group without its ports ever stuck, do ports end up with the last group? | three groups: an old, a middle and a new one, which is what it takes for a middle one to be cancelled before it has bound; both modes |
| `group_missed_server` | does the last policy always end up served? violated | the same |
| `dns_filter` | are verdicts true, is every query answered and every upstream tried, does the limiter hold? | two concurrent queries, three sources against a map of two (so one is evicted), two source ports, burst and rate 1, two units of time; eight settings: each mode, with and without hardening, and upstreams that refuse, answer by UDP only or say nothing before one that answers; one to three queries |
| `log_pipeline` | does anything vanish, do pages that keep up see everything, is the store a log, is all shipped? | two workers, queue 1, ring 2, channels 1; five settings: a filter in trouble with two events; three events, a page and a clear; two events and two pages; an event, trouble, a page and a clear; two events, a page and two clears, which may overlap |

`CHECK_DEADLOCK FALSE` is set where the bounds (edits, crashes, ids, queries,
events, the end of a connection) let everything come to rest. The types of
`LogPipeline` are not an invariant of its run: they are proved.

### Fairness

Goroutines are scheduled, tickers and timers fire. Nobody is obliged to edit, to
ask, to send, to log, to clear, to stop or to follow a page. In detail:

- `PolicyReload`: weak fairness of `Run`, the watcher and the supervisor; strong
  fairness of `WatchApply`, since nft may fail at a tick but the tick is repeated
  and nft is taken not to fail for ever.
- `PolicyFile`: weak fairness of the two goroutines; strong fairness of the
  poller's load and write of each value, which are tried again with every poll.
  The learner's are not: it never tries again. A file that does not parse stays so:
  no load of it succeeds, and fairness of a load asks nothing then.
- `RemoteUnblock`: weak fairness of working through a batch, strong fairness of
  fetching, of applying each request for an acceptable value and of
  acknowledgements that arrive, all of which are repeated at every poll. Nothing is
  assumed of requests for other values: no append of them ever succeeds.
- `ServiceGroup` (`GroupFairness`): weak fairness of each goroutine: listening, binding, retrying
  after the delay, leaving, releasing. `Miss` is not fair: it is a race.
- `Relay`: weak fairness of the handler, of each copying goroutine and of time.
- `DnsFilter`: weak fairness of each handler; an attempt ends, by the deadline if
  nothing else ends it. The clock of the limiter is not fair.
- `LogPipeline`: weak fairness of the start delay (until a stop), the workers, the handlers and
  the retry clock. Streams are not fair: a page may be slow for ever.

## What the runs show

Findings, each the counterexample of a run:

1. **Two writers overwrite each other** (`file_two_writers`): with learning and
   remote unblock both on, an acknowledged value can vanish from the file.
2. **The idle timeout is a lifetime** (`relay_idle`): the deadline is set once,
   before the copying, and ends a busy connection after ten minutes.
3. **A DNS server that is missed at shutdown keeps its port**
   (`group_missed_server`): two reloads in quick succession can leave the middle
   group's server running with its policy, for the life of the process.

Seen while modelling, without a run of their own:

- An edit between load and hash in `loadInitialPolicy` is hashed as if it had been
  applied: no tick ever sees a difference. `QuietStartup` in `EditsApply` is there
  for this.
- A tick hashes one content and loads another; if the file returns to what was
  hashed, the loaded one stays enforced. Hence `FreshBytes` in `EditsApply`.
- The default-deny IPv6 chain of https mode drops neighbour discovery
  (`nftables.go:690`), which the dns-strict template calls required
  (`nftables.go:529`).
- `docs/modes.md:3` says that traffic to allowlisted addresses passes directly;
  in the dns modes port 53 is redirected before the allowlist is looked at.
- `nftables.go:594` says that loopback-bound traffic is always allowed; in https
  mode the NAT chain redirects ports 80 and 443 of loopback addresses too, unless
  the loopback address is one the rules except.
- `docs/modes.md:81` says that resolved entries are flushed on policy reload. The
  old group still adds entries between the flush and its end, and they stay until
  their timeout or the next reload. `OpenIsRecent` says how far that goes.
- A failed append of the learner is never repeated (`learner.go:115`): the value
  stays in `seen`. `docs/policy.md:51` says that every domain is appended.
- A crash, or a full disk, during the rewrite leaves any prefix of the policy file:
  an empty policy, which is valid, a shorter list, one whose last entry is cut (a
  prefix length may become a shorter one), or text that is no policy, which no
  append repairs and with which the filter does not start. `Allowlist` has this as
  its step `Tear`.
- nft that is killed after its commit counts as failed (`nftables.go:126`): the
  kernel has the new rules and the services the old policy until a tick reloads.
  If the file then is no policy, or has the bytes of the last hash again, no tick
  does. `ReloadBlocked` in `ServicesFollow` is there for this.
- The dashboard accepts requests no append accepts (`handlers.go:523` takes any
  printable text, `policy.go:176` wants a domain): such a request fails at every
  poll, stays pending until the dashboard ends, and takes one of its thousand places.
- A request for all hosts reaches the first that applies it, whose
  acknowledgement deletes the request (`unblock.go:130`).
- A filter without `HOSTNAME` is given all requests and consumes those of others
  (`handlers.go:335`). The theorems on `RemoteUnblock` assume `AllNamed`.
- Requests do not survive a restart of the dashboard; every promise about them is
  stated up to one.
- `forward` gives its context the timeout of a single attempt: an upstream that
  says nothing uses it up, and the next one is dialled under a context that has
  ended. "Try next upstream" (`dns_filter.go:629`) works only for upstreams that
  fail at once; `FallsBack` says exactly that.
- `docs/policy.md:51` says that nothing is blocked in learning mode; with hardening
  on, the rate limit refuses queries there too, and invalid names are refused in
  every mode.
- Every restart of the services makes a new limiter with full buckets.
- A permitted connection whose original destination is unknown is closed with no
  verdict in the log.
- `serveTCP` repeats a failing `Accept` at once, without a pause.
- A clear empties the store before the streams hear of it; what is stored in
  between is sent first, and the page drops it with the rest (`early`).
- Shutdown gives the workers one second and a post may be retried for longer;
  what is queued is lost. A full queue drops events, with a warning
  (`dashboard.queue_full`) in the filter's own log.
- An alert's backoff begins before the alert is sent, so a failed send silences it.
- The ids of the log start again at a clear: a client that keeps an id over it and
  asks for what is newer (`since_id`) misses what follows. The page does not.
- The kernel's report of a redirected connection is dropped if the proxy has noted
  its own (`nftables.go:1124`); if it is read first, both are logged.
- The page reads the log and then opens its stream; entries in between are not
  shown until the next load (`app.js:325`).

## Proofs

TLAPS proves, for every value of the constants that its hypotheses admit: every safety
property of the runs, the types of every component, and the refinements of
`LivePolicy`, `Allowlist`, `Approvals` and `RecentLog`. What is assumed of the
constants stands as a named `ASSUME` in the module that declares them:

| Module | Assumptions |
|---|---|
| `PolicyReload` | `ReadableAssumption`, `AbsentAssumption`, `NoHashAssumption` (what parses is a content, and the markers are none), `MaxEditsAssumption` |
| `PolicyFile` | `DeploymentsAssumption`, `NoValueAssumption`, `BoundsAssumption`; none on `Stumps` |
| `Ruleset`, `Egress` | `RemoteAssumption` (no address is both loopback and remote), `PoliciesAssumption`, `SettingsAssumption` (policies and settings have the fields of the Go structs, with the modes and DNS ports there are), `FlowsAssumption` (what the kernel routes through `lo` is what goes to a loopback address) |
| `RemoteUnblock` | `AcceptableAssumption` (what an append takes is among what the dashboard takes), `NamedAssumption`, `TargetsAssumption` (a target is a host or `All`), `BoundsAssumption` |
| `ResolvedSet` | `PoliciesAssumption`, `NonEmptyAssumption`, `TimesAssumption` (floor and ceiling of a TTL), `BoundsAssumption` |
| `ServiceGroup` | `MaxGroupsAssumption` |
| `Relay` | `BoundsAssumption` (a head has a byte), `OptionsAssumption` (switches are Booleans) |
| `RateLimiter` | `RatesAssumption`, `RoomAssumption` (positive: `newDNSRateLimiter` replaces what is not by its defaults), `ClockAssumption` (finitely many sources) |
| `DnsFilter` | `PortsAssumption`, `RequestsAssumption`, `ResponsesAssumption`, `SettingsAssumption` (switches are Booleans, and there is an upstream: `defaultUpstreamsFromEnv`) |
| `LogStore`, `LogPipeline` | `SizeAssumption`, `EventsAssumption`, `NoJobAssumption`, `LimitsAssumption`, `BoundsAssumption` |

Four hypotheses stand in the theorems themselves: `OneWriter` and `AllNamed`,
without which the statements are false (finding 1, and the filters without a
name); `PolicyAsDocumented`, for the two `VerdictIsTrueHolds`, which is
`AsDocumented` for the lists and names of the instance; and `PortIsFree`, for
`FallsBackHolds`. `MCDnsFilter` assumes `AsDocumented`, so TLC has evaluated it;
`MCRelay` leaves it to the run `relay_stream`, whose `VerdictIsTrue` compares the
two name by name.

- `PolicyReloadProofs` (any contents, any number of edits): `TypeCorrect`,
  `KernelAndServicesInSync`, `UpdatesInOrder`, `SendLatestNeverBlocks` and
  `Implementation` (of `LivePolicy`), from one invariant `IInv`. `InSync` and
  `Monotone` are not inductive: in the middle of `sendLatest` neither the channel
  nor the services need be at the kernel's revision. `IInv` adds which actor may
  be where (`Phases`), that the watcher holds the kernel's revision while it
  sends it (`WatcherHolds`), that the channel is one slot, empty at the last
  send (`SingleSlot`), and that every revision in anybody's hands is one that
  could be read (`AllReadable`). nft runs fail before or after their commit; while
  the kernel has a ruleset of a killed run, `InSync` says that the newest update
  under way is older than it (`ReloadOwed`), and `Implementation` holds throughout.
- `PolicyFileProofs` (`OneWriter`): `Typed`, `NothingReportedIsMissing`,
  `AppendsLookAtomic`. The invariant adds that a goroutine that is off has done
  nothing and that the copy of the file in a writer's hands is what the file is,
  or was when it was truncated. Under the refinement mapping the file to be is
  that copy while a write is under way, so that truncation is a stutter and
  `Write` is the append. A write that is cut off, by a failure or by a crash, is
  `Tear`, wherever it is cut (`CutOffIs`, `RemnantTears`): with a part of the data,
  a shortened entry, or text that does not parse, after which nothing is appended.
- `RemoteUnblockProofs` (`AllNamed`, any number of hosts): `Typed`,
  `CompletedApplied`, `Remembered`, `OnlyApproved`. Pollers act on copies and on
  ids that may be out of date; the invariant says that an id stands for the same
  request at the dashboard, in every batch and in every acknowledgement, that a
  batch holds only requests meant for its host, and that what is about to be
  acknowledged and is still pending has been applied.
- `ResolvedSetProofs` (any number of handlers, addresses, policies and reloads):
  `Typed`, `AnswersHold`, `OnlyRecentGrants`. `AnsweredIsOpen` is not inductive:
  between the push and the answer another handler may delete the element. The
  invariant makes the promise from the moment a handler is through with an
  address (`DueOK`) and shows that every step keeps an address covered. For
  `OpenIsRecent` it says that a handler with a command under way is of a group
  that ran when the set was made, or later (`HandlerOK`).
- `EgressProofs` (any policies, addresses and flows): one theorem about the
  algorithm and five about the system. `GeneratedRules` says for every mode,
  default action, policy and audit setting, every packet and connection state,
  what the generated chains do: the filter chain accepts exactly what
  `Passes` says, logs a block or an audit exactly when it does not, and the NAT
  chain redirects exactly to `ProxyPort`. It is proved template by template:
  lemmas say what it means for a sequence of rules to have a first match and which
  prefixes were logged on the way (`Result`), that results compose under `\o`,
  what each group of rules does, and that `auditRuleset` keeps what is logged and
  turns drops into accepts. `IInv` adds to the types that the translation
  conntrack remembers is none or one to the proxy of the installed mode, of a
  packet that is not marked (`Translated`): a reload never changes the mode, and
  that is why a translated flow keeps meeting a rule that lets it pass.
  `OnlyAllowedLeaveHolds`, `AllowlistPassesHolds`, `ProxiesSeeTheirTrafficHolds`,
  `ConnectionsSurviveHolds` and `ReportsTellTheTruthHolds` follow from the two.
- `ServingProofs` (any number of reloads; heads and streams of any length, any
  names, lists and options):
  - `GroupTyped`, `RunningGroupTriesAgain`. `NeverStuck` speaks of the running
    group, and the next one takes its place at a reload: `GroupInv` says what a
    group is before it is started (`Unstarted`), that only cancelled groups have
    missed servers or have left, and that a service that serves has each of its
    ports or is about to bind it (`Serving`).
  - `RelayTyped`, `StreamIntactHolds`. `StreamInv` says that the two buffers
    together are what was taken from the socket and not yet written (`Buffers`),
    that what the server has is a prefix of the stream exactly as long as what was
    written while it still takes data (`Prefix`), and that the end of the stream is
    passed on only at its end, or when a connection or the time is gone (`Finished`).
  - `VerdictIsTrueHolds`: `DecisionInv` says at each stage which verdict has been
    logged and which is still to come, so that an interruption at any stage leaves
    the right one.
- `DnsFilterProofs` (any sources, rates, map size, handlers, upstreams):
  `LimiterHolds` and `LimiterBucketsLast` for the limiter alone, by what each call
  does to a bucket and to the number of buckets (the eviction removes exactly one
  when pruning was not enough); `FilterUsesLimiter`, that the filter implements the
  limiter's specification, its other variables aside; and from the two
  `FilterRateHolds` and `FilterBucketsLast`. For the filter itself:
  - `FilterTyped`, from `FilterInv`, which adds that the settings are constant and
    what an outcome is made of.
  - `VerdictIsTrueHolds`. A query is judged when it is received and answered many
    steps later: `Accounts` says what is already noted while it is forwarded
    (`Forwarding`: policy and hardening let it leave, and an audit is on record)
    and what was made of it
    when it is answered (`Settled`). That addresses are opened no longer than any of
    their records lasts rests on `NatMinimum`, by well-foundedness of `<` on `Nat`.
  - `FallsBackHolds`: as long as second attempts at an upstream that would answer
    find their port free (`PortIsFree`), a query fails only if no upstream would
    have answered, or a silent one came before. `Tries` says that a query has gone
    past an upstream only for one of these reasons. The hypothesis is needed: each
    attempt takes the next of 4000 ports, and a query that finds both of its ports
    taken by others gives the upstream up. In the instance it is never violated,
    with two ports and two queries at a time.
- `LogPipelineProofs` (any sizes, workers, events and pages): `RingIsRecentLog`,
  that the ring implements `RecentLog` under `recent <- Recent` (the wrap-around
  of `Cell` against the newest entries of a sequence); `PipelineTypes`;
  `NothingIsForgotten` (`Accounted`); `PipelineUsesRing` and `PipelineIsRecentLog`;
  and `EveryPageFollows`. `PagesFollow` is not inductive, because the ring loses
  entries and ids start again at a clear: the invariant `Flow` speaks of every
  entry stored since the clear and not only of the newest (`Following`), of ids
  below the next one (`Numbered`), of entries stored while the notice of a clear
  is outstanding (`Wiped`), and
  that a handler sends what it has stored (`SentAreEntries`).
  `NothingVanishesHolds` counts copies. That a worker stores an event once is
  false while a handler whose request was given up lives on beside the retry: the
  invariant `Single` bounds the copies of an event by the answers that were lost,
  with one more for a handler on its way and one more for a worker that is done
  with it (`CopiesPaid`), which needs that an event is in one place of the queue
  (`OnceQueued`), with one worker (`JobsApart`) and with one handler
  (`HandlersApart`).

Only model-checked: liveness (`EditsApply`, `ServicesFollow`, `EveryValueArrives`,
`RequestsSettle`, `Ends`, `Settles`, `EveryQueryAnswered`, `Shipped`), because the
prover has no fairness or ENABLED reasoning; that `PortIsFree` holds of the
instance, as part of `FallsBack`; and the three findings, which are counterexamples.

## Not modelled

- Parsing of YAML, TLS records and HTTP heads, the validation of names and
  addresses, rendering, log formats, flags: sequential code without state, with
  unit or fuzz tests. Where a property depends on an outcome (a name was found or
  not, a policy parses or not), the outcome is a choice in the model.
- The `ALLOWLIST_*` and `DENYLIST_*` environment variables, which replace the file.
- The text and `sinceID` filters of a log query and the fields of an entry.
- The dashboard's own rate limiter: the same bucket as the DNS filter's, without
  eviction. `LogPipeline` has its 429 among the failures of a post.
- Flow bookkeeping, process lookup, alerts: maps under a mutex that decorate or
  suppress log lines and notifications. No decision of the filter depends on them.
- The page: JavaScript that shows what it is sent.
- Authentication, TLS and HTTP routing of the dashboard.
- The GitHub action and the scripts, which start the filter and exit.
