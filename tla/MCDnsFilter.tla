---------------------------- MODULE MCDnsFilter -----------------------------
(***************************************************************************)
(* A small instance of DnsFilter: a name for each verdict, the root and    *)
(* one that is not valid; settings for each mode, with upstreams that      *)
(* fail in each way before the one that answers.                           *)
(***************************************************************************)
EXTENDS DnsFilter, TLC

CONSTANTS h1, h2, s1, s2, s3, i1, i2

MCHandlers == {h1, h2}
MCSources == {s1, s2, s3}
Symmetric == Permutations(MCHandlers) \cup Permutations(MCSources)

Good == <<"www", "good", "com">>
Ads == <<"ads", "good", "com">>
Other == <<"other", "com">>

MCAllowlist == {[kind |-> "suffix", tail |-> <<"good", "com">>]}
MCDenylist == {[kind |-> "suffix", tail |-> <<"com">>]}

Query(name, qtype) == [name |-> name, valid |-> TRUE, qtype |-> qtype, long |-> FALSE]

MCRequests == {Query(Good, "A"), Query(Other, "A"), Query(Other, "TXT"), Query(None, "NULL"),
               [Query(Good, "A") EXCEPT !.long = TRUE], [Query(None, "A") EXCEPT !.valid = FALSE]}

Address(i, t) == [ip |-> i, ttl |-> t]
Response(records) == [truncated |-> FALSE, bulky |-> FALSE, records |-> records]

MCResponses == {Response({}), Response({Address(i1, 1), Address(i2, 2)}),
                [Response({Address(i1, 1)}) EXCEPT !.bulky = TRUE],
                [Response({}) EXCEPT !.truncated = TRUE]}

Options == [learning |-> FALSE, defaultAllow |-> FALSE, audit |-> FALSE,
            hardening |-> FALSE, hook |-> TRUE]
Open == [Options EXCEPT !.defaultAllow = TRUE, !.hook = FALSE]

With(options, ups, n) == [options |-> options, upstreams |-> ups, queries |-> n]

MCSettings ==
  {With(Options, <<"refuses", "well">>, 2), With(Options, <<"udp", "well">>, 2),
   With(Options, <<"silent", "well">>, 2), With(Open, <<"refuses", "silent">>, 2),
   With([Options EXCEPT !.audit = TRUE], <<"well">>, 1),
   With([Options EXCEPT !.hardening = TRUE, !.audit = TRUE], <<"well">>, 1),
   With([Open EXCEPT !.hardening = TRUE, !.learning = TRUE], <<"well">>, 1),
   With([Options EXCEPT !.hardening = TRUE], <<"well">>, 3)}

\* What the documents say is stopped: under default deny what is not allowlisted,
\* under default allow what is denied and not allowlisted.
MCStopped == [defaultAllow \in BOOLEAN |-> IF defaultAllow THEN {Other} ELSE {Other, None}]

ASSUME DocumentsAssumption == AsDocumented({r.name : r \in Requests}, Stopped, Allowlist, Denylist)
=============================================================================
