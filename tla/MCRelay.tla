------------------------------ MODULE MCRelay ------------------------------
(***************************************************************************)
(* Small instances of Relay: the example policy of docs/policy.md, and a   *)
(* name for each way to meet it.                                           *)
(***************************************************************************)
EXTENDS Relay

Api == <<"api", "github", "com">>
Docs == <<"docs", "github", "com">>
Apex == <<"github", "com">>
Bucket == <<"bucket", "eu", "cloud", "com">>
Bare == <<"bucket", "cloud", "com">>
Short == <<"localhost">>

MCRequests == {Api, Docs, Apex, Bucket, Bare, Short, None}

MCAllow == {[kind |-> "exact", name |-> Api],
            [kind |-> "glob", head |-> <<"bucket">>, tail |-> <<"cloud", "com">>]}
MCDeny == {[kind |-> "suffix", tail |-> <<"github", "com">>],
           [kind |-> "regex", hosts |-> {Bare}]}

MCOptions == [kind : {"http", "https"}, defaultAllow : BOOLEAN, learning : BOOLEAN, audit : BOOLEAN]

\* The same with one name, for what does not depend on it.
OneRequest == {Api}
OneOption == [kind : {"https"}, defaultAllow : {FALSE}, learning : {FALSE}, audit : {FALSE}]

\* What the documents say of these names: `*' is not empty, *.github.com is not
\* github.com, an allowlist match overrides the denylist, no name is no match.
MCStopped ==
  [defaultAllow \in BOOLEAN |->
     IF defaultAllow THEN {Docs, Bare} ELSE {Docs, Apex, Bare, None}]
=============================================================================
