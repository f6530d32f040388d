------------------------------- MODULE Hosts -------------------------------
(***************************************************************************)
(* Which names a policy lets through (filter/common.go).  A name is the    *)
(* sequence of its labels, already in lower case and without the final     *)
(* dot.  A list is a set of patterns: the code's split into exact names    *)
(* and others is only faster.                                              *)
(***************************************************************************)
EXTENDS Naturals, Sequences

None == <<>>   \* no name: absent, invalid, or not parsed

\* sanitizeHost refuses what is not a name of two labels or more.
Sanitized(name) == IF Len(name) >= 2 THEN name ELSE None

StartsWith(s, t) == Len(s) >= Len(t) /\ SubSeq(s, 1, Len(t)) = t
EndsWith(s, t) == Len(s) >= Len(t) /\ SubSeq(s, Len(s) - Len(t) + 1, Len(s)) = t

\* matchPattern: *, /regex/, *.tail, head.*.tail (the * is not empty), a name.
Matches(host, p) ==
  CASE p.kind = "any" -> TRUE
    [] p.kind = "regex" -> host \in p.hosts
    [] p.kind = "suffix" -> Len(host) > Len(p.tail) /\ EndsWith(host, p.tail)
    [] p.kind = "glob" -> /\ Len(host) > Len(p.head) + Len(p.tail)
                          /\ StartsWith(host, p.head) /\ EndsWith(host, p.tail)
    [] p.kind = "exact" -> host = p.name

\* hostMatcher.allows
Allows(list, host) == \E p \in list : Matches(host, p)

\* Defect: the denylist is looked at first.
Permits_DenyFirst(host, allow, deny, o) ==
  \/ o.learning
  \/ ~o.defaultAllow /\ host # None /\ Allows(allow, host)
  \/ o.defaultAllow /\ (host = None \/ ~Allows(deny, host))

\* hostPermittedBy
Permits(host, allow, deny, o) ==
  \/ o.learning
  \/ ~o.defaultAllow /\ host # None /\ Allows(allow, host)
  \/ o.defaultAllow /\ (host = None \/ Allows(allow, host) \/ ~Allows(deny, host))

\* audited: what is not permitted passes all the same.
Audited(permitted, o) == ~permitted /\ o.audit

\* maybeLearnHostBy: what is recorded of a name that passes.
Learned(host, allow, o) ==
  IF o.learning /\ host # None /\ ~Allows(allow, host) THEN {host} ELSE {}

\* The lists stop those of the names that the documents say they stop, under either
\* default action.
AsDocumented(names, stopped, allow, deny) ==
  \A host \in names, d \in BOOLEAN :
    host \in stopped[d]
      <=> ~Permits(host, allow, deny, [learning |-> FALSE, defaultAllow |-> d])
=============================================================================
