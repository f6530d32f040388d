---------------------------- MODULE EgressProofs ----------------------------
(***************************************************************************)
(* What the rulesets decide, for every policy and every packet, and that   *)
(* the properties of Egress hold of every flow.                            *)
(*                                                                         *)
(* A chain is a concatenation of pieces.  Of each piece it is shown which  *)
(* packets it decides on, and what it logs of the others; what the chain   *)
(* decides follows from the order of the pieces.                           *)
(***************************************************************************)
EXTENDS Egress, SequenceTheorems, TLAPS

Rule ==
  [dst : SUBSET Address, oif : SUBSET {"lo", "eth"}, proto : SUBSET Protocol, port : SUBSET Port,
   mark : SUBSET BOOLEAN, state : SUBSET ConnState,
   do : {"log", "accept", "drop", "return", "redirect"}, to : Port,
   prefix : {"none", "allowed", "blocked", "redirected", "dns_redirected"}]

\* The rules up to n only log what they match.
Silent(rules, n, p, st) == \A i \in 1..n : Matches(rules[i], p, st) => rules[i].do = "log"

\* What the rules up to n log.
Noted(rules, n, p, st) ==
  {rules[i].prefix : i \in {j \in 1..n : Matches(rules[j], p, st) /\ rules[j].do = "log"}}

\* The rules decide `do' of a packet, or pass it on, and have logged N by then.
Result(rules, p, st, do, to, N) ==
  \/ /\ do = "pass" /\ to = "none"
     /\ Silent(rules, Len(rules), p, st) /\ N = Noted(rules, Len(rules), p, st)
  \/ /\ do # "pass" /\ do # "log"
     /\ \E i \in 1..Len(rules) :
          /\ Matches(rules[i], p, st) /\ rules[i].do = do /\ rules[i].to = to
          /\ Silent(rules, i - 1, p, st) /\ N = Noted(rules, i - 1, p, st)

-----------------------------------------------------------------------------
(* Pieces, and what they make together.                                    *)

LEMMA DecideIsRule ==
  ASSUME NEW v \in {"log", "accept", "drop", "return", "redirect"} PROVE Decide(v) \in Rule
BY DEF Decide, Rule, Port

\* A rule that comes first.
LEMMA OneRule ==
  ASSUME NEW r \in Rule, NEW p, NEW st
  PROVE  /\ <<r>> \in Seq(Rule)
         /\ ~Matches(r, p, st) => Result(<<r>>, p, st, "pass", "none", {})
         /\ Matches(r, p, st) /\ r.do = "log" => Result(<<r>>, p, st, "pass", "none", {r.prefix})
         /\ Matches(r, p, st) /\ r.do # "log" => Result(<<r>>, p, st, r.do, r.to, {})
<1> DEFINE s == <<r>>
<1>1. s \in Seq(Rule) /\ Len(s) = 1 /\ s[1] = r /\ r.do # "pass"
  BY DEF Rule
<1> HIDE DEF s
<1>2. ~Matches(r, p, st) => Result(s, p, st, "pass", "none", {})
  BY <1>1 DEF Result, Silent, Noted
<1>3. Matches(r, p, st) /\ r.do = "log" => Result(s, p, st, "pass", "none", {r.prefix})
  <2> SUFFICES ASSUME Matches(r, p, st), r.do = "log" PROVE Result(s, p, st, "pass", "none", {r.prefix})
    OBVIOUS
  <2>1. Noted(s, 1, p, st) = {r.prefix}
    BY <1>1 DEF Noted
  <2>2. Silent(s, 1, p, st)
    BY <1>1 DEF Silent
  <2>3. QED
    BY <1>1, <2>1, <2>2 DEF Result
<1>4. Matches(r, p, st) /\ r.do # "log" => Result(s, p, st, r.do, r.to, {})
  <2>1. Silent(s, 0, p, st) /\ Noted(s, 0, p, st) = {}
    BY DEF Silent, Noted
  <2>2. QED
    BY <1>1, <2>1 DEF Result
<1>5. QED
  BY <1>1, <1>2, <1>3, <1>4 DEF s

\* What a piece decides is decided whatever comes after it.
LEMMA Decided ==
  ASSUME NEW A \in Seq(Rule), NEW B \in Seq(Rule), NEW p, NEW st, NEW do, NEW to, NEW N,
         do # "pass", Result(A, p, st, do, to, N)
  PROVE  Result(A \o B, p, st, do, to, N)
<1> DEFINE C == A \o B
<1>1. C \in Seq(Rule) /\ Len(C) = Len(A) + Len(B) /\ \A i \in 1..Len(A) : C[i] = A[i]
  BY ConcatProperties
<1> HIDE DEF C
<1>2. PICK i \in 1..Len(A) : /\ Matches(A[i], p, st) /\ A[i].do = do /\ A[i].to = to /\ do # "log"
                             /\ Silent(A, i - 1, p, st) /\ N = Noted(A, i - 1, p, st)
  BY DEF Result
<1>3. i \in 1..Len(C) /\ \A j \in 1..i : C[j] = A[j]
  BY <1>1
<1>4. Silent(C, i - 1, p, st)
  BY <1>2, <1>3 DEF Silent
<1>5. Noted(C, i - 1, p, st) = Noted(A, i - 1, p, st)
  <2>1. i \in Nat
    OBVIOUS
  <2>2. \A j \in 1..(i - 1) : j \in 1..i
    BY <2>1
  <2>3. \A j \in 1..(i - 1) : C[j] = A[j]
    BY <1>3, <2>2
  <2>4. QED
    BY <2>3 DEF Noted
<1>6. QED
  BY <1>2, <1>3, <1>4, <1>5 DEF Result, C

\* What a piece passes on the next one decides, or passes on.
LEMMA PassedOn ==
  ASSUME NEW A \in Seq(Rule), NEW B \in Seq(Rule), NEW p, NEW st, NEW do, NEW to, NEW N, NEW M,
         Result(A, p, st, "pass", "none", N), Result(B, p, st, do, to, M)
  PROVE  Result(A \o B, p, st, do, to, N \cup M)
<1> DEFINE C == A \o B
           n == Len(A)
           m == Len(B)
<1>1. C \in Seq(Rule) /\ Len(C) = n + m /\ n \in Nat /\ m \in Nat
      /\ \A i \in 1..(n + m) : C[i] = IF i <= n THEN A[i] ELSE B[i - n]
  BY ConcatProperties
<1>2. Silent(A, n, p, st) /\ N = Noted(A, n, p, st)
  BY DEF Result
<1> HIDE DEF C, n, m
<1>3. ASSUME NEW k \in 0..m, Silent(B, k, p, st)
      PROVE  Silent(C, n + k, p, st) /\ Noted(C, n + k, p, st) = N \cup Noted(B, k, p, st)
  <2>1. \A i \in 1..n : i \in 1..(n + k) /\ C[i] = A[i]
    BY <1>1
  <2>2. \A i \in 1..k : n + i \in 1..(n + k) /\ C[n + i] = B[i]
    BY <1>1
  <2>3. ASSUME NEW i \in 1..(n + k) PROVE i \in 1..n \/ (i - n \in 1..k /\ C[i] = B[i - n])
    <3>0. n \in Nat /\ m \in Nat /\ k \in Nat /\ k <= m /\ i \in Nat /\ 1 <= i /\ i <= n + k
      BY <1>1
    <3>1. CASE i <= n
      BY <3>0, <3>1
    <3>2. CASE i > n
      <4>1. i \in 1..(n + m) /\ ~(i <= n) /\ i - n \in 1..k
        BY <3>0, <3>2
      <4>2. QED
        BY <1>1, <4>1
    <3>3. QED
      BY <3>0, <3>1, <3>2
  <2>4. Silent(C, n + k, p, st)
    BY <1>2, <1>3, <2>1, <2>3 DEF Silent
  <2>5. Noted(C, n + k, p, st) \subseteq N \cup Noted(B, k, p, st)
    BY <1>2, <2>1, <2>3 DEF Noted
  <2>6. N \subseteq Noted(C, n + k, p, st)
    BY <1>2, <2>1 DEF Noted
  <2>7. Noted(B, k, p, st) \subseteq Noted(C, n + k, p, st)
    BY <2>2 DEF Noted
  <2>8. QED
    BY <2>4, <2>5, <2>6, <2>7
<1>4. CASE do = "pass"
  <2>1. Silent(B, m, p, st) /\ M = Noted(B, m, p, st) /\ to = "none"
    BY <1>4 DEF Result, m
  <2>2. Silent(C, n + m, p, st) /\ Noted(C, n + m, p, st) = N \cup M
    BY <1>1, <1>3, <2>1
  <2>3. QED
    BY <1>1, <1>4, <2>1, <2>2 DEF Result, C
<1>5. CASE do # "pass"
  <2>1. PICK i \in 1..m : /\ Matches(B[i], p, st) /\ B[i].do = do /\ B[i].to = to /\ do # "log"
                          /\ Silent(B, i - 1, p, st) /\ M = Noted(B, i - 1, p, st)
    BY <1>5 DEF Result, m
  <2>2. i - 1 \in 0..m /\ n + i \in 1..(n + m) /\ C[n + i] = B[i] /\ n + (i - 1) = (n + i) - 1
    BY <1>1
  <2>3. Silent(C, (n + i) - 1, p, st) /\ Noted(C, (n + i) - 1, p, st) = N \cup M
    BY <1>3, <2>1, <2>2
  <2>4. QED
    BY <1>1, <1>5, <2>1, <2>2, <2>3 DEF Result, C
<1>6. QED
  BY <1>4, <1>5

\* What the kernel does is what the rules decide, or the policy of the chain.
LEMMA KernelDecides ==
  ASSUME NEW policy, NEW rules \in Seq(Rule), NEW p, NEW st, NEW do, NEW to, NEW N,
         Result(rules, p, st, do, to, N)
  PROVE  /\ Verdict(Chain(policy, rules), p, st).do = IF do = "pass" THEN policy ELSE do
         /\ Verdict(Chain(policy, rules), p, st).to = to
         /\ Prefixes(Chain(policy, rules), p, st) = N
<1> DEFINE c == Chain(policy, rules)
           n == Len(rules)
           D == Deciding(c, p, st)
<1>1. c.rules = rules /\ c.policy = policy /\ DOMAIN rules = 1..n /\ n \in Nat
  BY DEF Chain
<1>2. Matching(c, p, st) = {i \in 1..n : Matches(rules[i], p, st) /\ Silent(rules, i - 1, p, st)}
  BY <1>1 DEF Matching, Silent
<1>3. D = {i \in 1..n : Matches(rules[i], p, st) /\ Silent(rules, i - 1, p, st) /\ rules[i].do # "log"}
  BY <1>1, <1>2 DEF Deciding
<1>4. Prefixes(c, p, st) =
        {rules[i].prefix : i \in {j \in 1..n : /\ Matches(rules[j], p, st) /\ rules[j].do = "log"
                                               /\ Silent(rules, j - 1, p, st)}}
  BY <1>1, <1>2 DEF Prefixes
<1>5. Verdict(c, p, st) = IF D = {} THEN Decide(policy) ELSE rules[CHOOSE i \in D : TRUE]
  BY <1>1 DEF Verdict
<1> HIDE DEF c, D, n
<1>6. CASE do = "pass"
  <2>1. Silent(rules, n, p, st) /\ N = Noted(rules, n, p, st) /\ to = "none"
    BY <1>6 DEF Result, n
  <2>2. \A i \in 1..n : Silent(rules, i - 1, p, st)
    BY <1>1, <2>1 DEF Silent
  <2>3. D = {}
    BY <1>3, <2>1 DEF Silent
  <2>4. Verdict(c, p, st).do = policy /\ Verdict(c, p, st).to = "none"
    BY <1>5, <2>3 DEF Decide
  <2>5. Prefixes(c, p, st) = N
    BY <1>4, <2>1, <2>2 DEF Noted
  <2>6. QED
    BY <1>6, <2>1, <2>4, <2>5 DEF c
<1>7. CASE do # "pass"
  <2>1. PICK i \in 1..n : /\ Matches(rules[i], p, st) /\ rules[i].do = do /\ rules[i].to = to
                          /\ do # "log"
                          /\ Silent(rules, i - 1, p, st) /\ N = Noted(rules, i - 1, p, st)
    BY <1>7 DEF Result, n
  <2>2. ASSUME NEW j \in 1..n, j > i PROVE ~Silent(rules, j - 1, p, st)
    <3>1. i \in 1..(j - 1)
      BY <1>1, <2>2
    <3>2. QED
      BY <2>1, <3>1 DEF Silent
  <2>3. ASSUME NEW j \in 1..n, j < i PROVE j \in 1..(i - 1) /\ Silent(rules, j - 1, p, st)
    <3>1. j \in 1..(i - 1) /\ \A k \in 1..(j - 1) : k \in 1..(i - 1)
      BY <1>1, <2>3
    <3>2. QED
      BY <2>1, <3>1 DEF Silent
  <2>4. D = {i}
    <3>1. i \in D
      BY <1>3, <2>1
    <3>2. ASSUME NEW j \in D PROVE j = i
      <4>1. j \in 1..n /\ Matches(rules[j], p, st) /\ Silent(rules, j - 1, p, st) /\ rules[j].do # "log"
        BY <1>3, <3>2
      <4>2. ~(j > i)
        BY <2>2, <4>1
      <4>3. ~(j < i)
        BY <2>1, <2>3, <4>1 DEF Silent
      <4>4. QED
        BY <1>1, <4>1, <4>2, <4>3
    <3>3. QED
      BY <3>1, <3>2
  <2>5. (CHOOSE j \in D : TRUE) = i
    BY <2>4
  <2>6. Verdict(c, p, st) = rules[i]
    BY <1>5, <2>4, <2>5
  <2>7. {j \in 1..n : Matches(rules[j], p, st) /\ rules[j].do = "log" /\ Silent(rules, j - 1, p, st)}
        = {j \in 1..(i - 1) : Matches(rules[j], p, st) /\ rules[j].do = "log"}
    <3>1. ASSUME NEW j \in 1..n, rules[j].do = "log", Silent(rules, j - 1, p, st) PROVE j \in 1..(i - 1)
      BY <1>1, <2>1, <2>2, <3>1
    <3>2. \A j \in 1..(i - 1) : j \in 1..n /\ Silent(rules, j - 1, p, st)
      BY <1>1, <2>3
    <3>3. QED
      BY <3>1, <3>2
  <2>8. Prefixes(c, p, st) = N
    BY <1>4, <2>1, <2>7 DEF Noted
  <2>9. QED
    BY <1>7, <2>1, <2>6, <2>8 DEF c
<1>8. QED
  BY <1>6, <1>7

-----------------------------------------------------------------------------
(* The rules.                                                              *)

LEMMA Tuples ==
  ASSUME NEW a \in Rule, NEW b \in Rule, NEW c \in Rule, NEW d \in Rule
  PROVE  /\ <<a, b>> = <<a>> \o <<b>> /\ <<a, b>> \in Seq(Rule)
         /\ <<a, b, c>> = <<a>> \o <<b, c>> /\ <<a, b, c>> \in Seq(Rule)
         /\ <<a, b, c, d>> = <<a, b>> \o <<c, d>> /\ <<a, b, c, d>> \in Seq(Rule)
<1>1. <<a>> \in Seq(Rule) /\ <<a, b>> \in Seq(Rule) /\ <<b>> \in Seq(Rule) /\ <<b, c>> \in Seq(Rule)
      /\ <<b, c, d>> \in Seq(Rule)
  OBVIOUS
<1>2. <<a, b, c>> \in Seq(Rule)
  OBVIOUS
<1>3. <<a, b, c, d>> \in Seq(Rule)
  OBVIOUS
<1>4. <<a, b>> = <<a>> \o <<b>>
  <2> DEFINE s == <<a, b>>
             t == <<a>> \o <<b>>
  <2>1. s \in Seq(Rule) /\ t \in Seq(Rule) /\ Len(s) = 2 /\ Len(t) = 2
    BY <1>1
  <2>2. s[1] = t[1] /\ s[2] = t[2]
    BY <1>1, ConcatProperties
  <2> HIDE DEF s, t
  <2>3. \A i \in 1..Len(s) : s[i] = t[i]
    BY <2>1, <2>2
  <2>4. s = t
    BY <2>1, <2>3, SeqEqual
  <2>5. QED
    BY <2>4 DEF s, t
<1>5. <<a, b, c>> = <<a>> \o <<b, c>>
  OBVIOUS
<1>6. <<a, b, c, d>> = <<a, b>> \o <<c, d>>
  OBVIOUS
<1>7. QED
  BY <1>1, <1>2, <1>3, <1>4, <1>5, <1>6

\* A rule before others.
LEMMA RuleFirst ==
  ASSUME NEW r \in Rule, NEW B \in Seq(Rule), NEW p, NEW st, NEW do, NEW to, NEW N,
         Result(B, p, st, do, to, N)
  PROVE  /\ ~Matches(r, p, st) => Result(<<r>> \o B, p, st, do, to, N)
         /\ Matches(r, p, st) /\ r.do = "log" => Result(<<r>> \o B, p, st, do, to, {r.prefix} \cup N)
         /\ Matches(r, p, st) /\ r.do # "log" => Result(<<r>> \o B, p, st, r.do, r.to, {})
<1>1. <<r>> \in Seq(Rule) /\ r.do # "pass"
  BY DEF Rule
<1>2. CASE ~Matches(r, p, st)
  <2>1. Result(<<r>>, p, st, "pass", "none", {})
    BY <1>2, OneRule
  <2>2. Result(<<r>> \o B, p, st, do, to, {} \cup N)
    BY <1>1, <2>1, PassedOn
  <2>3. QED
    BY <1>2, <2>2
<1>3. CASE Matches(r, p, st) /\ r.do = "log"
  <2>1. Result(<<r>>, p, st, "pass", "none", {r.prefix})
    BY <1>3, OneRule
  <2>2. QED
    BY <1>1, <1>3, <2>1, PassedOn
<1>4. CASE Matches(r, p, st) /\ r.do # "log"
  <2>1. Result(<<r>>, p, st, r.do, r.to, {})
    BY <1>4, OneRule
  <2>2. QED
    BY <1>1, <1>4, <2>1, Decided
<1>5. QED
  BY <1>2, <1>3, <1>4

LEMMA Everything ==
  ASSUME NEW v \in {"log", "accept", "drop", "return", "redirect"}, NEW p \in Packet, NEW st \in ConnState
  PROVE  /\ Decide(v).dst = Address /\ Decide(v).proto = Protocol /\ Decide(v).port = Port
         /\ Decide(v).do = v /\ Decide(v).to = "none" /\ Decide(v).prefix = "none"
         /\ Decide(v) \in Rule /\ Matches(Decide(v), p, st)
BY DEF Decide, Matches, Packet, Rule, Port

LEMMA ToRule ==
  ASSUME NEW r \in Rule, NEW set \in SUBSET Address, r.dst = Address, NEW p \in Packet, NEW st
  PROVE  /\ To(set, r) \in Rule
         /\ To(set, r).do = r.do /\ To(set, r).to = r.to /\ To(set, r).prefix = r.prefix
         /\ Matches(To(set, r), p, st) <=> p.dst \in set /\ Matches(r, p, st)
BY DEF To, Rule, Matches, Packet

LEMMA OnRule ==
  ASSUME NEW r \in Rule, NEW proto \in Protocol, NEW port \in Port, r.proto = Protocol, r.port = Port,
         NEW p \in Packet, NEW st
  PROVE  /\ On(proto, port, r) \in Rule /\ On(proto, port, r).dst = r.dst
         /\ On(proto, port, r).do = r.do /\ On(proto, port, r).to = r.to /\ On(proto, port, r).prefix = r.prefix
         /\ Matches(On(proto, port, r), p, st) <=> p.proto = proto /\ p.port = port /\ Matches(r, p, st)
BY DEF On, Rule, Matches, Packet

LEMMA OtherRules ==
  ASSUME NEW p \in Packet, NEW st \in ConnState
  PROVE  /\ \A x \in {"allowed", "blocked", "redirected", "dns_redirected"} :
              /\ Log(x) \in Rule /\ Matches(Log(x), p, st)
              /\ Log(x).dst = Address /\ Log(x).proto = Protocol /\ Log(x).port = Port
              /\ Log(x).do = "log" /\ Log(x).to = "none" /\ Log(x).prefix = x
         /\ \A x \in Port :
              /\ Redirect(x) \in Rule /\ Matches(Redirect(x), p, st)
              /\ Redirect(x).dst = Address /\ Redirect(x).proto = Protocol /\ Redirect(x).port = Port
              /\ Redirect(x).do = "redirect" /\ Redirect(x).to = x
         /\ \A v \in {"accept", "return"} :
              /\ Marked(v) \in Rule /\ Marked(v).do = v /\ Marked(v).to = "none"
              /\ Matches(Marked(v), p, st) <=> p.mark
<1> USE DEF Packet, Rule, Port
<1>1. ASSUME NEW x \in {"allowed", "blocked", "redirected", "dns_redirected"}
      PROVE  /\ Log(x) \in Rule /\ Matches(Log(x), p, st)
             /\ Log(x).dst = Address /\ Log(x).proto = Protocol /\ Log(x).port = Port
             /\ Log(x).do = "log" /\ Log(x).to = "none" /\ Log(x).prefix = x
  BY DEF Log, Decide, Matches
<1>2. ASSUME NEW x \in Port
      PROVE  /\ Redirect(x) \in Rule /\ Matches(Redirect(x), p, st)
             /\ Redirect(x).dst = Address /\ Redirect(x).proto = Protocol /\ Redirect(x).port = Port
             /\ Redirect(x).do = "redirect" /\ Redirect(x).to = x
  BY DEF Redirect, Decide, Matches
<1>3. ASSUME NEW v \in {"accept", "return"}
      PROVE  /\ Marked(v) \in Rule /\ Marked(v).do = v /\ Marked(v).to = "none"
             /\ Matches(Marked(v), p, st) <=> p.mark
  BY DEF Marked, Decide, Matches
<1>4. QED
  BY <1>1, <1>2, <1>3

LEMMA DecideAt ==
  ASSUME NEW p \in Packet, NEW st \in ConnState, NEW v \in {"accept", "drop", "return"},
         NEW set \in SUBSET Address, NEW proto \in Protocol, NEW port \in Port
  PROVE  /\ To(set, Decide(v)) \in Rule /\ To(set, Decide(v)).do = v /\ To(set, Decide(v)).to = "none"
         /\ Matches(To(set, Decide(v)), p, st) <=> p.dst \in set
         /\ To(set, On(proto, port, Decide(v))) \in Rule
         /\ To(set, On(proto, port, Decide(v))).do = v /\ To(set, On(proto, port, Decide(v))).to = "none"
         /\ Matches(To(set, On(proto, port, Decide(v))), p, st)
              <=> p.dst \in set /\ p.proto = proto /\ p.port = port
<1>1. /\ Decide(v).dst = Address /\ Decide(v).proto = Protocol /\ Decide(v).port = Port
      /\ Decide(v).do = v /\ Decide(v).to = "none" /\ Decide(v) \in Rule /\ Matches(Decide(v), p, st)
  BY Everything
<1> DEFINE r == On(proto, port, Decide(v))
<1>2. /\ r \in Rule /\ r.dst = Address /\ r.do = v /\ r.to = "none"
      /\ Matches(r, p, st) <=> p.proto = proto /\ p.port = port
  BY <1>1, OnRule
<1> HIDE DEF r
<1>3. /\ To(set, r) \in Rule /\ To(set, r).do = v /\ To(set, r).to = "none"
      /\ Matches(To(set, r), p, st) <=> p.dst \in set /\ Matches(r, p, st)
  BY <1>2, ToRule
<1>4. /\ To(set, Decide(v)) \in Rule /\ To(set, Decide(v)).do = v /\ To(set, Decide(v)).to = "none"
      /\ Matches(To(set, Decide(v)), p, st) <=> p.dst \in set
  BY <1>1, ToRule
<1>5. QED
  BY <1>2, <1>3, <1>4 DEF r

LEMMA LogTo ==
  ASSUME NEW p \in Packet, NEW st \in ConnState, NEW x \in {"allowed", "blocked"}, NEW set \in SUBSET Address
  PROVE  /\ To(set, Log(x)) \in Rule /\ To(set, Log(x)).do = "log" /\ To(set, Log(x)).prefix = x
         /\ Matches(To(set, Log(x)), p, st) <=> p.dst \in set
<1>1. Log(x) \in Rule /\ Matches(Log(x), p, st) /\ Log(x).dst = Address /\ Log(x).do = "log" /\ Log(x).prefix = x
  BY OtherRules
<1>2. QED
  BY <1>1, ToRule

LEMMA RedirectOn ==
  ASSUME NEW p \in Packet, NEW st \in ConnState, NEW x \in {"redirected", "dns_redirected"},
         NEW proto \in Protocol, NEW port \in Port, NEW to \in Port
  PROVE  /\ On(proto, port, Log(x)) \in Rule
         /\ On(proto, port, Log(x)).do = "log" /\ On(proto, port, Log(x)).prefix = x
         /\ Matches(On(proto, port, Log(x)), p, st) <=> p.proto = proto /\ p.port = port
         /\ On(proto, port, Redirect(to)) \in Rule
         /\ On(proto, port, Redirect(to)).do = "redirect" /\ On(proto, port, Redirect(to)).to = to
         /\ Matches(On(proto, port, Redirect(to)), p, st) <=> p.proto = proto /\ p.port = port
<1>1. /\ Log(x) \in Rule /\ Matches(Log(x), p, st) /\ Log(x).proto = Protocol /\ Log(x).port = Port
      /\ Log(x).do = "log" /\ Log(x).prefix = x
  BY OtherRules
<1>2. /\ Redirect(to) \in Rule /\ Matches(Redirect(to), p, st)
      /\ Redirect(to).proto = Protocol /\ Redirect(to).port = Port
      /\ Redirect(to).do = "redirect" /\ Redirect(to).to = to
  BY OtherRules
<1>3. /\ On(proto, port, Log(x)) \in Rule
      /\ On(proto, port, Log(x)).do = "log" /\ On(proto, port, Log(x)).prefix = x
      /\ Matches(On(proto, port, Log(x)), p, st) <=> p.proto = proto /\ p.port = port
  BY <1>1, OnRule
<1>4. /\ On(proto, port, Redirect(to)) \in Rule
      /\ On(proto, port, Redirect(to)).do = "redirect" /\ On(proto, port, Redirect(to)).to = to
      /\ Matches(On(proto, port, Redirect(to)), p, st) <=> p.proto = proto /\ p.port = port
  BY <1>2, OnRule
<1>5. QED
  BY <1>3, <1>4

-----------------------------------------------------------------------------
(* The pieces the templates share.                                         *)

\* What every filter chain accepts before it looks further.
Early(p, st) == p.oif = "lo" \/ st = "established" \/ p.mark

LEMMA PreliminariesDo ==
  ASSUME NEW p \in Packet, NEW st \in ConnState
  PROVE  /\ Preliminaries \in Seq(Rule)
         /\ Result(Preliminaries, p, st, IF Early(p, st) THEN "accept" ELSE "pass", "none", {})
<1> DEFINE a == [Decide("accept") EXCEPT !.oif = {"lo"}]
           b == [Decide("accept") EXCEPT !.state = {"established"}]
           c == Marked("accept")
<1>1. a \in Rule /\ a.do = "accept" /\ a.to = "none" /\ (Matches(a, p, st) <=> p.oif = "lo")
  BY DEF Decide, Rule, Matches, Packet, Port
<1>2. b \in Rule /\ b.do = "accept" /\ b.to = "none" /\ (Matches(b, p, st) <=> st = "established")
  BY DEF Decide, Rule, Matches, Packet, ConnState, Port
<1>3. c \in Rule /\ c.do = "accept" /\ c.to = "none" /\ (Matches(c, p, st) <=> p.mark)
  BY OtherRules
<1>4. Preliminaries = <<a, b, c>>
  BY DEF Preliminaries
<1> HIDE DEF a, b, c
<1>5. <<c>> \in Seq(Rule) /\ Result(<<c>>, p, st, IF p.mark THEN "accept" ELSE "pass", "none", {})
  BY <1>3, OneRule
<1>6. <<b, c>> = <<b>> \o <<c>> /\ <<b, c>> \in Seq(Rule)
      /\ <<a, b, c>> = <<a>> \o <<b, c>> /\ <<a, b, c>> \in Seq(Rule)
  BY <1>1, <1>2, <1>3, Tuples
<1>7. Result(<<b, c>>, p, st, IF st = "established" \/ p.mark THEN "accept" ELSE "pass", "none", {})
  BY <1>2, <1>5, <1>6, RuleFirst
<1>8. Result(<<a, b, c>>, p, st, IF Early(p, st) THEN "accept" ELSE "pass", "none", {})
  BY <1>1, <1>6, <1>7, RuleFirst DEF Early
<1>9. QED
  BY <1>4, <1>6, <1>8

\* Two rules that accept at a port of the proxy.
LEMMA LocalDo ==
  ASSUME NEW p \in Packet, NEW st \in ConnState,
         NEW proto1 \in Protocol, NEW port1 \in Port, NEW proto2 \in Protocol, NEW port2 \in Port,
         NEW v \in {"accept", "return"}
  PROVE  LET rules == << To({"lo"}, On(proto1, port1, Decide(v))), To({"lo"}, On(proto2, port2, Decide(v))) >>
         IN /\ rules \in Seq(Rule)
            /\ Result(rules, p, st,
                 IF /\ p.dst = "lo"
                    /\ \/ p.proto = proto1 /\ p.port = port1
                       \/ p.proto = proto2 /\ p.port = port2
                 THEN v ELSE "pass", "none", {})
<1> DEFINE a == To({"lo"}, On(proto1, port1, Decide(v)))
           b == To({"lo"}, On(proto2, port2, Decide(v)))
<1>0. ASSUME NEW proto \in Protocol, NEW port \in Port
      PROVE  LET r == To({"lo"}, On(proto, port, Decide(v)))
             IN /\ r \in Rule /\ r.do = v /\ r.to = "none"
                /\ Matches(r, p, st) <=> p.dst = "lo" /\ p.proto = proto /\ p.port = port
  <2> DEFINE L == {"lo"}
             r == To(L, On(proto, port, Decide(v)))
  <2>1. L \in SUBSET Address /\ v \in {"accept", "drop", "return"} /\ (p.dst \in L <=> p.dst = "lo")
    BY DEF Address, Loopback
  <2> HIDE DEF L
  <2>2. /\ r \in Rule /\ r.do = v /\ r.to = "none"
        /\ Matches(r, p, st) <=> p.dst \in L /\ p.proto = proto /\ p.port = port
    BY <2>1, DecideAt
  <2>3. QED
    BY <2>1, <2>2 DEF L
<1>2. a \in Rule /\ a.do = v /\ a.to = "none"
      /\ (Matches(a, p, st) <=> p.dst = "lo" /\ p.proto = proto1 /\ p.port = port1)
  BY <1>0
<1>3. b \in Rule /\ b.do = v /\ b.to = "none"
      /\ (Matches(b, p, st) <=> p.dst = "lo" /\ p.proto = proto2 /\ p.port = port2)
  BY <1>0
<1> HIDE DEF a, b
<1>4. <<b>> \in Seq(Rule) /\ <<a, b>> = <<a>> \o <<b>> /\ <<a, b>> \in Seq(Rule)
  BY <1>2, <1>3, OneRule, Tuples
<1>5. Result(<<b>>, p, st, IF Matches(b, p, st) THEN v ELSE "pass", "none", {})
  BY <1>3, OneRule
<1>6. Result(<<a, b>>, p, st, IF Matches(a, p, st) \/ Matches(b, p, st) THEN v ELSE "pass", "none", {})
  BY <1>2, <1>4, <1>5, RuleFirst
<1>7. QED
  BY <1>2, <1>3, <1>4, <1>6 DEF a, b

LEMMA PingDo ==
  ASSUME NEW p \in Packet, NEW st \in ConnState, NEW set \in SUBSET Address
  PROVE  /\ <<Ping(set)>> \in Seq(Rule)
         /\ Result(<<Ping(set)>>, p, st,
              IF p.dst \in set /\ p.proto = "ping" THEN "accept" ELSE "pass", "none", {})
<1> DEFINE r == [Decide("accept") EXCEPT !.proto = {"ping"}]
<1>1. /\ r \in Rule /\ r.dst = Address /\ r.do = "accept" /\ r.to = "none"
      /\ Matches(r, p, st) <=> p.proto = "ping"
  BY DEF Decide, Rule, Matches, Packet, Protocol, Port
<1>2. Ping(set) = To(set, r)
  BY DEF Ping
<1> HIDE DEF r
<1>3. /\ Ping(set) \in Rule /\ Ping(set).do = "accept" /\ Ping(set).to = "none"
      /\ Matches(Ping(set), p, st) <=> p.dst \in set /\ p.proto = "ping"
  BY <1>1, <1>2, ToRule
<1>4. QED
  BY <1>3, OneRule

LEMMA NeighboursDo ==
  ASSUME NEW p \in Packet, NEW st \in ConnState
  PROVE  LET r == [Decide("accept") EXCEPT !.proto = {"nd"}]
         IN /\ <<r>> \in Seq(Rule)
            /\ Result(<<r>>, p, st, IF p.proto = "nd" THEN "accept" ELSE "pass", "none", {})
<1> DEFINE r == [Decide("accept") EXCEPT !.proto = {"nd"}]
<1>1. r \in Rule /\ r.do = "accept" /\ r.to = "none" /\ (Matches(r, p, st) <=> p.proto = "nd")
  BY DEF Decide, Rule, Matches, Packet, Protocol, Port
<1> HIDE DEF r
<1>2. <<r>> \in Seq(Rule) /\ Result(<<r>>, p, st, IF p.proto = "nd" THEN "accept" ELSE "pass", "none", {})
  BY <1>1, OneRule
<1>3. QED
  BY <1>2 DEF r

LEMMA LogAcceptDo ==
  ASSUME NEW p \in Packet, NEW st \in ConnState, NEW set \in SUBSET Address
  PROVE  /\ LogAccept(set) \in Seq(Rule)
         /\ p.dst \in set => Result(LogAccept(set), p, st, "accept", "none", {"allowed"})
         /\ p.dst \notin set => Result(LogAccept(set), p, st, "pass", "none", {})
<1> DEFINE a == To(set, Log("allowed"))
           b == To(set, Decide("accept"))
<1>1. a \in Rule /\ a.do = "log" /\ a.prefix = "allowed" /\ (Matches(a, p, st) <=> p.dst \in set)
  BY LogTo
<1>2. b \in Rule /\ b.do = "accept" /\ b.to = "none" /\ (Matches(b, p, st) <=> p.dst \in set)
  BY DecideAt DEF Protocol, Port
<1>3. LogAccept(set) = <<a, b>>
  BY DEF LogAccept
<1> HIDE DEF a, b
<1>4. <<b>> \in Seq(Rule) /\ <<a, b>> = <<a>> \o <<b>> /\ <<a, b>> \in Seq(Rule)
  BY <1>1, <1>2, OneRule, Tuples
<1>5. ASSUME p.dst \in set PROVE Result(<<a, b>>, p, st, "accept", "none", {"allowed"})
  <2>1. Result(<<b>>, p, st, "accept", "none", {})
    BY <1>2, <1>5, OneRule
  <2>2. Result(<<a, b>>, p, st, "accept", "none", {"allowed"} \cup {})
    BY <1>1, <1>4, <1>5, <2>1, RuleFirst
  <2>3. QED
    BY <2>2
<1>6. ASSUME p.dst \notin set PROVE Result(<<a, b>>, p, st, "pass", "none", {})
  BY <1>1, <1>2, <1>4, <1>6, OneRule, RuleFirst
<1>7. QED
  BY <1>3, <1>4, <1>5, <1>6

LEMMA LogDropRestDo ==
  ASSUME NEW p \in Packet, NEW st \in ConnState
  PROVE  LogDropRest \in Seq(Rule) /\ Result(LogDropRest, p, st, "drop", "none", {"blocked"})
<1> DEFINE a == Log("blocked")
           b == Decide("drop")
<1>1. a \in Rule /\ a.do = "log" /\ a.prefix = "blocked" /\ Matches(a, p, st)
  BY OtherRules
<1>2. b \in Rule /\ b.do = "drop" /\ b.to = "none" /\ Matches(b, p, st)
  BY Everything
<1>3. LogDropRest = <<a, b>>
  BY DEF LogDropRest
<1> HIDE DEF a, b
<1>4. <<b>> \in Seq(Rule) /\ <<a, b>> = <<a>> \o <<b>> /\ <<a, b>> \in Seq(Rule)
  BY <1>1, <1>2, OneRule, Tuples
<1>5. Result(<<b>>, p, st, "drop", "none", {})
  BY <1>2, OneRule
<1>6. Result(<<a, b>>, p, st, "drop", "none", {"blocked"} \cup {})
  BY <1>1, <1>4, <1>5, RuleFirst
<1>7. QED
  BY <1>3, <1>4, <1>6

LEMMA AllowThenDenyDo ==
  ASSUME NEW p \in Packet, NEW st \in ConnState, NEW allow \in SUBSET Address, NEW deny \in SUBSET Address
  PROVE  /\ AllowThenDeny(allow, deny) \in Seq(Rule)
         /\ p.dst \in allow => Result(AllowThenDeny(allow, deny), p, st, "accept", "none", {})
         /\ p.dst \in deny \ allow => Result(AllowThenDeny(allow, deny), p, st, "drop", "none", {"blocked"})
         /\ p.dst \notin allow \cup deny => Result(AllowThenDeny(allow, deny), p, st, "pass", "none", {})
<1> DEFINE a == To(allow, Decide("accept"))
           b == To(deny, Log("blocked"))
           c == To(deny, Decide("drop"))
<1>1. a \in Rule /\ a.do = "accept" /\ a.to = "none" /\ (Matches(a, p, st) <=> p.dst \in allow)
  BY DecideAt DEF Protocol, Port
<1>2. b \in Rule /\ b.do = "log" /\ b.prefix = "blocked" /\ (Matches(b, p, st) <=> p.dst \in deny)
  BY LogTo
<1>3. c \in Rule /\ c.do = "drop" /\ c.to = "none" /\ (Matches(c, p, st) <=> p.dst \in deny)
  BY DecideAt DEF Protocol, Port
<1>4. AllowThenDeny(allow, deny) = <<a, b, c>>
  BY DEF AllowThenDeny
<1> HIDE DEF a, b, c
<1>5. <<c>> \in Seq(Rule) /\ <<b, c>> = <<b>> \o <<c>> /\ <<b, c>> \in Seq(Rule)
      /\ <<a, b, c>> = <<a>> \o <<b, c>> /\ <<a, b, c>> \in Seq(Rule)
  BY <1>1, <1>2, <1>3, OneRule, Tuples
<1>6. ASSUME p.dst \in deny PROVE Result(<<b, c>>, p, st, "drop", "none", {"blocked"})
  <2>1. Result(<<c>>, p, st, "drop", "none", {})
    BY <1>3, <1>6, OneRule
  <2>2. Result(<<b, c>>, p, st, "drop", "none", {"blocked"} \cup {})
    BY <1>2, <1>5, <1>6, <2>1, RuleFirst
  <2>3. QED
    BY <2>2
<1>7. ASSUME p.dst \notin deny PROVE Result(<<b, c>>, p, st, "pass", "none", {})
  BY <1>2, <1>3, <1>5, <1>7, OneRule, RuleFirst
<1>8. ASSUME p.dst \in allow PROVE Result(<<a, b, c>>, p, st, "accept", "none", {})
  <2>1. PICK do, N : Result(<<b, c>>, p, st, do, "none", N)
    BY <1>6, <1>7
  <2>2. QED
    BY <1>1, <1>5, <1>8, <2>1, RuleFirst
<1>9. ASSUME p.dst \in deny \ allow PROVE Result(<<a, b, c>>, p, st, "drop", "none", {"blocked"})
  <2> DEFINE N == {"blocked"}
             B == <<b, c>>
  <2>1. Result(B, p, st, "drop", "none", N) /\ ~Matches(a, p, st) /\ B \in Seq(Rule)
    BY <1>1, <1>5, <1>6, <1>9
  <2> HIDE DEF N, B
  <2>2. Result(<<a>> \o B, p, st, "drop", "none", N)
    BY <1>1, <2>1, RuleFirst
  <2>3. QED
    BY <1>5, <2>2 DEF N, B
<1>10. ASSUME p.dst \notin allow \cup deny PROVE Result(<<a, b, c>>, p, st, "pass", "none", {})
  BY <1>1, <1>5, <1>7, <1>10, RuleFirst
<1>11. QED
  BY <1>4, <1>5, <1>8, <1>9, <1>10

-----------------------------------------------------------------------------
(* The filter templates.                                                   *)

\* What the templates make: rules, and what becomes of what they pass on.
IsChain(chain) == chain.rules \in Seq(Rule) /\ chain.policy \in {"accept", "drop"}

\* The chain lets the packet pass or drops it, and what it drops is logged as
\* blocked, nothing else is.
Filters(chain, p, st, ok) ==
  /\ IsChain(chain)
  /\ Verdict(chain, p, st).do = IF ok THEN "accept" ELSE "drop"
  /\ Prefixes(chain, p, st) \subseteq {"allowed", "blocked"}
  /\ "blocked" \in Prefixes(chain, p, st) <=> ~ok

LEMMA FiltersIf ==
  ASSUME NEW policy \in {"accept", "drop"}, NEW rules \in Seq(Rule), NEW p, NEW st, NEW do, NEW to, NEW N,
         NEW ok \in BOOLEAN,
         Result(rules, p, st, do, to, N), (IF do = "pass" THEN policy ELSE do) = (IF ok THEN "accept" ELSE "drop"),
         N \subseteq {"allowed", "blocked"}, "blocked" \in N <=> ~ok
  PROVE  Filters(Chain(policy, rules), p, st, ok)
<1>1. /\ Verdict(Chain(policy, rules), p, st).do = IF do = "pass" THEN policy ELSE do
      /\ Prefixes(Chain(policy, rules), p, st) = N
  BY KernelDecides
<1>2. IsChain(Chain(policy, rules))
  BY DEF IsChain, Chain
<1>3. QED
  BY <1>1, <1>2 DEF Filters

\* The same where nothing is logged.
LEMMA FiltersSilently ==
  ASSUME NEW policy \in {"accept", "drop"}, NEW rules \in Seq(Rule), NEW p, NEW st, NEW do,
         Result(rules, p, st, do, "none", {}), do = "accept" \/ (do = "pass" /\ policy = "accept")
  PROVE  Filters(Chain(policy, rules), p, st, TRUE)
<1> DEFINE N == {}
<1>1. Result(rules, p, st, do, "none", N) /\ N \subseteq {"allowed", "blocked"} /\ "blocked" \notin N
  OBVIOUS
<1> HIDE DEF N
<1>2. (IF do = "pass" THEN policy ELSE do) = (IF TRUE THEN "accept" ELSE "drop")
  OBVIOUS
<1>3. QED
  BY <1>1, <1>2, FiltersIf

\* The rules only accept, if x is true of the packet.
Accepts(rules, p, st, x) ==
  rules \in Seq(Rule) /\ Result(rules, p, st, IF x THEN "accept" ELSE "pass", "none", {})

LEMMA AcceptsJoined ==
  ASSUME NEW A, NEW B, NEW p, NEW st, NEW x \in BOOLEAN, NEW y \in BOOLEAN,
         Accepts(A, p, st, x), Accepts(B, p, st, y)
  PROVE  Accepts(A \o B, p, st, x \/ y)
<1>1. A \in Seq(Rule) /\ B \in Seq(Rule) /\ A \o B \in Seq(Rule)
  BY ConcatProperties DEF Accepts
<1>2. CASE x
  <2>1. Result(A, p, st, "accept", "none", {})
    BY <1>2 DEF Accepts
  <2>2. Result(A \o B, p, st, "accept", "none", {})
    BY <1>1, <2>1, Decided
  <2>3. QED
    BY <1>1, <1>2, <2>2 DEF Accepts
<1>3. CASE ~x
  <2> DEFINE do == IF y THEN "accept" ELSE "pass"
  <2>1. Result(A, p, st, "pass", "none", {}) /\ Result(B, p, st, do, "none", {})
    BY <1>3 DEF Accepts
  <2> HIDE DEF do
  <2>2. Result(A \o B, p, st, do, "none", {} \cup {})
    BY <1>1, <2>1, PassedOn
  <2>3. QED
    BY <1>1, <1>3, <2>2 DEF Accepts, do
<1>4. QED
  BY <1>2, <1>3

\* Accepted so far, or allowed: the rest is dropped.
LEMMA AcceptsThenAllow ==
  ASSUME NEW H, NEW p \in Packet, NEW st \in ConnState, NEW x \in BOOLEAN, Accepts(H, p, st, x),
         NEW allow \in SUBSET Address, NEW resolved \in SUBSET Address
  PROVE  /\ Filters(Chain("drop", H \o LogAccept(allow) \o LogDropRest), p, st, x \/ p.dst \in allow)
         /\ Filters(Chain("drop", H \o LogAccept(allow) \o LogAccept(resolved) \o LogDropRest), p, st,
                    x \/ p.dst \in allow \/ p.dst \in resolved)
<1> DEFINE LA == LogAccept(allow)
           LR == LogAccept(resolved)
           LD == LogDropRest
           F == {"allowed"}
           D == {"blocked"}
<1>1. /\ LA \in Seq(Rule) /\ LR \in Seq(Rule) /\ LD \in Seq(Rule) /\ H \in Seq(Rule)
      /\ H \o LA \in Seq(Rule) /\ H \o LA \o LR \in Seq(Rule)
      /\ H \o LA \o LD \in Seq(Rule) /\ H \o LA \o LR \o LD \in Seq(Rule)
  BY LogAcceptDo, LogDropRestDo, ConcatProperties DEF Accepts
<1>2. /\ p.dst \in allow => Result(LA, p, st, "accept", "none", F)
      /\ p.dst \notin allow => Result(LA, p, st, "pass", "none", {})
      /\ p.dst \in resolved => Result(LR, p, st, "accept", "none", F)
      /\ p.dst \notin resolved => Result(LR, p, st, "pass", "none", {})
      /\ Result(LD, p, st, "drop", "none", D)
  BY LogAcceptDo, LogDropRestDo
<1>3. F \subseteq {"allowed", "blocked"} /\ "blocked" \notin F
      /\ D \subseteq {"allowed", "blocked"} /\ "blocked" \in D
  OBVIOUS
<1> DEFINE dst == p.dst
           C1 == H \o LA \o LD
           C2 == H \o LA \o LR \o LD
<1> SUFFICES Filters(Chain("drop", C1), p, st, x \/ dst \in allow)
             /\ Filters(Chain("drop", C2), p, st, x \/ dst \in allow \/ dst \in resolved)
  OBVIOUS
<1> HIDE DEF LA, LR, LD, F, D, dst
<1>4. CASE x
  <2>1. Result(H, p, st, "accept", "none", {})
    BY <1>4 DEF Accepts
  <2>2. Result(H \o LA, p, st, "accept", "none", {})
    BY <1>1, <2>1, Decided
  <2>3. Result(C1, p, st, "accept", "none", {})
    BY <1>1, <2>2, Decided
  <2>4. Result(H \o LA \o LR, p, st, "accept", "none", {})
    BY <1>1, <2>2, Decided
  <2>5. Result(C2, p, st, "accept", "none", {})
    BY <1>1, <2>4, Decided
  <2> HIDE DEF C1, C2
  <2>6. Filters(Chain("drop", C1), p, st, TRUE) /\ Filters(Chain("drop", C2), p, st, TRUE)
    BY <1>1, <2>3, <2>5, FiltersSilently DEF C1, C2
  <2>7. QED
    BY <1>4, <2>6
<1>5. CASE ~x /\ dst \in allow
  <2>1. Result(H, p, st, "pass", "none", {}) /\ Result(LA, p, st, "accept", "none", F)
    BY <1>2, <1>5 DEF Accepts, dst
  <2>2. Result(H \o LA, p, st, "accept", "none", {} \cup F) /\ {} \cup F = F
    BY <1>1, <2>1, PassedOn
  <2>3. Result(H \o LA, p, st, "accept", "none", F)
    BY <2>2
  <2>4. Result(C1, p, st, "accept", "none", F)
    BY <1>1, <2>3, Decided
  <2>5. Result(H \o LA \o LR, p, st, "accept", "none", F)
    BY <1>1, <2>3, Decided
  <2>6. Result(C2, p, st, "accept", "none", F)
    BY <1>1, <2>5, Decided
  <2> HIDE DEF C1, C2
  <2>7. Filters(Chain("drop", C1), p, st, TRUE) /\ Filters(Chain("drop", C2), p, st, TRUE)
    BY <1>1, <1>3, <2>4, <2>6, FiltersIf DEF C1, C2
  <2>8. QED
    BY <1>5, <2>7
<1>6. CASE ~x /\ dst \notin allow
  <2>1. Result(H, p, st, "pass", "none", {}) /\ Result(LA, p, st, "pass", "none", {})
    BY <1>2, <1>6 DEF Accepts, dst
  <2>2. Result(H \o LA, p, st, "pass", "none", {})
    BY <1>1, <2>1, PassedOn
  <2>3. Result(C1, p, st, "drop", "none", {} \cup D) /\ {} \cup D = D
    BY <1>1, <1>2, <2>2, PassedOn
  <2>4. Result(C1, p, st, "drop", "none", D)
    BY <2>3
  <2>5. Filters(Chain("drop", C1), p, st, FALSE)
    <3> HIDE DEF C1
    <3> QED
      BY <1>1, <1>3, <2>4, FiltersIf DEF C1
  <2>6. CASE dst \in resolved
    <3>1. Result(H \o LA \o LR, p, st, "accept", "none", {} \cup F) /\ {} \cup F = F
      BY <1>1, <1>2, <2>2, <2>6, PassedOn DEF dst
    <3>2. Result(H \o LA \o LR, p, st, "accept", "none", F)
      BY <3>1
    <3>3. Result(C2, p, st, "accept", "none", F)
      BY <1>1, <3>2, Decided
    <3> HIDE DEF C2
    <3>4. Filters(Chain("drop", C2), p, st, TRUE)
      BY <1>1, <1>3, <3>3, FiltersIf DEF C2
    <3>5. QED
      BY <1>6, <2>5, <2>6, <3>4
  <2>7. CASE dst \notin resolved
    <3>1. Result(H \o LA \o LR, p, st, "pass", "none", {})
      <4>1. Result(LR, p, st, "pass", "none", {})
        BY <1>2, <2>7 DEF dst
      <4>2. Result(H \o LA \o LR, p, st, "pass", "none", {} \cup {})
        BY <1>1, <2>2, <4>1, PassedOn
      <4>3. QED
        BY <4>2
    <3>2. Result(C2, p, st, "drop", "none", {} \cup D) /\ {} \cup D = D
      BY <1>1, <1>2, <3>1, PassedOn
    <3>3. Result(C2, p, st, "drop", "none", D)
      BY <3>2
    <3> HIDE DEF C2
    <3>4. Filters(Chain("drop", C2), p, st, FALSE)
      BY <1>1, <1>3, <3>3, FiltersIf DEF C2
    <3>5. QED
      BY <1>6, <2>5, <2>7, <3>4
  <2>8. QED
    BY <2>6, <2>7
<1>7. QED
  BY <1>4, <1>5, <1>6

\* Accepted so far, or allowed, or not denied.
LEMMA AcceptsThenDeny ==
  ASSUME NEW H, NEW p \in Packet, NEW st \in ConnState, NEW x \in BOOLEAN, Accepts(H, p, st, x),
         NEW allow \in SUBSET Address, NEW deny \in SUBSET Address
  PROVE  Filters(Chain("accept", H \o AllowThenDeny(allow, deny)), p, st,
                 x \/ p.dst \in allow \/ p.dst \notin deny)
<1> DEFINE A == AllowThenDeny(allow, deny)
           D == {"blocked"}
           C == H \o A
<1>1. A \in Seq(Rule) /\ H \in Seq(Rule) /\ C \in Seq(Rule)
  BY AllowThenDenyDo, ConcatProperties DEF Accepts
<1>2. /\ p.dst \in allow => Result(A, p, st, "accept", "none", {})
      /\ p.dst \in deny \ allow => Result(A, p, st, "drop", "none", D)
      /\ p.dst \notin allow \cup deny => Result(A, p, st, "pass", "none", {})
  BY AllowThenDenyDo
<1>3. D \subseteq {"allowed", "blocked"} /\ "blocked" \in D
  OBVIOUS
<1> HIDE DEF A, D
<1>4. CASE x
  <2>1. Result(H, p, st, "accept", "none", {})
    BY <1>4 DEF Accepts
  <2>2. Result(C, p, st, "accept", "none", {})
    BY <1>1, <2>1, Decided
  <2>3. Filters(Chain("accept", C), p, st, TRUE)
    <3> HIDE DEF C
    <3> QED
      BY <1>1, <2>2, FiltersSilently
  <2>4. QED
    BY <1>4, <2>3 DEF A
<1>5. CASE ~x
  <2>0. Result(H, p, st, "pass", "none", {})
    BY <1>5 DEF Accepts
  <2>1. CASE p.dst \in deny \ allow
    <3>1. Result(C, p, st, "drop", "none", {} \cup D) /\ {} \cup D = D
      BY <1>1, <1>2, <2>0, <2>1, PassedOn
    <3>2. Filters(Chain("accept", C), p, st, FALSE)
      <4> HIDE DEF C
      <4> QED
        BY <1>1, <1>3, <3>1, FiltersIf
    <3>3. QED
      BY <1>5, <2>1, <3>2 DEF A
  <2>2. CASE p.dst \notin deny \ allow
    <3>1. PICK do \in {"accept", "pass"} : Result(A, p, st, do, "none", {})
      BY <1>2, <2>2
    <3>2. Result(C, p, st, do, "none", {} \cup {})
      BY <1>1, <2>0, <3>1, PassedOn
    <3>3. Filters(Chain("accept", C), p, st, TRUE)
      <4> HIDE DEF C
      <4> QED
        BY <1>1, <3>1, <3>2, FiltersSilently
    <3>4. QED
      BY <2>2, <3>3 DEF A
  <2>3. QED
    BY <2>1, <2>2
<1>6. QED
  BY <1>4, <1>5

\* A packet to one of the proxies on this host.
ToProxy(p) == p.dst = "lo" /\ p.proto = "tcp" /\ p.port \in {HTTPPort, HTTPSPort}
ToDNS(p, dnsPort) == p.dst = "lo" /\ p.proto \in {"tcp", "udp"} /\ p.port = dnsPort

LEMMA Heads ==
  ASSUME NEW p \in Packet, NEW st \in ConnState, NEW allow \in SUBSET Address, NEW dnsPort \in {"53", "5353"}
  PROVE  /\ Accepts(Preliminaries \o LocalProxies, p, st, Early(p, st) \/ ToProxy(p))
         /\ Accepts(Preliminaries \o LocalDNS(dnsPort), p, st, Early(p, st) \/ ToDNS(p, dnsPort))
         /\ Accepts(<<Ping(allow)>>, p, st, p.dst \in allow /\ p.proto = "ping")
         /\ Early(p, st) \in BOOLEAN
<1>0. /\ {"tcp", "udp"} \subseteq Protocol /\ {HTTPPort, HTTPSPort, dnsPort} \subseteq Port
      /\ Early(p, st) \in BOOLEAN
  BY DEF Protocol, Port, HTTPPort, HTTPSPort, Early, Packet
<1>1. Accepts(Preliminaries, p, st, Early(p, st))
  BY PreliminariesDo DEF Accepts
<1>2. Accepts(LocalProxies, p, st, ToProxy(p))
  <2>1. /\ LocalProxies \in Seq(Rule)
        /\ Result(LocalProxies, p, st,
             IF /\ p.dst = "lo"
                /\ \/ p.proto = "tcp" /\ p.port = HTTPPort
                   \/ p.proto = "tcp" /\ p.port = HTTPSPort
             THEN "accept" ELSE "pass", "none", {})
    BY <1>0, LocalDo DEF LocalProxies
  <2>2. QED
    BY <2>1 DEF Accepts, ToProxy
<1>3. Accepts(LocalDNS(dnsPort), p, st, ToDNS(p, dnsPort))
  <2>1. /\ LocalDNS(dnsPort) \in Seq(Rule)
        /\ Result(LocalDNS(dnsPort), p, st,
             IF /\ p.dst = "lo"
                /\ \/ p.proto = "udp" /\ p.port = dnsPort
                   \/ p.proto = "tcp" /\ p.port = dnsPort
             THEN "accept" ELSE "pass", "none", {})
    BY <1>0, LocalDo DEF LocalDNS
  <2>2. QED
    BY <2>1 DEF Accepts, ToDNS
<1>4. Accepts(<<Ping(allow)>>, p, st, p.dst \in allow /\ p.proto = "ping")
  BY PingDo DEF Accepts
<1>5. ToProxy(p) \in BOOLEAN /\ ToDNS(p, dnsPort) \in BOOLEAN
  BY DEF ToProxy, ToDNS
<1>6. QED
  BY <1>0, <1>1, <1>2, <1>3, <1>4, <1>5, AcceptsJoined

LEMMA HTTPSFilterDo ==
  ASSUME NEW p \in Packet, NEW st \in ConnState, NEW allow \in SUBSET Address, NEW deny \in SUBSET Address
  PROVE  \A ok \in BOOLEAN :
           LET x == Early(p, st) \/ ToProxy(p)
           IN /\ (ok <=> (x \/ p.dst \in allow))
                 => Filters(generateHTTPSFilterRules(allow), p, st, ok)
              /\ (ok <=> (x \/ p.dst \in allow \/ p.dst \notin deny))
                 => Filters(generateHTTPSFilterRulesAllow(allow, deny), p, st, ok)
<1> DEFINE x == Early(p, st) \/ ToProxy(p)
           y == p.dst \in allow /\ p.proto = "ping"
           H == Preliminaries \o LocalProxies
           I == H \o <<Ping(allow)>>
<1>1. Accepts(H, p, st, x) /\ Accepts(<<Ping(allow)>>, p, st, y) /\ x \in BOOLEAN /\ y \in BOOLEAN
  <2>1. "53" \in {"53", "5353"}
    OBVIOUS
  <2>2. QED
    BY <2>1, Heads DEF ToProxy
<1> HIDE DEF x, H
<1>2. Accepts(I, p, st, x \/ y) /\ (x \/ y) \in BOOLEAN
  <2> HIDE DEF y
  <2> QED
    BY <1>1, AcceptsJoined
<1>3. Filters(generateHTTPSFilterRules(allow), p, st, (x \/ y) \/ p.dst \in allow)
  <2>1. {} \in SUBSET Address
    OBVIOUS
  <2> DEFINE z == x \/ y
  <2>2. Accepts(I, p, st, z) /\ z \in BOOLEAN
    BY <1>2
  <2> HIDE DEF I, z
  <2>3. Filters(Chain("drop", I \o LogAccept(allow) \o LogDropRest), p, st, z \/ p.dst \in allow)
    BY <2>1, <2>2, AcceptsThenAllow
  <2>4. QED
    BY <2>3 DEF generateHTTPSFilterRules, I, H, z
<1>4. Filters(generateHTTPSFilterRulesAllow(allow, deny), p, st, x \/ p.dst \in allow \/ p.dst \notin deny)
  BY <1>1, AcceptsThenDeny DEF generateHTTPSFilterRulesAllow, H
<1>5. ((x \/ y) \/ p.dst \in allow) <=> (x \/ p.dst \in allow)
  OBVIOUS
<1>6. QED
  BY <1>3, <1>4, <1>5 DEF Filters, x

LEMMA DNSFilterDo ==
  ASSUME NEW p \in Packet, NEW st \in ConnState, NEW allow \in SUBSET Address, NEW deny \in SUBSET Address,
         NEW resolved \in SUBSET Address, NEW dnsPort \in {"53", "5353"}
  PROVE  \A ok \in BOOLEAN :
           LET x == Early(p, st) \/ ToDNS(p, dnsPort)
           IN /\ ok => Filters(generateDNSFilterRules(allow, dnsPort), p, st, ok)
              /\ (ok <=> (x \/ p.dst \in allow \/ p.dst \notin deny))
                 => Filters(generateDNSFilterRulesAllow(allow, deny, dnsPort), p, st, ok)
              /\ (ok <=> (x \/ p.dst \in allow \/ p.dst \in resolved))
                 => Filters(generateDNSStrictFilterRules(allow, resolved, dnsPort), p, st, ok)
              /\ (ok <=> (x \/ p.dst \in allow \/ p.dst \in resolved \/ p.proto = "nd"))
                 => Filters(generateDNSStrictFilterRulesV6(allow, resolved, dnsPort), p, st, ok)
<1> DEFINE x == Early(p, st) \/ ToDNS(p, dnsPort)
           y == p.dst \in allow /\ p.proto = "ping"
           n == p.proto = "nd"
           ND == <<[Decide("accept") EXCEPT !.proto = {"nd"}]>>
           H == Preliminaries \o LocalDNS(dnsPort)
           I == H \o <<Ping(allow)>>
           J == I \o ND
<1>1. Accepts(H, p, st, x) /\ Accepts(<<Ping(allow)>>, p, st, y) /\ x \in BOOLEAN /\ y \in BOOLEAN
  BY Heads DEF ToDNS
<1>2. Accepts(ND, p, st, n) /\ n \in BOOLEAN
  BY NeighboursDo DEF Accepts
<1> HIDE DEF x, y, n, H, ND
<1>3. Accepts(I, p, st, x \/ y) /\ (x \/ y) \in BOOLEAN
  BY <1>1, AcceptsJoined
<1> HIDE DEF I
<1>4. Accepts(J, p, st, (x \/ y) \/ n) /\ ((x \/ y) \/ n) \in BOOLEAN
  <2> DEFINE z == x \/ y
  <2>1. Accepts(I, p, st, z) /\ z \in BOOLEAN
    BY <1>3
  <2> HIDE DEF z
  <2>2. Accepts(J, p, st, z \/ n)
    BY <1>2, <2>1, AcceptsJoined
  <2>3. QED
    BY <1>2, <2>1, <2>2 DEF z
<1> HIDE DEF J
<1>5. Filters(generateDNSFilterRules(allow, dnsPort), p, st, TRUE)
  <2>1. generateDNSFilterRules(allow, dnsPort) = Chain("accept", I)
    BY DEF generateDNSFilterRules, I, H
  <2>2. PICK do \in {"accept", "pass"} : I \in Seq(Rule) /\ Result(I, p, st, do, "none", {})
    BY <1>3 DEF Accepts
  <2>3. QED
    BY <2>1, <2>2, FiltersSilently
<1>6. Filters(generateDNSFilterRulesAllow(allow, deny, dnsPort), p, st, x \/ p.dst \in allow \/ p.dst \notin deny)
  BY <1>1, AcceptsThenDeny DEF generateDNSFilterRulesAllow, H
<1>7. Filters(generateDNSStrictFilterRules(allow, resolved, dnsPort), p, st,
              (x \/ y) \/ p.dst \in allow \/ p.dst \in resolved)
  BY <1>3, AcceptsThenAllow DEF generateDNSStrictFilterRules, I, H
<1>8. Filters(generateDNSStrictFilterRulesV6(allow, resolved, dnsPort), p, st,
              ((x \/ y) \/ n) \/ p.dst \in allow \/ p.dst \in resolved)
  BY <1>4, AcceptsThenAllow DEF generateDNSStrictFilterRulesV6, J, I, H, ND
<1>9. /\ ((x \/ y) \/ p.dst \in allow \/ p.dst \in resolved) <=> (x \/ p.dst \in allow \/ p.dst \in resolved)
      /\ (((x \/ y) \/ n) \/ p.dst \in allow \/ p.dst \in resolved)
         <=> (x \/ p.dst \in allow \/ p.dst \in resolved \/ p.proto = "nd")
  BY DEF y, n
<1>10. QED
  BY <1>5, <1>6, <1>7, <1>8, <1>9 DEF Filters, x

-----------------------------------------------------------------------------
(* The NAT templates.                                                      *)

\* The chain sends the packet to the port `to' of this host, or, if that is
\* "none", leaves it as it is.
Redirects(chain, p, st, to) ==
  /\ IsChain(chain)
  /\ IF to = "none" THEN Verdict(chain, p, st).do \in {"accept", "return"}
     ELSE Verdict(chain, p, st).do = "redirect" /\ Verdict(chain, p, st).to = to
  /\ Prefixes(chain, p, st) \subseteq {"redirected", "dns_redirected"}

\* Two rules: what is for the port is logged and redirected.
LEMMA RedirectPair ==
  ASSUME NEW p \in Packet, NEW st \in ConnState, NEW x \in {"redirected", "dns_redirected"},
         NEW proto \in Protocol, NEW port \in Port, NEW to \in Port
  PROVE  LET rules == << On(proto, port, Log(x)), On(proto, port, Redirect(to)) >>
         IN /\ rules \in Seq(Rule)
            /\ p.proto = proto /\ p.port = port => Result(rules, p, st, "redirect", to, {x})
            /\ ~(p.proto = proto /\ p.port = port) => Result(rules, p, st, "pass", "none", {})
<1> DEFINE a == On(proto, port, Log(x))
           b == On(proto, port, Redirect(to))
           m == p.proto = proto /\ p.port = port
<1>1. a \in Rule /\ a.do = "log" /\ a.prefix = x /\ (Matches(a, p, st) <=> m)
  BY RedirectOn
<1>2. b \in Rule /\ b.do = "redirect" /\ b.to = to /\ (Matches(b, p, st) <=> m)
  BY RedirectOn
<1> HIDE DEF a, b, m
<1>3. <<b>> \in Seq(Rule) /\ <<a, b>> = <<a>> \o <<b>> /\ <<a, b>> \in Seq(Rule)
  BY <1>1, <1>2, OneRule, Tuples
<1>4. ASSUME m PROVE Result(<<a, b>>, p, st, "redirect", to, {x})
  <2> DEFINE B == <<b>>
             E == {}
             N == {x}
  <2>1. Result(B, p, st, "redirect", to, E)
    BY <1>2, <1>4, OneRule
  <2>2. B \in Seq(Rule) /\ <<a, b>> = <<a>> \o B /\ {a.prefix} \cup E = N
    BY <1>1, <1>3
  <2> HIDE DEF B, E, N
  <2>3. Result(<<a>> \o B, p, st, "redirect", to, N)
    BY <1>1, <1>4, <2>1, <2>2, RuleFirst
  <2>4. QED
    BY <2>2, <2>3 DEF N
<1>5. ASSUME ~m PROVE Result(<<a, b>>, p, st, "pass", "none", {})
  BY <1>1, <1>2, <1>3, <1>5, OneRule, RuleFirst
<1>6. QED
  BY <1>3, <1>4, <1>5 DEF a, b, m

\* Two pairs, one for each port or protocol.
LEMMA RedirectPairs ==
  ASSUME NEW p \in Packet, NEW st \in ConnState, NEW x \in {"redirected", "dns_redirected"},
         NEW proto1 \in Protocol, NEW port1 \in Port, NEW to1 \in Port,
         NEW proto2 \in Protocol, NEW port2 \in Port, NEW to2 \in Port,
         ~(proto1 = proto2 /\ port1 = port2)
  PROVE  LET rules == << On(proto1, port1, Log(x)), On(proto1, port1, Redirect(to1)),
                         On(proto2, port2, Log(x)), On(proto2, port2, Redirect(to2)) >>
             m1 == p.proto = proto1 /\ p.port = port1
             m2 == p.proto = proto2 /\ p.port = port2
         IN /\ rules \in Seq(Rule)
            /\ m1 => Result(rules, p, st, "redirect", to1, {x})
            /\ m2 => Result(rules, p, st, "redirect", to2, {x})
            /\ ~m1 /\ ~m2 => Result(rules, p, st, "pass", "none", {})
<1> DEFINE a == On(proto1, port1, Log(x))
           b == On(proto1, port1, Redirect(to1))
           c == On(proto2, port2, Log(x))
           d == On(proto2, port2, Redirect(to2))
           m1 == p.proto = proto1 /\ p.port = port1
           m2 == p.proto = proto2 /\ p.port = port2
           A == <<a, b>>
           B == <<c, d>>
           N == {x}
<1>1. a \in Rule /\ b \in Rule /\ c \in Rule /\ d \in Rule
  BY RedirectOn
<1>2. /\ A \in Seq(Rule)
      /\ m1 => Result(A, p, st, "redirect", to1, N)
      /\ ~m1 => Result(A, p, st, "pass", "none", {})
  BY RedirectPair
<1>3. /\ B \in Seq(Rule)
      /\ m2 => Result(B, p, st, "redirect", to2, N)
      /\ ~m2 => Result(B, p, st, "pass", "none", {})
  BY RedirectPair
<1>4. ~(m1 /\ m2)
  OBVIOUS
<1> HIDE DEF a, b, c, d, m1, m2
<1>5. <<a, b, c, d>> = A \o B /\ <<a, b, c, d>> \in Seq(Rule)
  BY <1>1, Tuples
<1> HIDE DEF A, B, N
<1>6. m1 => Result(A \o B, p, st, "redirect", to1, N)
  BY <1>2, <1>3, Decided
<1>7. m2 => Result(A \o B, p, st, "redirect", to2, N)
  <2> SUFFICES ASSUME m2 PROVE Result(A \o B, p, st, "redirect", to2, N)
    OBVIOUS
  <2>1. Result(A \o B, p, st, "redirect", to2, {} \cup N) /\ {} \cup N = N
    BY <1>2, <1>3, <1>4, PassedOn
  <2>2. QED
    BY <2>1
<1>8. ~m1 /\ ~m2 => Result(A \o B, p, st, "pass", "none", {})
  <2> SUFFICES ASSUME ~m1, ~m2 PROVE Result(A \o B, p, st, "pass", "none", {})
    OBVIOUS
  <2>1. Result(A \o B, p, st, "pass", "none", {} \cup {}) /\ {} \cup {} = {}
    BY <1>2, <1>3, PassedOn
  <2>2. QED
    BY <2>1
<1>9. QED
  BY <1>5, <1>6, <1>7, <1>8 DEF a, b, c, d, m1, m2, N

LEMMA RedirectsIf ==
  ASSUME NEW rules \in Seq(Rule), NEW p, NEW st, NEW do, NEW to \in Port, NEW N,
         Result(rules, p, st, do, to, N), N \subseteq {"redirected", "dns_redirected"},
         IF to = "none" THEN do \in {"pass", "return"} ELSE do = "redirect"
  PROVE  Redirects(Chain("accept", rules), p, st, to)
<1>1. /\ Verdict(Chain("accept", rules), p, st).do = IF do = "pass" THEN "accept" ELSE do
      /\ Verdict(Chain("accept", rules), p, st).to = to
      /\ Prefixes(Chain("accept", rules), p, st) = N
  BY KernelDecides
<1>2. IsChain(Chain("accept", rules))
  BY DEF IsChain, Chain
<1>3. QED
  BY <1>1, <1>2 DEF Redirects

\* Rules that only return what x is true of.
Returns(rules, p, st, x) ==
  rules \in Seq(Rule) /\ Result(rules, p, st, IF x THEN "return" ELSE "pass", "none", {})

\* What is not returned goes to the rules that redirect.
LEMMA ReturnsThenRedirects ==
  ASSUME NEW H, NEW R \in Seq(Rule), NEW p, NEW st, NEW x \in BOOLEAN, Returns(H, p, st, x),
         NEW do, NEW to \in Port, NEW N,
         Result(R, p, st, do, to, N), N \subseteq {"redirected", "dns_redirected"},
         IF to = "none" THEN do \in {"pass", "return"} ELSE do = "redirect"
  PROVE  Redirects(Chain("accept", H \o R), p, st, IF x THEN "none" ELSE to)
<1>1. H \in Seq(Rule) /\ H \o R \in Seq(Rule)
  BY ConcatProperties DEF Returns
<1>2. CASE x
  <2> DEFINE E == {}
  <2>1. Result(H, p, st, "return", "none", E) /\ E \subseteq {"redirected", "dns_redirected"}
    BY <1>2 DEF Returns
  <2> HIDE DEF E
  <2>2. Result(H \o R, p, st, "return", "none", E)
    BY <1>1, <2>1, Decided
  <2>3. "none" \in Port
    BY DEF Port
  <2>4. Redirects(Chain("accept", H \o R), p, st, "none")
    BY <1>1, <2>1, <2>2, <2>3, RedirectsIf
  <2>5. QED
    BY <1>2, <2>4
<1>3. CASE ~x
  <2>1. Result(H, p, st, "pass", "none", {})
    BY <1>3 DEF Returns
  <2>2. Result(H \o R, p, st, do, to, {} \cup N) /\ {} \cup N = N
    BY <1>1, <2>1, PassedOn
  <2>3. Redirects(Chain("accept", H \o R), p, st, to)
    BY <1>1, <2>2, RedirectsIf
  <2>4. QED
    BY <1>3, <2>3
<1>4. QED
  BY <1>2, <1>3

LEMMA ReturnsJoined ==
  ASSUME NEW A, NEW B, NEW p, NEW st, NEW x \in BOOLEAN, NEW y \in BOOLEAN,
         Returns(A, p, st, x), Returns(B, p, st, y)
  PROVE  Returns(A \o B, p, st, x \/ y)
<1>1. A \in Seq(Rule) /\ B \in Seq(Rule) /\ A \o B \in Seq(Rule)
  BY ConcatProperties DEF Returns
<1>2. CASE x
  <2>1. Result(A, p, st, "return", "none", {})
    BY <1>2 DEF Returns
  <2>2. Result(A \o B, p, st, "return", "none", {})
    BY <1>1, <2>1, Decided
  <2>3. QED
    BY <1>1, <1>2, <2>2 DEF Returns
<1>3. CASE ~x
  <2> DEFINE do == IF y THEN "return" ELSE "pass"
  <2>1. Result(A, p, st, "pass", "none", {}) /\ Result(B, p, st, do, "none", {})
    BY <1>3 DEF Returns
  <2> HIDE DEF do
  <2>2. Result(A \o B, p, st, do, "none", {} \cup {})
    BY <1>1, <2>1, PassedOn
  <2>3. QED
    BY <1>1, <1>3, <2>2 DEF Returns, do
<1>4. QED
  BY <1>2, <1>3

\* The rules of the NAT chains that return.
LEMMA ReturnsOne ==
  ASSUME NEW p \in Packet, NEW st \in ConnState, NEW set \in SUBSET Address
  PROVE  /\ Returns(<<Marked("return")>>, p, st, p.mark)
         /\ Returns(<<To(set, Decide("return"))>>, p, st, p.dst \in set)
<1> DEFINE a == Marked("return")
           b == To(set, Decide("return"))
<1>1. a \in Rule /\ a.do = "return" /\ a.to = "none" /\ (Matches(a, p, st) <=> p.mark)
  BY OtherRules
<1>2. b \in Rule /\ b.do = "return" /\ b.to = "none" /\ (Matches(b, p, st) <=> p.dst \in set)
  BY DecideAt DEF Protocol, Port
<1> HIDE DEF a, b
<1>3. <<a>> \in Seq(Rule) /\ Result(<<a>>, p, st, IF p.mark THEN "return" ELSE "pass", "none", {})
  BY <1>1, OneRule
<1>4. <<b>> \in Seq(Rule) /\ Result(<<b>>, p, st, IF p.dst \in set THEN "return" ELSE "pass", "none", {})
  BY <1>2, OneRule
<1>5. QED
  BY <1>3, <1>4 DEF Returns, a, b

\* Where the rules of https mode send a packet that is not returned, and where
\* those of the dns modes do.
WebPort(p) ==
  IF p.proto = "tcp" /\ p.port = "80" THEN HTTPPort
  ELSE IF p.proto = "tcp" /\ p.port = "443" THEN HTTPSPort ELSE "none"
QueryPort(p, dnsPort) == IF p.proto \in {"tcp", "udp"} /\ p.port = "53" THEN dnsPort ELSE "none"

LEMMA RedirectWebDo ==
  ASSUME NEW p \in Packet, NEW st \in ConnState
  PROVE  \E N \in SUBSET {"redirected", "dns_redirected"}, do \in {"redirect", "pass"} :
           /\ RedirectWeb \in Seq(Rule) /\ Result(RedirectWeb, p, st, do, WebPort(p), N)
           /\ do = "pass" <=> WebPort(p) = "none"
<1>1. /\ "80" \in Port /\ "443" \in Port /\ "tcp" \in Protocol /\ HTTPPort \in Port /\ HTTPSPort \in Port
      /\ "80" # "443" /\ HTTPPort # "none" /\ HTTPSPort # "none"
  BY DEF Port, Protocol, HTTPPort, HTTPSPort
<1> DEFINE x == "redirected"
           m1 == p.proto = "tcp" /\ p.port = "80"
           m2 == p.proto = "tcp" /\ p.port = "443"
           N1 == {x}
           E == {}
<1>2. x \in {"redirected", "dns_redirected"} /\ N1 \in SUBSET {"redirected", "dns_redirected"}
      /\ E \in SUBSET {"redirected", "dns_redirected"}
  OBVIOUS
<1>3. /\ RedirectWeb \in Seq(Rule)
      /\ m1 => Result(RedirectWeb, p, st, "redirect", HTTPPort, N1)
      /\ m2 => Result(RedirectWeb, p, st, "redirect", HTTPSPort, N1)
      /\ ~m1 /\ ~m2 => Result(RedirectWeb, p, st, "pass", "none", E)
  <2> HIDE DEF x
  <2> QED
    BY <1>1, <1>2, RedirectPairs DEF RedirectWeb, x
<1>4. WebPort(p) = IF m1 THEN HTTPPort ELSE IF m2 THEN HTTPSPort ELSE "none"
  BY DEF WebPort
<1> HIDE DEF x, m1, m2, N1, E
<1>5. CASE m1
  BY <1>1, <1>2, <1>3, <1>4, <1>5
<1>6. CASE ~m1 /\ m2
  BY <1>1, <1>2, <1>3, <1>4, <1>6
<1>7. CASE ~m1 /\ ~m2
  BY <1>1, <1>2, <1>3, <1>4, <1>7
<1>8. QED
  BY <1>5, <1>6, <1>7

LEMMA HTTPSNATDo ==
  ASSUME NEW p \in Packet, NEW st \in ConnState, NEW allow \in SUBSET Address, NEW deny \in SUBSET Address
  PROVE  /\ Redirects(generateHTTPSNATRules(allow), p, st,
                      IF p.mark \/ p.dst \in allow THEN "none" ELSE WebPort(p))
         /\ Redirects(generateHTTPSNATRulesAllow(allow, deny), p, st,
                      IF (p.mark \/ p.dst \in allow) \/ p.dst \in deny THEN "none" ELSE WebPort(p))
<1> DEFINE a == Marked("return")
           b == To(allow, Decide("return"))
           c == To(deny, Decide("return"))
           x == p.mark
           y == p.dst \in allow
           z == p.dst \in deny
           W == WebPort(p)
           S == {"redirected", "dns_redirected"}
<1>1. a \in Rule /\ b \in Rule /\ c \in Rule
  BY OtherRules, DecideAt DEF Protocol, Port
<1>2. Returns(<<a>>, p, st, x) /\ Returns(<<b>>, p, st, y) /\ Returns(<<c>>, p, st, z)
      /\ x \in BOOLEAN /\ y \in BOOLEAN /\ z \in BOOLEAN
  BY ReturnsOne DEF Packet
<1>3. PICK N \in SUBSET S, do \in {"redirect", "pass"} :
        /\ RedirectWeb \in Seq(Rule) /\ Result(RedirectWeb, p, st, do, W, N)
        /\ do = "pass" <=> W = "none"
  BY RedirectWebDo
<1>4. W \in Port /\ (IF W = "none" THEN do \in {"pass", "return"} ELSE do = "redirect")
  BY <1>3 DEF WebPort, Port, HTTPPort, HTTPSPort
<1>5. /\ generateHTTPSNATRules(allow) = Chain("accept", <<a, b>> \o RedirectWeb)
      /\ generateHTTPSNATRulesAllow(allow, deny) = Chain("accept", <<a, b, c>> \o RedirectWeb)
  BY DEF generateHTTPSNATRules, generateHTTPSNATRulesAllow
<1> HIDE DEF a, b, c, x, y, z, W, S
<1>6. /\ <<a, b>> = <<a>> \o <<b>> /\ <<b, c>> = <<b>> \o <<c>> /\ <<a, b, c>> = <<a>> \o <<b, c>>
  <2>1. <<a, b>> = <<a>> \o <<b>> /\ <<b, c>> = <<b>> \o <<c>>
    BY <1>1, Tuples
  <2>2. <<a, b, c>> = <<a>> \o <<b, c>>
    BY <1>1, Tuples
  <2>3. QED
    BY <2>1, <2>2
<1>7. Returns(<<a, b>>, p, st, x \/ y) /\ Returns(<<b, c>>, p, st, y \/ z)
  <2> DEFINE A == <<a>>
             B == <<b>>
             C == <<c>>
  <2>1. Returns(A, p, st, x) /\ Returns(B, p, st, y) /\ Returns(C, p, st, z)
    BY <1>2
  <2> HIDE DEF A, B, C
  <2>2. Returns(A \o B, p, st, x \/ y) /\ Returns(B \o C, p, st, y \/ z)
    BY <1>2, <2>1, ReturnsJoined
  <2>3. QED
    BY <1>6, <2>2 DEF A, B, C
<1>8. Returns(<<a, b, c>>, p, st, (x \/ y) \/ z)
  <2> DEFINE u == y \/ z
             B == <<b, c>>
  <2>1. u \in BOOLEAN /\ Returns(B, p, st, u) /\ <<a, b, c>> = <<a>> \o B
    BY <1>2, <1>6, <1>7
  <2> HIDE DEF u, B
  <2>2. Returns(<<a>> \o B, p, st, x \/ u)
    BY <1>2, <2>1, ReturnsJoined
  <2>3. ((x \/ y) \/ z) = (x \/ u)
    BY <1>2 DEF u
  <2>4. QED
    BY <2>1, <2>2, <2>3
<1>9. Redirects(Chain("accept", <<a, b>> \o RedirectWeb), p, st, IF x \/ y THEN "none" ELSE W)
  <2> DEFINE H == <<a, b>>
             u == x \/ y
  <2>1. u \in BOOLEAN /\ Returns(H, p, st, u)
    BY <1>2, <1>7
  <2> HIDE DEF H, u
  <2>2. Redirects(Chain("accept", H \o RedirectWeb), p, st, IF u THEN "none" ELSE W)
    BY <1>3, <1>4, <2>1, ReturnsThenRedirects DEF S
  <2>3. QED
    BY <2>2 DEF H, u
<1>10. Redirects(Chain("accept", <<a, b, c>> \o RedirectWeb), p, st, IF (x \/ y) \/ z THEN "none" ELSE W)
  <2> DEFINE H == <<a, b, c>>
             u == (x \/ y) \/ z
  <2>1. u \in BOOLEAN /\ Returns(H, p, st, u)
    BY <1>2, <1>8
  <2> HIDE DEF H, u
  <2>2. Redirects(Chain("accept", H \o RedirectWeb), p, st, IF u THEN "none" ELSE W)
    BY <1>3, <1>4, <2>1, ReturnsThenRedirects DEF S
  <2>3. QED
    BY <2>2 DEF H, u
<1>11. QED
  BY <1>5, <1>9, <1>10 DEF x, y, z, W

LEMMA RedirectQueriesDo ==
  ASSUME NEW p \in Packet, NEW st \in ConnState, NEW dnsPort \in {"53", "5353"}
  PROVE  LET R == << On("udp", "53", Log("dns_redirected")), On("udp", "53", Redirect(dnsPort)),
                     On("tcp", "53", Log("dns_redirected")), On("tcp", "53", Redirect(dnsPort)) >>
         IN \E N \in SUBSET {"redirected", "dns_redirected"}, do \in {"redirect", "pass"} :
              /\ R \in Seq(Rule) /\ Result(R, p, st, do, QueryPort(p, dnsPort), N)
              /\ do = "pass" <=> QueryPort(p, dnsPort) = "none"
<1>1. "53" \in Port /\ "tcp" \in Protocol /\ "udp" \in Protocol /\ dnsPort \in Port
      /\ dnsPort # "none" /\ "udp" # "tcp"
  BY DEF Port, Protocol
<1> DEFINE x == "dns_redirected"
           R == << On("udp", "53", Log(x)), On("udp", "53", Redirect(dnsPort)),
                   On("tcp", "53", Log(x)), On("tcp", "53", Redirect(dnsPort)) >>
           m1 == p.proto = "udp" /\ p.port = "53"
           m2 == p.proto = "tcp" /\ p.port = "53"
           N1 == {x}
           E == {}
<1>2. x \in {"redirected", "dns_redirected"} /\ N1 \in SUBSET {"redirected", "dns_redirected"}
      /\ E \in SUBSET {"redirected", "dns_redirected"}
  OBVIOUS
<1>3. /\ R \in Seq(Rule)
      /\ m1 => Result(R, p, st, "redirect", dnsPort, N1)
      /\ m2 => Result(R, p, st, "redirect", dnsPort, N1)
      /\ ~m1 /\ ~m2 => Result(R, p, st, "pass", "none", E)
  <2>1. ~("udp" = "tcp" /\ "53" = "53")
    BY <1>1
  <2>2. QED
    BY <1>1, <1>2, <2>1, RedirectPairs
<1>4. QueryPort(p, dnsPort) = IF m1 \/ m2 THEN dnsPort ELSE "none"
  BY DEF QueryPort
<1> SUFFICES \E N \in SUBSET {"redirected", "dns_redirected"}, do \in {"redirect", "pass"} :
               /\ R \in Seq(Rule) /\ Result(R, p, st, do, QueryPort(p, dnsPort), N)
               /\ do = "pass" <=> QueryPort(p, dnsPort) = "none"
  OBVIOUS
<1> HIDE DEF x, R, m1, m2, N1, E
<1>5. CASE m1 \/ m2
  BY <1>1, <1>2, <1>3, <1>4, <1>5
<1>6. CASE ~m1 /\ ~m2
  BY <1>1, <1>2, <1>3, <1>4, <1>6
<1>7. QED
  BY <1>5, <1>6

\* A query to a resolver on this host.
LocalQuery(p, dnsPort) == p.dst = "lo" /\ p.proto \in {"tcp", "udp"} /\ p.port \in {"53", dnsPort}

LEMMA DNSNATDo ==
  ASSUME NEW p \in Packet, NEW st \in ConnState, NEW dnsPort \in {"53", "5353"}
  PROVE  Redirects(generateDNSNATRules(dnsPort), p, st,
                   IF p.mark \/ LocalQuery(p, dnsPort) THEN "none" ELSE QueryPort(p, dnsPort))
<1> DEFINE a == To({"lo"}, On("udp", "53", Decide("return")))
           b == To({"lo"}, On("tcp", "53", Decide("return")))
           c == To({"lo"}, On("udp", dnsPort, Decide("return")))
           d == To({"lo"}, On("tcp", dnsPort, Decide("return")))
           M == <<Marked("return")>>
           A == <<a, b>>
           C == <<c, d>>
           L == <<a, b, c, d>>
           R == << On("udp", "53", Log("dns_redirected")), On("udp", "53", Redirect(dnsPort)),
                   On("tcp", "53", Log("dns_redirected")), On("tcp", "53", Redirect(dnsPort)) >>
           u == p.dst = "lo" /\ p.proto \in {"tcp", "udp"} /\ p.port = "53"
           v == p.dst = "lo" /\ p.proto \in {"tcp", "udp"} /\ p.port = dnsPort
           x == p.mark
           W == QueryPort(p, dnsPort)
           S == {"redirected", "dns_redirected"}
<1>1. /\ "53" \in Port /\ dnsPort \in Port /\ "tcp" \in Protocol /\ "udp" \in Protocol
      /\ "return" \in {"accept", "drop", "return"} /\ {"lo"} \in SUBSET Address
  BY DEF Port, Protocol, Address, Loopback
<1>2. a \in Rule /\ b \in Rule /\ c \in Rule /\ d \in Rule
  BY <1>1, DecideAt
<1>3. Returns(M, p, st, x) /\ x \in BOOLEAN
  BY <1>1, ReturnsOne DEF Packet
<1>4. Returns(A, p, st, u) /\ u \in BOOLEAN
  <2>1. A \in Seq(Rule)
        /\ Result(A, p, st, IF /\ p.dst = "lo"
                               /\ \/ p.proto = "udp" /\ p.port = "53"
                                  \/ p.proto = "tcp" /\ p.port = "53"
                            THEN "return" ELSE "pass", "none", {})
    BY <1>1, LocalDo
  <2>2. QED
    BY <2>1 DEF Returns
<1>5. Returns(C, p, st, v) /\ v \in BOOLEAN
  <2>1. C \in Seq(Rule)
        /\ Result(C, p, st, IF /\ p.dst = "lo"
                               /\ \/ p.proto = "udp" /\ p.port = dnsPort
                                  \/ p.proto = "tcp" /\ p.port = dnsPort
                            THEN "return" ELSE "pass", "none", {})
    BY <1>1, LocalDo
  <2>2. QED
    BY <2>1 DEF Returns
<1>6. PICK N \in SUBSET S, do \in {"redirect", "pass"} :
        /\ R \in Seq(Rule) /\ Result(R, p, st, do, W, N)
        /\ do = "pass" <=> W = "none"
  BY RedirectQueriesDo
<1>7. W \in Port /\ (IF W = "none" THEN do \in {"pass", "return"} ELSE do = "redirect")
  BY <1>1, <1>6 DEF QueryPort, Port
<1>8. generateDNSNATRules(dnsPort) = Chain("accept", M \o L \o R)
  BY DEF generateDNSNATRules
<1>9. LocalQuery(p, dnsPort) <=> u \/ v
  BY DEF LocalQuery
<1> HIDE DEF a, b, c, d, u, v, x, M, R, W, S
<1>10. L = A \o C
  BY <1>2, Tuples
<1> HIDE DEF A, C, L
<1>11. Returns(L, p, st, u \/ v)
  BY <1>4, <1>5, <1>10, ReturnsJoined
<1> DEFINE q == u \/ v
<1>12. q \in BOOLEAN /\ Returns(L, p, st, q)
  BY <1>11
<1> HIDE DEF q
<1>13. Returns(M \o L, p, st, x \/ q)
  BY <1>3, <1>12, ReturnsJoined
<1> DEFINE H == M \o L
           r == x \/ q
<1>14. Returns(H, p, st, r) /\ r \in BOOLEAN
  BY <1>13
<1> HIDE DEF H, r
<1>15. Redirects(Chain("accept", H \o R), p, st, IF r THEN "none" ELSE W)
  BY <1>6, <1>7, <1>14, ReturnsThenRedirects DEF S
<1>16. QED
  BY <1>8, <1>9, <1>15 DEF H, r, q, x, W

-----------------------------------------------------------------------------
(* ENFORCE=audit.                                                          *)

\* What the rewrite leaves of what a chain does.
LEMMA AuditedChain ==
  ASSUME NEW chain, IsChain(chain), NEW p, NEW st
  PROVE  LET a == auditChain(chain)
             v == Verdict(chain, p, st)
             w == Verdict(a, p, st)
         IN /\ w.to = v.to
            /\ w.do = IF v.do = "drop" THEN "accept" ELSE v.do
            /\ Prefixes(a, p, st) = {IF x = "blocked" THEN "audit" ELSE x : x \in Prefixes(chain, p, st)}
<1> DEFINE a == auditChain(chain)
           old == chain.rules
           new == a.rules
           n == Len(old)
           D == Deciding(chain, p, st)
<1>1. DOMAIN old = 1..n /\ DOMAIN new = 1..n /\ n \in Nat /\ a.policy = "accept"
      /\ \A i \in 1..n : old[i] \in Rule /\ new[i] = auditRule(old[i])
  BY DEF IsChain, auditChain
<1>2. ASSUME NEW i \in 1..n
      PROVE  /\ Matches(new[i], p, st) <=> Matches(old[i], p, st)
             /\ new[i].do = IF old[i].do = "drop" THEN "accept" ELSE old[i].do
             /\ new[i].to = old[i].to
             /\ new[i].prefix = IF old[i].prefix = "blocked" THEN "audit" ELSE old[i].prefix
  <2> DEFINE r == old[i]
  <2>1. r \in Rule /\ new[i] = auditRule(r)
    BY <1>1
  <2> HIDE DEF r, new, old
  <2>2. /\ auditRule(r).dst = r.dst /\ auditRule(r).oif = r.oif /\ auditRule(r).proto = r.proto
        /\ auditRule(r).port = r.port /\ auditRule(r).mark = r.mark /\ auditRule(r).state = r.state
        /\ auditRule(r).to = r.to
        /\ auditRule(r).do = IF r.do = "drop" THEN "accept" ELSE r.do
        /\ auditRule(r).prefix = IF r.prefix = "blocked" THEN "audit" ELSE r.prefix
    BY <2>1 DEF Rule, auditRule
  <2>3. QED
    BY <2>1, <2>2 DEF Matches, r
<1> HIDE DEF old, new, n
<1>3. Matching(a, p, st) = Matching(chain, p, st) /\ Matching(chain, p, st) \subseteq 1..n
  <2>1. \A i \in 1..n : \A j \in 1..(i - 1) : j \in 1..n
    BY <1>1
  <2>2. \A i \in 1..n : new[i].do = "log" <=> old[i].do = "log"
    BY <1>2
  <2>3. Matching(chain, p, st) =
          {i \in 1..n : /\ Matches(old[i], p, st)
                        /\ \A j \in 1..(i - 1) : Matches(old[j], p, st) => old[j].do = "log"}
    BY <1>1 DEF Matching, old
  <2>4. Matching(a, p, st) =
          {i \in 1..n : /\ Matches(new[i], p, st)
                        /\ \A j \in 1..(i - 1) : Matches(new[j], p, st) => new[j].do = "log"}
    BY <1>1 DEF Matching, new
  <2>5. QED
    BY <1>2, <2>1, <2>2, <2>3, <2>4
<1>4. Deciding(a, p, st) = D /\ D \subseteq 1..n
  BY <1>2, <1>3 DEF Deciding, old, new
<1>5. /\ Verdict(chain, p, st) = IF D = {} THEN Decide(chain.policy) ELSE old[CHOOSE i \in D : TRUE]
      /\ Verdict(a, p, st) = IF D = {} THEN Decide("accept") ELSE new[CHOOSE i \in D : TRUE]
  BY <1>1, <1>4 DEF Verdict, old, new
<1> HIDE DEF a, D
<1>6. /\ Verdict(a, p, st).to = Verdict(chain, p, st).to
      /\ Verdict(a, p, st).do =
           IF Verdict(chain, p, st).do = "drop" THEN "accept" ELSE Verdict(chain, p, st).do
  <2>1. CASE D = {}
    BY <1>5, <2>1 DEF Decide, IsChain
  <2>2. CASE D # {}
    <3> DEFINE k == CHOOSE i \in D : TRUE
    <3>1. k \in 1..n
      BY <1>4, <2>2
    <3> HIDE DEF k
    <3>2. Verdict(chain, p, st) = old[k] /\ Verdict(a, p, st) = new[k]
      BY <1>5, <2>2 DEF k
    <3>3. QED
      BY <1>2, <3>1, <3>2
  <2>3. QED
    BY <2>1, <2>2
<1>7. Prefixes(a, p, st) = {IF x = "blocked" THEN "audit" ELSE x : x \in Prefixes(chain, p, st)}
  <2> DEFINE L == {j \in Matching(chain, p, st) : old[j].do = "log"}
  <2>1. {j \in Matching(a, p, st) : new[j].do = "log"} = L /\ L \subseteq 1..n
    BY <1>2, <1>3
  <2>2. Prefixes(chain, p, st) = {old[j].prefix : j \in L}
    BY DEF Prefixes, old
  <2>3. Prefixes(a, p, st) = {new[j].prefix : j \in L}
    BY <2>1 DEF Prefixes, new
  <2> HIDE DEF L
  <2>4. \A j \in L : new[j].prefix = IF old[j].prefix = "blocked" THEN "audit" ELSE old[j].prefix
    BY <1>2, <2>1
  <2>5. QED
    BY <2>2, <2>3, <2>4
<1>8. QED
  BY <1>6, <1>7 DEF a

-----------------------------------------------------------------------------
(* The rulesets.                                                           *)

\* What the enforcing ruleset of a configuration lets pass.
Passes(config, family, p, st) ==
  \/ Early(p, st)
  \/ IF config.mode = "https" THEN ToProxy(p) ELSE ToDNS(p, config.dnsPort)
  \/ p.dst \in AllowSet(config)
  \/ IF config.defaultAllow THEN p.dst \notin config.deny
     ELSE \/ config.mode = "dns"
          \/ config.mode = "dns-strict" /\ (p.dst \in config.resolved \/ (family = "v6" /\ p.proto = "nd"))

\* The port of this host a new packet is sent to, "none" if to none.
ProxyPort(config, p) ==
  CASE p.mark -> "none"
    [] ~p.mark /\ config.mode = "https" ->
         IF p.dst \in AllowSet(config) \/ (config.defaultAllow /\ p.dst \in config.deny)
         THEN "none" ELSE WebPort(p)
    [] ~p.mark /\ config.mode # "https" ->
         IF LocalQuery(p, config.dnsPort) THEN "none" ELSE QueryPort(p, config.dnsPort)

LEMMA EnforcingRules ==
  ASSUME NEW config \in Config, NEW family \in Family, NEW p \in Packet, NEW st \in ConnState
  PROVE  LET chains == generateEnforcingRuleset(config)[family]
         IN /\ Filters(chains.filter, p, st, Passes(config, family, p, st))
            /\ Redirects(chains.nat, p, st, ProxyPort(config, p))
<1> DEFINE allow == AllowSet(config)
           dnsPort == config.dnsPort
           deny == config.deny
           res == config.resolved
           e == Early(p, st)
           t == ToProxy(p)
           d == ToDNS(p, dnsPort)
           W == WebPort(p)
           Q == QueryPort(p, dnsPort)
           l == LocalQuery(p, dnsPort)
<1>1. /\ allow \in SUBSET Address /\ deny \in SUBSET Address /\ res \in SUBSET Address
      /\ dnsPort \in {"53", "5353"} /\ config.mode \in {"https", "dns", "dns-strict"}
      /\ config.defaultAllow \in BOOLEAN /\ p.mark \in BOOLEAN
  BY DEF AllowSet, Config, Address, Loopback, Packet
<1>2. family = "v4" \/ family = "v6"
  BY DEF Family
<1> HIDE DEF allow, dnsPort, deny, res, e, t, d, W, Q, l
<1>3. \A ok \in BOOLEAN :
        /\ (ok <=> (e \/ t \/ p.dst \in allow))
           => Filters(generateHTTPSFilterRules(allow), p, st, ok)
        /\ (ok <=> (e \/ t \/ p.dst \in allow \/ p.dst \notin deny))
           => Filters(generateHTTPSFilterRulesAllow(allow, deny), p, st, ok)
  BY <1>1, HTTPSFilterDo DEF e, t
<1>4. \A ok \in BOOLEAN :
        /\ ok => Filters(generateDNSFilterRules(allow, dnsPort), p, st, ok)
        /\ (ok <=> (e \/ d \/ p.dst \in allow \/ p.dst \notin deny))
           => Filters(generateDNSFilterRulesAllow(allow, deny, dnsPort), p, st, ok)
        /\ (ok <=> (e \/ d \/ p.dst \in allow \/ p.dst \in res))
           => Filters(generateDNSStrictFilterRules(allow, res, dnsPort), p, st, ok)
        /\ (ok <=> (e \/ d \/ p.dst \in allow \/ p.dst \in res \/ p.proto = "nd"))
           => Filters(generateDNSStrictFilterRulesV6(allow, res, dnsPort), p, st, ok)
  BY <1>1, DNSFilterDo DEF e, d
<1>5. /\ Redirects(generateHTTPSNATRules(allow), p, st, IF p.mark \/ p.dst \in allow THEN "none" ELSE W)
      /\ Redirects(generateHTTPSNATRulesAllow(allow, deny), p, st,
                   IF (p.mark \/ p.dst \in allow) \/ p.dst \in deny THEN "none" ELSE W)
      /\ Redirects(generateDNSNATRules(dnsPort), p, st, IF p.mark \/ l THEN "none" ELSE Q)
  BY <1>1, HTTPSNATDo, DNSNATDo DEF W, Q, l
<1> DEFINE chains == generateEnforcingRuleset(config)[family]
           pass == Passes(config, family, p, st)
           port == ProxyPort(config, p)
<1>6. /\ pass <=> \/ e
                  \/ IF config.mode = "https" THEN t ELSE d
                  \/ p.dst \in allow
                  \/ IF config.defaultAllow THEN p.dst \notin deny
                     ELSE \/ config.mode = "dns"
                          \/ /\ config.mode = "dns-strict"
                             /\ p.dst \in res \/ (family = "v6" /\ p.proto = "nd")
      /\ pass \in BOOLEAN
  BY DEF Passes, e, t, d, allow, deny, res, dnsPort
<1>7. port = IF p.mark THEN "none"
             ELSE IF config.mode = "https"
                  THEN IF p.dst \in allow \/ (config.defaultAllow /\ p.dst \in deny) THEN "none" ELSE W
                  ELSE IF l THEN "none" ELSE Q
  BY <1>1 DEF ProxyPort, allow, deny, dnsPort, W, l, Q
<1> HIDE DEF pass, port
<1> SUFFICES Filters(chains.filter, p, st, pass) /\ Redirects(chains.nat, p, st, port)
  BY DEF pass, port
<1>8. CASE config.mode = "https" /\ config.defaultAllow
  <2>1. /\ chains.filter = generateHTTPSFilterRulesAllow(allow, deny)
        /\ chains.nat = generateHTTPSNATRulesAllow(allow, deny)
    BY <1>2, <1>8 DEF generateEnforcingRuleset, Tables, generateHTTPSFilterRulesAllowV6,
                      generateHTTPSNATRulesAllowV6, allow, deny
  <2>2. pass <=> (e \/ t \/ p.dst \in allow \/ p.dst \notin deny)
    BY <1>6, <1>8
  <2>3. port = IF (p.mark \/ p.dst \in allow) \/ p.dst \in deny THEN "none" ELSE W
    BY <1>7, <1>8
  <2>4. QED
    BY <1>3, <1>5, <1>6, <2>1, <2>2, <2>3 DEF Filters
<1>9. CASE config.mode = "https" /\ ~config.defaultAllow
  <2>1. /\ chains.filter = generateHTTPSFilterRules(allow)
        /\ chains.nat = generateHTTPSNATRules(allow)
    BY <1>2, <1>9 DEF generateEnforcingRuleset, Tables, generateHTTPSFilterRulesV6,
                      generateHTTPSNATRulesV6, allow
  <2>2. pass <=> (e \/ t \/ p.dst \in allow)
    BY <1>6, <1>9
  <2>3. port = IF p.mark \/ p.dst \in allow THEN "none" ELSE W
    BY <1>7, <1>9
  <2>4. QED
    BY <1>3, <1>5, <1>6, <2>1, <2>2, <2>3 DEF Filters
<1>10. CASE config.mode # "https"
  <2>1. port = IF p.mark \/ l THEN "none" ELSE Q
    BY <1>7, <1>10
  <2>2. chains.nat = generateDNSNATRules(dnsPort)
    BY <1>1, <1>2, <1>10 DEF generateEnforcingRuleset, Tables, generateDNSNATRulesV6, dnsPort
  <2>3. Redirects(chains.nat, p, st, port)
    BY <1>5, <2>1, <2>2
  <2>4. CASE config.defaultAllow
    <3>1. chains.filter = generateDNSFilterRulesAllow(allow, deny, dnsPort)
      BY <1>2, <1>10, <2>4 DEF generateEnforcingRuleset, Tables, generateDNSFilterRulesAllowV6,
                               allow, deny, dnsPort
    <3>2. pass <=> (e \/ d \/ p.dst \in allow \/ p.dst \notin deny)
      BY <1>6, <1>10, <2>4
    <3>3. QED
      BY <1>4, <1>6, <2>3, <3>1, <3>2 DEF Filters
  <2>5. CASE ~config.defaultAllow /\ config.mode = "dns"
    <3>1. chains.filter = generateDNSFilterRules(allow, dnsPort)
      BY <1>2, <2>5 DEF generateEnforcingRuleset, Tables, generateDNSFilterRulesV6, allow, dnsPort
    <3>2. pass <=> TRUE
      BY <1>6, <2>5
    <3>3. QED
      BY <1>4, <1>6, <2>3, <3>1, <3>2 DEF Filters
  <2>6. CASE ~config.defaultAllow /\ config.mode = "dns-strict"
    <3>1. chains.filter = IF family = "v4" THEN generateDNSStrictFilterRules(allow, res, dnsPort)
                          ELSE generateDNSStrictFilterRulesV6(allow, res, dnsPort)
      BY <1>2, <2>6 DEF generateEnforcingRuleset, Tables, allow, res, dnsPort
    <3>2. CASE family = "v4"
      <4>1. pass <=> (e \/ d \/ p.dst \in allow \/ p.dst \in res)
        BY <1>6, <2>6, <3>2
      <4>2. QED
        BY <1>4, <1>6, <2>3, <3>1, <3>2, <4>1 DEF Filters
    <3>3. CASE family = "v6"
      <4>1. pass <=> (e \/ d \/ p.dst \in allow \/ p.dst \in res \/ p.proto = "nd")
        BY <1>6, <2>6, <3>3
      <4>2. QED
        BY <1>4, <1>6, <2>3, <3>1, <3>3, <4>1 DEF Filters
    <3>4. QED
      BY <1>2, <3>2, <3>3
  <2>7. QED
    BY <1>1, <1>10, <2>4, <2>5, <2>6
<1>11. QED
  BY <1>1, <1>8, <1>9, <1>10

\* What the installed ruleset does with any packet, for every configuration.
\* The filter chain passes what the policy lets pass, all of it under audit;
\* the packet is logged as blocked, or under audit as that, if and only if the
\* policy would drop it; and NAT sends it to a proxy or leaves it alone.
THEOREM GeneratedRules ==
  ASSUME NEW config \in Config, NEW family \in Family, NEW p \in Packet, NEW st \in ConnState
  PROVE  LET chains == GenerateRuleset(config)[family]
             ok == Passes(config, family, p, st)
         IN /\ Verdict(chains.filter, p, st).do = IF config.audit \/ ok THEN "accept" ELSE "drop"
            /\ Prefixes(chains.filter, p, st) \subseteq {"allowed", "blocked", "audit"}
            /\ "blocked" \in Prefixes(chains.filter, p, st) <=> ~config.audit /\ ~ok
            /\ "audit" \in Prefixes(chains.filter, p, st) <=> config.audit /\ ~ok
            /\ IF ProxyPort(config, p) = "none"
               THEN Verdict(chains.nat, p, st).do \in {"accept", "return"}
               ELSE /\ Verdict(chains.nat, p, st).do = "redirect"
                    /\ Verdict(chains.nat, p, st).to = ProxyPort(config, p)
            /\ Prefixes(chains.nat, p, st) \subseteq {"redirected", "dns_redirected"}
<1> DEFINE tables == generateEnforcingRuleset(config)
           filter == tables[family].filter
           nat == tables[family].nat
           ok == Passes(config, family, p, st)
           to == ProxyPort(config, p)
<1>1. Filters(filter, p, st, ok) /\ Redirects(nat, p, st, to) /\ config.audit \in BOOLEAN
  BY EnforcingRules DEF Config
<1>2. /\ ~config.audit => /\ GenerateRuleset(config)[family].filter = filter
                          /\ GenerateRuleset(config)[family].nat = nat
      /\ config.audit => /\ GenerateRuleset(config)[family].filter = auditChain(filter)
                         /\ GenerateRuleset(config)[family].nat = auditChain(nat)
  BY DEF GenerateRuleset, auditRuleset
<1> HIDE DEF tables, filter, nat, ok, to
<1>3. /\ IsChain(filter) /\ IsChain(nat)
      /\ Verdict(filter, p, st).do = IF ok THEN "accept" ELSE "drop"
      /\ Prefixes(filter, p, st) \subseteq {"allowed", "blocked"}
      /\ "blocked" \in Prefixes(filter, p, st) <=> ~ok
      /\ IF to = "none" THEN Verdict(nat, p, st).do \in {"accept", "return"}
         ELSE Verdict(nat, p, st).do = "redirect" /\ Verdict(nat, p, st).to = to
      /\ Prefixes(nat, p, st) \subseteq {"redirected", "dns_redirected"}
  BY <1>1 DEF Filters, Redirects
<1> DEFINE new == GenerateRuleset(config)[family]
<1>4. CASE ~config.audit
  <2>1. "audit" \notin Prefixes(filter, p, st)
    BY <1>3
  <2>2. new.filter = filter /\ new.nat = nat
    BY <1>2, <1>4
  <2> HIDE DEF new
  <2>3. QED
    BY <1>3, <1>4, <2>1, <2>2 DEF ok, to, new
<1>5. CASE config.audit
  <2>1. new.filter = auditChain(filter) /\ new.nat = auditChain(nat)
    BY <1>2, <1>5
  <2> HIDE DEF new
  <2>2. /\ Verdict(new.filter, p, st).do =
             IF Verdict(filter, p, st).do = "drop" THEN "accept" ELSE Verdict(filter, p, st).do
        /\ Prefixes(new.filter, p, st) =
             {IF x = "blocked" THEN "audit" ELSE x : x \in Prefixes(filter, p, st)}
    BY <1>3, <2>1, AuditedChain
  <2>3. /\ Verdict(new.nat, p, st).to = Verdict(nat, p, st).to
        /\ Verdict(new.nat, p, st).do =
             IF Verdict(nat, p, st).do = "drop" THEN "accept" ELSE Verdict(nat, p, st).do
        /\ Prefixes(new.nat, p, st) =
             {IF x = "blocked" THEN "audit" ELSE x : x \in Prefixes(nat, p, st)}
    BY <1>3, <2>1, AuditedChain
  <2>4. Verdict(new.filter, p, st).do = "accept"
    BY <1>3, <2>2
  <2>5. /\ Prefixes(new.filter, p, st) \subseteq {"allowed", "audit"}
        /\ "blocked" \notin Prefixes(new.filter, p, st)
        /\ "audit" \in Prefixes(new.filter, p, st) <=> "blocked" \in Prefixes(filter, p, st)
    BY <1>3, <2>2
  <2>6. Prefixes(new.nat, p, st) \subseteq {"redirected", "dns_redirected"}
    BY <1>3, <2>3
  <2>7. IF to = "none" THEN Verdict(new.nat, p, st).do \in {"accept", "return"}
        ELSE Verdict(new.nat, p, st).do = "redirect" /\ Verdict(new.nat, p, st).to = to
    BY <1>3, <2>3
  <2>8. QED
    BY <1>3, <1>5, <2>4, <2>5, <2>6, <2>7 DEF ok, to, new
<1>6. QED
  BY <1>1, <1>4, <1>5

-----------------------------------------------------------------------------
(* The flow.                                                               *)

\* A flow that was translated is the proxies' business, in the mode of the run.
Translated ==
  \/ target = [dst |-> Pkt.dst, port |-> Pkt.port]
  \/ /\ ~Pkt.mark /\ target.dst = "lo"
     /\ IF cfg.mode = "https" THEN Pkt.proto = "tcp" /\ target.port \in {HTTPPort, HTTPSPort}
        ELSE Pkt.proto \in {"tcp", "udp"} /\ target.port = cfg.dnsPort

IInv == TypeOK /\ Translated

\* The next packet as it meets the filter chain.
Routed(config) ==
  IF conn # "none" THEN [Pkt EXCEPT !.dst = target.dst, !.port = target.port]
  ELSE IF ProxyPort(config, Pkt) = "none" THEN Pkt
  ELSE [Pkt EXCEPT !.dst = "lo", !.port = ProxyPort(config, Pkt)]

State == IF conn = "established" THEN "established" ELSE "new"

LEMMA FlowTypes ==
  ASSUME flow \in Flows
  PROVE  /\ Pkt \in Packet /\ flow.family \in Family
         /\ Pkt.oif = "lo" <=> Pkt.dst \in Loopback
         /\ Pkt.dst \in Address /\ Pkt.port \in Port
BY FlowsAssumption DEF Pkt, Packet

LEMMA ProxyPortType ==
  ASSUME NEW config \in Config, NEW p \in Packet
  PROVE  /\ ProxyPort(config, p) \in Port
         /\ ProxyPort(config, p) # "none" =>
              /\ ~p.mark
              /\ IF config.mode = "https" THEN p.proto = "tcp" /\ ProxyPort(config, p) \in {HTTPPort, HTTPSPort}
                 ELSE p.proto \in {"tcp", "udp"} /\ p.port = "53" /\ ProxyPort(config, p) = config.dnsPort
<1>1. p.mark \in BOOLEAN /\ config.dnsPort \in Port /\ "none" \in Port
      /\ HTTPPort \in Port /\ HTTPSPort \in Port
  BY DEF Packet, Config, Port, HTTPPort, HTTPSPort
<1>2. CASE p.mark
  BY <1>1, <1>2 DEF ProxyPort
<1>3. CASE ~p.mark /\ config.mode = "https"
  BY <1>1, <1>3 DEF ProxyPort, WebPort
<1>4. CASE ~p.mark /\ config.mode # "https"
  BY <1>1, <1>4 DEF ProxyPort, QueryPort
<1>5. QED
  BY <1>1, <1>2, <1>3, <1>4

\* What becomes of the next packet, for every configuration.
LEMMA FateIs ==
  ASSUME TypeOK, NEW config \in Config, NEW fate \in Fates(config)
  PROVE  /\ Routed(config) \in Packet /\ State \in ConnState
         /\ fate.dst = Routed(config).dst /\ fate.port = Routed(config).port
         /\ fate.passed <=> config.audit \/ Passes(config, flow.family, Routed(config), State)
         /\ "BLOCKED" \in fate.actions
              <=> ~config.audit /\ ~Passes(config, flow.family, Routed(config), State)
         /\ "AUDIT" \in fate.actions
              <=> config.audit /\ ~Passes(config, flow.family, Routed(config), State)
<1> DEFINE chains == GenerateRuleset(config)[flow.family]
           R == Routed(config)
           ok == Passes(config, flow.family, R, State)
           to == ProxyPort(config, Pkt)
           FP == Prefixes(chains.filter, R, State)
           NP == Prefixes(chains.nat, Pkt, "new")
<1>1. Pkt \in Packet /\ flow.family \in Family /\ to \in Port /\ "new" \in ConnState
  BY FlowTypes, ProxyPortType DEF TypeOK, ConnState
<1>2. R \in Packet /\ State \in ConnState
  <2>1. "lo" \in Address /\ target \in [dst : Address, port : Port]
    BY DEF Address, Loopback, TypeOK
  <2>2. QED
    BY <1>1, <2>1 DEF Routed, State, Packet, ConnState
<1>3. /\ Verdict(chains.filter, R, State).do = IF config.audit \/ ok THEN "accept" ELSE "drop"
      /\ FP \subseteq {"allowed", "blocked", "audit"}
      /\ "blocked" \in FP <=> ~config.audit /\ ~ok
      /\ "audit" \in FP <=> config.audit /\ ~ok
  <2> DEFINE family == flow.family
             S == State
  <2>1. family \in Family /\ R \in Packet /\ S \in ConnState
    BY <1>1, <1>2
  <2> HIDE DEF R, family, S
  <2>2. LET c == GenerateRuleset(config)[family]
        IN /\ Verdict(c.filter, R, S).do =
                IF config.audit \/ Passes(config, family, R, S) THEN "accept" ELSE "drop"
           /\ Prefixes(c.filter, R, S) \subseteq {"allowed", "blocked", "audit"}
           /\ "blocked" \in Prefixes(c.filter, R, S) <=> ~config.audit /\ ~Passes(config, family, R, S)
           /\ "audit" \in Prefixes(c.filter, R, S) <=> config.audit /\ ~Passes(config, family, R, S)
    BY <2>1, GeneratedRules
  <2>3. QED
    BY <2>2 DEF family, S
<1>4. /\ IF to = "none" THEN Verdict(chains.nat, Pkt, "new").do \in {"accept", "return"}
         ELSE /\ Verdict(chains.nat, Pkt, "new").do = "redirect"
              /\ Verdict(chains.nat, Pkt, "new").to = to
      /\ NP \subseteq {"redirected", "dns_redirected"}
  <2> DEFINE family == flow.family
             p == Pkt
             S == "new"
  <2>1. family \in Family /\ p \in Packet /\ S \in ConnState
    BY <1>1
  <2> HIDE DEF family, p, S
  <2>2. LET c == GenerateRuleset(config)[family]
        IN /\ IF ProxyPort(config, p) = "none"
              THEN Verdict(c.nat, p, S).do \in {"accept", "return"}
              ELSE /\ Verdict(c.nat, p, S).do = "redirect"
                   /\ Verdict(c.nat, p, S).to = ProxyPort(config, p)
           /\ Prefixes(c.nat, p, S) \subseteq {"redirected", "dns_redirected"}
    BY <2>1, GeneratedRules
  <2>3. QED
    BY <2>2 DEF family, p, S
<1> HIDE DEF chains, ok, to
<1>5. Translate(chains.nat) = IF to = "none" THEN Pkt ELSE [Pkt EXCEPT !.dst = "lo", !.port = to]
  BY <1>4 DEF Translate
<1>6. R = IF conn = "none" THEN Translate(chains.nat)
          ELSE [Pkt EXCEPT !.dst = target.dst, !.port = target.port]
  BY <1>5 DEF Routed, to
<1>7. fate = Output(chains)
  BY DEF Fates, chains
<1> HIDE DEF R, FP, NP
<1>8. /\ fate.dst = R.dst /\ fate.port = R.port
      /\ fate.passed = (Verdict(chains.filter, R, State).do = "accept")
      /\ fate.actions = {mapPrefixToAction(x) : x \in FP \cup (IF conn = "none" THEN NP ELSE {})}
  BY <1>6, <1>7 DEF Output, State, FP, NP
<1>9. /\ mapPrefixToAction("blocked") = "BLOCKED" /\ mapPrefixToAction("audit") = "AUDIT"
      /\ mapPrefixToAction("allowed") = "ALLOWED"
      /\ \A x \in {"redirected", "dns_redirected"} : mapPrefixToAction(x) = "REDIRECTED"
  BY DEF mapPrefixToAction
<1>10. "BLOCKED" \in fate.actions <=> "blocked" \in FP
  BY <1>3, <1>4, <1>8, <1>9
<1>11. "AUDIT" \in fate.actions <=> "audit" \in FP
  BY <1>3, <1>4, <1>8, <1>9
<1>12. QED
  BY <1>2, <1>3, <1>8, <1>10, <1>11 DEF R, ok

-----------------------------------------------------------------------------
(* The invariant.                                                          *)

LEMMA ApplyType ==
  ASSUME NEW settings, settings.mode \in {"https", "dns", "dns-strict"}, settings.audit \in BOOLEAN,
         settings.dnsPort \in {"53", "5353"}, NEW policy \in Policies
  PROVE  /\ Apply(settings, policy) \in Config /\ Apply(settings, policy).resolved = {}
         /\ Apply(settings, policy).mode = settings.mode
         /\ Apply(settings, policy).audit = settings.audit
         /\ Apply(settings, policy).dnsPort = settings.dnsPort
<1>1. policy.defaultAllow \in BOOLEAN /\ policy.allow \in SUBSET Remote /\ policy.deny \in SUBSET Remote
  BY PoliciesAssumption
<1>2. QED
  BY <1>1 DEF Apply, Config

LEMMA InitInv == Init => IInv
<1> SUFFICES ASSUME Init PROVE IInv
  OBVIOUS
<1>1. PICK s \in Settings, p \in Policies : cfg = Apply(s, p)
  BY DEF Init
<1>2. cfg \in Config /\ cfg.resolved = {}
  BY <1>1, ApplyType, SettingsAssumption
<1>3. target \in [dst : Address, port : Port]
  BY FlowTypes DEF Init
<1>4. TypeOK
  BY <1>2, <1>3 DEF Init, TypeOK
<1>5. QED
  BY <1>4 DEF Init, IInv, Translated

\* A step that leaves the flow and the settings alone.
LEMMA SettingsStay ==
  ASSUME Translated, UNCHANGED <<flow, target>>,
         cfg'.mode = cfg.mode, cfg'.dnsPort = cfg.dnsPort
  PROVE  Translated'
BY DEF Translated, Pkt

LEMMA SendInv == ASSUME IInv, Send PROVE IInv'
<1>1. PICK fate \in Fates(cfg) : target' = [dst |-> fate.dst, port |-> fate.port]
  BY DEF Send
<1>2. conn = "none" /\ conn' = "unreplied" /\ UNCHANGED <<cfg, flow>> /\ cfg \in Config /\ flow \in Flows
  BY DEF Send, IInv, TypeOK
<1>3. Routed(cfg) \in Packet /\ fate.dst = Routed(cfg).dst /\ fate.port = Routed(cfg).port
  BY <1>2, FateIs DEF IInv
<1>4. TypeOK'
  <2>1. target' \in [dst : Address, port : Port]
    BY <1>1, <1>3 DEF Packet
  <2>2. QED
    BY <1>2, <2>1 DEF IInv, TypeOK
<1>5. Translated'
  <2> DEFINE to == ProxyPort(cfg, Pkt)
  <2>1. Pkt \in Packet /\ Pkt' = Pkt
    BY <1>2, FlowTypes DEF Pkt
  <2>2. to \in Port /\ (to # "none" =>
          /\ ~Pkt.mark
          /\ IF cfg.mode = "https" THEN Pkt.proto = "tcp" /\ to \in {HTTPPort, HTTPSPort}
             ELSE Pkt.proto \in {"tcp", "udp"} /\ to = cfg.dnsPort)
    BY <1>2, <2>1, ProxyPortType
  <2>3. Routed(cfg) = IF to = "none" THEN Pkt ELSE [Pkt EXCEPT !.dst = "lo", !.port = to]
    BY <1>2 DEF Routed
  <2> HIDE DEF to
  <2>4. CASE to = "none"
    <3>1. target' = [dst |-> Pkt'.dst, port |-> Pkt'.port]
      BY <1>1, <1>3, <2>1, <2>3, <2>4
    <3>2. QED
      BY <3>1 DEF Translated
  <2>5. CASE to # "none"
    <3>1. target'.dst = "lo" /\ target'.port = to
      BY <1>1, <1>3, <2>1, <2>3, <2>5 DEF Packet
    <3>2. QED
      BY <1>2, <2>1, <2>2, <2>5, <3>1 DEF Translated
  <2>6. QED
    BY <2>4, <2>5
<1>6. QED
  BY <1>4, <1>5 DEF IInv

LEMMA ReloadInv == ASSUME IInv, Reload PROVE IInv'
<1>1. PICK p \in Policies : cfg' = Apply(cfg, p)
  BY DEF Reload
<1>2. cfg.mode \in {"https", "dns", "dns-strict"} /\ cfg.audit \in BOOLEAN /\ cfg.dnsPort \in {"53", "5353"}
  BY DEF IInv, TypeOK, Config
<1>3. cfg' \in Config /\ cfg'.resolved = {} /\ cfg'.mode = cfg.mode /\ cfg'.dnsPort = cfg.dnsPort
  BY <1>1, <1>2, ApplyType
<1>4. TypeOK'
  BY <1>3 DEF IInv, TypeOK, Reload
<1>5. QED
  BY <1>3, <1>4, SettingsStay DEF IInv, Reload

LEMMA ResolvedSetInv ==
  ASSUME IInv, NEW set \in SUBSET Remote, cfg' = [cfg EXCEPT !.resolved = set],
         set # {} => cfg.mode = "dns-strict" /\ ~cfg.defaultAllow,
         UNCHANGED <<flow, conn, target>>
  PROVE  IInv'
<1>1. cfg \in Config
  BY DEF IInv, TypeOK
<1>2. /\ cfg' \in Config /\ cfg'.resolved = set /\ cfg'.mode = cfg.mode
      /\ cfg'.dnsPort = cfg.dnsPort /\ cfg'.defaultAllow = cfg.defaultAllow
  BY <1>1 DEF Config
<1>3. TypeOK'
  BY <1>2 DEF IInv, TypeOK
<1>4. QED
  BY <1>2, <1>3, SettingsStay DEF IInv

LEMMA NextInv == IInv /\ [Next]_vars => IInv'
<1> SUFFICES ASSUME IInv, [Next]_vars PROVE IInv'
  OBVIOUS
<1>1. CASE Send
  BY <1>1, SendInv
<1>2. CASE Reply
  BY <1>2, SettingsStay DEF IInv, TypeOK, Reply
<1>3. CASE ConnExpires
  BY <1>3, SettingsStay DEF IInv, TypeOK, ConnExpires
<1>4. CASE Reload
  BY <1>4, ReloadInv
<1>5. CASE Resolved
  <2>1. PICK a \in Remote \ cfg.resolved : cfg' = [cfg EXCEPT !.resolved = @ \cup {a}]
    BY <1>5 DEF Resolved
  <2> DEFINE set == cfg.resolved \cup {a}
  <2>2. set \in SUBSET Remote
    BY <2>1 DEF IInv, TypeOK, Config
  <2>3. cfg' = [cfg EXCEPT !.resolved = set] /\ cfg.mode = "dns-strict" /\ ~cfg.defaultAllow
    BY <1>5, <2>1 DEF Resolved
  <2> HIDE DEF set
  <2>4. QED
    BY <1>5, <2>2, <2>3, ResolvedSetInv DEF Resolved
<1>6. CASE Lapse
  <2>1. PICK a \in cfg.resolved : cfg' = [cfg EXCEPT !.resolved = @ \ {a}]
    BY <1>6 DEF Lapse
  <2> DEFINE set == cfg.resolved \ {a}
  <2>2. set \in SUBSET Remote
    BY <2>1 DEF IInv, TypeOK, Config
  <2>3. cfg' = [cfg EXCEPT !.resolved = set] /\ cfg.mode = "dns-strict" /\ ~cfg.defaultAllow
    BY <2>1 DEF IInv, TypeOK
  <2> HIDE DEF set
  <2>4. QED
    BY <1>6, <2>2, <2>3, ResolvedSetInv DEF Lapse
<1>7. CASE UNCHANGED vars
  BY <1>7, SettingsStay DEF IInv, TypeOK, vars
<1>8. QED
  BY <1>1, <1>2, <1>3, <1>4, <1>5, <1>6, <1>7 DEF Next

LEMMA Invariant == Spec => []IInv
<1>1. QED
  BY InitInv, NextInv, PTL DEF Spec

\* The types of the flow's state, and that dns-strict entries exist only where
\* they are enforced: never in another mode, never after a reload to default
\* allow (the empty set that a reload leaves and the condition of the hook).
THEOREM Types == Spec => []TypeOK
<1>1. IInv => TypeOK
  BY DEF IInv
<1>2. QED
  BY <1>1, Invariant, PTL

-----------------------------------------------------------------------------
(* The properties.                                                         *)

\* The next packet, and what it may be.
LEMMA NextPacket ==
  ASSUME IInv
  PROVE  LET R == Routed(cfg)
             to == ProxyPort(cfg, Pkt)
         IN /\ cfg \in Config /\ Pkt \in Packet /\ flow.family \in Family
            /\ R \in Packet /\ R.oif = Pkt.oif /\ R.proto = Pkt.proto /\ R.mark = Pkt.mark
            /\ R.dst = (IF conn # "none" THEN target.dst ELSE IF to = "none" THEN Pkt.dst ELSE "lo")
            /\ R.port = (IF conn # "none" THEN target.port ELSE IF to = "none" THEN Pkt.port ELSE to)
            /\ \/ R.dst = Pkt.dst /\ R.port = Pkt.port
               \/ /\ ~Pkt.mark /\ R.dst = "lo" /\ Passes(cfg, flow.family, R, State)
                  /\ cfg.mode # "https" => R.port = cfg.dnsPort
<1> DEFINE R == Routed(cfg)
           to == ProxyPort(cfg, Pkt)
<1>1. cfg \in Config /\ Pkt \in Packet /\ flow.family \in Family /\ target \in [dst : Address, port : Port]
  BY FlowTypes DEF IInv, TypeOK
<1>2. to \in Port /\ (to # "none" =>
        /\ ~Pkt.mark
        /\ IF cfg.mode = "https" THEN Pkt.proto = "tcp" /\ to \in {HTTPPort, HTTPSPort}
           ELSE Pkt.proto \in {"tcp", "udp"} /\ to = cfg.dnsPort)
  BY <1>1, ProxyPortType
<1> HIDE DEF to
<1>3. /\ R \in Packet /\ R.oif = Pkt.oif /\ R.proto = Pkt.proto /\ R.mark = Pkt.mark
      /\ R.dst = (IF conn # "none" THEN target.dst ELSE IF to = "none" THEN Pkt.dst ELSE "lo")
      /\ R.port = (IF conn # "none" THEN target.port ELSE IF to = "none" THEN Pkt.port ELSE to)
  <2>1. "lo" \in Address
    BY DEF Address, Loopback
  <2>2. QED
    BY <1>1, <1>2, <2>1 DEF Routed, Packet, to
<1> HIDE DEF R
<1>4. \/ R.dst = Pkt.dst /\ R.port = Pkt.port
      \/ /\ ~Pkt.mark /\ R.dst = "lo"
         /\ IF cfg.mode = "https" THEN R.proto = "tcp" /\ R.port \in {HTTPPort, HTTPSPort}
            ELSE R.proto \in {"tcp", "udp"} /\ R.port = cfg.dnsPort
  <2>1. CASE conn # "none" /\ target = [dst |-> Pkt.dst, port |-> Pkt.port]
    BY <1>3, <2>1
  <2>2. CASE conn # "none" /\ target # [dst |-> Pkt.dst, port |-> Pkt.port]
    BY <1>3, <2>2 DEF IInv, Translated
  <2>3. CASE conn = "none"
    BY <1>2, <1>3, <2>3
  <2>4. QED
    BY <2>1, <2>2, <2>3
<1>5. (/\ R.dst = "lo"
       /\ IF cfg.mode = "https" THEN R.proto = "tcp" /\ R.port \in {HTTPPort, HTTPSPort}
          ELSE R.proto \in {"tcp", "udp"} /\ R.port = cfg.dnsPort)
      => Passes(cfg, flow.family, R, State)
  BY DEF Passes, ToProxy, ToDNS
<1>6. QED
  BY <1>1, <1>3, <1>4, <1>5 DEF R, to

LEMMA OnlyAllowed == IInv => OnlyAllowedLeave
<1> SUFFICES ASSUME IInv, NEW fate \in Fates(cfg)
             PROVE  /\ (/\ Enforcing /\ ~cfg.defaultAllow /\ cfg.mode # "dns" /\ conn # "established"
                        /\ fate.passed /\ fate.dst \in Remote)
                       => \/ fate.dst \in cfg.allow
                          \/ cfg.mode = "dns-strict" /\ fate.dst \in cfg.resolved
                          \/ Pkt.mark
                          \/ cfg.mode = "dns-strict" /\ flow.family = "v6" /\ Pkt.proto = "nd"
                    /\ (/\ Enforcing /\ cfg.defaultAllow /\ Pkt.dst \in cfg.deny \ cfg.allow
                        /\ ~Pkt.mark /\ conn = "none")
                       => \/ ~fate.passed /\ "BLOCKED" \in fate.actions
                          \/ cfg.mode # "https" /\ fate.dst = "lo" /\ fate.port = cfg.dnsPort
  BY DEF OnlyAllowedLeave
<1> DEFINE R == Routed(cfg)
           ok == Passes(cfg, flow.family, R, State)
           to == ProxyPort(cfg, Pkt)
<1>1. /\ fate.dst = R.dst /\ fate.port = R.port
      /\ fate.passed <=> cfg.audit \/ ok
      /\ "BLOCKED" \in fate.actions <=> ~cfg.audit /\ ~ok
  BY FateIs DEF IInv, TypeOK
<1>2. /\ cfg \in Config /\ Pkt \in Packet
      /\ R \in Packet /\ R.oif = Pkt.oif /\ R.proto = Pkt.proto /\ R.mark = Pkt.mark
      /\ R.dst = (IF conn # "none" THEN target.dst ELSE IF to = "none" THEN Pkt.dst ELSE "lo")
      /\ R.port = (IF conn # "none" THEN target.port ELSE IF to = "none" THEN Pkt.port ELSE to)
      /\ R.dst = Pkt.dst \/ R.dst = "lo"
  BY NextPacket
<1>3. /\ Pkt.oif = "lo" <=> Pkt.dst \in Loopback
      /\ "lo" \in Loopback /\ "lo" \notin Remote
      /\ \A x \in Remote : x \notin Loopback
  BY FlowTypes, RemoteAssumption DEF IInv, TypeOK, Loopback
<1>4. \A x \in Remote : x \in AllowSet(cfg) <=> x \in cfg.allow
  BY <1>3 DEF AllowSet
<1>5. cfg.deny \subseteq Remote /\ cfg.mode \in {"https", "dns", "dns-strict"}
  BY <1>2 DEF Config
<1> HIDE DEF to
<1>6. ASSUME Enforcing, ~cfg.defaultAllow, cfg.mode # "dns", conn # "established", fate.passed, fate.dst \in Remote
      PROVE  \/ fate.dst \in cfg.allow
             \/ cfg.mode = "dns-strict" /\ fate.dst \in cfg.resolved
             \/ Pkt.mark
             \/ cfg.mode = "dns-strict" /\ flow.family = "v6" /\ Pkt.proto = "nd"
  <2>1. R.dst \in Remote /\ R.dst = Pkt.dst /\ R.oif # "lo" /\ State = "new" /\ ok
    BY <1>1, <1>2, <1>3, <1>6 DEF Enforcing, State
  <2>2. ~ToProxy(R) /\ ~ToDNS(R, cfg.dnsPort)
    BY <1>3, <2>1 DEF ToProxy, ToDNS
  <2> HIDE DEF R
  <2>3. QED
    BY <1>1, <1>2, <1>4, <1>6, <2>1, <2>2 DEF Passes, Early
<1>7. ASSUME Enforcing, cfg.defaultAllow, Pkt.dst \in cfg.deny \ cfg.allow, ~Pkt.mark, conn = "none"
      PROVE  \/ ~fate.passed /\ "BLOCKED" \in fate.actions
             \/ cfg.mode # "https" /\ fate.dst = "lo" /\ fate.port = cfg.dnsPort
  <2>1. CASE to # "none"
    <3>1. /\ IF cfg.mode = "https" THEN to = WebPort(Pkt) /\ Pkt.dst \notin cfg.deny
             ELSE to = cfg.dnsPort
      BY <1>2, <1>7, <2>1 DEF ProxyPort, QueryPort, to
    <3>2. QED
      BY <1>1, <1>2, <1>7, <2>1, <3>1
  <2>2. CASE to = "none"
    <3>1. R.dst = Pkt.dst /\ Pkt.dst \in Remote /\ R.oif # "lo" /\ State = "new"
      BY <1>2, <1>3, <1>5, <1>7, <2>2 DEF State
    <3>2. ~ToProxy(R) /\ ~ToDNS(R, cfg.dnsPort) /\ R.dst \notin AllowSet(cfg) /\ ~R.mark
      BY <1>2, <1>3, <1>4, <1>7, <3>1 DEF ToProxy, ToDNS
    <3> HIDE DEF R
    <3>3. ~ok
      BY <1>2, <1>7, <3>1, <3>2 DEF Passes, Early
    <3>4. QED
      BY <1>1, <1>7, <3>3 DEF Enforcing
  <2>3. QED
    BY <2>1, <2>2
<1>8. QED
  BY <1>6, <1>7

LEMMA Allowlisted == IInv => AllowlistPasses
<1> SUFFICES ASSUME IInv, NEW fate \in Fates(cfg), Pkt.dst \in cfg.allow
             PROVE  /\ fate.passed
                    /\ conn = "none" /\ ~(cfg.mode # "https" /\ Pkt.port = "53" /\ ~Pkt.mark)
                       => fate.dst = Pkt.dst
  BY DEF AllowlistPasses
<1> DEFINE R == Routed(cfg)
           ok == Passes(cfg, flow.family, R, State)
           to == ProxyPort(cfg, Pkt)
<1>1. fate.dst = R.dst /\ (fate.passed <=> cfg.audit \/ ok)
  BY FateIs DEF IInv, TypeOK
<1>2. /\ R.dst = (IF conn # "none" THEN target.dst ELSE IF to = "none" THEN Pkt.dst ELSE "lo")
      /\ R.dst = Pkt.dst \/ ok
  BY NextPacket
<1>3. Pkt.dst \in AllowSet(cfg)
  BY DEF AllowSet
<1>4. R.dst = Pkt.dst => ok
  <2> HIDE DEF R
  <2> QED
    BY <1>3 DEF Passes
<1>5. ~(cfg.mode # "https" /\ Pkt.port = "53" /\ ~Pkt.mark) => to = "none"
  <2>1. Pkt.mark \in BOOLEAN
    BY NextPacket DEF Packet
  <2>2. QED
    BY <1>3, <2>1 DEF ProxyPort, QueryPort
<1>6. QED
  BY <1>1, <1>2, <1>4, <1>5

LEMMA ProxiesSee == IInv => ProxiesSeeTheirTraffic
<1> DEFINE verdict == cfg.allow \cup (IF cfg.defaultAllow THEN cfg.deny ELSE {})
           Reaches(fate, dst, port) == fate.passed /\ fate.dst = dst /\ fate.port = port
<1> SUFFICES ASSUME IInv, NEW fate \in Fates(cfg)
             PROVE  /\ Pkt.mark => Reaches(fate, Pkt.dst, Pkt.port)
                    /\ (conn = "none" /\ ~Pkt.mark)
                       => /\ (cfg.mode = "https" /\ Pkt.proto = "tcp" /\ Pkt.dst \in Remote \ verdict)
                             => /\ Pkt.port = "80" => Reaches(fate, "lo", HTTPPort)
                                /\ Pkt.port = "443" => Reaches(fate, "lo", HTTPSPort)
                          /\ (cfg.mode # "https" /\ Pkt.proto \in {"tcp", "udp"}
                              /\ Pkt.port = "53" /\ Pkt.dst # "lo")
                             => Reaches(fate, "lo", cfg.dnsPort)
  BY DEF ProxiesSeeTheirTraffic
<1> DEFINE R == Routed(cfg)
           ok == Passes(cfg, flow.family, R, State)
           to == ProxyPort(cfg, Pkt)
<1>1. fate.dst = R.dst /\ fate.port = R.port /\ (fate.passed <=> cfg.audit \/ ok)
  BY FateIs DEF IInv, TypeOK
<1>2. /\ R.mark = Pkt.mark /\ R.proto = Pkt.proto
      /\ R.dst = (IF conn # "none" THEN target.dst ELSE IF to = "none" THEN Pkt.dst ELSE "lo")
      /\ R.port = (IF conn # "none" THEN target.port ELSE IF to = "none" THEN Pkt.port ELSE to)
      /\ (R.dst = Pkt.dst /\ R.port = Pkt.port) \/ (~Pkt.mark /\ ok)
  BY NextPacket
<1> HIDE DEF R
<1>3. Pkt.mark => Reaches(fate, Pkt.dst, Pkt.port)
  <2> SUFFICES ASSUME Pkt.mark PROVE Reaches(fate, Pkt.dst, Pkt.port)
    OBVIOUS
  <2>1. ok
    BY <1>2 DEF Passes, Early
  <2>2. QED
    BY <1>1, <1>2, <2>1
<1>4. ASSUME conn = "none", ~Pkt.mark, cfg.mode = "https", Pkt.proto = "tcp", Pkt.dst \in Remote \ verdict
      PROVE  /\ Pkt.port = "80" => Reaches(fate, "lo", HTTPPort)
             /\ Pkt.port = "443" => Reaches(fate, "lo", HTTPSPort)
  <2>1. Pkt.dst \notin AllowSet(cfg) /\ ~(cfg.defaultAllow /\ Pkt.dst \in cfg.deny)
    BY <1>4, RemoteAssumption DEF AllowSet, Loopback
  <2>2. to = WebPort(Pkt)
    BY <1>4, <2>1 DEF ProxyPort
  <2>3. /\ Pkt.port = "80" => to = HTTPPort
        /\ Pkt.port = "443" => to = HTTPSPort
        /\ HTTPPort # "none" /\ HTTPSPort # "none"
    BY <1>4, <2>2 DEF WebPort, HTTPPort, HTTPSPort
  <2> HIDE DEF to
  <2>4. ASSUME to \in {HTTPPort, HTTPSPort} PROVE Reaches(fate, "lo", to)
    <3>1. R.dst = "lo" /\ R.port = to /\ R.proto = "tcp"
      BY <1>2, <1>4, <2>3, <2>4
    <3>2. ok
      BY <1>4, <2>4, <3>1 DEF Passes, ToProxy
    <3>3. QED
      BY <1>1, <3>1, <3>2
  <2>5. QED
    BY <2>3, <2>4
<1>5. ASSUME conn = "none", ~Pkt.mark, cfg.mode # "https", Pkt.proto \in {"tcp", "udp"},
             Pkt.port = "53", Pkt.dst # "lo"
      PROVE  Reaches(fate, "lo", cfg.dnsPort)
  <2>1. to = cfg.dnsPort /\ cfg.dnsPort # "none"
    BY <1>5, NextPacket DEF ProxyPort, QueryPort, LocalQuery, Config
  <2> HIDE DEF to
  <2>2. R.dst = "lo" /\ R.port = cfg.dnsPort /\ R.proto \in {"tcp", "udp"}
    BY <1>2, <1>5, <2>1
  <2>3. ok
    BY <1>5, <2>2 DEF Passes, ToDNS
  <2>4. QED
    BY <1>1, <2>2, <2>3
<1>6. QED
  BY <1>3, <1>4, <1>5

LEMMA Survive == IInv => ConnectionsSurvive
<1> SUFFICES ASSUME IInv, NEW fate \in Fates(cfg),
                    \/ conn = "established"
                    \/ conn = "unreplied" /\ target # [dst |-> Pkt.dst, port |-> Pkt.port]
             PROVE  fate.passed
  BY DEF ConnectionsSurvive
<1> DEFINE R == Routed(cfg)
           ok == Passes(cfg, flow.family, R, State)
<1>1. fate.passed <=> cfg.audit \/ ok
  BY FateIs DEF IInv, TypeOK
<1>2. /\ R.dst = (IF conn # "none" THEN target.dst
                  ELSE IF ProxyPort(cfg, Pkt) = "none" THEN Pkt.dst ELSE "lo")
      /\ R.port = (IF conn # "none" THEN target.port
                   ELSE IF ProxyPort(cfg, Pkt) = "none" THEN Pkt.port ELSE ProxyPort(cfg, Pkt))
      /\ (R.dst = Pkt.dst /\ R.port = Pkt.port) \/ ok
  BY NextPacket
<1> HIDE DEF R
<1>3. CASE conn = "established"
  BY <1>1, <1>3 DEF Passes, Early, State
<1>4. CASE conn = "unreplied" /\ target # [dst |-> Pkt.dst, port |-> Pkt.port]
  <2>1. ~(target.dst = Pkt.dst /\ target.port = Pkt.port)
    BY <1>4 DEF IInv, TypeOK
  <2>2. QED
    BY <1>1, <1>2, <1>4, <2>1
<1>5. QED
  BY <1>3, <1>4

LEMMA Reports == IInv => ReportsTellTheTruth
<1> SUFFICES ASSUME IInv, NEW fate \in Fates(cfg), NEW enforced \in Fates([cfg EXCEPT !.audit = FALSE])
             PROVE  /\ cfg.audit => fate.passed /\ ("AUDIT" \in fate.actions <=> ~enforced.passed)
                    /\ "BLOCKED" \in fate.actions <=> ~fate.passed
  BY DEF ReportsTellTheTruth
<1> DEFINE twin == [cfg EXCEPT !.audit = FALSE]
           ok == Passes(cfg, flow.family, Routed(cfg), State)
<1>1. cfg \in Config /\ twin \in Config /\ twin.audit = FALSE
      /\ twin.mode = cfg.mode /\ twin.defaultAllow = cfg.defaultAllow /\ twin.allow = cfg.allow
      /\ twin.deny = cfg.deny /\ twin.resolved = cfg.resolved /\ twin.dnsPort = cfg.dnsPort
  BY DEF IInv, TypeOK, Config
<1> HIDE DEF twin
<1>2. AllowSet(twin) = AllowSet(cfg)
  BY <1>1 DEF AllowSet
<1>3. ProxyPort(twin, Pkt) = ProxyPort(cfg, Pkt)
  BY <1>1, <1>2 DEF ProxyPort
<1>4. Routed(twin) = Routed(cfg)
  BY <1>3 DEF Routed
<1>5. Passes(twin, flow.family, Routed(twin), State) <=> ok
  BY <1>1, <1>2, <1>4 DEF Passes
<1>6. /\ fate.passed <=> cfg.audit \/ ok
      /\ "BLOCKED" \in fate.actions <=> ~cfg.audit /\ ~ok
      /\ "AUDIT" \in fate.actions <=> cfg.audit /\ ~ok
  BY <1>1, FateIs DEF IInv
<1>7. enforced.passed <=> twin.audit \/ Passes(twin, flow.family, Routed(twin), State)
  BY <1>1, FateIs DEF IInv, twin
<1>8. QED
  BY <1>1, <1>5, <1>6, <1>7

-----------------------------------------------------------------------------
(* The theorems, for every policy, setting and flow.                       *)

\* Under default deny nothing leaves the namespace for an address that is not
\* allowlisted, resolved by the proxy or asked for by a proxy, and under default
\* allow nothing new reaches a denied address, whatever reloads happen between
\* the packets of a flow (the rule templates of nftables.go, and their order).
THEOREM OnlyAllowedLeaveHolds == Spec => []OnlyAllowedLeave
<1>1. QED
  BY Invariant, OnlyAllowed, PTL

\* A packet for an allowlisted address passes whatever else is listed, and a new
\* flow goes there directly (the allow rules before the deny rules and before
\* the redirects).
THEOREM AllowlistPassesHolds == Spec => []AllowlistPasses
<1>1. QED
  BY Invariant, Allowlisted, PTL

\* Each proxy is sent its traffic and the filter chain lets it arrive; what the
\* proxies send is neither redirected back nor dropped (the redirects of the NAT
\* templates against the first rules of the filter templates, and SO_MARK).
THEOREM ProxiesSeeTheirTrafficHolds == Spec => []ProxiesSeeTheirTraffic
<1>1. QED
  BY Invariant, ProxiesSee, PTL

\* No reload and no lapse of an entry cuts an answered connection, nor one that
\* was sent to a proxy (the conntrack rule and the rules of the proxies' ports).
THEOREM ConnectionsSurviveHolds == Spec => []ConnectionsSurvive
<1>1. QED
  BY Invariant, Survive, PTL

\* ENFORCE=audit drops nothing and reports exactly what enforcing would drop,
\* and enforcing reports exactly what it drops (auditRuleset's rewrite).
THEOREM ReportsTellTheTruthHolds == Spec => []ReportsTellTheTruth
<1>1. QED
  BY Invariant, Reports, PTL
=============================================================================
