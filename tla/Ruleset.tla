------------------------------- MODULE Ruleset -------------------------------
(***************************************************************************)
(* The nftables rulesets of internal/nftables/nftables.go, as data: a      *)
(* chain is a policy and a sequence of rules, a rule matches sets of       *)
(* destinations, protocols, ports, marks and conntrack states, and either  *)
(* logs a prefix or decides.  The templates are translated rule by rule,   *)
(* in order; addresses and ports are abstract.                             *)
(*                                                                         *)
(* "lo" is 127.0.0.1 (or ::1), "lo11" another loopback address (such as    *)
(* Docker's resolver, 127.0.0.11), and Remote everything routed elsewhere. *)
(***************************************************************************)
EXTENDS Naturals, Sequences, FiniteSets

CONSTANT Remote  \* destinations that are not loopback

Loopback == {"lo", "lo11"}
ASSUME RemoteAssumption == Remote \cap Loopback = {}
Address == Loopback \cup Remote
Family == {"v4", "v6"}

\* The protocols the rules tell apart: "nd" is ICMPv6 neighbour discovery.
Protocol == {"tcp", "udp", "ping", "nd"}
\* HTTP_PORT, HTTPS_PORT, and DNS_PORT, which is 53 unless configured.
HTTPPort == "8080"
HTTPSPort == "8443"
Port == {"80", "443", "53", "5353", HTTPPort, HTTPSPort, "none", "other"}

\* oif is the interface the packet was first routed to.  A redirect rewrites
\* the destination, and later hooks still see the first interface: that is why
\* the templates accept the proxies' own ports besides oifname "lo".
Packet == [dst : Address, oif : {"lo", "eth"}, proto : Protocol, port : Port, mark : BOOLEAN]
ConnState == {"new", "established"}

-----------------------------------------------------------------------------
(* Rules.                                                                  *)

Decide(verdict) ==
  [dst |-> Address, oif |-> {"lo", "eth"}, proto |-> Protocol, port |-> Port, mark |-> BOOLEAN,
   state |-> ConnState, do |-> verdict, to |-> "none", prefix |-> "none"]

To(set, rule) == [rule EXCEPT !.dst = set]
On(proto, port, rule) == [rule EXCEPT !.proto = {proto}, !.port = {port}]
Log(prefix) == [Decide("log") EXCEPT !.prefix = prefix]
Redirect(port) == [Decide("redirect") EXCEPT !.to = port]
Marked(verdict) == [Decide(verdict) EXCEPT !.mark = {TRUE}]
Ping(set) == To(set, [Decide("accept") EXCEPT !.proto = {"ping"}])

\* Defect: the conntrack rule is missing.
Preliminaries_NoConntrack == << [Decide("accept") EXCEPT !.oif = {"lo"}], Marked("accept") >>

\* The rules every filter chain begins with.
Preliminaries ==
  << [Decide("accept") EXCEPT !.oif = {"lo"}],
     [Decide("accept") EXCEPT !.state = {"established"}],
     Marked("accept") >>

\* Defect: only the HTTP port is accepted.
LocalProxies_HTTPOnly == << To({"lo"}, On("tcp", HTTPPort, Decide("accept"))) >>

LocalProxies == << To({"lo"}, On("tcp", HTTPPort, Decide("accept"))),
                   To({"lo"}, On("tcp", HTTPSPort, Decide("accept"))) >>

LocalDNS(dnsPort) == << To({"lo"}, On("udp", dnsPort, Decide("accept"))),
                        To({"lo"}, On("tcp", dnsPort, Decide("accept"))) >>

LogAccept(set) == << To(set, Log("allowed")), To(set, Decide("accept")) >>
LogDropRest == << Log("blocked"), Decide("drop") >>
AllowThenDeny(allow, deny) ==
  << To(allow, Decide("accept")), To(deny, Log("blocked")), To(deny, Decide("drop")) >>

Chain(policy, rules) == [policy |-> policy, rules |-> rules]

-----------------------------------------------------------------------------
(* The templates.                                                          *)

generateHTTPSFilterRules(allow) ==
  Chain("drop", Preliminaries \o LocalProxies \o <<Ping(allow)>> \o LogAccept(allow) \o LogDropRest)

\* The IPv6 templates hold the same rules over ::1 and the IPv6 sets.
generateHTTPSFilterRulesV6(allow) == generateHTTPSFilterRules(allow)

RedirectWeb == << On("tcp", "80", Log("redirected")), On("tcp", "80", Redirect(HTTPPort)),
                  On("tcp", "443", Log("redirected")), On("tcp", "443", Redirect(HTTPSPort)) >>

generateHTTPSNATRules(allow) ==
  Chain("accept", <<Marked("return"), To(allow, Decide("return"))>> \o RedirectWeb)

generateHTTPSNATRulesV6(allow) == generateHTTPSNATRules(allow)

\* Defect: the denylist is looked up before the allowlist.
generateHTTPSFilterRulesAllow_DenyFirst(allow, deny) ==
  Chain("accept", Preliminaries \o LocalProxies
                  \o << To(deny, Log("blocked")), To(deny, Decide("drop")), To(allow, Decide("accept")) >>)

generateHTTPSFilterRulesAllow(allow, deny) ==
  Chain("accept", Preliminaries \o LocalProxies \o AllowThenDeny(allow, deny))

generateHTTPSFilterRulesAllowV6(allow, deny) == generateHTTPSFilterRulesAllow(allow, deny)

\* Defect: deny-listed destinations are proxied like the others.
generateHTTPSNATRulesAllow_ProxiesDenied(allow, deny) ==
  Chain("accept", <<Marked("return"), To(allow, Decide("return"))>> \o RedirectWeb)

generateHTTPSNATRulesAllow(allow, deny) ==
  Chain("accept", <<Marked("return"), To(allow, Decide("return")), To(deny, Decide("return"))>>
                  \o RedirectWeb)

generateHTTPSNATRulesAllowV6(allow, deny) == generateHTTPSNATRulesAllow(allow, deny)

generateDNSFilterRules(allow, dnsPort) ==
  Chain("accept", Preliminaries \o LocalDNS(dnsPort) \o <<Ping(allow)>>)

generateDNSFilterRulesV6(allow, dnsPort) == generateDNSFilterRules(allow, dnsPort)

generateDNSFilterRulesAllow(allow, deny, dnsPort) ==
  Chain("accept", Preliminaries \o LocalDNS(dnsPort) \o AllowThenDeny(allow, deny))

generateDNSFilterRulesAllowV6(allow, deny, dnsPort) == generateDNSFilterRulesAllow(allow, deny, dnsPort)

generateDNSStrictFilterRules(allow, resolved, dnsPort) ==
  Chain("drop", Preliminaries \o LocalDNS(dnsPort) \o <<Ping(allow)>>
                \o LogAccept(allow) \o LogAccept(resolved) \o LogDropRest)

generateDNSStrictFilterRulesV6(allow, resolved, dnsPort) ==
  Chain("drop", Preliminaries \o LocalDNS(dnsPort) \o <<Ping(allow)>>
                \o << [Decide("accept") EXCEPT !.proto = {"nd"}] >>
                \o LogAccept(allow) \o LogAccept(resolved) \o LogDropRest)

\* Defect: the proxy's own queries are redirected back to it.
generateDNSNATRules_Unmarked(dnsPort) ==
  Chain("accept", << On("udp", "53", Log("dns_redirected")), On("udp", "53", Redirect(dnsPort)),
                     On("tcp", "53", Log("dns_redirected")), On("tcp", "53", Redirect(dnsPort)) >>)

generateDNSNATRules(dnsPort) ==
  Chain("accept",
    <<Marked("return")>>
    \o << To({"lo"}, On("udp", "53", Decide("return"))), To({"lo"}, On("tcp", "53", Decide("return"))),
          To({"lo"}, On("udp", dnsPort, Decide("return"))), To({"lo"}, On("tcp", dnsPort, Decide("return"))) >>
    \o << On("udp", "53", Log("dns_redirected")), On("udp", "53", Redirect(dnsPort)),
          On("tcp", "53", Log("dns_redirected")), On("tcp", "53", Redirect(dnsPort)) >>)

generateDNSNATRulesV6(dnsPort) == generateDNSNATRules(dnsPort)

-----------------------------------------------------------------------------
(* Which templates make a ruleset.                                         *)

\* mode is FILTER_MODE, defaultAllow the stance, audit ENFORCE=audit; allow and
\* deny are the IP lists of the policy, resolved the runtime set of dns-strict.
Config == [mode : {"https", "dns", "dns-strict"}, defaultAllow : BOOLEAN, audit : BOOLEAN,
           allow : SUBSET Remote, deny : SUBSET Remote, resolved : SUBSET Remote,
           dnsPort : {"53", "5353"}]

\* An empty allowlist is replaced by the loopback address.
AllowSet(cfg) == IF cfg.allow = {} THEN {"lo"} ELSE cfg.allow

Tables(filter, nat, filterV6, natV6) ==
  [v4 |-> [filter |-> filter, nat |-> nat], v6 |-> [filter |-> filterV6, nat |-> natV6]]

\* Defect: dns-strict gets the rules of dns.
generateEnforcingRuleset_StrictIsDNS(cfg) ==
  LET allow == AllowSet(cfg)
      p == cfg.dnsPort
  IN IF cfg.mode = "https"
     THEN Tables(generateHTTPSFilterRules(allow), generateHTTPSNATRules(allow),
                 generateHTTPSFilterRulesV6(allow), generateHTTPSNATRulesV6(allow))
     ELSE Tables(generateDNSFilterRules(allow, p), generateDNSNATRules(p),
                 generateDNSFilterRulesV6(allow, p), generateDNSNATRulesV6(p))

generateEnforcingRuleset(cfg) ==
  LET allow == AllowSet(cfg)
      p == cfg.dnsPort
  IN IF cfg.defaultAllow
     THEN IF cfg.mode # "https"
          THEN Tables(generateDNSFilterRulesAllow(allow, cfg.deny, p), generateDNSNATRules(p),
                      generateDNSFilterRulesAllowV6(allow, cfg.deny, p), generateDNSNATRulesV6(p))
          ELSE Tables(generateHTTPSFilterRulesAllow(allow, cfg.deny), generateHTTPSNATRulesAllow(allow, cfg.deny),
                      generateHTTPSFilterRulesAllowV6(allow, cfg.deny), generateHTTPSNATRulesAllowV6(allow, cfg.deny))
     ELSE CASE cfg.mode = "dns-strict" ->
                 Tables(generateDNSStrictFilterRules(allow, cfg.resolved, p), generateDNSNATRules(p),
                        generateDNSStrictFilterRulesV6(allow, cfg.resolved, p), generateDNSNATRulesV6(p))
            [] cfg.mode = "dns" ->
                 Tables(generateDNSFilterRules(allow, p), generateDNSNATRules(p),
                        generateDNSFilterRulesV6(allow, p), generateDNSNATRulesV6(p))
            [] OTHER ->
                 Tables(generateHTTPSFilterRules(allow), generateHTTPSNATRules(allow),
                        generateHTTPSFilterRulesV6(allow), generateHTTPSNATRulesV6(allow))

\* The rewrite of one rule: blocked becomes audit, drop becomes accept.
auditRule(rule) ==
  [rule EXCEPT !.prefix = IF @ = "blocked" THEN "audit" ELSE @,
               !.do = IF @ = "drop" THEN "accept" ELSE @]

\* Defect: only the catch-all drop is rewritten.
auditChain_KeepsDenyDrop(chain) ==
  [policy |-> "accept",
   rules |-> [i \in DOMAIN chain.rules |->
               [chain.rules[i] EXCEPT !.prefix = IF @ = "blocked" THEN "audit" ELSE @,
                                      !.do = IF @ = "drop" /\ chain.rules[i].dst = Address
                                             THEN "accept" ELSE @]]]

auditChain(chain) ==
  [policy |-> "accept", rules |-> [i \in DOMAIN chain.rules |-> auditRule(chain.rules[i])]]

auditRuleset(tables) ==
  [f \in Family |-> [filter |-> auditChain(tables[f].filter), nat |-> auditChain(tables[f].nat)]]

GenerateRuleset(cfg) ==
  IF cfg.audit THEN auditRuleset(generateEnforcingRuleset(cfg)) ELSE generateEnforcingRuleset(cfg)

-----------------------------------------------------------------------------
(* What the kernel does with a chain.                                      *)

Matches(rule, packet, state) ==
  /\ packet.dst \in rule.dst /\ packet.oif \in rule.oif /\ packet.proto \in rule.proto
  /\ packet.port \in rule.port /\ packet.mark \in rule.mark /\ state \in rule.state

\* The rules a packet matches, up to the first that decides.
Matching(chain, packet, state) ==
  {i \in DOMAIN chain.rules :
     /\ Matches(chain.rules[i], packet, state)
     /\ \A j \in 1..(i - 1) : Matches(chain.rules[j], packet, state) => chain.rules[j].do = "log"}

Deciding(chain, packet, state) == {i \in Matching(chain, packet, state) : chain.rules[i].do # "log"}

Verdict(chain, packet, state) ==
  LET d == Deciding(chain, packet, state)
  IN IF d = {} THEN Decide(chain.policy) ELSE chain.rules[CHOOSE i \in d : TRUE]

Prefixes(chain, packet, state) ==
  {chain.rules[i].prefix : i \in {j \in Matching(chain, packet, state) : chain.rules[j].do = "log"}}

\* The action an NFLOG event is reported with.
mapPrefixToAction(prefix) ==
  CASE prefix \in {"redirected", "dns_redirected"} -> "REDIRECTED"
    [] prefix = "blocked" -> "BLOCKED"
    [] prefix = "audit" -> "AUDIT"
    [] prefix = "allowed" -> "ALLOWED"
=============================================================================
