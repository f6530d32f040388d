------------------------------- MODULE Egress -------------------------------
(***************************************************************************)
(* One flow of an attached container against the installed ruleset.        *)
(*                                                                         *)
(* A packet that starts a flow meets the NAT chain (priority -100), which  *)
(* may rewrite it to a local proxy, and then the filter chain; both hang   *)
(* on the output hook.  Once a packet has passed, conntrack remembers the  *)
(* translation: later packets skip the NAT chain and are matched as "new"  *)
(* until the peer answers and "established" from then on.  Meanwhile the   *)
(* policy is reloaded and dns-strict entries come and go.                  *)
(***************************************************************************)
EXTENDS Ruleset

CONSTANTS
  Policies,  \* what the policy file may say: [defaultAllow, allow, deny]
  Settings,  \* the environment of one run: [mode, audit, dnsPort]
  Flows      \* the flows that are tried: [family, packet]

ASSUME PoliciesAssumption ==
  Policies \subseteq [defaultAllow : BOOLEAN, allow : SUBSET Remote, deny : SUBSET Remote]

ASSUME SettingsAssumption ==
  Settings \subseteq [mode : {"https", "dns", "dns-strict"}, audit : BOOLEAN, dnsPort : {"53", "5353"}]

ASSUME FlowsAssumption ==
  \A f \in Flows : f.family \in Family /\ f.packet \in Packet /\ (f.packet.oif = "lo" <=> f.packet.dst \in Loopback)

VARIABLES
  cfg,     \* what the installed ruleset was generated from
  flow,    \* the flow
  conn,    \* its conntrack entry: "none", "unreplied" or "established"
  target   \* the destination and port that entry translates to

vars == <<cfg, flow, conn, target>>

\* Every packet of the flow is the same, as it leaves the socket.
Pkt == flow.packet

\* ApplyPolicyRulesWithContext: a ruleset for the mode and the policy.  The
\* table is deleted and made anew, which empties the resolved set.
Apply(settings, policy) ==
  [mode |-> settings.mode, audit |-> settings.audit, dnsPort |-> settings.dnsPort,
   defaultAllow |-> policy.defaultAllow, allow |-> policy.allow, deny |-> policy.deny,
   resolved |-> {}]

\* Types; the resolved set is filled only where dns-strict is enforced.
TypeOK ==
  /\ cfg \in Config /\ flow \in Flows
  /\ cfg.resolved # {} => cfg.mode = "dns-strict" /\ ~cfg.defaultAllow
  /\ conn \in {"none", "unreplied", "established"}
  /\ target \in [dst : Address, port : Port]

Init ==
  /\ \E s \in Settings, p \in Policies : cfg = Apply(s, p)
  /\ flow \in Flows
  /\ conn = "none"
  /\ target = [dst |-> Pkt.dst, port |-> Pkt.port]

-----------------------------------------------------------------------------
(* What becomes of the next packet of the flow.                            *)

\* A redirect on the output hook goes to the loopback address.
Translate(nat) ==
  LET rule == Verdict(nat, Pkt, "new")
  IN IF rule.do = "redirect"
     THEN [Pkt EXCEPT !.dst = "lo", !.port = rule.to]
     ELSE Pkt

\* Both chains of the output hook, on the next packet.
Output(chains) ==
  LET routed == IF conn = "none" THEN Translate(chains.nat)
                ELSE [Pkt EXCEPT !.dst = target.dst, !.port = target.port]
      state == IF conn = "established" THEN "established" ELSE "new"
      logged == Prefixes(chains.filter, routed, state)
                \cup (IF conn = "none" THEN Prefixes(chains.nat, Pkt, "new") ELSE {})
  IN [passed |-> Verdict(chains.filter, routed, state).do = "accept",
      dst |-> routed.dst, port |-> routed.port,
      actions |-> {mapPrefixToAction(p) : p \in logged}]

\* What may happen to it under a configuration: one thing, the rules decide.
Fates(config) == {Output(chains) : chains \in {GenerateRuleset(config)[flow.family]}}

-----------------------------------------------------------------------------
(* Steps.                                                                  *)

\* A dropped packet leaves no entry; neighbour discovery is not tracked.
Send ==
  /\ conn = "none" /\ Pkt.proto # "nd"
  /\ \E fate \in Fates(cfg) :
       /\ fate.passed
       /\ target' = [dst |-> fate.dst, port |-> fate.port]
  /\ conn' = "unreplied"
  /\ UNCHANGED <<cfg, flow>>

Reply ==
  /\ conn = "unreplied"
  /\ conn' = "established"
  /\ UNCHANGED <<cfg, flow, target>>

ConnExpires ==
  /\ conn # "none"
  /\ conn' = "none"
  /\ UNCHANGED <<cfg, flow, target>>

\* A live reload: the settings come from the environment and stay.
Reload ==
  /\ \E p \in Policies : cfg' = Apply(cfg, p)
  /\ UNCHANGED <<flow, conn, target>>

\* Defect: the hook does not degrade under default allow.
Resolved_Undegraded ==
  /\ cfg.mode = "dns-strict"
  /\ \E a \in Remote \ cfg.resolved : cfg' = [cfg EXCEPT !.resolved = @ \cup {a}]
  /\ UNCHANGED <<flow, conn, target>>

\* The DNS filter pushes an answer, if strictResolvedHook gave it a hook.
Resolved ==
  /\ cfg.mode = "dns-strict" /\ ~cfg.defaultAllow
  /\ \E a \in Remote \ cfg.resolved : cfg' = [cfg EXCEPT !.resolved = @ \cup {a}]
  /\ UNCHANGED <<flow, conn, target>>

\* The timeout of an element of the resolved set.
Lapse ==
  /\ \E a \in cfg.resolved : cfg' = [cfg EXCEPT !.resolved = @ \ {a}]
  /\ UNCHANGED <<flow, conn, target>>

Next == Send \/ Reply \/ ConnExpires \/ Reload \/ Resolved \/ Lapse

Spec == Init /\ [][Next]_vars

-----------------------------------------------------------------------------
(* Properties.                                                             *)

Enforcing == ~cfg.audit

\* Under default deny, https and dns-strict let a packet out of the namespace
\* only to an allowlisted address, to one the proxy resolved, or from a proxy;
\* and only dns-strict lets IPv6 find its neighbours.  Reloads between the
\* packets of an unanswered flow do not change that.  Under default allow a
\* denied address is reached neither directly nor, on the web ports of https
\* mode, through the proxies; allowlisting overrides it.
OnlyAllowedLeave ==
  \A fate \in Fates(cfg) :
    /\ (/\ Enforcing /\ ~cfg.defaultAllow /\ cfg.mode # "dns" /\ conn # "established"
        /\ fate.passed /\ fate.dst \in Remote)
        => \/ fate.dst \in cfg.allow
           \/ cfg.mode = "dns-strict" /\ fate.dst \in cfg.resolved
           \/ Pkt.mark
           \/ cfg.mode = "dns-strict" /\ flow.family = "v6" /\ Pkt.proto = "nd"
    /\ (/\ Enforcing /\ cfg.defaultAllow /\ Pkt.dst \in cfg.deny \ cfg.allow
        /\ ~Pkt.mark /\ conn = "none")
        => \/ ~fate.passed /\ "BLOCKED" \in fate.actions
           \/ cfg.mode # "https" /\ fate.dst = "lo" /\ fate.port = cfg.dnsPort

\* A packet for an allowlisted address always passes, whatever was denied and
\* whatever the flow was translated to, and a new flow goes there directly
\* unless it is a DNS query in a dns mode.
AllowlistPasses ==
  LET query == cfg.mode # "https" /\ Pkt.port = "53" /\ ~Pkt.mark
  IN \A fate \in Fates(cfg) :
     Pkt.dst \in cfg.allow
     => fate.passed /\ (conn = "none" /\ ~query => fate.dst = Pkt.dst)

\* New web flows to addresses without a verdict of their own reach the right
\* proxy in https mode, new DNS queries reach the DNS proxy in the dns modes,
\* the filter chain does not drop on the way what NAT has redirected, and what
\* the proxies send themselves (SO_MARK) is never redirected back or dropped.
ProxiesSeeTheirTraffic ==
  LET verdict == cfg.allow \cup (IF cfg.defaultAllow THEN cfg.deny ELSE {})
      Reaches(fate, dst, port) == fate.passed /\ fate.dst = dst /\ fate.port = port
  IN \A fate \in Fates(cfg) :
     /\ Pkt.mark => Reaches(fate, Pkt.dst, Pkt.port)
     /\ (conn = "none" /\ ~Pkt.mark)
        => /\ (cfg.mode = "https" /\ Pkt.proto = "tcp" /\ Pkt.dst \in Remote \ verdict)
              => /\ Pkt.port = "80" => Reaches(fate, "lo", HTTPPort)
                 /\ Pkt.port = "443" => Reaches(fate, "lo", HTTPSPort)
           /\ (cfg.mode # "https" /\ Pkt.proto \in {"tcp", "udp"}
               /\ Pkt.port = "53" /\ Pkt.dst # "lo")
              => Reaches(fate, "lo", cfg.dnsPort)

\* An answered connection outlives whatever admitted it: a reload, the end of a
\* dns-strict entry.  So does a translation to a proxy that is still unanswered.
ConnectionsSurvive ==
  LET translated == target # [dst |-> Pkt.dst, port |-> Pkt.port]
  IN conn = "established" \/ (conn = "unreplied" /\ translated) => \A fate \in Fates(cfg) : fate.passed

\* ENFORCE=audit drops nothing and reports as AUDIT exactly what enforcing
\* would drop; enforcing reports as BLOCKED exactly what it drops.
ReportsTellTheTruth ==
  \A fate \in Fates(cfg), enforced \in Fates([cfg EXCEPT !.audit = FALSE]) :
     /\ cfg.audit => fate.passed /\ ("AUDIT" \in fate.actions <=> ~enforced.passed)
     /\ "BLOCKED" \in fate.actions <=> ~fate.passed
=============================================================================
