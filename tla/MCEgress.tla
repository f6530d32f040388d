------------------------------ MODULE MCEgress ------------------------------
(* A small instance of Egress: two remote addresses, of which a is the one  *)
(* the flows go to and b only fills the lists.                              *)
EXTENDS Egress

CONSTANTS a, b

MCRemote == {a, b}

MCPolicies ==
  [defaultAllow : BOOLEAN, allow : {{}, {a}, {b}}, deny : {{}, {a}}]

MCSettings == [mode : {"https", "dns", "dns-strict"}, audit : BOOLEAN, dnsPort : {"53", "5353"}]
EnforcingSettings == {s \in MCSettings : ~s.audit}

MCPackets ==
  {[dst |-> d, oif |-> IF d = a THEN "eth" ELSE "lo", proto |-> pp[1], port |-> pp[2], mark |-> m] :
     d \in Loopback \cup {a}, m \in BOOLEAN,
     pp \in ({"tcp"} \X {"80", "443", "53", "other"})
            \cup ({"udp"} \X {"53", "443", "other"}) \cup {<<"ping", "none">>, <<"nd", "none">>}}

\* Neighbour discovery exists in IPv6 only and is the kernel's, never marked,
\* and IPv6 has one loopback address.
MCFlows ==
  {f \in [family : Family, packet : MCPackets] :
     /\ f.packet.proto = "nd" => f.family = "v6" /\ f.packet.dst = a /\ ~f.packet.mark
     /\ f.packet.dst = "lo11" => f.family = "v4"}
=============================================================================
