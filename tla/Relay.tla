------------------------------- MODULE Relay -------------------------------
(***************************************************************************)
(* One connection through the HTTP or the HTTPS filter                     *)
(* (filter/http_filter.go, https_filter.go, clienthello.go, common.go).    *)
(*                                                                         *)
(* The kernel has redirected a client's connection to the proxy.  The      *)
(* proxy reads the head (HTTP headers, or the records of the ClientHello)  *)
(* for five seconds at most, decides on the name in it, dials the original *)
(* destination, writes the bytes it has read, and copies in both           *)
(* directions in two goroutines until both directions have ended or the    *)
(* deadline of both connections has passed.                                *)
(*                                                                         *)
(* A stream is the sequence of its chunks 1, 2, ... (a TLS record, or what *)
(* one read returns).  The bytes taken from the client so far are in two   *)
(* buffers: `head', what the parser was given (headBytes, or the buffer of *)
(* the peek), and `ahead', what bufio.Reader read beyond it (HTTP only).   *)
(***************************************************************************)
EXTENDS Hosts, FiniteSets

CONSTANTS
  Options,    \* kind, defaultAllow, learning, audit
  Requests,   \* the names clients send, None if there is none in the head
  AllowDomains, DenyDomains, \* the policy, sets of patterns
  Stopped,    \* the names the documents say are stopped, by the default action
  HeadLen,    \* chunks that make up a head
  MaxUp, MaxDown \* bounds on the chunks of client and server

ASSUME BoundsAssumption == HeadLen \in Nat \ {0} /\ MaxUp \in Nat /\ MaxDown \in Nat
ASSUME OptionsAssumption ==
  \A p \in Options :
    /\ p.kind \in {"http", "https"}
    /\ p.defaultAllow \in BOOLEAN /\ p.learning \in BOOLEAN /\ p.audit \in BOOLEAN

VARIABLES
  o, asks,    \* configuration and request, chosen at the start
  stage,      \* of the handler
  host,       \* the name the decision is about
  sent, client,     \* chunks the client has sent, and its end of the connection
  server, answered, \* the same of the server, "none" before the dial
  head, ahead,      \* chunks in the buffers
  up, down,   \* the copying goroutines
  pos,        \* chunks read from the client so far
  received,   \* what the server got
  delivered,  \* chunks the client got
  upFin, downFin, \* CloseWrite was called towards server, client
  expired,    \* the deadline has passed
  age, moved, \* time since the dial; a chunk was moved since it last advanced
  verdicts,   \* decisions logged
  learned     \* names recorded, None standing for the address

config == <<o, asks>>
ends == <<sent, client, server, answered>>
copying == <<up, down, pos, received, delivered, upFin, downFin, moved>>
decision == <<host, verdicts, learned>>
clock == <<expired, age>>
vars == <<config, stage, ends, head, ahead, copying, decision, clock>>

DeadlineAge == 2  \* the idle timeout, in units of time

\* Types; what is in the buffers has been read, once.
TypeOK ==
  /\ o \in Options /\ asks \in Requests
  /\ stage \in {"head", "decide", "target", "dial", "relay", "closed", "reset"}
  /\ host \in Requests \cup {None}
  /\ sent \in 0..MaxUp /\ client \in {"open", "fin", "reset"}
  /\ server \in {"none", "open", "fin", "reset"} /\ answered \in 0..MaxDown
  /\ head \in 0..sent /\ ahead \in 0..sent /\ pos \in 0..sent /\ head + ahead <= pos
  /\ up \in {"head", "ahead", "copy", "done"} /\ down \in {"wait", "copy", "done"}
  /\ received \in Seq(1..MaxUp) /\ delivered \in 0..answered
  /\ upFin \in BOOLEAN /\ downFin \in BOOLEAN
  /\ expired \in BOOLEAN /\ age \in 0..DeadlineAge /\ moved \in BOOLEAN
  /\ verdicts \in Seq({"ALLOWED", "BLOCKED", "AUDIT"})
  /\ learned \subseteq Requests \cup {None}

Init ==
  /\ o \in Options /\ asks \in Requests
  /\ stage = "head" /\ host = None /\ verdicts = <<>> /\ learned = {}
  /\ sent = 0 /\ client = "open" /\ server = "none" /\ answered = 0
  /\ head = 0 /\ ahead = 0 /\ pos = 0
  /\ up = "head" /\ down = "wait" /\ received = <<>> /\ delivered = 0
  /\ upFin = FALSE /\ downFin = FALSE
  /\ expired = FALSE /\ age = 0 /\ moved = FALSE

Live == stage \notin {"closed", "reset"}

\* The chunks a+1 to b, in order.
Run(a, b) == [i \in 1..(b - a) |-> a + i]

-----------------------------------------------------------------------------
(* Client and server.                                                      *)

ClientSends ==
  /\ Live /\ client = "open" /\ sent < MaxUp
  /\ sent' = sent + 1
  /\ UNCHANGED <<config, stage, client, server, answered, head, ahead, copying, decision, clock>>

\* The client half-closes, or is gone.
ClientEnds ==
  /\ Live
  /\ \/ client = "open" /\ client' = "fin"
     \/ client # "reset" /\ client' = "reset"
  /\ UNCHANGED <<config, stage, sent, server, answered, head, ahead, copying, decision, clock>>

ServerSends ==
  /\ Live /\ server = "open" /\ answered < MaxDown
  /\ answered' = answered + 1
  /\ UNCHANGED <<config, stage, sent, client, server, head, ahead, copying, decision, clock>>

ServerEnds ==
  /\ Live
  /\ \/ server = "open" /\ server' = "fin"
     \/ server \in {"open", "fin"} /\ server' = "reset"
  /\ UNCHANGED <<config, stage, sent, client, answered, head, ahead, copying, decision, clock>>

-----------------------------------------------------------------------------
(* Reading the head.                                                       *)

\* Defect: what is ahead is counted from where the parser was before.
ReadHead_Twice ==
  /\ stage = "head" /\ head < HeadLen /\ client # "reset"
  /\ \E taken \in (pos + 1)..sent :
       /\ pos' = taken
       /\ IF o.kind = "https"
          THEN taken = pos + 1 /\ head' = taken /\ ahead' = 0
          ELSE /\ head' \in (head + 1)..taken
               /\ head' < taken => head' >= HeadLen
               /\ ahead' = taken - head
  /\ UNCHANGED <<config, stage, ends, up, down, received, delivered, upFin, downFin, moved, decision, clock>>

\* readClientHelloSNI takes whole records and no more than it needs;
\* readHeadWithTextproto takes what there is, and the reader under it may hold
\* more than the parser asked for.
ReadHead ==
  /\ stage = "head" /\ head < HeadLen /\ client # "reset"
  /\ \E taken \in (pos + 1)..sent :
       /\ pos' = taken
       /\ IF o.kind = "https"
          THEN taken = pos + 1 /\ head' = taken /\ ahead' = 0
          ELSE /\ head' \in (head + 1)..taken
               /\ head' < taken => head' >= HeadLen
               /\ ahead' = taken - head'
  /\ UNCHANGED <<config, stage, ends, up, down, received, delivered, upFin, downFin, moved, decision, clock>>

\* The head is complete and has a valid name, or none.
Parsed ==
  /\ stage = "head" /\ head >= HeadLen
  /\ host' = Sanitized(asks)
  /\ stage' = "decide"
  /\ UNCHANGED <<config, ends, head, ahead, copying, verdicts, learned, clock>>

\* Five seconds have passed, the client has ended, or what it sent does not
\* parse: no name, and the bytes read so far are kept.
ParseFails ==
  /\ stage = "head"
  /\ host' = None
  /\ stage' = "decide"
  /\ UNCHANGED <<config, ends, head, ahead, copying, verdicts, learned, clock>>

-----------------------------------------------------------------------------
(* The decision.                                                           *)

Permitted == Permits(host, AllowDomains, DenyDomains, o)

\* handleBlockedHTTP, handleBlockedHTTPS: logged, and reset by SetLinger(0).
Block ==
  /\ stage = "decide" /\ ~Permitted /\ ~Audited(Permitted, o)
  /\ verdicts' = Append(verdicts, "BLOCKED")
  /\ stage' = "reset"
  /\ UNCHANGED <<config, ends, head, ahead, copying, host, learned, clock>>

\* An audited connection is logged as such and goes on as a permitted one.
Admit ==
  /\ stage = "decide" /\ (Permitted \/ Audited(Permitted, o))
  /\ verdicts' = IF Audited(Permitted, o) THEN Append(verdicts, "AUDIT") ELSE verdicts
  /\ learned' = learned \cup Learned(host, AllowDomains, o)
  /\ stage' = "target"
  /\ UNCHANGED <<config, ends, head, ahead, copying, host, clock>>

\* handleAllowedHTTP, handleAllowedHTTPS: the original destination is known.
TargetKnown ==
  /\ stage = "target"
  /\ verdicts' = IF Audited(Permitted, o) THEN verdicts ELSE Append(verdicts, "ALLOWED")
  /\ learned' = IF o.learning /\ host = None THEN learned \cup {None} ELSE learned
  /\ stage' = "dial"
  /\ UNCHANGED <<config, ends, head, ahead, copying, host, clock>>

\* It is not: the connection is closed without another word.
TargetUnknown ==
  /\ stage = "target"
  /\ stage' = "closed"
  /\ UNCHANGED <<config, ends, head, ahead, copying, decision, clock>>

-----------------------------------------------------------------------------
(* Dial and copy.                                                          *)

\* setConnTimeouts puts one deadline on both connections.
Dial ==
  /\ stage = "dial"
  /\ server' = "open" /\ stage' = "relay"
  /\ down' = IF o.kind = "http" THEN "wait" ELSE "copy"
  /\ UNCHANGED <<config, sent, client, answered, head, ahead, up, pos, received, delivered, upFin, downFin, moved, decision, clock>>

DialFails ==
  /\ stage = "dial"
  /\ stage' = "closed"
  /\ UNCHANGED <<config, ends, head, ahead, copying, decision, clock>>

ServerTakes == server \in {"open", "fin"} /\ ~expired

\* A write towards the server: an error is logged or ignored.
Write(chunks) == received' = IF ServerTakes THEN received \o chunks ELSE received

\* What was read for the head goes first (before the goroutines start, in HTTP).
UpHead ==
  /\ stage = "relay" /\ up = "head"
  /\ Write(Run(0, head))
  /\ up' = IF o.kind = "http" THEN "ahead" ELSE "copy"
  /\ down' = IF o.kind = "http" THEN "copy" ELSE down
  /\ moved' = TRUE
  /\ UNCHANGED <<config, stage, ends, head, ahead, pos, delivered, upFin, downFin, decision, clock>>

\* Defect: what bufio.Reader holds is not written.
UpAhead_Forgotten ==
  /\ stage = "relay" /\ up = "ahead"
  /\ up' = "copy"
  /\ UNCHANGED <<config, stage, ends, head, ahead, down, pos, received, delivered, upFin, downFin, moved, decision, clock>>

\* bidirectionalCopyWithBufferedReader: what bufio.Reader holds goes next.
UpAhead ==
  /\ stage = "relay" /\ up = "ahead"
  /\ Write(Run(head, head + ahead))
  /\ up' = "copy" /\ moved' = TRUE
  /\ UNCHANGED <<config, stage, ends, head, ahead, down, pos, delivered, upFin, downFin, decision, clock>>

\* io.Copy from the client: a chunk at a time.
UpCopy ==
  /\ stage = "relay" /\ up = "copy" /\ pos < sent /\ client # "reset" /\ ServerTakes
  /\ Write(Run(pos, pos + 1))
  /\ pos' = pos + 1 /\ moved' = TRUE
  /\ UNCHANGED <<config, stage, ends, head, ahead, up, down, delivered, upFin, downFin, decision, clock>>

\* It ends with the client's end, or an error of either connection, and
\* half-closes the server's.  A server that is gone is seen by a write only.
UpDone ==
  /\ stage = "relay" /\ up = "copy"
  /\ \/ client = "fin" /\ pos = sent
     \/ client = "reset" \/ expired
     \/ server = "reset" /\ pos < sent
  /\ up' = "done" /\ upFin' = TRUE
  /\ UNCHANGED <<config, stage, ends, head, ahead, down, pos, received, delivered, downFin, moved, decision, clock>>

DownCopy ==
  /\ stage = "relay" /\ down = "copy" /\ delivered < answered
  /\ server # "reset" /\ client # "reset" /\ ~expired
  /\ delivered' = delivered + 1 /\ moved' = TRUE
  /\ UNCHANGED <<config, stage, ends, head, ahead, up, down, pos, received, upFin, downFin, decision, clock>>

DownDone ==
  /\ stage = "relay" /\ down = "copy"
  /\ \/ server = "fin" /\ delivered = answered
     \/ server = "reset" \/ expired
     \/ client = "reset" /\ delivered < answered
  /\ down' = "done" /\ downFin' = TRUE
  /\ UNCHANGED <<config, stage, ends, head, ahead, up, pos, received, delivered, upFin, moved, decision, clock>>

\* wg.Wait, and the deferred closes.
Close ==
  /\ stage = "relay" /\ up = "done" /\ down = "done"
  /\ stage' = "closed"
  /\ UNCHANGED <<config, ends, head, ahead, copying, decision, clock>>

\* Defect: no deadline is set.
Elapse_Never == FALSE /\ UNCHANGED vars

\* Time goes by, and the deadline passes at the age setConnTimeouts gave it.
Elapse ==
  /\ stage = "relay" /\ age < DeadlineAge
  /\ age' = age + 1 /\ expired' = (age + 1 = DeadlineAge)
  /\ moved' = FALSE
  /\ UNCHANGED <<config, stage, ends, head, ahead, up, down, pos, received, delivered, upFin, downFin, decision>>

-----------------------------------------------------------------------------
Proxy ==
  \/ ReadHead \/ Parsed \/ ParseFails \/ Block \/ Admit \/ TargetKnown \/ TargetUnknown
  \/ Dial \/ DialFails \/ UpHead \/ UpAhead \/ UpCopy \/ UpDone \/ DownCopy \/ DownDone \/ Close

Next == ClientSends \/ ClientEnds \/ ServerSends \/ ServerEnds \/ Proxy \/ Elapse

\* Goroutines run, timers fire; nobody has to send or to close anything.
Fairness ==
  /\ WF_vars(Parsed \/ ParseFails) /\ WF_vars(Block \/ Admit)
  /\ WF_vars(TargetKnown \/ TargetUnknown) /\ WF_vars(Dial \/ DialFails)
  /\ WF_vars(UpHead \/ UpAhead) /\ WF_vars(UpCopy) /\ WF_vars(UpDone)
  /\ WF_vars(DownCopy) /\ WF_vars(DownDone) /\ WF_vars(Close) /\ WF_vars(Elapse)

Spec == Init /\ [][Next]_vars /\ Fairness

-----------------------------------------------------------------------------
(* Properties.                                                             *)

\* The server gets the client's stream, in order, without a gap or a chunk too
\* many, whatever lay in which buffer when the copying began; and a half-close
\* that both connections survive comes after all of it.
StreamIntact ==
  /\ received = Run(0, Len(received))
  /\ upFin /\ ~expired /\ client # "reset" /\ server # "reset" => Len(received) = sent

\* Every connection ends with one verdict at most, the one the documented policy
\* asks for: what is stopped never reaches a server, what passes is allowed or
\* audited, never both, and what learning lets through is recorded.
VerdictIsTrue ==
  LET against == host \in Stopped[o.defaultAllow] /\ ~o.learning
  IN /\ Len(verdicts) <= 1
     /\ server # "none" =>
          /\ verdicts = <<IF against THEN "AUDIT" ELSE "ALLOWED">> /\ (against => o.audit)
          /\ o.learning /\ ~Allows(AllowDomains, host) => host \in learned
     /\ stage = "reset" => verdicts = <<"BLOCKED">> /\ against /\ ~o.audit
     /\ ~o.learning => learned = {}

\* A client that is silent, or a server that never ends, does not keep the
\* proxy's goroutines for ever.
Ends == <>(stage \in {"closed", "reset"})

\* common.go:309, "idle timeout deadlines": only a connection on which nothing
\* has moved for a while is ended by the deadline.
OnlyIdleEnds == [][expired' /\ ~expired => ~moved]_vars
=============================================================================
