---------------------------- MODULE ServingProofs ----------------------------
(***************************************************************************)
(* What serves the clients, from the listener to the end of a connection.  *)
(* ServiceGroup, for any number of reloads: types, and that the running    *)
(* group is never stuck.  Relay, for streams, heads and names of any       *)
(* number: types, that the server gets the client's stream whole, and that *)
(* every connection ends with the verdict the policy asks for.             *)
(***************************************************************************)
EXTENDS ServiceGroup, Relay, SequenceTheorems, TLAPS

-----------------------------------------------------------------------------
(* The listeners.                                                          *)

(***************************************************************************)
(* NeverStuck speaks of the running group only, and the next group takes   *)
(* its place at a reload: the invariant says what a group is before it is  *)
(* started, and that only cancelled groups have missed servers or have     *)
(* left, and the services of the other mode are off.                       *)
(***************************************************************************)
Unstarted ==
  \A g \in Groups : g > current =>
    /\ \A s \in Services : loop[g][s] = "off"
    /\ \A p \in Ports : pending[g][p] = "none"

Inactive == \A g \in Groups : \A s \in Services \ Active : loop[g][s] = "off"

PendingIsDNS ==
  \A g \in Groups, p \in Ports : pending[g][p] # "none" => mode = "dns"

MissedIsCancelled ==
  \A g \in Groups, p \in Ports : pending[g][p] = "missed" => Cancelled(g)

Running ==
  ~stopped => \A s \in Active : loop[current][s] \in {"begin", "serving", "waiting"}

Serving ==
  ~stopped =>
    \A s \in Active : \A p \in PortsOf(s) :
      loop[current][s] = "serving" => holder[p] = current \/ pending[current][p] = "starting"

GroupInv ==
  /\ GroupTypeOK /\ Unstarted /\ Inactive /\ PendingIsDNS
  /\ MissedIsCancelled /\ Running /\ Serving

\* The running group is not a cancelled one.
LEMMA CurrentRuns ==
  ASSUME GroupTypeOK, ~stopped PROVE ~Cancelled(current)
BY DEF GroupTypeOK, Cancelled, Groups

LEMMA ActiveServices == Active \subseteq Services
BY DEF Active, Services

LEMMA PortsArePorts == \A s \in Services : PortsOf(s) \subseteq Ports
BY DEF Services, PortsOf, Ports

LEMMA GroupInitInv == GroupInit => GroupInv
<1> SUFFICES ASSUME GroupInit PROVE GroupInv
  OBVIOUS
<1> USE MaxGroupsAssumption DEF GroupInit, Started
<1>1. GroupTypeOK
  <2>1. 1 \in Groups
    BY DEF Groups
  <2>2. loop \in [Groups -> [Services -> {"off", "begin", "serving", "waiting", "done"}]]
    BY DEF Active
  <2>3. QED
    BY <2>1, <2>2 DEF GroupTypeOK
<1>2. Unstarted
  BY DEF Unstarted, Groups, Services, Ports
<1>3. Inactive /\ PendingIsDNS /\ MissedIsCancelled
  BY DEF Inactive, PendingIsDNS, MissedIsCancelled
<1>4. Running /\ Serving
  BY ActiveServices DEF Running, Serving, Groups
<1>5. QED
  BY <1>1, <1>2, <1>3, <1>4 DEF GroupInv

-----------------------------------------------------------------------------
(* One lemma per action.                                                   *)

LEMMA ListenStep ==
  ASSUME GroupInv, NEW g \in Groups, NEW s \in Services, Listen(g, s) PROVE GroupInv'
<1> USE DEF GroupInv, Listen, Goto
<1>0. g <= current
  BY DEF GroupTypeOK, Unstarted, Cancelled, Groups, Services
<1>9. PICK l \in {"serving", "waiting"} : loop' = [loop EXCEPT ![g][s] = l]
  OBVIOUS
<1>10. s \in Active
  BY DEF GroupTypeOK, Inactive
<1>1. GroupTypeOK'
  BY DEF GroupTypeOK, Services, Ports, Groups, NoGroup, Cancelled
<1>2. Unstarted'
  <2> SUFFICES ASSUME NEW h \in Groups, h > current
               PROVE /\ \A t \in Services : loop'[h][t] = "off"
                     /\ \A q \in Ports : pending'[h][q] = "none"
    BY DEF Unstarted
  <2> HIDE DEF Listen, Goto
  <2>1. h # g
    BY <1>0 DEF GroupTypeOK, Groups
  <2>2. loop'[h] = loop[h]
    BY <2>1, <1>9 DEF GroupTypeOK
  <2>3. pending' = pending
    BY DEF Listen
  <2>4. QED
    BY <2>2, <2>3 DEF Unstarted
<1>3. Inactive'
  <2> SUFFICES ASSUME NEW h \in Groups, NEW t \in Services \ Active PROVE loop'[h][t] = "off"
    BY DEF Inactive, Active
  <2>1. QED
    BY <1>9, <1>10 DEF GroupTypeOK, Inactive
<1>4. PendingIsDNS'
  BY DEF GroupTypeOK, PendingIsDNS, Groups, Ports
<1>5. MissedIsCancelled'
  BY DEF GroupTypeOK, MissedIsCancelled, Cancelled, Groups, Ports
<1>6. Running'
  <2> SUFFICES ASSUME ~stopped, NEW t \in Active PROVE loop'[current][t] \in {"begin", "serving", "waiting"}
    BY DEF Running, Active
  <2>1. QED
    BY <1>9, ActiveServices DEF GroupTypeOK, Running
<1>7. Serving'
  <2> SUFFICES ASSUME ~stopped, NEW t \in Active, NEW q \in PortsOf(t), loop'[current][t] = "serving"
               PROVE holder'[q] = current \/ pending[current][q] = "starting"
    BY DEF Serving, Active, Listen
  <2>1. CASE g = current /\ t = s
    <3>1. q = s /\ q \in Ports
      BY <2>1 DEF PortsOf, Services, Ports
    <3>2. CASE holder[s] = NoGroup
      BY <2>1, <3>1, <3>2 DEF GroupTypeOK
    <3>3. CASE holder[s] # NoGroup
      BY <2>1, <3>3 DEF GroupTypeOK
    <3>4. QED
      BY <3>2, <3>3
  <2>2. CASE ~(g = current /\ t = s)
    <3>1. loop[current][t] = "serving"
      BY <2>2, ActiveServices DEF GroupTypeOK
    <3>2. holder[q] = current \/ pending[current][q] = "starting"
      BY <3>1 DEF Serving
    <3>3. holder'[q] = holder[q] \/ holder[q] = NoGroup
      <4>1. q \in Ports
        BY ActiveServices, PortsArePorts
      <4>2. CASE holder[s] = NoGroup
        BY <4>1, <4>2 DEF GroupTypeOK
      <4>3. CASE holder[s] # NoGroup
        BY <4>3
      <4>4. QED
        BY <4>2, <4>3
    <3>4. QED
      BY <3>2, <3>3 DEF GroupTypeOK, Groups, NoGroup
  <2>3. QED
    BY <2>1, <2>2
<1> QED
  BY <1>1, <1>2, <1>3, <1>4, <1>5, <1>6, <1>7

LEMMA StartStep ==
  ASSUME GroupInv, NEW g \in Groups, StartServers(g) PROVE GroupInv'
<1> USE DEF GroupInv, StartServers, Goto
<1>0. g <= current
  BY DEF GroupTypeOK, Unstarted, Cancelled, Groups, Services
<1>1. GroupTypeOK'
  BY DEF GroupTypeOK, Services, Ports, Groups, NoGroup, Cancelled
<1>2. Unstarted'
  BY <1>0 DEF GroupTypeOK, Unstarted, Services, Ports, Groups
<1>3. Inactive'
  BY DEF GroupTypeOK, Inactive, Active, Services, Groups
<1>4. PendingIsDNS'
  <2>1. mode = "dns"
    BY DEF GroupTypeOK, Inactive, Active, Services
  <2>2. QED
    BY <2>1 DEF PendingIsDNS
<1>5. MissedIsCancelled'
  BY DEF GroupTypeOK, MissedIsCancelled, Cancelled, Groups, Ports
<1>6. Running'
  BY ActiveServices DEF GroupTypeOK, Running, Active, Services
<1>7. Serving'
  BY ActiveServices DEF GroupTypeOK, Serving, Active, PortsOf, Services, Ports, Groups
<1> QED
  BY <1>1, <1>2, <1>3, <1>4, <1>5, <1>6, <1>7

LEMMA BindFailsStep ==
  ASSUME GroupInv, NEW g \in Groups, NEW p \in Ports, BindFails(g, p) PROVE GroupInv'
<1> USE DEF GroupInv, BindFails, Goto
<1>0. g <= current
  BY DEF GroupTypeOK, Unstarted, Cancelled, Groups, Services
<1>9. \/ loop[g]["dns"] # "serving" /\ loop' = loop
      \/ loop[g]["dns"] = "serving" /\ loop' = [loop EXCEPT ![g]["dns"] = "waiting"]
  <2>1. CASE loop[g]["dns"] = "serving"
    BY <2>1
  <2>2. CASE loop[g]["dns"] # "serving"
    BY <2>2
  <2>3. QED
    BY <2>1, <2>2
<1>10. /\ pending' = [pending EXCEPT ![g][p] = "none"] /\ holder[p] # NoGroup
       /\ UNCHANGED <<mode, current, stopped, holder, orphans>>
  OBVIOUS
<1> HIDE DEF BindFails, Goto
<1>1. GroupTypeOK'
  <2>1. loop' \in [Groups -> [Services -> {"off", "begin", "serving", "waiting", "done"}]]
    <3>1. CASE loop' = loop
      BY <3>1 DEF GroupTypeOK
    <3>2. CASE loop' = [loop EXCEPT ![g]["dns"] = "waiting"]
      BY <3>2 DEF GroupTypeOK, Services
    <3>3. QED
      BY <1>9, <3>1, <3>2
  <2>2. pending' \in [Groups -> [Ports -> {"none", "starting", "missed"}]]
    BY <1>10 DEF GroupTypeOK
  <2>3. QED
    BY <2>1, <2>2, <1>10 DEF GroupTypeOK, Cancelled
<1>2. Unstarted'
  <2> SUFFICES ASSUME NEW h \in Groups, h > current
               PROVE /\ \A s \in Services : loop'[h][s] = "off"
                     /\ \A q \in Ports : pending'[h][q] = "none"
    BY <1>10 DEF Unstarted
  <2>1. h # g
    BY <1>0 DEF GroupTypeOK, Groups
  <2>2. loop'[h] = loop[h] /\ pending'[h] = pending[h]
    BY <2>1, <1>9, <1>10 DEF GroupTypeOK
  <2>3. QED
    BY <2>2 DEF Unstarted
<1>3. Inactive'
  <2> SUFFICES ASSUME NEW h \in Groups, NEW s \in Services \ Active PROVE loop'[h][s] = "off"
    BY <1>10 DEF Inactive, Active
  <2>1. loop[h][s] = "off"
    BY DEF Inactive
  <2>2. CASE loop' = loop
    BY <2>1, <2>2
  <2>3. CASE loop[g]["dns"] = "serving" /\ loop' = [loop EXCEPT ![g]["dns"] = "waiting"]
    <3>1. ~(h = g /\ s = "dns")
      BY <2>1, <2>3
    <3>2. QED
      BY <3>1, <2>1, <2>3 DEF GroupTypeOK
  <2>4. QED
    BY <1>9, <2>2, <2>3
<1>4. PendingIsDNS'
  BY <1>10 DEF GroupTypeOK, PendingIsDNS
<1>5. MissedIsCancelled'
  BY <1>10 DEF GroupTypeOK, MissedIsCancelled, Cancelled
<1>6. Running'
  <2> SUFFICES ASSUME ~stopped, NEW s \in Active PROVE loop'[current][s] \in {"begin", "serving", "waiting"}
    BY <1>10 DEF Running, Active
  <2>1. loop[current][s] \in {"begin", "serving", "waiting"} /\ s \in Services /\ current \in Groups
    BY ActiveServices DEF GroupTypeOK, Running
  <2>2. QED
    BY <2>1, <1>9 DEF GroupTypeOK
<1>7. Serving'
  <2> SUFFICES ASSUME ~stopped, NEW s \in Active, NEW q \in PortsOf(s), loop'[current][s] = "serving"
               PROVE holder[q] = current \/ pending'[current][q] = "starting"
    BY <1>10 DEF Serving, Active
  <2>1. s \in Services /\ current \in Groups /\ q \in Ports
    BY ActiveServices, PortsArePorts DEF GroupTypeOK
  <2>2. loop[current][s] = "serving" /\ ~(g = current /\ s = "dns")
    <3>1. CASE loop[g]["dns"] # "serving" /\ loop' = loop
      BY <3>1
    <3>2. CASE loop' = [loop EXCEPT ![g]["dns"] = "waiting"]
      <4>1. ~(g = current /\ s = "dns")
        BY <3>2, <2>1 DEF GroupTypeOK
      <4>2. QED
        BY <4>1, <3>2, <2>1 DEF GroupTypeOK
    <3>3. QED
      BY <1>9, <3>1, <3>2
  <2>3. holder[q] = current \/ pending[current][q] = "starting"
    BY <2>2 DEF Serving
  <2>4. pending[current][q] = "starting" => g # current
    <3> SUFFICES ASSUME pending[current][q] = "starting" PROVE g # current
      OBVIOUS
    <3>1. mode = "dns"
      BY <2>1 DEF PendingIsDNS
    <3>2. s = "dns"
      BY <3>1 DEF Active
    <3>3. QED
      BY <3>2, <2>2
  <2>5. QED
    BY <2>1, <2>3, <2>4, <1>10 DEF GroupTypeOK
<1> QED
  BY <1>1, <1>2, <1>3, <1>4, <1>5, <1>6, <1>7

LEMMA BindStep ==
  ASSUME GroupInv, NEW g \in Groups, NEW p \in Ports, Bind(g, p) PROVE GroupInv'
<1> USE DEF GroupInv, Bind
<1>0. g <= current
  BY DEF GroupTypeOK, Unstarted, Cancelled, Groups, Services
<1>1. GroupTypeOK'
  BY DEF GroupTypeOK, Services, Ports, Groups, NoGroup, Cancelled, PendingIsDNS, MissedIsCancelled
<1>2. Unstarted'
  BY <1>0 DEF GroupTypeOK, Unstarted, Services, Ports, Groups
<1>3. Inactive'
  BY DEF GroupTypeOK, Inactive, Active, Services, Groups
<1>4. PendingIsDNS'
  BY DEF GroupTypeOK, PendingIsDNS, Groups, Ports
<1>5. MissedIsCancelled'
  BY DEF GroupTypeOK, MissedIsCancelled, Cancelled, Groups, Ports
<1>6. Running'
  BY ActiveServices DEF GroupTypeOK, Running, Active, Services
<1>7. Serving'
  BY ActiveServices, PortsArePorts DEF GroupTypeOK, Serving, Active, Ports, Groups, NoGroup, MissedIsCancelled, Cancelled
<1> QED
  BY <1>1, <1>2, <1>3, <1>4, <1>5, <1>6, <1>7

LEMMA RetryStep ==
  ASSUME GroupInv, NEW g \in Groups, NEW s \in Services, Retry(g, s) PROVE GroupInv'
<1> USE DEF GroupInv, Retry, Goto
<1>0. g <= current
  BY DEF GroupTypeOK, Unstarted, Cancelled, Groups, Services
<1>1. GroupTypeOK'
  BY DEF GroupTypeOK, Services, Ports, Groups, NoGroup, Cancelled
<1>2. Unstarted'
  BY <1>0 DEF GroupTypeOK, Unstarted, Services, Ports, Groups
<1>3. Inactive'
  BY DEF GroupTypeOK, Inactive, Active, Services, Groups
<1>4. PendingIsDNS'
  BY DEF GroupTypeOK, PendingIsDNS, Groups, Ports
<1>5. MissedIsCancelled'
  BY DEF GroupTypeOK, MissedIsCancelled, Cancelled, Groups, Ports
<1>6. Running'
  BY ActiveServices DEF GroupTypeOK, Running, Active, Services
<1>7. Serving'
  BY ActiveServices DEF GroupTypeOK, Serving, Active, Services, Groups
<1> QED
  BY <1>1, <1>2, <1>3, <1>4, <1>5, <1>6, <1>7

LEMMA LeaveStep ==
  ASSUME GroupInv, NEW g \in Groups, NEW s \in Services, Leave(g, s) PROVE GroupInv'
<1> USE DEF GroupInv, Leave, Goto
<1>0. g <= current
  BY DEF GroupTypeOK, Unstarted, Cancelled, Groups, Services
<1>1. GroupTypeOK'
  BY DEF GroupTypeOK, Services, Ports, Groups, NoGroup, Cancelled
<1>2. Unstarted'
  BY <1>0 DEF GroupTypeOK, Unstarted, Services, Ports, Groups
<1>3. Inactive'
  BY DEF GroupTypeOK, Inactive, Active, Services, Groups
<1>4. PendingIsDNS'
  BY DEF GroupTypeOK, PendingIsDNS, Groups, Ports
<1>5. MissedIsCancelled'
  BY DEF GroupTypeOK, MissedIsCancelled, Cancelled, Groups, Ports
<1>6. Running'
  BY ActiveServices, CurrentRuns DEF GroupTypeOK, Running, Active, Services, Groups
<1>7. Serving'
  BY ActiveServices, CurrentRuns DEF GroupTypeOK, Serving, Active, Services, Groups
<1> QED
  BY <1>1, <1>2, <1>3, <1>4, <1>5, <1>6, <1>7

LEMMA MissStep ==
  ASSUME GroupInv, NEW g \in Groups, NEW p \in Ports, Miss(g, p) PROVE GroupInv'
<1> USE DEF GroupInv, Miss
<1>0. g <= current
  BY DEF GroupTypeOK, Unstarted, Cancelled, Groups, Services
<1>1. GroupTypeOK'
  BY DEF GroupTypeOK, Services, Ports, Groups, NoGroup, Cancelled
<1>2. Unstarted'
  BY <1>0 DEF GroupTypeOK, Unstarted, Services, Ports, Groups
<1>3. Inactive'
  BY DEF GroupTypeOK, Inactive, Active, Services, Groups
<1>4. PendingIsDNS'
  BY DEF GroupTypeOK, PendingIsDNS, Groups, Ports
<1>5. MissedIsCancelled'
  BY DEF GroupTypeOK, MissedIsCancelled, Cancelled, Groups, Ports
<1>6. Running'
  BY ActiveServices DEF GroupTypeOK, Running, Active, Services
<1>7. Serving'
  BY ActiveServices, PortsArePorts, CurrentRuns DEF GroupTypeOK, Serving, Active, Ports, Groups
<1> QED
  BY <1>1, <1>2, <1>3, <1>4, <1>5, <1>6, <1>7

LEMMA ReleaseStep ==
  ASSUME GroupInv, NEW g \in Groups, NEW p \in Ports, Release(g, p) PROVE GroupInv'
<1> USE DEF GroupInv, Release
<1>1. GroupTypeOK'
  BY DEF GroupTypeOK, Services, Ports, Groups, NoGroup, Cancelled
<1>2. Unstarted'
  BY DEF GroupTypeOK, Unstarted
<1>3. Inactive'
  BY DEF GroupTypeOK, Inactive, Active, Services, Groups
<1>4. PendingIsDNS'
  BY DEF GroupTypeOK, PendingIsDNS, Groups, Ports
<1>5. MissedIsCancelled'
  BY DEF GroupTypeOK, MissedIsCancelled, Cancelled, Groups, Ports
<1>6. Running'
  BY ActiveServices DEF GroupTypeOK, Running, Active, Services
<1>7. Serving'
  BY ActiveServices, PortsArePorts, CurrentRuns DEF GroupTypeOK, Serving, Active, Ports, Groups
<1> QED
  BY <1>1, <1>2, <1>3, <1>4, <1>5, <1>6, <1>7

LEMMA RestartStep ==
  ASSUME GroupInv, Restart PROVE GroupInv'
<1> USE DEF GroupInv, Restart
<1>1. GroupTypeOK'
  <2>1. current + 1 \in Groups /\ Started \in [Services -> {"off", "begin", "serving", "waiting", "done"}]
    BY MaxGroupsAssumption DEF GroupTypeOK, Groups, Started
  <2>2. QED
    BY <2>1 DEF GroupTypeOK, Cancelled, Groups, NoGroup
<1>2. Unstarted'
  BY DEF GroupTypeOK, Unstarted, Services, Ports, Groups
<1>3. Inactive'
  BY DEF GroupTypeOK, Inactive, Active, Started, Services, Groups
<1>4. PendingIsDNS' /\ MissedIsCancelled'
  BY DEF GroupTypeOK, PendingIsDNS, MissedIsCancelled, Cancelled, Groups, Ports
<1>5. current' \in Groups /\ \A s \in Active : loop'[current'][s] = "begin"
  BY ActiveServices, MaxGroupsAssumption DEF GroupTypeOK, Groups, Started
<1>6. Running' /\ Serving'
  BY <1>5 DEF Running, Serving, Active
<1> QED
  BY <1>1, <1>2, <1>3, <1>4, <1>6

LEMMA StopStep ==
  ASSUME GroupInv, Stop PROVE GroupInv'
BY DEF GroupInv, Stop, GroupTypeOK, Unstarted, Inactive, Active, PendingIsDNS, MissedIsCancelled, Running, Serving, Cancelled

LEMMA StutterStep ==
  ASSUME GroupInv, UNCHANGED groupVars PROVE GroupInv'
BY DEF GroupInv, groupVars, GroupTypeOK, Unstarted, Inactive, PendingIsDNS, MissedIsCancelled, Running, Serving, Cancelled, Active

LEMMA NextStep == GroupInv /\ [GroupNext]_groupVars => GroupInv'
<1> SUFFICES ASSUME GroupInv, [GroupNext]_groupVars PROVE GroupInv'
  OBVIOUS
<1>1. CASE Restart \/ Stop
  BY <1>1, RestartStep, StopStep
<1>2. ASSUME NEW g \in Groups, Goroutine(g) PROVE GroupInv'
  BY <1>2, ListenStep, StartStep, BindFailsStep, BindStep, RetryStep, LeaveStep, MissStep, ReleaseStep
     DEF Goroutine
<1>3. QED
  BY <1>1, <1>2, StutterStep DEF GroupNext

LEMMA GroupInvariance == GroupSpec => []GroupInv
BY GroupInitInv, NextStep, PTL DEF GroupSpec

-----------------------------------------------------------------------------
\* Types; only a cancelled group of the dns modes keeps a port it was to give up.
THEOREM GroupTyped == GroupSpec => []GroupTypeOK
<1>1. GroupInv => GroupTypeOK
  BY DEF GroupInv
<1>2. QED
  BY <1>1, GroupInvariance, PTL

\* Whatever fails in whichever order, the running group serves each of its ports
\* or will try again.
THEOREM RunningGroupTriesAgain == GroupSpec => []NeverStuck
<1>1. GroupInv => NeverStuck
  <2> SUFFICES ASSUME GroupInv, ~stopped, NEW s \in Active, NEW p \in PortsOf(s)
               PROVE \/ holder[p] = current \/ pending[current][p] = "starting"
                     \/ loop[current][s] \in {"begin", "waiting"}
    BY DEF NeverStuck
  <2>1. QED
    BY DEF GroupInv, Running, Serving
<1>2. QED
  BY <1>1, GroupInvariance, PTL

-----------------------------------------------------------------------------
(* The stream of a connection.                                             *)

Types ==
  /\ stage \in {"head", "decide", "target", "dial", "relay", "closed", "reset"}
  /\ sent \in 0..MaxUp /\ client \in {"open", "fin", "reset"}
  /\ server \in {"none", "open", "fin", "reset"} /\ answered \in 0..MaxDown
  /\ head \in 0..sent /\ ahead \in 0..sent /\ pos \in 0..sent /\ head + ahead <= pos
  /\ up \in {"head", "ahead", "copy", "done"} /\ down \in {"wait", "copy", "done"}
  /\ received \in Seq(1..MaxUp) /\ delivered \in 0..answered
  /\ upFin \in BOOLEAN /\ downFin \in BOOLEAN
  /\ expired \in BOOLEAN /\ age \in 0..DeadlineAge /\ moved \in BOOLEAN
  /\ o \in Options

(***************************************************************************)
(* StreamIntact follows from where the copying is: until the two buffers   *)
(* are written they hold all that was read, and a server that still takes  *)
(* bytes has taken all that was written so far.  Once it does not, it      *)
(* never does again, so that what it has stays a prefix.                   *)
(***************************************************************************)
Buffers == up \in {"head", "ahead"} => head + ahead = pos /\ (o.kind = "https" => ahead = 0)

Dialled ==
  /\ up # "head" => stage \in {"relay", "closed"}
  /\ stage = "relay" \/ up # "head" => server # "none"

Written == CASE up = "head" -> 0 [] up = "ahead" -> head [] OTHER -> pos

Prefix ==
  /\ received = Run(0, Len(received))
  /\ up = "head" \/ ServerTakes => Len(received) = Written

Finished ==
  /\ expired => age = DeadlineAge
  /\ upFin => /\ up = "done"
              /\ \/ client = "reset" \/ server = "reset" \/ expired
                 \/ client = "fin" /\ pos = sent

StreamInv == Types /\ Buffers /\ Dialled /\ Prefix /\ Finished

LEMMA RunIs ==
  ASSUME NEW a \in Nat, NEW b \in Nat, a <= b, b <= MaxUp
  PROVE  /\ Run(a, b) \in Seq(1..MaxUp) /\ Len(Run(a, b)) = b - a
         /\ \A i \in 1..(b - a) : Run(a, b)[i] = a + i
<1>1. b - a \in Nat
  OBVIOUS
<1>2. ASSUME NEW i \in 1..(b - a) PROVE a + i \in 1..MaxUp
  BY BoundsAssumption
<1>3. QED
  BY <1>1, <1>2 DEF Run

LEMMA RunFromStart ==
  ASSUME NEW b \in Nat, b <= MaxUp
  PROVE  /\ Run(0, b) \in Seq(1..MaxUp) /\ Len(Run(0, b)) = b
         /\ \A i \in 1..b : Run(0, b)[i] = i
<1>1. b - 0 = b /\ 0 <= b /\ \A i \in 1..b : 0 + i = i
  OBVIOUS
<1>2. /\ Run(0, b) \in Seq(1..MaxUp) /\ Len(Run(0, b)) = b - 0
      /\ \A i \in 1..(b - 0) : Run(0, b)[i] = 0 + i
  BY <1>1, RunIs
<1> HIDE DEF Run
<1>3. QED
  BY <1>1, <1>2

\* Two runs, one after the other.
LEMMA RunsJoin ==
  ASSUME NEW a \in Nat, NEW b \in Nat, a <= b, b <= MaxUp
  PROVE  Run(0, a) \o Run(a, b) = Run(0, b) /\ Len(Run(0, b)) = b
<1>1. Run(0, a) \in Seq(1..MaxUp) /\ Len(Run(0, a)) = a /\ \A i \in 1..a : Run(0, a)[i] = i
  BY RunFromStart, BoundsAssumption
<1>2. /\ Run(a, b) \in Seq(1..MaxUp) /\ Len(Run(a, b)) = b - a
      /\ \A i \in 1..(b - a) : Run(a, b)[i] = a + i
  BY RunIs
<1>3. Run(0, b) \in Seq(1..MaxUp) /\ Len(Run(0, b)) = b /\ \A i \in 1..b : Run(0, b)[i] = i
  BY RunFromStart
<1> DEFINE joined == Run(0, a) \o Run(a, b)
<1>4. /\ joined \in Seq(1..MaxUp) /\ Len(joined) = Len(Run(0, a)) + Len(Run(a, b))
      /\ \A i \in 1..(Len(Run(0, a)) + Len(Run(a, b))) :
           joined[i] = IF i <= Len(Run(0, a)) THEN Run(0, a)[i]
                       ELSE Run(a, b)[i - Len(Run(0, a))]
  <2>1. Run(0, a) \in Seq(1..MaxUp) /\ Run(a, b) \in Seq(1..MaxUp)
    BY <1>1, <1>2
  <2>2. QED
    BY <2>1, ConcatProperties, Zenon
<1> HIDE DEF joined
<1>5. Len(joined) = b
  <2>1. Len(joined) = a + (b - a)
    <3>1. Len(joined) = Len(Run(0, a)) + Len(Run(a, b))
      BY <1>4
    <3>2. Len(Run(0, a)) = a /\ Len(Run(a, b)) = b - a
      BY <1>1, <1>2
    <3>3. QED
      BY <3>1, <3>2
  <2>2. QED
    BY <2>1
<1>6. ASSUME NEW i \in 1..b PROVE joined[i] = Run(0, b)[i]
  <2>1. joined[i] = IF i <= a THEN Run(0, a)[i] ELSE Run(a, b)[i - a]
    BY <1>1, <1>2, <1>4, <1>5
  <2>2. CASE i <= a
    BY <1>1, <1>3, <2>1, <2>2
  <2>3. CASE i > a
    <3>1. i - a \in 1..(b - a) /\ a + (i - a) = i /\ ~(i <= a)
      BY <2>3
    <3>2. Run(a, b)[i - a] = a + (i - a)
      BY <1>2, <3>1
    <3>3. QED
      BY <1>3, <2>1, <3>1, <3>2
  <2>4. QED
    BY <2>2, <2>3
<1>7. joined = Run(0, b)
  BY <1>3, <1>4, <1>5, <1>6, SeqEqual
<1>8. QED
  BY <1>3, <1>7 DEF joined

LEMMA StreamInvIntact == StreamInv => StreamIntact
BY DEF StreamInv, Types, Dialled, Prefix, Finished, ServerTakes, Written, StreamIntact

LEMMA StreamInvInit == Init => StreamInv
<1> SUFFICES ASSUME Init PROVE StreamInv
  OBVIOUS
<1>1. Run(0, 0) = <<>>
  BY RunIs, BoundsAssumption, EmptySeq
<1>2. Types
  <2>1. /\ 0 \in 0..MaxUp /\ 0 \in 0..MaxDown /\ 0 \in 0..0 /\ 0 + 0 <= 0
        /\ 0 \in 0..DeadlineAge /\ <<>> \in Seq(1..MaxUp)
    BY BoundsAssumption DEF DeadlineAge
  <2>2. QED
    BY <2>1 DEF Init, Types
<1>3. QED
  BY <1>1, <1>2
     DEF Init, StreamInv, Buffers, Dialled, Prefix, Finished, Written, ServerTakes

LEMMA CountsAre ==
  ASSUME Types
  PROVE  /\ sent \in Nat /\ sent <= MaxUp /\ answered \in Nat /\ answered <= MaxDown
         /\ head \in Nat /\ ahead \in Nat /\ pos \in Nat /\ delivered \in Nat
         /\ head <= pos /\ ahead <= pos /\ pos <= sent /\ head + ahead <= pos
         /\ o.kind \in {"http", "https"}
BY BoundsAssumption, OptionsAssumption DEF Types

\* A write of the chunks that follow those already written.
LEMMA WriteFollows ==
  ASSUME StreamInv, NEW b \in Nat, Written <= b, b <= MaxUp, Write(Run(Written, b))
  PROVE  /\ received' \in Seq(1..MaxUp) /\ received' = Run(0, Len(received'))
         /\ ServerTakes => Len(received') = b
<1>1. Written \in Nat
  BY CountsAre DEF StreamInv, Types, Written
<1>2. CASE ServerTakes
  <2> DEFINE w == Written
  <2>1. received = Run(0, w)
    BY <1>2 DEF StreamInv, Prefix
  <2>2. received' = received \o Run(w, b)
    BY <1>2 DEF Write
  <2> HIDE DEF w
  <2>3. Run(0, w) \o Run(w, b) = Run(0, b) /\ Len(Run(0, b)) = b
    BY <1>1, RunsJoin DEF w
  <2>4. Run(0, b) \in Seq(1..MaxUp)
    BY RunFromStart
  <2>5. QED
    BY <2>1, <2>2, <2>3, <2>4
<1>3. CASE ~ServerTakes
  BY <1>3 DEF Write, StreamInv, Prefix, Types
<1>4. QED
  BY <1>2, <1>3

\* The ends of the connection.
LEMMA EndsStream ==
  ASSUME StreamInv, ClientSends \/ ClientEnds \/ ServerSends \/ ServerEnds
  PROVE  StreamInv'
<1> USE BoundsAssumption DEF StreamInv, config, copying, decision, clock
<1>1. CASE ClientSends
  <2>1. sent' = sent + 1 /\ sent + 1 \in 0..MaxUp
    BY <1>1, CountsAre DEF ClientSends
  <2>2. head \in 0..(sent + 1) /\ ahead \in 0..(sent + 1) /\ pos \in 0..(sent + 1)
    BY CountsAre
  <2>3. Types'
    BY <1>1, <2>1, <2>2 DEF ClientSends, Types
  <2>4. QED
    BY <1>1, <2>3
       DEF ClientSends, Buffers, Dialled, Prefix, Finished, Written, ServerTakes
<1>2. CASE ClientEnds
  BY <1>2 DEF ClientEnds, Types, Buffers, Dialled, Prefix, Finished, Written, ServerTakes
<1>3. CASE ServerSends
  <2>1. answered' = answered + 1 /\ answered + 1 \in 0..MaxDown /\ delivered \in 0..(answered + 1)
    BY <1>3, CountsAre DEF ServerSends, Types
  <2>2. Types'
    BY <1>3, <2>1 DEF ServerSends, Types
  <2>3. QED
    BY <1>3, <2>2
       DEF ServerSends, Buffers, Dialled, Prefix, Finished, Written, ServerTakes
<1>4. CASE ServerEnds
  BY <1>4 DEF ServerEnds, Types, Buffers, Dialled, Prefix, Finished, Written, ServerTakes
<1>5. QED
  BY <1>1, <1>2, <1>3, <1>4

\* Up to the dial nothing is written: what is read stays in the buffers.
LEMMA BeforeDialStream ==
  ASSUME StreamInv,
         \/ ReadHead \/ Parsed \/ ParseFails \/ Block \/ Admit \/ TargetKnown \/ TargetUnknown
         \/ Dial \/ DialFails
  PROVE  StreamInv'
<1> USE DEF StreamInv, config, ends, copying, decision, clock
<1>1. CASE ReadHead
  <2>1. PICK taken \in (pos + 1)..sent :
          /\ pos' = taken
          /\ IF o.kind = "https"
             THEN taken = pos + 1 /\ head' = taken /\ ahead' = 0
             ELSE /\ head' \in (head + 1)..taken
                  /\ head' < taken => head' >= HeadLen
                  /\ ahead' = taken - head'
    BY <1>1 DEF ReadHead
  <2>2. /\ pos' \in 0..sent /\ head' \in 0..sent /\ ahead' \in 0..sent
        /\ head' + ahead' = pos' /\ head' + ahead' <= pos'
        /\ (o.kind = "https" => ahead' = 0)
    <3>1. CASE o.kind = "https"
      BY <2>1, <3>1, CountsAre
    <3>2. CASE o.kind # "https"
      BY <2>1, <3>2, CountsAre
    <3>3. QED
      BY <3>1, <3>2
  <2>3. Types'
    <3>1. UNCHANGED <<stage, sent, client, server, answered, up, down, received, delivered,
                      upFin, downFin, expired, age, moved, o>>
      BY <1>1 DEF ReadHead
    <3>2. Types
      OBVIOUS
    <3>3. /\ head' \in 0..sent' /\ ahead' \in 0..sent' /\ pos' \in 0..sent'
          /\ head' + ahead' <= pos'
      BY <2>2, <3>1
    <3> HIDE DEF StreamInv, config, ends, copying, decision, clock
    <3>4. /\ sent' \in 0..MaxUp /\ answered' \in 0..MaxDown /\ received' \in Seq(1..MaxUp)
          /\ delivered' \in 0..answered'
          /\ expired' \in BOOLEAN /\ age' \in 0..DeadlineAge /\ moved' \in BOOLEAN
      BY <3>1, <3>2 DEF Types
    <3>5. /\ stage' \in {"head", "decide", "target", "dial", "relay", "closed", "reset"}
          /\ client' \in {"open", "fin", "reset"}
          /\ server' \in {"none", "open", "fin", "reset"}
          /\ up' \in {"head", "ahead", "copy", "done"} /\ down' \in {"wait", "copy", "done"}
          /\ upFin' \in BOOLEAN /\ downFin' \in BOOLEAN /\ o' \in Options
      BY <3>1, <3>2 DEF Types
    <3>6. QED
      BY <3>3, <3>4, <3>5 DEF Types
  <2>4. up = "head"
    BY <1>1 DEF ReadHead, Dialled
  <2>5. QED
    BY <1>1, <2>2, <2>3, <2>4
       DEF ReadHead, Buffers, Dialled, Prefix, Finished, Written, ServerTakes
<1>2. CASE Parsed \/ ParseFails \/ Block \/ Admit \/ TargetKnown \/ TargetUnknown \/ DialFails
  <2>1. /\ UNCHANGED <<sent, client, server, answered, head, ahead, up, down, pos, received,
                       delivered, upFin, downFin, moved, expired, age, o>>
        /\ stage' \in {"decide", "target", "dial", "closed", "reset"}
        /\ stage \notin {"relay", "closed"}
    BY <1>2 DEF Parsed, ParseFails, Block, Admit, TargetKnown, TargetUnknown, DialFails
  <2>2. QED
    BY <2>1 DEF Types, Buffers, Dialled, Prefix, Finished, Written, ServerTakes
<1>3. CASE Dial
  <2>1. up = "head" /\ Written = 0
    BY <1>3 DEF Dial, Dialled, Written
  <2>2. Types'
    BY <1>3 DEF Dial, Types
  <2>3. Buffers' /\ Dialled' /\ Finished'
    BY <1>3, <2>1 DEF Dial, Buffers, Dialled, Finished
  <2>4. Prefix'
    BY <1>3, <2>1 DEF Dial, Prefix, Written
  <2>5. QED
    BY <2>2, <2>3, <2>4
<1>4. QED
  BY <1>1, <1>2, <1>3

\* The copying.
LEMMA RelayStream ==
  ASSUME StreamInv, \/ UpHead \/ UpAhead \/ UpCopy \/ UpDone
                    \/ DownCopy \/ DownDone \/ Close \/ Elapse
  PROVE  StreamInv'
<1> USE DEF StreamInv, config, ends, decision, clock
<1>1. CASE UpHead
  <2>1. Written = 0 /\ Written <= head /\ head <= MaxUp /\ head \in Nat
    <3>1. Written = 0
      BY <1>1 DEF UpHead, Written
    <3>2. QED
      BY <3>1, CountsAre, BoundsAssumption
  <2>2. received' \in Seq(1..MaxUp) /\ received' = Run(0, Len(received'))
        /\ (ServerTakes => Len(received') = head)
    BY <1>1, <2>1, WriteFollows DEF UpHead
  <2>3. Types'
    BY <1>1, <2>2 DEF UpHead, Types
  <2>4. Buffers' /\ (ServerTakes' <=> ServerTakes)
    BY <1>1 DEF UpHead, Buffers, ServerTakes
  <2>5. Written' = head /\ up' # "head"
    BY <1>1, CountsAre DEF UpHead, Buffers, Written
  <2>6. Prefix'
    BY <2>2, <2>4, <2>5 DEF Prefix
  <2>7. QED
    BY <1>1, <2>3, <2>4, <2>6 DEF UpHead, Dialled, Finished
<1>2. CASE UpAhead
  <2>1. Written = head /\ head + ahead = pos /\ Written <= pos /\ pos <= MaxUp /\ pos \in Nat
    <3>1. Written = head /\ head + ahead = pos
      BY <1>2 DEF UpAhead, Written, Buffers
    <3>2. QED
      BY <3>1, CountsAre, BoundsAssumption
  <2>2. Write(Run(Written, pos))
    BY <1>2, <2>1 DEF UpAhead
  <2>3. received' \in Seq(1..MaxUp) /\ received' = Run(0, Len(received'))
        /\ (ServerTakes => Len(received') = pos)
    BY <2>1, <2>2, WriteFollows
  <2>4. Types'
    BY <1>2, <2>3 DEF UpAhead, Types
  <2>5. Written' = pos /\ (ServerTakes' <=> ServerTakes) /\ up' = "copy"
    BY <1>2 DEF UpAhead, Written, ServerTakes
  <2>6. Prefix'
    BY <2>3, <2>5 DEF Prefix
  <2>7. QED
    BY <1>2, <2>4, <2>6 DEF UpAhead, Buffers, Dialled, Finished
<1>3. CASE UpCopy
  <2>1. Written = pos /\ Written <= pos + 1 /\ pos + 1 <= MaxUp /\ pos + 1 \in Nat
    <3>1. Written = pos /\ pos < sent
      BY <1>3 DEF UpCopy, Written
    <3>2. pos + 1 <= MaxUp /\ pos <= pos + 1 /\ pos + 1 \in Nat
      BY <3>1, CountsAre, BoundsAssumption
    <3>3. QED
      BY <3>1, <3>2
  <2>2. Write(Run(Written, pos + 1))
    BY <1>3, <2>1 DEF UpCopy
  <2>3. received' \in Seq(1..MaxUp) /\ received' = Run(0, Len(received'))
        /\ (ServerTakes => Len(received') = pos + 1)
    BY <2>1, <2>2, WriteFollows
  <2>4. pos' = pos + 1 /\ pos + 1 \in 0..sent /\ head + ahead <= pos + 1
    BY <1>3, CountsAre DEF UpCopy
  <2>5. Types'
    BY <1>3, <2>3, <2>4 DEF UpCopy, Types
  <2>6. Written' = pos + 1 /\ (ServerTakes' <=> ServerTakes) /\ up' = "copy"
    BY <1>3 DEF UpCopy, Written, ServerTakes
  <2>7. Prefix'
    BY <2>3, <2>6 DEF Prefix
  <2>8. ~upFin
    BY <1>3 DEF UpCopy, Finished
  <2>9. QED
    BY <1>3, <2>5, <2>7, <2>8 DEF UpCopy, Buffers, Dialled, Finished
<1>4. CASE UpDone
  BY <1>4 DEF UpDone, Types, Buffers, Dialled, Prefix, Finished, Written, ServerTakes
<1>5. CASE DownCopy
  <2>1. delivered' = delivered + 1 /\ delivered + 1 \in 0..answered
    BY <1>5, CountsAre DEF DownCopy
  <2>2. Types'
    BY <1>5, <2>1 DEF DownCopy, Types
  <2>3. QED
    BY <1>5, <2>2 DEF DownCopy, Buffers, Dialled, Prefix, Finished, Written, ServerTakes
<1>6. CASE DownDone
  BY <1>6 DEF DownDone, Types, Buffers, Dialled, Prefix, Finished, Written, ServerTakes
<1>7. CASE Close
  BY <1>7 DEF Close, copying, Types, Buffers, Dialled, Prefix, Finished, Written, ServerTakes
<1>8. CASE Elapse
  <2>1. /\ age' \in 0..DeadlineAge /\ expired' \in BOOLEAN /\ ~expired
        /\ expired' => age' = DeadlineAge
    BY <1>8 DEF Elapse, Types, Finished, DeadlineAge
  <2>2. Types'
    BY <1>8, <2>1 DEF Elapse, Types
  <2>3. QED
    BY <1>8, <2>1, <2>2 DEF Elapse, Buffers, Dialled, Prefix, Finished, Written, ServerTakes
<1>9. QED
  BY <1>1, <1>2, <1>3, <1>4, <1>5, <1>6, <1>7, <1>8

LEMMA StreamInvStep == StreamInv /\ [Next]_vars => StreamInv'
<1> SUFFICES ASSUME StreamInv, [Next]_vars PROVE StreamInv'
  OBVIOUS
<1>1. CASE UNCHANGED vars
  BY <1>1 DEF vars, config, ends, copying, decision, clock,
     StreamInv, Types, Buffers, Dialled, Prefix, Finished, Written, ServerTakes
<1>2. QED
  BY <1>1, EndsStream, BeforeDialStream, RelayStream DEF Next, Proxy

LEMMA StreamInvariance == Spec => []StreamInv
BY StreamInvInit, StreamInvStep, PTL DEF Spec

\* For heads and streams of any number of chunks, however they are read, buffered
\* and interrupted: the server gets a prefix of the client's stream, and all of it
\* if both connections survive.
THEOREM StreamIntactHolds == Spec => []StreamIntact
BY StreamInvariance, StreamInvIntact, PTL

Verdicts == {"ALLOWED", "BLOCKED", "AUDIT"}
Names == Requests \cup {None}

DecisionTypes ==
  asks \in Requests /\ host \in Names /\ verdicts \in Seq(Verdicts) /\ learned \subseteq Names

LEMMA TypesAreAll == TypeOK <=> Types /\ DecisionTypes
BY DEF TypeOK, Types, DecisionTypes, Names, Verdicts

LEMMA DecisionTypesStep ==
  ASSUME DecisionTypes, [Next]_vars PROVE DecisionTypes'
<1> USE DEF vars, config, ends, copying, decision
<1>1. CASE Parsed \/ ParseFails
  BY <1>1 DEF Parsed, ParseFails, DecisionTypes, Names, Sanitized
<1>2. CASE Block
  BY <1>2 DEF Block, DecisionTypes, Verdicts
<1>3. CASE Admit
  <2>1. learned' \subseteq Names /\ verdicts' \in Seq(Verdicts)
    BY <1>3 DEF Admit, Learned, DecisionTypes, Verdicts
  <2>2. QED
    BY <1>3, <2>1 DEF Admit, DecisionTypes
<1>4. CASE TargetKnown
  BY <1>4 DEF TargetKnown, DecisionTypes, Verdicts, Names
<1>5. CASE UNCHANGED <<asks, host, verdicts, learned>>
  BY <1>5 DEF DecisionTypes
<1>6. CASE ClientSends \/ ClientEnds \/ ServerSends \/ ServerEnds
  BY <1>5, <1>6 DEF ClientSends, ClientEnds, ServerSends, ServerEnds
<1>7. CASE ReadHead \/ TargetUnknown \/ Dial \/ DialFails
  BY <1>5, <1>7 DEF ReadHead, TargetUnknown, Dial, DialFails
<1>8. CASE UpHead \/ UpAhead \/ UpCopy \/ UpDone
  BY <1>5, <1>8 DEF UpHead, UpAhead, UpCopy, UpDone
<1>9. CASE DownCopy \/ DownDone \/ Close \/ Elapse \/ UNCHANGED vars
  BY <1>5, <1>9 DEF DownCopy, DownDone, Close, Elapse
<1>10. QED
  BY <1>1, <1>2, <1>3, <1>4, <1>6, <1>7, <1>8, <1>9 DEF Next, Proxy

\* Types; the two buffers never hold more than was read, nor more than was sent.
THEOREM RelayTyped == Spec => []TypeOK
<1>1. Init => DecisionTypes
  BY DEF Init, DecisionTypes, Names, Verdicts
<1>2. DecisionTypes /\ [Next]_vars => DecisionTypes'
  BY DecisionTypesStep
<1>3. StreamInv /\ DecisionTypes => TypeOK
  BY TypesAreAll DEF StreamInv
<1>4. QED
  BY <1>1, <1>2, <1>3, StreamInvariance, PTL DEF Spec

-----------------------------------------------------------------------------
(* The verdict of a connection.                                            *)

\* The lists stop what the documents say that they stop.
PolicyAsDocumented == AsDocumented(Names, Stopped, AllowDomains, DenyDomains)

Against == host \in Stopped[o.defaultAllow] /\ ~o.learning

\* What is recorded of a connection before there is a server.
Noted ==
  /\ verdicts = <<IF Against THEN "AUDIT" ELSE "ALLOWED">> /\ (Against => o.audit)
  /\ o.learning /\ ~Allows(AllowDomains, host) => host \in learned

(***************************************************************************)
(* VerdictIsTrue speaks of connections that have been dialled or reset;    *)
(* the invariant says what has been logged and learned at each stage       *)
(* before, the audited verdict one stage earlier than the other.           *)
(***************************************************************************)
DecisionInv ==
  /\ o \in Options /\ asks \in Requests /\ host \in Names
  /\ stage \in {"head", "decide", "target", "dial", "relay", "closed", "reset"}
  /\ verdicts \in Seq(Verdicts) /\ Len(verdicts) <= 1
  /\ learned \subseteq Names /\ (~o.learning => learned = {})
  /\ stage \notin {"relay", "closed"} => server = "none"
  /\ stage \in {"head", "decide"} => verdicts = <<>>
  /\ stage = "target" =>
       /\ verdicts = (IF Against THEN <<"AUDIT">> ELSE <<>>) /\ (Against => o.audit)
       /\ o.learning /\ ~Allows(AllowDomains, host) => host = None \/ host \in learned
  /\ stage \in {"dial", "relay"} \/ server # "none" => Noted
  /\ stage = "reset" => verdicts = <<"BLOCKED">> /\ Against /\ ~o.audit

LEMMA DecisionIsTrue == DecisionInv => VerdictIsTrue
BY DEF DecisionInv, Noted, Against, VerdictIsTrue

LEMMA PermittedMeans ==
  ASSUME DecisionInv, PolicyAsDocumented
  PROVE  (Permitted <=> ~Against) /\ (Audited(Permitted, o) <=> Against /\ o.audit)
<1>1. o.learning \in BOOLEAN /\ o.defaultAllow \in BOOLEAN /\ host \in Names
  BY OptionsAssumption DEF DecisionInv
<1> DEFINE d == o.defaultAllow
           plain == [learning |-> FALSE, defaultAllow |-> d]
<1>2. host \in Stopped[d] <=> ~Permits(host, AllowDomains, DenyDomains, plain)
  BY <1>1 DEF PolicyAsDocumented, AsDocumented
<1>3. Permits(host, AllowDomains, DenyDomains, plain)
        <=> \/ ~d /\ host # None /\ Allows(AllowDomains, host)
            \/ d /\ (host = None \/ Allows(AllowDomains, host) \/ ~Allows(DenyDomains, host))
  BY DEF Permits
<1>4. Permitted <=> o.learning \/ Permits(host, AllowDomains, DenyDomains, plain)
  BY <1>3 DEF Permitted, Permits
<1>5. Permitted <=> ~Against
  BY <1>2, <1>4 DEF Against
<1>6. QED
  BY <1>5 DEF Audited

LEMMA VerdictsAre ==
  /\ <<>> \in Seq(Verdicts) /\ Len(<<>>) = 0
  /\ \A v \in Verdicts : <<v>> \in Seq(Verdicts) /\ Len(<<v>>) = 1 /\ Append(<<>>, v) = <<v>>
BY DEF Verdicts

LEMMA DecisionInit == Init => DecisionInv
BY VerdictsAre DEF Init, DecisionInv, Names

\* What the connection is about, and what is said of it, stay as they are.
LEMMA DecisionStays ==
  ASSUME DecisionInv, UNCHANGED <<o, asks, host, verdicts, learned>>,
         \/ stage' = stage /\ (server # "none" \/ stage = "relay" \/ server' = server)
         \/ stage' = "closed" /\ (server' = server \/ stage = "relay")
         \/ stage = "dial" /\ stage' = "relay"
  PROVE  DecisionInv'
BY DEF DecisionInv, Noted, Against

LEMMA DecisionMoves ==
  ASSUME DecisionInv, PolicyAsDocumented, Parsed \/ ParseFails \/ Block \/ Admit \/ TargetKnown
  PROVE  DecisionInv'
<1> USE DEF DecisionInv, config, ends
<1>1. server = "none" /\ server' = "none" /\ UNCHANGED <<o, asks>>
  BY DEF Parsed, ParseFails, Block, Admit, TargetKnown
<1>2. CASE Parsed \/ ParseFails
  <2>1. host' \in Names
    BY <1>2 DEF Parsed, ParseFails, Names, Sanitized
  <2>2. QED
    BY <1>1, <1>2, <2>1 DEF Parsed, ParseFails
<1>3. CASE Block
  <2>1. Against /\ ~o.audit
    BY <1>3, PermittedMeans DEF Block
  <2>2. verdicts' = <<"BLOCKED">> /\ verdicts' \in Seq(Verdicts) /\ Len(verdicts') = 1
    BY <1>3, VerdictsAre DEF Block, Verdicts
  <2>3. QED
    BY <1>1, <1>3, <2>1, <2>2 DEF Block, Against
<1>4. CASE Admit
  <2>1. /\ Against => o.audit
        /\ verdicts' = (IF Against THEN <<"AUDIT">> ELSE <<>>)
        /\ verdicts' \in Seq(Verdicts) /\ Len(verdicts') <= 1
    <3>1. verdicts = <<>> /\ (Against => o.audit)
      BY <1>4, PermittedMeans DEF Admit
    <3>2. verdicts' = IF Audited(Permitted, o) THEN Append(<<>>, "AUDIT") ELSE <<>>
      BY <1>4, <3>1 DEF Admit
    <3>3. Audited(Permitted, o) <=> Against
      BY <3>1, PermittedMeans
    <3>4. CASE Against
      <4>1. verdicts' = <<"AUDIT">> /\ "AUDIT" \in Verdicts
        BY <3>2, <3>3, <3>4, VerdictsAre DEF Verdicts
      <4>2. QED
        BY <3>1, <3>4, <4>1, VerdictsAre
    <3>5. CASE ~Against
      BY <3>1, <3>2, <3>3, <3>5, VerdictsAre
    <3>6. QED
      BY <3>4, <3>5
  <2>2. learned' = learned \cup Learned(host, AllowDomains, o)
    BY <1>4 DEF Admit
  <2>3. /\ learned' \subseteq Names /\ (~o.learning => learned' = {})
        /\ o.learning /\ ~Allows(AllowDomains, host) => host = None \/ host \in learned'
    BY <2>2 DEF Learned
  <2>4. QED
    BY <1>1, <1>4, <2>1, <2>3 DEF Admit, Against
<1>5. CASE TargetKnown
  <2>1. /\ verdicts' = <<IF Against THEN "AUDIT" ELSE "ALLOWED">>
        /\ verdicts' \in Seq(Verdicts) /\ Len(verdicts') = 1 /\ (Against => o.audit)
    BY <1>5, PermittedMeans, VerdictsAre DEF TargetKnown, Verdicts
  <2>2. /\ learned' \subseteq Names /\ (~o.learning => learned' = {})
        /\ o.learning /\ ~Allows(AllowDomains, host) => host \in learned'
    BY <1>5 DEF TargetKnown, Names
  <2>3. stage' = "dial" /\ host' = host
    BY <1>5 DEF TargetKnown
  <2>4. Noted'
    BY <1>1, <2>1, <2>2, <2>3 DEF Noted, Against
  <2>5. QED
    BY <1>1, <2>1, <2>2, <2>3, <2>4
<1>6. QED
  BY <1>2, <1>3, <1>4, <1>5

LEMMA DecisionStep ==
  ASSUME DecisionInv, PolicyAsDocumented, [Next]_vars PROVE DecisionInv'
<1> USE DEF DecisionInv, vars, config, ends, copying, decision
<1>1. CASE Parsed \/ ParseFails \/ Block \/ Admit \/ TargetKnown
  BY <1>1, DecisionMoves
<1>2. CASE ClientSends \/ ClientEnds \/ ServerSends \/ ServerEnds
  BY <1>2, DecisionStays DEF ClientSends, ClientEnds, ServerSends, ServerEnds
<1>3. CASE ReadHead \/ TargetUnknown \/ Dial \/ DialFails
  BY <1>3, DecisionStays DEF ReadHead, TargetUnknown, Dial, DialFails
<1>4. CASE UpHead \/ UpAhead \/ UpCopy \/ UpDone
  BY <1>4, DecisionStays DEF UpHead, UpAhead, UpCopy, UpDone
<1>5. CASE DownCopy \/ DownDone \/ Close \/ Elapse \/ UNCHANGED vars
  BY <1>5, DecisionStays DEF DownCopy, DownDone, Close, Elapse
<1>6. QED
  BY <1>1, <1>2, <1>3, <1>4, <1>5 DEF Next, Proxy

\* For any names and options: if the lists stop what the documents say they stop,
\* every connection gets the one verdict the policy asks for, at whatever stage it
\* is interrupted, and nothing that is stopped reaches a server.
THEOREM VerdictIsTrueHolds ==
  ASSUME PolicyAsDocumented PROVE Spec => []VerdictIsTrue
<1>1. DecisionInv /\ [Next]_vars => DecisionInv'
  BY DecisionStep
<1>2. QED
  BY <1>1, DecisionInit, DecisionIsTrue, PTL DEF Spec
=============================================================================
