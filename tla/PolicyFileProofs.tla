-------------------------- MODULE PolicyFileProofs --------------------------
(***************************************************************************)
(* Proofs about PolicyFile, for any values, any bound on what the learner  *)
(* remembers, any number of crashes, and reads and writes that fail.       *)
(*                                                                         *)
(* They are about deployments with one writer.  It reads, truncates and    *)
(* writes in three steps that others can see between; what makes the three *)
(* look like one is that its copy of the file stays what the file was.     *)
(* A write that is cut off may leave anything it was about to write, or a  *)
(* file that does not parse; from then on torn excuses what is missing.    *)
(***************************************************************************)
EXTENDS PolicyFile, FiniteSetTheorems, TLAPS

\* Learning mode or remote unblock is on, not both.
OneWriter == \A s \in Deployments : \E w \in Writers : s \subseteq {w}

\* A goroutine that is off has done nothing.
OffOK == \A w \in Writers \ on : pc[w] = "idle" /\ todo[w] = {} /\ reported[w] = {}

\* The copy of a writer is what the file is, or was before it was truncated.
CopyOK ==
  \A w \in on :
    /\ pc[w] = "truncate" => base[w] = file
    /\ pc[w] = "write" => file = {}
    /\ pc[w] \in {"truncate", "write"} => ~garbled
    /\ pc[w] # "idle" => arg[w] \in Values

\* Nothing reported is missing, unless a write has failed half way.
KeptOK == ~torn => Reported \subseteq Durable

IInv == TypeOK /\ IsFiniteSet(seen) /\ (garbled => torn) /\ OffOK /\ CopyOK /\ KeptOK

\* With one writer, the file to be is the copy of that writer while it writes.
LEMMA DurableIs ==
  ASSUME NEW w \in Writers, on \subseteq {w}
  PROVE  Durable = IF w \in on /\ pc[w] = "write" THEN base[w] ELSE file
<1>1. CASE w \in on /\ pc[w] = "write"
  <2>1. w = CHOOSE x \in on : pc[x] = "write"
    BY <1>1
  <2> QED
    BY <1>1, <2>1 DEF Durable
<1>2. CASE ~(w \in on /\ pc[w] = "write")
  BY <1>2 DEF Durable
<1> QED
  BY <1>1, <1>2

LEMMA DurableIsNext ==
  ASSUME NEW w \in Writers, on' \subseteq {w}
  PROVE  Durable' = IF w \in on' /\ pc'[w] = "write" THEN base'[w] ELSE file'
<1>1. CASE w \in on' /\ pc'[w] = "write"
  <2>1. w = CHOOSE x \in on' : pc'[x] = "write"
    BY <1>1
  <2> QED
    BY <1>1, <2>1 DEF Durable
<1>2. CASE ~(w \in on' /\ pc'[w] = "write")
  BY <1>2 DEF Durable
<1> QED
  BY <1>1, <1>2

\* What a single writer leaves when it is cut off: all of its data, or a part and
\* perhaps a stump, or no policy; anything but all of it counts as torn.
Remnant(w) ==
  \/ garbled' = TRUE /\ torn' = TRUE /\ file' = {}
  \/ /\ garbled' = FALSE
     /\ \E stump \in {{}} \cup {{s} : s \in Stumps} : file' \subseteq Data(w) \cup stump
     /\ torn' = TRUE \/ (torn' = torn /\ file' = Data(w))

LEMMA CutOffIs ==
  ASSUME NEW w \in Writers, file = {}, torn \in BOOLEAN, CutOff({w})
  PROVE  Remnant(w)
<1>1. file \cup UNION {Data(x) : x \in {w}} = Data(w)
  OBVIOUS
<1>2. /\ \/ /\ garbled' = FALSE
            /\ \E stump \in {{}} \cup {{s} : s \in Stumps} : file' \in SUBSET (Data(w) \cup stump)
         \/ garbled' = TRUE /\ file' = {}
      /\ torn' = (torn \/ garbled' \/ file' # Data(w))
  BY <1>1 DEF CutOff
<1> QED
  BY <1>2 DEF Remnant

\* Such a remnant is well typed.
LEMMA RemnantTyped ==
  ASSUME NEW w \in Writers, IInv, w \in on, pc[w] = "write", Remnant(w)
  PROVE  file' \subseteq Listed /\ garbled' \in BOOLEAN /\ torn' \in BOOLEAN /\ (garbled' => torn')
<1>1. Data(w) \subseteq Listed
  BY DEF IInv, TypeOK, CopyOK, Data, Listed
<1> QED
  BY <1>1 DEF Remnant, IInv, TypeOK, Listed

LEMMA InitIInv == OneWriter /\ Init => IInv
<1> SUFFICES ASSUME OneWriter, Init PROVE IInv
  OBVIOUS
<1>1. IsFiniteSet({}) /\ Cardinality({}) = 0
  BY FS_EmptySet
<1>2. TypeOK
  <2>1. seen \subseteq Values /\ Cardinality(seen) <= MaxSeen /\ pending \subseteq seen /\ crashes \in 0..MaxCrashes
    BY <1>1, BoundsAssumption DEF Init
  <2>2. file \subseteq Listed /\ requests \subseteq Values /\ on \in Deployments /\ failed \subseteq Values
    BY DeploymentsAssumption DEF Init, Listed
  <2>3. garbled = FALSE /\ torn \in BOOLEAN /\ exited \in BOOLEAN /\ phase \in {"up", "stopping"}
    BY DEF Init
  <2>4. /\ todo \in [Writers -> SUBSET Values]
        /\ pc \in [Writers -> {"idle", "truncate", "write", "ack"}]
        /\ arg \in [Writers -> Values \cup {NoValue}]
        /\ base \in [Writers -> SUBSET Listed]
        /\ reported \in [Writers -> SUBSET Values]
    BY DEF Init
  <2> QED
    BY <2>1, <2>2, <2>3, <2>4 DEF TypeOK
<1>3. OffOK /\ CopyOK
  BY DeploymentsAssumption DEF Init, OffOK, CopyOK
<1>4. Reported = {}
  BY DEF Init, Reported
<1> QED
  BY <1>1, <1>2, <1>3, <1>4 DEF Init, IInv, KeptOK

\* A crash leaves the file alone, or cuts the one writer off.
LEMMA CrashTears ==
  ASSUME OneWriter, IInv, Crash
  PROVE  \/ (\A w \in on : pc[w] # "write") /\ UNCHANGED fileVars
         \/ \E w \in on : w \in Writers /\ on \subseteq {w} /\ pc[w] = "write" /\ Remnant(w)
<1>0. PICK w \in Writers : on \subseteq {w}
  BY DEF OneWriter, IInv, TypeOK
<1>1. CASE {x \in on : pc[x] = "write"} = {}
  BY <1>1 DEF Crash
<1>2. CASE {x \in on : pc[x] = "write"} # {}
  <2>1. w \in on /\ pc[w] = "write" /\ {x \in on : pc[x] = "write"} = {w}
    BY <1>0, <1>2
  <2>2. file = {} /\ torn \in BOOLEAN
    BY <2>1 DEF IInv, CopyOK, TypeOK
  <2>3. CutOff({w})
    BY <2>1 DEF Crash
  <2> QED
    BY <1>0, <2>1, <2>2, <2>3, CutOffIs
<1> QED
  BY <1>1, <1>2

\* TypeOK: one conjunct or two per action.
LEMMA NextTyped ==
  ASSUME OneWriter, IInv, [Next]_vars
  PROVE  TypeOK' /\ IsFiniteSet(seen') /\ (garbled' => torn')
<1> USE BoundsAssumption, DeploymentsAssumption
<1>0. on \subseteq Writers /\ IInv /\ TypeOK
  BY DEF IInv, TypeOK
<1>1. ASSUME NEW v \in Values, Record(v)
      PROVE  TypeOK' /\ IsFiniteSet(seen') /\ (garbled' => torn')
  <2>1. IsFiniteSet(seen) /\ Cardinality(seen) \in Nat /\ Cardinality(seen) < MaxSeen
    BY <1>1, FS_CardinalityType DEF IInv, Record
  <2>2. seen' = seen \cup {v} /\ pending' = pending \cup {v}
    BY <1>1 DEF Record
  <2>3. IsFiniteSet(seen') /\ Cardinality(seen') \in {Cardinality(seen), Cardinality(seen) + 1}
    BY <2>1, <2>2, FS_AddElement
  <2>4. Cardinality(seen') <= MaxSeen
    BY <2>1, <2>3
  <2> QED
    BY <1>0, <1>1, <2>2, <2>3, <2>4 DEF IInv, TypeOK, Record, fileVars, writerVars
<1>2. ASSUME NEW v \in Values, Request(v)
      PROVE  TypeOK' /\ IsFiniteSet(seen') /\ (garbled' => torn')
  BY <1>0, <1>2 DEF IInv, TypeOK, Request, fileVars, writerVars, learnerVars
<1>3. CASE Flush
  BY <1>0, <1>3 DEF IInv, TypeOK, Flush, Writers, fileVars
<1>4. CASE Poll
  BY <1>0, <1>4 DEF IInv, TypeOK, Poll, Writers, fileVars, learnerVars
<1>5. CASE Ack
  BY <1>0, <1>5 DEF IInv, TypeOK, Ack, Writers, fileVars, learnerVars
<1>6. ASSUME NEW w \in on, NEW v \in Values, Load(w, v)
      PROVE  TypeOK' /\ IsFiniteSet(seen') /\ (garbled' => torn')
  BY <1>0, <1>6 DEF IInv, TypeOK, Load, Returned, fileVars, learnerVars
<1>7. ASSUME NEW w \in on, NEW v \in Values, LoadFails(w, v)
      PROVE  TypeOK' /\ IsFiniteSet(seen') /\ (garbled' => torn')
  BY <1>0, <1>7 DEF IInv, TypeOK, LoadFails, fileVars, learnerVars
<1>8. ASSUME NEW w \in on, Truncate(w)
      PROVE  TypeOK' /\ IsFiniteSet(seen') /\ (garbled' => torn')
  BY <1>0, <1>8 DEF IInv, TypeOK, Truncate, learnerVars
<1>9. ASSUME NEW w \in on, Write(w)
      PROVE  TypeOK' /\ IsFiniteSet(seen') /\ (garbled' => torn')
  <2>1. file = {} /\ arg[w] \in Values
    BY <1>9 DEF IInv, CopyOK, Write
  <2>2. garbled' = FALSE /\ file' \subseteq Listed
    BY <1>0, <1>9, <2>1 DEF Write, TypeOK, Data, Listed
  <2>3. /\ pc' \in [Writers -> {"idle", "truncate", "write", "ack"}]
        /\ arg' \in [Writers -> Values \cup {NoValue}]
        /\ base' \in [Writers -> SUBSET Listed]
        /\ reported' \in [Writers -> SUBSET Values]
    BY <1>0, <1>9, <2>1 DEF TypeOK, Write, Returned
  <2> QED
    BY <1>0, <1>9, <2>2, <2>3 DEF IInv, TypeOK, Write, learnerVars
<1>10. ASSUME NEW w \in on, WriteFails(w)
      PROVE  TypeOK' /\ IsFiniteSet(seen') /\ (garbled' => torn')
  <2>1. w \in Writers /\ pc[w] = "write" /\ file = {} /\ arg[w] \in Values /\ torn \in BOOLEAN
    BY <1>0, <1>10 DEF IInv, TypeOK, CopyOK, WriteFails
  <2>2. file' \subseteq Listed /\ garbled' \in BOOLEAN /\ torn' \in BOOLEAN /\ (garbled' => torn')
    BY <1>0, <1>10, <2>1, CutOffIs, RemnantTyped DEF WriteFails
  <2>3. /\ pc' \in [Writers -> {"idle", "truncate", "write", "ack"}]
        /\ arg' \in [Writers -> Values \cup {NoValue}]
        /\ base' \in [Writers -> SUBSET Listed]
        /\ failed' \subseteq Values
    BY <1>0, <1>10, <2>1 DEF TypeOK, WriteFails
  <2> QED
    BY <1>0, <1>10, <2>2, <2>3 DEF IInv, TypeOK, WriteFails, learnerVars
<1>11. CASE Stop
  BY <1>0, <1>11 DEF IInv, TypeOK, Stop, fileVars, writerVars, learnerVars
<1>12. CASE Crash
  <2>1. IsFiniteSet({}) /\ Cardinality({}) = 0
    BY FS_EmptySet
  <2>2. /\ seen' = {} /\ pending' = {} /\ exited' = FALSE /\ phase' = "up" /\ crashes' \in 0..MaxCrashes
        /\ UNCHANGED <<on, requests, reported, failed>>
    BY <1>0, <1>12 DEF TypeOK, Crash
  <2>3. /\ todo' \in [Writers -> SUBSET Values]
        /\ pc' \in [Writers -> {"idle", "truncate", "write", "ack"}]
        /\ arg' \in [Writers -> Values \cup {NoValue}]
        /\ base' \in [Writers -> SUBSET Listed]
    BY <1>12 DEF Crash
  <2>4. file' \subseteq Listed /\ garbled' \in BOOLEAN /\ torn' \in BOOLEAN /\ (garbled' => torn')
    BY <1>12, CrashTears, RemnantTyped DEF IInv, TypeOK, fileVars
  <2>5. Cardinality(seen') <= MaxSeen /\ seen' \subseteq Values /\ pending' \subseteq seen' /\ IsFiniteSet(seen')
    BY <2>1, <2>2
  <2>6. /\ on' \in Deployments /\ requests' \subseteq Values
        /\ reported' \in [Writers -> SUBSET Values] /\ failed' \subseteq Values
    BY <1>0, <2>2 DEF IInv, TypeOK
  <2>7. exited' \in BOOLEAN /\ phase' \in {"up", "stopping"} /\ crashes' \in 0..MaxCrashes
    BY <2>2
  <2> QED
    BY <2>3, <2>4, <2>5, <2>6, <2>7 DEF TypeOK
<1>13. CASE UNCHANGED vars
  BY <1>0, <1>13 DEF IInv, TypeOK, vars, fileVars, writerVars, learnerVars
<1> QED
  BY <1>1, <1>2, <1>3, <1>4, <1>5, <1>6, <1>7, <1>8, <1>9, <1>10, <1>11, <1>12, <1>13 DEF Next, Step

\* OffOK and CopyOK: with one writer, nobody else touches the file.
LEMMA NextCopy ==
  ASSUME OneWriter, IInv, [Next]_vars
  PROVE  OffOK' /\ CopyOK'
<1>0. PICK w \in Writers : on \subseteq {w}
  BY DEF OneWriter, IInv, TypeOK
<1>1. /\ todo \in [Writers -> SUBSET Values]
      /\ pc \in [Writers -> {"idle", "truncate", "write", "ack"}]
      /\ arg \in [Writers -> Values \cup {NoValue}]
      /\ base \in [Writers -> SUBSET Listed]
      /\ reported \in [Writers -> SUBSET Values]
  BY DEF IInv, TypeOK
<1>2. OffOK /\ CopyOK
  BY DEF IInv
<1>3. ASSUME NEW v \in Values, Record(v) \/ Request(v)
      PROVE  OffOK' /\ CopyOK'
  BY <1>2, <1>3 DEF Record, Request, OffOK, CopyOK, fileVars, writerVars
<1>4. CASE Flush \/ Poll
  BY <1>0, <1>1, <1>2, <1>4 DEF Flush, Poll, OffOK, CopyOK, fileVars
<1>5. CASE Ack
  BY <1>0, <1>1, <1>2, <1>5 DEF Ack, OffOK, CopyOK, fileVars
<1>6. ASSUME NEW v \in Values, w \in on, Load(w, v)
      PROVE  OffOK' /\ CopyOK'
  BY <1>0, <1>1, <1>2, <1>6 DEF Load, Returned, OffOK, CopyOK, fileVars
<1>7. ASSUME NEW v \in Values, w \in on, LoadFails(w, v)
      PROVE  OffOK' /\ CopyOK'
  BY <1>0, <1>1, <1>2, <1>7 DEF LoadFails, OffOK, CopyOK, fileVars
<1>8. CASE w \in on /\ Truncate(w)
  BY <1>0, <1>1, <1>2, <1>8 DEF Truncate, OffOK, CopyOK
<1>9. CASE w \in on /\ (Write(w) \/ WriteFails(w))
  <2>1. CASE w \in on /\ Write(w)
    BY <1>0, <1>1, <1>2, <2>1 DEF Write, Returned, OffOK, CopyOK
  <2>2. CASE w \in on /\ WriteFails(w)
    BY <1>0, <1>1, <1>2, <2>2 DEF WriteFails, OffOK, CopyOK
  <2>3. QED
    BY <1>9, <2>1, <2>2
<1>10. CASE Stop
  BY <1>2, <1>10 DEF Stop, OffOK, CopyOK, fileVars, writerVars
<1>11. CASE Crash
  BY <1>0, <1>1, <1>2, <1>11 DEF Crash, OffOK, CopyOK
<1>12. CASE UNCHANGED vars
  BY <1>2, <1>12 DEF vars, OffOK, CopyOK, fileVars, writerVars
<1> QED
  BY <1>0, <1>3, <1>4, <1>5, <1>6, <1>7, <1>8, <1>9, <1>10, <1>11, <1>12 DEF Next, Step

\* What the steps do to the allowlist as it stands or is about to, and to what
\* has been reported.
AddStep ==
  /\ ~garbled /\ ~garbled'
  /\ \E v \in Values : Durable' = Durable \cup {v} /\ Reported' = Reported \cup {v}
ReportStep ==
  /\ ~garbled /\ ~garbled'
  /\ \E v \in Durable : Durable' = Durable /\ Reported' = Reported \cup {v}
TearStep ==
  /\ ~garbled
  /\ \/ garbled' /\ torn' /\ Durable' = {}
     \/ /\ ~garbled'
        /\ \E v \in Values, stump \in {{}} \cup {{s} : s \in Stumps} :
             Durable' \subseteq Durable \cup {v} \cup stump
        /\ torn' \/ Durable \subseteq Durable'
  /\ Reported' = Reported

\* A writer that is cut off tears the allowlist.
LEMMA RemnantTears ==
  ASSUME NEW w \in Writers, IInv, w \in on, pc[w] = "write", Remnant(w),
         Durable = base[w], Durable' = file', Reported' = Reported
  PROVE  TearStep
<1>1. arg[w] \in Values /\ ~garbled /\ Data(w) = Durable \cup {arg[w]}
  BY DEF IInv, CopyOK, Data
<1>2. CASE garbled' = TRUE /\ torn' = TRUE /\ file' = {}
  BY <1>1, <1>2 DEF TearStep
<1>3. CASE /\ garbled' = FALSE
           /\ \E stump \in {{}} \cup {{s} : s \in Stumps} : file' \subseteq Data(w) \cup stump
           /\ torn' = TRUE \/ (torn' = torn /\ file' = Data(w))
  <2>1. PICK stump \in {{}} \cup {{s} : s \in Stumps} : file' \subseteq Data(w) \cup stump
    BY <1>3
  <2>2. Durable' \subseteq Durable \cup {arg[w]} \cup stump
    BY <1>1, <2>1
  <2>3. torn' \/ Durable \subseteq Durable'
    BY <1>1, <1>3
  <2> QED
    BY <1>1, <1>3, <2>2, <2>3 DEF TearStep
<1> QED
  BY <1>2, <1>3 DEF Remnant

LEMMA Steps ==
  ASSUME OneWriter, IInv, [Next]_vars
  PROVE  (torn => torn') /\ (AddStep \/ ReportStep \/ TearStep \/ UNCHANGED <<Durable, garbled, Reported>>)
<1> DEFINE Goal == (torn => torn') /\ (AddStep \/ ReportStep \/ TearStep \/ UNCHANGED <<Durable, garbled, Reported>>)
<1>0. PICK w \in Writers : on \subseteq {w}
  BY DEF OneWriter, IInv, TypeOK
<1>a. Durable = IF w \in on /\ pc[w] = "write" THEN base[w] ELSE file
  BY <1>0, DurableIs
<1>b. on' = on
  BY DEF Next, Step, vars, Record, Request, Flush, Poll, Ack, Load, LoadFails, Truncate, Write, WriteFails, Stop, Crash
<1>c. Durable' = IF w \in on /\ pc'[w] = "write" THEN base'[w] ELSE file'
  BY <1>0, <1>b, DurableIsNext
<1>1. /\ pc \in [Writers -> {"idle", "truncate", "write", "ack"}]
      /\ base \in [Writers -> SUBSET Listed]
      /\ reported \in [Writers -> SUBSET Values]
  BY DEF IInv, TypeOK
<1>2. CopyOK
  BY DEF IInv
<1>3. CASE UNCHANGED <<file, garbled, torn, on, pc, base, reported>>
  BY <1>3, <1>a, <1>c DEF Reported
<1>4. \A v : reported' = [reported EXCEPT ![w] = @ \cup {v}] => Reported' = Reported \cup {v}
  BY <1>1 DEF Reported
<1>5. CASE Ack
  <2>1. pc' = [pc EXCEPT !["poller"] = "idle"] /\ "poller" \in on /\ pc["poller"] = "ack"
        /\ UNCHANGED <<file, garbled, torn, base, reported>>
    BY <1>5 DEF Ack, fileVars
  <2> QED
    BY <1>0, <1>1, <1>a, <1>c, <2>1 DEF Reported
<1>6. ASSUME NEW v \in Values, w \in on, Load(w, v)
      PROVE  Goal
  <2>1. UNCHANGED <<file, garbled, torn>> /\ ~garbled /\ pc[w] = "idle"
    BY <1>6 DEF Load, fileVars
  <2>2. CASE v \in file
    <3>1. reported' = [reported EXCEPT ![w] = @ \cup {v}] /\ pc'[w] \in {"idle", "ack"}
      BY <1>1, <1>6, <2>2 DEF Load, Returned
    <3>2. Durable = file /\ Durable' = file
      BY <1>a, <1>c, <2>1, <3>1
    <3> QED
      BY <1>4, <2>1, <2>2, <3>1, <3>2 DEF ReportStep
  <2>3. CASE v \notin file
    <3>1. reported' = reported /\ pc'[w] = "truncate"
      BY <1>1, <1>6, <2>3 DEF Load
    <3> QED
      BY <1>a, <1>c, <2>1, <3>1 DEF Reported
  <2> QED
    BY <2>2, <2>3
<1>7. CASE w \in on /\ Truncate(w)
  <2>1. pc[w] = "truncate" /\ pc'[w] = "write" /\ base[w] = file
        /\ UNCHANGED <<garbled, torn, base, reported>>
    BY <1>1, <1>2, <1>7 DEF Truncate, CopyOK, IInv, TypeOK
  <2> QED
    BY <1>7, <1>a, <1>c, <2>1 DEF Reported
<1>8. CASE w \in on /\ Write(w)
  <2>1. /\ pc[w] = "write" /\ pc'[w] \in {"idle", "ack"} /\ file' = base[w] \cup {arg[w]}
        /\ UNCHANGED torn /\ ~garbled /\ garbled' = FALSE /\ reported' = [reported EXCEPT ![w] = @ \cup {arg[w]}]
        /\ arg[w] \in Values
    BY <1>1, <1>2, <1>8 DEF Write, Returned, CopyOK, Data
  <2>2. Durable' = Durable \cup {arg[w]} /\ Reported' = Reported \cup {arg[w]}
    BY <1>4, <1>8, <1>a, <1>c, <2>1
  <2> QED
    BY <2>1, <2>2 DEF AddStep
<1>9. CASE w \in on /\ WriteFails(w)
  <2>1. pc[w] = "write" /\ pc'[w] = "idle" /\ Reported' = Reported /\ file = {} /\ torn \in BOOLEAN
    BY <1>1, <1>2, <1>9 DEF WriteFails, CopyOK, Reported, IInv, TypeOK
  <2>2. Remnant(w) /\ Durable = base[w] /\ Durable' = file'
    BY <1>9, <1>a, <1>c, <2>1, CutOffIs DEF WriteFails
  <2>3. TearStep
    BY <1>9, <2>1, <2>2, RemnantTears
  <2> QED
    BY <2>2, <2>3 DEF Remnant
<1>10. CASE Crash
  <2>1. pc'[w] = "idle" /\ Reported' = Reported
    BY <1>10 DEF Crash, Reported
  <2>2. CASE (\A x \in on : pc[x] # "write") /\ UNCHANGED fileVars
    BY <1>a, <1>c, <2>1, <2>2 DEF fileVars
  <2>3. CASE w \in on /\ pc[w] = "write" /\ Remnant(w)
    <3>1. Durable = base[w] /\ Durable' = file'
      BY <1>a, <1>c, <2>1, <2>3
    <3>2. TearStep
      BY <2>1, <2>3, <3>1, RemnantTears
    <3> QED
      BY <2>3, <3>2 DEF Remnant
  <2> QED
    BY <1>0, <1>10, <2>2, <2>3, CrashTears
<1>11. ASSUME NEW v \in Values, Record(v) \/ Request(v) \/ LoadFails(w, v)
      PROVE  Goal
  BY <1>3, <1>11 DEF Record, Request, LoadFails, fileVars, writerVars
<1>12. CASE Flush \/ Poll \/ Stop \/ UNCHANGED vars
  BY <1>3, <1>12 DEF Flush, Poll, Stop, vars, fileVars, writerVars
<1> QED
  BY <1>0, <1>5, <1>6, <1>7, <1>8, <1>9, <1>10, <1>11, <1>12 DEF Next, Step

-----------------------------------------------------------------------------
(* The theorems.                                                           *)

LEMMA NextIInv == ASSUME OneWriter, IInv, [Next]_vars PROVE IInv'
<1>1. TypeOK' /\ IsFiniteSet(seen') /\ (garbled' => torn')
  BY NextTyped
<1>2. OffOK' /\ CopyOK'
  BY NextCopy
<1>3. KeptOK'
  BY Steps DEF IInv, KeptOK, AddStep, ReportStep, TearStep
<1> QED
  BY <1>1, <1>2, <1>3 DEF IInv

LEMMA Invariance == OneWriter /\ Spec => []IInv
<1>1. SUFFICES ASSUME OneWriter PROVE Spec => []IInv
  OBVIOUS
<1>2. Init => IInv
  BY <1>1, InitIInv
<1>3. IInv /\ [Next]_vars => IInv'
  BY <1>1, NextIInv
<1> QED
  BY <1>2, <1>3, PTL DEF Spec

\* Types, the learner's memory within learnerMaxSeen, and that with one writer
\* the file stops parsing only by a write that was cut off.
THEOREM Typed == OneWriter /\ Spec => []TypeOK
<1>1. IInv => TypeOK
  BY DEF IInv
<1> QED
  BY <1>1, Invariance, PTL

\* With one writer, what is logged as learned or acknowledged as unblocked is in
\* the policy file whenever no rewrite is under way or has failed half way
\* (appendToAllowlist).
THEOREM NothingReportedIsMissing == OneWriter /\ Spec => []ReportedIsInFile
<1> SUFFICES ASSUME OneWriter PROVE Spec => []ReportedIsInFile
  OBVIOUS
<1>1. IInv => ReportedIsInFile
  <2> SUFFICES ASSUME IInv, ~torn, \A w \in on : pc[w] # "write"
               PROVE  Reported \subseteq file
    BY DEF ReportedIsInFile
  <2>1. PICK w \in Writers : on \subseteq {w}
    BY DEF OneWriter, IInv, TypeOK
  <2>2. Durable = file
    BY <2>1, DurableIs
  <2> QED
    BY <2>2 DEF IInv, KeptOK
<1> QED
  BY <1>1, Invariance, PTL

\* With one writer, the three steps of appendToAllowlist implement the atomic
\* append of Allowlist, a write that is cut off its Tear.
THEOREM AppendsLookAtomic == OneWriter /\ Spec => IsAllowlist
<1> SUFFICES ASSUME OneWriter PROVE Spec => IsAllowlist
  OBVIOUS
<1>1. Init => AsAllowlist!Init
  <2> SUFFICES ASSUME Init PROVE AsAllowlist!Init
    OBVIOUS
  <2>1. Durable = file
    <3>1. \A w \in on : pc[w] # "write"
      BY DeploymentsAssumption DEF Init
    <3> QED
      BY <3>1 DEF Durable
  <2>2. Reported = {} /\ file \subseteq Values
    BY DeploymentsAssumption DEF Init, Reported
  <2> QED
    BY <2>1, <2>2 DEF Init, AsAllowlist!Init
<1>2. IInv /\ [Next]_vars
        => [AsAllowlist!Add \/ AsAllowlist!Report \/ AsAllowlist!Tear]_<<Durable, ~garbled, Reported>>
  <2> SUFFICES ASSUME IInv, [Next]_vars
               PROVE  [AsAllowlist!Add \/ AsAllowlist!Report \/ AsAllowlist!Tear]_<<Durable, ~garbled, Reported>>
    OBVIOUS
  <2> QED
    BY Steps DEF AddStep, ReportStep, TearStep, AsAllowlist!Add, AsAllowlist!Report, AsAllowlist!Tear
<1> QED
  BY <1>1, <1>2, Invariance, PTL DEF Spec, IsAllowlist, AsAllowlist!Spec, AsAllowlist!vars
=============================================================================
