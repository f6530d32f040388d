---------------------------- MODULE PolicyFile -----------------------------
(***************************************************************************)
(* The writers of the policy file inside one g0efilter process.            *)
(*                                                                         *)
(* Two goroutines append to the allowlist, each at its own pace and with   *)
(* no lock between them: the learner (g0efilter/learner.go), which flushes *)
(* what the filters recorded, and the poller of remote unblocks, which     *)
(* adds what the dashboard approved.  appendToAllowlist (policy/policy.go) *)
(* reads the whole file, and writes it back with os.WriteFile, which first *)
(* truncates it; a truncated file parses, as the empty policy.  A write    *)
(* that fails or is killed leaves any prefix of the data: fewer entries,   *)
(* the last of them cut short, or text that is not a policy any more.      *)
(*                                                                         *)
(* Only the allowlist of the file is modelled, as a set: an append that    *)
(* finds its value changes nothing.                                        *)
(***************************************************************************)
EXTENDS Naturals, FiniteSets

CONSTANTS
  Values,      \* domains and addresses; the validation of the append accepts them
  Stumps,      \* what is left of an entry that was cut short, if it parses
  Deployments, \* which sets of the two goroutines may be configured to run
  Lists,       \* the allowlists the file may start with
  MaxSeen,     \* learnerMaxSeen
  Faults,      \* TRUE: reading and writing the file may fail
  MaxCrashes   \* bound on the deaths of the process

Writers == {"learner", "poller"}

ASSUME DeploymentsAssumption ==
  Deployments \subseteq SUBSET Writers /\ Lists \subseteq SUBSET Values
ASSUME BoundsAssumption == MaxSeen \in Nat /\ MaxCrashes \in Nat /\ Faults \in BOOLEAN

VARIABLES
  file,      \* the allowlist the policy file holds
  garbled,   \* the file does not parse
  torn,      \* a write has truncated the file and got no further than a part
  on,        \* the goroutines that run: LEARNING_MODE, ENABLE_REMOTE_UNBLOCK
  phase,     \* "up", or "stopping" once the context is cancelled
  seen,      \* learner: values recorded since it started
  pending,   \* learner: recorded, not yet flushed
  exited,    \* learner: its goroutine has returned
  requests,  \* unblock requests pending at the dashboard
  todo,      \* todo[w]: the batch w is working through
  pc,        \* pc[w]: where appendToAllowlist is
  arg,       \* arg[w]: the value being appended or acknowledged, if any
  base,      \* base[w]: the allowlist the append has read
  reported,  \* reported[w]: values whose append has returned nil
  failed,    \* values whose append has returned an error to the learner
  crashes

learnerVars == <<seen, pending, exited>>
writerVars == <<todo, pc, arg, base, reported, failed>>
fileVars == <<file, garbled, torn>>
vars == <<fileVars, on, phase, learnerVars, requests, writerVars, crashes>>

NoValue == "none"
ASSUME NoValueAssumption == NoValue \notin Values

\* What the file can list.
Listed == Values \cup Stumps

\* The learner's memory is bounded, it flushes only what it has seen, and a
\* writer on its own leaves a file that does not parse only by a write that was
\* cut off.
TypeOK ==
  /\ file \subseteq Listed /\ garbled \in BOOLEAN
  /\ garbled => torn \/ Cardinality(on) > 1
  /\ torn \in BOOLEAN /\ on \in Deployments
  /\ phase \in {"up", "stopping"}
  /\ seen \subseteq Values /\ Cardinality(seen) <= MaxSeen
  /\ pending \subseteq seen
  /\ exited \in BOOLEAN
  /\ requests \subseteq Values
  /\ todo \in [Writers -> SUBSET Values]
  /\ pc \in [Writers -> {"idle", "truncate", "write", "ack"}]
  /\ arg \in [Writers -> Values \cup {NoValue}]
  /\ base \in [Writers -> SUBSET Listed]
  /\ reported \in [Writers -> SUBSET Values] /\ failed \subseteq Values
  /\ crashes \in 0..MaxCrashes

Init ==
  /\ file \in Lists /\ garbled = FALSE /\ torn = FALSE
  /\ on \in Deployments
  /\ phase = "up"
  /\ seen = {} /\ pending = {} /\ exited = FALSE
  /\ requests = {}
  /\ todo = [w \in Writers |-> {}]
  /\ pc = [w \in Writers |-> "idle"]
  /\ arg = [w \in Writers |-> NoValue]
  /\ base = [w \in Writers |-> {}]
  /\ reported = [w \in Writers |-> {}] /\ failed = {}
  /\ crashes = 0

-----------------------------------------------------------------------------
(* Where the values come from.                                             *)

\* Defect: the cap is tested one too late.
Record_OneTooMany(v) ==
  /\ "learner" \in on
  /\ v \notin seen /\ Cardinality(seen) <= MaxSeen
  /\ seen' = seen \cup {v} /\ pending' = pending \cup {v}
  /\ UNCHANGED <<fileVars, on, phase, exited, requests, writerVars, crashes>>

\* record: a filter observes a value the policy does not cover.  A duplicate,
\* or a value past the cap, is dropped and changes nothing.
Record(v) ==
  /\ "learner" \in on
  /\ v \notin seen /\ Cardinality(seen) < MaxSeen
  /\ seen' = seen \cup {v} /\ pending' = pending \cup {v}
  /\ UNCHANGED <<fileVars, on, phase, exited, requests, writerVars, crashes>>

Request(v) ==
  /\ "poller" \in on
  /\ v \notin requests \cup reported["poller"]
  /\ requests' = requests \cup {v}
  /\ UNCHANGED <<fileVars, on, phase, learnerVars, writerVars, crashes>>

\* Defect: the learner leaves when the context ends, without a last flush.
Flush_NotTheLast ==
  /\ "learner" \in on /\ ~exited
  /\ pc["learner"] = "idle" /\ todo["learner"] = {}
  /\ IF phase = "up"
     THEN /\ pending # {}
          /\ todo' = [todo EXCEPT !["learner"] = pending]
          /\ pending' = {}
          /\ UNCHANGED exited
     ELSE exited' = TRUE /\ UNCHANGED <<todo, pending>>
  /\ UNCHANGED <<fileVars, on, phase, seen, requests, pc, arg, base, reported, failed, crashes>>

\* A tick of learner.run takes the pending values; the cancelled context makes
\* it flush once more and return.
Flush ==
  /\ "learner" \in on /\ ~exited
  /\ pc["learner"] = "idle" /\ todo["learner"] = {}
  /\ \/ pending # {} /\ UNCHANGED exited
     \/ phase = "stopping" /\ exited' = TRUE
  /\ todo' = [todo EXCEPT !["learner"] = pending]
  /\ pending' = {}
  /\ UNCHANGED <<fileVars, on, phase, seen, requests, pc, arg, base, reported, failed, crashes>>

\* A tick of pollRemoteUnblocks.
Poll ==
  /\ "poller" \in on /\ phase = "up"
  /\ pc["poller"] = "idle" /\ todo["poller"] = {}
  /\ requests # {}
  /\ todo' = [todo EXCEPT !["poller"] = requests]
  /\ UNCHANGED <<fileVars, on, phase, learnerVars, requests, pc, arg, base, reported, failed, crashes>>

-----------------------------------------------------------------------------
(* appendToAllowlist, once per value of the batch.                         *)

\* loadConfig fails: the error is logged and the batch goes on.
LoadFails(w, v) ==
  /\ pc[w] = "idle" /\ v \in todo[w]
  /\ Faults \/ garbled
  /\ todo' = [todo EXCEPT ![w] = @ \ {v}]
  /\ failed' = IF w = "learner" THEN failed \cup {v} ELSE failed
  /\ UNCHANGED <<fileVars, on, phase, learnerVars, requests, pc, arg, base, reported, crashes>>

\* The append returned nil: the learner logs it, the poller acknowledges next.
Returned(w, v) ==
  /\ reported' = [reported EXCEPT ![w] = @ \cup {v}]
  /\ IF w = "poller"
     THEN pc' = [pc EXCEPT ![w] = "ack"] /\ arg' = [arg EXCEPT ![w] = v]
     ELSE pc' = [pc EXCEPT ![w] = "idle"] /\ arg' = [arg EXCEPT ![w] = NoValue]
  /\ base' = [base EXCEPT ![w] = {}]

\* Defect: the append returns before the file is written.
Load_ReportsEarly(w, v) ==
  /\ pc[w] = "idle" /\ v \in todo[w]
  /\ ~garbled
  /\ todo' = [todo EXCEPT ![w] = @ \ {v}]
  /\ arg' = [arg EXCEPT ![w] = v]
  /\ base' = [base EXCEPT ![w] = file]
  /\ reported' = [reported EXCEPT ![w] = @ \cup {v}]
  /\ pc' = [pc EXCEPT ![w] = IF v \in file THEN "idle" ELSE "truncate"]
  /\ UNCHANGED <<fileVars, on, phase, learnerVars, requests, failed, crashes>>

\* loadConfig, and the check for duplicates.
Load(w, v) ==
  /\ pc[w] = "idle" /\ v \in todo[w]
  /\ ~garbled
  /\ todo' = [todo EXCEPT ![w] = @ \ {v}]
  /\ IF v \in file
     THEN Returned(w, v)
     ELSE /\ pc' = [pc EXCEPT ![w] = "truncate"]
          /\ arg' = [arg EXCEPT ![w] = v]
          /\ base' = [base EXCEPT ![w] = file]
          /\ UNCHANGED reported
  /\ UNCHANGED <<fileVars, on, phase, learnerVars, requests, failed, crashes>>

\* os.WriteFile: O_TRUNC.
Truncate(w) ==
  /\ pc[w] = "truncate"
  /\ file' = {} /\ garbled' = FALSE
  /\ pc' = [pc EXCEPT ![w] = "write"]
  /\ UNCHANGED <<torn, on, phase, learnerVars, requests, todo, arg, base, reported, failed, crashes>>

\* What w writes.
Data(w) == base[w] \cup {arg[w]}

\* Defect: the file is rewritten with the new value alone.
Write_NewValueOnly(w) ==
  /\ pc[w] = "write"
  /\ file' = {arg[w]} /\ UNCHANGED garbled
  /\ Returned(w, arg[w])
  /\ UNCHANGED <<torn, on, phase, learnerVars, requests, todo, failed, crashes>>

\* os.WriteFile: the data, at offset 0.  If another write has filled the file
\* since it was truncated, what is left of that one may trail behind.
Write(w) ==
  /\ pc[w] = "write"
  /\ file' = Data(w)
  /\ garbled' \in IF file \in {{}, Data(w)} THEN {FALSE} ELSE BOOLEAN
  /\ Returned(w, arg[w])
  /\ UNCHANGED <<torn, on, phase, learnerVars, requests, todo, failed, crashes>>

\* os.WriteFile gets no further: the file holds a part of the data, perhaps with
\* an entry cut short, or does not parse (what it lists has then no meaning).
CutOff(writers) ==
  LET data == file \cup UNION {Data(w) : w \in writers} IN
  /\ \/ /\ garbled' = FALSE
        /\ \E stump \in {{}} \cup {{s} : s \in Stumps} : file' \in SUBSET (data \cup stump)
     \/ garbled' = TRUE /\ file' = {}
  /\ torn' = (torn \/ garbled' \/ file' # data)

\* os.WriteFile: the file is truncated and the data cannot be written, or not
\* all of it (the disk is full).
WriteFails(w) ==
  /\ pc[w] = "write" /\ Faults
  /\ CutOff({w})
  /\ pc' = [pc EXCEPT ![w] = "idle"]
  /\ failed' = IF w = "learner" THEN failed \cup {arg[w]} ELSE failed
  /\ arg' = [arg EXCEPT ![w] = NoValue] /\ base' = [base EXCEPT ![w] = {}]
  /\ UNCHANGED <<on, phase, learnerVars, requests, todo, reported, crashes>>

\* acknowledgeUnblock: the request leaves the dashboard, unless the call fails.
Ack ==
  /\ "poller" \in on /\ pc["poller"] = "ack"
  /\ requests' \in {requests, requests \ {arg["poller"]}}
  /\ pc' = [pc EXCEPT !["poller"] = "idle"]
  /\ arg' = [arg EXCEPT !["poller"] = NoValue]
  /\ UNCHANGED <<fileVars, on, phase, learnerVars, todo, base, reported, failed, crashes>>

-----------------------------------------------------------------------------
(* The process.                                                            *)

\* SIGTERM cancels the context; the process lives on for a grace period.
Stop ==
  /\ phase = "up"
  /\ phase' = "stopping"
  /\ UNCHANGED <<fileVars, on, learnerVars, requests, writerVars, crashes>>

\* The process ends, killed or at the end of the grace period, and is started
\* again.  What it held in memory is gone, and what was being written is cut off.
\* (With a file that does not parse it would not start: here it runs and loads
\* nothing.)
Crash ==
  /\ crashes < MaxCrashes
  /\ crashes' = crashes + 1
  /\ phase' = "up"
  /\ seen' = {} /\ pending' = {} /\ exited' = FALSE
  /\ todo' = [w \in Writers |-> {}]
  /\ pc' = [w \in Writers |-> "idle"]
  /\ LET writing == {w \in on : pc[w] = "write"}
     IN IF writing = {} THEN UNCHANGED fileVars ELSE CutOff(writing)
  /\ arg' = [w \in Writers |-> NoValue] /\ base' = [w \in Writers |-> {}]
  /\ UNCHANGED <<on, requests, reported, failed>>

Step(w) == Truncate(w) \/ Write(w) \/ WriteFails(w) \/ \E v \in Values : Load(w, v) \/ LoadFails(w, v)

Next ==
  \/ \E v \in Values : Record(v) \/ Request(v)
  \/ Flush \/ Poll \/ Ack
  \/ \E w \in on : Step(w)
  \/ Stop \/ Crash

Spec == Init /\ [][Next]_vars

\* The two goroutines are scheduled and their tickers fire; an unblock that
\* cannot be read for or written now can be at some later attempt.
Fairness ==
  /\ WF_vars(Flush \/ Step("learner"))
  /\ WF_vars(Poll \/ Step("poller") \/ Ack)
  /\ \A v \in Values :
       SF_vars(Load("poller", v)) /\ SF_vars(arg["poller"] = v /\ Write("poller"))

FairSpec == Spec /\ Fairness

-----------------------------------------------------------------------------
(* Properties.                                                             *)

\* The allowlist as it stands or is about to: a writer that has truncated the
\* file is going to put back what it read.
Durable ==
  IF \E w \in on : pc[w] = "write"
  THEN base[CHOOSE w \in on : pc[w] = "write"]
  ELSE file

Reported == UNION {reported[w] : w \in Writers}

\* With one writer appendToAllowlist is atomic, though it is three steps and
\* truncates: seen from outside, the file is an Allowlist.
AsAllowlist == INSTANCE Allowlist WITH
  list <- Durable, parses <- ~garbled, reported <- Reported

IsAllowlist == AsAllowlist!Spec

\* Whenever no write is under way, every value reported as learned, or
\* acknowledged to the dashboard, is in the file.
ReportedIsInFile ==
  (~garbled /\ ~torn /\ \A w \in on : pc[w] # "write") => Reported \subseteq file

\* What the filters record while the process is up is appended, by the last
\* flush if need be, or its error is logged; a crash alone loses it.
RecordedIsFlushed ==
  \A v \in Values :
    (v \in pending /\ phase = "up" /\ crashes = 0)
      ~> (v \in Durable \cup failed \/ crashes > 0)

\* An approved request is applied, over failed reads and writes, lost
\* acknowledgements and crashes, unless the process is told to stop, or a write
\* that was cut off has left a file that does not parse.
RequestIsApplied ==
  \A v \in Values :
    v \in requests ~> (v \in reported["poller"] \/ phase = "stopping" \/ garbled)

\* Every value gets into the file in the end, by whichever of the two ways.
EveryValueArrives == RecordedIsFlushed /\ RequestIsApplied
=============================================================================
