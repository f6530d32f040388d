----------------------------- MODULE LogPipeline ----------------------------
(***************************************************************************)
(* The way of an event from a filter's logger to the dashboard and on to   *)
(* the pages that follow its log (logging/logging.go, and handlers.go,     *)
(* payload.go, store.go and broadcaster.go of dashboard).                  *)
(*                                                                         *)
(*   filter     loggers put events into a bounded queue; after a delay,    *)
(*              workers take them out and post them, again and again until *)
(*              there is an answer or time is up; Stop ends it             *)
(*   dashboard  a handler per request stores the event and then sends it   *)
(*              to the streams; clearing is two steps as well              *)
(*   streams    each has a channel that its handler empties into the page  *)
(*                                                                         *)
(* Each handler is named for the worker that made the request.  It takes   *)
(* far less than the wait before the next attempt, which finds it gone.    *)
(***************************************************************************)
EXTENDS LogStore, FiniteSets

CONSTANTS
  Workers, QueueSize,
  Streams, ChanSize,
  Settings, \* what may happen: the events logged, the streams opened, whether the
            \* filter has trouble (posts that fail or take long, a stop), and bounds on
            \* the answers lost of an event and on the clears
  NoJob     \* what a worker without an event has

ASSUME NoJobAssumption == NoJob \notin Events
ASSUME LimitsAssumption == QueueSize \in Nat \ {0} /\ ChanSize \in Nat \ {0}
ASSUME BoundsAssumption ==
  \A s \in Settings : s.events \subseteq Events /\ s.streams \subseteq Streams
                        /\ s.lost \in Nat /\ s.clears \in Nat

VARIABLES
  setting,
  silent,  \* events that have not been logged yet
  q, stop, \* the queue, and whether Stop has been called
  up,      \* the filter: "delay", "shipping" or, when the process has ended, "exited"
  wpc, job, late, \* a worker; late: its retryTimeout is over
  rpc, entry,     \* a handler of a post, and what it has stored
  clearing, clears, \* clears whose notice is still to be sent, and all so far
  open, chan, \* streams
  \* What the properties speak of:
  copies,  \* how often an event has been stored
  lost,    \* how many answers to posts of it did not arrive
  given,   \* events that were given up
  told,    \* what each stream has told its page since it was opened or cleared
  since,   \* the first id stored since then
  missed,  \* entries a stream missed because its channel was full
  early    \* entries stored since the last clear and before the last notice of one

filterVars == <<silent, q, stop, up, wpc, job, late, given>>
handlerVars == <<rpc, entry, copies, lost>>
streamVars == <<open, chan, told, since, missed>>
clearVars == <<clearing, clears, early>>
vars == <<setting, storeVars, filterVars, handlerVars, streamVars, clearVars>>

NoEntry == [id |-> 0, event |-> NoJob]
Cleared == [id |-> 0, event |-> "cleared"]

Messages == [id : Nat, event : Events \cup {"cleared"}]

TypeOK ==
  /\ StoreTypeOK
  /\ setting \in Settings /\ silent \subseteq Events
  /\ q \in Seq(Events) /\ Len(q) <= QueueSize
  /\ stop \in BOOLEAN /\ up \in {"delay", "shipping", "exited"}
  /\ wpc \in [Workers -> {"off", "select", "post", "await", "retry", "gone"}]
  /\ up = "delay" => \A w \in Workers : wpc[w] = "off"
  /\ job \in [Workers -> Events \cup {NoJob}]
  /\ \A w \in Workers : job[w] \in Events <=> wpc[w] \in {"post", "await", "retry"}
  /\ late \in [Workers -> BOOLEAN]
  /\ rpc \in [Workers -> {"none", "insert", "send", "reply"}]
  /\ entry \in [Workers -> [id : Nat, event : Events \cup {NoJob}]]
  /\ \A w \in Workers : rpc[w] # "none" => entry[w].event \in Events
  /\ clears \in 0..setting.clears /\ clearing \in 0..clears
  /\ open \subseteq Streams /\ chan \in [Streams -> Seq(Messages)]
  /\ \A s \in Streams : Len(chan[s]) <= ChanSize /\ (s \notin open => chan[s] = <<>>)

Init ==
  /\ StoreInit
  /\ setting \in Settings
  /\ silent = setting.events /\ q = <<>> /\ stop = FALSE /\ up = "delay"
  /\ wpc = [w \in Workers |-> "off"] /\ job = [w \in Workers |-> NoJob]
  /\ late = [w \in Workers |-> FALSE]
  /\ rpc = [w \in Workers |-> "none"] /\ entry = [w \in Workers |-> NoEntry]
  /\ clearing = 0 /\ clears = 0
  /\ open = {} /\ chan = [s \in Streams |-> <<>>]
  /\ copies = [e \in Events |-> 0] /\ lost = [e \in Events |-> 0] /\ given = {}
  /\ told = [s \in Streams |-> {}] /\ since = [s \in Streams |-> 1]
  /\ missed = [s \in Streams |-> {}] /\ early = {}

-----------------------------------------------------------------------------
(* The filter.                                                             *)

\* shipToDashboard, of an event worth shipping: it never waits.
Log(e) ==
  /\ e \in silent /\ up # "exited"
  /\ silent' = silent \ {e}
  /\ IF Len(q) < QueueSize
     THEN q' = Append(q, e) /\ UNCHANGED given
     ELSE given' = given \cup {e} /\ UNCHANGED q
  /\ UNCHANGED <<setting, storeVars, stop, up, wpc, job, late, handlerVars, streamVars, clearVars>>

\* startWorker, after the delay; a stop during it may be noticed too late.
Start ==
  /\ up = "delay"
  /\ up' = "shipping" /\ wpc' = [w \in Workers |-> "select"]
  /\ UNCHANGED <<setting, storeVars, silent, q, stop, job, late, given, handlerVars, streamVars, clearVars>>

\* worker: one of the two cases that are ready.
Take(w) ==
  /\ wpc[w] = "select" /\ q # <<>>
  /\ job' = [job EXCEPT ![w] = Head(q)] /\ q' = Tail(q)
  /\ wpc' = [wpc EXCEPT ![w] = "post"] /\ late' = [late EXCEPT ![w] = FALSE]
  /\ UNCHANGED <<setting, storeVars, silent, stop, up, given, handlerVars, streamVars, clearVars>>

Leave(w) ==
  /\ wpc[w] = "select" /\ stop
  /\ wpc' = [wpc EXCEPT ![w] = "gone"]
  /\ UNCHANGED <<setting, storeVars, silent, q, stop, up, job, late, given, handlerVars, streamVars, clearVars>>

\* attemptPost: the request gets to ingestHandler.
Post(w) ==
  /\ wpc[w] = "post" /\ rpc[w] = "none"
  /\ wpc' = [wpc EXCEPT ![w] = "await"]
  /\ rpc' = [rpc EXCEPT ![w] = "insert"]
  /\ entry' = [entry EXCEPT ![w] = [id |-> 0, event |-> job[w]]]
  /\ UNCHANGED <<setting, storeVars, silent, q, stop, up, job, late, given, copies, lost, streamVars, clearVars>>

\* shouldRetry: no connection, 5xx, or 429 from the dashboard's rate limiter.
PostFails(w) ==
  /\ setting.trouble /\ wpc[w] = "post" /\ rpc[w] = "none"
  /\ wpc' = [wpc EXCEPT ![w] = "retry"]
  /\ UNCHANGED <<setting, storeVars, silent, q, stop, up, job, late, given, handlerVars, streamVars, clearVars>>

\* The worker is through with its event, and goes on.
Through(w) == wpc' = [wpc EXCEPT ![w] = "select"] /\ job' = [job EXCEPT ![w] = NoJob]

GiveUp(w) == Through(w) /\ given' = given \cup {job[w]}

\* handleFinalResponse: another status is final.
PostRefused(w) ==
  /\ setting.trouble /\ wpc[w] = "post" /\ rpc[w] = "none"
  /\ GiveUp(w)
  /\ UNCHANGED <<setting, storeVars, silent, q, stop, up, late, handlerVars, streamVars, clearVars>>

\* Defect: an attempt that fails is taken for the last.
Retry_Never(w) ==
  /\ wpc[w] = "retry"
  /\ Through(w) /\ UNCHANGED given
  /\ UNCHANGED <<setting, storeVars, silent, q, stop, up, late, handlerVars, streamVars, clearVars>>

\* Defect: the time for the retries is never up.
Retry_Forever(w) ==
  /\ wpc[w] = "retry"
  /\ wpc' = [wpc EXCEPT ![w] = "post"] /\ UNCHANGED <<job, given>>
  /\ UNCHANGED <<setting, storeVars, silent, q, stop, up, late, handlerVars, streamVars, clearVars>>

\* handlePostPayload: after the wait, the next attempt unless the time is up.
Retry(w) ==
  /\ wpc[w] = "retry"
  /\ IF late[w] THEN GiveUp(w)
     ELSE wpc' = [wpc EXCEPT ![w] = "post"] /\ UNCHANGED <<job, given>>
  /\ UNCHANGED <<setting, storeVars, silent, q, stop, up, late, handlerVars, streamVars, clearVars>>

\* retryCtx ends.
Late(w) ==
  /\ setting.trouble /\ job[w] # NoJob /\ ~late[w]
  /\ late' = [late EXCEPT ![w] = TRUE]
  /\ UNCHANGED <<setting, storeVars, silent, q, stop, up, wpc, job, given, handlerVars, streamVars, clearVars>>

\* It cancels the request: the handler, if there is one, does not notice.
Cancel(w) ==
  /\ wpc[w] = "await" /\ late[w]
  /\ wpc' = [wpc EXCEPT ![w] = "retry"]
  /\ UNCHANGED <<setting, storeVars, silent, q, stop, up, job, late, given, handlerVars, streamVars, clearVars>>

\* poster.Stop
Stop ==
  /\ setting.trouble /\ ~stop /\ stop' = TRUE
  /\ UNCHANGED <<setting, storeVars, silent, q, up, wpc, job, late, given, handlerVars, streamVars, clearVars>>

\* Shutdown has returned, because the workers are gone or its timeout is over, and
\* the process ends: what is queued, or on its way, ends with it.
Exit ==
  /\ stop /\ up # "exited"
  /\ up' = "exited" /\ q' = <<>>
  /\ wpc' = [w \in Workers |-> "gone"] /\ job' = [w \in Workers |-> NoJob]
  /\ UNCHANGED <<setting, storeVars, silent, stop, late, given, handlerVars, streamVars, clearVars>>

-----------------------------------------------------------------------------
(* The dashboard.                                                          *)

\* processPayloads: first the store.
Insert(w) ==
  /\ rpc[w] = "insert"
  /\ Store(entry[w].event)
  /\ entry' = [entry EXCEPT ![w].id = nextID]
  /\ copies' = [copies EXCEPT ![entry[w].event] = @ + 1]
  /\ early' = IF clearing > 0 THEN early \cup {nextID} ELSE early
  /\ rpc' = [rpc EXCEPT ![w] = "send"]
  /\ UNCHANGED <<setting, filterVars, lost, streamVars, clearing, clears>>

\* Defect: a stream that is full ends the round.
Broadcast_Stops(m) ==
  LET full == {s \in open : Len(chan[s]) >= ChanSize}
  IN chan' = [s \in Streams |-> IF s \in open /\ full = {} THEN Append(chan[s], m) ELSE chan[s]]

\* broadcaster.Send: who has no room misses the message.
Broadcast(m) ==
  chan' = [s \in Streams |-> IF s \in open /\ Len(chan[s]) < ChanSize
                             THEN Append(chan[s], m) ELSE chan[s]]

\* Then the streams.
Send(w) ==
  /\ rpc[w] = "send"
  /\ Broadcast(entry[w])
  /\ missed' = [s \in Streams |-> IF s \in open /\ Len(chan[s]) >= ChanSize
                                  THEN missed[s] \cup {entry[w]} ELSE missed[s]]
  /\ rpc' = [rpc EXCEPT ![w] = "reply"]
  /\ UNCHANGED <<setting, storeVars, filterVars, entry, copies, lost, open, told, since, clearVars>>

\* The answer, if the worker still waits for it.
Reply(w) ==
  /\ rpc[w] = "reply"
  /\ rpc' = [rpc EXCEPT ![w] = "none"] /\ entry' = [entry EXCEPT ![w] = NoEntry]
  /\ IF wpc[w] = "await" /\ job[w] = entry[w].event
     THEN Through(w) /\ UNCHANGED lost
     ELSE lost' = [lost EXCEPT ![entry[w].event] = @ + 1] /\ UNCHANGED <<wpc, job>>
  /\ UNCHANGED <<setting, storeVars, silent, q, stop, up, late, given, copies, streamVars, clearVars>>

\* The connection breaks: to the worker that is a failed attempt.
LoseAnswer(w) ==
  /\ rpc[w] = "reply" /\ lost[entry[w].event] < setting.lost
  /\ rpc' = [rpc EXCEPT ![w] = "none"] /\ entry' = [entry EXCEPT ![w] = NoEntry]
  /\ lost' = [lost EXCEPT ![entry[w].event] = @ + 1]
  /\ wpc' = IF wpc[w] = "await" THEN [wpc EXCEPT ![w] = "retry"] ELSE wpc
  /\ UNCHANGED <<setting, storeVars, silent, q, stop, up, job, late, given, copies, streamVars, clearVars>>

\* clearLogsHandler, of which several may run: the store,
Clear ==
  /\ clears < setting.clears
  /\ ClearStore
  /\ clearing' = clearing + 1 /\ clears' = clears + 1 /\ early' = {}
  /\ since' = [s \in Streams |-> 1] /\ missed' = [s \in Streams |-> {}]
  /\ UNCHANGED <<setting, filterVars, handlerVars, open, chan, told>>

\* and the streams.
SendCleared ==
  /\ clearing > 0 /\ clearing' = clearing - 1
  /\ Broadcast(Cleared)
  /\ UNCHANGED <<setting, storeVars, filterVars, handlerVars, open, told, since, missed, clears, early>>

-----------------------------------------------------------------------------
(* The streams.                                                            *)

\* sseHandler
Open(s) ==
  /\ s \in setting.streams \ open /\ open' = open \cup {s}
  /\ told' = [told EXCEPT ![s] = {}] /\ since' = [since EXCEPT ![s] = nextID]
  /\ missed' = [missed EXCEPT ![s] = {}]
  /\ UNCHANGED <<setting, storeVars, filterVars, handlerVars, chan, clearVars>>

Deliver(s) ==
  /\ chan[s] # <<>>
  /\ chan' = [chan EXCEPT ![s] = Tail(@)]
  /\ told' = [told EXCEPT ![s] = IF Head(chan[s]) = Cleared THEN {} ELSE @ \cup {Head(chan[s])}]
  /\ UNCHANGED <<setting, storeVars, filterVars, handlerVars, open, since, missed, clearVars>>

\* The page is closed, or the request is a minute old (middleware.Timeout).
Close(s) ==
  /\ s \in open /\ open' = open \ {s}
  /\ chan' = [chan EXCEPT ![s] = <<>>] /\ told' = [told EXCEPT ![s] = {}]
  /\ missed' = [missed EXCEPT ![s] = {}] /\ since' = [since EXCEPT ![s] = 1]
  /\ UNCHANGED <<setting, storeVars, filterVars, handlerVars, clearVars>>

Work(w) ==
  \/ Take(w) \/ Leave(w) \/ Post(w) \/ PostFails(w) \/ PostRefused(w) \/ Retry(w) \/ Cancel(w)

Serve(w) == Insert(w) \/ Send(w) \/ Reply(w) \/ LoseAnswer(w)

Next ==
  \/ \E e \in Events : Log(e)
  \/ Start \/ Stop \/ Exit
  \/ \E w \in Workers : Work(w) \/ Late(w) \/ Serve(w)
  \/ Clear \/ SendCleared
  \/ \E s \in Streams : Open(s) \/ Deliver(s) \/ Close(s)

Spec == Init /\ [][Next]_vars

\* The delay passes, unless a stop cuts it short, goroutines are scheduled, and the
\* clock runs.
Fairness ==
  /\ WF_vars(~stop /\ Start)
  /\ \A w \in Workers : WF_vars(Work(w)) /\ WF_vars(Late(w)) /\ WF_vars(Serve(w))

FairSpec == Spec /\ Fairness

-----------------------------------------------------------------------------
(* Properties.                                                             *)

\* An event is stored once, and once more for each answer that did not arrive.
StoredOnce ==
  \A e \in Events :
    copies[e] <= 1 + lost[e]
      + Cardinality({w \in Workers : rpc[w] \in {"send", "reply"} /\ entry[w].event = e /\ job[w] # e})

\* Until the filter exits an event that was logged is in the queue, with a worker,
\* stored, or given up on purpose.
Accounted ==
  up # "exited" =>
    \A e \in setting.events \ silent :
      \/ e \in given \/ copies[e] > 0
      \/ \E i \in 1..Len(q) : q[i] = e
      \/ \E w \in Workers : job[w] = e

\* Nothing disappears on the way, and a retry adds no more than it must.
NothingVanishes == StoredOnce /\ Accounted

\* A page that follows the log is told every entry stored since it began, though
\* posts and clears overlap and other pages are slow: unless its own channel was
\* full, or the notice of a clear is sent after what was stored since.
PagesFollow ==
  \A s \in open, i \in 1..count :
    LET x == Recent[i]
    IN x.id >= since[s] /\ x.id \notin early =>
       \/ x \in told[s] \cup missed[s]
       \/ \E j \in 1..Len(chan[s]) : chan[s][j] = x
       \/ \E w \in Workers : rpc[w] = "send" /\ entry[w] = x

\* What is logged gets to the dashboard or is given up, over lost answers, failed
\* posts and a full queue, as long as the filter is not told to stop.
Shipped == \A e \in Events : e \in setting.events \ silent ~> (copies[e] > 0 \/ e \in given \/ stop)
=============================================================================
