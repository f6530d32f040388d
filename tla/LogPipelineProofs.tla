-------------------------- MODULE LogPipelineProofs --------------------------
(***************************************************************************)
(* The ring of the dashboard is the log it promises to be, for every size, *)
(* and the handlers of LogPipeline use it as it is meant to be used.       *)
(***************************************************************************)
EXTENDS LogPipeline, SequenceTheorems, FiniteSetTheorems, TLAPS

-----------------------------------------------------------------------------
(* The ring.                                                               *)

LEMMA StoreInitType == StoreInit => StoreTypeOK
<1> SUFFICES ASSUME StoreInit PROVE StoreTypeOK
  OBVIOUS
<1>1. PICK e \in Events : e = CHOOSE f \in Events : TRUE
  BY EventsAssumption
<1>2. [id |-> 1, event |-> e] \in Entries
  BY DEF Entries
<1>3. buf \in [Cells -> Entries]
  BY <1>1, <1>2 DEF StoreInit
<1>4. head \in Cells /\ count \in 0..Size /\ nextID \in Nat \ {0}
  BY SizeAssumption DEF StoreInit, Cells
<1>5. QED
  BY <1>3, <1>4 DEF StoreTypeOK

LEMMA StoreStepType ==
  ASSUME StoreTypeOK, NEW e \in Events, Store(e) PROVE StoreTypeOK'
<1> USE SizeAssumption DEF StoreTypeOK, Store, Cells
<1>1. [id |-> nextID, event |-> e] \in Entries
  BY DEF Entries
<1>2. buf' \in [Cells -> Entries]
  BY <1>1
<1>3. head' \in Cells
  <2>1. CASE head + 1 = Size
    BY <2>1
  <2>2. CASE head + 1 # Size
    BY <2>2
  <2>3. QED
    BY <2>1, <2>2
<1>4. count' \in 0..Size
  <2>1. CASE count < Size
    BY <2>1 DEF Count
  <2>2. CASE ~(count < Size)
    BY <2>2 DEF Count
  <2>3. QED
    BY <2>1, <2>2
<1>5. nextID' \in Nat \ {0}
  OBVIOUS
<1>6. QED
  BY <1>2, <1>3, <1>4, <1>5

LEMMA StoreTyped ==
  ASSUME StoreTypeOK, [StoreNext]_storeVars PROVE StoreTypeOK'
<1>1. CASE UNCHANGED storeVars
  BY <1>1 DEF storeVars, StoreTypeOK
<1>2. CASE ClearStore
  BY <1>2, SizeAssumption DEF ClearStore, StoreTypeOK, Cells
<1>3. ASSUME NEW e \in Events, Store(e) PROVE StoreTypeOK'
  BY <1>3, StoreStepType
<1>4. QED
  BY <1>1, <1>2, <1>3 DEF StoreNext

\* The cells of the newest entries are cells of the ring.
LEMMA CellIsACell ==
  ASSUME StoreTypeOK, NEW i \in 1..count PROVE Cell(i) \in Cells
<1> USE SizeAssumption DEF StoreTypeOK, Cells
<1>1. CASE i <= head
  BY <1>1 DEF Cell
<1>2. CASE ~(i <= head)
  BY <1>2 DEF Cell
<1>3. QED
  BY <1>1, <1>2

LEMMA RecentIsSeq ==
  ASSUME StoreTypeOK
  PROVE  Recent \in Seq(Entries) /\ Len(Recent) = count /\ count \in Nat
<1>1. count \in Nat
  BY SizeAssumption DEF StoreTypeOK
<1>2. Recent \in [1..count -> Entries]
  BY CellIsACell DEF Recent, StoreTypeOK
<1>3. QED
  BY <1>1, <1>2, SeqDef, LenProperties

\* When an entry is stored the first cell back from head is its own, and the others
\* are one further away than they were.
LEMMA CellsShift ==
  ASSUME StoreTypeOK, NEW e \in Events, Store(e)
  PROVE  /\ Cell(1)' = head
         /\ \A i \in 2..count' : Cell(i)' = Cell(i - 1) /\ Cell(i)' # head /\ i - 1 \in 1..count
<1> USE SizeAssumption DEF StoreTypeOK, Cells
<1>1. count' \in 1..Size /\ count' <= count + 1
  <2>1. CASE count < Size
    BY <2>1 DEF Store, Count
  <2>2. CASE ~(count < Size)
    BY <2>2 DEF Store, Count
  <2>3. QED
    BY <2>1, <2>2
<1>2. CASE head + 1 = Size
  <2>1. head' = 0
    BY <1>2 DEF Store
  <2>2. Cell(1)' = head
    BY <1>2, <2>1 DEF Cell
  <2>3. ASSUME NEW i \in 2..count'
        PROVE  Cell(i)' = Cell(i - 1) /\ Cell(i)' # head /\ i - 1 \in 1..count
    <3>1. i \in Nat /\ i >= 2 /\ i <= Size /\ i - 1 \in 1..count
      BY <1>1
    <3>2. Cell(i)' = Size - i
      BY <2>1, <3>1 DEF Cell
    <3>3. i - 1 <= head /\ Cell(i - 1) = head - (i - 1)
      BY <1>2, <3>1 DEF Cell
    <3>4. QED
      BY <1>2, <3>1, <3>2, <3>3
  <2>4. QED
    BY <2>2, <2>3
<1>3. CASE head + 1 # Size
  <2>1. head' = head + 1
    BY <1>3 DEF Store
  <2>2. Cell(1)' = head
    BY <2>1 DEF Cell
  <2>3. ASSUME NEW i \in 2..count'
        PROVE  Cell(i)' = Cell(i - 1) /\ Cell(i)' # head /\ i - 1 \in 1..count
    <3>1. i \in Nat /\ i >= 2 /\ i <= Size /\ i - 1 \in 1..count
      BY <1>1
    <3>2. CASE i <= head + 1
      <4>1. Cell(i)' = head + 1 - i
        BY <2>1, <3>1, <3>2 DEF Cell
      <4>2. Cell(i - 1) = head - (i - 1)
        BY <3>1, <3>2 DEF Cell
      <4>3. QED
        BY <3>1, <4>1, <4>2
    <3>3. CASE ~(i <= head + 1)
      <4>1. Cell(i)' = head + 1 + Size - i
        BY <2>1, <3>1, <3>3 DEF Cell
      <4>2. Cell(i - 1) = head + Size - (i - 1)
        BY <3>1, <3>3 DEF Cell
      <4>3. QED
        BY <1>3, <3>1, <3>3, <4>1, <4>2
    <3>4. QED
      BY <3>2, <3>3
  <2>4. QED
    BY <2>2, <2>3
<1>4. QED
  BY <1>2, <1>3

\* A store is an insertion into the log.
LEMMA StoreInserts ==
  ASSUME StoreTypeOK, NEW e \in Events, Store(e)
  PROVE  AsRecentLog!Insert
<1> DEFINE new == [id |-> nextID, event |-> e]
           longer == <<new>> \o Recent
<1>1. /\ Recent \in Seq(Entries) /\ Len(Recent) = count /\ count \in Nat
      /\ new \in Entries /\ Size \in Nat \ {0} /\ count \in 0..Size
      /\ StoreTypeOK'
  BY RecentIsSeq, SizeAssumption, StoreStepType DEF StoreTypeOK, Entries
<1>2. /\ longer \in Seq(Entries) /\ Len(longer) = count + 1
      /\ longer[1] = new /\ \A i \in 2..(count + 1) : longer[i] = Recent[i - 1]
  BY <1>1
<1>3. count' = IF Len(longer) < Size THEN Len(longer) ELSE Size
  <2>1. CASE count < Size
    BY <1>1, <1>2, <2>1 DEF Store, Count
  <2>2. CASE ~(count < Size)
    BY <1>1, <1>2, <2>2 DEF Store, Count
  <2>3. QED
    BY <2>1, <2>2
<1>4. count' \in 1..(count + 1)
  BY <1>1, <1>2, <1>3
<1>5. ASSUME NEW i \in 1..count' PROVE Recent'[i] = longer[i]
  <2>1. Recent'[i] = buf'[Cell(i)']
    BY DEF Recent
  <2>2. head \in Cells
    BY DEF StoreTypeOK
  <2>3. buf' = [buf EXCEPT ![head] = new] /\ buf \in [Cells -> Entries]
    BY DEF Store, StoreTypeOK
  <2>4. CASE i = 1
    BY <1>2, <2>1, <2>2, <2>3, <2>4, CellsShift
  <2>5. CASE i # 1
    <3>1. i \in 2..count' /\ i \in 2..(count + 1)
      BY <1>1, <1>4, <2>5
    <3>2. Cell(i)' = Cell(i - 1) /\ Cell(i)' # head /\ i - 1 \in 1..count
      BY <3>1, CellsShift
    <3>3. Recent'[i] = buf[Cell(i - 1)]
      BY <2>1, <2>3, <3>2, CellIsACell
    <3>4. Recent[i - 1] = buf[Cell(i - 1)]
      BY <3>2 DEF Recent
    <3>5. QED
      BY <1>2, <3>1, <3>3, <3>4
  <2>6. QED
    BY <2>4, <2>5
<1> HIDE DEF longer
<1>6. Recent' = [i \in 1..count' |-> longer[i]]
  BY <1>5 DEF Recent
<1>7. Recent' = AsRecentLog!Newest(longer, Size)
  BY <1>3, <1>6 DEF AsRecentLog!Newest
<1>8. nextID' = nextID + 1
  BY DEF Store
<1>9. QED
  BY <1>7, <1>8 DEF AsRecentLog!Insert, longer

LEMMA ClearClears == ASSUME ClearStore PROVE AsRecentLog!Clear
<1>1. Recent' = [i \in 1..0 |-> buf'[Cell(i)']]
  BY DEF ClearStore, Recent
<1>2. Recent' = <<>>
  BY <1>1
<1>3. QED
  BY <1>2 DEF ClearStore, AsRecentLog!Clear

LEMMA StoreSteps ==
  ASSUME StoreTypeOK, [StoreNext]_storeVars PROVE [AsRecentLog!Next]_<<Recent, nextID>>
<1>1. CASE UNCHANGED storeVars
  BY <1>1 DEF storeVars, Recent, Cell
<1>2. CASE ClearStore
  BY <1>2, ClearClears DEF AsRecentLog!Next
<1>3. ASSUME NEW e \in Events, Store(e) PROVE AsRecentLog!Insert
  BY <1>3, StoreInserts
<1>4. QED
  BY <1>1, <1>2, <1>3 DEF StoreNext, AsRecentLog!Next

LEMMA StoreInits == ASSUME StoreInit PROVE AsRecentLog!Init
<1>1. Recent = [i \in 1..0 |-> buf[Cell(i)]]
  BY DEF StoreInit, Recent
<1>2. Recent = <<>>
  BY <1>1
<1>3. QED
  BY <1>2 DEF StoreInit, AsRecentLog!Init

\* The ring holds what it was given, in the cells it has.
THEOREM StoreTypes == StoreSpec => []StoreTypeOK
BY StoreInitType, StoreTyped, PTL DEF StoreSpec

\* Whatever the size of the ring, and however often it wraps around or is cleared,
\* what is read from it are the newest entries, in order.
THEOREM RingIsRecentLog == StoreSpec => IsRecentLog
<1>1. StoreInit => AsRecentLog!Init
  BY StoreInits
<1>2. StoreTypeOK /\ [StoreNext]_storeVars => [AsRecentLog!Next]_<<Recent, nextID>>
  BY StoreSteps
<1>3. QED
  BY <1>1, <1>2, StoreTypes, PTL DEF StoreSpec, IsRecentLog, AsRecentLog!Spec

-----------------------------------------------------------------------------
(* Types of the pipeline.                                                  *)

LEMMA InitTypes == Init => TypeOK
<1> SUFFICES ASSUME Init PROVE TypeOK
  OBVIOUS
<1>1. StoreTypeOK
  BY StoreInitType DEF Init
<1>2. /\ setting \in Settings /\ silent \subseteq Events /\ clears \in 0..setting.clears
      /\ q \in Seq(Events) /\ Len(q) <= QueueSize
  BY BoundsAssumption, LimitsAssumption DEF Init
<1>3. /\ stop \in BOOLEAN /\ up \in {"delay", "shipping", "exited"}
      /\ wpc \in [Workers -> {"off", "select", "post", "await", "retry", "gone"}]
      /\ up = "delay" => \A w \in Workers : wpc[w] = "off"
      /\ job \in [Workers -> Events \cup {NoJob}]
      /\ \A w \in Workers : job[w] \in Events <=> wpc[w] \in {"post", "await", "retry"}
      /\ late \in [Workers -> BOOLEAN]
  BY NoJobAssumption DEF Init
<1>4. /\ rpc \in [Workers -> {"none", "insert", "send", "reply"}]
      /\ entry \in [Workers -> [id : Nat, event : Events \cup {NoJob}]]
      /\ \A w \in Workers : rpc[w] # "none" => entry[w].event \in Events
  BY DEF Init, NoEntry
<1>5. /\ clearing \in 0..clears
      /\ open \subseteq Streams /\ chan \in [Streams -> Seq(Messages)]
      /\ \A s \in Streams : Len(chan[s]) <= ChanSize /\ (s \notin open => chan[s] = <<>>)
  <2>1. ASSUME NEW s \in Streams PROVE chan[s] = <<>>
    BY DEF Init
  <2>2. Len(<<>>) <= ChanSize /\ <<>> \in Seq(Messages)
    BY LimitsAssumption
  <2>3. chan \in [Streams -> Seq(Messages)]
    BY <2>2 DEF Init
  <2>4. QED
    BY <2>1, <2>2, <2>3 DEF Init
<1>6. QED
  BY <1>1, <1>2, <1>3, <1>4, <1>5 DEF TypeOK

LEMMA FilterTypes ==
  ASSUME TypeOK,
         NEW w \in Workers,
         \/ Leave(w) \/ PostFails(w) \/ PostRefused(w) \/ Retry(w) \/ Cancel(w)
         \/ Late(w)
  PROVE  TypeOK'
<1> USE NoJobAssumption DEF TypeOK, StoreTypeOK, storeVars, filterVars, handlerVars, streamVars, clearVars
<1>1. CASE Leave(w)
  BY <1>1 DEF Leave
<1>2. CASE PostFails(w)
  BY <1>2 DEF PostFails
<1>3. CASE PostRefused(w)
  BY <1>3 DEF PostRefused, GiveUp, Through
<1>4. CASE Retry(w)
  <2>1. CASE late[w]
    <3>1. wpc' = [wpc EXCEPT ![w] = "select"] /\ job' = [job EXCEPT ![w] = NoJob] /\ wpc[w] = "retry"
      BY <1>4, <2>1 DEF Retry, GiveUp, Through
    <3>2. UNCHANGED <<setting, storeVars, silent, q, stop, up, late, handlerVars, streamVars, clearVars>>
      BY <1>4 DEF Retry
    <3>3. QED
      BY <3>1, <3>2
  <2>2. CASE ~late[w]
    BY <1>4, <2>2 DEF Retry
  <2>3. QED
    BY <2>1, <2>2
<1>5. CASE Cancel(w)
  BY <1>5 DEF Cancel
<1>6. CASE Late(w)
  BY <1>6 DEF Late
<1>7. QED
  BY <1>1, <1>2, <1>3, <1>4, <1>5, <1>6

LEMMA LogTypes ==
  ASSUME TypeOK, NEW e \in Events, Log(e) PROVE TypeOK'
<1>1. /\ q' \in Seq(Events) /\ Len(q') <= QueueSize /\ silent' \subseteq Events
  <2>1. CASE Len(q) < QueueSize
    <3>1. q' = Append(q, e)
      BY <2>1 DEF Log
    <3>2. QED
      BY <2>1, <3>1, LimitsAssumption DEF TypeOK, Log
  <2>2. CASE ~(Len(q) < QueueSize)
    BY <2>2 DEF TypeOK, Log
  <2>3. QED
    BY <2>1, <2>2
<1>2. QED
  BY <1>1 DEF TypeOK, StoreTypeOK, storeVars, handlerVars, streamVars, clearVars, Log

LEMMA TakeTypes ==
  ASSUME TypeOK, NEW w \in Workers, Take(w) PROVE TypeOK'
<1>1. Head(q) \in Events /\ q' \in Seq(Events) /\ Len(q') <= QueueSize
  BY LimitsAssumption DEF TypeOK, Take
<1>2. QED
  BY <1>1, NoJobAssumption
     DEF TypeOK, StoreTypeOK, storeVars, handlerVars, streamVars, clearVars, Take

LEMMA PostTypes ==
  ASSUME TypeOK, NEW w \in Workers, Post(w) PROVE TypeOK'
<1>1. job[w] \in Events
  BY DEF TypeOK, Post
<1>2. [entry EXCEPT ![w] = [id |-> 0, event |-> job[w]]]
        \in [Workers -> [id : Nat, event : Events \cup {NoJob}]]
  BY <1>1 DEF TypeOK
<1>3. \A v \in Workers : rpc'[v] # "none" => entry'[v].event \in Events
  BY <1>1 DEF TypeOK, Post
<1>4. QED
  BY <1>1, <1>2, <1>3, NoJobAssumption
     DEF TypeOK, StoreTypeOK, storeVars, streamVars, clearVars, Post

LEMMA ExitTypes ==
  ASSUME TypeOK, Exit PROVE TypeOK'
<1>1. q' \in Seq(Events) /\ Len(q') <= QueueSize
  BY LimitsAssumption DEF Exit
<1>2. QED
  BY <1>1, NoJobAssumption
     DEF TypeOK, StoreTypeOK, storeVars, handlerVars, streamVars, clearVars, Exit

LEMMA InsertTypes ==
  ASSUME TypeOK, NEW w \in Workers, Insert(w) PROVE TypeOK'
<1>1. entry[w].event \in Events
  BY DEF TypeOK, Insert
<1>2. StoreTypeOK' /\ nextID \in Nat
  BY <1>1, StoreStepType DEF TypeOK, StoreTypeOK, Insert
<1>3. entry' \in [Workers -> [id : Nat, event : Events \cup {NoJob}]]
  <2>1. [entry[w] EXCEPT !.id = nextID] \in [id : Nat, event : Events \cup {NoJob}]
    <3>1. entry[w] \in [id : Nat, event : Events \cup {NoJob}]
      BY DEF TypeOK
    <3>2. QED
      BY <1>2, <3>1
  <2>2. entry' = [entry EXCEPT ![w] = [entry[w] EXCEPT !.id = nextID]]
    BY DEF Insert
  <2>3. QED
    BY <2>1, <2>2 DEF TypeOK
<1>4. \A v \in Workers : rpc'[v] # "none" => entry'[v].event \in Events
  BY <1>1 DEF TypeOK, Insert
<1>5. rpc' \in [Workers -> {"none", "insert", "send", "reply"}]
  BY DEF TypeOK, Insert
<1>6. QED
  BY <1>2, <1>3, <1>4, <1>5 DEF TypeOK, filterVars, streamVars, Insert

\* A broadcast leaves the channels within their bound.
LEMMA BroadcastTypes ==
  ASSUME TypeOK, NEW m \in Messages, Broadcast(m)
  PROVE  /\ chan' \in [Streams -> Seq(Messages)]
         /\ \A s \in Streams : Len(chan'[s]) <= ChanSize /\ (s \notin open => chan'[s] = <<>>)
         /\ \A s \in Streams : chan'[s] = IF s \in open /\ Len(chan[s]) < ChanSize
                                      THEN Append(chan[s], m) ELSE chan[s]
<1>1. ASSUME NEW s \in Streams
      PROVE  /\ chan'[s] = IF s \in open /\ Len(chan[s]) < ChanSize
                           THEN Append(chan[s], m) ELSE chan[s]
             /\ chan'[s] \in Seq(Messages) /\ Len(chan'[s]) <= ChanSize
             /\ s \notin open => chan'[s] = <<>>
  <2>1. chan[s] \in Seq(Messages) /\ Len(chan[s]) <= ChanSize /\ (s \notin open => chan[s] = <<>>)
    BY DEF TypeOK
  <2>2. chan'[s] = IF s \in open /\ Len(chan[s]) < ChanSize
                   THEN Append(chan[s], m) ELSE chan[s]
    BY DEF Broadcast
  <2>3. CASE s \in open /\ Len(chan[s]) < ChanSize
    BY <2>1, <2>2, <2>3, LimitsAssumption
  <2>4. CASE ~(s \in open /\ Len(chan[s]) < ChanSize)
    BY <2>1, <2>2, <2>4
  <2>5. QED
    BY <2>2, <2>3, <2>4
<1>2. chan' \in [Streams -> Seq(Messages)]
  BY <1>1 DEF Broadcast
<1>3. QED
  BY <1>1, <1>2

LEMMA ClearedIsMessage == Cleared \in Messages
BY DEF Cleared, Messages

LEMMA SentIsMessage ==
  ASSUME TypeOK, NEW w \in Workers, rpc[w] = "send" PROVE entry[w] \in Messages
BY DEF TypeOK, Messages

LEMMA SendTypes ==
  ASSUME TypeOK, NEW w \in Workers, Send(w) PROVE TypeOK'
<1>1. entry[w] \in Messages /\ Broadcast(entry[w])
  BY SentIsMessage DEF Send
<1>2. /\ chan' \in [Streams -> Seq(Messages)]
      /\ \A s \in Streams : Len(chan'[s]) <= ChanSize /\ (s \notin open => chan'[s] = <<>>)
  BY <1>1, BroadcastTypes
<1>3. rpc' \in [Workers -> {"none", "insert", "send", "reply"}]
      /\ \A v \in Workers : rpc'[v] # "none" => entry'[v].event \in Events
  BY DEF TypeOK, Send
<1>4. QED
  BY <1>2, <1>3 DEF TypeOK, StoreTypeOK, storeVars, filterVars, clearVars, Send

LEMMA ReplyTypes ==
  ASSUME TypeOK, NEW w \in Workers, Reply(w) \/ LoseAnswer(w) PROVE TypeOK'
<1> USE NoJobAssumption
    DEF TypeOK, StoreTypeOK, NoEntry, storeVars, filterVars, streamVars, clearVars
<1>1. CASE Reply(w)
  <2>1. CASE wpc[w] = "await" /\ job[w] = entry[w].event
    BY <1>1, <2>1 DEF Reply, Through
  <2>2. CASE ~(wpc[w] = "await" /\ job[w] = entry[w].event)
    BY <1>1, <2>2 DEF Reply
  <2>3. QED
    BY <2>1, <2>2
<1>2. CASE LoseAnswer(w)
  <2>1. CASE wpc[w] = "await"
    BY <1>2, <2>1 DEF LoseAnswer
  <2>2. CASE wpc[w] # "await"
    BY <1>2, <2>2 DEF LoseAnswer
  <2>3. QED
    BY <2>1, <2>2
<1>3. QED
  BY <1>1, <1>2

LEMMA ClearTypes ==
  ASSUME TypeOK, Clear \/ SendCleared PROVE TypeOK'
<1>1. CASE Clear
  <2>1. StoreTypeOK'
    BY <1>1, StoreTyped DEF TypeOK, Clear, StoreNext
  <2>2. clears' \in 0..setting.clears /\ setting \in Settings
    BY <1>1, BoundsAssumption DEF TypeOK, Clear
  <2>3. QED
    BY <1>1, <2>1, <2>2 DEF TypeOK, filterVars, handlerVars, Clear
<1>2. CASE SendCleared
  <2>1. /\ chan' \in [Streams -> Seq(Messages)]
        /\ \A s \in Streams : Len(chan'[s]) <= ChanSize /\ (s \notin open => chan'[s] = <<>>)
    BY <1>2, ClearedIsMessage, BroadcastTypes DEF SendCleared
  <2>2. QED
    BY <1>2, <2>1 DEF TypeOK, StoreTypeOK, storeVars, filterVars, handlerVars, SendCleared
<1>3. QED
  BY <1>1, <1>2

LEMMA StreamTypes ==
  ASSUME TypeOK, NEW s \in Streams, Open(s) \/ Deliver(s) \/ Close(s) PROVE TypeOK'
<1>1. /\ chan' \in [Streams -> Seq(Messages)] /\ open' \subseteq Streams
      /\ \A t \in Streams : Len(chan'[t]) <= ChanSize /\ (t \notin open' => chan'[t] = <<>>)
  <2>1. CASE Open(s)
    BY <2>1, BoundsAssumption DEF TypeOK, Open
  <2>2. CASE Deliver(s)
    <3>1. Tail(chan[s]) \in Seq(Messages) /\ Len(Tail(chan[s])) <= ChanSize /\ s \in open
      BY <2>2, LimitsAssumption DEF TypeOK, Deliver
    <3>2. QED
      BY <2>2, <3>1 DEF TypeOK, Deliver
  <2>3. CASE Close(s)
    <3>1. <<>> \in Seq(Messages) /\ Len(<<>>) <= ChanSize
      BY LimitsAssumption
    <3>2. QED
      BY <2>3, <3>1 DEF TypeOK, Close
  <2>4. QED
    BY <2>1, <2>2, <2>3
<1>2. UNCHANGED <<setting, storeVars, filterVars, handlerVars, clearVars>>
  BY DEF Open, Deliver, Close
<1>3. QED
  BY <1>1, <1>2 DEF TypeOK, StoreTypeOK, storeVars, filterVars, handlerVars, clearVars

LEMMA Typed ==
  ASSUME TypeOK, [Next]_vars PROVE TypeOK'
<1>1. CASE UNCHANGED vars
  BY <1>1 DEF vars, TypeOK, StoreTypeOK, storeVars, filterVars, handlerVars, streamVars, clearVars
<1>2. ASSUME NEW w \in Workers, Work(w) \/ Late(w) \/ Serve(w) PROVE TypeOK'
  BY <1>2, FilterTypes, TakeTypes, PostTypes, InsertTypes, SendTypes, ReplyTypes DEF Work, Serve
<1>3. CASE Start
  BY <1>3, NoJobAssumption
     DEF Start, TypeOK, StoreTypeOK, storeVars, handlerVars, streamVars, clearVars
<1>4. CASE Stop
  BY <1>4 DEF Stop, TypeOK, StoreTypeOK, storeVars, handlerVars, streamVars, clearVars
<1>5. QED
  BY <1>1, <1>2, <1>3, <1>4, LogTypes, ExitTypes, ClearTypes, StreamTypes DEF Next

\* Every step leaves the queue, the channels and the handlers as they should be.
THEOREM PipelineTypes == Spec => []TypeOK
BY InitTypes, Typed, PTL DEF Spec

-----------------------------------------------------------------------------
(* Nothing disappears.                                                     *)

\* What has been stored has been counted.
Counted ==
  /\ copies \in [Events -> Nat]
  /\ \A w \in Workers : rpc[w] \in {"send", "reply"} => copies[entry[w].event] > 0

LEMMA InitCounts == Init => Counted /\ Accounted
BY DEF Init, Counted, Accounted

\* A step that leaves the counts alone, and makes no handler one that has stored.
LEMMA CountedStays ==
  ASSUME Counted, UNCHANGED copies,
         \A w \in Workers : rpc'[w] \in {"send", "reply"} =>
            rpc[w] \in {"send", "reply"} /\ entry'[w] = entry[w]
  PROVE  Counted'
BY DEF Counted

LEMMA InsertCounts ==
  ASSUME TypeOK, Counted, NEW w \in Workers, Insert(w)
  PROVE  Counted' /\ \A e \in Events : copies[e] > 0 => copies'[e] > 0
<1> DEFINE e == entry[w].event
<1>1. e \in Events
  BY DEF TypeOK, Insert
<1>2. copies' = [copies EXCEPT ![e] = copies[e] + 1] /\ copies \in [Events -> Nat]
  BY DEF Insert, Counted
<1>3. /\ copies' \in [Events -> Nat] /\ copies'[e] > 0
      /\ \A f \in Events : copies[f] > 0 => copies'[f] > 0
  BY <1>1, <1>2
<1>4. \A v \in Workers : rpc'[v] \in {"send", "reply"} => copies'[entry'[v].event] > 0
  <2> SUFFICES ASSUME NEW v \in Workers, rpc'[v] \in {"send", "reply"}
               PROVE  copies'[entry'[v].event] > 0
    OBVIOUS
  <2>1. CASE v = w
    <3>1. entry'[v] = [entry[w] EXCEPT !.id = nextID]
      BY <2>1 DEF TypeOK, Insert
    <3>2. entry[w] \in [id : Nat, event : Events \cup {NoJob}]
      BY DEF TypeOK
    <3>3. entry'[v].event = e
      BY <3>1, <3>2
    <3>4. QED
      BY <1>3, <3>3
  <2>2. CASE v # w
    <3>1. entry'[v] = entry[v] /\ rpc[v] \in {"send", "reply"} /\ entry[v].event \in Events
      BY <2>2 DEF TypeOK, Insert
    <3>2. QED
      BY <1>3, <3>1 DEF Counted
  <2>3. QED
    BY <2>1, <2>2
<1>5. QED
  BY <1>3, <1>4 DEF Counted

\* Counts never go down.
LEMMA CountedStep ==
  ASSUME TypeOK, Counted, [Next]_vars
  PROVE  Counted' /\ \A e \in Events : copies[e] > 0 => copies'[e] > 0
<1> USE DEF handlerVars
<1>1. CASE UNCHANGED vars
  BY <1>1, CountedStays DEF vars
<1>2. ASSUME NEW w \in Workers, Work(w) \/ Late(w)
      PROVE  Counted' /\ UNCHANGED copies
  <2>1. CASE Post(w)
    BY <2>1, CountedStays DEF Post, TypeOK
  <2>2. CASE ~Post(w)
    <3>1. UNCHANGED handlerVars
      BY <1>2, <2>2 DEF Work, Take, Leave, PostFails, PostRefused, Retry, Cancel, Late
    <3>2. QED
      BY <3>1, CountedStays
  <2>3. QED
    BY <2>1, <2>2
<1>3. ASSUME NEW w \in Workers, Send(w) \/ Reply(w) \/ LoseAnswer(w)
      PROVE  Counted' /\ UNCHANGED copies
  BY <1>3, CountedStays DEF Send, Reply, LoseAnswer, TypeOK
<1>4. CASE \/ \E e \in Events : Log(e)
           \/ Start \/ Stop \/ Exit \/ Clear \/ SendCleared
           \/ \E s \in Streams : Open(s) \/ Deliver(s) \/ Close(s)
  BY <1>4, CountedStays DEF Log, Start, Stop, Exit, Clear, SendCleared, Open, Deliver, Close
<1>5. QED
  BY <1>1, <1>2, <1>3, <1>4, InsertCounts DEF Next, Serve

\* A worker through with its event has stored it or gives it up.
LEMMA AccountedStays ==
  ASSUME TypeOK, Accounted, up' # "exited" => up # "exited",
         UNCHANGED <<setting, silent, q>>, given \subseteq given',
         \A e \in Events : copies[e] > 0 => copies'[e] > 0,
         \A w \in Workers : job[w] \in Events =>
            \/ job'[w] = job[w] \/ job[w] \in given' \/ copies'[job[w]] > 0
  PROVE  Accounted'
<1> SUFFICES ASSUME up' # "exited", NEW e \in setting.events \ silent
             PROVE  \/ e \in given' \/ copies'[e] > 0
                    \/ \E i \in 1..Len(q) : q[i] = e
                    \/ \E w \in Workers : job'[w] = e
  BY DEF Accounted
<1>1. e \in Events
  BY BoundsAssumption DEF TypeOK
<1>2. \/ e \in given \/ copies[e] > 0
      \/ \E i \in 1..Len(q) : q[i] = e
      \/ \E w \in Workers : job[w] = e
  BY DEF Accounted
<1>3. ASSUME NEW w \in Workers, job[w] = e
      PROVE  job'[w] = e \/ e \in given' \/ copies'[e] > 0
  BY <1>1, <1>3
<1>4. QED
  BY <1>1, <1>2, <1>3

LEMMA LogAccounts ==
  ASSUME TypeOK, Accounted, NEW e \in Events, Log(e) PROVE Accounted'
<1> SUFFICES ASSUME NEW f \in setting.events \ silent'
             PROVE  \/ f \in given' \/ copies[f] > 0
                    \/ \E i \in 1..Len(q') : q'[i] = f
                    \/ \E w \in Workers : job[w] = f
  BY DEF Accounted, Log, handlerVars
<1>1. q \in Seq(Events)
  BY DEF TypeOK
<1>2. CASE Len(q) < QueueSize
  <2>1. /\ Len(q') = Len(q) + 1 /\ Len(q) \in Nat /\ q'[Len(q) + 1] = e
        /\ \A i \in 1..Len(q) : q'[i] = q[i]
    BY <1>1, <1>2 DEF Log
  <2>2. CASE f = e
    BY <2>1, <2>2
  <2>3. CASE f # e
    <3>1. f \notin silent /\ given' = given /\ up # "exited"
      BY <1>2, <2>3 DEF Log
    <3>2. QED
      BY <2>1, <3>1 DEF Accounted
  <2>4. QED
    BY <2>2, <2>3
<1>3. CASE ~(Len(q) < QueueSize)
  <2>1. given' = given \cup {e} /\ q' = q /\ silent' = silent \ {e} /\ up # "exited"
    BY <1>3 DEF Log
  <2>2. QED
    BY <2>1 DEF Accounted
<1>4. QED
  BY <1>2, <1>3

LEMMA TakeAccounts ==
  ASSUME TypeOK, Accounted, NEW w \in Workers, Take(w) PROVE Accounted'
<1> SUFFICES ASSUME up # "exited", NEW e \in setting.events \ silent
             PROVE  \/ e \in given \/ copies[e] > 0
                    \/ \E i \in 1..Len(q') : q'[i] = e
                    \/ \E v \in Workers : job'[v] = e
  BY DEF Accounted, Take, handlerVars
<1>1. e \in Events
  BY BoundsAssumption DEF TypeOK
<1>2. /\ q \in Seq(Events) /\ q # <<>> /\ q' = Tail(q)
      /\ job'[w] = q[1] /\ job[w] \notin Events
      /\ \A v \in Workers \ {w} : job'[v] = job[v]
  <2>1. q \in Seq(Events) /\ q # <<>> /\ q' = Tail(q) /\ Head(q) = q[1]
    BY DEF TypeOK, Take
  <2>2. job' = [job EXCEPT ![w] = Head(q)] /\ wpc[w] = "select"
    BY DEF Take
  <2>3. job[w] \notin Events
    BY <2>2 DEF TypeOK
  <2>4. QED
    BY <2>1, <2>2, <2>3 DEF TypeOK
<1>3. ASSUME NEW i \in 1..Len(q), q[i] = e
      PROVE  (\E j \in 1..Len(q') : q'[j] = e) \/ job'[w] = e
  <2>1. CASE i = 1
    BY <1>2, <1>3, <2>1
  <2>2. CASE i # 1
    <3>1. i - 1 \in 1..Len(q') /\ q'[i - 1] = q[i]
      BY <1>2, <2>2
    <3>2. QED
      BY <1>3, <3>1
  <2>3. QED
    BY <2>1, <2>2
<1>4. ASSUME NEW v \in Workers, job[v] = e PROVE job'[v] = e
  BY <1>1, <1>2, <1>4
<1>5. QED
  BY <1>3, <1>4 DEF Accounted

LEMMA AccountedStep ==
  ASSUME TypeOK, Counted, Accounted, [Next]_vars PROVE Accounted'
<1>0. \A e \in Events : copies[e] > 0 => copies'[e] > 0
  BY CountedStep
<1> USE <1>0 DEF filterVars
<1>1. CASE UNCHANGED vars
  BY <1>1, AccountedStays DEF vars
<1>2. ASSUME NEW w \in Workers, Leave(w) \/ Post(w) \/ PostFails(w) \/ Cancel(w) \/ Late(w)
      PROVE  Accounted'
  BY <1>2, AccountedStays DEF Leave, Post, PostFails, Cancel, Late
<1>3. ASSUME NEW w \in Workers, PostRefused(w) \/ Retry(w) PROVE Accounted'
  <2>1. /\ given \subseteq given' /\ UNCHANGED <<up, setting, silent, q>>
        /\ \A v \in Workers : job'[v] = job[v] \/ job[v] \in given'
    BY <1>3 DEF PostRefused, Retry, GiveUp, Through, TypeOK
  <2>2. QED
    BY <2>1, AccountedStays
<1>4. ASSUME NEW w \in Workers, Reply(w) PROVE Accounted'
  <2>1. UNCHANGED <<up, setting, silent, q, given, copies>>
    BY <1>4 DEF Reply
  <2>2. \A v \in Workers : job'[v] = job[v] \/ copies[job[v]] > 0
    BY <1>4 DEF Reply, Through, Counted, TypeOK
  <2>3. QED
    BY <2>1, <2>2, AccountedStays
<1>5. ASSUME NEW w \in Workers, Insert(w) \/ Send(w) \/ LoseAnswer(w) PROVE Accounted'
  BY <1>5, AccountedStays DEF Insert, Send, LoseAnswer
<1>6. CASE Start \/ Stop
  BY <1>6, AccountedStays DEF Start, Stop
<1>7. CASE Exit
  BY <1>7 DEF Exit, Accounted
<1>8. CASE Clear \/ SendCleared \/ \E s \in Streams : Open(s) \/ Deliver(s) \/ Close(s)
  BY <1>8, AccountedStays DEF Clear, SendCleared, Open, Deliver, Close
<1>9. QED
  BY <1>1, <1>2, <1>3, <1>4, <1>5, <1>6, <1>7, <1>8, LogAccounts, TakeAccounts DEF Next, Work, Serve

\* For any number of events, workers and places in the queue: what a filter has
\* logged is on its way, has arrived or was given up, until the filter exits.
THEOREM NothingIsForgotten == Spec => []Accounted
<1>1. Init => Counted /\ Accounted
  BY InitCounts
<1>2. TypeOK /\ Counted /\ Accounted /\ [Next]_vars => Counted' /\ Accounted'
  BY CountedStep, AccountedStep
<1>3. QED
  BY <1>1, <1>2, PipelineTypes, PTL DEF Spec

-----------------------------------------------------------------------------
(* Nothing is stored more often than it must be.                           *)

(***************************************************************************)
(* StoredOnce holds because an event is never in two hands: it is silent,  *)
(* or once in the queue, or with one worker, and only the handler of that  *)
(* worker can report it.  So of the copies of an event each has cost an    *)
(* answer, but for one that a handler is about to answer for and one that  *)
(* was answered for when the worker was through with it.                   *)
(***************************************************************************)
Queued == {q[i] : i \in 1..Len(q)}
Working(e) == e \in silent \/ e \in Queued \/ \E w \in Workers : job[w] = e
Handled(e) == \E w \in Workers : rpc[w] \in {"send", "reply"} /\ entry[w].event = e

OnceQueued == \A i, j \in 1..Len(q) : q[i] = q[j] => i = j

JobsApart ==
  /\ \A e \in silent : e \notin Queued
  /\ \A w \in Workers : job[w] \in Events =>
       /\ job[w] \notin silent /\ job[w] \notin Queued
       /\ \A v \in Workers : job[v] = job[w] => v = w

HandlersApart ==
  \A w \in Workers : rpc[w] # "none" =>
    /\ entry[w].event \notin silent /\ entry[w].event \notin Queued
    /\ \A v \in Workers : job[v] = entry[w].event => v = w
    /\ \A v \in Workers : rpc[v] # "none" /\ entry[v].event = entry[w].event => v = w

CopiesPaid ==
  /\ copies \in [Events -> Nat] /\ lost \in [Events -> Nat]
  /\ \A e \in Events :
       /\ copies[e] <= lost[e] + 2
       /\ ~Handled(e) => copies[e] <= lost[e] + 1
       /\ Working(e) => copies[e] <= lost[e] + 1
       /\ Working(e) /\ ~Handled(e) => copies[e] <= lost[e]

Single == OnceQueued /\ JobsApart /\ HandlersApart /\ CopiesPaid

LEMMA InitSingle == Init => Single
<1> SUFFICES ASSUME Init PROVE Single
  OBVIOUS
<1>1. /\ q = <<>> /\ Queued = {} /\ \A w \in Workers : job[w] \notin Events /\ rpc[w] = "none"
  BY NoJobAssumption DEF Init, Queued
<1>2. /\ copies \in [Events -> Nat] /\ lost \in [Events -> Nat]
      /\ \A e \in Events : copies[e] = 0 /\ lost[e] = 0
  BY DEF Init
<1>3. QED
  BY <1>1, <1>2 DEF Single, OnceQueued, JobsApart, HandlersApart, CopiesPaid

\* One handler at most has stored an event and is to answer for it: it counts if
\* the event is not with its worker any more.
LEMMA SingleIsStoredOnce ==
  ASSUME TypeOK, Single PROVE StoredOnce
<1> SUFFICES ASSUME NEW e \in Events
             PROVE  copies[e] <= 1 + lost[e] + Cardinality(
                      {w \in Workers : rpc[w] \in {"send", "reply"} /\ entry[w].event = e
                                         /\ job[w] # e})
  BY DEF StoredOnce
<1> DEFINE unheard == {w \in Workers : rpc[w] \in {"send", "reply"} /\ entry[w].event = e
                                           /\ job[w] # e}
<1>1. copies[e] \in Nat /\ lost[e] \in Nat
  BY DEF Single, CopiesPaid
<1>2. CASE unheard = {}
  <2>1. Cardinality(unheard) = 0
    BY <1>2, FS_EmptySet
  <2>2. Handled(e) => Working(e)
    BY <1>2 DEF Handled, Working
  <2>3. copies[e] <= lost[e] + 1
    BY <2>2 DEF Single, CopiesPaid
  <2> HIDE DEF unheard
  <2>4. QED
    BY <1>1, <2>1, <2>3 DEF unheard
<1>3. CASE unheard # {}
  <2>1. PICK w \in unheard : TRUE
    BY <1>3
  <2>2. unheard = {w}
    BY <2>1 DEF Single, HandlersApart
  <2>3. Cardinality(unheard) = 1
    BY <2>2, FS_Singleton
  <2>4. copies[e] <= lost[e] + 2
    BY DEF Single, CopiesPaid
  <2> HIDE DEF unheard
  <2>5. QED
    BY <1>1, <2>3, <2>4 DEF unheard
<1>4. QED
  BY <1>2, <1>3

\* What the type invariant says of handlers.
LEMMA ReportsAreEvents ==
  ASSUME TypeOK, NEW w \in Workers, rpc[w] # "none" PROVE entry[w].event \in Events
BY DEF TypeOK

\* A step that takes no event into other hands, and perhaps lets go of some.
LEMMA SingleStays ==
  ASSUME TypeOK, Single, UNCHANGED <<rpc, entry, copies, lost>>,
         silent' \subseteq silent, q' = q \/ q' = <<>>,
         \A w \in Workers : job'[w] = job[w] \/ job'[w] \notin Events
  PROVE  Single'
<1>1. Queued' \subseteq Queued
  BY DEF Queued
<1>2. OnceQueued'
  BY DEF Single, OnceQueued
<1>3. JobsApart'
  BY <1>1 DEF Single, JobsApart
<1>4. HandlersApart'
  <2> SUFFICES ASSUME NEW w \in Workers, rpc[w] # "none"
               PROVE  /\ entry[w].event \notin silent' /\ entry[w].event \notin Queued'
                      /\ \A v \in Workers : job'[v] = entry[w].event => v = w
                      /\ \A v \in Workers : rpc[v] # "none" /\ entry[v].event = entry[w].event
                                              => v = w
    BY DEF HandlersApart
  <2>1. entry[w].event \in Events
    BY ReportsAreEvents
  <2>2. QED
    BY <1>1, <2>1 DEF Single, HandlersApart
<1>5. ASSUME NEW e \in Events PROVE (Working(e)' => Working(e)) /\ (Handled(e)' <=> Handled(e))
  BY <1>1 DEF Working, Handled
<1>6. CopiesPaid'
  BY <1>5 DEF Single, CopiesPaid
<1>7. QED
  BY <1>2, <1>3, <1>4, <1>6 DEF Single

\* Before an event is logged nobody has it; then the queue has.
LEMMA LogSingle ==
  ASSUME TypeOK, Single, NEW e \in Events, Log(e) PROVE Single'
<1> USE DEF handlerVars, Single
<1>1. /\ e \in silent /\ silent' = silent \ {e}
      /\ UNCHANGED <<rpc, entry, copies, lost, job>>
  BY DEF Log
<1>2. CASE UNCHANGED q
  BY <1>1, <1>2, SingleStays
<1>3. CASE q' = Append(q, e)
  <2>1. /\ q \in Seq(Events) /\ Len(q) \in Nat
        /\ Len(q') = Len(q) + 1 /\ q'[Len(q) + 1] = e
        /\ \A i \in 1..Len(q) : q'[i] = q[i]
    BY <1>3 DEF TypeOK
  <2>2. e \notin Queued
    BY <1>1 DEF JobsApart
  <2>3. Queued' = Queued \cup {e}
    <3>1. \A i \in 1..Len(q') : i \in 1..Len(q) \/ i = Len(q) + 1
      BY <2>1
    <3>2. \A i \in 1..Len(q) : i \in 1..Len(q')
      BY <2>1
    <3>3. Len(q) + 1 \in 1..Len(q')
      BY <2>1
    <3>4. QED
      BY <2>1, <3>1, <3>2, <3>3 DEF Queued
  <2>4. OnceQueued'
    <3> SUFFICES ASSUME NEW i \in 1..Len(q'), NEW j \in 1..Len(q'), q'[i] = q'[j] PROVE i = j
      BY DEF OnceQueued
    <3>1. (i \in 1..Len(q) \/ i = Len(q) + 1) /\ (j \in 1..Len(q) \/ j = Len(q) + 1)
      BY <2>1
    <3>2. ASSUME NEW k \in 1..Len(q) PROVE q'[k] # e
      BY <2>1, <2>2, <3>2 DEF Queued
    <3>3. QED
      BY <2>1, <3>1, <3>2 DEF OnceQueued
  <2>5. /\ \A w \in Workers : job[w] # e
        /\ \A w \in Workers : rpc[w] # "none" => entry[w].event # e
    BY <1>1 DEF JobsApart, HandlersApart
  <2>6. JobsApart'
    BY <1>1, <2>2, <2>3, <2>5 DEF JobsApart
  <2>7. HandlersApart'
    BY <1>1, <2>3, <2>5 DEF HandlersApart
  <2>8. ASSUME NEW f \in Events PROVE (Working(f)' => Working(f)) /\ (Handled(f)' <=> Handled(f))
    BY <1>1, <2>3 DEF Working, Handled
  <2>9. CopiesPaid'
    BY <1>1, <2>8 DEF CopiesPaid
  <2>10. QED
    BY <2>4, <2>6, <2>7, <2>9
<1>4. QED
  BY <1>2, <1>3 DEF Log

\* The first of the queue goes to one worker.
LEMMA TakeSingle ==
  ASSUME TypeOK, Single, NEW w \in Workers, Take(w) PROVE Single'
<1> USE DEF handlerVars, Single
<1> DEFINE e == Head(q)
<1>1. /\ q # <<>> /\ q' = Tail(q) /\ job' = [job EXCEPT ![w] = e]
      /\ UNCHANGED <<silent, rpc, entry, copies, lost>>
  BY DEF Take
<1>2. /\ q \in Seq(Events) /\ Len(q) \in Nat \ {0} /\ e = q[1] /\ e \in Events
      /\ Len(q') = Len(q) - 1
      /\ \A i \in 1..Len(q') : q'[i] = q[i + 1] /\ i + 1 \in 1..Len(q)
  BY <1>1 DEF TypeOK
<1>3. e \in Queued
  BY <1>2 DEF Queued
<1>4. Queued' = Queued \ {e}
  <2>1. ASSUME NEW x \in Queued' PROVE x \in Queued /\ x # e
    <3>1. PICK i \in 1..Len(q') : x = q'[i]
      BY <2>1 DEF Queued
    <3>2. x = q[i + 1] /\ i + 1 \in 1..Len(q) /\ i + 1 # 1
      BY <1>2, <3>1
    <3>3. 1 \in 1..Len(q)
      BY <1>2
    <3>4. QED
      BY <1>2, <3>2, <3>3 DEF Queued, OnceQueued
  <2>2. ASSUME NEW x \in Queued, x # e PROVE x \in Queued'
    <3>1. PICK i \in 1..Len(q) : x = q[i]
      BY <2>2 DEF Queued
    <3>2. i # 1
      BY <1>2, <2>2, <3>1
    <3>3. i - 1 \in 1..Len(q') /\ (i - 1) + 1 = i
      BY <1>2, <3>2
    <3>4. QED
      BY <1>2, <3>1, <3>3 DEF Queued
  <2>3. QED
    BY <2>1, <2>2
<1>5. OnceQueued'
  <2> SUFFICES ASSUME NEW i \in 1..Len(q'), NEW j \in 1..Len(q'), q'[i] = q'[j] PROVE i = j
    BY DEF OnceQueued
  <2>1. q[i + 1] = q[j + 1] /\ i + 1 \in 1..Len(q) /\ j + 1 \in 1..Len(q)
    BY <1>2
  <2>2. i + 1 = j + 1
    BY <2>1 DEF OnceQueued
  <2>3. QED
    BY <2>2
<1>6. /\ e \notin silent /\ \A v \in Workers : job[v] # e
      /\ \A v \in Workers : rpc[v] # "none" => entry[v].event # e
  BY <1>2, <1>3 DEF JobsApart, HandlersApart
<1> HIDE DEF e
<1>7. \A v \in Workers : job'[v] = IF v = w THEN e ELSE job[v]
  BY <1>1 DEF TypeOK
<1>8. JobsApart'
  BY <1>1, <1>4, <1>6, <1>7 DEF JobsApart
<1>9. HandlersApart'
  BY <1>1, <1>4, <1>6, <1>7 DEF HandlersApart
<1>10. ASSUME NEW f \in Events PROVE (Working(f)' => Working(f)) /\ (Handled(f)' <=> Handled(f))
  BY <1>1, <1>3, <1>4, <1>7 DEF Working, Handled
<1>11. CopiesPaid'
  BY <1>1, <1>10 DEF CopiesPaid
<1>12. QED
  BY <1>5, <1>8, <1>9, <1>11

\* A new handler reports the event its worker has.
LEMMA PostSingle ==
  ASSUME TypeOK, Single, NEW w \in Workers, Post(w) PROVE Single'
<1> USE DEF Single
<1> DEFINE e == job[w]
<1>1. /\ rpc[w] = "none" /\ UNCHANGED <<silent, q, job, copies, lost>>
      /\ \A v \in Workers : rpc'[v] = IF v = w THEN "insert" ELSE rpc[v]
      /\ \A v \in Workers \ {w} : entry'[v] = entry[v]
      /\ entry'[w].event = e
  BY DEF Post, TypeOK
<1>2. e \in Events
  BY DEF Post, TypeOK
<1>3. Queued' = Queued
  BY <1>1 DEF Queued
<1>4. OnceQueued' /\ JobsApart'
  BY <1>1, <1>3 DEF OnceQueued, JobsApart
<1>5. /\ e \notin silent /\ e \notin Queued /\ \A v \in Workers : job[v] = e => v = w
      /\ \A v \in Workers : rpc[v] # "none" => v # w /\ entry[v].event # e
  BY <1>1, <1>2 DEF JobsApart, HandlersApart
<1> HIDE DEF e
<1>6. HandlersApart'
  BY <1>1, <1>3, <1>5 DEF HandlersApart
<1>7. ASSUME NEW f \in Events PROVE (Working(f)' <=> Working(f)) /\ (Handled(f)' <=> Handled(f))
  BY <1>1, <1>3 DEF Working, Handled
<1>8. CopiesPaid'
  BY <1>1, <1>7 DEF CopiesPaid
<1>9. QED
  BY <1>4, <1>6, <1>8

\* The handlers that have not stored yet: what they report can be handled by no other.
LEMMA OneHandler ==
  ASSUME HandlersApart, NEW w \in Workers, rpc[w] # "none"
  PROVE  Handled(entry[w].event) <=> rpc[w] \in {"send", "reply"}
BY DEF HandlersApart, Handled

LEMMA InsertSingle ==
  ASSUME TypeOK, Single, NEW w \in Workers, Insert(w) PROVE Single'
<1> USE DEF Single
<1>0. PICK e \in Events : e = entry[w].event
  BY ReportsAreEvents DEF Insert
<1>1. /\ rpc[w] = "insert" /\ UNCHANGED <<silent, q, job, lost>>
      /\ \A v \in Workers : rpc'[v] = IF v = w THEN "send" ELSE rpc[v]
      /\ \A v \in Workers : entry'[v].event = entry[v].event
  BY DEF Insert, TypeOK, filterVars
<1>3. /\ copies' \in [Events -> Nat] /\ copies'[e] = copies[e] + 1
      /\ \A f \in Events \ {e} : copies'[f] = copies[f]
  BY <1>0 DEF Insert, CopiesPaid
<1>4. Queued' = Queued
  BY <1>1 DEF Queued
<1>5. OnceQueued' /\ JobsApart'
  BY <1>1, <1>4 DEF OnceQueued, JobsApart
<1>6. HandlersApart'
  BY <1>1, <1>4 DEF HandlersApart
<1>7. ~Handled(e) /\ Handled(e)'
  BY <1>0, <1>1, OneHandler DEF Handled
<1>8. \A f \in Events : Working(f)' <=> Working(f)
  BY <1>1, <1>4 DEF Working
<1>9. \A f \in Events \ {e} : Handled(f)' <=> Handled(f)
  BY <1>0, <1>1 DEF Handled
<1>10. CopiesPaid'
  <2> SUFFICES ASSUME NEW f \in Events
               PROVE  /\ copies'[f] <= lost[f] + 2
                      /\ ~Handled(f)' => copies'[f] <= lost[f] + 1
                      /\ Working(f)' => copies'[f] <= lost[f] + 1
                      /\ Working(f)' /\ ~Handled(f)' => copies'[f] <= lost[f]
    BY <1>1, <1>3 DEF CopiesPaid
  <2>1. /\ copies[f] \in Nat /\ lost[f] \in Nat /\ copies[f] <= lost[f] + 2
        /\ ~Handled(f) => copies[f] <= lost[f] + 1
        /\ Working(f) => copies[f] <= lost[f] + 1
        /\ Working(f) /\ ~Handled(f) => copies[f] <= lost[f]
    BY DEF CopiesPaid
  <2>2. CASE f = e
    BY <1>3, <1>7, <1>8, <2>1, <2>2
  <2>3. CASE f # e
    BY <1>3, <1>8, <1>9, <2>1, <2>3
  <2>4. QED
    BY <2>2, <2>3
<1>11. QED
  BY <1>5, <1>6, <1>10

LEMMA SendSingle ==
  ASSUME TypeOK, Single, NEW w \in Workers, Send(w) PROVE Single'
<1> USE DEF Single
<1>1. /\ rpc[w] = "send" /\ UNCHANGED <<silent, q, job, lost, copies, entry>>
      /\ \A v \in Workers : rpc'[v] = IF v = w THEN "reply" ELSE rpc[v]
  BY DEF Send, TypeOK, filterVars
<1>2. Queued' = Queued
  BY <1>1 DEF Queued
<1>3. OnceQueued' /\ JobsApart' /\ HandlersApart'
  BY <1>1, <1>2 DEF OnceQueued, JobsApart, HandlersApart
<1>4. ASSUME NEW f \in Events PROVE (Working(f)' <=> Working(f)) /\ (Handled(f)' <=> Handled(f))
  BY <1>1, <1>2 DEF Working, Handled
<1>5. CopiesPaid'
  BY <1>1, <1>4 DEF CopiesPaid
<1>6. QED
  BY <1>3, <1>5

\* An answer that arrives ends the work on the event; one that does not is paid for.
LEMMA AnswerSingle ==
  ASSUME TypeOK, Single, NEW w \in Workers, Reply(w) \/ LoseAnswer(w) PROVE Single'
<1> USE DEF Single
<1>0. PICK e \in Events : e = entry[w].event /\ rpc[w] = "reply"
  BY ReportsAreEvents DEF Reply, LoseAnswer
<1> DEFINE arrives == job[w] = e /\ job' = [job EXCEPT ![w] = NoJob] /\ UNCHANGED lost
           fails == UNCHANGED job /\ lost' = [lost EXCEPT ![e] = @ + 1]
<1>1. /\ rpc[w] = "reply" /\ UNCHANGED <<silent, q, copies>>
      /\ \A v \in Workers : rpc'[v] = IF v = w THEN "none" ELSE rpc[v]
      /\ \A v \in Workers \ {w} : entry'[v] = entry[v]
  BY DEF Reply, LoseAnswer, TypeOK
<1>2. arrives \/ fails
  BY <1>0 DEF Reply, LoseAnswer, Through
<1>3. NoJob \notin Events
  BY NoJobAssumption
<1>4. \A v \in Workers : job'[v] = job[v] \/ (v = w /\ job[v] = e /\ job'[v] = NoJob /\ arrives)
  BY <1>2 DEF TypeOK
<1>5. Queued' = Queued
  BY <1>1 DEF Queued
<1>6. OnceQueued' /\ JobsApart'
  BY <1>1, <1>3, <1>4, <1>5 DEF OnceQueued, JobsApart
<1>7. HandlersApart'
  <2> SUFFICES ASSUME NEW u \in Workers, rpc'[u] # "none"
               PROVE  /\ entry'[u].event \notin silent' /\ entry'[u].event \notin Queued'
                      /\ \A v \in Workers : job'[v] = entry'[u].event => v = u
                      /\ \A v \in Workers : rpc'[v] # "none" /\ entry'[v].event = entry'[u].event
                                              => v = u
    BY DEF HandlersApart
  <2>1. u # w /\ rpc[u] # "none" /\ entry'[u] = entry[u] /\ entry[u].event \in Events
    BY <1>1, ReportsAreEvents
  <2>2. \A v \in Workers : job'[v] = entry[u].event => job[v] = entry[u].event
    BY <1>3, <1>4, <2>1
  <2>3. \A v \in Workers : rpc'[v] # "none" => rpc[v] # "none" /\ entry'[v] = entry[v]
    BY <1>1
  <2>4. QED
    BY <1>1, <1>5, <2>1, <2>2, <2>3 DEF HandlersApart
<1>8. Handled(e) /\ ~Handled(e)'
  <2>1. Handled(e)
    BY <1>0, OneHandler
  <2>2. ASSUME NEW v \in Workers, rpc'[v] \in {"send", "reply"} PROVE entry'[v].event # e
    BY <1>0, <1>1, <2>2 DEF HandlersApart
  <2>3. QED
    BY <2>1, <2>2 DEF Handled
<1>9. \A f \in Events \ {e} : Handled(f)' => Handled(f)
  BY <1>1 DEF Handled
<1>10. \A f \in Events \ {e} : Handled(f) => Handled(f)'
  BY <1>0, <1>1 DEF Handled
<1>11. \A f \in Events : Working(f)' => Working(f)
  BY <1>1, <1>3, <1>4, <1>5 DEF Working
<1>12. arrives => Working(e) /\ ~Working(e)'
  <2> SUFFICES ASSUME arrives PROVE Working(e) /\ ~Working(e)'
    OBVIOUS
  <2>1. Working(e)
    BY DEF Working
  <2>2. e \notin silent /\ e \notin Queued /\ \A v \in Workers : job[v] = e => v = w
    BY <1>0 DEF HandlersApart
  <2>3. job'[w] = NoJob
    BY DEF TypeOK
  <2>4. \A v \in Workers : job'[v] # e
    BY <1>3, <1>4, <2>2, <2>3
  <2>5. QED
    BY <1>1, <1>5, <2>1, <2>2, <2>4 DEF Working
<1>13. /\ lost' \in [Events -> Nat]
       /\ \A f \in Events \ {e} : lost'[f] = lost[f]
       /\ lost'[e] = lost[e] + 1 \/ (arrives /\ lost'[e] = lost[e])
  <2>1. lost \in [Events -> Nat]
    BY DEF CopiesPaid
  <2>2. CASE arrives
    BY <2>1, <2>2
  <2>3. CASE fails
    BY <1>3, <2>1, <2>3
  <2>4. QED
    BY <1>2, <2>2, <2>3
<1> HIDE DEF arrives, fails
<1>14. CopiesPaid'
  <2> SUFFICES ASSUME NEW f \in Events
               PROVE  /\ copies[f] <= lost'[f] + 2
                      /\ ~Handled(f)' => copies[f] <= lost'[f] + 1
                      /\ Working(f)' => copies[f] <= lost'[f] + 1
                      /\ Working(f)' /\ ~Handled(f)' => copies[f] <= lost'[f]
    BY <1>1, <1>13 DEF CopiesPaid
  <2>1. /\ copies[f] \in Nat /\ lost[f] \in Nat /\ lost'[f] \in Nat
        /\ copies[f] <= lost[f] + 2
        /\ ~Handled(f) => copies[f] <= lost[f] + 1
        /\ Working(f) => copies[f] <= lost[f] + 1
        /\ Working(f) /\ ~Handled(f) => copies[f] <= lost[f]
    BY <1>13 DEF CopiesPaid
  <2>2. CASE f # e
    BY <1>9, <1>10, <1>11, <1>13, <2>1, <2>2
  <2>3. CASE f = e /\ lost'[e] = lost[e] + 1
    BY <1>8, <1>11, <2>1, <2>3
  <2>4. CASE f = e /\ arrives /\ lost'[e] = lost[e]
    BY <1>8, <1>12, <2>1, <2>4
  <2>5. QED
    BY <1>13, <2>2, <2>3, <2>4
<1>15. QED
  BY <1>6, <1>7, <1>14

LEMMA SingleStep ==
  ASSUME TypeOK, Single, [Next]_vars PROVE Single'
<1> USE DEF handlerVars
<1>1. CASE UNCHANGED vars
  BY <1>1, SingleStays DEF vars, filterVars
<1>2. ASSUME NEW w \in Workers, Leave(w) \/ PostFails(w) \/ Cancel(w) \/ Late(w)
      PROVE  Single'
  BY <1>2, SingleStays DEF Leave, PostFails, Cancel, Late
<1>3. ASSUME NEW w \in Workers, PostRefused(w) \/ Retry(w) PROVE Single'
  <2>1. /\ UNCHANGED <<silent, q, rpc, entry, copies, lost>>
        /\ \A v \in Workers : job'[v] = job[v] \/ job'[v] \notin Events
    BY <1>3, NoJobAssumption DEF PostRefused, Retry, GiveUp, Through, TypeOK
  <2>2. QED
    BY <2>1, SingleStays
<1>4. CASE Start \/ Stop \/ Exit
  <2>1. /\ UNCHANGED <<silent, rpc, entry, copies, lost>> /\ (q' = q \/ q' = <<>>)
        /\ \A v \in Workers : job'[v] = job[v] \/ job'[v] \notin Events
    BY <1>4, NoJobAssumption DEF Start, Stop, Exit
  <2>2. QED
    BY <2>1, SingleStays
<1>5. CASE Clear \/ SendCleared \/ \E s \in Streams : Open(s) \/ Deliver(s) \/ Close(s)
  BY <1>5, SingleStays DEF Clear, SendCleared, Open, Deliver, Close, filterVars
<1>6. QED
  BY <1>1, <1>2, <1>3, <1>4, <1>5, LogSingle, TakeSingle, PostSingle, InsertSingle, SendSingle,
     AnswerSingle DEF Next, Work, Serve

\* For any number of events, workers and handlers that outlive their requests: no
\* event disappears, and each is stored once, and once more only for an answer
\* that did not arrive or has not yet.
THEOREM NothingVanishesHolds == Spec => []NothingVanishes
<1>1. TypeOK /\ Single /\ [Next]_vars => Single'
  BY SingleStep
<1>2. TypeOK /\ Single /\ Accounted => NothingVanishes
  BY SingleIsStoredOnce DEF NothingVanishes
<1>3. QED
  BY <1>1, <1>2, InitSingle, PipelineTypes, NothingIsForgotten, PTL DEF Spec

-----------------------------------------------------------------------------
(* The dashboard uses the ring as it should.                               *)

LEMMA RingStep ==
  ASSUME TypeOK, [Next]_vars PROVE [StoreNext]_storeVars
<1>1. ASSUME NEW w \in Workers, Insert(w) PROVE StoreNext
  <2>1. entry[w].event \in Events
    BY <1>1 DEF TypeOK, Insert
  <2>2. QED
    BY <1>1, <2>1 DEF Insert, StoreNext
<1>2. CASE Clear
  BY <1>2 DEF Clear, StoreNext
<1>3. CASE UNCHANGED vars
  BY <1>3 DEF vars
<1>4. ASSUME NEW w \in Workers,
             Work(w) \/ Late(w) \/ Send(w) \/ Reply(w) \/ LoseAnswer(w)
      PROVE  UNCHANGED storeVars
  BY <1>4 DEF Work, Take, Leave, Post, PostFails, PostRefused, Retry, Cancel, Late,
              Send, Reply, LoseAnswer
<1>5. CASE \/ \E e \in Events : Log(e)
           \/ Start \/ Stop \/ Exit \/ SendCleared
           \/ \E s \in Streams : Open(s) \/ Deliver(s) \/ Close(s)
  BY <1>5 DEF Log, Start, Stop, Exit, SendCleared, Open, Deliver, Close
<1>6. QED
  BY <1>1, <1>2, <1>3, <1>4, <1>5 DEF Next, Serve

THEOREM PipelineUsesRing == Spec => StoreSpec
<1>1. Init => StoreInit
  BY DEF Init
<1>2. TypeOK /\ [Next]_vars => [StoreNext]_storeVars
  BY RingStep
<1>3. QED
  BY <1>1, <1>2, PipelineTypes, PTL DEF Spec, StoreSpec

\* However posts and clears overlap, what is read from the store are the newest
\* entries in order, and none from before a clear.
THEOREM PipelineIsRecentLog == Spec => IsRecentLog
BY PipelineUsesRing, RingIsRecentLog, PTL

-----------------------------------------------------------------------------
(* Pages follow.                                                           *)

(***************************************************************************)
(* An entry a page is owed is on its way, in one of four places.  What the *)
(* page has been told, or is to be told, counts only if no notice of a     *)
(* clear comes behind it: such a notice is sent while everything in the    *)
(* store is early, and so owed to nobody.                                  *)
(***************************************************************************)
Stored == {Recent[i] : i \in 1..count}
Owed(s) == {x \in Stored : x.id >= since[s] /\ x.id \notin early}
Sending == {entry[w] : w \in {v \in Workers : rpc[v] = "send"}}

Known(s, x) == x \in told[s] /\ \A k \in 1..Len(chan[s]) : chan[s][k] # Cleared
Waiting(s, x) ==
  \E j \in 1..Len(chan[s]) : chan[s][j] = x /\ \A k \in j..Len(chan[s]) : chan[s][k] # Cleared

Following ==
  \A s \in open : \A x \in Owed(s) :
    x \in missed[s] \/ Known(s, x) \/ Waiting(s, x) \/ x \in Sending

Numbered == \A x \in Stored : x.id < nextID
Wiped == clearing > 0 => \A x \in Stored : x.id \in early
SentAreEntries == \A w \in Workers : rpc[w] = "send" => entry[w].id # 0
HistoryOK ==
  /\ told \in [Streams -> SUBSET Messages] /\ missed \in [Streams -> SUBSET Messages]
  /\ since \in [Streams -> Nat]

Flow == Following /\ Numbered /\ Wiped /\ SentAreEntries /\ HistoryOK

LEMMA FlowIsPagesFollow == ASSUME TypeOK, Flow PROVE PagesFollow
<1> SUFFICES ASSUME NEW s \in open, NEW i \in 1..count,
                    Recent[i].id >= since[s], Recent[i].id \notin early
             PROVE  \/ Recent[i] \in told[s] \cup missed[s]
                    \/ \E j \in 1..Len(chan[s]) : chan[s][j] = Recent[i]
                    \/ \E w \in Workers : rpc[w] = "send" /\ entry[w] = Recent[i]
  BY DEF PagesFollow
<1>1. Recent[i] \in Owed(s)
  BY DEF Owed, Stored
<1>2. QED
  BY <1>1 DEF Flow, Following, Known, Waiting, Sending

LEMMA InitFlow == Init => Flow
<1> SUFFICES ASSUME Init PROVE Flow
  OBVIOUS
<1>1. Stored = {}
  BY DEF Init, StoreInit, Stored
<1>2. QED
  BY <1>1 DEF Init, Flow, Following, Numbered, Wiped, SentAreEntries, HistoryOK

LEMMA StoredAreEntries ==
  ASSUME TypeOK PROVE Stored \subseteq Entries
BY RecentIsSeq, CellIsACell DEF TypeOK, StoreTypeOK, Stored, Recent

\* A step that concerns neither the store nor the streams.
LEMMA FlowStays ==
  ASSUME Flow, UNCHANGED <<storeVars, streamVars, clearVars>>,
         Sending \subseteq Sending',
         \A w \in Workers : rpc'[w] = "send" => rpc[w] = "send" /\ entry'[w] = entry[w]
  PROVE  Flow'
<1> USE DEF storeVars, streamVars, clearVars
<1>1. Stored' = Stored
  BY DEF Stored, Recent, Cell
<1>2. \A s \in open : Owed(s)' = Owed(s)
  BY <1>1 DEF Owed
<1>3. \A s, x : (Known(s, x) <=> Known(s, x)') /\ (Waiting(s, x) <=> Waiting(s, x)')
  BY DEF Known, Waiting
<1>4. Following'
  BY <1>2, <1>3 DEF Flow, Following
<1>5. QED
  BY <1>1, <1>4 DEF Flow, Numbered, Wiped, SentAreEntries, HistoryOK

LEMMA SendingStays ==
  ASSUME \A w \in Workers : rpc[w] = "send" => rpc'[w] = "send" /\ entry'[w] = entry[w]
  PROVE  Sending \subseteq Sending'
BY DEF Sending

\* The steps of the filter, and the ends of a handler.
LEMMA QuietFlow ==
  ASSUME TypeOK, Flow,
         \/ \E e \in Events : Log(e)
         \/ Start \/ Stop \/ Exit
         \/ \E w \in Workers : Work(w) \/ Late(w) \/ Reply(w) \/ LoseAnswer(w)
         \/ UNCHANGED vars
  PROVE  Flow'
<1> DEFINE Same ==
      /\ UNCHANGED <<storeVars, streamVars, clearVars>>
      /\ \A w \in Workers : rpc'[w] = "send" <=> rpc[w] = "send"
      /\ \A w \in Workers : rpc[w] = "send" => entry'[w] = entry[w]
<1> USE DEF handlerVars
<1>1. ASSUME (\E e \in Events : Log(e)) \/ Start \/ Stop \/ Exit PROVE Same
  BY <1>1 DEF Log, Start, Stop, Exit
<1>2. ASSUME NEW w \in Workers, Work(w) \/ Late(w) PROVE Same
  <2>1. CASE Post(w)
    BY <2>1 DEF TypeOK, Post
  <2>2. CASE ~Post(w)
    BY <1>2, <2>2 DEF Work, Take, Leave, PostFails, PostRefused, Retry, Cancel, Late
  <2>3. QED
    BY <2>1, <2>2
<1>3. ASSUME NEW w \in Workers, Reply(w) \/ LoseAnswer(w) PROVE Same
  BY <1>3 DEF TypeOK, Reply, LoseAnswer
<1>4. ASSUME UNCHANGED vars PROVE Same
  BY <1>4 DEF vars
<1>5. Same
  BY <1>1, <1>2, <1>3, <1>4
<1>6. QED
  BY <1>5, FlowStays, SendingStays

\* What is stored is added to the store, and is being sent.
LEMMA InsertStores ==
  ASSUME TypeOK, NEW w \in Workers, Insert(w)
  PROVE  /\ entry'[w].id = nextID /\ entry'[w] \in Sending'
         /\ Stored' \subseteq Stored \cup {entry'[w]}
         /\ nextID \in Nat \ {0} /\ nextID' = nextID + 1
         /\ Sending \subseteq Sending'
<1> DEFINE e == entry[w].event
           new == [id |-> nextID, event |-> e]
<1>1. e \in Events /\ Store(e) /\ StoreTypeOK
  BY DEF TypeOK, Insert
<1>2. entry'[w] = new
  <2>1. entry[w] \in [id : Nat, event : Events \cup {NoJob}]
    BY DEF TypeOK
  <2>2. entry'[w] = [entry[w] EXCEPT !.id = nextID]
    BY DEF TypeOK, Insert
  <2>3. QED
    BY <2>1, <2>2
<1>3. \A v \in Workers \ {w} : entry'[v] = entry[v] /\ rpc'[v] = rpc[v]
  BY DEF TypeOK, Insert
<1>4. rpc'[w] = "send" /\ rpc[w] # "send"
  BY DEF TypeOK, Insert
<1>5. entry'[w] \in Sending' /\ Sending \subseteq Sending'
  BY <1>3, <1>4 DEF Sending
<1>6. ASSUME NEW i \in 1..count' PROVE Recent'[i] \in Stored \cup {new}
  <2>1. Recent'[i] = buf'[Cell(i)']
    BY DEF Recent
  <2>2. buf' = [buf EXCEPT ![head] = new] /\ buf \in [Cells -> Entries] /\ head \in Cells
    BY <1>1 DEF Store, StoreTypeOK
  <2>3. CASE i = 1
    <3>1. Cell(i)' = head
      BY <1>1, <2>3, CellsShift
    <3>2. QED
      BY <2>1, <2>2, <3>1
  <2>4. CASE i # 1
    <3>0. count' \in Nat
      BY <1>1, StoreStepType, SizeAssumption DEF StoreTypeOK
    <3>1. i \in 2..count'
      BY <2>4, <3>0
    <3>2. Cell(i)' = Cell(i - 1) /\ Cell(i)' # head /\ i - 1 \in 1..count
      BY <1>1, <3>1, CellsShift
    <3>3. Recent'[i] = Recent[i - 1]
      BY <1>1, <2>1, <2>2, <3>2, CellIsACell DEF Recent
    <3>4. QED
      BY <3>2, <3>3 DEF Stored
  <2>5. QED
    BY <2>3, <2>4
<1>7. Stored' \subseteq Stored \cup {new}
  BY <1>6 DEF Stored
<1>8. nextID \in Nat \ {0} /\ nextID' = nextID + 1
  BY <1>1 DEF Store, StoreTypeOK
<1>9. QED
  BY <1>2, <1>5, <1>7, <1>8

LEMMA InsertFlow ==
  ASSUME TypeOK, Flow, NEW w \in Workers, Insert(w) PROVE Flow'
<1>1. /\ entry'[w].id = nextID /\ entry'[w] \in Sending'
      /\ Stored' \subseteq Stored \cup {entry'[w]}
      /\ nextID \in Nat \ {0} /\ nextID' = nextID + 1
      /\ Sending \subseteq Sending'
  BY InsertStores
<1>2. /\ UNCHANGED <<open, chan, told, since, missed, clearing>>
      /\ early \subseteq early' /\ (clearing > 0 => nextID \in early')
  BY DEF Insert, streamVars
<1>3. Following'
  <2> SUFFICES ASSUME NEW s \in open, NEW x \in Owed(s)'
               PROVE  x \in missed[s] \/ Known(s, x)' \/ Waiting(s, x)' \/ x \in Sending'
    BY <1>2 DEF Following
  <2>1. CASE x = entry'[w]
    BY <1>1, <2>1
  <2>2. CASE x # entry'[w]
    <3>1. x \in Owed(s)
      BY <1>1, <1>2, <2>2 DEF Owed
    <3>2. x \in missed[s] \/ Known(s, x) \/ Waiting(s, x) \/ x \in Sending
      BY <3>1 DEF Flow, Following
    <3>3. (Known(s, x) => Known(s, x)') /\ (Waiting(s, x) => Waiting(s, x)')
      BY <1>2 DEF Known, Waiting
    <3>4. QED
      BY <1>1, <3>2, <3>3
  <2>3. QED
    BY <2>1, <2>2
<1>4. Numbered'
  <2> SUFFICES ASSUME NEW x \in Stored' PROVE x.id < nextID + 1
    BY <1>1 DEF Numbered
  <2>1. CASE x = entry'[w]
    BY <1>1, <2>1
  <2>2. CASE x \in Stored
    BY <1>1, <2>2, StoredAreEntries DEF Flow, Numbered, Entries
  <2>3. QED
    BY <1>1, <2>1, <2>2
<1>5. Wiped'
  BY <1>1, <1>2 DEF Flow, Wiped
<1>6. SentAreEntries'
  <2> SUFFICES ASSUME NEW v \in Workers, rpc'[v] = "send" PROVE entry'[v].id # 0
    BY DEF SentAreEntries
  <2>1. CASE v = w
    BY <1>1, <2>1
  <2>2. CASE v # w
    BY <2>2 DEF TypeOK, Insert, Flow, SentAreEntries
  <2>3. QED
    BY <2>1, <2>2
<1>7. HistoryOK'
  BY <1>2 DEF Flow, HistoryOK
<1>8. QED
  BY <1>3, <1>4, <1>5, <1>6, <1>7 DEF Flow

\* A channel that gets an entry has it last.
LEMMA AppendFlow ==
  ASSUME NEW c \in Seq(Messages), NEW m \in Messages, m # Cleared
  PROVE  LET d == Append(c, m)
         IN /\ Len(d) = Len(c) + 1 /\ Len(c) \in Nat
            /\ d[Len(d)] = m
            /\ \A k \in 1..Len(c) : d[k] = c[k]
            /\ \A k \in 1..Len(d) : d[k] = m \/ k \in 1..Len(c)
OBVIOUS

LEMMA SendFlow ==
  ASSUME TypeOK, Flow, NEW w \in Workers, Send(w) PROVE Flow'
<1> DEFINE m == entry[w]
<1>1. m \in Messages /\ m # Cleared /\ rpc[w] = "send"
  BY SentIsMessage DEF Flow, SentAreEntries, Send, Cleared
<1>2. /\ UNCHANGED <<buf, head, count, nextID, open, told, since, clearing, early, entry>>
      /\ rpc'[w] = "reply" /\ \A v \in Workers \ {w} : rpc'[v] = rpc[v]
  BY DEF TypeOK, Send, storeVars, clearVars
<1>3. ASSUME NEW s \in open
      PROVE  /\ chan[s] \in Seq(Messages)
             /\ \/ Len(chan[s]) < ChanSize /\ chan'[s] = Append(chan[s], m) /\ missed'[s] = missed[s]
                \/ chan'[s] = chan[s] /\ missed'[s] = missed[s] \cup {m}
  <2>1. s \in Streams /\ chan[s] \in Seq(Messages)
    BY DEF TypeOK
  <2>2. Len(chan[s]) \in Nat /\ ChanSize \in Nat
    BY <2>1, LimitsAssumption
  <2>3. missed'[s] = IF Len(chan[s]) >= ChanSize THEN missed[s] \cup {m} ELSE missed[s]
    BY <2>1 DEF Send
  <2>4. chan'[s] = IF Len(chan[s]) < ChanSize THEN Append(chan[s], m) ELSE chan[s]
    BY <2>1 DEF Send, Broadcast
  <2>5. CASE Len(chan[s]) < ChanSize
    BY <2>1, <2>2, <2>3, <2>4, <2>5
  <2>6. CASE ~(Len(chan[s]) < ChanSize)
    BY <2>1, <2>2, <2>3, <2>4, <2>6
  <2>7. QED
    BY <2>5, <2>6
<1>4. Stored' = Stored
  BY <1>2 DEF Stored, Recent, Cell
<1>5. \A x \in Sending : x = m \/ x \in Sending'
  BY <1>2 DEF Sending
<1>6. Following'
  <2> SUFFICES ASSUME NEW s \in open, NEW x \in Owed(s)'
               PROVE  x \in missed'[s] \/ Known(s, x)' \/ Waiting(s, x)' \/ x \in Sending'
    BY <1>2 DEF Following
  <2>1. x \in Owed(s)
    BY <1>2, <1>4 DEF Owed
  <2>2. x \in missed[s] \/ Known(s, x) \/ Waiting(s, x) \/ x \in Sending
    BY <2>1 DEF Flow, Following
  <2>3. CASE chan'[s] = chan[s] /\ missed'[s] = missed[s] \cup {m}
    BY <1>2, <1>5, <2>2, <2>3 DEF Known, Waiting
  <2>4. CASE Len(chan[s]) < ChanSize /\ chan'[s] = Append(chan[s], m) /\ missed'[s] = missed[s]
    <3> DEFINE c == chan[s]
               d == chan'[s]
    <3>1. /\ Len(d) = Len(c) + 1 /\ Len(c) \in Nat
          /\ d[Len(d)] = m
          /\ \A k \in 1..Len(c) : d[k] = c[k]
          /\ \A k \in 1..Len(d) : d[k] = m \/ k \in 1..Len(c)
      BY <1>1, <1>3, <2>4, AppendFlow
    <3>2. CASE x = m
      <4>1. Len(d) \in 1..Len(d) /\ \A k \in Len(d)..Len(d) : d[k] # Cleared
        BY <1>1, <3>1
      <4>2. QED
        BY <3>1, <3>2, <4>1 DEF Waiting
    <3>3. CASE Known(s, x)
      <4>1. \A k \in 1..Len(d) : d[k] # Cleared
        BY <1>1, <3>1, <3>3 DEF Known
      <4>2. QED
        BY <1>2, <3>3, <4>1 DEF Known
    <3>4. CASE Waiting(s, x)
      <4>1. PICK j \in 1..Len(c) : c[j] = x /\ \A k \in j..Len(c) : c[k] # Cleared
        BY <3>4 DEF Waiting
      <4>2. j \in 1..Len(d) /\ d[j] = x
        BY <3>1, <4>1
      <4>3. ASSUME NEW k \in j..Len(d) PROVE d[k] # Cleared
        <5>1. k \in 1..Len(d) /\ (k \in 1..Len(c) => k \in j..Len(c))
          BY <3>1
        <5>2. QED
          BY <1>1, <3>1, <4>1, <5>1
      <4>4. QED
        BY <4>2, <4>3 DEF Waiting
    <3>5. QED
      BY <1>5, <2>2, <2>4, <3>2, <3>3, <3>4
  <2>5. QED
    BY <1>3, <2>3, <2>4
<1>7. HistoryOK'
  BY <1>1, <1>2 DEF Flow, HistoryOK, Send
<1>8. Numbered' /\ Wiped' /\ SentAreEntries'
  BY <1>2, <1>4 DEF Flow, Numbered, Wiped, SentAreEntries
<1>9. QED
  BY <1>6, <1>7, <1>8 DEF Flow

LEMMA ClearFlow ==
  ASSUME TypeOK, Flow, Clear PROVE Flow'
<1>1. Stored' = {}
  BY DEF Clear, ClearStore, Stored
<1>2. Following' /\ Numbered' /\ Wiped'
  BY <1>1 DEF Following, Numbered, Wiped, Owed
<1>3. SentAreEntries' /\ HistoryOK'
  BY DEF Flow, SentAreEntries, HistoryOK, Clear, handlerVars
<1>4. QED
  BY <1>2, <1>3 DEF Flow

\* The notice of a clear is sent while everything stored is early.
LEMMA SendClearedFlow ==
  ASSUME TypeOK, Flow, SendCleared PROVE Flow'
<1>1. Stored' = Stored /\ UNCHANGED <<nextID, open, told, since, missed, early, rpc, entry>>
      /\ clearing > 0 /\ clearing' = clearing - 1
  BY DEF SendCleared, storeVars, handlerVars, Stored, Recent, Cell
<1>2. \A s \in open : Owed(s)' = {}
  BY <1>1 DEF Flow, Wiped, Owed
<1>3. QED
  BY <1>1, <1>2 DEF Flow, Following, Numbered, Wiped, SentAreEntries, HistoryOK

LEMMA OpenFlow ==
  ASSUME TypeOK, Flow, NEW s \in Streams, Open(s) PROVE Flow'
<1>1. /\ Stored' = Stored /\ UNCHANGED <<nextID, chan, clearing, early, rpc, entry>>
      /\ open' = open \cup {s} /\ nextID \in Nat
  BY DEF TypeOK, StoreTypeOK, Open, storeVars, handlerVars, clearVars, Stored, Recent, Cell
<1>2. /\ since'[s] = nextID
      /\ \A t \in Streams \ {s} : since'[t] = since[t] /\ told'[t] = told[t] /\ missed'[t] = missed[t]
  BY DEF Flow, HistoryOK, Open
<1>3. Owed(s)' = {}
  <2> SUFFICES ASSUME NEW x \in Stored PROVE ~(x.id >= nextID)
    BY <1>1, <1>2 DEF Owed
  <2>1. x.id \in Nat /\ x.id < nextID
    BY StoredAreEntries DEF Flow, Numbered, Entries
  <2>2. QED
    BY <1>1, <2>1
<1>4. Following'
  <2> SUFFICES ASSUME NEW t \in open', NEW x \in Owed(t)'
               PROVE  x \in missed'[t] \/ Known(t, x)' \/ Waiting(t, x)' \/ x \in Sending'
    BY DEF Following
  <2>1. t # s /\ t \in open /\ t \in Streams
    BY <1>1, <1>3 DEF TypeOK
  <2>2. x \in Owed(t)
    BY <1>1, <1>2, <2>1 DEF Owed
  <2>3. x \in missed[t] \/ Known(t, x) \/ Waiting(t, x) \/ x \in Sending
    BY <2>1, <2>2 DEF Flow, Following
  <2>4. QED
    BY <1>1, <1>2, <2>1, <2>3 DEF Known, Waiting, Sending
<1>5. HistoryOK'
  BY <1>1 DEF Flow, HistoryOK, Open
<1>6. QED
  BY <1>1, <1>4, <1>5 DEF Flow, Numbered, Wiped, SentAreEntries

LEMMA CloseFlow ==
  ASSUME TypeOK, Flow, NEW s \in Streams, Close(s) PROVE Flow'
<1>1. /\ Stored' = Stored /\ UNCHANGED <<nextID, clearing, early, rpc, entry>>
      /\ open' = open \ {s}
  BY DEF Close, storeVars, handlerVars, clearVars, Stored, Recent, Cell
<1>2. \A t \in Streams \ {s} : /\ since'[t] = since[t] /\ told'[t] = told[t]
                              /\ missed'[t] = missed[t] /\ chan'[t] = chan[t]
  BY DEF TypeOK, Flow, HistoryOK, Close
<1>3. Following'
  <2> SUFFICES ASSUME NEW t \in open', NEW x \in Owed(t)'
               PROVE  x \in missed'[t] \/ Known(t, x)' \/ Waiting(t, x)' \/ x \in Sending'
    BY DEF Following
  <2>1. t # s /\ t \in open /\ t \in Streams
    BY <1>1 DEF TypeOK
  <2>2. x \in Owed(t)
    BY <1>1, <1>2, <2>1 DEF Owed
  <2>3. x \in missed[t] \/ Known(t, x) \/ Waiting(t, x) \/ x \in Sending
    BY <2>1, <2>2 DEF Flow, Following
  <2>4. QED
    BY <1>1, <1>2, <2>1, <2>3 DEF Known, Waiting, Sending
<1>4. HistoryOK'
  BY DEF Flow, HistoryOK, Close
<1>5. QED
  BY <1>1, <1>3, <1>4 DEF Flow, Numbered, Wiped, SentAreEntries

LEMMA DeliverFlow ==
  ASSUME TypeOK, Flow, NEW s \in Streams, Deliver(s) PROVE Flow'
<1> DEFINE c == chan[s]
           d == chan'[s]
<1>1. /\ Stored' = Stored /\ UNCHANGED <<nextID, open, since, missed, clearing, early, rpc, entry>>
  BY DEF Deliver, storeVars, handlerVars, clearVars, Stored, Recent, Cell
<1>2. \A t \in Streams \ {s} : told'[t] = told[t] /\ chan'[t] = chan[t]
  BY DEF TypeOK, Flow, HistoryOK, Deliver
<1>3. c \in Seq(Messages) /\ c # <<>> /\ d = Tail(c)
  BY DEF TypeOK, Deliver
<1>4. /\ Len(c) \in Nat /\ Len(d) = Len(c) - 1 /\ Len(c) >= 1 /\ c[1] \in Messages
      /\ \A k \in 1..Len(d) : d[k] = c[k + 1]
  BY <1>3
<1>5. told'[s] = IF c[1] = Cleared THEN {} ELSE told[s] \cup {c[1]}
  <2>1. Head(c) = c[1]
    BY <1>3
  <2>2. QED
    BY <2>1 DEF Flow, HistoryOK, Deliver
<1>6. ASSUME NEW x, Known(s, x) PROVE Known(s, x)'
  <2>1. x \in told'[s]
    BY <1>4, <1>5, <1>6 DEF Known
  <2>2. ASSUME NEW k \in 1..Len(d) PROVE d[k] # Cleared
    <3>1. k + 1 \in 1..Len(c)
      BY <1>4
    <3>2. QED
      BY <1>4, <1>6, <3>1 DEF Known
  <2>3. QED
    BY <2>1, <2>2 DEF Known
<1>7. ASSUME NEW x, Waiting(s, x) PROVE Known(s, x)' \/ Waiting(s, x)'
  <2>1. PICK j \in 1..Len(c) : c[j] = x /\ \A k \in j..Len(c) : c[k] # Cleared
    BY <1>7 DEF Waiting
  <2>2. CASE j = 1
    <3>1. x \in told'[s]
      <4>1. c[1] = x /\ 1 \in j..Len(c)
        BY <1>4, <2>1, <2>2
      <4>2. QED
        BY <1>5, <2>1, <4>1
    <3>2. ASSUME NEW k \in 1..Len(d) PROVE d[k] # Cleared
      <4>1. k + 1 \in j..Len(c)
        BY <1>4, <2>2
      <4>2. QED
        BY <1>4, <2>1, <4>1
    <3>3. QED
      BY <3>1, <3>2 DEF Known
  <2>3. CASE j # 1
    <3>1. j - 1 \in 1..Len(d) /\ d[j - 1] = x
      <4>1. j - 1 \in 1..Len(d) /\ (j - 1) + 1 = j
        BY <1>4, <2>3
      <4>2. QED
        BY <1>4, <2>1, <4>1
    <3>2. ASSUME NEW k \in (j - 1)..Len(d) PROVE d[k] # Cleared
      <4>1. k \in 1..Len(d) /\ k + 1 \in j..Len(c)
        BY <1>4, <2>3
      <4>2. QED
        BY <1>4, <2>1, <4>1
    <3>3. QED
      BY <3>1, <3>2 DEF Waiting
  <2>4. QED
    BY <2>2, <2>3
<1>8. Following'
  <2> SUFFICES ASSUME NEW t \in open, NEW x \in Owed(t)'
               PROVE  x \in missed[t] \/ Known(t, x)' \/ Waiting(t, x)' \/ x \in Sending'
    BY <1>1 DEF Following
  <2>1. x \in Owed(t) /\ t \in Streams
    BY <1>1 DEF Owed, TypeOK
  <2>2. x \in missed[t] \/ Known(t, x) \/ Waiting(t, x) \/ x \in Sending
    BY <2>1 DEF Flow, Following
  <2>3. Sending' = Sending
    BY <1>1 DEF Sending
  <2>4. CASE t = s
    BY <1>6, <1>7, <2>2, <2>3, <2>4
  <2>5. CASE t # s
    BY <1>2, <2>1, <2>2, <2>3, <2>5 DEF Known, Waiting
  <2>6. QED
    BY <2>4, <2>5
<1>9. HistoryOK'
  <2>1. told'[s] \in SUBSET Messages
    BY <1>4, <1>5 DEF Flow, HistoryOK
  <2>2. QED
    BY <1>1, <2>1 DEF Flow, HistoryOK, Deliver
<1>10. QED
  BY <1>1, <1>8, <1>9 DEF Flow, Numbered, Wiped, SentAreEntries

LEMMA FlowStep ==
  ASSUME TypeOK, Flow, [Next]_vars PROVE Flow'
BY QuietFlow, InsertFlow, SendFlow, ClearFlow, SendClearedFlow, OpenFlow, CloseFlow, DeliverFlow
   DEF Next, Serve

\* For any number of pages, posts and clears, and any size of store and channels:
\* a page misses only what its own full channel, or a clear, takes from it.
THEOREM EveryPageFollows == Spec => []PagesFollow
<1>1. Init => Flow
  BY InitFlow
<1>2. TypeOK /\ Flow /\ [Next]_vars => Flow'
  BY FlowStep
<1>3. TypeOK /\ Flow => PagesFollow
  BY FlowIsPagesFollow
<1>4. QED
  BY <1>1, <1>2, <1>3, PipelineTypes, PTL DEF Spec
=============================================================================
