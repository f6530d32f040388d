---------------------------- MODULE MCLogPipeline ----------------------------
(***************************************************************************)
(* A small instance of LogPipeline: more events than the store has cells,  *)
(* than the queue has places and than a stream's channel has room for.     *)
(***************************************************************************)
EXTENDS LogPipeline

CONSTANTS e1, e2, e3, w1, w2, p1, p2

MCEvents == {e1, e2, e3}
MCWorkers == {w1, w2}
MCStreams == {p1, p2}

Setting(events, streams, trouble, n, m) ==
  [events |-> events, streams |-> streams, trouble |-> trouble, lost |-> n, clears |-> m]

\* A filter in trouble, a page that follows a busy log, two pages of which one may
\* be slow, trouble with a page that follows, and clears that overlap.
MCSettings ==
  {Setting({e1, e2}, {}, TRUE, 1, 0),
   Setting({e1, e2, e3}, {p1}, FALSE, 0, 1),
   Setting({e1, e2}, {p1, p2}, FALSE, 0, 0),
   Setting({e1}, {p1}, TRUE, 1, 1),
   Setting({e1, e2}, {p1}, FALSE, 0, 2)}
=============================================================================
