---------------------------- MODULE UsageWriter ----------------------------
(***************************************************************************)
(* Usage rows on their way to the database, through the buffered writer of *)
(* backend/internal/meter/meter.go (AsyncWriter) and the shutdown sequence *)
(* of backend/internal/app/app.go (Run).                                   *)
(*                                                                         *)
(* Every request that ends calls Record once.  The writer's loop takes     *)
(* rows from a bounded channel into a batch and writes batches.  It runs   *)
(* under the application's context, the same one whose cancellation starts *)
(* the shutdown, while the HTTP server still waits for requests in flight. *)
(***************************************************************************)
EXTENDS UsageRows

CONSTANTS
  QueueSize,   \* capacity of AsyncWriter.ch
  BatchSize    \* AsyncWriter.batchSize

ASSUME UsageWriterAssumption ==
  /\ IsFiniteSet(Recs) /\ Detached \subseteq Recs
  /\ QueueSize \in Nat \ {0} /\ BatchSize \in Nat \ {0}

vars == <<policy, rec, rows, lost, queue, closed, writer, batch, cancelled, phase, cutShort>>

TypeOK ==
  /\ policy \in {"sync", "drop"}
  /\ rec \in [Recs -> {"serving", "checked", "direct", "accepted", "written", "dropped", "failed"}]
  /\ rows \in [Recs -> Nat]
  /\ lost \subseteq Recs
  /\ queue \in Seq(Recs) /\ Len(queue) <= QueueSize
  /\ closed \in BOOLEAN
  /\ writer \in {"running", "draining", "done"}
  /\ batch \in Seq(Recs) /\ Len(batch) < BatchSize
  /\ cancelled \in BOOLEAN
  /\ phase \in {"serving", "shutdown", "closing", "waiting", "dbclosed", "crashed", "exited"}
  /\ cutShort \in BOOLEAN

Init ==
  /\ policy \in {"sync", "drop"}
  /\ rec = [h \in Recs |-> "serving"]
  /\ rows = [h \in Recs |-> 0]
  /\ lost = {}
  /\ queue = <<>> /\ closed = FALSE
  /\ writer = "running" /\ batch = <<>>
  /\ cancelled = FALSE /\ phase = "serving" /\ cutShort = FALSE

Alive == phase \notin {"crashed", "exited"}
app   == <<policy, closed, cancelled, phase, cutShort>>
loop  == <<queue, writer, batch>>
db    == <<rows, lost>>
---------------------------------------------------------------------------
(* AsyncWriter.Record, called by the request of row h *)

CheckClosed(h) ==
  /\ Alive /\ rec[h] = "serving"
  /\ rec' = [rec EXCEPT ![h] = IF closed THEN "direct" ELSE "checked"]
  /\ UNCHANGED <<app, loop, db>>

Enqueue(h) ==
  /\ Alive /\ rec[h] = "checked" /\ ~closed
  /\ Len(queue) < QueueSize
  /\ queue' = Append(queue, h)
  /\ rec' = [rec EXCEPT ![h] = "accepted"]
  /\ UNCHANGED <<app, writer, batch, db>>

QueueFull(h) ==
  /\ Alive /\ rec[h] = "checked" /\ ~closed
  /\ Len(queue) = QueueSize
  /\ rec' = [rec EXCEPT ![h] = IF policy = "drop" THEN "dropped" ELSE "direct"]
  /\ UNCHANGED <<app, loop, db>>

\* The channel was closed after the check: the send panics.
SendOnClosed(h) ==
  /\ Alive /\ rec[h] = "checked" /\ closed
  /\ phase' = "crashed"
  /\ UNCHANGED <<policy, closed, cancelled, cutShort, rec, loop, db>>

\* The synchronous write, which fails once the database is closed.
DirectWrite(h) ==
  /\ Alive /\ rec[h] = "direct"
  /\ \/ /\ phase # "dbclosed"
        /\ rows' = [rows EXCEPT ![h] = @ + 1]
        /\ rec' = [rec EXCEPT ![h] = "written"]
     \/ /\ rows' = rows
        /\ rec' = [rec EXCEPT ![h] = "failed"]
  /\ UNCHANGED <<app, loop, lost>>
---------------------------------------------------------------------------
(* The writer's loop *)

\* A batch is written in one transaction or, when that fails, row by row: some
\* of its rows are stored, the others are given up.
Write(b) ==
  \E ok \in SUBSET InSeq(b) :
    /\ phase = "dbclosed" => ok = {}
    /\ rows' = [h \in Recs |-> IF h \in ok THEN rows[h] + 1 ELSE rows[h]]
    /\ lost' = lost \cup (InSeq(b) \ ok)

\* Faulty variant: the batch is not reset after it is written.
TakeKeeping ==
  /\ Alive /\ writer \in {"running", "draining"} /\ queue # <<>>
  /\ queue' = Tail(queue)
  /\ IF Len(batch) + 1 >= BatchSize
       THEN Write(Append(batch, Head(queue))) /\ batch' = batch
       ELSE batch' = Append(batch, Head(queue)) /\ UNCHANGED db
  /\ UNCHANGED <<app, rec, writer>>

\* A row joins the batch; a full batch is written at once.
Take ==
  /\ Alive /\ writer \in {"running", "draining"} /\ queue # <<>>
  /\ queue' = Tail(queue)
  /\ IF Len(batch) + 1 >= BatchSize
       THEN Write(Append(batch, Head(queue))) /\ batch' = <<>>
       ELSE batch' = Append(batch, Head(queue)) /\ UNCHANGED db
  /\ UNCHANGED <<app, rec, writer>>

TickFlush ==
  /\ Alive /\ writer = "running" /\ batch # <<>>
  /\ Write(batch) /\ batch' = <<>>
  /\ UNCHANGED <<app, rec, queue, writer>>

SeeCancel ==
  /\ Alive /\ writer = "running" /\ cancelled
  /\ writer' = "draining"
  /\ UNCHANGED <<app, rec, queue, batch, db>>

\* Faulty variant: the loop returns without its last flush.
ReturnUnflushed ==
  /\ Alive /\ queue = <<>>
  /\ writer = "draining" \/ (writer = "running" /\ closed)
  /\ writer' = "done"
  /\ UNCHANGED <<app, rec, queue, batch, db>>

\* The loop flushes and returns: the channel is closed and empty or, after
\* cancellation, merely empty.
Return ==
  /\ Alive /\ queue = <<>>
  /\ writer = "draining" \/ (writer = "running" /\ closed)
  /\ Write(batch) /\ batch' = <<>>
  /\ writer' = "done"
  /\ UNCHANGED <<app, rec, queue>>
---------------------------------------------------------------------------
(* App.Run *)

Signal ==
  /\ Alive /\ ~cancelled
  /\ cancelled' = TRUE
  /\ UNCHANGED <<policy, closed, phase, cutShort, rec, loop, db>>

\* A listener fails: Run returns at once, nothing is closed.
ServeFails ==
  /\ phase = "serving"
  /\ phase' = "exited" /\ cutShort' = TRUE
  /\ UNCHANGED <<policy, closed, cancelled, rec, loop, db>>

BeginShutdown ==
  /\ phase = "serving" /\ cancelled
  /\ phase' = "shutdown"
  /\ UNCHANGED <<policy, closed, cancelled, cutShort, rec, loop, db>>

\* Faulty variant: the server is not waited for.
ServerDownAtOnce ==
  /\ phase = "shutdown"
  /\ phase' = "closing"
  /\ UNCHANGED <<policy, closed, cancelled, cutShort, rec, loop, db>>

\* server.Shutdown returns when every handler has; pumps are not handlers.
ServerDown ==
  /\ phase = "shutdown"
  /\ \A h \in Recs \ Detached : rec[h] \notin Recording
  /\ phase' = "closing"
  /\ UNCHANGED <<policy, closed, cancelled, cutShort, rec, loop, db>>

\* It gives up after ten seconds and Run returns its error.
ShutdownTimesOut ==
  /\ phase = "shutdown"
  /\ phase' = "exited" /\ cutShort' = TRUE
  /\ UNCHANGED <<policy, closed, cancelled, rec, loop, db>>

\* meter.Close: closed is set, the channel is closed, the wait begins.
CloseWriter ==
  /\ phase = "closing"
  /\ closed' = TRUE /\ phase' = "waiting"
  /\ UNCHANGED <<policy, cancelled, cutShort, rec, loop, db>>

\* Close returns, because the loop is done or because it took too long; the
\* database is closed.
CloseReturns ==
  /\ phase = "waiting" /\ writer = "done"
  /\ phase' = "dbclosed"
  /\ UNCHANGED <<policy, closed, cancelled, cutShort, rec, loop, db>>

CloseTimesOut ==
  /\ phase = "waiting" /\ writer # "done"
  /\ phase' = "dbclosed" /\ cutShort' = TRUE
  /\ UNCHANGED <<policy, closed, cancelled, rec, loop, db>>

Exit ==
  /\ phase = "dbclosed"
  /\ phase' = "exited"
  /\ UNCHANGED <<policy, closed, cancelled, cutShort, rec, loop, db>>

Next ==
  \/ \E h \in Recs : CheckClosed(h) \/ Enqueue(h) \/ QueueFull(h)
                     \/ SendOnClosed(h) \/ DirectWrite(h)
  \/ Take \/ TickFlush \/ SeeCancel \/ Return
  \/ Signal \/ ServeFails \/ BeginShutdown \/ ServerDown \/ ShutdownTimesOut
  \/ CloseWriter \/ CloseReturns \/ CloseTimesOut \/ Exit

\* The loop's goroutine is scheduled and Go's select picks among ready cases at
\* random, so neither the channel nor the ticker is passed over for ever.
Fairness == WF_vars(Take) /\ WF_vars(TickFlush) /\ WF_vars(SeeCancel) /\ WF_vars(Return)

Spec == Init /\ [][Next]_vars /\ Fairness
============================================================================
