----------------------------- MODULE UsageRows -----------------------------
(***************************************************************************)
(* The state that usage rows pass through on their way to the database and *)
(* what is promised of them there.  How they move is UsageWriter.tla.      *)
(***************************************************************************)
EXTENDS Integers, Sequences, FiniteSets

CONSTANTS
  Recs,        \* usage rows, one per request
  Detached     \* rows written by a stream pump whose handler may have returned

VARIABLES
  policy,      \* AsyncWriter.fullQueuePolicy
  rec,         \* rec[h]: how far the Record call of row h has come
  rows,        \* rows[h]: rows the usage table holds for h
  lost,        \* rows whose writes failed, logged and given up
  queue,       \* AsyncWriter.ch
  closed,      \* AsyncWriter.closed, and ch closed with it
  writer,      \* the loop: running, draining after cancellation, done
  batch,       \* the loop's batch
  cancelled,   \* the application's context is cancelled
  phase,       \* where App.Run is
  cutShort     \* the process ended, or gave up waiting, before its work was done

InSeq(s) == {s[i] : i \in DOMAIN s}
Count(P) == IF P THEN 1 ELSE 0

\* Record has been, or will be, called and has not answered yet.
Recording == {"serving", "checked", "direct"}
---------------------------------------------------------------------------
(* A row the writer accepted is in exactly one place: the channel, the batch, *)
(* the table once, or the log of failures.  Nothing is written twice and      *)
(* nothing vanishes on the way, whatever the batch boundaries and shutdown.   *)
Conservation ==
  \A h \in Recs :
    Count(h \in InSeq(queue)) + Count(h \in InSeq(batch)) + rows[h] + Count(h \in lost)
      = Count(rec[h] \in {"accepted", "written"})

(* By the time the channel is closed every request the server waits for has  *)
(* finished its Record: only a pump that outlives its handler can still send  *)
(* on the closed channel and bring the process down.                          *)
AwaitedNeverPanics == closed => \A h \in Recs \ Detached : rec[h] \notin Recording

(* A row accepted before the shutdown signal reaches the table, or is logged  *)
(* as failed, unless the process was cut short or crashed: the loop drains    *)
(* what was queued when it was told to stop.                                  *)
EventuallyWritten ==
  \A h \in Recs :
    (rec[h] = "accepted" /\ ~cancelled) ~>
       (rows[h] = 1 \/ h \in lost \/ cutShort \/ phase = "crashed")
============================================================================
