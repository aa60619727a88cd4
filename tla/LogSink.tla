------------------------------ MODULE LogSink -------------------------------
(***************************************************************************)
(* Shipping access-log rows to a database (crates/askr/src/observ_sql.rs): *)
(* requests queue rows for a task of the worker that inserts them in       *)
(* batches.  An insert may fail before or after it took effect: the task   *)
(* sees the same error.                                                    *)
(***************************************************************************)
EXTENDS Naturals, Sequences

CONSTANTS
    QUEUE, BATCH,     \* capacity of the channel, rows of a batch
    MaxRows           \* bound: rows logged

VARIABLES
    queue,      \* the channel
    buf, sink,  \* the task: its batch, and what it does
    logs,       \* the table
    logged,     \* history: rows logged so far
    lossy       \* history: a row was dropped, or a database call failed

vars == <<queue, buf, sink, logs, logged, lossy>>

Init == queue = <<>> /\ buf = <<>> /\ sink = "recv" /\ logs = <<>> /\ logged = 0 /\ lossy = FALSE

\* TelemetrySink::log: a row is queued unless the channel is full.
Log ==
    /\ logged < MaxRows /\ sink # "closed"
    /\ logged' = logged + 1
    /\ IF Len(queue) < QUEUE
       THEN queue' = Append(queue, logged + 1) /\ UNCHANGED lossy
       ELSE lossy' = TRUE /\ UNCHANGED queue
    /\ UNCHANGED <<buf, sink, logs>>

\* run_sink: the first row is waited for, and the batch filled with what is queued.
Receive ==
    /\ sink \in {"recv", "closed"} /\ queue # <<>>
    /\ LET n == IF Len(queue) < BATCH THEN Len(queue) ELSE BATCH
       IN buf' = SubSeq(queue, 1, n) /\ queue' = SubSeq(queue, n + 1, Len(queue))
    /\ sink' = IF sink = "closed" THEN "last" ELSE "flush"
    /\ UNCHANGED <<logs, logged, lossy>>

\* flush: connect if need be and insert; the batch is gone whatever happened.
Flush ==
    /\ sink \in {"flush", "last"}
    /\ \E done \in BOOLEAN, error \in BOOLEAN :
         /\ ~error => done
         /\ logs' = IF done THEN logs \o buf ELSE logs
         /\ lossy' = (lossy \/ error)
    /\ buf' = <<>>
    /\ sink' = IF sink = "last" THEN "closed" ELSE "recv"
    /\ UNCHANGED <<queue, logged>>

\* The senders are dropped: what is queued is still received.
Close ==
    /\ sink \in {"recv", "flush"}
    /\ sink' = IF sink = "recv" THEN "closed" ELSE "last"
    /\ UNCHANGED <<queue, buf, logs, logged, lossy>>

Next == Log \/ Receive \/ Flush \/ Close

Spec == Init /\ [][Next]_vars

-----------------------------------------------------------------------------
\* The table holds each row at most once and in the order of the requests, and every row
\* that is no longer queued if none was dropped and no database call failed: telemetry
\* may lose rows and never repeats one.
RowsAreShippedOnce ==
    /\ \A i, j \in DOMAIN logs : i < j => logs[i] < logs[j]
    /\ ~lossy => logs \o buf \o queue = [i \in 1..logged |-> i]
=============================================================================
