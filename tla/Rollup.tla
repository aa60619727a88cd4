------------------------------- MODULE Rollup -------------------------------
(***************************************************************************)
(* The metrics rollup (crates/askr/src/observ_sql.rs): one elected worker  *)
(* turns the shared counters (crates/askr/src/metrics.rs) into a database  *)
(* row per window.                                                         *)
(*                                                                         *)
(* The insert may fail before or after it took effect: the caller sees the *)
(* same error.  A worker may be killed at any point; the one that takes    *)
(* its place is a new process with a number of its own.                    *)
(***************************************************************************)
EXTENDS Naturals, Sequences, FiniteSets, Functions

CONSTANTS
    Slots,            \* places of workers
    Bounds,           \* the latency bounds, ascending; the last bucket is beyond them
    MaxResponses, MaxPids, MaxWindows   \* bounds

VARIABLES
    worker,     \* per place: the process in it
    pids,       \* process numbers given out
    leader,     \* metrics_leader
    count,      \* the shared counters: responses per bucket
    windows     \* the table of metrics rows

vars == <<worker, pids, leader, count, windows>>

NBUCKETS == Len(Bounds) + 1
Buckets == 1..NBUCKETS
Zero == [b \in Buckets |-> 0]
Total(f) == FoldFunction(+, 0, f)

\* A worker that has just been forked: its place in the election, and the rollup task.
Fresh(pid) == [pid |-> pid, elect |-> "load", saw |-> 0,
               rollup |-> "off", prev |-> Zero, window |-> Zero]

Init ==
    /\ \E f \in [Slots -> 1..Cardinality(Slots)] :
         /\ \A s, t \in Slots : f[s] = f[t] => s = t
         /\ worker = [s \in Slots |-> Fresh(f[s])]
    /\ pids = Cardinality(Slots)
    /\ leader = 0
    /\ count = Zero
    /\ windows = <<>>

-----------------------------------------------------------------------------
\* The election, when a worker starts.

Alive == {worker[s].pid : s \in Slots}

\* claim_metrics_leader: the load, and is that process alive?
ElectLoad(s) ==
    /\ worker[s].elect = "load"
    /\ worker' = [worker EXCEPT ![s].saw = leader,
                                ![s].elect = IF leader \in Alive THEN "done" ELSE "swap"]
    /\ UNCHANGED <<pids, leader, count, windows>>

\* Fault: the leader is stored over whatever is there by now.
ElectStore(s) ==
    /\ worker[s].elect = "swap"
    /\ leader' = worker[s].pid
    /\ worker' = [worker EXCEPT ![s].elect = "done", ![s].rollup = "first"]
    /\ UNCHANGED <<pids, count, windows>>

\* claim_metrics_leader: the swap; the loser looks again.  The winner starts the rollup.
ElectSwap(s) ==
    /\ worker[s].elect = "swap"
    /\ IF leader = worker[s].saw
       THEN /\ leader' = worker[s].pid
            /\ worker' = [worker EXCEPT ![s].elect = "done", ![s].rollup = "first"]
       ELSE worker' = [worker EXCEPT ![s].elect = "load"] /\ UNCHANGED leader
    /\ UNCHANGED <<pids, count, windows>>

-----------------------------------------------------------------------------
\* Metrics::record: a finished response, in the bucket of its latency.
Respond(b) ==
    /\ Total(count) < MaxResponses
    /\ count' = [count EXCEPT ![b] = @ + 1]
    /\ UNCHANGED <<worker, pids, leader, windows>>

\* The rollup.

\* run_metrics_sink: a tick.  The first one is the baseline; then prev is moved on before
\* the database is asked for anything.
Snapshot(s) ==
    LET w == worker[s]
    IN /\ w.rollup \in {"first", "tick"} /\ Len(windows) < MaxWindows
       /\ worker' = [worker EXCEPT ![s].prev = count,
                       ![s].rollup = IF w.rollup = "first" THEN "tick" ELSE "insert",
                       ![s].window = IF w.rollup = "first" THEN Zero
                                     ELSE [b \in Buckets |-> count[b] - w.prev[b]]]
       /\ UNCHANGED <<pids, leader, count, windows>>

Cumulative(f, n) == FoldFunctionOnSet(+, 0, f, 1..n)

\* percentile: the first bucket at which the running count reaches the rank, rounded up.
percentile(f, q) ==
    IF Total(f) = 0 THEN 0
    ELSE LET target == ((q * Total(f)) + 99) \div 100
             i == CHOOSE i \in Buckets : /\ Cumulative(f, i) >= target
                                         /\ \A j \in 1..(i - 1) : Cumulative(f, j) < target
         IN IF i <= Len(Bounds) THEN Bounds[i] ELSE 2 * Bounds[Len(Bounds)]

InsertWindow(s) ==
    LET f == worker[s].window
        row == [requests |-> f, p50 |-> percentile(f, 50), p95 |-> percentile(f, 95)]
    IN /\ worker[s].rollup = "insert"
       /\ \E done \in BOOLEAN :
            windows' = IF done THEN Append(windows, row) ELSE windows
       /\ worker' = [worker EXCEPT ![s].rollup = "tick", ![s].window = Zero]
       /\ UNCHANGED <<pids, leader, count>>

\* A worker dies, and the supervisor starts another in its place.
Replace(s) ==
    /\ pids < MaxPids
    /\ pids' = pids + 1
    /\ worker' = [worker EXCEPT ![s] = Fresh(pids + 1)]
    /\ UNCHANGED <<leader, count, windows>>

Next ==
    \/ \E s \in Slots : ElectLoad(s) \/ ElectSwap(s) \/ Snapshot(s) \/ InsertWindow(s) \/ Replace(s)
    \/ \E b \in Buckets : Respond(b)

Spec == Init /\ [][Next]_vars

-----------------------------------------------------------------------------
\* "Duplicate writers would double-count": at most one worker rolls the counters up, and
\* the windows it and its predecessors wrote never add up to more than was counted, in
\* any bucket.
MetricsAreNotDoubled ==
    /\ \A s, t \in Slots : worker[s].rollup # "off" /\ worker[t].rollup # "off" => s = t
    /\ \A b \in Buckets :
         FoldFunction(+, 0, [i \in DOMAIN windows |-> windows[i].requests[b]]) <= count[b]

\* A window's percentile is the least bound under which that share of its responses lies.
PercentilesAreRanks ==
    \A i \in DOMAIN windows :
      LET w == windows[i]
          share(n) == 100 * Cumulative(w.requests, n)
          value(n) == IF n <= Len(Bounds) THEN Bounds[n] ELSE 2 * Bounds[Len(Bounds)]
          right(p, q) == \E n \in Buckets :
                           /\ p = value(n)
                           /\ share(n) >= q * Total(w.requests)
                           /\ \A m \in 1..(n - 1) : share(m) < q * Total(w.requests)
      IN Total(w.requests) > 0 => right(w.p50, 50) /\ right(w.p95, 95)

\* The rows of metrics are what was counted.
WindowsAreTrue == MetricsAreNotDoubled /\ PercentilesAreRanks

=============================================================================
