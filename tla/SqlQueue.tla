------------------------------ MODULE SqlQueue ------------------------------
(***************************************************************************)
(* The durable job queue (crates/askr/src/squeue_sql.rs): the operations   *)
(* of the shared-memory queue on a table of a SQL database.  Each process  *)
(* has a connection of its own and each operation is one statement, which  *)
(* the database runs alone or refuses (a busy timeout, a full disk).  A    *)
(* worker holds a job under a token made of the row's id and the attempt   *)
(* that claimed it; tokens are what fences a worker whose lease is over.   *)
(* A NULL reserved_until is 0, which like NULL is never after the clock.   *)
(* What SQueue has under the same name carries the prefix Sql here.        *)
(***************************************************************************)
EXTENDS Integers, FiniteSets

CONSTANTS
    Procs, SqlQueues, None,
    TOKEN,        \* attempts a token tells apart (65536)
    SqlDelays,       \* delays of push and release, in seconds
    SqlVisibility,   \* how long a claim hides a job
    SqlMaxTime,      \* bound: the clock
    MaxJobs,      \* bound: jobs
    MaxClaims     \* bound: claims of all jobs

ASSUME SqlQueueAssumption ==
    /\ TOKEN \in Nat \ {0} /\ SqlMaxTime \in Nat /\ MaxJobs \in Nat /\ MaxClaims \in Nat
    /\ SqlDelays \subseteq 0..SqlMaxTime /\ SqlVisibility \subseteq 0..SqlMaxTime
    /\ None \notin [id: Nat, attempt: Nat, lease: Nat, released: BOOLEAN]

VARIABLES
    clock,
    rows,         \* askr_jobs
    sqlNextId,       \* its AUTOINCREMENT
    held,         \* per process: the token of the job it works on
    lastLease     \* history: claims so far

sqlVars == <<clock, rows, sqlNextId, held, lastLease>>

Row == [id: 1..MaxJobs, queue: SqlQueues, avail: 0..2 * SqlMaxTime, until: 0..2 * SqlMaxTime,
        attempts: Nat, created: 0..SqlMaxTime, lease: Nat]
Token == [id: 1..MaxJobs, attempt: Nat, lease: Nat, released: BOOLEAN]

\* The WHERE clause that do_pop, do_size and the counts share.
Claimable(r) == r.avail <= clock /\ r.until <= clock

\* ORDER BY available_at, id: priorities are all 0.
SqlBefore(r, s) == r.avail < s.avail \/ (r.avail = s.avail /\ r.id <= s.id)

lease_token(r) == [id |-> r.id, attempt |-> r.attempts % TOKEN,
                   lease |-> r.lease, released |-> FALSE]

\* Fault: the row is found by its id alone.
FenceById(r, t) == r.id = t.id

\* The WHERE clause of do_delete and do_release.
Fenced(r, t) == r.id = t.id /\ r.attempts % TOKEN = t.attempt

-----------------------------------------------------------------------------
do_push(q, delay) ==
    /\ sqlNextId <= MaxJobs
    /\ rows' = rows \cup {[id |-> sqlNextId, queue |-> q, avail |-> clock + delay, until |-> 0,
                           attempts |-> 0, created |-> clock, lease |-> 0]}
    /\ sqlNextId' = sqlNextId + 1
    /\ UNCHANGED <<clock, held, lastLease>>

SqlPush == \E q \in SqlQueues, delay \in SqlDelays : do_push(q, delay)

\* Fault: a job that is due is claimed although it is reserved.
PopReserved(r, visibility) ==
    /\ r \in rows /\ r.avail <= clock /\ lastLease < MaxClaims
    /\ rows' = (rows \ {r}) \cup {[r EXCEPT !.until = clock + visibility,
                                           !.attempts = r.attempts + 1,
                                           !.lease = lastLease + 1]}
    /\ lastLease' = lastLease + 1

\* The claim: one UPDATE that picks the row and marks it.
do_pop(r, visibility) ==
    /\ r \in rows /\ Claimable(r)
    /\ \A s \in rows : s.queue = r.queue /\ Claimable(s) => SqlBefore(r, s)
    /\ lastLease < MaxClaims
    /\ rows' = (rows \ {r}) \cup {[r EXCEPT !.until = clock + visibility,
                                           !.attempts = r.attempts + 1,
                                           !.lease = lastLease + 1]}
    /\ lastLease' = lastLease + 1

\* A process claims a job; without memory for the payload (or when it dies here) the
\* job stays claimed and nobody holds it.
SqlPop(p) ==
    \E r \in rows, visibility \in SqlVisibility :
        /\ do_pop(r, visibility)
        /\ held' \in {[held EXCEPT ![p] = lease_token([r EXCEPT !.attempts = r.attempts + 1,
                                                                !.lease = lastLease + 1])],
                      [held EXCEPT ![p] = None]}
        /\ UNCHANGED <<clock, sqlNextId>>

\* The worker is done; whatever the answer, it forgets the job.
do_delete(p) ==
    /\ held[p] # None
    /\ rows' = {r \in rows : ~Fenced(r, held[p])}
    /\ held' = [held EXCEPT ![p] = None]
    /\ UNCHANGED <<clock, sqlNextId, lastLease>>

\* The worker gives the job back.  Its token stays good until the next claim, for a
\* late delete too.
do_release(p) ==
    \E delay \in SqlDelays :
        /\ held[p] # None
        /\ rows' = {IF Fenced(r, held[p])
                    THEN [r EXCEPT !.until = 0, !.avail = clock + delay] ELSE r : r \in rows}
        /\ held' = [held EXCEPT ![p] = [held[p] EXCEPT !.released = TRUE]]
        /\ UNCHANGED <<clock, sqlNextId, lastLease>>

\* A statement failed, and the operation answered false; or the process died.  The row
\* stays as it is and the job is the worker's no more.
GiveUp(p) ==
    /\ held[p] # None
    /\ held' = [held EXCEPT ![p] = None]
    /\ UNCHANGED <<clock, rows, sqlNextId, lastLease>>

SqlTick == clock < SqlMaxTime /\ clock' = clock + 1 /\ UNCHANGED <<rows, sqlNextId, held, lastLease>>

SqlInit ==
    /\ clock = 0
    /\ rows = {}
    /\ sqlNextId = 1
    /\ held = [p \in Procs |-> None]
    /\ lastLease = 0

SqlNext == SqlTick \/ SqlPush \/ \E p \in Procs : SqlPop(p) \/ do_delete(p) \/ do_release(p) \/ GiveUp(p)

SqlSpec == SqlInit /\ [][SqlNext]_sqlVars

-----------------------------------------------------------------------------
\* What the operations that only look answer: do_size, do_counts of one queue, by_queue
\* of all the queues that have jobs, and do_stats for the autoscaler.
InQueue(q) == {r \in rows : r.queue = q}

Earliest(S) == IF S = {} THEN 0 ELSE CHOOSE m \in S : \A n \in S : m <= n

do_size(q) == Cardinality({r \in InQueue(q) : Claimable(r)})

do_counts(q) ==
    [pending |-> Cardinality({r \in InQueue(q) : r.until <= clock /\ r.avail <= clock}),
     delayed |-> Cardinality({r \in InQueue(q) : r.until <= clock /\ r.avail > clock}),
     reserved |-> Cardinality({r \in InQueue(q) : r.until > clock}),
     oldest |-> Earliest({r.created : r \in {s \in InQueue(q) : Claimable(s)}})]

by_queue == [q \in {r.queue : r \in rows} |-> do_counts(q)]

do_stats ==
    LET ready == {r \in rows : Claimable(r)}
    IN [ready |-> Cardinality(ready), total |-> Cardinality(rows),
        oldest |-> IF ready = {} THEN 0 ELSE clock - Earliest({r.avail : r \in ready})]

-----------------------------------------------------------------------------
SqlTypeOK ==
    /\ clock \in 0..SqlMaxTime
    /\ rows \subseteq Row
    /\ sqlNextId \in 1..MaxJobs + 1
    /\ held \in [Procs -> Token \cup {None}]
    /\ lastLease \in Nat

\* An id names one job for ever, claims are counted, and a token was made by a claim.
SqlConsistent ==
    /\ \A r \in rows : r.id < sqlNextId /\ r.lease <= lastLease /\ (r.attempts = 0 <=> r.lease = 0)
    /\ \A r, s \in rows : r.id = s.id => r = s
    /\ \A p \in Procs : held[p] # None => held[p].lease \in 1..lastLease /\ held[p].id < sqlNextId

\* The job queue that this table is: see SqlImplementsJobQueue.
SqlJQ == INSTANCE JobQueue WITH
        Ids <- 1..MaxJobs, Queues <- SqlQueues, Times <- 0..2 * SqlMaxTime,
        jobs <- {[id |-> r.id, queue |-> r.queue, avail |-> r.avail,
                  until |-> r.until, lease |-> r.lease] : r \in rows},
        used <- 1..sqlNextId - 1

\* The table is a job queue: no statement loses or repeats a job, claims only jobs that
\* are due and free, and only a job that was claimed is taken out or given back.
SqlImplementsJobQueue == SqlJQ!JQSpec

\* A reserved job is the worker's that claimed it last: while the lease runs nobody else
\* takes the job out of the table or gives it back, whatever old tokens are about.
LeaseIsTheHolders ==
    \A r \in rows :
         r.until > clock /\ ~(\E s \in rows' : s.id = r.id /\ s.until = r.until /\ s.lease = r.lease)
         => \E p \in Procs : held[p] # None /\ held[p].lease = r.lease /\ held'[p] # held[p]

\* Every job is in exactly one bucket of do_counts, and do_size, by_queue and do_stats
\* see the same jobs: the autoscaler and the dashboard act on these.
CountsAgree ==
    /\ \A q \in SqlQueues :
         LET c == do_counts(q)
         IN /\ c.pending + c.delayed + c.reserved = Cardinality(InQueue(q))
            /\ do_size(q) = c.pending
            /\ (q \in DOMAIN by_queue) = (InQueue(q) # {})
    /\ do_stats.ready <= do_stats.total
    /\ (do_stats.ready = 0) = (\A q \in SqlQueues : do_size(q) = 0)

\* What the table says is so: a lease is its holder's and the counts are the jobs'.
TableStep == <<rows, clock>>' # <<rows, clock>> => CountsAgree' /\ LeaseIsTheHolders
TableIsTrue == [][TableStep]_sqlVars

=============================================================================
