------------------------------ MODULE JobQueue ------------------------------
(***************************************************************************)
(* What the job queue promises, with no slots, locks or scans: a set of    *)
(* jobs that change only by the atomic steps below.  SQueue implements it. *)
(***************************************************************************)
EXTENDS Naturals

CONSTANTS
    Ids,     \* job identifiers
    Queues,  \* queue names
    Times    \* clock values a job may carry

VARIABLES
    clock,
    jobs,      \* the jobs in the queue
    used,      \* every identifier ever accepted
    lastLease  \* the latest lease handed out

jqvars == <<clock, jobs, used, lastLease>>

Entry == [id: Ids, queue: Queues, avail: Times, until: Times, lease: Nat]

JQInit ==
    /\ clock = 0
    /\ jobs = {}
    /\ used = {}
    /\ lastLease = 0

\* An accepted job is new, unreserved and has an identifier never used before.
Submit ==
    \E id \in Ids \ used, q \in Queues, a \in Times :
        /\ jobs' = jobs \cup {[id |-> id, queue |-> q, avail |-> a,
                               until |-> 0, lease |-> 0]}
        /\ used' = used \cup {id}
        /\ UNCHANGED <<clock, lastLease>>

\* A job that is due and not reserved goes to one worker under a fresh lease.
Claim ==
    \E j \in jobs, u \in Times :
        /\ j.avail <= clock
        /\ j.until <= clock
        /\ lastLease' = lastLease + 1
        /\ jobs' = (jobs \ {j}) \cup
                     {[j EXCEPT !.until = u, !.lease = lastLease + 1]}
        /\ UNCHANGED <<clock, used>>

\* A worker died while it claimed a job: the job may stay hidden for a while,
\* under the lease it had before.
LoseClaim ==
    \E j \in jobs, u \in Times :
        /\ j.avail <= clock
        /\ j.until <= clock
        /\ lastLease' \in {lastLease, lastLease + 1}
        /\ jobs' = (jobs \ {j}) \cup {[j EXCEPT !.until = u]}
        /\ UNCHANGED <<clock, used>>

\* The holder of the current lease is done with the job.
Acknowledge ==
    \E j \in jobs :
        /\ j.lease # 0
        /\ jobs' = jobs \ {j}
        /\ UNCHANGED <<clock, used, lastLease>>

\* The holder of the current lease gives the job back, or dies doing so.
GiveBack ==
    \E j \in jobs, a \in Times : \E u \in {0, j.until}, l \in {0, j.lease} :
        /\ j.lease # 0
        /\ jobs' = (jobs \ {j}) \cup
                     {[j EXCEPT !.avail = a, !.until = u, !.lease = l]}
        /\ UNCHANGED <<clock, used, lastLease>>

Advance ==
    /\ clock' = clock + 1
    /\ UNCHANGED <<jobs, used, lastLease>>

JQNext == Submit \/ Claim \/ LoseClaim \/ Acknowledge \/ GiveBack \/ Advance

JQSpec == JQInit /\ [][JQNext]_jqvars

=============================================================================
