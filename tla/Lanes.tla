------------------------------- MODULE Lanes --------------------------------
(***************************************************************************)
(* Who listens to which queue: the lane table of the job ring              *)
(* (crates/askr/src/squeue.rs), the warnings computed from it              *)
(* (crates/askr/src/queue.rs) and the watchdog that logs them              *)
(* (crates/askr/src/supervisor.rs).                                        *)
(*                                                                         *)
(* A queue is an application and a name.  Its lane is claimed by the first *)
(* worker that asks it for a job, by a compare-and-swap of the hash, and   *)
(* named after that; every load, swap and store is a step.  The jobs are   *)
(* kept as the scans see them (SQueue has their protocol); one unit of     *)
(* time is the resolution of the ages.                                     *)
(***************************************************************************)
EXTENDS Integers, FiniteSets

CONSTANTS
    Workers,
    Queues,           \* pairs of an application and a name
    Hash,             \* the hash of every queue, none 0 (hash_q, lane_for)
    LANES,            \* entries of the table
    Slots,            \* slots of the ring
    None,
    Delays,           \* delays of pushed jobs
    STALL,            \* stall_secs
    STALE,            \* POLL_STALE_SECS
    REWARN,           \* the watchdog's cooldown
    MaxTime, MaxPolls \* bounds: the clock and the polls made

VARIABLES
    clock,
    lane,       \* the table
    job,        \* per slot: None or the queue, created, available and reserved until
    worker,     \* per worker: where its pop is
    warned,     \* the watchdog: per name, when it was last logged, or None
    polls,      \* number of polls
    heard,      \* history: per queue, the start of its latest marked poll, or None
    unlaned     \* history: queues that found the table full

vars == <<clock, lane, job, worker, warned, polls, heard, unlaned>>

Names == {q[2] : q \in Queues}
Least(S) == CHOOSE x \in S : \A y \in S : x <= y
Free == [hash |-> 0, name |-> None, polled |-> 0, drained |-> 0]
Idle == [pc |-> "idle", q |-> None, now |-> 0, probe |-> 0, mark |-> "polled"]

-----------------------------------------------------------------------------
\* The table.

At(w) == (Hash[worker[w].q] + worker[w].probe) % LANES
Go(w, pc) == worker' = [worker EXCEPT ![w].pc = pc]

\* pop: the clock is read, and then the lane is looked for.
Poll(w) ==
    /\ worker[w].pc = "idle" /\ polls < MaxPolls
    /\ \E q \in Queues :
         worker' = [worker EXCEPT ![w] = [Idle EXCEPT !.pc = "load", !.q = q, !.now = clock]]
    /\ polls' = polls + 1
    /\ UNCHANGED <<clock, lane, job, warned, heard, unlaned>>

\* lane_for gives up when it has been around.
NextProbe(w) ==
    IF worker[w].probe + 1 = LANES
    THEN /\ Go(w, IF worker[w].mark = "polled" THEN "take" ELSE "done")
         /\ unlaned' = unlaned \cup {worker[w].q}
    ELSE /\ worker' = [worker EXCEPT ![w].pc = "load", ![w].probe = @ + 1]
         /\ UNCHANGED unlaned

\* lane_for: the load of an entry's hash.
LaneLoad(w) ==
    /\ worker[w].pc = "load"
    /\ LET h == lane[At(w)].hash
       IN IF h = Hash[worker[w].q] THEN Go(w, "mark") /\ UNCHANGED unlaned
          ELSE IF h = 0 THEN Go(w, "claim") /\ UNCHANGED unlaned
          ELSE NextProbe(w)
    /\ UNCHANGED <<clock, lane, job, warned, polls, heard>>

\* Fault: the loser of the race probes on whoever won it.
LoserProbesOn(w) ==
    /\ worker[w].pc = "claim"
    /\ IF lane[At(w)].hash = 0
       THEN /\ lane' = [lane EXCEPT ![At(w)].hash = Hash[worker[w].q]]
            /\ Go(w, "name") /\ UNCHANGED unlaned
       ELSE NextProbe(w) /\ UNCHANGED lane
    /\ UNCHANGED <<clock, job, warned, polls, heard>>

\* lane_for: the swap.  The loser takes the lane if it is its queue's, else probes on.
LaneClaim(w) ==
    /\ worker[w].pc = "claim"
    /\ LET h == lane[At(w)].hash
       IN IF h = 0
          THEN /\ lane' = [lane EXCEPT ![At(w)].hash = Hash[worker[w].q]]
               /\ Go(w, "name") /\ UNCHANGED unlaned
          ELSE IF h = Hash[worker[w].q]
          THEN Go(w, "mark") /\ UNCHANGED <<lane, unlaned>>
          ELSE NextProbe(w) /\ UNCHANGED lane
    /\ UNCHANGED <<clock, job, warned, polls, heard>>

\* The name's bytes and its length: readers see the name once the length is stored.
LaneName(w) ==
    /\ worker[w].pc = "name"
    /\ lane' = [lane EXCEPT ![At(w)].name = worker[w].q]
    /\ Go(w, "mark")
    /\ UNCHANGED <<clock, job, warned, polls, heard, unlaned>>

\* mark_polled
MarkPolled(w) ==
    /\ worker[w].pc = "mark" /\ worker[w].mark = "polled"
    /\ lane' = [lane EXCEPT ![At(w)].polled = worker[w].now]
    /\ heard' = [heard EXCEPT ![worker[w].q] = worker[w].now]
    /\ Go(w, "take")
    /\ UNCHANGED <<clock, job, warned, polls, unlaned>>

\* pop: a job that was available when the poll began is reserved, if there is one.
Take(w) ==
    /\ worker[w].pc = "take"
    /\ LET now == worker[w].now
           ready == {s \in Slots : /\ job[s] # None
                                   /\ job[s].q = worker[w].q
                                   /\ job[s].avail <= now /\ job[s].until <= now}
       IN \/ /\ ready = {} /\ worker' = [worker EXCEPT ![w] = Idle] /\ UNCHANGED job
          \/ \E s \in ready :
               /\ \A r \in ready : job[s].avail <= job[r].avail
               /\ job' = [job EXCEPT ![s].until = now + STALL]
               /\ worker' = [worker EXCEPT ![w].pc = "load", ![w].probe = 0, ![w].mark = "drained"]
    /\ UNCHANGED <<clock, lane, warned, polls, heard, unlaned>>

\* mark_drained, and the end of the pop.
MarkDrained(w) ==
    /\ \/ /\ worker[w].pc = "mark" /\ worker[w].mark = "drained"
          /\ lane' = [lane EXCEPT ![At(w)].drained = worker[w].now]
       \/ worker[w].pc = "done" /\ UNCHANGED lane
    /\ worker' = [worker EXCEPT ![w] = Idle]
    /\ UNCHANGED <<clock, job, warned, polls, heard, unlaned>>

\* The application pushes a job, and a reserved one is deleted.
Push(q, d) ==
    \E s \in Slots :
      /\ job[s] = None
      /\ job' = [job EXCEPT ![s] = [q |-> q, created |-> clock, avail |-> clock + d, until |-> 0]]
      /\ UNCHANGED <<clock, lane, worker, warned, polls, heard, unlaned>>

Ack(s) ==
    /\ job[s] # None /\ job[s].until > 0
    /\ job' = [job EXCEPT ![s] = None]
    /\ UNCHANGED <<clock, lane, worker, warned, polls, heard, unlaned>>

-----------------------------------------------------------------------------
\* The reports.

\* lanes: the claimed and named entries.
lanes == {lane[i] : i \in {i \in DOMAIN lane : lane[i].hash # 0 /\ lane[i].name # None}}

\* counts: a job is reserved, delayed or pending, in this order.
counts(q) ==
    LET mine == {s \in Slots : job[s] # None /\ job[s].q = q}
        reserved == {s \in mine : job[s].until > clock}
        delayed == {s \in mine \ reserved : job[s].avail > clock}
        pending == mine \ (reserved \cup delayed)
    IN [reserved |-> Cardinality(reserved), delayed |-> Cardinality(delayed),
        pending |-> Cardinality(pending),
        oldest |-> IF pending = {} THEN 0 ELSE Least({job[s].created : s \in pending})]

\* by_queue_with_app: every queue that holds a job.
by_queue_with_app == {q \in Queues : \E s \in Slots : job[s] # None /\ job[s].q = q}

\* age_secs(...) <= POLL_STALE_SECS, with 0 for a lane that was never polled.
Listening(l) == l.polled # 0 /\ clock - l.polled <= STALE

\* The kind of a warning: is anybody listening to this queue, or to its namesake?
LaneFault(q) ==
    IF \E l \in lanes : l.name = q /\ Listening(l) THEN "NotDraining"
    ELSE IF \E l \in lanes : l.name # q /\ l.name[2] = q[2] /\ Listening(l) THEN "WrongApplication"
    ELSE "Unattended"

\* warnings_from: queues whose oldest pending job was created long ago.
warnings_from ==
    {[q |-> q, fault |-> LaneFault(q)] :
        q \in {q \in by_queue_with_app :
                 counts(q).pending > 0 /\ clock - counts(q).oldest >= STALL}}

\* A pass of the master's watchdog.  The cooldown is kept per name.
Watchdog ==
    /\ LET due == {n \in Names : warned[n] = None \/ clock - warned[n] >= REWARN}
           seen == {w.q[2] : w \in warnings_from}
       IN warned' = [n \in Names |-> IF n \notin seen THEN None
                                     ELSE IF n \in due THEN clock ELSE warned[n]]
    /\ UNCHANGED <<clock, lane, job, worker, polls, heard, unlaned>>

Tick ==
    /\ clock < MaxTime
    /\ clock' = clock + 1
    /\ UNCHANGED <<lane, job, worker, warned, polls, heard, unlaned>>

-----------------------------------------------------------------------------
Init ==
    /\ clock = 1
    /\ lane = [i \in 0..(LANES - 1) |-> Free]
    /\ job = [s \in Slots |-> None]
    /\ worker = [w \in Workers |-> Idle]
    /\ warned = [n \in Names |-> None]
    /\ polls = 0
    /\ heard = [q \in Queues |-> None]
    /\ unlaned = {}

Next ==
    \/ \E w \in Workers : \/ Poll(w) \/ LaneLoad(w) \/ LaneClaim(w) \/ LaneName(w)
                          \/ MarkPolled(w) \/ Take(w) \/ MarkDrained(w)
    \/ \E q \in Queues, d \in Delays : Push(q, d)
    \/ \E s \in Slots : Ack(s)
    \/ Watchdog \/ Tick

Spec == Init /\ [][Next]_vars

-----------------------------------------------------------------------------
\* A lane belongs to one queue: the name a reader sees is the one whose hash claimed the
\* entry, and no queue has two lanes, whoever raced for a free entry.
LanesNameTheirQueue ==
    /\ \A l \in lanes : Hash[l.name] = l.hash
    /\ \A i, j \in DOMAIN lane : lane[i].hash = lane[j].hash /\ lane[i].hash # 0 => i = j

HeardLately(q) == heard[q] # None /\ clock - heard[q] <= STALE

\* The warnings tell the faults apart: "not draining" means that a worker
\* of that application has asked this queue lately, "wrong application" that only workers
\* of others have asked for the name, and "unattended" that nobody has.  Except for a
\* queue that got no lane because the table is full, and while a lane is being named.
WarningsAreTrue ==
    unlaned = {} /\ (\A i \in DOMAIN lane : lane[i].hash # 0 => lane[i].name # None)
    => \A w \in warnings_from :
         w.fault = IF HeardLately(w.q) THEN "NotDraining"
                   ELSE IF \E q \in Queues : q[2] = w.q[2] /\ HeardLately(q) THEN "WrongApplication"
                   ELSE "Unattended"

=============================================================================
