------------------------------- MODULE SQueue -------------------------------
(***************************************************************************)
(* The shared-memory job queue (crates/askr/src/squeue.rs).                *)
(*                                                                         *)
(* A ring of job slots lives in memory shared by every worker process.     *)
(* Each slot has its own lock; push and pop visit the slots one at a time  *)
(* and hold one slot lock at a time, so other processes run between two    *)
(* visits.  One action below is one critical section.  A process may die   *)
(* inside a critical section: its lock is then taken over (module ShmLock) *)
(* and the stores it made so far stay, in the order the code makes them.   *)
(* Clock readings are in units of one tick; every sum saturates at U64Max. *)
(***************************************************************************)
EXTENDS Naturals, FiniteSets

CONSTANTS
    Workers,    \* processes that call the queue
    N,          \* number of job slots
    Queues,     \* namespaced queue names
    NoQueue,    \* the name in a slot that was never written
    AppOf,      \* the application whose namespace a queue name carries
    WorkerApp,  \* the application a worker's requests run in
    Delays,     \* delays a caller asks for, in ticks
    Visibility, \* visibility windows a caller asks for, in ticks
    U64Max,     \* the largest clock value: u64::MAX, in ticks
    MaxTime,    \* bound: the clock stops here
    MaxId,      \* bound: number of push calls
    MaxLease,   \* bound: number of reservations
    MaxCrashes  \* bound: number of process deaths

ASSUME ConstantsAssumption ==
    /\ N \in Nat \ {0}
    /\ NoQueue \notin Queues
    /\ AppOf \in [Queues -> {WorkerApp[w] : w \in Workers}]
    /\ DOMAIN WorkerApp = Workers
    /\ Delays \subseteq Nat
    /\ Visibility \subseteq Nat
    /\ U64Max \in Nat
    /\ MaxTime \in Nat /\ MaxTime < U64Max
    /\ MaxId \in Nat
    /\ MaxLease \in Nat
    /\ MaxCrashes \in Nat

Slots == 0 .. N - 1

VARIABLES
    now,        \* the wall clock
    ring,       \* the job slots
    nextId,     \* Ring.next_id
    nextLease,  \* Ring.next_lease
    lanes,      \* the queues some worker polled, and those it got a job from
    crashes,    \* number of processes that died
    op,         \* per worker: the call in progress and its locals
    accepted,   \* history: ids of the jobs whose push committed
    acked,      \* history: ids of the jobs a delete removed
    issued,     \* history: per lease, its job, promised end, and whether open
    steady      \* history: per worker, the slots in one state all scan long

vars == <<now, ring, nextId, nextLease, lanes, crashes, op,
          accepted, acked, issued, steady>>
ghosts == <<accepted, acked, issued>>

Times == 0 .. U64Max

Job == [id: Nat, queue: Queues \cup {NoQueue}, avail: Times,
        reservedUntil: Times, lease: Nat, attempts: Nat, payload: Nat]

FreeSlot == [id |-> 0, queue |-> NoQueue, avail |-> 0, reservedUntil |-> 0,
             lease |-> 0, attempts |-> 0, payload |-> 0]

NoLease == [job |-> 0, until |-> 0, open |-> FALSE]

\* The locals of a call: `t` is the clock reading the call works with and
\* (bestSlot, bestAvail, bestId) the candidate of pop's first pass.
Idle == [pc |-> "idle", queue |-> NoQueue, id |-> 0, t |-> 0, arg |-> 0,
         i |-> 0, bestSlot |-> 0, bestAvail |-> 0, bestId |-> 0]

Locals == [pc: {"idle", "push_clock", "push_probe", "pop_scan", "pop_take",
                "release"},
           queue: Queues \cup {NoQueue}, id: Nat, t: Times, arg: Nat,
           i: Slots, bestSlot: Slots, bestAvail: Times, bestId: Nat]

-----------------------------------------------------------------------------
\* saturating_add.
SatAdd(a, b) == IF a + b > U64Max THEN U64Max ELSE a + b

\* A job `pop` may take at clock t: its delay is over and no live
\* reservation covers it.
\* Fault: a reservation does not hide the job.
ReadyReserved(j, t) == j.avail <= t

Ready(j, t) == /\ j.avail <= t
               /\ j.reservedUntil = 0 \/ j.reservedUntil <= t

\* The record left by a writer that died after its first k stores: `order`
\* is the position of each field in the writer's program order.
Torn(old, new, order, k) ==
    [f \in DOMAIN old |-> IF order[f] <= k THEN new[f] ELSE old[f]]

\* Lexicographic (available_at, id).
Before(a1, i1, a2, i2) == a1 < a2 \/ (a1 = a2 /\ i1 < i2)

\* The slots that hold a job of queue q that can be taken at clock t.
ReadySlots(q, t) ==
    {s \in Slots : ring[s].id # 0 /\ ring[s].queue = q /\ Ready(ring[s], t)}

\* History of a scan: what is left, after a step, of the slots a scan started
\* with.  A push follows slots that stay free, a pop slots whose job stays the
\* same, with the same availability, and ready at the pop's clock reading.
KeepSteady ==
    steady' = [w \in Workers |->
        CASE op'[w].pc = "push_probe" -> {s \in steady[w] : ring'[s].id = 0}
          [] op'[w].pc \in {"pop_scan", "pop_take"} ->
                {s \in steady[w] : /\ ring'[s].id = ring[s].id
                                   /\ ring'[s].avail = ring[s].avail
                                   /\ Ready(ring'[s], op'[w].t)}
          [] OTHER -> {}]

Finish(w) == op' = [op EXCEPT ![w] = Idle]

\* The process dies; its successor starts idle.  What it stored stays.
Die(w) ==
    /\ crashes < MaxCrashes
    /\ crashes' = crashes + 1
    /\ Finish(w)

-----------------------------------------------------------------------------
\* push: the id is taken before the clock is read.
PushTicket(w, q, d) ==
    /\ op[w].pc = "idle"
    /\ AppOf[q] = WorkerApp[w]
    /\ nextId < MaxId
    /\ nextId' = nextId + 1
    /\ op' = [op EXCEPT ![w] = [Idle EXCEPT !.pc = "push_clock", !.queue = q,
                                            !.id = nextId + 1, !.arg = d]]
    /\ UNCHANGED <<now, crashes, ring, nextLease, lanes, ghosts, steady>>

PushClock(w) ==
    /\ op[w].pc = "push_clock"
    /\ op' = [op EXCEPT ![w].pc = "push_probe", ![w].t = now]
    /\ steady' = [steady EXCEPT ![w] = {s \in Slots : ring[s].id = 0}]
    /\ UNCHANGED <<now, crashes, ring, nextId, nextLease, lanes, ghosts>>

\* The job a push writes; `payload` stands for the bytes that were pushed.
NewJob(w) ==
    [id |-> op[w].id, queue |-> op[w].queue,
     avail |-> SatAdd(op[w].t, op[w].arg), reservedUntil |-> 0, lease |-> 0,
     attempts |-> 0, payload |-> op[w].id]

\* Fault: the occupancy marker is stored first.
PushOrderIdFirst ==
    [queue |-> 2, avail |-> 3, reservedUntil |-> 4, lease |-> 5,
     attempts |-> 6, payload |-> 7, id |-> 1]

\* The order of push's stores: `id`, the commit marker, comes last.
PushOrder == [queue |-> 1, avail |-> 2, reservedUntil |-> 3, lease |-> 4,
              attempts |-> 5, payload |-> 6, id |-> 7]

PushSlot(w) == (op[w].id + op[w].i) % N

\* Fault: the probe gives up one slot early.
LastProbeShort(w) == op[w].i + 2 >= N

LastProbe(w) == op[w].i + 1 >= N

MayFill(w) == ring[PushSlot(w)].id = 0

\* One visit of the probe: take the slot if it is free, else go on to the
\* next one; after the last one the queue is full and the job is dropped.
PushProbe(w) ==
    /\ op[w].pc = "push_probe"
    /\ \/ /\ MayFill(w)
          /\ ring' = [ring EXCEPT ![PushSlot(w)] = NewJob(w)]
          /\ accepted' = accepted \cup {op[w].id}
          /\ Finish(w)
       \/ /\ ~MayFill(w)
          /\ op' = [op EXCEPT ![w] =
                      IF LastProbe(w) THEN Idle
                      ELSE [op[w] EXCEPT !.i = op[w].i + 1]]
          /\ UNCHANGED <<ring, accepted>>
    /\ UNCHANGED <<now, crashes, nextId, nextLease, lanes, acked, issued>>
    /\ KeepSteady

\* The process dies while it fills a free slot.
PushCrash(w) ==
    /\ op[w].pc = "push_probe"
    /\ MayFill(w)
    /\ \E k \in 1 .. 7 :
         /\ ring' = [ring EXCEPT ![PushSlot(w)] =
                                    Torn(@, NewJob(w), PushOrder, k)]
         /\ accepted' = IF k = 7 THEN accepted \cup {op[w].id} ELSE accepted
    /\ Die(w)
    /\ UNCHANGED <<now, nextId, nextLease, lanes, acked, issued>>
    /\ KeepSteady

-----------------------------------------------------------------------------
\* pop: one clock reading for the whole call; the poll is stamped first.
PopStart(w, q, v) ==
    /\ op[w].pc = "idle"
    /\ AppOf[q] = WorkerApp[w]
    /\ lanes' = [lanes EXCEPT !.polled = @ \cup {q}]
    /\ op' = [op EXCEPT ![w] = [Idle EXCEPT !.pc = "pop_scan", !.queue = q,
                                            !.t = now, !.arg = v]]
    /\ steady' = [steady EXCEPT ![w] = ReadySlots(q, now)]
    /\ UNCHANGED <<now, crashes, ring, nextId, nextLease, ghosts>>

\* Is the job of slot s better than the candidate so far?
Better(w, s) ==
    /\ s \in ReadySlots(op[w].queue, op[w].t)
    /\ \/ op[w].bestId = 0
       \/ Before(ring[s].avail, ring[s].id, op[w].bestAvail, op[w].bestId)

\* First pass, one slot per visit: keep the least (available_at, id).
PopScan(w) ==
    /\ op[w].pc = "pop_scan"
    /\ LET s == op[w].i
           seen == IF Better(w, s)
                   THEN [op[w] EXCEPT !.bestSlot = s, !.bestId = ring[s].id,
                                      !.bestAvail = ring[s].avail]
                   ELSE op[w]
       IN op' = [op EXCEPT ![w] =
                   IF s + 1 < N THEN [seen EXCEPT !.i = s + 1]
                   ELSE IF seen.bestId = 0 THEN Idle
                   ELSE [seen EXCEPT !.pc = "pop_take"]]
    /\ UNCHANGED <<now, crashes, ring, nextId, nextLease, lanes, ghosts>>
    /\ KeepSteady

\* Second pass: is the chosen slot still that job, and still ready?
StillThere(w) ==
    LET j == ring[op[w].bestSlot]
    IN  j.id = op[w].bestId /\ Ready(j, op[w].t)

\* Fault: the attempt is not counted.
ReserveUncounted(w) ==
    [ring[op[w].bestSlot] EXCEPT
        !.reservedUntil = SatAdd(op[w].t, op[w].arg), !.lease = nextLease + 1]

Reserve(w) ==
    LET j == ring[op[w].bestSlot]
    IN  [j EXCEPT !.attempts = j.attempts + 1,
                  !.reservedUntil = SatAdd(op[w].t, op[w].arg),
                  !.lease = nextLease + 1]

\* The order of pop's stores; next_lease is incremented after the second.
PopOrder == [attempts |-> 1, reservedUntil |-> 2, lease |-> 3, id |-> 4,
             queue |-> 4, avail |-> 4, payload |-> 4]

Issue(w) == [job |-> op[w].bestId, until |-> op[w].t + op[w].arg,
             open |-> TRUE]

PopTake(w) ==
    /\ op[w].pc = "pop_take"
    /\ StillThere(w)
    /\ nextLease < MaxLease
    /\ ring' = [ring EXCEPT ![op[w].bestSlot] = Reserve(w)]
    /\ nextLease' = nextLease + 1
    /\ issued' = [issued EXCEPT ![nextLease + 1] = Issue(w)]
    /\ lanes' = [lanes EXCEPT !.drained = @ \cup {op[w].queue}]
    /\ Finish(w)
    /\ UNCHANGED <<now, crashes, nextId, accepted, acked>>
    /\ KeepSteady

\* Another worker took or changed the job since the scan: pop returns None.
PopMissed(w) ==
    /\ op[w].pc = "pop_take"
    /\ ~StillThere(w)
    /\ Finish(w)
    /\ UNCHANGED <<now, crashes, ring, nextId, nextLease, lanes, ghosts>>
    /\ KeepSteady

\* The process dies while it writes the reservation, or before it can hand
\* the lease out.
PopCrash(w) ==
    /\ op[w].pc = "pop_take"
    /\ StillThere(w)
    /\ nextLease < MaxLease
    /\ \E k \in 1 .. 3 :
         /\ ring' = [ring EXCEPT ![op[w].bestSlot] =
                                    Torn(@, Reserve(w), PopOrder, k)]
         /\ nextLease' \in {nextLease + n : n \in (k \div 3) .. (k \div 2)}
         /\ issued' = IF k = 3
                      THEN [issued EXCEPT ![nextLease + 1] = Issue(w)]
                      ELSE issued
    /\ Die(w)
    /\ UNCHANGED <<now, nextId, lanes, accepted, acked>>
    /\ KeepSteady

-----------------------------------------------------------------------------
\* The slot that answers to a lease in w's namespace.  delete and release
\* visit the slots in turn; no slot can come to carry a lease after it was
\* issued, so the visit of the slot that carries it is the whole call.
Holds(s, lease) == ring[s].id # 0 /\ ring[s].lease = lease

\* Fault: the lease alone decides.
OwnedByAll(w, s) == TRUE

Owned(w, s) == AppOf[ring[s].queue] = WorkerApp[w]

\* delete(lease): a worker may present any token ever handed out.
Delete(w, lease) ==
    /\ op[w].pc = "idle"
    /\ lease \in 1 .. nextLease
    /\ \E s \in Slots :
         /\ Holds(s, lease) /\ Owned(w, s)
         /\ ring' = [ring EXCEPT ![s].id = 0]
         /\ acked' = acked \cup {ring[s].id}
    /\ UNCHANGED op
    /\ UNCHANGED <<now, crashes, nextId, nextLease, lanes, accepted, issued>>
    /\ KeepSteady

\* release(lease, delay): the new availability is computed before the slots
\* are searched.
ReleaseStart(w, lease, d) ==
    /\ op[w].pc = "idle"
    /\ lease \in 1 .. nextLease
    /\ op' = [op EXCEPT ![w] = [Idle EXCEPT !.pc = "release", !.id = lease,
                                            !.t = SatAdd(now, d)]]
    /\ UNCHANGED <<now, crashes, ring, nextId, nextLease, lanes, ghosts,
                   steady>>

Released(w, s) ==
    [ring[s] EXCEPT !.avail = op[w].t, !.reservedUntil = 0, !.lease = 0]

ReleaseOrder == [avail |-> 1, reservedUntil |-> 2, lease |-> 3, id |-> 4,
                 queue |-> 4, attempts |-> 4, payload |-> 4]

ReleaseApply(w) ==
    /\ op[w].pc = "release"
    /\ \E s \in Slots :
         /\ Holds(s, op[w].id) /\ Owned(w, s)
         /\ ring' = [ring EXCEPT ![s] = Released(w, s)]
    /\ issued' = [issued EXCEPT ![op[w].id].open = FALSE]
    /\ Finish(w)
    /\ UNCHANGED <<now, crashes, nextId, nextLease, lanes, accepted, acked>>
    /\ KeepSteady

\* No slot of this namespace carries the lease: false.
ReleaseUnknown(w) ==
    /\ op[w].pc = "release"
    /\ \A s \in Slots : ~(Holds(s, op[w].id) /\ Owned(w, s))
    /\ Finish(w)
    /\ UNCHANGED <<now, crashes, ring, nextId, nextLease, lanes, ghosts>>
    /\ KeepSteady

ReleaseCrash(w) ==
    /\ op[w].pc = "release"
    /\ \E s \in Slots, k \in 1 .. 3 :
         /\ Holds(s, op[w].id) /\ Owned(w, s)
         /\ ring' = [ring EXCEPT ![s] =
                        Torn(@, Released(w, s), ReleaseOrder, k)]
    /\ issued' = [issued EXCEPT ![op[w].id].open = FALSE]
    /\ Die(w)
    /\ UNCHANGED <<now, nextId, nextLease, lanes, accepted, acked>>
    /\ KeepSteady

\* The process dies between two critical sections.
Crash(w) ==
    /\ op[w].pc # "idle"
    /\ Die(w)
    /\ UNCHANGED <<now, ring, nextId, nextLease, lanes, ghosts>>
    /\ KeepSteady

Tick ==
    /\ now < MaxTime
    /\ now' = now + 1
    /\ UNCHANGED <<crashes, ring, nextId, nextLease, lanes, op, ghosts,
                   steady>>

-----------------------------------------------------------------------------
Init ==
    /\ now = 0
    /\ ring = [s \in Slots |-> FreeSlot]
    /\ nextId = 0
    /\ nextLease = 0
    /\ lanes = [polled |-> {}, drained |-> {}]
    /\ crashes = 0
    /\ op = [w \in Workers |-> Idle]
    /\ accepted = {}
    /\ acked = {}
    /\ issued = [lease \in 1 .. MaxLease |-> NoLease]
    /\ steady = [w \in Workers |-> {}]

Push(w) == \/ \E q \in Queues, d \in Delays : PushTicket(w, q, d)
           \/ PushClock(w) \/ PushProbe(w) \/ PushCrash(w)

Pop(w) == \/ \E q \in Queues, v \in Visibility : PopStart(w, q, v)
          \/ PopScan(w) \/ PopTake(w) \/ PopMissed(w) \/ PopCrash(w)

Release(w) ==
    \/ \E lease \in 1 .. MaxLease, d \in Delays : ReleaseStart(w, lease, d)
    \/ ReleaseApply(w) \/ ReleaseUnknown(w) \/ ReleaseCrash(w)

Next == \/ \E w \in Workers :
             \/ Push(w) \/ Pop(w) \/ Release(w) \/ Crash(w)
             \/ \E lease \in 1 .. MaxLease : Delete(w, lease)
        \/ Tick

Spec == Init /\ [][Next]_vars

-----------------------------------------------------------------------------
\* A push or pop in progress works on a queue.
HasQueue(l) == l.pc \in {"idle", "release"} \/ l.queue \in Queues

TypeOK ==
    /\ now \in 0 .. MaxTime
    /\ ring \in [Slots -> Job]
    /\ nextId \in 0 .. MaxId
    /\ nextLease \in 0 .. MaxLease
    /\ lanes \in [polled: SUBSET Queues, drained: SUBSET Queues]
    /\ crashes \in 0 .. MaxCrashes
    /\ op \in [Workers -> Locals]
    /\ \A w \in Workers : HasQueue(op[w])
    /\ accepted \subseteq Nat
    /\ acked \subseteq Nat
    /\ issued \in [1 .. MaxLease -> [job: Nat, until: Nat, open: BOOLEAN]]
    /\ steady \in [Workers -> SUBSET Slots]

\* A job whose push committed stays in exactly one slot, with its own payload,
\* until a delete removes it, whatever crashes in between; and nothing else
\* ever occupies a slot.
NoJobLost ==
    /\ {ring[s].id : s \in Slots} \ {0} = accepted \ acked
    /\ \A s \in Slots : ring[s].id # 0 =>
         /\ ring[s].payload = ring[s].id
         /\ \A r \in Slots \ {s} : ring[r].id # ring[s].id

\* The attempt count a worker sees is never below the number of times the job
\* was reserved, so a job cannot exceed its tries by crashing its workers.
AttemptsCountReservations ==
    \A s \in Slots : ring[s].id # 0 =>
        ring[s].attempts >=
            Cardinality({l \in 1 .. MaxLease : issued[l].job = ring[s].id})

\* The lease l is the latest reservation of job j.
Newest(l, j) ==
    /\ issued[l].job = j
    /\ \A m \in 1 .. MaxLease : m > l => issued[m].job # j

\* The fence: a delete or release that changes a job presents the latest
\* lease of that very job, in the application the job belongs to.  The token
\* of a worker whose reservation lapsed and was taken over, or whose job is
\* gone and its slot reused, does nothing.
LeaseFence ==
    [][\A w \in Workers, l \in 1 .. MaxLease :
         \/ Delete(w, l)
         \/ op[w].id = l /\ (ReleaseApply(w) \/ ReleaseCrash(w))
         => \A s \in Slots : ring'[s] # ring[s] =>
                /\ Newest(l, ring[s].id)
                /\ AppOf[ring[s].queue] = WorkerApp[w]]_vars

\* A job is reserved again only after every earlier reservation of it was
\* released or its whole visibility window has passed.
ExclusiveReservation ==
    [][\A l \in 1 .. MaxLease :
         issued[l].job = 0 /\ issued'[l].job # 0
         => \A m \in 1 .. MaxLease :
                issued[m].job = issued'[l].job =>
                    ~issued[m].open \/ issued[m].until <= now]_vars

\* A scan that is not atomic still does not miss what stays put: pop reports
\* an empty queue only if no job was ready from the start of its scan to the
\* end, it takes a job only if no job that stayed ready all along comes before
\* the key it saw, and push reports a full ring only if no slot was free all
\* along.
ScansSeeSteadySlots ==
    [][\A w \in Workers :
         /\ PopScan(w) /\ op'[w].pc = "idle" => steady[w] = {}
         /\ PopTake(w) =>
              \A s \in steady[w] : ~Before(ring[s].avail, ring[s].id,
                                          op[w].bestAvail, op[w].bestId)
         /\ PushProbe(w) /\ op'[w].pc = "idle" /\ ring' = ring
              => steady[w] = {}]_vars

-----------------------------------------------------------------------------
\* SQueue implements JobQueue: the jobs are the occupied slots.
Occupied == {s \in Slots : ring[s].id # 0}

AbstractJob(j) == [id |-> j.id, queue |-> j.queue, avail |-> j.avail,
                   until |-> j.reservedUntil, lease |-> j.lease]

JQ == INSTANCE JobQueue WITH
        Ids <- 1 .. MaxId, clock <- now,
        jobs <- {AbstractJob(ring[s]) : s \in Occupied},
        used <- accepted, lastLease <- nextLease

\* Every critical section of push, pop, delete and release, whole or cut
\* short by a crash, is one atomic step of the abstract queue or none.
ImplementsJobQueue == JQ!JQSpec

=============================================================================
