---------------------------- MODULE QueueProofs -----------------------------
(***************************************************************************)
(* Proofs about the two job queues.  The ring in shared memory (SQueue),   *)
(* for every number of workers, slots, queues, jobs, leases and crashes:   *)
(* its invariant, from which RingProofs goes on.  The durable queue        *)
(* (SqlQueue), for any number of processes, queues, jobs and claims: the   *)
(* jobs table implements the abstract job queue, a lease is its holder's,  *)
(* and the counts agree with the jobs.                                     *)
(***************************************************************************)
EXTENDS SQueue, SqlQueue, FiniteSetTheorems, TLAPS

\* A leaf that names no prover is tried with Zenon.
USE ZenonT(40)

-----------------------------------------------------------------------------
\* The helpers of the critical sections stay within their types.

\* A saturated sum of two naturals is a clock value.
LEMMA SatAddType ==
    ASSUME NEW a \in Nat, NEW b \in Nat
    PROVE  SatAdd(a, b) \in Times
  BY ConstantsAssumption, SMTT(40) DEF SatAdd, Times

\* A record torn by a crash is still a job record.
LEMMA TornType ==
    ASSUME NEW old \in Job, NEW new \in Job, NEW order, NEW k
    PROVE  Torn(old, new, order, k) \in Job
  BY DEF Torn, Job

\* The slot a push visits is a slot.
LEMMA PushSlotType ==
    ASSUME TypeOK, NEW w \in Workers
    PROVE  PushSlot(w) \in Slots
  <1>1. op[w].id \in Nat /\ op[w].i \in Nat
    BY ConstantsAssumption, SMTT(40) DEF TypeOK, Locals, Slots
  <1> QED
    BY <1>1, ConstantsAssumption, SMTT(40) DEF PushSlot, Slots

\* The job a push writes is a job record.
LEMMA NewJobType ==
    ASSUME TypeOK, NEW w \in Workers
    PROVE  NewJob(w) \in Job
  <1>1. op[w] \in Locals
    BY DEF TypeOK
  <1>2. op[w].t \in Nat /\ op[w].arg \in Nat /\ 0 \in Times
    BY <1>1, ConstantsAssumption, SMTT(40) DEF Locals, Times
  <1>3. SatAdd(op[w].t, op[w].arg) \in Times
    BY <1>2, SatAddType
  <1> QED
    BY <1>1, <1>2, <1>3 DEF NewJob, Job, Locals

\* The reservation a pop writes is a job record.
LEMMA ReserveType ==
    ASSUME TypeOK, NEW w \in Workers
    PROVE  Reserve(w) \in Job
  <1>1. op[w] \in Locals
    BY DEF TypeOK
  <1>2. op[w].t \in Nat /\ op[w].arg \in Nat /\ op[w].bestSlot \in Slots
    BY <1>1, ConstantsAssumption, SMTT(40) DEF Locals, Times
  <1>3. SatAdd(op[w].t, op[w].arg) \in Times
    BY <1>2, SatAddType
  <1>4. ring[op[w].bestSlot] \in Job /\ nextLease + 1 \in Nat
    BY <1>2, ConstantsAssumption, SMTT(40) DEF TypeOK
  <1>5. ring[op[w].bestSlot].attempts + 1 \in Nat
    BY <1>4, SMTT(40) DEF Job
  <1> QED
    BY <1>3, <1>4, <1>5 DEF Reserve, Job

\* The released slot is a job record.
LEMMA ReleasedType ==
    ASSUME TypeOK, NEW w \in Workers, NEW s \in Slots
    PROVE  Released(w, s) \in Job
  <1>1. op[w].t \in Times /\ ring[s] \in Job /\ 0 \in Times
    BY ConstantsAssumption, SMTT(40) DEF TypeOK, Locals, Times
  <1> QED
    BY <1>1 DEF Released, Job

\* What the type invariant says of the counters and of one worker's locals.
LEMMA Counters ==
    ASSUME TypeOK
    PROVE  now \in Nat /\ nextLease \in Nat /\ nextId \in Nat
  <1>1. /\ now \in 0 .. MaxTime /\ nextLease \in 0 .. MaxLease
        /\ nextId \in 0 .. MaxId
    BY DEF TypeOK
  <1> QED
    BY <1>1, ConstantsAssumption, SMTT(40)

LEMMA LocalsOf ==
    ASSUME TypeOK, NEW w \in Workers
    PROVE  op[w].id \in Nat /\ op[w].t \in Nat /\ op[w].bestSlot \in Slots
  <1>1. op[w] \in Locals
    BY DEF TypeOK
  <1>2. op[w].id \in Nat /\ op[w].t \in Times /\ op[w].bestSlot \in Slots
    BY <1>1 DEF Locals
  <1> QED
    BY <1>2, ConstantsAssumption, SMTT(40) DEF Times

\* The locals of a worker between two calls are well typed.
LEMMA IdleType == Idle \in Locals
  BY ConstantsAssumption, SMTT(40) DEF Idle, Locals, Slots, Times

\* The history of the scans stays within the slots.
LEMMA SteadyType ==
    ASSUME TypeOK, KeepSteady
    PROVE  steady' \in [Workers -> SUBSET Slots]
  BY DEF TypeOK, KeepSteady

\* The locals of all workers are well typed.
OpType(o) == o \in [Workers -> Locals] /\ \A w \in Workers : HasQueue(o[w])

\* A step of one worker to well-typed locals leaves all of them well typed.
LEMMA OpStep ==
    ASSUME TypeOK, NEW w \in Workers, NEW l \in Locals, HasQueue(l),
           op' = [op EXCEPT ![w] = l]
    PROVE  OpType(op')
  BY DEF TypeOK, OpType

\* A call that ends leaves well-typed locals behind.
LEMMA FinishType ==
    ASSUME TypeOK, NEW w \in Workers, Finish(w)
    PROVE  OpType(op')
  BY IdleType, OpStep DEF Finish, Idle, HasQueue

\* A death leaves well-typed locals and an exact count.
LEMMA DieType ==
    ASSUME TypeOK, NEW w \in Workers, Die(w)
    PROVE  OpType(op') /\ crashes' \in 0 .. MaxCrashes
  BY FinishType, ConstantsAssumption, SMTT(40) DEF TypeOK, Die

-----------------------------------------------------------------------------
\* The initial ring is well typed.
LEMMA TypeInit == Init => TypeOK
  <1>1. FreeSlot \in Job /\ NoLease \in [job: Nat, until: Nat, open: BOOLEAN]
    BY ConstantsAssumption, SMTT(40) DEF FreeSlot, NoLease, Job, Times
  <1>2. HasQueue(Idle)
    BY DEF HasQueue, Idle
  <1> QED
    BY <1>1, <1>2, IdleType, ConstantsAssumption, SMTT(40) DEF Init, TypeOK

\* Every critical section of push keeps the types.
LEMMA PushTypeOK ==
    ASSUME TypeOK, NEW w \in Workers, Push(w)
    PROVE  TypeOK'
  <1>0. op[w] \in Locals /\ HasQueue(op[w]) /\ now \in Times
    BY ConstantsAssumption, SMTT(40) DEF TypeOK, Times
  <1>1. ASSUME NEW q \in Queues, NEW d \in Delays, PushTicket(w, q, d)
        PROVE  TypeOK'
    <2> DEFINE l == [Idle EXCEPT !.pc = "push_clock", !.queue = q,
                                 !.id = nextId + 1, !.arg = d]
    <2>1. nextId + 1 \in Nat /\ d \in Nat
      BY ConstantsAssumption, SMTT(40) DEF TypeOK
    <2>2. l \in Locals
      BY <2>1, IdleType DEF Locals
    <2>3. HasQueue(l)
      BY DEF HasQueue, Idle
    <2>4. OpType(op')
      BY <1>1, <2>2, <2>3, OpStep DEF PushTicket
    <2>5. nextId' \in 0 .. MaxId
      BY <1>1, ConstantsAssumption, SMTT(40) DEF TypeOK, PushTicket
    <2>6. UNCHANGED <<now, ring, nextLease, lanes, crashes, accepted, acked,
                      issued, steady>>
      BY <1>1 DEF PushTicket, ghosts
    <2> QED
      BY <2>4, <2>5, <2>6 DEF TypeOK, OpType
  <1>2. CASE PushClock(w)
    <2>1. OpType(op')
      BY <1>0, <1>2 DEF TypeOK, PushClock, Locals, OpType, HasQueue
    <2> QED
      BY <1>2, <2>1 DEF TypeOK, PushClock, ghosts, OpType
  <1>3. CASE PushProbe(w)
    <2>1. steady' \in [Workers -> SUBSET Slots]
      BY <1>3, SteadyType DEF PushProbe
    <2>2. CASE MayFill(w)
      <3>1. OpType(op')
        BY <1>3, <2>2, FinishType DEF PushProbe
      <3>2. ring' \in [Slots -> Job]
        BY <1>3, <2>2, NewJobType DEF PushProbe, TypeOK
      <3>3. accepted' \subseteq Nat
        BY <1>0, <1>3, <2>2 DEF PushProbe, TypeOK, Locals
      <3> QED
        BY <1>3, <2>1, <3>1, <3>2, <3>3 DEF PushProbe, TypeOK, OpType
    <2>3. CASE ~MayFill(w)
      <3>1. CASE LastProbe(w)
        <4>1. OpType(op')
          BY <1>3, <2>3, <3>1, FinishType DEF PushProbe, Finish
        <4> QED
          BY <1>3, <2>1, <2>3, <4>1 DEF PushProbe, TypeOK, OpType
      <3>2. CASE ~LastProbe(w)
        <4> DEFINE l == [op[w] EXCEPT !.i = op[w].i + 1]
        <4>1. op[w].i + 1 \in Slots
          BY <1>0, <3>2, ConstantsAssumption, SMTT(40) DEF LastProbe, Locals, Slots
        <4>2. l \in Locals
          BY <1>0, <4>1 DEF Locals
        <4>3. HasQueue(l)
          BY <1>0 DEF HasQueue, Locals
        <4>4. OpType(op')
          BY <1>3, <2>3, <3>2, <4>2, <4>3, OpStep DEF PushProbe
        <4> QED
          BY <1>3, <2>1, <2>3, <4>4 DEF PushProbe, TypeOK, OpType
      <3> QED
        BY <3>1, <3>2
    <2> QED
      BY <2>2, <2>3
  <1>4. CASE PushCrash(w)
    <2>1. PICK k \in 1 .. 7 :
            /\ ring' = [ring EXCEPT ![PushSlot(w)] =
                          Torn(ring[PushSlot(w)], NewJob(w), PushOrder, k)]
            /\ accepted' = IF k = 7 THEN accepted \cup {op[w].id}
                           ELSE accepted
      BY <1>4 DEF PushCrash
    <2>2. Torn(ring[PushSlot(w)], NewJob(w), PushOrder, k) \in Job
      BY NewJobType, TornType, PushSlotType DEF TypeOK
    <2>3. ring' \in [Slots -> Job] /\ accepted' \subseteq Nat
      BY <1>0, <2>1, <2>2 DEF TypeOK, Locals
    <2>4. OpType(op') /\ crashes' \in 0 .. MaxCrashes
      BY <1>4, DieType DEF PushCrash
    <2>5. steady' \in [Workers -> SUBSET Slots]
      BY <1>4, SteadyType DEF PushCrash
    <2> QED
      BY <1>4, <2>3, <2>4, <2>5 DEF PushCrash, TypeOK, OpType
  <1> QED
    BY <1>1, <1>2, <1>3, <1>4 DEF Push

\* A new lease is recorded with its job.
LEMMA IssueType ==
    ASSUME TypeOK, NEW w \in Workers, nextLease < MaxLease
    PROVE  /\ nextLease + 1 \in 1 .. MaxLease
           /\ [issued EXCEPT ![nextLease + 1] = Issue(w)] \in
                 [1 .. MaxLease -> [job: Nat, until: Nat, open: BOOLEAN]]
  <1>1. op[w] \in Locals /\ nextLease \in Nat
    BY ConstantsAssumption, SMTT(40) DEF TypeOK
  <1>2. nextLease + 1 \in 1 .. MaxLease
    BY <1>1, ConstantsAssumption, SMTT(40)
  <1>3. op[w].t + op[w].arg \in Nat
    BY <1>1, ConstantsAssumption, SMTT(40) DEF Locals, Times
  <1>4. Issue(w) \in [job: Nat, until: Nat, open: BOOLEAN]
    BY <1>1, <1>3 DEF Issue, Locals
  <1> QED
    BY <1>2, <1>4 DEF TypeOK

\* Every critical section of pop keeps the types.
LEMMA PopTypeOK ==
    ASSUME TypeOK, NEW w \in Workers, Pop(w)
    PROVE  TypeOK'
  <1>0. op[w] \in Locals /\ HasQueue(op[w]) /\ now \in Times
    BY ConstantsAssumption, SMTT(40) DEF TypeOK, Times
  <1>1. ASSUME NEW q \in Queues, NEW v \in Visibility, PopStart(w, q, v)
        PROVE  TypeOK'
    <2> DEFINE l == [Idle EXCEPT !.pc = "pop_scan", !.queue = q, !.t = now,
                                 !.arg = v]
    <2>1. v \in Nat
      BY ConstantsAssumption
    <2>2. l \in Locals
      BY <1>0, <2>1, IdleType DEF Locals
    <2>3. HasQueue(l)
      BY DEF HasQueue, Idle
    <2>4. OpType(op')
      BY <1>1, <2>2, <2>3, OpStep DEF PopStart
    <2>5. lanes' \in [polled: SUBSET Queues, drained: SUBSET Queues]
      BY <1>1 DEF TypeOK, PopStart
    <2>6. steady' \in [Workers -> SUBSET Slots]
      BY <1>1 DEF TypeOK, PopStart, ReadySlots
    <2> QED
      BY <1>1, <2>4, <2>5, <2>6 DEF TypeOK, PopStart, ghosts, OpType
  <1>2. CASE PopScan(w)
    <2> DEFINE s == op[w].i
               seen == IF Better(w, s)
                       THEN [op[w] EXCEPT !.bestSlot = s,
                                          !.bestId = ring[s].id,
                                          !.bestAvail = ring[s].avail]
                       ELSE op[w]
               l == IF s + 1 < N THEN [seen EXCEPT !.i = s + 1]
                    ELSE IF seen.bestId = 0 THEN Idle
                    ELSE [seen EXCEPT !.pc = "pop_take"]
    <2>1. s \in Slots
      BY <1>0 DEF Locals
    <2>2. ring[s].id \in Nat /\ ring[s].avail \in Times
      BY <2>1 DEF TypeOK, Job
    <2>3. seen \in Locals /\ seen.queue = op[w].queue
      BY <1>0, <2>1, <2>2 DEF Locals
    <2>4. op' = [op EXCEPT ![w] = l]
      BY <1>2 DEF PopScan
    <2> HIDE DEF seen
    <2>5. s + 1 < N => s + 1 \in Slots
      BY <2>1, ConstantsAssumption, SMTT(40) DEF Slots
    <2>6. l \in Locals
      BY <2>3, <2>5, IdleType DEF Locals
    <2>7. op[w].queue \in Queues
      BY <1>0, <1>2 DEF PopScan, HasQueue
    <2>8. HasQueue(l)
      BY <2>3, <2>7 DEF HasQueue, Idle, Locals
    <2>9. OpType(op')
      BY <2>4, <2>6, <2>8, OpStep
    <2>10. steady' \in [Workers -> SUBSET Slots]
      BY <1>2, SteadyType DEF PopScan
    <2> QED
      BY <1>2, <2>9, <2>10 DEF PopScan, TypeOK, ghosts, OpType
  <1>3. CASE PopTake(w)
    <2>1. OpType(op')
      BY <1>3, FinishType DEF PopTake
    <2>2. ring' \in [Slots -> Job]
      BY <1>3, ReserveType DEF PopTake, TypeOK
    <2>3. /\ nextLease' \in 0 .. MaxLease
          /\ issued' \in
               [1 .. MaxLease -> [job: Nat, until: Nat, open: BOOLEAN]]
      BY <1>3, IssueType, ConstantsAssumption, SMTT(40) DEF PopTake
    <2>4. steady' \in [Workers -> SUBSET Slots]
      BY <1>3, SteadyType DEF PopTake
    <2>5. lanes' \in [polled: SUBSET Queues, drained: SUBSET Queues]
      <3>1. op[w].queue \in Queues
        BY <1>0, <1>3 DEF PopTake, HasQueue
      <3> QED
        BY <1>3, <3>1 DEF PopTake, TypeOK
    <2> QED
      BY <1>3, <2>1, <2>2, <2>3, <2>4, <2>5 DEF PopTake, TypeOK, OpType
  <1>4. CASE PopMissed(w)
    BY <1>4, FinishType, SteadyType DEF PopMissed, TypeOK, ghosts, OpType
  <1>5. CASE PopCrash(w)
    <2>1. PICK k \in 1 .. 3 :
            /\ ring' = [ring EXCEPT ![op[w].bestSlot] =
                         Torn(ring[op[w].bestSlot], Reserve(w), PopOrder, k)]
            /\ nextLease' \in
                 {nextLease + n : n \in (k \div 3) .. (k \div 2)}
            /\ issued' = IF k = 3
                         THEN [issued EXCEPT ![nextLease + 1] = Issue(w)]
                         ELSE issued
      BY <1>5 DEF PopCrash
    <2>2. ring' \in [Slots -> Job]
      <3>1. ring[op[w].bestSlot] \in Job
        BY <1>0 DEF TypeOK, Locals
      <3> QED
        BY <2>1, <3>1, ReserveType, TornType DEF TypeOK
    <2>3. nextLease' \in {nextLease, nextLease + 1}
      <3>1. (k \div 3) \in 0 .. 1 /\ (k \div 2) \in 0 .. 1
        BY SMTT(40), k = 1 \/ k = 2 \/ k = 3
      <3>2. PICK n \in (k \div 3) .. (k \div 2) : nextLease' = nextLease + n
        BY <2>1
      <3>3. n = 0 \/ n = 1
        BY <3>1, <3>2, SMTT(40)
      <3>4. nextLease + 0 = nextLease
        BY ConstantsAssumption, SMTT(40) DEF TypeOK
      <3> QED
        BY <3>2, <3>3, <3>4
    <2>4. /\ nextLease' \in 0 .. MaxLease
          /\ issued' \in
               [1 .. MaxLease -> [job: Nat, until: Nat, open: BOOLEAN]]
      <3>1. /\ nextLease + 1 \in 1 .. MaxLease
            /\ [issued EXCEPT ![nextLease + 1] = Issue(w)] \in
                 [1 .. MaxLease -> [job: Nat, until: Nat, open: BOOLEAN]]
        BY <1>5, IssueType DEF PopCrash
      <3>2. nextLease' \in 0 .. MaxLease
        BY <2>3, <3>1, ConstantsAssumption, SMTT(40) DEF TypeOK
      <3> QED
        BY <2>1, <3>1, <3>2 DEF TypeOK
    <2>5. OpType(op') /\ crashes' \in 0 .. MaxCrashes
      BY <1>5, DieType DEF PopCrash
    <2>6. steady' \in [Workers -> SUBSET Slots]
      BY <1>5, SteadyType DEF PopCrash
    <2> QED
      BY <1>5, <2>2, <2>4, <2>5, <2>6 DEF PopCrash, TypeOK, OpType
  <1> QED
    BY <1>1, <1>2, <1>3, <1>4, <1>5 DEF Pop

\* Every critical section of release keeps the types.
LEMMA ReleaseTypeOK ==
    ASSUME TypeOK, NEW w \in Workers, Release(w)
    PROVE  TypeOK'
  <1>0. op[w] \in Locals /\ now \in Nat
    BY ConstantsAssumption, SMTT(40) DEF TypeOK
  <1>1. ASSUME NEW lease \in 1 .. MaxLease, NEW d \in Delays,
               ReleaseStart(w, lease, d)
        PROVE  TypeOK'
    <2> DEFINE l == [Idle EXCEPT !.pc = "release", !.id = lease,
                                 !.t = SatAdd(now, d)]
    <2>1. SatAdd(now, d) \in Times /\ lease \in Nat
      BY <1>0, SatAddType, ConstantsAssumption, SMTT(40)
    <2>2. l \in Locals
      BY <2>1, IdleType DEF Locals
    <2>3. HasQueue(l)
      BY DEF HasQueue, Idle
    <2>4. OpType(op')
      BY <1>1, <2>2, <2>3, OpStep DEF ReleaseStart
    <2> QED
      BY <1>1, <2>4 DEF TypeOK, ReleaseStart, ghosts, OpType
  <1>2. [issued EXCEPT ![op[w].id].open = FALSE] \in
            [1 .. MaxLease -> [job: Nat, until: Nat, open: BOOLEAN]]
    BY DEF TypeOK
  <1>3. CASE ReleaseApply(w)
    <2>1. OpType(op')
      BY <1>3, FinishType DEF ReleaseApply
    <2>2. ring' \in [Slots -> Job]
      BY <1>3, ReleasedType, SMTT(40) DEF ReleaseApply, TypeOK
    <2>3. steady' \in [Workers -> SUBSET Slots]
      BY <1>3, SteadyType DEF ReleaseApply
    <2> QED
      BY <1>2, <1>3, <2>1, <2>2, <2>3 DEF ReleaseApply, TypeOK, OpType
  <1>4. CASE ReleaseUnknown(w)
    BY <1>4, FinishType, SteadyType
    DEF ReleaseUnknown, TypeOK, ghosts, OpType
  <1>5. CASE ReleaseCrash(w)
    <2>1. OpType(op') /\ crashes' \in 0 .. MaxCrashes
      BY <1>5, DieType DEF ReleaseCrash
    <2>2. ring' \in [Slots -> Job]
      <3>1. PICK s \in Slots, k \in 1 .. 3 :
              ring' = [ring EXCEPT ![s] =
                         Torn(ring[s], Released(w, s), ReleaseOrder, k)]
        BY <1>5 DEF ReleaseCrash
      <3> QED
        BY <3>1, ReleasedType, TornType DEF TypeOK
    <2>3. steady' \in [Workers -> SUBSET Slots]
      BY <1>5, SteadyType DEF ReleaseCrash
    <2> QED
      BY <1>2, <1>5, <2>1, <2>2, <2>3 DEF ReleaseCrash, TypeOK, OpType
  <1> QED
    BY <1>1, <1>3, <1>4, <1>5 DEF Release

\* A delete keeps the types.
LEMMA DeleteTypeOK ==
    ASSUME TypeOK, NEW w \in Workers, NEW lease \in 1 .. MaxLease,
           Delete(w, lease)
    PROVE  TypeOK'
  <1>1. PICK s \in Slots : /\ ring' = [ring EXCEPT ![s].id = 0]
                           /\ acked' = acked \cup {ring[s].id}
    BY DEF Delete
  <1>2. ring[s] \in Job
    BY DEF TypeOK
  <1>3. ring' \in [Slots -> Job] /\ acked' \subseteq Nat
    BY <1>1, <1>2 DEF TypeOK, Job
  <1>4. steady' \in [Workers -> SUBSET Slots]
    BY SteadyType DEF Delete
  <1> QED
    BY <1>3, <1>4 DEF Delete, TypeOK

\* Every step keeps the types.
LEMMA TypeStep == TypeOK /\ [Next]_vars => TypeOK'
  <1> SUFFICES ASSUME TypeOK, [Next]_vars
               PROVE  TypeOK'
    OBVIOUS
  <1>1. CASE UNCHANGED vars
    BY <1>1 DEF vars, TypeOK
  <1>2. ASSUME NEW w \in Workers, Crash(w)
        PROVE  TypeOK'
    BY <1>2, DieType, SteadyType DEF Crash, TypeOK, ghosts, OpType
  <1>3. CASE Tick
    BY <1>3, ConstantsAssumption, SMTT(40) DEF Tick, TypeOK, ghosts
  <1> QED
    BY <1>1, <1>2, <1>3, PushTypeOK, PopTypeOK, ReleaseTypeOK, DeleteTypeOK
    DEF Next

\* Type correctness: in particular no clock sum leaves the 64-bit range and
\* every scan index stays within the ring.
THEOREM TypeCorrect == Spec => []TypeOK
  BY TypeInit, TypeStep, PTL DEF Spec

-----------------------------------------------------------------------------
(***************************************************************************)
(* The inductive invariant behind NoJobLost, LeaseFence and                *)
(* ExclusiveReservation.                                                   *)
(***************************************************************************)
Pushing(w) == op[w].pc \in {"push_clock", "push_probe"}
Popping(w) == op[w].pc \in {"pop_scan", "pop_take"}

\* The calls in progress: a push holds an id nobody else holds and no job
\* has; a pop works with a clock reading of the past and, once it is past its
\* scan, with the id of a job.
CallInv ==
    /\ accepted \subseteq 1 .. nextId
    /\ acked \subseteq accepted
    /\ \A w \in Workers :
         /\ Pushing(w) => op[w].id \in (1 .. nextId) \ accepted
         /\ Popping(w) => op[w].t <= now
         /\ op[w].pc = "pop_take" => op[w].bestId # 0
    /\ \A v, w \in Workers :
         Pushing(v) /\ Pushing(w) /\ v # w => op[v].id # op[w].id

\* The leases: no lease of the future is recorded or stored, leases are of
\* accepted jobs, and the lease in an occupied slot is the newest of its job.
LeaseInv ==
    /\ \A l \in 1 .. MaxLease : issued[l].job \in accepted \cup {0}
    /\ \A l \in 1 .. MaxLease : l > nextLease => issued[l].job = 0
    /\ \A s \in Slots : ring[s].lease <= nextLease
    /\ \A s \in Slots : ring[s].id # 0 /\ ring[s].lease # 0
                           => Newest(ring[s].lease, ring[s].id)

\* Only the reservation a slot carries may still run, and then the slot says
\* until when.
WindowInv ==
    \A s \in Slots, m \in 1 .. MaxLease :
        ring[s].id # 0 /\ issued[m].job = ring[s].id /\ issued[m].open =>
            \/ issued[m].until <= now
            \/ /\ ring[s].lease = m
               /\ \/ ring[s].reservedUntil = issued[m].until
                  \/ ring[s].reservedUntil = U64Max

IInv == TypeOK /\ CallInv /\ NoJobLost /\ LeaseInv /\ WindowInv

\* The invariant holds of the empty ring.
LEMMA InvInit == Init => IInv
  <1> SUFFICES ASSUME Init
               PROVE  IInv
    OBVIOUS
  <1>1. TypeOK
    BY TypeInit
  <1>2. CallInv
    BY ConstantsAssumption DEF Init, CallInv, Pushing, Popping, Idle
  <1>3. NoJobLost
    BY DEF Init, NoJobLost, FreeSlot
  <1>4. LeaseInv /\ WindowInv
    BY SMTT(40) DEF Init, LeaseInv, WindowInv, FreeSlot, NoLease
  <1> QED
    BY <1>1, <1>2, <1>3, <1>4 DEF IInv

\* A step that leaves jobs and leases alone keeps what is said of them.
LEMMA QuietStep ==
    ASSUME IInv, TypeOK', now <= now',
           UNCHANGED <<ring, issued, accepted, acked, nextLease>>
    PROVE  NoJobLost' /\ LeaseInv' /\ WindowInv'
  <1>1. NoJobLost'
    BY DEF IInv, NoJobLost
  <1>2. LeaseInv'
    BY DEF IInv, LeaseInv, Newest
  <1>3. WindowInv'
    <2>1. now \in Nat /\ now' \in Nat
      BY ConstantsAssumption, SMTT(40) DEF IInv, TypeOK
    <2>2. \A m \in 1 .. MaxLease : issued[m].until \in Nat
      BY DEF IInv, TypeOK
    <2> QED
      BY <2>1, <2>2, SMTT(40) DEF IInv, WindowInv
  <1> QED
    BY <1>1, <1>2, <1>3

\* A call that ends keeps what is said of the other calls.
LEMMA CallDone ==
    ASSUME IInv, NEW w \in Workers, Finish(w),
           UNCHANGED <<now, nextId, accepted>>, acked' \subseteq accepted
    PROVE  CallInv'
  BY DEF IInv, TypeOK, CallInv, Finish, Idle, Pushing, Popping

\* A step that keeps ids and payloads in their slots loses no job.
LEMMA SameJobs ==
    ASSUME IInv, UNCHANGED <<accepted, acked>>,
           \A s \in Slots : /\ ring'[s].id = ring[s].id
                            /\ ring'[s].payload = ring[s].payload
    PROVE  NoJobLost'
  <1>1. {ring'[s].id : s \in Slots} = {ring[s].id : s \in Slots}
    OBVIOUS
  <1> QED
    BY <1>1, SMTT(40) DEF IInv, NoJobLost

\* When the second pass of a pop finds its job ready, every reservation of
\* that job that was not given back has run out.
LEMMA Lapsed ==
    ASSUME IInv, NEW w \in Workers, op[w].pc = "pop_take", StillThere(w),
           NEW m \in 1 .. MaxLease, issued[m].job = op[w].bestId,
           issued[m].open
    PROVE  issued[m].until <= now
  <1> DEFINE s == op[w].bestSlot
  <1>1. /\ s \in Slots /\ op[w].t \in Nat /\ op[w].t <= now /\ now \in Nat
        /\ now < U64Max /\ op[w].bestId # 0
    BY ConstantsAssumption, SMTT(40)
    DEF IInv, TypeOK, Locals, CallInv, Popping, Times
  <1>2. /\ ring[s].id = op[w].bestId
        /\ ring[s].reservedUntil = 0 \/ ring[s].reservedUntil <= op[w].t
    BY DEF StillThere, Ready
  <1>3. ring[s].reservedUntil \in Nat /\ issued[m].until \in Nat
    BY <1>1, ConstantsAssumption, SMTT(40) DEF IInv, TypeOK, Job, Times
  <1>4. \/ issued[m].until <= now
        \/ ring[s].reservedUntil = issued[m].until
        \/ ring[s].reservedUntil = U64Max
    BY <1>1, <1>2 DEF IInv, WindowInv
  <1> QED
    BY <1>1, <1>2, <1>3, <1>4, ConstantsAssumption, SMTT(40)

\* A reservation that is written in full, with its lease handed out.
LEMMA ReserveStep ==
    ASSUME IInv, TypeOK', NEW w \in Workers, op[w].pc = "pop_take",
           StillThere(w), nextLease < MaxLease, NEW x \in Job,
           x.id = ring[op[w].bestSlot].id,
           x.payload = ring[op[w].bestSlot].payload,
           x.lease = nextLease + 1,
           x.reservedUntil = SatAdd(op[w].t, op[w].arg),
           ring' = [ring EXCEPT ![op[w].bestSlot] = x],
           nextLease' = nextLease + 1,
           issued' = [issued EXCEPT ![nextLease + 1] = Issue(w)],
           UNCHANGED <<now, accepted, acked>>
    PROVE  NoJobLost' /\ LeaseInv' /\ WindowInv'
  <1> DEFINE b == op[w].bestSlot
  <1>1. /\ b \in Slots /\ ring[b].id = op[w].bestId /\ op[w].bestId # 0
        /\ nextLease \in Nat /\ nextLease + 1 \in 1 .. MaxLease
    <2>1. b \in Slots /\ nextLease \in Nat
      BY Counters, LocalsOf DEF IInv
    <2>2. ring[b].id = op[w].bestId
      BY DEF StillThere
    <2>3. op[w].bestId # 0
      BY DEF IInv, CallInv
    <2>4. nextLease + 1 \in 1 .. MaxLease
      BY <2>1, ConstantsAssumption, SMTT(40)
    <2> QED
      BY <2>1, <2>2, <2>3, <2>4
  <1>2. \A s \in Slots : ring'[s] = IF s = b THEN x ELSE ring[s]
    BY DEF IInv, TypeOK
  <1>3. \A m \in 1 .. MaxLease :
            issued'[m] = IF m = nextLease + 1 THEN Issue(w) ELSE issued[m]
    BY DEF IInv, TypeOK
  <1>4. Issue(w).job = op[w].bestId /\ Issue(w).until = op[w].t + op[w].arg
    BY DEF Issue
  <1>5. NoJobLost'
    BY <1>2, SameJobs
  <1>6. \A s \in Slots \ {b} : ring[s].id # op[w].bestId
    BY <1>1 DEF IInv, NoJobLost
  <1>7. op[w].bestId \in accepted
    BY <1>1, SMTT(40) DEF IInv, NoJobLost
  <1>8. \A s \in Slots : ring[s].lease \in Nat
    BY DEF IInv, TypeOK, Job
  <1>9. LeaseInv'
    <2>1. \A l \in 1 .. MaxLease : issued'[l].job \in accepted \cup {0}
      BY <1>3, <1>4, <1>7 DEF IInv, LeaseInv
    <2>2. \A l \in 1 .. MaxLease : l > nextLease + 1 => issued'[l].job = 0
      BY <1>1, <1>3, SMTT(40) DEF IInv, LeaseInv
    <2>3. \A s \in Slots : ring'[s].lease <= nextLease + 1
      BY <1>1, <1>2, <1>8, SMTT(40) DEF IInv, LeaseInv
    <2>4. ASSUME NEW s \in Slots, ring'[s].id # 0, ring'[s].lease # 0
          PROVE  Newest(ring[s].lease, ring[s].id)'
      <3>1. CASE s = b
        BY <1>1, <1>2, <1>3, <1>4, <2>2, <3>1, SMTT(40) DEF Newest
      <3>2. CASE s # b
        <4>1. Newest(ring[s].lease, ring[s].id) /\ ring[s].lease <= nextLease
          BY <1>2, <2>4, <3>2 DEF IInv, LeaseInv
        <4> QED
          BY <1>1, <1>2, <1>3, <1>4, <1>6, <1>8, <3>2, <4>1, SMTT(40) DEF Newest
      <3> QED
        BY <3>1, <3>2
    <2> QED
      BY <2>1, <2>2, <2>3, <2>4 DEF LeaseInv
  <1>10. WindowInv'
    <2> SUFFICES ASSUME NEW s \in Slots, NEW m \in 1 .. MaxLease,
                        ring'[s].id # 0, issued'[m].job = ring'[s].id,
                        issued'[m].open
                 PROVE  \/ issued'[m].until <= now
                        \/ /\ ring'[s].lease = m
                           /\ \/ ring'[s].reservedUntil = issued'[m].until
                              \/ ring'[s].reservedUntil = U64Max
      BY DEF WindowInv
    <2>1. CASE s = b /\ m = nextLease + 1
      BY <1>2, <1>3, <1>4, <2>1 DEF SatAdd
    <2>2. CASE s = b /\ m # nextLease + 1
      BY <1>1, <1>2, <1>3, <2>2, Lapsed, SMTT(40)
    <2>3. CASE s # b
      BY <1>2, <1>3, <1>4, <1>6, <2>3, SMTT(40) DEF IInv, WindowInv
    <2> QED
      BY <2>1, <2>2, <2>3
  <1> QED
    BY <1>5, <1>9, <1>10

\* A reservation cut short before its lease was stored.
LEMMA PartialReserveStep ==
    ASSUME IInv, TypeOK', NEW w \in Workers, op[w].pc = "pop_take",
           StillThere(w), NEW x \in Job,
           x.id = ring[op[w].bestSlot].id,
           x.payload = ring[op[w].bestSlot].payload,
           x.lease = ring[op[w].bestSlot].lease,
           ring' = [ring EXCEPT ![op[w].bestSlot] = x],
           nextLease' \in {nextLease, nextLease + 1},
           UNCHANGED <<now, issued, accepted, acked>>
    PROVE  NoJobLost' /\ LeaseInv' /\ WindowInv'
  <1> DEFINE b == op[w].bestSlot
  <1>1. b \in Slots /\ ring[b].id = op[w].bestId /\ nextLease \in Nat
    <2>1. b \in Slots /\ nextLease \in Nat
      BY Counters, LocalsOf DEF IInv
    <2>2. ring[b].id = op[w].bestId
      BY DEF StillThere
    <2> QED
      BY <2>1, <2>2
  <1>2. \A s \in Slots : ring'[s] = IF s = b THEN x ELSE ring[s]
    BY DEF IInv, TypeOK
  <1>3. NoJobLost'
    BY <1>2, SameJobs
  <1>4. \A s \in Slots : ring[s].lease \in Nat
    BY DEF IInv, TypeOK, Job
  <1>5. LeaseInv'
    <2>1. \A s \in Slots : ring'[s].lease = ring[s].lease
                           /\ ring'[s].id = ring[s].id
      BY <1>2
    <2>2. \A s \in Slots : ring[s].lease <= nextLease'
      BY <1>1, <1>4, SMTT(40) DEF IInv, LeaseInv
    <2>3. \A l \in 1 .. MaxLease : l > nextLease' => issued[l].job = 0
      BY <1>1, SMTT(40) DEF IInv, LeaseInv
    <2>4. \A s \in Slots : ring'[s].lease <= nextLease'
      BY <2>1, <2>2
    <2>5. \A l \in 1 .. MaxLease : issued[l].job \in accepted \cup {0}
      BY DEF IInv, LeaseInv
    <2>6. \A s \in Slots : ring'[s].id # 0 /\ ring'[s].lease # 0
                             => Newest(ring'[s].lease, ring'[s].id)
      BY <2>1 DEF IInv, LeaseInv
    <2>7. \A l, j : Newest(l, j)' <=> Newest(l, j)
      BY DEF Newest
    <2> QED
      BY <2>3, <2>4, <2>5, <2>6, <2>7 DEF LeaseInv, Newest
  <1>6. WindowInv'
    <2> SUFFICES ASSUME NEW s \in Slots, NEW m \in 1 .. MaxLease,
                        ring'[s].id # 0, issued[m].job = ring'[s].id,
                        issued[m].open
                 PROVE  \/ issued[m].until <= now
                        \/ /\ ring'[s].lease = m
                           /\ \/ ring'[s].reservedUntil = issued[m].until
                              \/ ring'[s].reservedUntil = U64Max
      BY DEF WindowInv
    <2>1. CASE s = b
      BY <1>1, <1>2, <2>1, Lapsed, SMTT(40)
    <2>2. CASE s # b
      BY <1>2, <2>2, SMTT(40) DEF IInv, WindowInv
    <2> QED
      BY <2>1, <2>2
  <1> QED
    BY <1>3, <1>5, <1>6

\* A release, whole or cut short: its lease is closed and either cleared or
\* left in the slot.
LEMMA GiveBackStep ==
    ASSUME IInv, TypeOK', NEW s \in Slots, NEW l \in Nat, Holds(s, l),
           NEW x \in Job, x.id = ring[s].id, x.payload = ring[s].payload,
           x.lease \in {0, ring[s].lease},
           ring' = [ring EXCEPT ![s] = x],
           issued' = [issued EXCEPT ![l].open = FALSE],
           UNCHANGED <<now, accepted, acked, nextLease>>
    PROVE  NoJobLost' /\ LeaseInv' /\ WindowInv'
  <1>1. \A r \in Slots : ring'[r] = IF r = s THEN x ELSE ring[r]
    BY DEF IInv, TypeOK
  <1>2. ring[s].id # 0 /\ ring[s].lease = l /\ nextLease \in Nat
    BY ConstantsAssumption, SMTT(40) DEF Holds, IInv, TypeOK
  <1>3. \A m \in 1 .. MaxLease :
            /\ issued'[m].job = issued[m].job
            /\ issued'[m].until = issued[m].until
            /\ issued'[m].open => issued[m].open /\ m # l
    BY DEF IInv, TypeOK
  <1>4. NoJobLost'
    BY <1>1, SameJobs
  <1>5. LeaseInv'
    <2>1. \A l1 \in 1 .. MaxLease : /\ issued'[l1].job \in accepted \cup {0}
                                    /\ l1 > nextLease => issued'[l1].job = 0
      BY <1>3 DEF IInv, LeaseInv
    <2>2. \A r \in Slots : ring'[r].lease <= nextLease
      BY <1>1, <1>2, SMTT(40) DEF IInv, LeaseInv
    <2>3. ASSUME NEW r \in Slots, ring'[r].id # 0, ring'[r].lease # 0
          PROVE  Newest(ring[r].lease, ring[r].id)'
      <3>1. ring'[r].id = ring[r].id /\ ring'[r].lease = ring[r].lease
        BY <1>1, <2>3
      <3>2. Newest(ring[r].lease, ring[r].id)
        BY <2>3, <3>1 DEF IInv, LeaseInv
      <3>3. ring[r].lease \in 1 .. MaxLease
        <4>1. ring[r].lease \in Nat /\ nextLease \in 0 .. MaxLease
          BY DEF IInv, TypeOK, Job
        <4>2. ring[r].lease <= nextLease
          BY DEF IInv, LeaseInv
        <4> QED
          BY <2>3, <3>1, <4>1, <4>2, ConstantsAssumption, SMTT(40)
      <3> QED
        BY <1>3, <3>1, <3>2, <3>3 DEF Newest
    <2> QED
      BY <2>1, <2>2, <2>3 DEF LeaseInv
  <1>6. WindowInv'
    <2> SUFFICES ASSUME NEW r \in Slots, NEW m \in 1 .. MaxLease,
                        ring'[r].id # 0, issued'[m].job = ring'[r].id,
                        issued'[m].open
                 PROVE  \/ issued'[m].until <= now
                        \/ /\ ring'[r].lease = m
                           /\ \/ ring'[r].reservedUntil = issued'[m].until
                              \/ ring'[r].reservedUntil = U64Max
      BY DEF WindowInv
    <2>1. CASE r = s
      BY <1>1, <1>2, <1>3, <2>1, SMTT(40) DEF IInv, WindowInv
    <2>2. CASE r # s
      BY <1>1, <1>3, <2>2, SMTT(40) DEF IInv, WindowInv
    <2> QED
      BY <2>1, <2>2
  <1> QED
    BY <1>4, <1>5, <1>6

\* A push that fills a free slot.
LEMMA FillStep ==
    ASSUME IInv, TypeOK', NEW w \in Workers, op[w].pc = "push_probe",
           NEW s \in Slots, ring[s].id = 0,
           NEW x \in Job, x.id = op[w].id, x.payload = op[w].id, x.lease = 0,
           ring' = [ring EXCEPT ![s] = x],
           accepted' = accepted \cup {op[w].id}, Finish(w),
           UNCHANGED <<now, nextId, nextLease, acked, issued>>
    PROVE  CallInv' /\ NoJobLost' /\ LeaseInv' /\ WindowInv'
  <1>1. \A r \in Slots : ring'[r] = IF r = s THEN x ELSE ring[r]
    BY DEF IInv, TypeOK
  <1>2. op[w].id \in (1 .. nextId) \ accepted /\ op[w].id # 0
    <2>1. nextId \in Nat /\ Pushing(w)
      BY Counters DEF IInv, Pushing
    <2>2. op[w].id \in (1 .. nextId) \ accepted
      BY <2>1 DEF IInv, CallInv
    <2> QED
      BY <2>1, <2>2, SMTT(40)
  <1>3. CallInv'
    BY <1>2 DEF IInv, TypeOK, CallInv, Finish, Idle, Pushing, Popping
  <1>4. {ring'[r].id : r \in Slots} \ {0} =
            ({ring[r].id : r \in Slots} \ {0}) \cup {op[w].id}
    BY <1>1, <1>2, SMTT(40)
  <1>5. {ring[r].id : r \in Slots} \ {0} = accepted \ acked
    BY DEF IInv, NoJobLost
  <1>6. op[w].id \notin acked
    BY <1>2 DEF IInv, CallInv
  <1>7. NoJobLost'
    <2>1. {ring'[r].id : r \in Slots} \ {0} = accepted' \ acked'
      BY <1>4, <1>5, <1>6
    <2>2. \A r \in Slots : ring[r].id # op[w].id
      BY <1>2, <1>5
    <2>3. \A r \in Slots : ring'[r].id # 0 =>
            /\ ring'[r].payload = ring'[r].id
            /\ \A t \in Slots \ {r} : ring'[t].id # ring'[r].id
      BY <1>1, <2>2, SMTT(40) DEF IInv, NoJobLost
    <2> QED
      BY <2>1, <2>3 DEF NoJobLost
  <1>8. LeaseInv'
    <2>0. nextLease \in Nat /\ \A r \in Slots : ring[r].lease <= nextLease
      BY Counters DEF IInv, LeaseInv
    <2>1. \A r \in Slots : ring'[r].lease <= nextLease
      BY <1>1, <2>0, SMTT(40)
    <2>2. \A r \in Slots : ring'[r].id # 0 /\ ring'[r].lease # 0
                             => Newest(ring'[r].lease, ring'[r].id)
      BY <1>1 DEF IInv, LeaseInv
    <2>3. \A l \in 1 .. MaxLease : issued[l].job \in accepted' \cup {0}
      BY DEF IInv, LeaseInv
    <2> QED
      BY <2>1, <2>2, <2>3 DEF IInv, LeaseInv, Newest
  <1>9. WindowInv'
    <2>1. \A m \in 1 .. MaxLease : issued[m].job # op[w].id
      BY <1>2 DEF IInv, LeaseInv
    <2> SUFFICES ASSUME NEW r \in Slots, NEW m \in 1 .. MaxLease,
                        ring'[r].id # 0, issued[m].job = ring'[r].id,
                        issued[m].open
                 PROVE  \/ issued[m].until <= now
                        \/ /\ ring'[r].lease = m
                           /\ \/ ring'[r].reservedUntil = issued[m].until
                              \/ ring'[r].reservedUntil = U64Max
      BY SMTT(40) DEF WindowInv
    <2>2. r # s
      BY <1>1, <2>1
    <2>3. ring'[r] = ring[r]
      BY <1>1, <2>2
    <2> QED
      BY <2>3 DEF IInv, WindowInv
  <1> QED
    BY <1>3, <1>7, <1>8, <1>9

\* A push that leaves its slot free, at most with other remains in it.
LEMMA UnfilledStep ==
    ASSUME IInv, TypeOK', NEW s \in Slots, ring[s].id = 0,
           NEW x \in Job, x.id = 0, x.lease \in {0, ring[s].lease},
           ring' = [ring EXCEPT ![s] = x],
           UNCHANGED <<now, accepted, nextLease, acked, issued>>
    PROVE  NoJobLost' /\ LeaseInv' /\ WindowInv'
  <1>1. \A r \in Slots : ring'[r] = IF r = s THEN x ELSE ring[r]
    BY DEF IInv, TypeOK
  <1>2. {ring'[r].id : r \in Slots} = {ring[r].id : r \in Slots}
    BY <1>1
  <1>3. NoJobLost'
    BY <1>1, <1>2, SMTT(40) DEF IInv, NoJobLost
  <1>4. LeaseInv'
    <2>1. nextLease \in Nat /\ ring[s].lease <= nextLease
      BY ConstantsAssumption, SMTT(40) DEF IInv, LeaseInv, TypeOK
    <2>2. x.lease <= nextLease
      BY <2>1, SMTT(40)
    <2>3. \A r \in Slots : ring'[r].lease <= nextLease'
      BY <1>1, <2>2 DEF IInv, LeaseInv
    <2>4. \A r \in Slots : ring'[r].id # 0 => ring'[r] = ring[r]
      BY <1>1
    <2> QED
      BY <2>3, <2>4 DEF IInv, LeaseInv, Newest
  <1>5. WindowInv'
    BY <1>1, SMTT(40) DEF IInv, WindowInv
  <1> QED
    BY <1>3, <1>4, <1>5

\* A delete frees one slot and removes one job.
LEMMA DeleteStep ==
    ASSUME IInv, TypeOK', NEW s \in Slots, ring[s].id # 0,
           ring' = [ring EXCEPT ![s].id = 0],
           acked' = acked \cup {ring[s].id},
           UNCHANGED <<now, op, nextId, accepted, nextLease, issued>>
    PROVE  CallInv' /\ NoJobLost' /\ LeaseInv' /\ WindowInv'
  <1>1. \A r \in Slots :
            /\ ring'[r].id = IF r = s THEN 0 ELSE ring[r].id
            /\ ring'[r].lease = ring[r].lease
            /\ ring'[r].payload = ring[r].payload
            /\ ring'[r].reservedUntil = ring[r].reservedUntil
    BY DEF IInv, TypeOK, Job
  <1>2. {ring[r].id : r \in Slots} \ {0} = accepted \ acked
    BY DEF IInv, NoJobLost
  <1>3. ring[s].id \in accepted
    BY <1>2
  <1>4. CallInv'
    BY <1>3 DEF IInv, CallInv, Pushing, Popping
  <1>5. \A r \in Slots \ {s} : ring[r].id # ring[s].id
    BY DEF IInv, NoJobLost
  <1>6. {ring'[r].id : r \in Slots} \ {0} =
            ({ring[r].id : r \in Slots} \ {0}) \ {ring[s].id}
    BY <1>1, <1>5, SMTT(40)
  <1>7. NoJobLost'
    BY <1>1, <1>2, <1>6, SMTT(40) DEF IInv, NoJobLost
  <1>8. LeaseInv'
    BY <1>1, SMTT(40) DEF IInv, LeaseInv, Newest
  <1>9. WindowInv'
    BY <1>1, SMTT(40) DEF IInv, WindowInv
  <1> QED
    BY <1>4, <1>7, <1>8, <1>9

\* What a crash leaves in the fields the invariant is about.
LEMMA TornFields ==
    ASSUME NEW old \in Job, NEW new \in Job, NEW order, NEW k
    PROVE  LET x == Torn(old, new, order, k)
           IN  /\ x.id = IF order.id <= k THEN new.id ELSE old.id
               /\ x.payload = IF order.payload <= k THEN new.payload
                              ELSE old.payload
               /\ x.lease = IF order.lease <= k THEN new.lease ELSE old.lease
               /\ x.reservedUntil = IF order.reservedUntil <= k
                                    THEN new.reservedUntil
                                    ELSE old.reservedUntil
  BY DEF Torn, Job

\* The same for push, whose stores are queue, avail, reserved_until, lease,
\* attempts, payload and, last, id.
LEMMA TornPush ==
    ASSUME NEW old \in Job, NEW new \in Job, NEW k \in 1 .. 7
    PROVE  /\ Torn(old, new, PushOrder, k).id =
                IF k = 7 THEN new.id ELSE old.id
           /\ k = 7 => Torn(old, new, PushOrder, k).payload = new.payload
           /\ Torn(old, new, PushOrder, k).lease \in {new.lease, old.lease}
           /\ k = 7 => Torn(old, new, PushOrder, k).lease = new.lease
  <1>1. PushOrder.id = 7 /\ PushOrder.payload = 6 /\ PushOrder.lease = 4
    BY DEF PushOrder
  <1>2. Torn(old, new, PushOrder, k).id =
          IF PushOrder.id <= k THEN new.id ELSE old.id
    BY TornFields, SMTT(40)
  <1>3. Torn(old, new, PushOrder, k).payload =
          IF PushOrder.payload <= k THEN new.payload ELSE old.payload
    BY TornFields, SMTT(40)
  <1>4. Torn(old, new, PushOrder, k).lease =
          IF PushOrder.lease <= k THEN new.lease ELSE old.lease
    BY TornFields, SMTT(40)
  <1>5. 7 <= k <=> k = 7
    BY SMTT(40)
  <1>6. k = 7 => 6 <= k /\ 4 <= k
    BY SMTT(40)
  <1>7. Torn(old, new, PushOrder, k).id = IF k = 7 THEN new.id ELSE old.id
    BY <1>1, <1>2, <1>5
  <1>8. k = 7 => Torn(old, new, PushOrder, k).payload = new.payload
    BY <1>1, <1>3, <1>6
  <1>9. /\ Torn(old, new, PushOrder, k).lease \in {new.lease, old.lease}
        /\ k = 7 => Torn(old, new, PushOrder, k).lease = new.lease
    BY <1>1, <1>4, <1>6
  <1> QED
    BY <1>7, <1>8, <1>9

\* The same for pop, whose stores are attempts, reserved_until and lease.
LEMMA TornPop ==
    ASSUME NEW old \in Job, NEW new \in Job, NEW k \in 1 .. 3
    PROVE  /\ Torn(old, new, PopOrder, k).id = old.id
           /\ Torn(old, new, PopOrder, k).payload = old.payload
           /\ Torn(old, new, PopOrder, k).lease =
                IF k = 3 THEN new.lease ELSE old.lease
           /\ Torn(old, new, PopOrder, k).reservedUntil =
                IF k = 1 THEN old.reservedUntil ELSE new.reservedUntil
  <1>1. /\ PopOrder.id = 4 /\ PopOrder.payload = 4
        /\ PopOrder.lease = 3 /\ PopOrder.reservedUntil = 2
    BY DEF PopOrder
  <1>2. Torn(old, new, PopOrder, k).id =
          IF PopOrder.id <= k THEN new.id ELSE old.id
    BY TornFields, SMTT(40)
  <1>3. Torn(old, new, PopOrder, k).payload =
          IF PopOrder.payload <= k THEN new.payload ELSE old.payload
    BY TornFields, SMTT(40)
  <1>4. Torn(old, new, PopOrder, k).lease =
          IF PopOrder.lease <= k THEN new.lease ELSE old.lease
    BY TornFields, SMTT(40)
  <1>5. Torn(old, new, PopOrder, k).reservedUntil =
          IF PopOrder.reservedUntil <= k THEN new.reservedUntil
          ELSE old.reservedUntil
    BY TornFields, SMTT(40)
  <1>6. ~ (4 <= k) /\ (3 <= k <=> k = 3) /\ (2 <= k <=> k # 1)
    BY SMTT(40)
  <1>7. Torn(old, new, PopOrder, k).id = old.id
    BY <1>1, <1>2, <1>6
  <1>8. Torn(old, new, PopOrder, k).payload = old.payload
    BY <1>1, <1>3, <1>6
  <1>9. Torn(old, new, PopOrder, k).lease =
          IF k = 3 THEN new.lease ELSE old.lease
    BY <1>1, <1>4, <1>6
  <1>10. Torn(old, new, PopOrder, k).reservedUntil =
           IF k = 1 THEN old.reservedUntil ELSE new.reservedUntil
    BY <1>1, <1>5, <1>6
  <1> QED
    BY <1>7, <1>8, <1>9, <1>10

\* The same for release, which stores avail, reserved_until and lease.
LEMMA TornRelease ==
    ASSUME NEW old \in Job, NEW new \in Job, NEW k \in 1 .. 3
    PROVE  /\ Torn(old, new, ReleaseOrder, k).id = old.id
           /\ Torn(old, new, ReleaseOrder, k).payload = old.payload
           /\ Torn(old, new, ReleaseOrder, k).lease \in {new.lease, old.lease}
  <1>1. ReleaseOrder.id = 4 /\ ReleaseOrder.payload = 4
    BY DEF ReleaseOrder
  <1>2. Torn(old, new, ReleaseOrder, k).id =
          IF ReleaseOrder.id <= k THEN new.id ELSE old.id
    BY TornFields, SMTT(40)
  <1>3. Torn(old, new, ReleaseOrder, k).payload =
          IF ReleaseOrder.payload <= k THEN new.payload ELSE old.payload
    BY TornFields, SMTT(40)
  <1>4. Torn(old, new, ReleaseOrder, k).lease \in {new.lease, old.lease}
    BY TornFields, SMTT(40)
  <1>5. ~ (4 <= k)
    BY SMTT(40)
  <1>6. Torn(old, new, ReleaseOrder, k).id = old.id
    BY <1>1, <1>2, <1>5
  <1>7. Torn(old, new, ReleaseOrder, k).payload = old.payload
    BY <1>1, <1>3, <1>5
  <1> QED
    BY <1>4, <1>6, <1>7

\* Every critical section of push keeps the invariant.
LEMMA PushInv ==
    ASSUME IInv, TypeOK', NEW w \in Workers, Push(w)
    PROVE  IInv'
  <1>0. TypeOK /\ now <= now' /\ now \in Nat
    <2>0. TypeOK
      BY DEF IInv
    <2>1. TypeOK /\ now \in Nat
      BY <2>0, Counters
    <2>2. now' = now
      BY DEF Push, PushTicket, PushClock, PushProbe, PushCrash
    <2> QED
      BY <2>1, <2>2, SMTT(40)
  <1>1. ASSUME NEW q \in Queues, NEW d \in Delays, PushTicket(w, q, d)
        PROVE  IInv'
    <2>1. \A v \in Workers \ {w} : op'[v] = op[v]
      BY <1>0, <1>1 DEF PushTicket, TypeOK
    <2>2. op'[w].pc = "push_clock" /\ op'[w].id = nextId + 1
      BY <1>0, <1>1 DEF PushTicket, TypeOK, Idle
    <2>3. nextId \in Nat /\ nextId' = nextId + 1
      BY <1>0, <1>1, ConstantsAssumption, SMTT(40) DEF PushTicket, TypeOK
    <2>4. UNCHANGED <<now, accepted, acked>>
      BY <1>1 DEF PushTicket, ghosts
    <2>5. CallInv'
      BY <2>1, <2>2, <2>3, <2>4, SMTT(40) DEF IInv, CallInv, Pushing, Popping
    <2> QED
      BY <1>0, <1>1, <2>5, QuietStep DEF PushTicket, ghosts, IInv
  <1>2. CASE PushClock(w)
    <2>1. CallInv'
      BY <1>0, <1>2, SMTT(40)
      DEF IInv, CallInv, Pushing, Popping, PushClock, ghosts, TypeOK
    <2> QED
      BY <1>0, <1>2, <2>1, QuietStep DEF PushClock, ghosts, IInv
  <1>3. CASE PushProbe(w)
    <2>1. CASE MayFill(w)
      <3>1. PushSlot(w) \in Slots /\ NewJob(w) \in Job
        BY <1>0, PushSlotType, NewJobType
      <3>2. /\ NewJob(w).id = op[w].id /\ NewJob(w).payload = op[w].id
            /\ NewJob(w).lease = 0
        BY DEF NewJob
      <3> QED
        BY <1>3, <2>1, <3>1, <3>2, FillStep DEF PushProbe, MayFill, IInv
    <2>2. CASE ~MayFill(w)
      <3>1. UNCHANGED <<now, ring, issued, accepted, acked, nextLease, nextId>>
        BY <1>3, <2>2 DEF PushProbe
      <3>2. CASE LastProbe(w)
        <4>1. Finish(w) /\ acked \subseteq accepted
          BY <1>3, <2>2, <3>2 DEF PushProbe, Finish, IInv, CallInv
        <4> QED
          BY <1>0, <3>1, <4>1, CallDone, QuietStep DEF IInv
      <3>3. CASE ~LastProbe(w)
        <4>1. op' = [op EXCEPT ![w] = [op[w] EXCEPT !.i = op[w].i + 1]]
          BY <1>3, <2>2, <3>3 DEF PushProbe
        <4>2. \A v \in Workers : op'[v].pc = op[v].pc /\ op'[v].id = op[v].id
                /\ op'[v].t = op[v].t /\ op'[v].bestId = op[v].bestId
          <5>1. op \in [Workers -> Locals] /\ op[w] \in Locals
            BY <1>0 DEF TypeOK
          <5>2. \A v \in Workers \ {w} : op'[v] = op[v]
            BY <4>1, <5>1
          <5>3. op'[w] = [op[w] EXCEPT !.i = op[w].i + 1]
            BY <4>1, <5>1
          <5>4. op'[w].pc = op[w].pc /\ op'[w].id = op[w].id
                /\ op'[w].t = op[w].t /\ op'[w].bestId = op[w].bestId
            BY <5>1, <5>3 DEF Locals
          <5> QED
            BY <5>2, <5>4
        <4>3. CallInv'
          BY <3>1, <4>2, SMTT(40) DEF IInv, CallInv, Pushing, Popping
        <4> QED
          BY <1>0, <3>1, <4>3, QuietStep DEF IInv
      <3> QED
        BY <3>2, <3>3
    <2> QED
      BY <2>1, <2>2
  <1>4. CASE PushCrash(w)
    <2> DEFINE s == PushSlot(w)
    <2>1. PICK k \in 1 .. 7 :
            /\ ring' = [ring EXCEPT ![s] =
                          Torn(ring[s], NewJob(w), PushOrder, k)]
            /\ accepted' = IF k = 7 THEN accepted \cup {op[w].id}
                           ELSE accepted
      BY <1>4 DEF PushCrash
    <2> DEFINE x == Torn(ring[s], NewJob(w), PushOrder, k)
    <2>2. s \in Slots /\ NewJob(w) \in Job /\ ring[s] \in Job
      BY <1>0, PushSlotType, NewJobType DEF TypeOK
    <2>3. /\ NewJob(w).id = op[w].id /\ NewJob(w).payload = op[w].id
          /\ NewJob(w).lease = 0
      BY DEF NewJob
    <2>4. x \in Job
      BY <2>2, TornType
    <2>5. /\ x.id = IF k = 7 THEN op[w].id ELSE ring[s].id
          /\ k = 7 => x.payload = op[w].id /\ x.lease = 0
          /\ x.lease \in {0, ring[s].lease}
      <3>1. /\ x.id = IF k = 7 THEN NewJob(w).id ELSE ring[s].id
            /\ k = 7 => x.payload = NewJob(w).payload
            /\ x.lease \in {NewJob(w).lease, ring[s].lease}
            /\ k = 7 => x.lease = NewJob(w).lease
        <4> DEFINE old == ring[s]
                   new == NewJob(w)
        <4>1. old \in Job /\ new \in Job /\ x = Torn(old, new, PushOrder, k)
          BY <2>2
        <4> HIDE DEF old, new, x
        <4>2. /\ x.id = IF k = 7 THEN new.id ELSE old.id
              /\ k = 7 => x.payload = new.payload
              /\ x.lease \in {new.lease, old.lease}
              /\ k = 7 => x.lease = new.lease
          BY <4>1, TornPush, SMTT(40)
        <4> QED
          BY <4>2 DEF old, new
      <3> HIDE DEF x, s
      <3> QED
        BY <2>3, <3>1
    <2>6. /\ ring[s].id = 0 /\ op[w].pc = "push_probe" /\ Finish(w)
          /\ UNCHANGED <<now, nextId, nextLease, acked, issued>>
      BY <1>4 DEF PushCrash, MayFill, Die
    <2> HIDE DEF x, s
    <2>7. CASE k = 7
      <3>1. x.id = op[w].id /\ x.payload = op[w].id /\ x.lease = 0
        BY <2>5, <2>7
      <3> QED
        BY <2>1, <2>2, <2>4, <2>6, <2>7, <3>1, FillStep DEF IInv, x
    <2>8. CASE k # 7
      <3>1. x.id = 0 /\ x.lease \in {0, ring[s].lease}
        BY <2>5, <2>6, <2>8
      <3>2. NoJobLost' /\ LeaseInv' /\ WindowInv'
        BY <2>1, <2>2, <2>4, <2>6, <2>8, <3>1, UnfilledStep DEF x
      <3>3. acked' \subseteq accepted
        BY <2>6 DEF IInv, CallInv
      <3> QED
        BY <2>1, <2>6, <2>8, <3>2, <3>3, CallDone DEF IInv
    <2> QED
      BY <2>7, <2>8
  <1> QED
    BY <1>1, <1>2, <1>3, <1>4 DEF Push

\* Every critical section of pop keeps the invariant.
LEMMA PopInv ==
    ASSUME IInv, TypeOK', NEW w \in Workers, Pop(w)
    PROVE  IInv'
  <1>0. TypeOK /\ now <= now' /\ now \in Nat /\ acked \subseteq accepted
    <2>1. TypeOK /\ acked \subseteq accepted
      BY DEF IInv, CallInv
    <2>2. now \in Nat
      BY <2>1, Counters
    <2>3. now' = now
      BY DEF Pop, PopStart, PopScan, PopTake, PopMissed, PopCrash
    <2> QED
      BY <2>1, <2>2, <2>3, SMTT(40)
  <1>1. ASSUME NEW q \in Queues, NEW v \in Visibility, PopStart(w, q, v)
        PROVE  IInv'
    <2>1. \A u \in Workers \ {w} : op'[u] = op[u]
      BY <1>0, <1>1 DEF PopStart, TypeOK
    <2>2. op'[w].pc = "pop_scan" /\ op'[w].t = now
      BY <1>0, <1>1 DEF PopStart, TypeOK, Idle
    <2>3. UNCHANGED <<now, nextId, accepted, acked>>
      BY <1>1 DEF PopStart, ghosts
    <2>4. CallInv'
      BY <1>0, <2>1, <2>2, <2>3 DEF IInv, CallInv, Pushing, Popping
    <2> QED
      BY <1>0, <1>1, <2>4, QuietStep DEF PopStart, ghosts, IInv
  <1>2. CASE PopScan(w)
    <2>1. UNCHANGED <<now, nextId, ring, issued, accepted, acked, nextLease>>
      BY <1>2 DEF PopScan, ghosts
    <2>2. \A u \in Workers \ {w} : op'[u] = op[u]
      BY <1>0, <1>2 DEF PopScan, TypeOK
    <2>3. \/ op'[w].pc = "idle"
          \/ /\ op'[w].pc = "pop_scan" \/
                  (op'[w].pc = "pop_take" /\ op'[w].bestId # 0)
             /\ op'[w].t = op[w].t
      <3> DEFINE s == op[w].i
                 seen == IF Better(w, s)
                         THEN [op[w] EXCEPT !.bestSlot = s,
                                            !.bestId = ring[s].id,
                                            !.bestAvail = ring[s].avail]
                         ELSE op[w]
      <3>1. op'[w] = IF s + 1 < N THEN [seen EXCEPT !.i = s + 1]
                     ELSE IF seen.bestId = 0 THEN Idle
                     ELSE [seen EXCEPT !.pc = "pop_take"]
        BY <1>0, <1>2 DEF PopScan, TypeOK
      <3>2. op[w] \in Locals /\ s \in Slots /\ op[w].pc = "pop_scan"
        BY <1>0, <1>2 DEF TypeOK, Locals, PopScan
      <3>3. ring[s].id \in Nat /\ ring[s].avail \in Times
        BY <1>0, <3>2 DEF TypeOK, Job
      <3>4. /\ seen \in Locals /\ seen.pc = "pop_scan"
            /\ seen.t = op[w].t
        BY <3>2, <3>3 DEF Locals
      <3> HIDE DEF seen
      <3> QED
        BY <3>1, <3>4, SMTT(40) DEF Locals, Idle
    <2>4. op[w].t <= now
      BY <1>2 DEF PopScan, IInv, CallInv, Popping
    <2>5. CallInv'
      BY <1>0, <2>1, <2>2, <2>3, <2>4 DEF IInv, CallInv, Pushing, Popping
    <2> QED
      BY <1>0, <2>1, <2>5, QuietStep DEF IInv
  <1>3. ASSUME op[w].pc = "pop_take", StillThere(w), nextLease < MaxLease
        PROVE  /\ op[w].bestSlot \in Slots
               /\ ring[op[w].bestSlot] \in Job /\ Reserve(w) \in Job
               /\ Reserve(w).id = ring[op[w].bestSlot].id
               /\ Reserve(w).payload = ring[op[w].bestSlot].payload
               /\ Reserve(w).lease = nextLease + 1
               /\ Reserve(w).reservedUntil = SatAdd(op[w].t, op[w].arg)
    <2>1. op[w].bestSlot \in Slots
      BY <1>0 DEF TypeOK, Locals
    <2>2. ring[op[w].bestSlot] \in Job
      BY <1>0, <2>1 DEF TypeOK
    <2> QED
      BY <1>0, <2>1, <2>2, ReserveType DEF Reserve, Job
  <1>4. CASE PopTake(w)
    <2>1. /\ op[w].pc = "pop_take" /\ StillThere(w) /\ nextLease < MaxLease
          /\ UNCHANGED <<now, nextId, accepted, acked>> /\ Finish(w)
      BY <1>4 DEF PopTake
    <2>2. CallInv'
      BY <1>0, <2>1, CallDone
    <2>3. NoJobLost' /\ LeaseInv' /\ WindowInv'
      BY <1>3, <1>4, <2>1, ReserveStep DEF PopTake
    <2> QED
      BY <2>2, <2>3 DEF IInv
  <1>5. CASE PopMissed(w)
    BY <1>0, <1>5, CallDone, QuietStep DEF PopMissed, ghosts, IInv
  <1>6. CASE PopCrash(w)
    <2> DEFINE b == op[w].bestSlot
    <2>1. PICK k \in 1 .. 3 :
            /\ ring' = [ring EXCEPT ![b] =
                         Torn(ring[b], Reserve(w), PopOrder, k)]
            /\ nextLease' \in
                 {nextLease + n : n \in (k \div 3) .. (k \div 2)}
            /\ issued' = IF k = 3
                         THEN [issued EXCEPT ![nextLease + 1] = Issue(w)]
                         ELSE issued
      BY <1>6 DEF PopCrash
    <2> DEFINE x == Torn(ring[b], Reserve(w), PopOrder, k)
    <2>2. /\ op[w].pc = "pop_take" /\ StillThere(w) /\ nextLease < MaxLease
          /\ UNCHANGED <<now, nextId, accepted, acked>> /\ Finish(w)
      BY <1>6 DEF PopCrash, Die
    <2>a. ring[b] \in Job /\ Reserve(w) \in Job
      BY <1>3, <2>2
    <2>b. /\ Reserve(w).lease = nextLease + 1
          /\ Reserve(w).reservedUntil = SatAdd(op[w].t, op[w].arg)
      BY <1>3, <2>2
    <2>3. x \in Job
      BY <2>a, TornType
    <2>c. /\ x.id = ring[b].id /\ x.payload = ring[b].payload
          /\ x.lease = IF k = 3 THEN Reserve(w).lease ELSE ring[b].lease
          /\ x.reservedUntil = IF k = 1 THEN ring[b].reservedUntil
                               ELSE Reserve(w).reservedUntil
      <3> DEFINE old == ring[b]
                 new == Reserve(w)
      <3>1. old \in Job /\ new \in Job /\ x = Torn(old, new, PopOrder, k)
        BY <2>a
      <3> HIDE DEF old, new, x
      <3>2. /\ x.id = old.id /\ x.payload = old.payload
            /\ x.lease = IF k = 3 THEN new.lease ELSE old.lease
            /\ x.reservedUntil = IF k = 1 THEN old.reservedUntil
                                 ELSE new.reservedUntil
        BY <3>1, TornPop, SMTT(40)
      <3> QED
        BY <3>2 DEF old, new
    <2>4. /\ x.id = ring[b].id /\ x.payload = ring[b].payload
          /\ x.lease = IF k = 3 THEN nextLease + 1 ELSE ring[b].lease
          /\ x.reservedUntil = IF k = 1 THEN ring[b].reservedUntil
                               ELSE SatAdd(op[w].t, op[w].arg)
      <3> HIDE DEF x, b
      <3> QED
        BY <2>b, <2>c
    <2>5. PICK n \in (k \div 3) .. (k \div 2) : nextLease' = nextLease + n
      BY <2>1
    <2>6. (k \div 3) \in 0 .. 1 /\ (k \div 2) \in 0 .. 1
          /\ (k = 3 => k \div 3 = 1)
      BY SMTT(40), k = 1 \/ k = 2 \/ k = 3
    <2>7. (n = 0 \/ n = 1) /\ (k = 3 => n = 1)
      BY <2>5, <2>6, SMTT(40)
    <2>8. nextLease + 0 = nextLease
      BY <1>0, Counters, SMTT(40)
    <2>9. CallInv'
      BY <1>0, <2>2, CallDone
    <2> HIDE DEF x
    <2>10. CASE k = 3
      <3>1. /\ x.lease = nextLease + 1
            /\ x.reservedUntil = SatAdd(op[w].t, op[w].arg)
            /\ nextLease' = nextLease + 1
            /\ issued' = [issued EXCEPT ![nextLease + 1] = Issue(w)]
        <4>1. x.lease = nextLease + 1
          BY <2>4, <2>10
        <4>2. k # 1
          BY <2>10, SMTT(40)
        <4>3. x.reservedUntil = SatAdd(op[w].t, op[w].arg)
          BY <2>4, <4>2
        <4>4. nextLease' = nextLease + 1
          BY <2>5, <2>7, <2>10
        <4>5. issued' = [issued EXCEPT ![nextLease + 1] = Issue(w)]
          BY <2>1, <2>10
        <4> QED
          BY <4>1, <4>3, <4>4, <4>5
      <3>2. ring' = [ring EXCEPT ![b] = x]
        BY <2>1 DEF x
      <3>3. NoJobLost' /\ LeaseInv' /\ WindowInv'
        BY <2>2, <2>3, <2>4, <3>1, <3>2, ReserveStep
      <3> QED
        BY <2>9, <3>3 DEF IInv
    <2>11. CASE k # 3
      <3>1. /\ x.lease = ring[b].lease /\ issued' = issued
            /\ nextLease' \in {nextLease, nextLease + 1}
        BY <2>1, <2>4, <2>5, <2>7, <2>8, <2>11
      <3>2. ring' = [ring EXCEPT ![b] = x]
        BY <2>1 DEF x
      <3>3. NoJobLost' /\ LeaseInv' /\ WindowInv'
        BY <2>2, <2>3, <2>4, <3>1, <3>2, PartialReserveStep
      <3> QED
        BY <2>9, <3>3 DEF IInv
    <2> QED
      BY <2>10, <2>11
  <1> QED
    BY <1>1, <1>2, <1>4, <1>5, <1>6 DEF Pop

\* Every critical section of release keeps the invariant.
LEMMA ReleaseInv ==
    ASSUME IInv, TypeOK', NEW w \in Workers, Release(w)
    PROVE  IInv'
  <1>0. TypeOK /\ acked \subseteq accepted
    BY DEF IInv, CallInv
  <1>1. op[w].id \in Nat /\ now \in Nat /\ now <= now
    BY <1>0, Counters, LocalsOf, SMTT(40)
  <1>2. ASSUME NEW lease \in 1 .. MaxLease, NEW d \in Delays,
               ReleaseStart(w, lease, d)
        PROVE  IInv'
    <2>1. \A u \in Workers \ {w} : op'[u] = op[u]
      BY <1>0, <1>2 DEF ReleaseStart, TypeOK
    <2>2. op'[w].pc = "release"
      BY <1>0, <1>2 DEF ReleaseStart, TypeOK, Idle
    <2>3. UNCHANGED <<now, nextId, ring, issued, accepted, acked, nextLease>>
      BY <1>2 DEF ReleaseStart, ghosts
    <2>4. CallInv'
      BY <1>0, <2>1, <2>2, <2>3 DEF IInv, CallInv, Pushing, Popping
    <2>5. NoJobLost' /\ LeaseInv' /\ WindowInv'
      BY <1>1, <2>3, QuietStep
    <2> QED
      BY <2>4, <2>5 DEF IInv
  <1>3. CASE ReleaseApply(w)
    <2>1. PICK s \in Slots : /\ Holds(s, op[w].id)
                             /\ ring' = [ring EXCEPT ![s] = Released(w, s)]
      BY <1>3 DEF ReleaseApply
    <2>2. /\ issued' = [issued EXCEPT ![op[w].id].open = FALSE] /\ Finish(w)
          /\ UNCHANGED <<now, nextId, nextLease, accepted, acked>>
      BY <1>3 DEF ReleaseApply
    <2>3. Released(w, s) \in Job /\ ring[s] \in Job
      BY <1>0, ReleasedType DEF TypeOK
    <2>4. /\ Released(w, s).id = ring[s].id
          /\ Released(w, s).payload = ring[s].payload
          /\ Released(w, s).lease = 0
      BY <2>3 DEF Released, Job
    <2>5. NoJobLost' /\ LeaseInv' /\ WindowInv'
      BY <1>1, <2>1, <2>2, <2>3, <2>4, GiveBackStep
    <2> QED
      BY <1>0, <2>2, <2>5, CallDone DEF IInv
  <1>4. CASE ReleaseUnknown(w)
    <2>1. /\ Finish(w)
          /\ UNCHANGED <<now, nextId, ring, issued, accepted, acked,
                         nextLease>>
      BY <1>4 DEF ReleaseUnknown, ghosts
    <2>2. NoJobLost' /\ LeaseInv' /\ WindowInv'
      BY <1>1, <2>1, QuietStep
    <2> QED
      BY <1>0, <2>1, <2>2, CallDone DEF IInv
  <1>5. CASE ReleaseCrash(w)
    <2>1. PICK s \in Slots, k \in 1 .. 3 :
            /\ Holds(s, op[w].id)
            /\ ring' = [ring EXCEPT ![s] =
                          Torn(ring[s], Released(w, s), ReleaseOrder, k)]
      BY <1>5 DEF ReleaseCrash
    <2> DEFINE x == Torn(ring[s], Released(w, s), ReleaseOrder, k)
    <2>2. /\ issued' = [issued EXCEPT ![op[w].id].open = FALSE] /\ Finish(w)
          /\ UNCHANGED <<now, nextId, nextLease, accepted, acked>>
      BY <1>5 DEF ReleaseCrash, Die
    <2>3. Released(w, s) \in Job /\ ring[s] \in Job
      BY <1>0, ReleasedType DEF TypeOK
    <2>4. Released(w, s).lease = 0
      BY <2>3 DEF Released, Job
    <2>5. x \in Job
      BY <2>3, TornType
    <2>6. /\ x.id = ring[s].id /\ x.payload = ring[s].payload
          /\ x.lease \in {0, ring[s].lease}
      <3>1. /\ x.id = ring[s].id /\ x.payload = ring[s].payload
            /\ x.lease \in {Released(w, s).lease, ring[s].lease}
        BY <2>3, TornRelease
      <3> HIDE DEF x
      <3> QED
        BY <2>4, <3>1
    <2>7. ring' = [ring EXCEPT ![s] = x]
      BY <2>1
    <2> HIDE DEF x
    <2>8. NoJobLost' /\ LeaseInv' /\ WindowInv'
      BY <1>1, <2>1, <2>2, <2>5, <2>6, <2>7, GiveBackStep
    <2> QED
      BY <1>0, <2>2, <2>8, CallDone DEF IInv
  <1> QED
    BY <1>2, <1>3, <1>4, <1>5 DEF Release

\* Every step keeps the invariant.
LEMMA InvStep == IInv /\ [Next]_vars => IInv'
  <1> SUFFICES ASSUME IInv, [Next]_vars
               PROVE  IInv'
    OBVIOUS
  <1>0. TypeOK' /\ TypeOK
    BY TypeStep DEF IInv
  <1>1. acked \subseteq accepted /\ now \in Nat /\ now <= now /\ now <= now + 1
    <2>1. acked \subseteq accepted
      BY DEF IInv, CallInv
    <2>2. now \in Nat
      BY <1>0, SMTT(40) DEF TypeOK
    <2> QED
      BY <2>1, <2>2, SMTT(40)
  <1>2. CASE UNCHANGED vars
    <2>1. NoJobLost' /\ LeaseInv' /\ WindowInv'
      BY <1>0, <1>1, <1>2, QuietStep DEF vars
    <2> QED
      BY <1>0, <1>2, <2>1 DEF vars, IInv, CallInv, Pushing, Popping
  <1>3. ASSUME NEW w \in Workers, NEW lease \in 1 .. MaxLease,
               Delete(w, lease)
        PROVE  IInv'
    <2>1. PICK s \in Slots : /\ Holds(s, lease)
                             /\ ring' = [ring EXCEPT ![s].id = 0]
                             /\ acked' = acked \cup {ring[s].id}
      BY <1>3 DEF Delete
    <2>2. ring[s].id # 0
      BY <2>1 DEF Holds
    <2>3. UNCHANGED <<now, op, nextId, accepted, nextLease, issued>>
      BY <1>3 DEF Delete
    <2> QED
      BY <1>0, <2>1, <2>2, <2>3, DeleteStep DEF IInv
  <1>4. ASSUME NEW w \in Workers, Crash(w)
        PROVE  IInv'
    <2>1. /\ Finish(w)
          /\ UNCHANGED <<now, nextId, ring, issued, accepted, acked,
                         nextLease>>
      BY <1>4 DEF Crash, Die, ghosts
    <2>2. NoJobLost' /\ LeaseInv' /\ WindowInv'
      BY <1>0, <1>1, <2>1, QuietStep
    <2> QED
      BY <1>0, <1>1, <2>1, <2>2, CallDone DEF IInv
  <1>5. CASE Tick
    <2>1. /\ now' = now + 1
          /\ UNCHANGED <<op, nextId, ring, issued, accepted, acked,
                         nextLease>>
      BY <1>5 DEF Tick, ghosts
    <2>2. NoJobLost' /\ LeaseInv' /\ WindowInv'
      BY <1>0, <1>1, <2>1, QuietStep
    <2>3. \A w \in Workers : op[w].t \in Nat
      BY <1>0, LocalsOf
    <2>4. CallInv'
      BY <1>1, <2>1, <2>3, SMTT(40) DEF IInv, CallInv, Pushing, Popping
    <2> QED
      BY <1>0, <2>2, <2>4 DEF IInv
  <1> QED
    BY <1>0, <1>2, <1>3, <1>4, <1>5, PushInv, PopInv, ReleaseInv DEF Next

\* The inductive invariant holds of every behaviour.
LEMMA InvHolds == Spec => []IInv
  BY InvInit, InvStep, PTL DEF Spec

\* No accepted job is lost, duplicated or mixed up with another one's
\* payload, whatever interleaving and whatever crashes.
THEOREM JobsAreKept == Spec => []NoJobLost
  <1>1. IInv => NoJobLost
    BY DEF IInv
  <1> QED
    BY <1>1, InvHolds, PTL

\* What a delete or release may do, as an action.
FencedStep ==
    \A w \in Workers, l \in 1 .. MaxLease :
        \/ Delete(w, l)
        \/ op[w].id = l /\ (ReleaseApply(w) \/ ReleaseCrash(w))
        => \A s \in Slots : ring'[s] # ring[s] =>
               /\ Newest(l, ring[s].id)
               /\ AppOf[ring[s].queue] = WorkerApp[w]

\* A token acts only on the job it was issued for, only while it is that job's
\* newest token, and only in the application the job belongs to.
THEOREM LeasesFence == Spec => LeaseFence
  <1>1. ASSUME IInv, NEW w \in Workers, NEW l \in 1 .. MaxLease,
               \/ Delete(w, l)
               \/ op[w].id = l /\ (ReleaseApply(w) \/ ReleaseCrash(w)),
               NEW s \in Slots, ring'[s] # ring[s]
        PROVE  /\ Newest(l, ring[s].id)
               /\ AppOf[ring[s].queue] = WorkerApp[w]
    <2>1. Holds(s, l) /\ Owned(w, s)
      <3>1. CASE Delete(w, l)
        BY <1>1, <3>1 DEF Delete, IInv, TypeOK
      <3>2. CASE op[w].id = l /\ ReleaseApply(w)
        BY <1>1, <3>2 DEF ReleaseApply, IInv, TypeOK
      <3>3. CASE op[w].id = l /\ ReleaseCrash(w)
        BY <1>1, <3>3 DEF ReleaseCrash, IInv, TypeOK
      <3> QED
        BY <1>1, <3>1, <3>2, <3>3
    <2>2. /\ ring[s].id # 0 /\ ring[s].lease = l
          /\ AppOf[ring[s].queue] = WorkerApp[w]
      BY <2>1 DEF Holds, Owned
    <2>3. l # 0
      BY <1>1, SMTT(40)
    <2>4. Newest(ring[s].lease, ring[s].id)
      BY <1>1, <2>2, <2>3 DEF IInv, LeaseInv
    <2> QED
      BY <2>2, <2>4
  <1>2. IInv => [FencedStep]_vars
    BY <1>1 DEF FencedStep
  <1>3. [][FencedStep]_vars => LeaseFence
    BY PTL DEF FencedStep, LeaseFence
  <1> QED
    BY <1>2, <1>3, InvHolds, PTL

\* What a step that issues a lease may do, as an action.
ExclusiveStep ==
    \A l \in 1 .. MaxLease :
        issued[l].job = 0 /\ issued'[l].job # 0
        => \A m \in 1 .. MaxLease :
               issued[m].job = issued'[l].job =>
                   ~issued[m].open \/ issued[m].until <= now

\* Two reservations of one job never run at the same time: a job is handed
\* out again only after every earlier reservation was given back or has
\* outlived its visibility window.
THEOREM ReservationsAreExclusive == Spec => ExclusiveReservation
  <1>1. ASSUME IInv, [Next]_vars,
               NEW l \in 1 .. MaxLease, issued[l].job = 0, issued'[l].job # 0,
               NEW m \in 1 .. MaxLease, issued[m].job = issued'[l].job,
               issued[m].open
        PROVE  issued[m].until <= now
    <2>1. ASSUME NEW w \in Workers, op[w].pc = "pop_take", StillThere(w),
                 issued' = [issued EXCEPT ![nextLease + 1] = Issue(w)]
          PROVE  issued[m].until <= now
      <3>1. issued'[l].job = op[w].bestId
        BY <1>1, <2>1 DEF IInv, TypeOK, Issue
      <3> QED
        BY <1>1, <2>1, <3>1, Lapsed
    <2>2. issued' # issued
      BY <1>1
    <2>3. ASSUME NEW w \in Workers, Pop(w)
          PROVE  issued[m].until <= now
      <3>1. CASE PopTake(w)
        BY <2>1, <3>1 DEF PopTake
      <3>2. CASE PopCrash(w)
        BY <2>1, <2>2, <3>2 DEF PopCrash
      <3> QED
        BY <2>2, <2>3, <3>1, <3>2
        DEF Pop, PopStart, PopScan, PopMissed, ghosts
    <2>4. ASSUME NEW w \in Workers, Push(w)
          PROVE  FALSE
      BY <2>2, <2>4
      DEF Push, PushTicket, PushClock, PushProbe, PushCrash, ghosts
    <2>5. ASSUME NEW w \in Workers, Release(w)
          PROVE  FALSE
      <3>1. issued' = [issued EXCEPT ![op[w].id].open = FALSE]
        BY <2>2, <2>5
        DEF Release, ReleaseStart, ReleaseApply, ReleaseUnknown,
            ReleaseCrash, ghosts
      <3>2. issued'[l].job = issued[l].job
        BY <1>1, <3>1 DEF IInv, TypeOK
      <3> QED
        BY <1>1, <3>2
    <2>6. ASSUME NEW w \in Workers,
                 Crash(w) \/ \E t \in 1 .. MaxLease : Delete(w, t)
          PROVE  FALSE
      BY <2>2, <2>6 DEF Crash, Delete, ghosts
    <2>7. ~Tick /\ ~UNCHANGED vars
      BY <2>2 DEF Tick, ghosts, vars
    <2> QED
      BY <1>1, <2>3, <2>4, <2>5, <2>6, <2>7 DEF Next
  <1>2. IInv /\ [Next]_vars => [ExclusiveStep]_vars
    BY <1>1 DEF ExclusiveStep
  <1>3. [][ExclusiveStep]_vars => ExclusiveReservation
    BY PTL DEF ExclusiveStep, ExclusiveReservation
  <1> QED
    BY <1>2, <1>3, InvHolds, PTL DEF Spec

-----------------------------------------------------------------------------
(***************************************************************************)
(* The durable queue.                                                      *)
(***************************************************************************)

\* A job that some token names was claimed.
NamedIsClaimed ==
    \A p \in Procs, r \in rows : held[p] # None /\ held[p].id = r.id => r.lease # 0

SqlInv == SqlTypeOK /\ SqlConsistent /\ NamedIsClaimed

\* The job of row r in the abstract queue, and the row a claim leaves.
JobOf(r) == [id |-> r.id, queue |-> r.queue, avail |-> r.avail,
             until |-> r.until, lease |-> r.lease]

ClaimedRow(r, visibility) ==
    [r EXCEPT !.until = clock + visibility, !.attempts = r.attempts + 1,
              !.lease = lastLease + 1]

FreedRow(r, delay) == [r EXCEPT !.until = 0, !.avail = clock + delay]

LEMMA RowUpdates ==
    ASSUME SqlTypeOK, NEW r \in rows
    PROVE  /\ \A v \in SqlVisibility :
                /\ ClaimedRow(r, v) \in Row
                /\ ClaimedRow(r, v).id = r.id /\ ClaimedRow(r, v).queue = r.queue
                /\ ClaimedRow(r, v).avail = r.avail
                /\ ClaimedRow(r, v).until = clock + v
                /\ ClaimedRow(r, v).attempts = r.attempts + 1
                /\ ClaimedRow(r, v).lease = lastLease + 1
           /\ \A d \in SqlDelays :
                /\ FreedRow(r, d) \in Row
                /\ FreedRow(r, d).id = r.id /\ FreedRow(r, d).queue = r.queue
                /\ FreedRow(r, d).avail = clock + d
                /\ FreedRow(r, d).until = 0
                /\ FreedRow(r, d).attempts = r.attempts
                /\ FreedRow(r, d).lease = r.lease
  <1>1. r \in Row
    BY DEF SqlTypeOK
  <1>2. ASSUME NEW v \in SqlVisibility
        PROVE  clock + v \in 0..2 * SqlMaxTime
    BY SqlQueueAssumption, SMTT(40) DEF SqlTypeOK
  <1>3. ASSUME NEW d \in SqlDelays
        PROVE  clock + d \in 0..2 * SqlMaxTime
    BY SqlQueueAssumption, SMTT(40) DEF SqlTypeOK
  <1>4. lastLease + 1 \in Nat /\ 0 \in 0..2 * SqlMaxTime
    BY SqlQueueAssumption, SMTT(40) DEF SqlTypeOK
  <1>5. ASSUME NEW v \in SqlVisibility
        PROVE  /\ ClaimedRow(r, v) \in Row
               /\ ClaimedRow(r, v).id = r.id /\ ClaimedRow(r, v).queue = r.queue
               /\ ClaimedRow(r, v).avail = r.avail
               /\ ClaimedRow(r, v).until = clock + v
               /\ ClaimedRow(r, v).attempts = r.attempts + 1
               /\ ClaimedRow(r, v).lease = lastLease + 1
    <2>1. clock + v \in 0..2 * SqlMaxTime
      BY <1>2
    <2>2. r.attempts + 1 \in Nat
      BY <1>1, SMTT(40) DEF Row
    <2>3. ClaimedRow(r, v) =
            [id |-> r.id, queue |-> r.queue, avail |-> r.avail, until |-> clock + v,
             attempts |-> r.attempts + 1, created |-> r.created, lease |-> lastLease + 1]
      <3> DEFINE a == [r EXCEPT !.until = clock + v]
                 b == [a EXCEPT !.attempts = r.attempts + 1]
      <3>1. a = [id |-> r.id, queue |-> r.queue, avail |-> r.avail, until |-> clock + v,
                 attempts |-> r.attempts, created |-> r.created, lease |-> r.lease]
        BY <1>1, SMTT(40) DEF Row
      <3> HIDE DEF a
      <3>2. b = [id |-> r.id, queue |-> r.queue, avail |-> r.avail, until |-> clock + v,
                 attempts |-> r.attempts + 1, created |-> r.created, lease |-> r.lease]
        BY <3>1, SMTT(40)
      <3> HIDE DEF b
      <3>3. ClaimedRow(r, v) = [b EXCEPT !.lease = lastLease + 1]
        BY DEF ClaimedRow, a, b
      <3> QED
        BY <3>2, <3>3
    <2> QED
      BY <1>1, <1>4, <2>1, <2>2, <2>3, SMTT(40) DEF Row
  <1>6. ASSUME NEW d \in SqlDelays
        PROVE  /\ FreedRow(r, d) \in Row
               /\ FreedRow(r, d).id = r.id /\ FreedRow(r, d).queue = r.queue
               /\ FreedRow(r, d).avail = clock + d
               /\ FreedRow(r, d).until = 0
               /\ FreedRow(r, d).attempts = r.attempts
               /\ FreedRow(r, d).lease = r.lease
    BY <1>1, <1>3, <1>4 DEF Row, FreedRow
  <1> QED
    BY <1>5, <1>6

LEMMA TokensAreTokens ==
    ASSUME NEW r \in Row
    PROVE  /\ lease_token(r) \in Token
           /\ lease_token(r).id = r.id
           /\ lease_token(r).attempt = r.attempts % TOKEN
           /\ lease_token(r).lease = r.lease
           /\ lease_token(r).released = FALSE
  <1>1. r.attempts % TOKEN \in Nat
    BY SqlQueueAssumption, SMTT(40) DEF Row
  <1> QED
    BY <1>1 DEF lease_token, Row, Token

LEMMA NoneIsNoToken ==
    None \notin Token
  BY SqlQueueAssumption, SMTT(40) DEF Token

LEMMA SqlInvInit == SqlInit => SqlInv
  BY SqlQueueAssumption, SMTT(40) DEF SqlInit, SqlInv, SqlTypeOK, SqlConsistent, NamedIsClaimed

\* What a claim does, in terms of the row it takes.
LEMMA PopRow ==
    ASSUME SqlInv, NEW p \in Procs, SqlPop(p)
    PROVE  \E r \in rows, v \in SqlVisibility :
             /\ Claimable(r) /\ lastLease < MaxClaims
             /\ rows' = (rows \ {r}) \cup {ClaimedRow(r, v)}
             /\ lastLease' = lastLease + 1
             /\ \/ held' = [held EXCEPT ![p] = lease_token(ClaimedRow(r, v))]
                \/ held' = [held EXCEPT ![p] = None]
             /\ UNCHANGED <<clock, sqlNextId>>
  <1>1. PICK r \in rows, v \in SqlVisibility :
          /\ do_pop(r, v)
          /\ held' \in {[held EXCEPT ![p] = lease_token([r EXCEPT !.attempts = r.attempts + 1,
                                                                  !.lease = lastLease + 1])],
                        [held EXCEPT ![p] = None]}
          /\ UNCHANGED <<clock, sqlNextId>>
    BY DEF SqlPop
  <1>2. r \in Row
    BY DEF SqlInv, SqlTypeOK
  <1>3. lease_token([r EXCEPT !.attempts = r.attempts + 1, !.lease = lastLease + 1])
          = lease_token(ClaimedRow(r, v))
    BY <1>2 DEF lease_token, ClaimedRow, Row
  <1>4. rows' = (rows \ {r}) \cup {ClaimedRow(r, v)}
    BY <1>1 DEF do_pop, ClaimedRow
  <1> QED
    BY <1>1, <1>3, <1>4 DEF do_pop

LEMMA SqlInvStep ==
    ASSUME SqlInv, [SqlNext]_sqlVars
    PROVE  SqlInv'
  <1> USE DEF SqlInv
  <1>1. CASE SqlTick
    BY <1>1, SqlQueueAssumption, SMTT(40) DEF SqlTick, SqlTypeOK, SqlConsistent, NamedIsClaimed
  <1>2. CASE SqlPush
    <2>1. PICK q \in SqlQueues, delay \in SqlDelays : do_push(q, delay)
      BY <1>2 DEF SqlPush
    <2> DEFINE new == [id |-> sqlNextId, queue |-> q, avail |-> clock + delay, until |-> 0,
                       attempts |-> 0, created |-> clock, lease |-> 0]
    <2>2. /\ rows' = rows \cup {new} /\ sqlNextId <= MaxJobs /\ sqlNextId' = sqlNextId + 1
          /\ UNCHANGED <<clock, held, lastLease>>
      BY <2>1 DEF do_push
    <2>3. new \in Row
      BY <2>2, SqlQueueAssumption, SMTT(40) DEF SqlTypeOK, Row
    <2>4. /\ new.id = sqlNextId /\ new.lease = 0 /\ new.attempts = 0
      OBVIOUS
    <2> HIDE DEF new
    <2>5. SqlTypeOK'
      BY <2>2, <2>3, SqlQueueAssumption, SMTT(40) DEF SqlTypeOK
    <2>6. SqlConsistent'
      BY <2>2, <2>3, <2>4, NoneIsNoToken, SqlQueueAssumption, SMTT(40) DEF SqlTypeOK, SqlConsistent, Row, Token
    <2>7. NamedIsClaimed'
      BY <2>2, <2>3, <2>4, NoneIsNoToken, SMTT(40) DEF SqlTypeOK, SqlConsistent, NamedIsClaimed, Row, Token
    <2> QED
      BY <2>5, <2>6, <2>7
  <1>3. ASSUME NEW p \in Procs, SqlPop(p)
        PROVE  SqlInv'
    <2>1. PICK r \in rows, v \in SqlVisibility :
             /\ rows' = (rows \ {r}) \cup {ClaimedRow(r, v)}
             /\ lastLease' = lastLease + 1
             /\ \/ held' = [held EXCEPT ![p] = lease_token(ClaimedRow(r, v))]
                \/ held' = [held EXCEPT ![p] = None]
             /\ UNCHANGED <<clock, sqlNextId>>
      BY <1>3, PopRow
    <2> DEFINE c == ClaimedRow(r, v)
               t == lease_token(c)
    <2>2. /\ c \in Row /\ c.id = r.id /\ c.attempts = r.attempts + 1
          /\ c.lease = lastLease + 1
      BY RowUpdates
    <2>3. /\ t \in Token /\ t.id = r.id /\ t.lease = lastLease + 1
      BY <2>2, TokensAreTokens
    <2>4. /\ rows' = (rows \ {r}) \cup {c}
          /\ held' = [held EXCEPT ![p] = t] \/ held' = [held EXCEPT ![p] = None]
      BY <2>1
    <2> HIDE DEF c, t
    <2>5. SqlTypeOK'
      BY <2>1, <2>2, <2>3, <2>4, SMTT(40) DEF SqlTypeOK
    <2>6. SqlConsistent'
      <3>1. \A s \in rows' : s.id < sqlNextId' /\ s.lease <= lastLease' /\ (s.attempts = 0 <=> s.lease = 0)
        BY <2>1, <2>2, <2>4, SMTT(40) DEF SqlTypeOK, SqlConsistent, Row
      <3>2. \A s, u \in rows' : s.id = u.id => s = u
        BY <2>2, <2>4, SMTT(40) DEF SqlConsistent
      <3>3. \A q \in Procs : held'[q] # None => held'[q].lease \in 1..lastLease' /\ held'[q].id < sqlNextId'
        BY <2>1, <2>3, <2>4, SMTT(40) DEF SqlTypeOK, SqlConsistent, Token
      <3> QED
        BY <3>1, <3>2, <3>3 DEF SqlConsistent
    <2>7. NamedIsClaimed'
      BY <2>2, <2>3, <2>4, SMTT(40) DEF SqlTypeOK, SqlConsistent, NamedIsClaimed
    <2> QED
      BY <2>5, <2>6, <2>7
  <1>4. ASSUME NEW p \in Procs, do_delete(p)
        PROVE  SqlInv'
    BY <1>4 DEF do_delete, SqlTypeOK, SqlConsistent, NamedIsClaimed
  <1>5. ASSUME NEW p \in Procs, do_release(p)
        PROVE  SqlInv'
    <2>1. PICK delay \in SqlDelays :
            /\ held[p] # None
            /\ rows' = {IF Fenced(r, held[p]) THEN FreedRow(r, delay) ELSE r : r \in rows}
            /\ held' = [held EXCEPT ![p] = [held[p] EXCEPT !.released = TRUE]]
            /\ UNCHANGED <<clock, sqlNextId, lastLease>>
      BY <1>5 DEF do_release, FreedRow
    <2>2. \A s \in rows' : \E r \in rows :
            /\ s \in Row /\ s.id = r.id /\ s.lease = r.lease /\ s.attempts = r.attempts
            /\ s = IF Fenced(r, held[p]) THEN FreedRow(r, delay) ELSE r
      BY <2>1, RowUpdates, SMTT(40) DEF SqlTypeOK
    <2>3. held[p] \in Token
      BY <2>1 DEF SqlTypeOK
    <2>4. \A q \in Procs : held'[q] # None =>
             held[q] # None /\ held'[q].id = held[q].id /\ held'[q].lease = held[q].lease
      BY <2>1, <2>3 DEF SqlTypeOK, Token
    <2>5. held' \in [Procs -> Token \cup {None}]
      BY <2>1, <2>3 DEF SqlTypeOK, Token
    <2>6. SqlTypeOK'
      BY <2>1, <2>2, <2>5 DEF SqlTypeOK
    <2>7. SqlConsistent'
      BY <2>1, <2>2, <2>4, SMTT(40) DEF SqlConsistent
    <2>8. NamedIsClaimed'
      BY <2>2, <2>4 DEF NamedIsClaimed
    <2> QED
      BY <2>6, <2>7, <2>8
  <1>6. ASSUME NEW p \in Procs, GiveUp(p)
        PROVE  SqlInv'
    BY <1>6 DEF GiveUp, SqlTypeOK, SqlConsistent, NamedIsClaimed
  <1>7. CASE UNCHANGED sqlVars
    BY <1>7 DEF sqlVars, SqlTypeOK, SqlConsistent, NamedIsClaimed
  <1> QED
    BY <1>1, <1>2, <1>3, <1>4, <1>5, <1>6, <1>7 DEF SqlNext

\* The invariants of the table: each row and token has its type, an id names one row,
\* and a row that a token names was claimed (squeue_sql.rs).
THEOREM TableInvariant ==
    SqlSpec => []SqlInv
  <1>1. SqlInit => SqlInv
    BY SqlInvInit
  <1>2. SqlInv /\ [SqlNext]_sqlVars => SqlInv'
    BY SqlInvStep
  <1> QED
    BY <1>1, <1>2, PTL DEF SqlSpec

-----------------------------------------------------------------------------
Jobs == {JobOf(r) : r \in rows}

LEMMA JobUpdate ==
    ASSUME NEW r, NEW c, c.id = r.id, c.queue = r.queue
    PROVE  JobOf(c) = [JobOf(r) EXCEPT !.avail = c.avail, !.until = c.until, !.lease = c.lease]
  <1> DEFINE a == [JobOf(r) EXCEPT !.avail = c.avail]
             b == [a EXCEPT !.until = c.until]
  <1>1. a = [id |-> r.id, queue |-> r.queue, avail |-> c.avail, until |-> r.until,
             lease |-> r.lease]
    BY SMTT(40) DEF JobOf
  <1> HIDE DEF a
  <1>2. b = [id |-> r.id, queue |-> r.queue, avail |-> c.avail, until |-> c.until,
             lease |-> r.lease]
    BY <1>1, SMTT(40)
  <1> HIDE DEF b
  <1>3. [b EXCEPT !.lease = c.lease] = JobOf(c)
    BY <1>2, SMTT(40) DEF JobOf
  <1> QED
    BY <1>3 DEF a, b

LEMMA JobsAreRows ==
    ASSUME SqlInv
    PROVE  /\ \A r \in rows : /\ JobOf(r).id = r.id /\ JobOf(r).lease = r.lease
                             /\ JobOf(r).avail = r.avail /\ JobOf(r).until = r.until
           /\ \A r, s \in rows : JobOf(r) = JobOf(s) => r = s
  BY DEF JobOf, SqlInv, SqlConsistent

\* Removing a row removes its job, and nothing else.
LEMMA JobsWithout ==
    ASSUME SqlInv, NEW r \in rows
    PROVE  {JobOf(s) : s \in rows \ {r}} = Jobs \ {JobOf(r)}
  BY JobsAreRows DEF Jobs

\* Replacing a row replaces its job.
LEMMA JobsWith ==
    ASSUME SqlInv, NEW r \in rows, NEW c
    PROVE  {JobOf(s) : s \in (rows \ {r}) \cup {c}} = (Jobs \ {JobOf(r)}) \cup {JobOf(c)}
  BY JobsWithout, SMTT(40)

\* A token fences at most one row: the row with its id.
LEMMA FencedRow ==
    ASSUME SqlInv, NEW p \in Procs, held[p] # None, NEW r \in rows, Fenced(r, held[p])
    PROVE  /\ \A s \in rows : Fenced(s, held[p]) => s = r
           /\ r.lease # 0
  BY DEF SqlInv, SqlConsistent, NamedIsClaimed, Fenced

LEMMA RefineInit == SqlInit => SqlJQ!JQInit
  BY SMTT(40) DEF SqlInit, SqlJQ!JQInit

LEMMA TableRefines ==
    ASSUME SqlInv, [SqlNext]_sqlVars
    PROVE  [SqlJQ!JQNext]_SqlJQ!jqvars
  <1> DEFINE used == 1..sqlNextId - 1
  <1>0. /\ Jobs = {[id |-> r.id, queue |-> r.queue, avail |-> r.avail,
                    until |-> r.until, lease |-> r.lease] : r \in rows}
        /\ Jobs' = {[id |-> r.id, queue |-> r.queue, avail |-> r.avail,
                     until |-> r.until, lease |-> r.lease] : r \in rows'}
        /\ Jobs' = {JobOf(r) : r \in rows'}
    BY DEF Jobs, JobOf
  <1>1. CASE SqlTick
    <2>1. SqlJQ!Advance
      BY <1>1 DEF SqlTick, SqlJQ!Advance
    <2> QED
      BY <2>1 DEF SqlJQ!JQNext
  <1>2. CASE SqlPush
    <2>1. PICK q \in SqlQueues, delay \in SqlDelays : do_push(q, delay)
      BY <1>2 DEF SqlPush
    <2> DEFINE new == [id |-> sqlNextId, queue |-> q, avail |-> clock + delay, until |-> 0,
                       attempts |-> 0, created |-> clock, lease |-> 0]
               job == [id |-> sqlNextId, queue |-> q, avail |-> clock + delay, until |-> 0,
                       lease |-> 0]
    <2>2. Jobs' = Jobs \cup {job}
      <3>1. rows' = rows \cup {new}
        BY <2>1 DEF do_push
      <3>2. JobOf(new) = job
        BY DEF JobOf
      <3> HIDE DEF new, job
      <3> QED
        BY <1>0, <3>1, <3>2 DEF Jobs
    <2>3. /\ sqlNextId \in (1..MaxJobs) \ used
          /\ used' = used \cup {sqlNextId}
          /\ clock + delay \in 0..2 * SqlMaxTime
      BY <2>1, SqlQueueAssumption, SMTT(40) DEF do_push, SqlInv, SqlTypeOK
    <2>4. SqlJQ!Submit
      BY <1>0, <2>1, <2>2, <2>3 DEF do_push, SqlJQ!Submit
    <2> QED
      BY <2>4 DEF SqlJQ!JQNext
  <1>3. ASSUME NEW p \in Procs, SqlPop(p)
        PROVE  SqlJQ!JQNext
    <2>1. PICK r \in rows, v \in SqlVisibility :
             /\ Claimable(r)
             /\ rows' = (rows \ {r}) \cup {ClaimedRow(r, v)}
             /\ lastLease' = lastLease + 1
             /\ UNCHANGED <<clock, sqlNextId>>
      BY <1>3, PopRow
    <2>2. Jobs' = (Jobs \ {JobOf(r)}) \cup {JobOf(ClaimedRow(r, v))}
      BY <1>0, <2>1, JobsWith
    <2>3. JobOf(ClaimedRow(r, v)) =
            [JobOf(r) EXCEPT !.until = clock + v, !.lease = lastLease + 1]
      <3>1. JobOf(ClaimedRow(r, v)) =
              [JobOf(r) EXCEPT !.avail = r.avail, !.until = clock + v, !.lease = lastLease + 1]
        <4> DEFINE c == ClaimedRow(r, v)
        <4>1. /\ c.id = r.id /\ c.queue = r.queue /\ c.avail = r.avail
              /\ c.until = clock + v /\ c.lease = lastLease + 1
          BY RowUpdates DEF SqlInv
        <4> HIDE DEF c
        <4>2. JobOf(c) =
                [JobOf(r) EXCEPT !.avail = c.avail, !.until = c.until, !.lease = c.lease]
          BY <4>1, JobUpdate
        <4>3. JobOf(c) =
                [JobOf(r) EXCEPT !.avail = r.avail, !.until = clock + v, !.lease = lastLease + 1]
          BY <4>1, <4>2
        <4> QED
          BY <4>3 DEF c
      <3>2. [JobOf(r) EXCEPT !.avail = r.avail] = JobOf(r)
        BY SMTT(40) DEF JobOf
      <3> QED
        BY <3>1, <3>2
    <2>4. clock + v \in 0..2 * SqlMaxTime
      BY SqlQueueAssumption, SMTT(40) DEF SqlInv, SqlTypeOK
    <2>5. JobOf(r) \in Jobs /\ JobOf(r).avail <= clock /\ JobOf(r).until <= clock
      BY <2>1, JobsAreRows DEF Jobs, Claimable
    <2>6. SqlJQ!Claim
      BY <1>0, <2>1, <2>2, <2>3, <2>4, <2>5 DEF SqlJQ!Claim
    <2> QED
      BY <2>6 DEF SqlJQ!JQNext
  <1>4. ASSUME NEW p \in Procs, do_delete(p)
        PROVE  [SqlJQ!JQNext]_SqlJQ!jqvars
    <2>1. CASE \E r \in rows : Fenced(r, held[p])
      <3>1. PICK r \in rows : Fenced(r, held[p])
        BY <2>1
      <3>2. rows' = rows \ {r} /\ r.lease # 0
        BY <1>4, <3>1, FencedRow DEF do_delete
      <3>3. Jobs' = Jobs \ {JobOf(r)} /\ JobOf(r) \in Jobs /\ JobOf(r).lease # 0
        BY <1>0, <3>2, JobsWithout, JobsAreRows DEF Jobs
      <3>4. SqlJQ!Acknowledge
        BY <1>0, <1>4, <3>3 DEF do_delete, SqlJQ!Acknowledge
      <3> QED
        BY <3>4 DEF SqlJQ!JQNext
    <2>2. CASE ~\E r \in rows : Fenced(r, held[p])
      <3>1. rows' = rows
        BY <1>4, <2>2 DEF do_delete
      <3> QED
        BY <1>4, <3>1 DEF do_delete, SqlJQ!jqvars
    <2> QED
      BY <2>1, <2>2
  <1>5. ASSUME NEW p \in Procs, do_release(p)
        PROVE  [SqlJQ!JQNext]_SqlJQ!jqvars
    <2>0. PICK delay \in SqlDelays :
            /\ held[p] # None
            /\ rows' = {IF Fenced(r, held[p]) THEN FreedRow(r, delay) ELSE r : r \in rows}
            /\ UNCHANGED <<clock, sqlNextId, lastLease>>
      BY <1>5 DEF do_release, FreedRow
    <2>1. CASE \E r \in rows : Fenced(r, held[p])
      <3>1. PICK r \in rows : Fenced(r, held[p])
        BY <2>1
      <3>2. /\ \A s \in rows : Fenced(s, held[p]) <=> s = r
            /\ r.lease # 0
        BY <2>0, <3>1, FencedRow
      <3>3. rows' = (rows \ {r}) \cup {FreedRow(r, delay)}
        BY <2>0, <3>2
      <3>4. Jobs' = (Jobs \ {JobOf(r)}) \cup {JobOf(FreedRow(r, delay))}
        BY <1>0, <3>3, JobsWith
      <3>5. JobOf(FreedRow(r, delay)) =
              [JobOf(r) EXCEPT !.avail = clock + delay, !.until = 0, !.lease = JobOf(r).lease]
        <4> DEFINE c == FreedRow(r, delay)
        <4>1. /\ c.id = r.id /\ c.queue = r.queue /\ c.avail = clock + delay
              /\ c.until = 0 /\ c.lease = JobOf(r).lease
          BY RowUpdates, JobsAreRows, SMTT(40) DEF SqlInv
        <4> HIDE DEF c
        <4>2. JobOf(c) =
                [JobOf(r) EXCEPT !.avail = c.avail, !.until = c.until, !.lease = c.lease]
          BY <4>1, JobUpdate
        <4>3. JobOf(c) = [JobOf(r) EXCEPT !.avail = clock + delay, !.until = 0,
                                          !.lease = JobOf(r).lease]
          BY <4>1, <4>2
        <4> QED
          BY <4>3 DEF c
      <3>6. clock + delay \in 0..2 * SqlMaxTime
        BY SqlQueueAssumption, SMTT(40) DEF SqlInv, SqlTypeOK
      <3>7. JobOf(r) \in Jobs /\ JobOf(r).lease # 0
        BY <3>2, JobsAreRows DEF Jobs
      <3>8. SqlJQ!GiveBack
        BY <1>0, <2>0, <3>4, <3>5, <3>6, <3>7 DEF SqlJQ!GiveBack
      <3> QED
        BY <3>8 DEF SqlJQ!JQNext
    <2>2. CASE ~\E r \in rows : Fenced(r, held[p])
      <3>1. rows' = rows
        BY <2>0, <2>2
      <3> QED
        BY <2>0, <3>1 DEF SqlJQ!jqvars
    <2> QED
      BY <2>1, <2>2
  <1>6. ASSUME NEW p \in Procs, GiveUp(p)
        PROVE  [SqlJQ!JQNext]_SqlJQ!jqvars
    BY <1>6 DEF GiveUp, SqlJQ!jqvars
  <1>7. CASE UNCHANGED sqlVars
    BY <1>7 DEF sqlVars, SqlJQ!jqvars
  <1> QED
    BY <1>1, <1>2, <1>3, <1>4, <1>5, <1>6, <1>7 DEF SqlNext

\* The jobs table implements the abstract job queue: whatever processes claim, finish,
\* give back, fail or die in whatever order, and however often tokens wrap, no statement
\* loses or repeats a job, claims one that is not due or is reserved, or takes out one
\* that nobody claimed (squeue_sql.rs).
THEOREM TableImplements ==
    SqlSpec => SqlImplementsJobQueue
  <1>1. SqlInit => SqlJQ!JQInit
    BY RefineInit
  <1>2. SqlInv /\ [SqlNext]_sqlVars => [SqlJQ!JQNext]_SqlJQ!jqvars
    BY TableRefines
  <1>3. SqlSpec => []SqlInv
    BY TableInvariant
  <1> QED
    BY <1>1, <1>2, <1>3, PTL DEF SqlSpec, SqlImplementsJobQueue, SqlJQ!JQSpec

-----------------------------------------------------------------------------
\* A token against the row it names: it was made by one of the row's claims, and if it
\* fences the row it was the last one; when its holder has given the job back the row is
\* free.
TokenFits(t, r) ==
    /\ \E n \in 1..r.attempts : t.attempt = n % TOKEN
    /\ Fenced(r, t) => t.lease = r.lease /\ (t.released => r.until = 0)

Fences ==
    /\ IsFiniteSet(rows)
    /\ lastLease <= MaxClaims
    /\ \A r \in rows : r.attempts <= lastLease
    /\ \A p \in Procs, r \in rows : held[p] # None /\ held[p].id = r.id => TokenFits(held[p], r)

\* Claims that a token tells apart.
LEMMA TokensDiffer ==
    ASSUME NEW m \in 1..TOKEN, NEW n \in 1..TOKEN, m # n
    PROVE  m % TOKEN # n % TOKEN
  <1>1. TOKEN \in Nat \ {0} /\ m \in Nat /\ n \in Nat
    BY SqlQueueAssumption, SMTT(40)
  <1>2. ASSUME NEW k \in 1..TOKEN
        PROVE  k % TOKEN = IF k = TOKEN THEN 0 ELSE k
    BY <1>1, SMTT(40)
  <1> QED
    BY <1>1, <1>2, SMTT(40)

LEMMA FencesInit == SqlInit => Fences
  BY FS_EmptySet, SqlQueueAssumption, SMTT(40) DEF SqlInit, Fences

LEMMA FencesStep ==
    ASSUME MaxClaims <= TOKEN, SqlInv, Fences, [SqlNext]_sqlVars
    PROVE  Fences'
  <1>0. IsFiniteSet(rows)
    BY DEF Fences
  <1>1. CASE SqlTick
    BY <1>1 DEF SqlTick, Fences, TokenFits, Fenced
  <1>2. CASE SqlPush
    <2>1. PICK q \in SqlQueues, delay \in SqlDelays : do_push(q, delay)
      BY <1>2 DEF SqlPush
    <2> DEFINE new == [id |-> sqlNextId, queue |-> q, avail |-> clock + delay, until |-> 0,
                       attempts |-> 0, created |-> clock, lease |-> 0]
    <2>2. rows' = rows \cup {new} /\ UNCHANGED <<clock, held, lastLease>>
      BY <2>1 DEF do_push
    <2>3. new.id = sqlNextId /\ new.attempts = 0
      OBVIOUS
    <2> HIDE DEF new
    <2>4. IsFiniteSet(rows')
      BY <1>0, <2>2, FS_AddElement
    <2>5. \A r \in rows' : r.attempts <= lastLease
      BY <2>2, <2>3, SMTT(40) DEF Fences, SqlInv, SqlTypeOK
    <2>6. ASSUME NEW p \in Procs, NEW r \in rows', held[p] # None, held[p].id = r.id
          PROVE  TokenFits(held[p], r)
      <3>1. held[p].id < sqlNextId /\ held[p].id \in Nat
        BY <2>6, SMTT(40) DEF SqlInv, SqlTypeOK, SqlConsistent, Token
      <3>2. r \in rows
        BY <2>2, <2>3, <2>6, <3>1, SMTT(40) DEF SqlInv, SqlTypeOK
      <3> QED
        BY <2>6, <3>2 DEF Fences
    <2> QED
      BY <2>2, <2>4, <2>5, <2>6 DEF Fences, TokenFits, Fenced
  <1>3. ASSUME NEW p \in Procs, SqlPop(p)
        PROVE  Fences'
    <2>1. PICK r \in rows, v \in SqlVisibility :
             /\ lastLease < MaxClaims
             /\ rows' = (rows \ {r}) \cup {ClaimedRow(r, v)}
             /\ lastLease' = lastLease + 1
             /\ \/ held' = [held EXCEPT ![p] = lease_token(ClaimedRow(r, v))]
                \/ held' = [held EXCEPT ![p] = None]
             /\ UNCHANGED <<clock, sqlNextId>>
      BY <1>3, PopRow
    <2> DEFINE c == ClaimedRow(r, v)
               t == lease_token(c)
    <2>2. c \in Row /\ c.id = r.id /\ c.attempts = r.attempts + 1 /\ c.lease = lastLease + 1
      BY RowUpdates DEF SqlInv
    <2>3. /\ t.id = r.id /\ t.attempt = c.attempts % TOKEN /\ t.lease = c.lease
          /\ t.released = FALSE
      BY <2>2, TokensAreTokens
    <2>4. /\ rows' = (rows \ {r}) \cup {c}
          /\ held' = [held EXCEPT ![p] = t] \/ held' = [held EXCEPT ![p] = None]
      BY <2>1
    <2>5. /\ r.attempts \in Nat /\ r.attempts <= lastLease
          /\ lastLease \in Nat /\ lastLease + 1 <= TOKEN
      BY <2>1, SqlQueueAssumption, SMTT(40) DEF Fences, SqlInv, SqlTypeOK, Row
    <2> HIDE DEF c, t
    <2>6. IsFiniteSet(rows')
      BY <1>0, <2>4, FS_AddElement, FS_RemoveElement
    <2>7. /\ lastLease' <= MaxClaims
          /\ \A s \in rows' : s.attempts <= lastLease'
      BY <2>1, <2>2, <2>4, <2>5, SqlQueueAssumption, SMTT(40) DEF Fences, SqlInv, SqlTypeOK, Row
    <2>8. TokenFits(t, c)
      BY <2>2, <2>3, <2>5, SMTT(40) DEF TokenFits, Fenced
    <2>9. ASSUME NEW q \in Procs, held[q] # None, held[q].id = r.id
          PROVE  TokenFits(held[q], c)
      <3>1. PICK n \in 1..r.attempts : held[q].attempt = n % TOKEN
        BY <2>9 DEF Fences, TokenFits
      <3>2. n % TOKEN # c.attempts % TOKEN
        BY <2>2, <2>5, TokensDiffer, SqlQueueAssumption, SMTT(40)
      <3>3. n \in 1..c.attempts
        BY <2>2, <2>5, SMTT(40)
      <3> QED
        BY <3>1, <3>2, <3>3 DEF TokenFits, Fenced
    <2>10. ASSUME NEW q \in Procs, NEW s \in rows', held'[q] # None, held'[q].id = s.id
           PROVE  TokenFits(held'[q], s)
      <3>1. held \in [Procs -> Token \cup {None}]
        BY DEF SqlInv, SqlTypeOK
      <3>2. CASE held'[q] = held[q]
        BY <2>2, <2>4, <2>9, <2>10, <3>2 DEF Fences
      <3>3. CASE held'[q] # held[q]
        <4>1. held'[q] = t
          BY <2>4, <2>10, <3>1, <3>3
        <4>2. s = c
          BY <2>3, <2>4, <2>10, <4>1 DEF SqlInv, SqlConsistent
        <4> QED
          BY <2>8, <4>1, <4>2
      <3> QED
        BY <3>2, <3>3
    <2> QED
      BY <2>6, <2>7, <2>10 DEF Fences, TokenFits, Fenced
  <1>4. ASSUME NEW p \in Procs, do_delete(p)
        PROVE  Fences'
    <2>1. rows' \subseteq rows /\ held' = [held EXCEPT ![p] = None] /\ lastLease' = lastLease
      BY <1>4 DEF do_delete
    <2>2. IsFiniteSet(rows')
      BY <1>0, <2>1, FS_Subset
    <2>3. \A q \in Procs : held'[q] # None => held'[q] = held[q]
      BY <2>1 DEF SqlInv, SqlTypeOK
    <2> QED
      BY <2>1, <2>2, <2>3, SMTT(40) DEF Fences, TokenFits, Fenced
  <1>5. ASSUME NEW p \in Procs, do_release(p)
        PROVE  Fences'
    <2>1. PICK delay \in SqlDelays :
            /\ held[p] # None
            /\ rows' = {IF Fenced(r, held[p]) THEN FreedRow(r, delay) ELSE r : r \in rows}
            /\ held' = [held EXCEPT ![p] = [held[p] EXCEPT !.released = TRUE]]
            /\ UNCHANGED <<clock, sqlNextId, lastLease>>
      BY <1>5 DEF do_release, FreedRow
    <2>2. ASSUME NEW s \in rows'
          PROVE  \E r \in rows :
                   /\ s.id = r.id /\ s.lease = r.lease /\ s.attempts = r.attempts
                   /\ s.until = r.until \/ s.until = 0
                   /\ Fenced(r, held[p]) => s.until = 0
      BY <2>1, RowUpdates, SMTT(40) DEF SqlInv
    <2>3. IsFiniteSet(rows')
      <3>1. CASE \E r \in rows : Fenced(r, held[p])
        <4>1. PICK r \in rows : Fenced(r, held[p])
          BY <3>1
        <4>2. \A s \in rows : Fenced(s, held[p]) <=> s = r
          BY <2>1, <4>1, FencedRow
        <4>3. rows' = (rows \ {r}) \cup {FreedRow(r, delay)}
          BY <2>1, <4>2
        <4> QED
          BY <1>0, <4>3, FS_AddElement, FS_RemoveElement
      <3>2. CASE ~\E r \in rows : Fenced(r, held[p])
        <4>1. rows' = rows
          BY <2>1, <3>2
        <4> QED
          BY <1>0, <4>1
      <3> QED
        BY <3>1, <3>2
    <2>4. ASSUME NEW q \in Procs, held'[q] # None
          PROVE  /\ held[q] # None
                 /\ held'[q].id = held[q].id /\ held'[q].attempt = held[q].attempt
                 /\ held'[q].lease = held[q].lease
                 /\ q # p => held'[q].released = held[q].released
      BY <2>1, <2>4 DEF SqlInv, SqlTypeOK, Token
    <2>5. ASSUME NEW q \in Procs, NEW s \in rows', held'[q] # None, held'[q].id = s.id
          PROVE  TokenFits(held'[q], s)
      <3>1. PICK r \in rows :
              /\ s.id = r.id /\ s.lease = r.lease /\ s.attempts = r.attempts
              /\ s.until = r.until \/ s.until = 0
              /\ Fenced(r, held[p]) => s.until = 0
        BY <2>2
      <3>2. TokenFits(held[q], r)
        BY <2>4, <2>5, <3>1 DEF Fences
      <3> QED
        BY <2>4, <2>5, <3>1, <3>2 DEF TokenFits, Fenced
    <2> QED
      BY <2>1, <2>2, <2>3, <2>5 DEF Fences, TokenFits, Fenced
  <1>6. ASSUME NEW p \in Procs, GiveUp(p)
        PROVE  Fences'
    <2>1. \A q \in Procs : held'[q] # None => held'[q] = held[q]
      BY <1>6 DEF GiveUp, SqlInv, SqlTypeOK
    <2> QED
      BY <1>6, <2>1, SMTT(40) DEF GiveUp, Fences, TokenFits, Fenced
  <1>7. CASE UNCHANGED sqlVars
    BY <1>7 DEF sqlVars, Fences, TokenFits, Fenced
  <1> QED
    BY <1>1, <1>2, <1>3, <1>4, <1>5, <1>6, <1>7 DEF SqlNext

\* The step conjunct: what ends a running lease is its holder.
LEMMA LeaseStep ==
    ASSUME SqlInv, Fences, [SqlNext]_sqlVars
    PROVE  LeaseIsTheHolders
  <1> SUFFICES ASSUME NEW r \in rows, r.until > clock,
                      ~(\E s \in rows' : s.id = r.id /\ s.until = r.until /\ s.lease = r.lease)
               PROVE  \E p \in Procs : /\ held[p] # None /\ held[p].lease = r.lease
                                      /\ held'[p] # held[p]
    BY DEF LeaseIsTheHolders
  <1>0. r \notin rows' /\ r.until \in Nat /\ clock \in Nat
    BY SMTT(40) DEF SqlInv, SqlTypeOK, Row
  <1>1. CASE SqlTick
    BY <1>0, <1>1 DEF SqlTick
  <1>2. CASE SqlPush
    BY <1>0, <1>2 DEF SqlPush, do_push
  <1>3. ASSUME NEW p \in Procs, SqlPop(p)
        PROVE  FALSE
    <2>1. PICK u \in rows, v \in SqlVisibility :
             Claimable(u) /\ rows' = (rows \ {u}) \cup {ClaimedRow(u, v)}
      BY <1>3, PopRow
    <2>2. u = r
      BY <1>0, <2>1
    <2> QED
      BY <1>0, <2>1, <2>2, SMTT(40) DEF Claimable
  <1>4. ASSUME NEW p \in Procs, do_delete(p)
        PROVE  held[p] # None /\ held[p].lease = r.lease /\ held'[p] # held[p]
    <2>1. Fenced(r, held[p]) /\ held[p] # None
      BY <1>0, <1>4 DEF do_delete
    <2>2. TokenFits(held[p], r)
      BY <2>1 DEF Fences, Fenced
    <2>3. held'[p] = None
      BY <1>4 DEF do_delete, SqlInv, SqlTypeOK
    <2> QED
      BY <2>1, <2>2, <2>3 DEF TokenFits
  <1>5. ASSUME NEW p \in Procs, do_release(p)
        PROVE  held[p] # None /\ held[p].lease = r.lease /\ held'[p] # held[p]
    <2>1. PICK delay \in SqlDelays :
            rows' = {IF Fenced(s, held[p]) THEN FreedRow(s, delay) ELSE s : s \in rows}
      BY <1>5 DEF do_release, FreedRow
    <2>2. Fenced(r, held[p]) /\ held[p] # None
      BY <1>0, <1>5, <2>1 DEF do_release
    <2>3. TokenFits(held[p], r) /\ held[p] \in Token
      BY <2>2 DEF Fences, Fenced, SqlInv, SqlTypeOK
    <2>4. held[p].lease = r.lease /\ ~held[p].released
      BY <1>0, <2>2, <2>3, SMTT(40) DEF TokenFits
    <2>5. held'[p].released = TRUE
      BY <1>5, <2>3 DEF do_release, SqlInv, SqlTypeOK, Token
    <2> QED
      BY <2>2, <2>4, <2>5
  <1>6. ASSUME NEW p \in Procs, GiveUp(p)
        PROVE  FALSE
    BY <1>0, <1>6 DEF GiveUp
  <1>7. CASE UNCHANGED sqlVars
    BY <1>0, <1>7 DEF sqlVars
  <1> QED
    BY <1>1, <1>2, <1>3, <1>4, <1>5, <1>6, <1>7 DEF SqlNext

LEMMA DisjointParts ==
    ASSUME NEW S, IsFiniteSet(S), NEW A, NEW B, NEW C,
           A \cup B \cup C = S, A \cap B = {}, (A \cup B) \cap C = {}
    PROVE  Cardinality(A) + Cardinality(B) + Cardinality(C) = Cardinality(S)
  <1>1. A \subseteq S /\ B \subseteq S /\ C \subseteq S
    OBVIOUS
  <1>2. IsFiniteSet(A) /\ IsFiniteSet(B) /\ IsFiniteSet(C)
    BY <1>1, FS_Subset
  <1>3. /\ IsFiniteSet(A \cup B)
        /\ Cardinality(A \cup B) = Cardinality(A) + Cardinality(B) - Cardinality({})
    BY <1>2, FS_Union, SMTT(40)
  <1>4. Cardinality(S) = Cardinality(A \cup B) + Cardinality(C) - Cardinality({})
    BY <1>2, <1>3, FS_Union, SMTT(40)
  <1>5. /\ Cardinality(A) \in Nat /\ Cardinality(B) \in Nat /\ Cardinality(C) \in Nat
        /\ Cardinality({}) = 0
    BY <1>2, FS_CardinalityType, FS_EmptySet
  <1> DEFINE a == Cardinality(A)
             b == Cardinality(B)
             c == Cardinality(C)
  <1>6. Cardinality(S) = (a + b - 0) + c - 0 /\ a \in Nat /\ b \in Nat /\ c \in Nat
    BY <1>3, <1>4, <1>5
  <1> HIDE DEF a, b, c
  <1>7. Cardinality(S) = a + b + c
    BY <1>6, SMTT(40)
  <1> QED
    BY <1>7 DEF a, b, c

LEMMA CountsStep ==
    ASSUME SqlTypeOK, IsFiniteSet(rows)
    PROVE  CountsAgree
  <1> DEFINE pending(q) == {r \in InQueue(q) : r.until <= clock /\ r.avail <= clock}
             delayed(q) == {r \in InQueue(q) : r.until <= clock /\ r.avail > clock}
             reserved(q) == {r \in InQueue(q) : r.until > clock}
             ready == {r \in rows : Claimable(r)}
  <1>0. /\ \A r \in rows : r.until \in Nat /\ r.avail \in Nat /\ r.queue \in SqlQueues
        /\ clock \in Nat
    BY SMTT(40) DEF SqlTypeOK, Row
  <1>1. ASSUME NEW q \in SqlQueues
        PROVE  /\ Cardinality(pending(q)) + Cardinality(delayed(q)) + Cardinality(reserved(q))
                    = Cardinality(InQueue(q))
               /\ do_size(q) = Cardinality(pending(q))
               /\ (q \in DOMAIN by_queue) = (InQueue(q) # {})
               /\ (do_size(q) = 0) <=> (pending(q) = {})
    <2>1. IsFiniteSet(InQueue(q)) /\ IsFiniteSet(pending(q))
      <3>1. InQueue(q) \subseteq rows /\ pending(q) \subseteq rows
        BY DEF InQueue
      <3> QED
        BY <3>1, FS_Subset
    <2>2. /\ pending(q) \cup delayed(q) \cup reserved(q) = InQueue(q)
          /\ pending(q) \cap delayed(q) = {}
          /\ (pending(q) \cup delayed(q)) \cap reserved(q) = {}
      BY <1>0, SMTT(40) DEF InQueue
    <2>3. {r \in InQueue(q) : Claimable(r)} = pending(q)
      BY DEF Claimable
    <2>4. do_size(q) = Cardinality(pending(q))
      BY <2>3 DEF do_size
    <2>5. (q \in DOMAIN by_queue) = (InQueue(q) # {})
      BY SMTT(40) DEF by_queue, InQueue
    <2> HIDE DEF pending, delayed, reserved
    <2> QED
      BY <2>1, <2>2, <2>4, <2>5, DisjointParts, FS_EmptySet, SMTT(40)
  <1>2. do_stats.ready = Cardinality(ready) /\ do_stats.total = Cardinality(rows)
    BY DEF do_stats
  <1>3. /\ IsFiniteSet(ready) /\ Cardinality(ready) <= Cardinality(rows)
        /\ (Cardinality(ready) = 0) <=> (ready = {})
    BY FS_Subset, FS_EmptySet
  <1>4. (ready = {}) <=> (\A q \in SqlQueues : pending(q) = {})
    BY <1>0 DEF Claimable, InQueue
  <1>5. (do_stats.ready = 0) = (\A q \in SqlQueues : do_size(q) = 0)
    <2> HIDE DEF pending, ready
    <2> QED
      BY <1>1, <1>2, <1>3, <1>4
  <1>6. do_stats.ready <= do_stats.total
    BY <1>2, <1>3
  <1>7. ASSUME NEW q \in SqlQueues
        PROVE  LET c == do_counts(q)
               IN /\ c.pending + c.delayed + c.reserved = Cardinality(InQueue(q))
                  /\ do_size(q) = c.pending
                  /\ (q \in DOMAIN by_queue) = (InQueue(q) # {})
    <2>1. /\ do_counts(q).pending = Cardinality(pending(q))
          /\ do_counts(q).delayed = Cardinality(delayed(q))
          /\ do_counts(q).reserved = Cardinality(reserved(q))
      BY DEF do_counts
    <2> QED
      BY <1>1, <2>1
  <1> QED
    BY <1>5, <1>6, <1>7 DEF CountsAgree

\* While no job was claimed more often than a token can count (65536), a running lease is
\* ended only by the process that holds it, whatever old tokens are presented; and after
\* every change size, counts and stats agree about the jobs (squeue_sql.rs).
THEOREM TableHolds ==
    ASSUME MaxClaims <= TOKEN
    PROVE  SqlSpec => TableIsTrue
  <1>1. SqlInit => Fences
    BY FencesInit
  <1>2. SqlInv /\ Fences /\ [SqlNext]_sqlVars => Fences'
    BY FencesStep
  <1>3. SqlInv /\ Fences => CountsAgree
    BY CountsStep DEF SqlInv, Fences
  <1>4. SqlInv /\ Fences /\ CountsAgree' /\ [SqlNext]_sqlVars => [TableStep]_sqlVars
    BY LeaseStep DEF TableStep
  <1>5. SqlSpec => []SqlInv
    BY TableInvariant
  <1> QED
    BY <1>1, <1>2, <1>3, <1>4, <1>5, PTL DEF SqlSpec, TableIsTrue

=============================================================================
