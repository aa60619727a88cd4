----------------------------- MODULE RingProofs -----------------------------
(***************************************************************************)
(* More proofs about the ring, from the invariant of QueueProofs: it       *)
(* implements the abstract job queue, it counts the attempts, and its      *)
(* scans, which are not atomic, miss nothing that stays put.               *)
(***************************************************************************)
EXTENDS QueueProofs

\* A leaf that names no prover is tried with Zenon.
USE ZenonT(40)

-----------------------------------------------------------------------------
(***************************************************************************)
(* The ring implements the abstract queue.                                 *)
(***************************************************************************)

\* A release presents a lease that was handed out.
TokenInv == \A w \in Workers : op[w].pc = "release" => op[w].id \in 1 .. nextLease

\* No release is in progress at the start.
LEMMA TokenInit == Init => TokenInv
  BY SMTT(40) DEF Init, TokenInv, Idle

\* Leases are only ever counted up, and a release keeps the one it was given.
LEMMA TokenStep ==
    ASSUME TypeOK, TokenInv, [Next]_vars
    PROVE  TokenInv'
  <1>0. nextLease \in Nat /\ op \in [Workers -> Locals]
    BY Counters DEF TypeOK
  <1>1. nextLease' \in {nextLease, nextLease + 1}
    <2>1. ASSUME NEW w \in Workers, PopCrash(w)
          PROVE  nextLease' \in {nextLease, nextLease + 1}
      <3>1. PICK k \in 1 .. 3 : nextLease' \in {nextLease + n : n \in (k \div 3) .. (k \div 2)}
        BY <2>1 DEF PopCrash
      <3>2. PICK n \in (k \div 3) .. (k \div 2) : nextLease' = nextLease + n
        BY <3>1
      <3>3. (k \div 3) \in 0 .. 1 /\ (k \div 2) \in 0 .. 1
        BY SMTT(40), k = 1 \/ k = 2 \/ k = 3
      <3>4. n = 0 \/ n = 1
        BY <3>2, <3>3, SMTT(40)
      <3> QED
        BY <1>0, <3>2, <3>4, SMTT(40)
    <2>2. ASSUME NEW w \in Workers, Pop(w)
          PROVE  nextLease' \in {nextLease, nextLease + 1}
      BY <2>1, <2>2 DEF Pop, PopStart, PopScan, PopTake, PopMissed
    <2>3. ASSUME NEW w \in Workers, Push(w) \/ Release(w) \/ Crash(w)
          PROVE  nextLease' = nextLease
      BY <2>3 DEF Push, PushTicket, PushClock, PushProbe, PushCrash, Release, ReleaseStart,
           ReleaseApply, ReleaseUnknown, ReleaseCrash, Crash
    <2> QED
      BY <2>2, <2>3 DEF Next, Delete, Tick, vars
  <1>2. ASSUME NEW w \in Workers, op'[w].pc = "release"
        PROVE  op'[w].id \in 1 .. nextLease
    <2>1. CASE op'[w] = op[w]
      BY <1>2, <2>1 DEF TokenInv
    <2>2. CASE op'[w] # op[w]
      <3>1. PICK v \in Workers : Push(v) \/ Pop(v) \/ Release(v) \/ Crash(v)
        BY <2>2 DEF Next, Delete, Tick, vars
      <3>0. ~Finish(v)
        BY <1>0, <1>2, <2>2, SMTT(40) DEF Finish, Idle
      <3>2. ~Push(v)
        <4>1. \A q, d : ~PushTicket(v, q, d)
          BY <1>0, <1>2, <2>2 DEF PushTicket, Idle
        <4>2. ~PushClock(v)
          BY <1>0, <1>2, <2>2 DEF PushClock, Locals
        <4>3. ~PushProbe(v)
          <5> SUFFICES ASSUME PushProbe(v)
                       PROVE  FALSE
            OBVIOUS
          <5>1. op[v].pc = "push_probe" /\ op[v] \in Locals /\ v = w
            BY <1>0, <2>2, <3>0 DEF PushProbe
          <5> QED
            BY <1>0, <1>2, <3>0, <5>1, SMTT(40) DEF PushProbe, Idle, Locals
        <4>4. ~PushCrash(v)
          BY <3>0 DEF PushCrash, Die
        <4> QED
          BY <4>1, <4>2, <4>3, <4>4 DEF Push
      <3>3. ~Crash(v)
        BY <3>0 DEF Crash, Die
      <3>4. ~Pop(v)
        <4>1. ~PopScan(v)
          <5> SUFFICES ASSUME PopScan(v)
                       PROVE  FALSE
            OBVIOUS
          <5>1. op[v].pc = "pop_scan" /\ op[v] \in Locals /\ v = w
            BY <1>0, <2>2 DEF PopScan
          <5> QED
            BY <1>0, <1>2, <5>1 DEF PopScan, Idle, Locals
        <4>2. \A q, d : ~PopStart(v, q, d)
          BY <1>0, <1>2, <2>2 DEF PopStart, Idle
        <4> QED
          BY <3>0, <4>1, <4>2 DEF Pop, PopTake, PopMissed, PopCrash, Die
      <3>5. CASE Release(v)
        <4>1. PICK lease \in 1 .. MaxLease, d \in Delays : ReleaseStart(v, lease, d)
          BY <3>0, <3>5 DEF Release, ReleaseApply, ReleaseUnknown, ReleaseCrash, Die
        <4> QED
          BY <1>0, <1>2, <2>2, <4>1 DEF ReleaseStart, Idle
      <3> QED
        BY <3>1, <3>2, <3>3, <3>4, <3>5
    <2> QED
      BY <2>1, <2>2
  <1> QED
    BY <1>0, <1>1, <1>2, SMTT(40) DEF TokenInv

\* The jobs of the abstract queue.
RingJobs == {AbstractJob(ring[s]) : s \in Occupied}

\* What the change of one slot does to them.
LEMMA OneSlot ==
    ASSUME IInv, NEW s \in Slots, NEW x, ring' = [ring EXCEPT ![s] = x]
    PROVE  /\ ring[s].id = 0 /\ x.id = 0 => RingJobs' = RingJobs
           /\ ring[s].id = 0 /\ x.id # 0 => RingJobs' = RingJobs \cup {AbstractJob(x)}
           /\ ring[s].id # 0 /\ x.id = 0 => RingJobs' = RingJobs \ {AbstractJob(ring[s])}
           /\ ring[s].id # 0 /\ x.id # 0 =>
                RingJobs' = (RingJobs \ {AbstractJob(ring[s])}) \cup {AbstractJob(x)}
           /\ ring[s].id # 0 => AbstractJob(ring[s]) \in RingJobs
  <1> DEFINE Rest == {AbstractJob(ring[r]) : r \in Occupied \ {s}}
  <1>1. \A r \in Slots : ring'[r] = IF r = s THEN x ELSE ring[r]
    BY DEF IInv, TypeOK
  <1>2. Occupied' = (Occupied \ {s}) \cup (IF x.id # 0 THEN {s} ELSE {})
    BY <1>1 DEF Occupied
  <1>3. RingJobs' = Rest \cup (IF x.id # 0 THEN {AbstractJob(x)} ELSE {})
    BY <1>1, <1>2 DEF RingJobs, Occupied
  <1>4. RingJobs = Rest \cup (IF ring[s].id # 0 THEN {AbstractJob(ring[s])} ELSE {})
    BY DEF RingJobs, Occupied
  <1>5. \A r \in Occupied \ {s} : ring[s].id # 0 => AbstractJob(ring[r]) # AbstractJob(ring[s])
    BY DEF IInv, NoJobLost, Occupied, AbstractJob
  <1>6. ring[s].id # 0 => AbstractJob(ring[s]) \notin Rest
    BY <1>5
  <1> HIDE DEF Rest
  <1> QED
    BY <1>3, <1>4, <1>6

\* What a death leaves of a slot, field by field.
LEMMA TornField ==
    ASSUME NEW old \in Job, NEW new \in Job, NEW order, NEW k
    PROVE  LET x == Torn(old, new, order, k)
           IN  /\ x.queue = IF order.queue <= k THEN new.queue ELSE old.queue
               /\ x.avail = IF order.avail <= k THEN new.avail ELSE old.avail
               /\ x.attempts = IF order.attempts <= k THEN new.attempts ELSE old.attempts
  BY DEF Torn, Job

\* A push cut short has written a job only if its last store, the id, was made.
LEMMA PushTears ==
    ASSUME NEW old \in Job, NEW new \in Job, NEW k \in 1 .. 7
    PROVE  LET x == Torn(old, new, PushOrder, k)
           IN  /\ x.id = IF k = 7 THEN new.id ELSE old.id
               /\ k = 7 => AbstractJob(x) = AbstractJob(new) /\ x.attempts = new.attempts
  <1> DEFINE x == Torn(old, new, PushOrder, k)
  <1>1. x.id = IF k = 7 THEN new.id ELSE old.id
    BY TornPush
  <1>2. /\ x.queue = IF PushOrder.queue <= k THEN new.queue ELSE old.queue
        /\ x.avail = IF PushOrder.avail <= k THEN new.avail ELSE old.avail
        /\ x.attempts = IF PushOrder.attempts <= k THEN new.attempts ELSE old.attempts
    BY TornField, SMTT(40)
  <1>3. /\ x.lease = IF PushOrder.lease <= k THEN new.lease ELSE old.lease
        /\ x.reservedUntil = IF PushOrder.reservedUntil <= k
                             THEN new.reservedUntil ELSE old.reservedUntil
    BY TornFields, SMTT(40)
  <1>4. /\ PushOrder.queue = 1 /\ PushOrder.avail = 2 /\ PushOrder.reservedUntil = 3
        /\ PushOrder.lease = 4 /\ PushOrder.attempts = 5
    BY DEF PushOrder
  <1> HIDE DEF x
  <1>5. k = 7 => /\ x.queue = new.queue /\ x.avail = new.avail /\ x.attempts = new.attempts
                 /\ x.lease = new.lease /\ x.reservedUntil = new.reservedUntil
    BY <1>2, <1>3, <1>4, SMTT(40)
  <1>6. k = 7 => AbstractJob(x) = AbstractJob(new)
    BY <1>1, <1>5 DEF AbstractJob
  <1> QED
    BY <1>1, <1>5, <1>6 DEF x

\* A pop cut short has counted the attempt, and may have set the window or the lease.
LEMMA PopTears ==
    ASSUME NEW old \in Job, NEW new \in Job, NEW k \in 1 .. 3
    PROVE  LET x == Torn(old, new, PopOrder, k)
           IN  /\ x.id = old.id /\ x.queue = old.queue /\ x.avail = old.avail
               /\ x.attempts = new.attempts
               /\ x.lease = IF k = 3 THEN new.lease ELSE old.lease
               /\ x.reservedUntil = IF k = 1 THEN old.reservedUntil ELSE new.reservedUntil
  <1> DEFINE x == Torn(old, new, PopOrder, k)
  <1>1. /\ x.id = old.id
        /\ x.lease = IF k = 3 THEN new.lease ELSE old.lease
        /\ x.reservedUntil = IF k = 1 THEN old.reservedUntil ELSE new.reservedUntil
    BY TornPop, SMTT(40)
  <1>2. /\ x.queue = IF PopOrder.queue <= k THEN new.queue ELSE old.queue
        /\ x.avail = IF PopOrder.avail <= k THEN new.avail ELSE old.avail
        /\ x.attempts = IF PopOrder.attempts <= k THEN new.attempts ELSE old.attempts
    BY TornField, SMTT(40)
  <1>3. PopOrder.queue = 4 /\ PopOrder.avail = 4 /\ PopOrder.attempts = 1
    BY DEF PopOrder
  <1> HIDE DEF x
  <1>4. x.queue = old.queue /\ x.avail = old.avail /\ x.attempts = new.attempts
    BY <1>2, <1>3, SMTT(40)
  <1> QED
    BY <1>1, <1>4 DEF x

\* A release cut short has set the availability, and may have cleared the reservation.
LEMMA ReleaseTears ==
    ASSUME NEW old \in Job, NEW new \in Job, NEW k \in 1 .. 3
    PROVE  LET x == Torn(old, new, ReleaseOrder, k)
           IN  /\ x.id = old.id /\ x.queue = old.queue /\ x.attempts = old.attempts
               /\ x.avail = new.avail
               /\ x.lease \in {new.lease, old.lease}
               /\ x.reservedUntil \in {new.reservedUntil, old.reservedUntil}
  <1> DEFINE x == Torn(old, new, ReleaseOrder, k)
  <1>1. x.id = old.id /\ x.lease \in {new.lease, old.lease}
    BY TornRelease
  <1>2. /\ x.queue = IF ReleaseOrder.queue <= k THEN new.queue ELSE old.queue
        /\ x.avail = IF ReleaseOrder.avail <= k THEN new.avail ELSE old.avail
        /\ x.attempts = IF ReleaseOrder.attempts <= k THEN new.attempts ELSE old.attempts
    BY TornField, SMTT(40)
  <1>3. x.reservedUntil \in {new.reservedUntil, old.reservedUntil}
    BY TornFields, SMTT(40)
  <1>4. ReleaseOrder.queue = 4 /\ ReleaseOrder.avail = 1 /\ ReleaseOrder.attempts = 4
    BY DEF ReleaseOrder
  <1> HIDE DEF x
  <1>5. x.queue = old.queue /\ x.avail = new.avail /\ x.attempts = old.attempts
    BY <1>2, <1>4, SMTT(40)
  <1> QED
    BY <1>1, <1>3, <1>5 DEF x

\* The steps of the abstract queue, in terms of the ring's.
Claimed(e, u, l) == [e EXCEPT !.until = u, !.lease = l]
Returned(e, a, u, l) == [e EXCEPT !.avail = a, !.until = u, !.lease = l]

\* A job that comes into the ring is a Submit of the abstract queue.
LEMMA Submits ==
    ASSUME NEW id \in (1 .. MaxId) \ accepted, NEW q \in Queues, NEW a \in Times,
           RingJobs' = RingJobs \cup {[id |-> id, queue |-> q, avail |-> a, until |-> 0,
                                       lease |-> 0]},
           accepted' = accepted \cup {id}, UNCHANGED <<now, nextLease>>
    PROVE  JQ!JQNext
  BY DEF RingJobs, JQ!Submit, JQ!JQNext

\* A reservation with its lease is a Claim.
LEMMA Claims ==
    ASSUME NEW j \in RingJobs, NEW u \in Times, j.avail <= now, j.until <= now,
           nextLease' = nextLease + 1,
           RingJobs' = (RingJobs \ {j}) \cup {Claimed(j, u, nextLease + 1)},
           UNCHANGED <<now, accepted>>
    PROVE  JQ!JQNext
  BY DEF RingJobs, Claimed, JQ!Claim, JQ!JQNext

\* A reservation whose lease was never handed out is a lost Claim.
LEMMA LosesClaim ==
    ASSUME NEW j \in RingJobs, NEW u \in Times, j.avail <= now, j.until <= now,
           nextLease' \in {nextLease, nextLease + 1},
           RingJobs' = (RingJobs \ {j}) \cup {[j EXCEPT !.until = u]},
           UNCHANGED <<now, accepted>>
    PROVE  JQ!JQNext
  BY DEF RingJobs, JQ!LoseClaim, JQ!JQNext

\* A job that leaves the ring is an Ack.
LEMMA Acknowledges ==
    ASSUME NEW j \in RingJobs, j.lease # 0, RingJobs' = RingJobs \ {j},
           UNCHANGED <<now, accepted, nextLease>>
    PROVE  JQ!JQNext
  BY DEF RingJobs, JQ!Acknowledge, JQ!JQNext

\* A reservation that is given back is a Return.
LEMMA GivesBack ==
    ASSUME NEW j \in RingJobs, NEW a \in Times, NEW u \in {0, j.until}, NEW l \in {0, j.lease},
           j.lease # 0,
           RingJobs' = (RingJobs \ {j}) \cup {Returned(j, a, u, l)},
           UNCHANGED <<now, accepted, nextLease>>
    PROVE  JQ!JQNext
  BY DEF RingJobs, Returned, JQ!GiveBack, JQ!JQNext

\* A step that leaves jobs, clock and counters alone is a stutter.
LEMMA Stutters ==
    ASSUME RingJobs' = RingJobs, UNCHANGED <<now, accepted, nextLease>>
    PROVE  UNCHANGED JQ!jqvars
  BY DEF RingJobs, JQ!jqvars

\* The entry of a job with its reservation, or all that a release stores, changed.
LEMMA ReservedEntry ==
    ASSUME NEW j \in Job, NEW x \in Job, x.id = j.id, x.queue = j.queue, x.avail = j.avail
    PROVE  AbstractJob(x) = Claimed(AbstractJob(j), x.reservedUntil, x.lease)
  <1> DEFINE e == [id |-> j.id, queue |-> j.queue, avail |-> j.avail, until |-> x.reservedUntil,
                   lease |-> j.lease]
  <1>1. [AbstractJob(j) EXCEPT !.until = x.reservedUntil] = e
    BY SMTT(40) DEF AbstractJob
  <1>2. [e EXCEPT !.lease = x.lease] = AbstractJob(x)
    BY SMTT(40) DEF AbstractJob
  <1>3. Claimed(AbstractJob(j), x.reservedUntil, x.lease) =
          [[AbstractJob(j) EXCEPT !.until = x.reservedUntil] EXCEPT !.lease = x.lease]
    BY DEF Claimed
  <1> HIDE DEF e
  <1> QED
    BY <1>1, <1>2, <1>3

\* A released slot, whole or cut short, shows the job returned.
LEMMA ReleasedEntry ==
    ASSUME NEW j \in Job, NEW x \in Job, x.id = j.id, x.queue = j.queue
    PROVE  AbstractJob(x) = Returned(AbstractJob(j), x.avail, x.reservedUntil, x.lease)
  <1> DEFINE d == [id |-> j.id, queue |-> j.queue, avail |-> x.avail,
                   until |-> j.reservedUntil, lease |-> j.lease]
             e == [id |-> j.id, queue |-> j.queue, avail |-> x.avail,
                   until |-> x.reservedUntil, lease |-> j.lease]
  <1>1. [AbstractJob(j) EXCEPT !.avail = x.avail] = d
    BY SMTT(40) DEF AbstractJob
  <1>2. [d EXCEPT !.until = x.reservedUntil] = e
    BY SMTT(40)
  <1>3. [e EXCEPT !.lease = x.lease] = AbstractJob(x)
    BY SMTT(40) DEF AbstractJob
  <1>4. Returned(AbstractJob(j), x.avail, x.reservedUntil, x.lease) =
          [[[AbstractJob(j) EXCEPT !.avail = x.avail]
                EXCEPT !.until = x.reservedUntil] EXCEPT !.lease = x.lease]
    BY DEF Returned
  <1> HIDE DEF d, e
  <1> QED
    BY <1>1, <1>2, <1>3, <1>4

\* Every step of push is a Submit or a stutter.
LEMMA RefinePush ==
    ASSUME IInv, NEW w \in Workers, Push(w)
    PROVE  [JQ!JQNext]_JQ!jqvars
  <1>0. TypeOK /\ op[w] \in Locals /\ HasQueue(op[w])
    BY DEF IInv, TypeOK
  <1> DEFINE new == NewJob(w)
             s == PushSlot(w)
  <1>1. s \in Slots /\ new \in Job /\ ring[s] \in Job
    BY <1>0, PushSlotType, NewJobType DEF TypeOK
  <1>2. op[w].pc = "push_probe" =>
          /\ op[w].id \in (1 .. MaxId) \ accepted /\ op[w].queue \in Queues
          /\ new.id = op[w].id /\ new.id # 0
          /\ SatAdd(op[w].t, op[w].arg) \in Times
          /\ AbstractJob(new) = [id |-> op[w].id, queue |-> op[w].queue,
                                 avail |-> SatAdd(op[w].t, op[w].arg), until |-> 0, lease |-> 0]
    <2>1. op[w].pc = "push_probe" => op[w].id \in (1 .. nextId) \ accepted
      BY DEF IInv, CallInv, Pushing
    <2>2. op[w].pc = "push_probe" => op[w].queue \in Queues
      BY <1>0 DEF HasQueue
    <2>3. nextId \in 0 .. MaxId
      BY <1>0 DEF TypeOK
    <2>4. SatAdd(op[w].t, op[w].arg) \in Times
      <3>1. op[w].t \in Nat /\ op[w].arg \in Nat
        BY <1>0, ConstantsAssumption, SMTT(40) DEF Locals, Times
      <3> QED
        BY <3>1, SatAddType
    <2>5. op[w].pc = "push_probe" => op[w].id \in (1 .. MaxId) \ accepted /\ op[w].id # 0
      BY <2>1, <2>3, ConstantsAssumption, SMTT(40)
    <2> QED
      BY <2>2, <2>4, <2>5 DEF NewJob, AbstractJob
  <1>3. ASSUME op[w].pc = "push_probe", ring[s].id = 0, NEW x, x.id = new.id,
               AbstractJob(x) = AbstractJob(new),
               ring' = [ring EXCEPT ![s] = x], accepted' = accepted \cup {op[w].id},
               UNCHANGED <<now, nextLease>>
        PROVE  JQ!JQNext
    <2>1. RingJobs' = RingJobs \cup {AbstractJob(new)}
      BY <1>1, <1>2, <1>3, OneSlot
    <2> QED
      BY <1>2, <1>3, <2>1, Submits
  <1>4. ASSUME NEW q \in Queues, NEW d \in Delays, PushTicket(w, q, d)
        PROVE  UNCHANGED JQ!jqvars
    BY <1>4, Stutters DEF PushTicket, ghosts, RingJobs, Occupied
  <1>5. CASE PushClock(w)
    BY <1>5, Stutters DEF PushClock, ghosts, RingJobs, Occupied
  <1>6. CASE PushProbe(w)
    <2>1. CASE MayFill(w)
      <3>1. /\ op[w].pc = "push_probe" /\ ring[s].id = 0
            /\ ring' = [ring EXCEPT ![s] = new] /\ accepted' = accepted \cup {op[w].id}
            /\ UNCHANGED <<now, nextLease>>
        BY <1>6, <2>1 DEF PushProbe, MayFill
      <3> HIDE DEF new, s
      <3> QED
        BY <1>3, <3>1
    <2>2. CASE ~MayFill(w)
      BY <1>6, <2>2, Stutters DEF PushProbe, RingJobs, Occupied
    <2> QED
      BY <2>1, <2>2
  <1>7. CASE PushCrash(w)
    <2>1. PICK k \in 1 .. 7 :
            /\ ring' = [ring EXCEPT ![s] = Torn(ring[s], new, PushOrder, k)]
            /\ accepted' = IF k = 7 THEN accepted \cup {op[w].id} ELSE accepted
      BY <1>7 DEF PushCrash
    <2> DEFINE x == Torn(ring[s], new, PushOrder, k)
    <2>2. /\ op[w].pc = "push_probe" /\ ring[s].id = 0 /\ UNCHANGED <<now, nextLease>>
          /\ ring' = [ring EXCEPT ![s] = x]
      BY <1>7, <2>1 DEF PushCrash, MayFill
    <2>3. /\ x.id = IF k = 7 THEN new.id ELSE ring[s].id
          /\ k = 7 => AbstractJob(x) = AbstractJob(new)
      <3> DEFINE old == ring[s]
      <3>1. old \in Job /\ x = Torn(old, new, PushOrder, k)
        BY <1>1
      <3> HIDE DEF old, new, x, s
      <3>2. /\ x.id = IF k = 7 THEN new.id ELSE old.id
            /\ k = 7 => AbstractJob(x) = AbstractJob(new)
        BY <1>1, <3>1, PushTears
      <3> QED
        BY <3>2 DEF old
    <2> HIDE DEF x, new, s
    <2>4. CASE k = 7
      BY <1>3, <2>1, <2>2, <2>3, <2>4
    <2>5. CASE k # 7
      <3>1. x.id = 0 /\ accepted' = accepted
        BY <2>1, <2>2, <2>3, <2>5
      <3>2. RingJobs' = RingJobs
        BY <1>1, <2>2, <3>1, OneSlot
      <3> QED
        BY <2>2, <3>1, <3>2, Stutters
    <2> QED
      BY <2>4, <2>5
  <1> QED
    BY <1>4, <1>5, <1>6, <1>7 DEF Push

\* Every step of pop is a Claim, a lost Claim or a stutter.
LEMMA RefinePop ==
    ASSUME IInv, NEW w \in Workers, Pop(w)
    PROVE  [JQ!JQNext]_JQ!jqvars
  <1>0. TypeOK /\ op[w] \in Locals
    BY DEF IInv, TypeOK
  <1> DEFINE b == op[w].bestSlot
             old == ring[b]
             new == Reserve(w)
             u == SatAdd(op[w].t, op[w].arg)
  <1>1. b \in Slots /\ old \in Job /\ new \in Job /\ u \in Times
    <2>1. b \in Slots /\ op[w].t \in Nat /\ op[w].arg \in Nat
      BY <1>0, ConstantsAssumption, SMTT(40) DEF Locals, Times
    <2> QED
      BY <1>0, <2>1, ReserveType, SatAddType DEF TypeOK
  <1>2. /\ new.id = old.id /\ new.queue = old.queue /\ new.avail = old.avail
        /\ new.reservedUntil = u /\ new.lease = nextLease + 1
    BY <1>1 DEF Reserve, Job
  <1>3. op[w].pc = "pop_take" /\ StillThere(w) =>
          old.id # 0 /\ old.avail <= now /\ old.reservedUntil <= now
    <2>1. op[w].pc = "pop_take" => op[w].bestId # 0 /\ op[w].t <= now
      BY DEF IInv, CallInv, Popping
    <2>2. now \in Nat /\ op[w].t \in Nat /\ old.avail \in Nat /\ old.reservedUntil \in Nat
      BY <1>0, <1>1, Counters, LocalsOf, ConstantsAssumption, SMTT(40) DEF Job, Times
    <2>3. StillThere(w) => /\ old.id = op[w].bestId /\ old.avail <= op[w].t
                           /\ old.reservedUntil = 0 \/ old.reservedUntil <= op[w].t
      BY DEF StillThere, Ready
    <2> HIDE DEF old
    <2> QED
      BY <2>1, <2>2, <2>3, SMTT(40)
  <1>4. ASSUME op[w].pc = "pop_take", StillThere(w), NEW x, x.id = old.id,
               ring' = [ring EXCEPT ![b] = x]
        PROVE  /\ RingJobs' = (RingJobs \ {AbstractJob(old)}) \cup {AbstractJob(x)}
               /\ AbstractJob(old) \in RingJobs
               /\ AbstractJob(old).avail <= now /\ AbstractJob(old).until <= now
    <2>1. AbstractJob(old).avail = old.avail /\ AbstractJob(old).until = old.reservedUntil
      BY DEF AbstractJob
    <2> QED
      BY <1>1, <1>3, <1>4, <2>1, OneSlot
  <1>5. ASSUME NEW q \in Queues, NEW v \in Visibility, PopStart(w, q, v)
        PROVE  UNCHANGED JQ!jqvars
    BY <1>5, Stutters DEF PopStart, ghosts, RingJobs, Occupied
  <1>6. CASE PopScan(w)
    BY <1>6, Stutters DEF PopScan, ghosts, RingJobs, Occupied
  <1>7. CASE PopMissed(w)
    BY <1>7, Stutters DEF PopMissed, ghosts, RingJobs, Occupied
  <1>8. CASE PopTake(w)
    <2>1. /\ op[w].pc = "pop_take" /\ StillThere(w) /\ ring' = [ring EXCEPT ![b] = new]
          /\ nextLease' = nextLease + 1 /\ UNCHANGED <<now, accepted>>
      BY <1>8 DEF PopTake
    <2>2. AbstractJob(new) = Claimed(AbstractJob(old), u, nextLease + 1)
      <3> HIDE DEF old, new, u
      <3> QED
        BY <1>1, <1>2, ReservedEntry
    <2> HIDE DEF old, new, u, b
    <2>3. /\ RingJobs' = (RingJobs \ {AbstractJob(old)}) \cup {AbstractJob(new)}
          /\ AbstractJob(old) \in RingJobs
          /\ AbstractJob(old).avail <= now /\ AbstractJob(old).until <= now
      BY <1>2, <1>4, <2>1
    <2> QED
      BY <1>1, <2>1, <2>2, <2>3, Claims
  <1>9. CASE PopCrash(w)
    <2>1. PICK k \in 1 .. 3 :
            /\ ring' = [ring EXCEPT ![b] = Torn(old, new, PopOrder, k)]
            /\ nextLease' \in {nextLease + n : n \in (k \div 3) .. (k \div 2)}
      BY <1>9 DEF PopCrash
    <2> DEFINE x == Torn(old, new, PopOrder, k)
    <2>2. /\ op[w].pc = "pop_take" /\ StillThere(w) /\ UNCHANGED <<now, accepted>>
          /\ ring' = [ring EXCEPT ![b] = x]
      BY <1>9, <2>1 DEF PopCrash
    <2> HIDE DEF old, new, u, b
    <2>3. /\ x.id = old.id /\ x.queue = old.queue /\ x.avail = old.avail
          /\ x.lease = IF k = 3 THEN new.lease ELSE old.lease
          /\ x.reservedUntil = IF k = 1 THEN old.reservedUntil ELSE new.reservedUntil
          /\ x \in Job
      <3>1. old \in Job /\ new \in Job
        BY <1>1
      <3>2. x \in Job
        BY <3>1, TornType
      <3> QED
        BY <3>1, <3>2, PopTears, SMTT(40)
    <2> HIDE DEF x
    <2>4. /\ RingJobs' = (RingJobs \ {AbstractJob(old)}) \cup {AbstractJob(x)}
          /\ AbstractJob(old) \in RingJobs
          /\ AbstractJob(old).avail <= now /\ AbstractJob(old).until <= now
      BY <1>4, <2>2, <2>3
    <2>5. CASE k = 1
      <3>1. (k \div 3) = 0 /\ (k \div 2) = 0 /\ nextLease \in Nat
        BY <1>0, <2>5, Counters, SMTT(40)
      <3>2. nextLease' = nextLease
        BY <2>1, <3>1, SMTT(40)
      <3>3. AbstractJob(x) = AbstractJob(old)
        BY <2>3, <2>5, SMTT(40) DEF AbstractJob
      <3>4. RingJobs' = RingJobs
        BY <2>4, <3>3
      <3> QED
        BY <2>2, <3>2, <3>4, Stutters
    <2>6. CASE k = 2
      <3>1. (k \div 3) = 0 /\ (k \div 2) = 1 /\ nextLease \in Nat
        BY <1>0, <2>6, Counters, SMTT(40)
      <3>2. PICK n \in 0 .. 1 : nextLease' = nextLease + n
        BY <2>1, <3>1
      <3>3. nextLease' \in {nextLease, nextLease + 1}
        BY <3>1, <3>2, SMTT(40)
      <3>4. AbstractJob(x) = [AbstractJob(old) EXCEPT !.until = u]
        BY <1>2, <2>3, <2>6, SMTT(40) DEF AbstractJob
      <3> QED
        BY <1>1, <2>2, <2>4, <3>3, <3>4, LosesClaim
    <2>7. CASE k = 3
      <3>1. (k \div 3) = 1 /\ (k \div 2) = 1 /\ nextLease \in Nat
        BY <1>0, <2>7, Counters, SMTT(40)
      <3>2. nextLease' = nextLease + 1
        BY <2>1, <3>1, SMTT(40)
      <3>3. AbstractJob(x) = Claimed(AbstractJob(old), u, nextLease + 1)
        BY <1>1, <1>2, <2>3, <2>7, ReservedEntry, SMTT(40)
      <3> QED
        BY <1>1, <2>2, <2>4, <3>2, <3>3, Claims
    <2> QED
      BY <2>5, <2>6, <2>7, SMTT(40)
  <1> QED
    BY <1>5, <1>6, <1>7, <1>8, <1>9 DEF Pop

\* Every step of release is a Return or a stutter.
LEMMA RefineRelease ==
    ASSUME IInv, TokenInv, NEW w \in Workers, Release(w)
    PROVE  [JQ!JQNext]_JQ!jqvars
  <1>0. TypeOK /\ op[w] \in Locals /\ op[w].t \in Times
    BY DEF IInv, TypeOK, Locals
  <1>1. ASSUME NEW s \in Slots, op[w].pc = "release", Holds(s, op[w].id), NEW x \in Job,
               x.id = ring[s].id, x.queue = ring[s].queue, x.avail = op[w].t,
               x.reservedUntil \in {0, ring[s].reservedUntil}, x.lease \in {0, ring[s].lease},
               ring' = [ring EXCEPT ![s] = x], UNCHANGED <<now, accepted, nextLease>>
        PROVE  JQ!JQNext
    <2> DEFINE j == ring[s]
               e == AbstractJob(j)
    <2>1. j.id # 0 /\ j.lease # 0
      BY <1>1, SMTT(40) DEF Holds, TokenInv
    <2>2. e.until = j.reservedUntil /\ e.lease = j.lease
      BY DEF AbstractJob
    <2>3. RingJobs' = (RingJobs \ {e}) \cup {AbstractJob(x)} /\ e \in RingJobs
      BY <1>1, <2>1, OneSlot
    <2>4. AbstractJob(x) = Returned(e, op[w].t, x.reservedUntil, x.lease)
      <3>1. j \in Job
        BY <1>0, <1>1 DEF TypeOK
      <3> HIDE DEF j
      <3> QED
        BY <1>1, <3>1, ReleasedEntry DEF j
    <2>5. x.reservedUntil \in {0, e.until} /\ x.lease \in {0, e.lease} /\ e.lease # 0
      BY <1>1, <2>1, <2>2
    <2> HIDE DEF e, j
    <2> QED
      BY <1>0, <1>1, <2>3, <2>4, <2>5, GivesBack
  <1>2. ASSUME NEW s \in Slots
        PROVE  /\ ring[s] \in Job /\ Released(w, s) \in Job
               /\ Released(w, s).id = ring[s].id /\ Released(w, s).queue = ring[s].queue
               /\ Released(w, s).avail = op[w].t /\ Released(w, s).reservedUntil = 0
               /\ Released(w, s).lease = 0
    <2>1. ring[s] \in Job
      BY <1>0 DEF TypeOK
    <2> QED
      BY <1>0, <2>1, ReleasedType DEF Released, Job
  <1>3. ASSUME NEW lease \in 1 .. MaxLease, NEW d \in Delays, ReleaseStart(w, lease, d)
        PROVE  UNCHANGED JQ!jqvars
    BY <1>3, Stutters DEF ReleaseStart, ghosts, RingJobs, Occupied
  <1>4. CASE ReleaseUnknown(w)
    BY <1>4, Stutters DEF ReleaseUnknown, ghosts, RingJobs, Occupied
  <1>5. CASE ReleaseApply(w)
    <2>1. PICK s \in Slots : Holds(s, op[w].id) /\ ring' = [ring EXCEPT ![s] = Released(w, s)]
      BY <1>5 DEF ReleaseApply
    <2>2. op[w].pc = "release" /\ UNCHANGED <<now, accepted, nextLease>>
      BY <1>5 DEF ReleaseApply
    <2> DEFINE x == Released(w, s)
    <2>3. /\ x.id = ring[s].id /\ x.queue = ring[s].queue /\ x.avail = op[w].t
          /\ x.reservedUntil = 0 /\ x.lease = 0 /\ ring' = [ring EXCEPT ![s] = x]
          /\ x \in Job
      BY <1>2, <2>1
    <2> HIDE DEF x
    <2> QED
      BY <1>1, <2>1, <2>2, <2>3
  <1>6. CASE ReleaseCrash(w)
    <2>1. PICK s \in Slots, k \in 1 .. 3 :
            /\ Holds(s, op[w].id)
            /\ ring' = [ring EXCEPT ![s] = Torn(ring[s], Released(w, s), ReleaseOrder, k)]
      BY <1>6 DEF ReleaseCrash
    <2>2. op[w].pc = "release" /\ UNCHANGED <<now, accepted, nextLease>>
      BY <1>6 DEF ReleaseCrash
    <2> DEFINE old == ring[s]
               new == Released(w, s)
               x == Torn(old, new, ReleaseOrder, k)
    <2>3. ring' = [ring EXCEPT ![s] = x]
      BY <2>1
    <2>4. /\ old \in Job /\ new \in Job /\ new.avail = op[w].t /\ new.reservedUntil = 0
          /\ new.lease = 0
      BY <1>2
    <2> HIDE DEF old, new
    <2>5. /\ x.id = old.id /\ x.queue = old.queue /\ x.avail = new.avail
          /\ x.lease \in {new.lease, old.lease}
          /\ x.reservedUntil \in {new.reservedUntil, old.reservedUntil} /\ x \in Job
      BY <2>4, ReleaseTears, TornType
    <2> HIDE DEF x
    <2>6. /\ x.id = ring[s].id /\ x.queue = ring[s].queue /\ x.avail = op[w].t
          /\ x.lease \in {0, ring[s].lease} /\ x.reservedUntil \in {0, ring[s].reservedUntil}
      BY <2>4, <2>5 DEF old
    <2> QED
      BY <1>1, <2>1, <2>2, <2>3, <2>5, <2>6
  <1> QED
    BY <1>3, <1>4, <1>5, <1>6 DEF Release

\* Every step of the ring is a step of the abstract queue or a stutter.
LEMMA RefineStep == IInv /\ TokenInv /\ [Next]_vars => [JQ!JQNext]_JQ!jqvars
  <1> SUFFICES ASSUME IInv, TokenInv, [Next]_vars
               PROVE  [JQ!JQNext]_JQ!jqvars
    OBVIOUS
  <1>1. ASSUME NEW w \in Workers, NEW lease \in 1 .. MaxLease, Delete(w, lease)
        PROVE  JQ!JQNext
    <2>1. PICK s \in Slots : Holds(s, lease) /\ ring' = [ring EXCEPT ![s].id = 0]
      BY <1>1 DEF Delete
    <2>2. UNCHANGED <<now, accepted, nextLease>>
      BY <1>1 DEF Delete
    <2> DEFINE x == [ring[s] EXCEPT !.id = 0]
    <2>3. ring[s] \in Job
      BY DEF IInv, TypeOK
    <2>4. x.id = 0 /\ ring' = [ring EXCEPT ![s] = x]
      BY <2>1, <2>3 DEF Job
    <2>5. ring[s].id # 0 /\ ring[s].lease = lease /\ lease # 0
      BY <2>1, SMTT(40) DEF Holds
    <2> HIDE DEF x
    <2>6. RingJobs' = RingJobs \ {AbstractJob(ring[s])} /\ AbstractJob(ring[s]) \in RingJobs
      BY <2>4, <2>5, OneSlot
    <2>7. AbstractJob(ring[s]).lease # 0
      BY <2>5 DEF AbstractJob
    <2> QED
      BY <2>2, <2>6, <2>7, Acknowledges
  <1>2. ASSUME NEW w \in Workers, Crash(w)
        PROVE  UNCHANGED JQ!jqvars
    BY <1>2, Stutters DEF Crash, ghosts, RingJobs, Occupied
  <1>3. CASE Tick
    <2>1. now' = now + 1 /\ RingJobs' = RingJobs /\ UNCHANGED <<accepted, nextLease>>
      BY <1>3 DEF Tick, ghosts, RingJobs, Occupied
    <2> QED
      BY <2>1 DEF RingJobs, JQ!Advance, JQ!JQNext
  <1>4. CASE UNCHANGED vars
    BY <1>4, Stutters DEF vars, RingJobs, Occupied
  <1> QED
    BY <1>1, <1>2, <1>3, <1>4, RefinePush, RefinePop, RefineRelease DEF Next

\* The ring, with its slot-by-slot scans, its locks and the deaths between any two of its
\* stores, implements the atomic job queue: every critical section of push, pop, delete
\* and release, whole or cut short, is one step of it or none.
THEOREM RingImplements == Spec => ImplementsJobQueue
  <1>1. Init => JQ!JQInit
    BY SMTT(40) DEF Init, JQ!JQInit, Occupied, FreeSlot
  <1>2. IInv => TypeOK
    BY DEF IInv
  <1>3. Spec => []TokenInv
    BY <1>2, TokenInit, TokenStep, InvHolds, PTL DEF Spec
  <1> QED
    BY <1>1, <1>3, RefineStep, InvHolds, PTL DEF Spec, ImplementsJobQueue, JQ!JQSpec

-----------------------------------------------------------------------------
(***************************************************************************)
(* What a step does to the ring and to the leases.                         *)
(***************************************************************************)

\* A step changes one slot, if any: it fills a free one, tears it, frees one, or leaves
\* its job and queue alone.  The leases change by one that is handed out, with the
\* attempt counted, or by one that is given back.
Untouched == ring' = ring /\ issued' = issued
Fills(s, x) ==
    /\ ring[s].id = 0 /\ ring' = [ring EXCEPT ![s] = x] /\ issued' = issued
    /\ x.id # 0 => x.attempts = 0 /\ x.id \notin accepted
Frees(s, x) == ring' = [ring EXCEPT ![s] = x] /\ x.id = 0 /\ issued' = issued
Keeps(s, x) ==
    /\ ring[s].id # 0 /\ x.id = ring[s].id /\ x.queue = ring[s].queue
    /\ ring' = [ring EXCEPT ![s] = x]
    /\ \/ x.attempts = ring[s].attempts + 1 /\ issued' = issued
       \/ /\ x.attempts = ring[s].attempts + 1 /\ nextLease < MaxLease
          /\ \E e : e.job = x.id /\ issued' = [issued EXCEPT ![nextLease + 1] = e]
       \/ /\ x.attempts = ring[s].attempts
          /\ \A l \in 1 .. MaxLease : issued'[l].job = issued[l].job

\* A push fills a free slot with a job that has no attempts, or leaves every job alone.
LEMMA PushChanges ==
    ASSUME IInv, NEW w \in Workers, Push(w)
    PROVE  Untouched \/ \E s \in Slots, x \in Job : Fills(s, x)
  <1>0. TypeOK
    BY DEF IInv
  <1> DEFINE new == NewJob(w)
             s == PushSlot(w)
  <1>1. s \in Slots /\ new \in Job /\ ring[s] \in Job
    BY <1>0, PushSlotType, NewJobType DEF TypeOK
  <1>2. /\ new.id = op[w].id /\ new.attempts = 0
        /\ op[w].pc = "push_probe" => op[w].id \notin accepted
    BY DEF NewJob, IInv, CallInv, Pushing
  <1>3. CASE PushProbe(w)
    <2>1. CASE MayFill(w)
      <3>1. Fills(s, new)
        BY <1>2, <1>3, <2>1 DEF PushProbe, MayFill, Fills
      <3> QED
        BY <1>1, <3>1
    <2>2. CASE ~MayFill(w)
      BY <1>3, <2>2 DEF PushProbe, Untouched
    <2> QED
      BY <2>1, <2>2
  <1>4. CASE PushCrash(w)
    <2>1. PICK k \in 1 .. 7 : ring' = [ring EXCEPT ![s] = Torn(ring[s], new, PushOrder, k)]
      BY <1>4 DEF PushCrash
    <2> DEFINE old == ring[s]
               x == Torn(old, new, PushOrder, k)
    <2>2. /\ op[w].pc = "push_probe" /\ old.id = 0 /\ issued' = issued
          /\ ring' = [ring EXCEPT ![s] = x]
      BY <1>4, <2>1 DEF PushCrash, MayFill
    <2>3. old \in Job
      BY <1>1
    <2> HIDE DEF old, new, s
    <2>4. /\ x \in Job /\ x.id = IF k = 7 THEN new.id ELSE old.id
          /\ k = 7 => x.attempts = new.attempts
      BY <1>1, <2>3, PushTears, TornType
    <2> HIDE DEF x
    <2>5. Fills(s, x)
      BY <1>2, <2>2, <2>4 DEF Fills, old
    <2> QED
      BY <1>1, <2>4, <2>5
  <1>5. CASE \/ \E q \in Queues, d \in Delays : PushTicket(w, q, d)
             \/ PushClock(w)
    BY <1>5 DEF PushTicket, PushClock, ghosts, Untouched
  <1> QED
    BY <1>3, <1>4, <1>5 DEF Push

\* A pop counts an attempt of the job it reserves, or leaves every job alone.
LEMMA PopChanges ==
    ASSUME IInv, NEW w \in Workers, Pop(w)
    PROVE  Untouched \/ \E s \in Slots, x \in Job : Keeps(s, x)
  <1>0. TypeOK /\ op[w] \in Locals
    BY DEF IInv, TypeOK
  <1> DEFINE b == op[w].bestSlot
             old == ring[b]
             new == Reserve(w)
  <1>1. b \in Slots /\ old \in Job /\ new \in Job
    BY <1>0, ReserveType DEF TypeOK, Locals
  <1>2. new.id = old.id /\ new.queue = old.queue /\ new.attempts = old.attempts + 1
    BY <1>1 DEF Reserve, Job
  <1>3. op[w].pc = "pop_take" /\ StillThere(w) => old.id # 0 /\ old.id = op[w].bestId
    BY DEF IInv, CallInv, StillThere
  <1>4. Issue(w).job = op[w].bestId
    BY DEF Issue
  <1>5. CASE PopTake(w)
    <2>1. Keeps(b, new)
      BY <1>2, <1>3, <1>4, <1>5 DEF PopTake, Keeps
    <2> QED
      BY <1>1, <2>1
  <1>6. CASE PopCrash(w)
    <2>1. PICK k \in 1 .. 3 :
            /\ ring' = [ring EXCEPT ![b] = Torn(old, new, PopOrder, k)]
            /\ issued' = IF k = 3 THEN [issued EXCEPT ![nextLease + 1] = Issue(w)] ELSE issued
      BY <1>6 DEF PopCrash
    <2> DEFINE x == Torn(old, new, PopOrder, k)
    <2>2. /\ op[w].pc = "pop_take" /\ StillThere(w) /\ nextLease < MaxLease
          /\ ring' = [ring EXCEPT ![b] = x]
      BY <1>6, <2>1 DEF PopCrash
    <2> HIDE DEF old, new, b
    <2>3. x \in Job /\ x.id = old.id /\ x.queue = old.queue /\ x.attempts = new.attempts
      <3>1. old \in Job /\ new \in Job
        BY <1>1
      <3>2. x \in Job
        BY <3>1, TornType
      <3> QED
        BY <3>1, <3>2, PopTears, SMTT(40)
    <2> HIDE DEF x
    <2>4. Keeps(b, x)
      BY <1>2, <1>3, <1>4, <2>1, <2>2, <2>3 DEF Keeps, old
    <2> QED
      BY <1>1, <2>3, <2>4
  <1>7. CASE \/ \E q \in Queues, v \in Visibility : PopStart(w, q, v)
             \/ PopScan(w) \/ PopMissed(w)
    BY <1>7 DEF PopStart, PopScan, PopMissed, ghosts, Untouched
  <1> QED
    BY <1>5, <1>6, <1>7 DEF Pop

\* A release keeps the job in its slot with its attempts.
LEMMA ReleaseChanges ==
    ASSUME IInv, NEW w \in Workers, Release(w)
    PROVE  Untouched \/ \E s \in Slots, x \in Job : Keeps(s, x)
  <1>0. TypeOK
    BY DEF IInv
  <1>1. ASSUME NEW s \in Slots
        PROVE  /\ ring[s] \in Job /\ Released(w, s) \in Job
               /\ Released(w, s).id = ring[s].id /\ Released(w, s).queue = ring[s].queue
               /\ Released(w, s).attempts = ring[s].attempts
    <2>1. ring[s] \in Job
      BY <1>0 DEF TypeOK
    <2> QED
      BY <1>0, <2>1, ReleasedType DEF Released, Job
  <1>2. ASSUME issued' = [issued EXCEPT ![op[w].id].open = FALSE]
        PROVE  \A l \in 1 .. MaxLease : issued'[l].job = issued[l].job
    BY <1>0, <1>2 DEF TypeOK
  <1>3. CASE ReleaseApply(w)
    <2>1. PICK s \in Slots : Holds(s, op[w].id) /\ ring' = [ring EXCEPT ![s] = Released(w, s)]
      BY <1>3 DEF ReleaseApply
    <2>2. ring[s].id # 0 /\ \A l \in 1 .. MaxLease : issued'[l].job = issued[l].job
      BY <1>2, <1>3, <2>1 DEF ReleaseApply, Holds
    <2>3. Keeps(s, Released(w, s))
      BY <1>1, <2>1, <2>2 DEF Keeps
    <2> QED
      BY <1>1, <2>3
  <1>4. CASE ReleaseCrash(w)
    <2>1. PICK s \in Slots, k \in 1 .. 3 :
            /\ Holds(s, op[w].id)
            /\ ring' = [ring EXCEPT ![s] = Torn(ring[s], Released(w, s), ReleaseOrder, k)]
      BY <1>4 DEF ReleaseCrash
    <2>2. ring[s].id # 0 /\ \A l \in 1 .. MaxLease : issued'[l].job = issued[l].job
      BY <1>2, <1>4, <2>1 DEF ReleaseCrash, Holds
    <2> DEFINE old == ring[s]
               new == Released(w, s)
               x == Torn(old, new, ReleaseOrder, k)
    <2>3. ring' = [ring EXCEPT ![s] = x] /\ old \in Job /\ new \in Job
      BY <1>1, <2>1
    <2> HIDE DEF old, new
    <2>4. x \in Job /\ x.id = old.id /\ x.queue = old.queue /\ x.attempts = old.attempts
      BY <2>3, ReleaseTears, TornType
    <2> HIDE DEF x
    <2>5. Keeps(s, x)
      BY <2>2, <2>3, <2>4 DEF Keeps, old
    <2> QED
      BY <2>4, <2>5
  <1>5. CASE \/ \E lease \in 1 .. MaxLease, d \in Delays : ReleaseStart(w, lease, d)
             \/ ReleaseUnknown(w)
    BY <1>5 DEF ReleaseStart, ReleaseUnknown, ghosts, Untouched
  <1> QED
    BY <1>3, <1>4, <1>5 DEF Release

\* Every step fills a slot, frees one, keeps the job of one, or leaves the jobs alone.
LEMMA RingChanges ==
    ASSUME IInv, [Next]_vars
    PROVE  Untouched \/ \E s \in Slots, x \in Job : Fills(s, x) \/ Frees(s, x) \/ Keeps(s, x)
  <1>1. ASSUME NEW w \in Workers, NEW lease \in 1 .. MaxLease, Delete(w, lease)
        PROVE  \E s \in Slots, x \in Job : Frees(s, x)
    <2>1. PICK s \in Slots : ring' = [ring EXCEPT ![s].id = 0]
      BY <1>1 DEF Delete
    <2> DEFINE x == [ring[s] EXCEPT !.id = 0]
    <2>2. ring[s] \in Job
      BY DEF IInv, TypeOK
    <2>3. x \in Job /\ x.id = 0 /\ ring' = [ring EXCEPT ![s] = x]
      BY <2>1, <2>2 DEF Job
    <2>4. Frees(s, x)
      BY <1>1, <2>3 DEF Delete, Frees
    <2> QED
      BY <2>3, <2>4
  <1>2. ASSUME NEW w \in Workers, Crash(w)
        PROVE  Untouched
    BY <1>2 DEF Crash, ghosts, Untouched
  <1>3. CASE Tick \/ UNCHANGED vars
    BY <1>3 DEF Tick, ghosts, vars, Untouched
  <1> QED
    BY <1>1, <1>2, <1>3, PushChanges, PopChanges, ReleaseChanges DEF Next

-----------------------------------------------------------------------------
(***************************************************************************)
(* The attempts are counted.                                               *)
(***************************************************************************)

LeasesOf(j) == {l \in 1 .. MaxLease : issued[l].job = j}
LeasesNext(j) == {l \in 1 .. MaxLease : issued'[l].job = j}

\* The leases of a job can be counted.
LEMMA LeasesFinite ==
    ASSUME NEW j
    PROVE  IsFiniteSet(LeasesOf(j)) /\ Cardinality(LeasesOf(j)) \in Nat
  <1>0. 1 \in Int /\ MaxLease \in Int
    BY ConstantsAssumption, SMTT(40)
  <1>1. IsFiniteSet(1 .. MaxLease)
    BY <1>0, FS_Interval
  <1>2. IsFiniteSet(LeasesOf(j))
    BY <1>1, FS_Subset DEF LeasesOf
  <1> QED
    BY <1>2, FS_CardinalityType

\* Every step keeps the attempts of a job at or above the number of leases issued for
\* it.
LEMMA AttemptsStep ==
    ASSUME IInv, AttemptsCountReservations, [Next]_vars
    PROVE  AttemptsCountReservations'
  <1> USE DEF LeasesOf, LeasesNext
  <1>0. /\ ring \in [Slots -> Job] /\ nextLease \in Nat
        /\ DOMAIN issued = 1 .. MaxLease
        /\ \A s \in Slots : ring[s].attempts \in Nat
        /\ \A s \in Slots : ring[s].id # 0 => ring[s].attempts >= Cardinality(LeasesOf(ring[s].id))
    BY Counters DEF IInv, TypeOK, Job, AttemptsCountReservations
  <1> SUFFICES ASSUME NEW r \in Slots, ring'[r].id # 0
               PROVE  ring'[r].attempts >= Cardinality(LeasesNext(ring'[r].id))
    BY DEF AttemptsCountReservations
  <1> HIDE DEF LeasesOf, LeasesNext
  <1>1. CASE Untouched
    BY <1>0, <1>1 DEF Untouched, LeasesOf, LeasesNext
  <1>2. ASSUME NEW s \in Slots, NEW x \in Job, Fills(s, x)
        PROVE  ring'[r].attempts >= Cardinality(LeasesNext(ring'[r].id))
    <2>1. \A j : LeasesNext(j) = LeasesOf(j)
      BY <1>2 DEF Fills, LeasesOf, LeasesNext
    <2>2. CASE r = s
      <3>1. ring'[r] = x /\ x.id # 0 /\ x.attempts = 0 /\ x.id \notin accepted
        BY <1>0, <1>2, <2>2 DEF Fills
      <3>2. LeasesOf(x.id) = {}
        BY <3>1 DEF LeasesOf, IInv, LeaseInv
      <3> QED
        BY <2>1, <3>1, <3>2, FS_EmptySet, SMTT(40)
    <2>3. CASE r # s
      BY <1>0, <1>2, <2>1, <2>3 DEF Fills
    <2> QED
      BY <2>2, <2>3
  <1>3. ASSUME NEW s \in Slots, NEW x \in Job, Frees(s, x)
        PROVE  ring'[r].attempts >= Cardinality(LeasesNext(ring'[r].id))
    <2>1. \A j : LeasesNext(j) = LeasesOf(j)
      BY <1>3 DEF Frees, LeasesOf, LeasesNext
    <2> QED
      BY <1>0, <1>3, <2>1 DEF Frees
  <1>4. ASSUME NEW s \in Slots, NEW x \in Job, Keeps(s, x)
        PROVE  ring'[r].attempts >= Cardinality(LeasesNext(ring'[r].id))
    <2> DEFINE j == ring[r].id
    <2>1. ring'[r].id = j /\ j # 0 /\ ring'[r].attempts \in {ring[r].attempts, x.attempts}
          /\ (r = s => ring'[r].attempts = x.attempts) /\ x.attempts \in Nat
      BY <1>0, <1>4 DEF Keeps, Job
    <2>2. Cardinality(LeasesOf(j)) \in Nat /\ ring[r].attempts >= Cardinality(LeasesOf(j))
      BY <1>0, <2>1, LeasesFinite
    <2>3. CASE \A l \in 1 .. MaxLease : issued'[l].job = issued[l].job
      <3>1. LeasesNext(j) = LeasesOf(j)
        BY <2>3 DEF LeasesOf, LeasesNext
      <3>2. x.attempts >= ring[s].attempts /\ ring'[r].attempts >= ring[r].attempts
        BY <1>0, <1>4, <2>1, SMTT(40) DEF Keeps
      <3> QED
        BY <1>0, <2>1, <2>2, <3>1, <3>2, SMTT(40)
    <2>4. ASSUME NEW e, e.job = x.id, issued' = [issued EXCEPT ![nextLease + 1] = e],
                 x.attempts = ring[s].attempts + 1, nextLease < MaxLease
          PROVE  ring'[r].attempts >= Cardinality(LeasesNext(j))
      <3>1. nextLease + 1 \in 1 .. MaxLease /\ issued[nextLease + 1].job = 0
        BY <1>0, <2>4, ConstantsAssumption, SMTT(40) DEF IInv, LeaseInv
      <3>2. \A l \in 1 .. MaxLease : issued'[l] = IF l = nextLease + 1 THEN e ELSE issued[l]
        BY <1>0, <2>4
      <3>3. CASE r = s
        <4>1. LeasesNext(j) = LeasesOf(j) \cup {nextLease + 1} /\ nextLease + 1 \notin LeasesOf(j)
          BY <1>4, <2>1, <2>4, <3>1, <3>2, <3>3, SMTT(40) DEF LeasesOf, LeasesNext, Keeps
        <4>2. Cardinality(LeasesNext(j)) = Cardinality(LeasesOf(j)) + 1
          BY <4>1, FS_AddElement, LeasesFinite
        <4> QED
          BY <1>0, <2>1, <2>2, <2>4, <3>3, <4>2, SMTT(40)
      <3>4. CASE r # s
        <4>1. j # x.id
          BY <1>4, <2>1, <3>4 DEF Keeps, IInv, NoJobLost
        <4>2. LeasesNext(j) = LeasesOf(j)
          BY <2>1, <2>4, <3>1, <3>2, <4>1 DEF LeasesOf, LeasesNext
        <4>3. ring'[r] = ring[r]
          BY <1>0, <1>4, <3>4 DEF Keeps
        <4> QED
          BY <2>2, <4>2, <4>3
      <3> QED
        BY <3>3, <3>4
    <2>5. Cardinality(LeasesNext(ring'[r].id)) = Cardinality(LeasesNext(j))
      BY <2>1 DEF LeasesOf, LeasesNext
    <2> QED
      BY <1>4, <2>3, <2>4, <2>5 DEF Keeps
  <1> QED
    BY <1>1, <1>2, <1>3, <1>4, RingChanges

\* However workers die between the stores of a pop, a job's attempts are never below the
\* number of leases handed out for it, so that a job which kills its workers runs out of
\* tries.
THEOREM AttemptsAreCounted == Spec => []AttemptsCountReservations
  <1>1. Init => AttemptsCountReservations
    BY SMTT(40) DEF Init, AttemptsCountReservations, FreeSlot
  <1> QED
    BY <1>1, AttemptsStep, InvHolds, PTL DEF Spec

-----------------------------------------------------------------------------
(***************************************************************************)
(* The scans miss nothing that stays put.                                  *)
(***************************************************************************)

\* What a scan in progress knows of the slots that stayed as they were when it began: a
\* probe has not visited those that are still free, and of those that are still ready
\* none that a pop has visited comes before its candidate.
ScanInv(w) ==
    /\ op[w].pc = "push_clock" => op[w].i = 0
    /\ op[w].pc = "push_probe" =>
         \A s \in steady[w] :
           ring[s].id = 0 /\ \A k \in 0 .. op[w].i - 1 : s # (op[w].id + k) % N
    /\ op[w].pc = "pop_scan" =>
         \A s \in steady[w] :
           /\ s \in ReadySlots(op[w].queue, op[w].t)
           /\ s < op[w].i =>
                /\ op[w].bestId # 0
                /\ ~Before(ring[s].avail, ring[s].id, op[w].bestAvail, op[w].bestId)
    /\ op[w].pc = "pop_take" =>
         \A s \in steady[w] : ~Before(ring[s].avail, ring[s].id, op[w].bestAvail, op[w].bestId)

ScansInv == \A w \in Workers : ScanInv(w)

\* The probe of a push reaches every slot.
LEMMA MultipleOfN ==
    ASSUME NEW q \in Nat, NEW s \in Slots
    PROVE  (N * q + s) % N = s
  <1>1. N \in Nat /\ N > 0 /\ s \in 0 .. N - 1
    BY ConstantsAssumption, SMTT(40) DEF Slots
  <1> QED
    BY <1>1, SMTT(40)

\* A ticket is a multiple of the ring's size and a slot.
LEMMA DivisionByN ==
    ASSUME NEW a \in Nat
    PROVE  a = N * (a \div N) + (a % N) /\ a \div N \in Nat /\ a % N \in Slots
  BY ConstantsAssumption, SMTT(40) DEF Slots

\* N consecutive tickets visit every slot.
LEMMA ProbeReachesAll ==
    ASSUME NEW a \in Nat, NEW s \in Slots
    PROVE  \E k \in 0 .. N - 1 : (a + k) % N = s
  <1> DEFINE r == a % N
             q == a \div N
  <1>1. r \in 0 .. N - 1 /\ s \in 0 .. N - 1 /\ q \in Nat /\ a = N * q + r
    BY DivisionByN DEF Slots
  <1> HIDE DEF r, q
  <1>2. N * (q + 1) = N * q + N /\ N * q \in Nat
    BY <1>1, ConstantsAssumption, SMTT(40)
  <1>3. (N * q + s) % N = s /\ (N * (q + 1) + s) % N = s
    BY <1>1, MultipleOfN, SMTT(40)
  <1>4. CASE s >= r
    <2>1. s - r \in 0 .. N - 1 /\ a + (s - r) = N * q + s
      BY <1>1, <1>2, <1>4, ConstantsAssumption, SMTT(40)
    <2> QED
      BY <1>3, <2>1
  <1>5. CASE s < r
    <2>1. s - r + N \in 0 .. N - 1 /\ a + (s - r + N) = N * (q + 1) + s
      BY <1>1, <1>2, <1>5, ConstantsAssumption, SMTT(40)
    <2> QED
      BY <1>3, <2>1
  <1> QED
    BY <1>1, <1>4, <1>5, SMTT(40)

\* A job keeps its queue while it stays in its slot.
LEMMA QueuesStay ==
    ASSUME IInv, [Next]_vars, NEW s \in Slots, ring[s].id # 0, ring'[s].id = ring[s].id
    PROVE  ring'[s].queue = ring[s].queue
  <1>0. ring \in [Slots -> Job]
    BY DEF IInv, TypeOK
  <1>1. CASE Untouched
    BY <1>1 DEF Untouched
  <1>2. ASSUME NEW r \in Slots, NEW x \in Job, Fills(r, x) \/ Frees(r, x) \/ Keeps(r, x)
        PROVE  ring'[s].queue = ring[s].queue
    BY <1>0, <1>2 DEF Fills, Frees, Keeps
  <1> QED
    BY <1>1, <1>2, RingChanges

\* What one worker does leaves the scans of the others what they know.
LEMMA ScanKept ==
    ASSUME IInv, [Next]_vars, NEW v \in Workers, ScanInv(v), op'[v] = op[v],
           KeepSteady \/ (ring' = ring /\ steady'[v] = steady[v])
    PROVE  ScanInv(v)'
  <1>1. CASE ring' = ring /\ steady'[v] = steady[v]
    BY <1>1 DEF ScanInv, ReadySlots
  <1>2. CASE KeepSteady
    <2>1. steady'[v] =
            CASE op[v].pc = "push_probe" -> {s \in steady[v] : ring'[s].id = 0}
              [] op[v].pc \in {"pop_scan", "pop_take"} ->
                   {s \in steady[v] : /\ ring'[s].id = ring[s].id
                                      /\ ring'[s].avail = ring[s].avail
                                      /\ Ready(ring'[s], op[v].t)}
              [] OTHER -> {}
      BY <1>2 DEF KeepSteady
    <2>2. CASE op[v].pc = "push_clock"
      BY <2>2 DEF ScanInv
    <2>3. CASE op[v].pc = "push_probe"
      <3>1. steady'[v] = {s \in steady[v] : ring'[s].id = 0}
        BY <2>1, <2>3
      <3> QED
        BY <2>3, <3>1 DEF ScanInv
    <2>4. CASE op[v].pc \in {"pop_scan", "pop_take"}
      <3>1. steady'[v] = {s \in steady[v] : /\ ring'[s].id = ring[s].id
                                            /\ ring'[s].avail = ring[s].avail
                                            /\ Ready(ring'[s], op[v].t)}
        BY <2>1, <2>4
      <3>2. CASE op[v].pc = "pop_take"
        BY <3>1, <3>2 DEF ScanInv
      <3>3. CASE op[v].pc = "pop_scan"
        <4>1. ASSUME NEW s \in steady'[v]
              PROVE  /\ s \in ReadySlots(op[v].queue, op[v].t)'
                     /\ s < op[v].i =>
                          /\ op[v].bestId # 0
                          /\ ~Before(ring'[s].avail, ring'[s].id, op[v].bestAvail, op[v].bestId)
          <5>1. /\ s \in ReadySlots(op[v].queue, op[v].t)
                /\ s < op[v].i =>
                     /\ op[v].bestId # 0
                     /\ ~Before(ring[s].avail, ring[s].id, op[v].bestAvail, op[v].bestId)
            BY <3>1, <3>3, <4>1 DEF ScanInv
          <5>2. /\ s \in Slots /\ ring'[s].id = ring[s].id /\ ring[s].id # 0
                /\ ring'[s].avail = ring[s].avail
                /\ Ready(ring'[s], op[v].t) /\ ring[s].queue = op[v].queue
            BY <3>1, <4>1, <5>1 DEF ReadySlots
          <5>3. ring'[s].queue = ring[s].queue
            BY <5>2, QueuesStay
          <5> QED
            BY <5>1, <5>2, <5>3 DEF ReadySlots
        <4> QED
          BY <3>3, <4>1 DEF ScanInv
      <3> QED
        BY <2>4, <3>2, <3>3
    <2>5. CASE op[v].pc \notin {"push_clock", "push_probe", "pop_scan", "pop_take"}
      BY <2>5 DEF ScanInv
    <2> QED
      BY <2>2, <2>3, <2>4, <2>5
  <1> QED
    BY <1>1, <1>2

\* The candidate after the visit of one more slot.
Seen(w) ==
    IF Better(w, op[w].i)
    THEN [op[w] EXCEPT !.bestSlot = op[w].i, !.bestId = ring[op[w].i].id,
                       !.bestAvail = ring[op[w].i].avail]
    ELSE op[w]

\* The candidate is no later than any slot that stayed ready and was visited.
LEMMA SeenIsLeast ==
    ASSUME IInv, NEW w \in Workers, ScanInv(w), op[w].pc = "pop_scan",
           NEW s \in steady[w], s < op[w].i + 1
    PROVE  /\ Seen(w).bestId # 0
           /\ ~Before(ring[s].avail, ring[s].id, Seen(w).bestAvail, Seen(w).bestId)
  <1> DEFINE e == op[w].i
  <1>1. /\ op[w] \in Locals /\ s \in Slots /\ e \in Slots
        /\ ring[s] \in Job /\ ring[e] \in Job
    BY DEF IInv, TypeOK, Locals
  <1>2. /\ ring[s].avail \in Nat /\ ring[s].id \in Nat /\ ring[e].avail \in Nat
        /\ ring[e].id \in Nat /\ op[w].bestAvail \in Nat /\ op[w].bestId \in Nat
        /\ s \in Nat /\ e \in Nat
    <2>1. s \in Nat /\ e \in Nat
      BY <1>1, ConstantsAssumption, SMTT(40) DEF Slots
    <2>2. Times \subseteq Nat
      BY ConstantsAssumption, SMTT(40) DEF Times
    <2>3. op[w].bestAvail \in Times /\ op[w].bestId \in Nat
      BY <1>1 DEF Locals
    <2>4. \A j \in Job : j.avail \in Times /\ j.id \in Nat
      BY DEF Job
    <2> QED
      BY <1>1, <2>1, <2>2, <2>3, <2>4
  <1>3. /\ s \in ReadySlots(op[w].queue, op[w].t)
        /\ s < e => /\ op[w].bestId # 0
                    /\ ~Before(ring[s].avail, ring[s].id, op[w].bestAvail, op[w].bestId)
    BY DEF ScanInv
  <1>4. s < e \/ s = e
    BY <1>2, SMTT(40)
  <1>5. CASE Better(w, e)
    <2>1. /\ Seen(w).bestId = ring[e].id /\ Seen(w).bestAvail = ring[e].avail
      BY <1>1, <1>5 DEF Seen, Locals
    <2>2. ring[e].id # 0
      BY <1>5 DEF Better, ReadySlots
    <2>3. \/ op[w].bestId = 0
          \/ Before(ring[e].avail, ring[e].id, op[w].bestAvail, op[w].bestId)
      BY <1>5 DEF Better
    <2>4. CASE s = e
      <3>1. ~Before(ring[s].avail, ring[s].id, ring[s].avail, ring[s].id)
        BY <1>2, SMTT(40) DEF Before
      <3> QED
        BY <2>1, <2>2, <2>4, <3>1
    <2>5. CASE s < e
      <3>1. /\ ~Before(ring[s].avail, ring[s].id, op[w].bestAvail, op[w].bestId)
            /\ Before(ring[e].avail, ring[e].id, op[w].bestAvail, op[w].bestId)
        BY <1>3, <2>3, <2>5
      <3>2. ~Before(ring[s].avail, ring[s].id, ring[e].avail, ring[e].id)
        BY <1>2, <3>1, SMTT(40) DEF Before
      <3> QED
        BY <2>1, <2>2, <3>2
    <2> QED
      BY <1>4, <2>4, <2>5
  <1>6. CASE ~Better(w, e)
    <2>1. Seen(w) = op[w]
      BY <1>6 DEF Seen
    <2>2. s = e => /\ op[w].bestId # 0
                   /\ ~Before(ring[e].avail, ring[e].id, op[w].bestAvail, op[w].bestId)
      BY <1>3, <1>6 DEF Better
    <2> QED
      BY <1>3, <1>4, <2>1, <2>2
  <1> QED
    BY <1>5, <1>6

\* What the worker itself does to its scan.
LEMMA PushScan ==
    ASSUME IInv, NEW w \in Workers, ScanInv(w), Push(w)
    PROVE  ScanInv(w)'
  <1>0. op \in [Workers -> Locals] /\ steady \in [Workers -> SUBSET Slots]
    BY DEF IInv, TypeOK
  <1>1. ASSUME NEW q \in Queues, NEW d \in Delays, PushTicket(w, q, d)
        PROVE  ScanInv(w)'
    <2>1. op'[w].pc = "push_clock" /\ op'[w].i = 0
      BY <1>0, <1>1 DEF PushTicket, Idle
    <2> QED
      BY <2>1 DEF ScanInv
  <1>2. CASE PushClock(w)
    <2>1. op'[w].pc = "push_probe" /\ op'[w].i = 0
      BY <1>0, <1>2 DEF PushClock, ScanInv, Locals
    <2>2. steady'[w] = {s \in Slots : ring[s].id = 0} /\ ring' = ring
      BY <1>0, <1>2 DEF PushClock
    <2>3. 0 .. op'[w].i - 1 = {}
      BY <2>1, SMTT(40)
    <2> QED
      BY <2>1, <2>2, <2>3 DEF ScanInv
  <1>3. CASE Finish(w)
    <2>1. op'[w].pc = "idle"
      BY <1>0, <1>3 DEF Finish, Idle
    <2> QED
      BY <2>1 DEF ScanInv
  <1>4. CASE /\ PushProbe(w) /\ ~MayFill(w) /\ ~LastProbe(w)
             /\ op' = [op EXCEPT ![w] = [op[w] EXCEPT !.i = op[w].i + 1]]
             /\ ring' = ring
    <2>1. /\ op[w].pc = "push_probe" /\ op[w].id \in Nat /\ op[w].i \in Nat
      BY <1>0, <1>4, ConstantsAssumption, SMTT(40) DEF PushProbe, Locals, Slots
    <2>2. /\ op'[w].pc = "push_probe" /\ op'[w].id = op[w].id /\ op'[w].i = op[w].i + 1
      BY <1>0, <1>4, <2>1 DEF Locals
    <2>3. steady'[w] = {s \in steady[w] : ring[s].id = 0}
      BY <1>4, <2>2 DEF PushProbe, KeepSteady
    <2>4. ASSUME NEW s \in steady'[w], NEW k \in 0 .. op'[w].i - 1
          PROVE  s # (op'[w].id + k) % N
      <3>1. s \in steady[w] /\ ring[s].id = 0
        BY <2>3
      <3>2. s # (op[w].id + op[w].i) % N
        BY <1>4, <3>1 DEF MayFill, PushSlot
      <3>3. k \in 0 .. op[w].i - 1 \/ k = op[w].i
        BY <2>1, <2>2, SMTT(40)
      <3>4. \A m \in 0 .. op[w].i - 1 : s # (op[w].id + m) % N
        BY <2>1, <3>1 DEF ScanInv
      <3> QED
        BY <2>2, <3>2, <3>3, <3>4
    <2> QED
      BY <1>4, <2>2, <2>3, <2>4 DEF ScanInv
  <1>5. CASE PushProbe(w)
    <2>1. \/ Finish(w)
          \/ /\ ~MayFill(w)
             /\ op' = [op EXCEPT ![w] = IF LastProbe(w) THEN Idle
                                        ELSE [op[w] EXCEPT !.i = op[w].i + 1]]
             /\ ring' = ring
      BY <1>5 DEF PushProbe
    <2>2. CASE LastProbe(w)
      BY <1>3, <2>1, <2>2 DEF Finish
    <2>3. CASE ~LastProbe(w)
      BY <1>3, <1>4, <1>5, <2>1, <2>3
    <2> QED
      BY <2>2, <2>3
  <1>6. CASE PushCrash(w)
    BY <1>3, <1>6 DEF PushCrash, Die
  <1> QED
    BY <1>1, <1>2, <1>5, <1>6 DEF Push

\* pop: a fresh scan has visited nothing, a visit keeps the least candidate, and the
\* other steps end the scan.
LEMMA PopScans ==
    ASSUME IInv, NEW w \in Workers, ScanInv(w), Pop(w)
    PROVE  ScanInv(w)'
  <1>0. op \in [Workers -> Locals] /\ steady \in [Workers -> SUBSET Slots]
    BY DEF IInv, TypeOK
  <1>1. ASSUME NEW q \in Queues, NEW v \in Visibility, PopStart(w, q, v)
        PROVE  ScanInv(w)'
    <2>1. /\ op'[w].pc = "pop_scan" /\ op'[w].i = 0 /\ op'[w].queue = q /\ op'[w].t = now
      BY <1>0, <1>1 DEF PopStart, Idle
    <2>2. steady'[w] = ReadySlots(q, now) /\ ring' = ring
      BY <1>0, <1>1 DEF PopStart
    <2>3. \A s \in steady'[w] : ~(s < op'[w].i)
      <3>1. steady'[w] \subseteq Slots
        BY <2>2 DEF ReadySlots
      <3>2. \A s \in Slots : ~(s < 0)
        BY ConstantsAssumption, SMTT(40) DEF Slots
      <3> QED
        BY <2>1, <3>1, <3>2
    <2>4. \A s \in steady'[w] : s \in ReadySlots(op[w].queue, op[w].t)'
      BY <2>1, <2>2 DEF ReadySlots
    <2> QED
      BY <2>1, <2>3, <2>4 DEF ScanInv
  <1>2. CASE Finish(w)
    <2>1. op'[w].pc = "idle"
      BY <1>0, <1>2 DEF Finish, Idle
    <2> QED
      BY <2>1 DEF ScanInv
  <1>3. CASE PopScan(w)
    <2>1. /\ op[w].pc = "pop_scan" /\ ring' = ring /\ KeepSteady
          /\ op' = [op EXCEPT ![w] =
                      IF op[w].i + 1 < N THEN [Seen(w) EXCEPT !.i = op[w].i + 1]
                      ELSE IF Seen(w).bestId = 0 THEN Idle
                      ELSE [Seen(w) EXCEPT !.pc = "pop_take"]]
      BY <1>3 DEF PopScan, Seen
    <2>2. /\ Seen(w).pc = "pop_scan" /\ Seen(w).queue = op[w].queue /\ Seen(w).t = op[w].t
          /\ DOMAIN Seen(w) = {"pc", "queue", "id", "t", "arg", "i", "bestSlot",
                               "bestAvail", "bestId"}
      BY <1>0, <2>1 DEF Seen, Locals
    <2>3. op[w].i \in Nat /\ op[w].i < N /\ N \in Nat /\ \A s \in steady[w] : s \in Nat /\ s < N
      BY <1>0, ConstantsAssumption, SMTT(40) DEF Locals, Slots
    <2>4. CASE op[w].i + 1 < N
      <3>1. op'[w] = [Seen(w) EXCEPT !.i = op[w].i + 1]
        BY <1>0, <2>1, <2>4
      <3>2. /\ op'[w].pc = "pop_scan" /\ op'[w].queue = op[w].queue /\ op'[w].t = op[w].t
            /\ op'[w].i = op[w].i + 1 /\ op'[w].bestId = Seen(w).bestId
            /\ op'[w].bestAvail = Seen(w).bestAvail
        BY <2>2, <3>1
      <3>3. steady'[w] \subseteq steady[w]
        BY <2>1, <3>2 DEF KeepSteady
      <3>4. ASSUME NEW s \in steady'[w]
            PROVE  /\ s \in ReadySlots(op[w].queue, op[w].t)'
                   /\ s < op'[w].i =>
                        /\ op'[w].bestId # 0
                        /\ ~Before(ring'[s].avail, ring'[s].id, op'[w].bestAvail, op'[w].bestId)
        <4>1. s \in steady[w] /\ s \in ReadySlots(op[w].queue, op[w].t)
          BY <2>1, <3>3 DEF ScanInv
        <4>2. s \in ReadySlots(op[w].queue, op[w].t)'
          BY <2>1, <3>2, <4>1 DEF ReadySlots
        <4>3. s < op[w].i + 1 =>
                /\ Seen(w).bestId # 0
                /\ ~Before(ring[s].avail, ring[s].id, Seen(w).bestAvail, Seen(w).bestId)
          BY <2>1, <4>1, SeenIsLeast
        <4> QED
          BY <2>1, <3>2, <4>2, <4>3
      <3> QED
        BY <3>2, <3>4 DEF ScanInv
    <2>5. CASE ~(op[w].i + 1 < N) /\ Seen(w).bestId = 0
      BY <1>2, <2>1, <2>5 DEF Finish
    <2>6. CASE ~(op[w].i + 1 < N) /\ Seen(w).bestId # 0
      <3>1. op'[w] = [Seen(w) EXCEPT !.pc = "pop_take"]
        BY <1>0, <2>1, <2>6
      <3>2. /\ op'[w].pc = "pop_take" /\ op'[w].bestId = Seen(w).bestId
            /\ op'[w].bestAvail = Seen(w).bestAvail
        BY <2>2, <3>1
      <3>3. steady'[w] \subseteq steady[w]
        BY <2>1, <3>2 DEF KeepSteady
      <3>4. ASSUME NEW s \in steady'[w]
            PROVE  ~Before(ring'[s].avail, ring'[s].id, op'[w].bestAvail, op'[w].bestId)
        <4>1. s \in steady[w] /\ s < op[w].i + 1
          BY <2>3, <2>6, <3>3, SMTT(40)
        <4>2. ~Before(ring[s].avail, ring[s].id, Seen(w).bestAvail, Seen(w).bestId)
          BY <2>1, <4>1, SeenIsLeast
        <4> QED
          BY <2>1, <3>2, <4>2
      <3> QED
        BY <3>2, <3>4 DEF ScanInv
    <2> QED
      BY <2>4, <2>5, <2>6
  <1>4. CASE PopTake(w) \/ PopMissed(w) \/ PopCrash(w)
    BY <1>2, <1>4 DEF PopTake, PopMissed, PopCrash, Die
  <1> QED
    BY <1>1, <1>3, <1>4 DEF Pop

\* No scan is in progress at the start.
LEMMA ScansInit == Init => ScansInv
  <1>1. Init => \A w \in Workers : op[w].pc = "idle"
    BY SMTT(40) DEF Init, Idle
  <1> QED
    BY <1>1 DEF ScansInv, ScanInv

\* Every step of every worker keeps what the scans know.
LEMMA ScansStep == IInv /\ ScansInv /\ [Next]_vars => ScansInv'
  <1> SUFFICES ASSUME IInv, ScansInv, [Next]_vars, NEW v \in Workers
               PROVE  ScanInv(v)'
    BY DEF ScansInv
  <1>0. ScanInv(v) /\ op \in [Workers -> Locals] /\ steady \in [Workers -> SUBSET Slots]
    BY DEF ScansInv, IInv, TypeOK
  <1>1. CASE UNCHANGED vars
    <2>1. op'[v] = op[v] /\ ring' = ring /\ steady'[v] = steady[v]
      BY <1>1 DEF vars
    <2> QED
      BY <1>0, <2>1, ScanKept
  <1>2. CASE Tick
    <2>1. op'[v] = op[v] /\ ring' = ring /\ steady'[v] = steady[v]
      BY <1>2 DEF Tick
    <2> QED
      BY <1>0, <2>1, ScanKept
  <1>3. ASSUME NEW w \in Workers, Finish(w), w = v
        PROVE  ScanInv(v)'
    <2>1. op'[v].pc = "idle"
      BY <1>0, <1>3 DEF Finish, Idle
    <2> QED
      BY <2>1 DEF ScanInv
  <1>4. ASSUME NEW w \in Workers, Push(w)
        PROVE  ScanInv(v)'
    <2>1. CASE w = v
      BY <1>0, <1>4, <2>1, PushScan
    <2>2. CASE w # v
      <3>1. op'[v] = op[v]
        BY <1>0, <1>4, <2>2 DEF Push, PushTicket, PushClock, PushProbe, PushCrash, Die, Finish
      <3>2. KeepSteady \/ (ring' = ring /\ steady'[v] = steady[v])
        BY <1>0, <1>4, <2>2 DEF Push, PushTicket, PushClock, PushProbe, PushCrash
      <3> QED
        BY <1>0, <3>1, <3>2, ScanKept
    <2> QED
      BY <2>1, <2>2
  <1>5. ASSUME NEW w \in Workers, Pop(w)
        PROVE  ScanInv(v)'
    <2>1. CASE w = v
      BY <1>0, <1>5, <2>1, PopScans
    <2>2. CASE w # v
      <3>1. op'[v] = op[v]
        BY <1>0, <1>5, <2>2
           DEF Pop, PopStart, PopScan, PopTake, PopMissed, PopCrash, Die, Finish
      <3>2. KeepSteady \/ (ring' = ring /\ steady'[v] = steady[v])
        BY <1>0, <1>5, <2>2 DEF Pop, PopStart, PopScan, PopTake, PopMissed, PopCrash
      <3> QED
        BY <1>0, <3>1, <3>2, ScanKept
    <2> QED
      BY <2>1, <2>2
  <1>6. ASSUME NEW w \in Workers, Release(w)
        PROVE  ScanInv(v)'
    <2>1. CASE w = v
      <3>1. Finish(w) \/ op'[w].pc = "release"
        BY <1>0, <1>6 DEF Release, ReleaseStart, ReleaseApply, ReleaseUnknown,
                          ReleaseCrash, Die, Idle
      <3>2. CASE op'[w].pc = "release"
        BY <2>1, <3>2 DEF ScanInv
      <3> QED
        BY <1>3, <2>1, <3>1, <3>2
    <2>2. CASE w # v
      <3>1. op'[v] = op[v]
        BY <1>0, <1>6, <2>2 DEF Release, ReleaseStart, ReleaseApply, ReleaseUnknown,
                                ReleaseCrash, Die, Finish
      <3>2. KeepSteady \/ (ring' = ring /\ steady'[v] = steady[v])
        BY <1>0, <1>6, <2>2 DEF Release, ReleaseStart, ReleaseApply, ReleaseUnknown,
                                ReleaseCrash
      <3> QED
        BY <1>0, <3>1, <3>2, ScanKept
    <2> QED
      BY <2>1, <2>2
  <1>7. ASSUME NEW w \in Workers, Crash(w)
        PROVE  ScanInv(v)'
    <2>1. Finish(w) /\ KeepSteady
      BY <1>7 DEF Crash, Die
    <2>2. w # v => op'[v] = op[v]
      BY <1>0, <2>1 DEF Finish
    <2> QED
      BY <1>0, <1>3, <2>1, <2>2, ScanKept
  <1>8. ASSUME NEW w \in Workers, NEW lease \in 1 .. MaxLease, Delete(w, lease)
        PROVE  ScanInv(v)'
    <2>1. op'[v] = op[v] /\ KeepSteady
      BY <1>8 DEF Delete
    <2> QED
      BY <1>0, <2>1, ScanKept
  <1> QED
    BY <1>1, <1>2, <1>4, <1>5, <1>6, <1>7, <1>8 DEF Next

\* What the end of a scan may report, as an action.
SteadyStep ==
    \A w \in Workers :
        /\ PopScan(w) /\ op'[w].pc = "idle" => steady[w] = {}
        /\ PopTake(w) =>
             \A s \in steady[w] : ~Before(ring[s].avail, ring[s].id,
                                         op[w].bestAvail, op[w].bestId)
        /\ PushProbe(w) /\ op'[w].pc = "idle" /\ ring' = ring
             => steady[w] = {}

\* pop and push look at one slot after the other while the other workers go on.  Still,
\* for any ring size and number of workers, pop reports an empty queue only if no job
\* stayed ready throughout, takes no job that one which stayed ready comes before, and
\* push reports a full ring only if no slot stayed free.
THEOREM ScansMissNothing == Spec => ScansSeeSteadySlots
  <1>1. ASSUME IInv, ScansInv, NEW w \in Workers, PopScan(w), op'[w].pc = "idle"
        PROVE  steady[w] = {}
    <2>0. op \in [Workers -> Locals] /\ steady \in [Workers -> SUBSET Slots] /\ ScanInv(w)
      BY <1>1 DEF IInv, TypeOK, ScansInv
    <2>1. /\ op[w].pc = "pop_scan"
          /\ op' = [op EXCEPT ![w] =
                      IF op[w].i + 1 < N THEN [Seen(w) EXCEPT !.i = op[w].i + 1]
                      ELSE IF Seen(w).bestId = 0 THEN Idle
                      ELSE [Seen(w) EXCEPT !.pc = "pop_take"]]
      BY <1>1 DEF PopScan, Seen
    <2>2. Seen(w).pc = "pop_scan" /\ "pc" \in DOMAIN Seen(w)
      BY <2>0, <2>1 DEF Seen, Locals
    <2>3. ~(op[w].i + 1 < N) /\ Seen(w).bestId = 0
      BY <1>1, <2>0, <2>1, <2>2
    <2>4. \A s \in steady[w] : s < op[w].i + 1
      BY <2>0, <2>3, ConstantsAssumption, SMTT(40) DEF Locals, Slots
    <2> QED
      BY <1>1, <2>0, <2>1, <2>3, <2>4, SeenIsLeast
  <1>2. ASSUME IInv, ScansInv, NEW w \in Workers, PopTake(w), NEW s \in steady[w]
        PROVE  ~Before(ring[s].avail, ring[s].id, op[w].bestAvail, op[w].bestId)
    BY <1>2 DEF ScansInv, ScanInv, PopTake
  <1>3. ASSUME IInv, ScansInv, NEW w \in Workers, PushProbe(w), op'[w].pc = "idle",
               ring' = ring
        PROVE  steady[w] = {}
    <2>0. /\ op \in [Workers -> Locals] /\ steady \in [Workers -> SUBSET Slots]
          /\ ring \in [Slots -> Job] /\ ScanInv(w) /\ op[w].pc = "push_probe" /\ TypeOK
      BY <1>3 DEF IInv, TypeOK, ScansInv, PushProbe
    <2>1. op[w].id \in Nat /\ op[w].i \in 0 .. N - 1 /\ N \in Nat
      BY <2>0, ConstantsAssumption DEF Locals, Slots
    <2>2. ~MayFill(w)
      <3>1. SUFFICES ASSUME MayFill(w) PROVE FALSE
        OBVIOUS
      <3>2. ring'[PushSlot(w)] = NewJob(w)
        BY <1>3, <2>0, <3>1, PushSlotType DEF PushProbe
      <3>3. ring[PushSlot(w)].id = op[w].id
        BY <1>3, <3>2, SMTT(40) DEF NewJob
      <3>4. op[w].id # 0
        <4>1. op[w].id \in 1 .. nextId
          BY <1>3, <2>0 DEF IInv, CallInv, Pushing
        <4>2. nextId \in Nat
          BY <2>0, Counters
        <4> QED
          BY <4>1, <4>2, SMTT(40)
      <3> QED
        BY <3>1, <3>3, <3>4 DEF MayFill
    <2>3. op[w].i = N - 1
      <3>1. op' = [op EXCEPT ![w] = IF LastProbe(w) THEN Idle
                                    ELSE [op[w] EXCEPT !.i = op[w].i + 1]]
        BY <1>3, <2>2 DEF PushProbe
      <3>2. LastProbe(w)
        BY <1>3, <2>0, <3>1 DEF Locals
      <3> QED
        BY <2>1, <3>2, SMTT(40) DEF LastProbe
    <2>4. ASSUME NEW s \in steady[w]
          PROVE  FALSE
      <3>1. PICK k \in 0 .. N - 1 : (op[w].id + k) % N = s
        BY <2>0, <2>1, ProbeReachesAll
      <3>2. ring[s].id = 0 /\ \A m \in 0 .. op[w].i - 1 : s # (op[w].id + m) % N
        BY <2>0 DEF ScanInv
      <3>3. k = op[w].i
        BY <2>1, <2>3, <3>1, <3>2, SMTT(40)
      <3> QED
        BY <2>2, <3>1, <3>2, <3>3 DEF MayFill, PushSlot
    <2> QED
      BY <2>4
  <1>4. IInv /\ ScansInv => [SteadyStep]_vars
    BY <1>1, <1>2, <1>3 DEF SteadyStep
  <1>5. [][SteadyStep]_vars => ScansSeeSteadySlots
    BY PTL DEF SteadyStep, ScansSeeSteadySlots
  <1>6. Spec => []ScansInv
    BY ScansInit, ScansStep, InvHolds, PTL DEF Spec
  <1> QED
    BY <1>4, <1>5, <1>6, InvHolds, PTL

=============================================================================
