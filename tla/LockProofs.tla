----------------------------- MODULE LockProofs -----------------------------
(***************************************************************************)
(* The locks, for any number of processes, threads, readers, writers,      *)
(* words and deaths and any assignment of pids: mutual exclusion of        *)
(* ShmLock, and whole reads under Seqlock.  And single flight, the lease   *)
(* on a page that is being rendered: followers are fed, for any number of  *)
(* requests, keys and slots, whatever fails, vanishes or is rejected       *)
(* (Coalesce: rcache.rs, server).                                          *)
(***************************************************************************)
EXTENDS ShmLock, Seqlock, Coalesce, TLAPS

\* A leaf that names no prover is tried with Zenon.
USE ZenonT(40)

\* Some process with this pid has been started.
Born(pid) == \E p \in Procs : PidOf[p] = pid /\ state[p] # "unborn"

\* A thread that is to steal from the dead has seen a pid that nobody has;
\* pids that were seen are pids of processes that were started; and a process
\* that was not started has no thread in acquire.
IInv ==
    /\ TypeOK
    /\ lock # 0 => Born(lock)
    /\ \A t \in Threads :
         /\ holder[t] # 0 => Born(holder[t])
         /\ pc[t] \in {"inspect", "steal_dead", "steal_stuck"}
               => holder[t] # 0
         /\ state[ProcOf[t]] = "unborn" => pc[t] = "out"
         /\ ~reused /\ pc[t] = "steal_dead" => ~Alive(holder[t])
    /\ Exclusion

-----------------------------------------------------------------------------
\* Every step keeps the types.
LEMMA TypeStep == TypeOK /\ [LockNext]_lockVars => TypeOK'
  <1> SUFFICES ASSUME TypeOK, [LockNext]_lockVars
               PROVE  TypeOK'
    OBVIOUS
  <1> USE LockAssumption DEF TypeOK, Pids, locals, history
  <1>1. ASSUME NEW t \in Threads, Request(t) \/ Release(t)
        PROVE  TypeOK'
    BY <1>1 DEF Request, Release
  <1>2. ASSUME NEW t \in Threads, Enter(t)
        PROVE  /\ lock' \in Pids \cup {0}
               /\ pc' \in [Threads -> {"out", "spin", "inspect",
                                       "steal_dead", "steal_stuck", "in"}]
               /\ holder' \in [Threads -> Pids \cup {0}]
               /\ watched' \in [Threads -> Pids \cup {0}]
               /\ age' \in [Threads -> 0 .. Limit]
    BY <1>2, SMTT(40) DEF Enter, Pid
  <1>3. ASSUME NEW t \in Threads, Acquire(t)
        PROVE  TypeOK'
    <2>1. CASE FastPath(t)
      BY <1>2, <2>1 DEF FastPath
    <2>2. CASE Contended(t)
      BY <2>2 DEF Contended
    <2>3. CASE Inspect(t)
      BY <2>3, SMTT(40) DEF Inspect
    <2>4. CASE StealDead(t)
      BY <1>2, <2>4 DEF StealDead
    <2>5. CASE StealStuck(t)
      <3>1. stuckTaken' \in BOOLEAN
        BY <2>5 DEF StealStuck
      <3>2. CASE lock = holder[t]
        BY <1>2, <2>5, <3>1, <3>2 DEF StealStuck
      <3>3. CASE lock # holder[t]
        BY <2>5, <3>1, <3>3, SMTT(40) DEF StealStuck
      <3> QED
        BY <3>2, <3>3
    <2> QED
      BY <1>3, <2>1, <2>2, <2>3, <2>4, <2>5 DEF Acquire
  <1>4. ASSUME NEW p \in Procs, Die(p) \/ Reap(p) \/ Spawn(p)
        PROVE  TypeOK'
    <2>1. CASE Die(p) \/ Reap(p)
      BY <2>1, SMTT(40) DEF Die, Reap
    <2>2. CASE Spawn(p)
      <3>1. reused' \in BOOLEAN
        BY <2>2 DEF Spawn
      <3>2. state' \in [Procs -> {"unborn", "run", "zombie", "gone"}]
        BY <2>2 DEF Spawn
      <3> QED
        BY <2>2, <3>1, <3>2 DEF Spawn
    <2> QED
      BY <1>4, <2>1, <2>2
  <1>5. CASE LockTick
    BY <1>5, SMTT(40) DEF LockTick
  <1>6. CASE UNCHANGED lockVars
    BY <1>6 DEF lockVars
  <1> QED
    BY <1>1, <1>3, <1>4, <1>5, <1>6 DEF LockNext

\* The initial state satisfies the invariant.
LEMMA InvInit == LockInit => IInv
  <1> SUFFICES ASSUME LockInit
               PROVE  IInv
    OBVIOUS
  <1>1. TypeOK
    <2>1. state \in [Procs -> {"unborn", "run", "zombie", "gone"}]
      BY DEF LockInit
    <2>2. reused \in BOOLEAN /\ stuckTaken \in BOOLEAN
      BY DEF LockInit
    <2> QED
      BY <2>1, <2>2, LockAssumption, SMTT(40) DEF LockInit, TypeOK
  <1>2. Inside = {}
    BY DEF LockInit, Inside
  <1>3. lock = 0 /\ \A t \in Threads : holder[t] = 0 /\ pc[t] = "out"
    BY DEF LockInit
  <1> QED
    BY <1>1, <1>2, <1>3 DEF IInv, Exclusion

\* A thread that enters when nobody is inside is alone.
LEMMA EnterAlone ==
    ASSUME IInv, NEW t \in Threads, Enter(t), UNCHANGED <<state, reused>>,
           Runs(t), Inside = {}
    PROVE  Exclusion'
  <1>1. \A u \in Threads : u # t => pc'[u] = pc[u]
    BY DEF Enter, IInv, TypeOK
  <1>2. Inside' \subseteq {t}
    BY <1>1 DEF Inside, Runs
  <1>3. lock' = Pid(t)'
    BY DEF Enter, Pid
  <1> QED
    BY <1>2, <1>3 DEF Exclusion

\* While pids are not reused and nothing was stolen after STUCK_LIMIT, a free
\* lock, and a lock whose holder is dead, has nobody inside.
LEMMA NobodyInside ==
    ASSUME IInv, ~reused, ~stuckTaken, lock = 0 \/ ~Alive(lock)
    PROVE  Inside = {}
  <1> SUFFICES ASSUME NEW t \in Inside
               PROVE  FALSE
    OBVIOUS
  <1>1. lock = Pid(t) /\ t \in Threads /\ Runs(t)
    BY DEF IInv, Exclusion, Inside
  <1>2. Pid(t) # 0 /\ Alive(Pid(t))
    BY <1>1, LockAssumption DEF Pid, Alive, Runs
  <1> QED
    BY <1>1, <1>2

\* Every step keeps the invariant.
LEMMA InvStep == IInv /\ [LockNext]_lockVars => IInv'
  <1> SUFFICES ASSUME IInv, [LockNext]_lockVars
               PROVE  IInv'
    OBVIOUS
  <1>0. TypeOK /\ TypeOK'
    BY TypeStep DEF IInv
  <1>1. ASSUME NEW t \in Threads, Request(t)
        PROVE  IInv'
    <2>1. Inside' = Inside
      BY <1>0, <1>1 DEF Request, Inside, Runs, TypeOK
    <2> QED
      BY <1>0, <1>1, <2>1, SMTT(40)
      DEF Request, IInv, Born, Alive, Exclusion, Pid, locals, history, TypeOK,
          Runs
  <1>2. ASSUME NEW t \in Threads, Enter(t), Runs(t), UNCHANGED state,
               UNCHANGED reused, Exclusion'
        PROVE  IInv'
    <2>1. \A u \in Threads : u # t => pc'[u] = pc[u] /\ holder'[u] = holder[u]
      BY <1>0, <1>2 DEF Enter, TypeOK
    <2>2. pc'[t] = "in" /\ holder'[t] = 0 /\ lock' = Pid(t)
      BY <1>0, <1>2 DEF Enter, TypeOK
    <2>3. Born(Pid(t))'
      BY <1>2, LockAssumption DEF Born, Runs, Pid
    <2>4. state[ProcOf[t]] # "unborn"
      BY <1>2 DEF Runs
    <2> QED
      BY <1>0, <1>2, <2>1, <2>2, <2>3, <2>4, SMTT(40) DEF IInv, Born, Alive
  <1>3. ASSUME NEW t \in Threads, FastPath(t)
        PROVE  IInv'
    <2>1. Exclusion'
      <3>1. CASE ~reused /\ ~stuckTaken
        <4>1. Inside = {}
          BY <1>3, <3>1, NobodyInside DEF FastPath
        <4> QED
          BY <1>3, <4>1, EnterAlone DEF FastPath, history
      <3>2. CASE reused \/ stuckTaken
        BY <1>3, <3>2 DEF FastPath, history, Exclusion
      <3> QED
        BY <3>1, <3>2
    <2> QED
      BY <1>2, <1>3, <2>1 DEF FastPath, history
  <1>4. ASSUME NEW t \in Threads, Contended(t)
        PROVE  IInv'
    <2>1. Inside' = Inside
      BY <1>0, <1>4 DEF Contended, Inside, Runs, TypeOK
    <2>2. \A u \in Threads : u # t => pc'[u] = pc[u] /\ holder'[u] = holder[u]
      BY <1>0, <1>4 DEF Contended, TypeOK
    <2>3. pc'[t] = "inspect" /\ holder'[t] = lock /\ lock # 0 /\ Runs(t)
      BY <1>0, <1>4 DEF Contended, TypeOK
    <2>4. UNCHANGED <<lock, state, reused, stuckTaken>>
      BY <1>4 DEF Contended, history
    <2> QED
      BY <1>0, <2>1, <2>2, <2>3, <2>4, SMTT(40)
      DEF IInv, Born, Alive, Exclusion, Pid, Runs
  <1>5. ASSUME NEW t \in Threads, Inspect(t)
        PROVE  IInv'
    <2>1. Inside' = Inside
      BY <1>0, <1>5 DEF Inspect, Inside, Runs, TypeOK
    <2>2. \A u \in Threads : u # t => pc'[u] = pc[u]
      BY <1>0, <1>5 DEF Inspect, TypeOK
    <2>3. /\ pc'[t] \in {"spin", "steal_dead", "steal_stuck"} /\ Runs(t)
          /\ pc'[t] = "steal_dead" => ~Alive(holder[t])
          /\ holder[t] # 0
      BY <1>0, <1>5 DEF Inspect, TypeOK, IInv
    <2>4. UNCHANGED <<lock, state, holder, reused, stuckTaken>>
      BY <1>5 DEF Inspect, history
    <2> QED
      BY <1>0, <2>1, <2>2, <2>3, <2>4, SMTT(40)
      DEF IInv, Born, Alive, Exclusion, Pid, Runs
  <1>6. ASSUME NEW t \in Threads, pc'[t] = "spin", Runs(t),
               pc' = [pc EXCEPT ![t] = "spin"], pc[t] # "in",
               UNCHANGED <<lock, state, holder, reused, stuckTaken>>
        PROVE  IInv'
    <2>1. Inside' = Inside
      BY <1>0, <1>6 DEF Inside, Runs, TypeOK
    <2>2. \A u \in Threads : u # t => pc'[u] = pc[u]
      BY <1>0, <1>6 DEF TypeOK
    <2> QED
      BY <1>0, <1>6, <2>1, <2>2, SMTT(40) DEF IInv, Born, Alive, Exclusion, Pid, Runs
  <1>7. ASSUME NEW t \in Threads, StealDead(t)
        PROVE  IInv'
    <2>1. CASE lock = holder[t]
      <3>1. Exclusion'
        <4>1. CASE ~reused /\ ~stuckTaken
          <5>1. ~Alive(lock)
            BY <1>7, <2>1, <4>1 DEF StealDead, IInv
          <5>2. Inside = {}
            BY <4>1, <5>1, NobodyInside
          <5> QED
            BY <1>7, <2>1, <5>2, EnterAlone DEF StealDead, history
        <4>2. CASE reused \/ stuckTaken
          BY <1>7, <4>2 DEF StealDead, history, Exclusion
        <4> QED
          BY <4>1, <4>2
      <3> QED
        BY <1>2, <1>7, <2>1, <3>1 DEF StealDead, history
    <2>2. CASE lock # holder[t]
      <3>1. pc'[t] = "spin"
        BY <1>0, <1>7, <2>2 DEF StealDead, TypeOK
      <3> QED
        BY <1>6, <1>7, <2>2, <3>1 DEF StealDead, locals, history
    <2> QED
      BY <2>1, <2>2
  <1>8. ASSUME NEW t \in Threads, StealStuck(t)
        PROVE  IInv'
    <2>1. CASE lock = holder[t]
      <3>1. Enter(t) /\ stuckTaken' /\ Runs(t) /\ UNCHANGED <<state, reused>>
        BY <1>8, <2>1 DEF StealStuck
      <3>2. Exclusion'
        BY <3>1 DEF Exclusion
      <3> QED
        BY <1>2, <3>1, <3>2
    <2>2. CASE lock # holder[t]
      <3>1. pc'[t] = "spin"
        BY <1>0, <1>8, <2>2 DEF StealStuck, TypeOK
      <3> QED
        BY <1>6, <1>8, <2>2, <3>1 DEF StealStuck
    <2> QED
      BY <2>1, <2>2
  <1>9. ASSUME NEW t \in Threads, Release(t)
        PROVE  IInv'
    <2>1. \A u \in Threads : u # t => pc'[u] = pc[u]
      BY <1>0, <1>9 DEF Release, TypeOK
    <2>2. pc'[t] = "out" /\ lock' = 0 /\ t \in Inside
      BY <1>0, <1>9 DEF Release, TypeOK, Inside
    <2>3. UNCHANGED <<state, holder, reused, stuckTaken>>
      BY <1>9 DEF Release, locals, history
    <2>4. Inside' = Inside \ {t}
      BY <2>1, <2>2, <2>3 DEF Inside, Runs
    <2>5. Exclusion'
      BY <2>2, <2>3, <2>4 DEF IInv, Exclusion
    <2> QED
      BY <1>0, <2>1, <2>2, <2>3, <2>5 DEF IInv, Born, Alive
  <1>10. ASSUME NEW p \in Procs, Die(p) \/ Reap(p)
         PROVE  IInv'
    <2>1. /\ \A q \in Procs : q # p => state'[q] = state[q]
          /\ state[p] \in {"run", "zombie"} /\ state'[p] \in {"zombie", "gone"}
          /\ UNCHANGED <<lock, pc, holder, reused, stuckTaken>>
      BY <1>0, <1>10 DEF Die, Reap, TypeOK, locals, history
    <2>2. Inside' \subseteq Inside
      BY <2>1, LockAssumption DEF Inside, Runs
    <2>3. Exclusion'
      BY <2>1, <2>2 DEF IInv, Exclusion, Pid
    <2>4. \A pid \in Nat : (Born(pid) => Born(pid)')
                           /\ (Alive(pid)' => Alive(pid))
      BY <2>1 DEF Born, Alive
    <2>5. lock \in Nat /\ \A t \in Threads : holder[t] \in Nat
      BY <1>0, LockAssumption, SMTT(40) DEF TypeOK, Pids
    <2>6. \A t \in Threads : state'[ProcOf[t]] = "unborn"
                               => state[ProcOf[t]] = "unborn"
      BY <2>1, LockAssumption
    <2> QED
      BY <1>0, <2>1, <2>3, <2>4, <2>5, <2>6 DEF IInv
  <1>11. ASSUME NEW p \in Procs, Spawn(p)
         PROVE  IInv'
    <2>1. /\ \A q \in Procs : q # p => state'[q] = state[q]
          /\ state[p] = "unborn" /\ state'[p] = "run" /\ ~Alive(PidOf[p])
          /\ UNCHANGED <<lock, pc, holder, stuckTaken>>
      BY <1>0, <1>11 DEF Spawn, TypeOK, locals
    <2>2. Inside' = Inside
      BY <2>1, LockAssumption DEF Inside, Runs, IInv
    <2>3. ~reused' => ~reused /\ ~Born(PidOf[p])
      <3>1. ~reused' => ~reused /\ \A q \in Procs : PidOf[q] = PidOf[p]
                                      => state[q] # "gone"
        BY <1>11 DEF Spawn
      <3> QED
        BY <1>0, <2>1, <3>1 DEF Born, Alive, TypeOK
    <2>4. Exclusion'
      BY <2>1, <2>2, <2>3 DEF IInv, Exclusion, Pid
    <2>5. lock \in Nat /\ \A t \in Threads : holder[t] \in Nat
      BY <1>0, LockAssumption, SMTT(40) DEF TypeOK, Pids
    <2>6. \A pid \in Nat : (Born(pid) => Born(pid)')
                           /\ (Alive(pid)' => Alive(pid) \/ pid = PidOf[p])
      BY <2>1 DEF Born, Alive
    <2>7. \A t \in Threads : state'[ProcOf[t]] = "unborn"
                               => state[ProcOf[t]] = "unborn"
      BY <2>1, LockAssumption
    <2> QED
      BY <1>0, <2>1, <2>3, <2>4, <2>5, <2>6, <2>7 DEF IInv
  <1>12. CASE LockTick \/ UNCHANGED lockVars
    <2>1. UNCHANGED <<lock, state, pc, holder, reused, stuckTaken>>
      BY <1>12 DEF LockTick, lockVars, locals, history
    <2> QED
      BY <1>0, <2>1 DEF IInv, Born, Alive, Exclusion, Inside, Runs, Pid
  <1> QED
    BY <1>1, <1>3, <1>4, <1>5, <1>7, <1>8, <1>9, <1>10, <1>11, <1>12
    DEF LockNext, Acquire

\* Mutual exclusion: with pids that are not reused and before any lock is
\* stolen after STUCK_LIMIT, two threads are never inside together, and the
\* holder's release frees its own lock.
THEOREM LockExcludes == LockSpec => []Exclusion
  <1>1. IInv => Exclusion
    BY DEF IInv
  <1> QED
    BY <1>1, InvInit, InvStep, PTL DEF LockSpec

-----------------------------------------------------------------------------
(***************************************************************************)
(* A read of a cache slot is never a mixture of two writes.  The invariant *)
(* ties the counter to the slot: while it is even nobody writes and the    *)
(* slot is what was committed under it; what a reader copied under a       *)
(* counter that has not moved is a part of that.                           *)
(***************************************************************************)

\* lock() makes the counter odd, and unlock() even again.
LEMMA OddIsOdd ==
    ASSUME NEW v \in Nat
    PROVE  /\ Odd(v) \in Nat /\ Odd(v) % 2 = 1 /\ (Odd(v) + 1) % 2 = 0
           /\ v <= Odd(v) /\ Odd(v) # 0
           /\ v % 2 = 0 => v < Odd(v)
  BY SMTT(40) DEF Odd

\* The slot against the counter.
SlotInv ==
    /\ version \in Nat
    /\ DOMAIN committed \subseteq 0 .. version
    /\ \A v \in DOMAIN committed : v % 2 = 0
    /\ version % 2 = 0 => /\ slotLock = Nobody
                          /\ version \in DOMAIN committed
                          /\ slot = committed[version]
    /\ slotLock # Nobody => writing.next = version + 1
    /\ slotLock \in Writers \cup {Nobody}
    /\ DOMAIN slot = Words

\* A reader against the counter and what was committed.
ReaderInv(r) ==
    /\ reader[r].pc = "copy" =>
         /\ reader[r].v1 \in DOMAIN committed
         /\ DOMAIN reader[r].copy \subseteq Words
         /\ version = reader[r].v1 =>
              \A i \in DOMAIN reader[r].copy : reader[r].copy[i] = slot[i]
    /\ \/ reader[r].pc = "hit"
       \/ reader[r].pc = "locked" /\ reader[r].v1 % 2 = 0
       => /\ reader[r].v1 \in DOMAIN committed
          /\ \A i \in DOMAIN reader[r].copy :
               reader[r].copy[i] = committed[reader[r].v1][i]

\* The invariant of the sequence lock.
ReadInv ==
    /\ SlotInv
    /\ DOMAIN reader = Readers
    /\ \A r \in Readers : ReaderInv(r)

\* The counter starts even, over the slot as it is.
LEMMA ReadInvInit == SeqInit => ReadInv
  <1> SUFFICES ASSUME SeqInit
               PROVE  ReadInv
    OBVIOUS
  <1>1. DOMAIN committed = {0} /\ committed[0] = slot
    BY DEF SeqInit, Nothing, Put
  <1>2. SlotInv
    BY <1>1, SMTT(40) DEF SeqInit, SlotInv
  <1> QED
    BY <1>2 DEF SeqInit, ReadInv, ReaderInv, Reading

\* A step of one reader that leaves the slot alone.
LEMMA ReaderStep ==
    ASSUME ReadInv, NEW r \in Readers, NEW x,
           reader' = [reader EXCEPT ![r] = x],
           UNCHANGED Shared, ReaderInv(r)'
    PROVE  ReadInv'
  <1>1. SlotInv'
    BY DEF ReadInv, SlotInv, Shared
  <1>2. ASSUME NEW q \in Readers, q # r
        PROVE  ReaderInv(q)'
    BY <1>2 DEF ReadInv, ReaderInv, Shared
  <1> QED
    BY <1>1, <1>2 DEF ReadInv

\* Every step of a writer, whole or cut short, and of a reader keeps it.
LEMMA ReadInvStep ==
    ASSUME ReadInv, [SeqNext]_seqVars
    PROVE  ReadInv'
  <1>0. SlotInv
    BY DEF ReadInv
  <1>1. ASSUME NEW w \in Writers, BeginWrite(w)
        PROVE  ReadInv'
    <2>1. /\ version' = Odd(version) /\ version' \in Nat
          /\ version' % 2 = 1 /\ version <= version'
          /\ version % 2 = 0 => version < version'
      BY <1>0, <1>1, OddIsOdd DEF BeginWrite, SlotInv
    <2>2. SlotInv'
      BY <1>0, <1>1, <2>1, SMTT(40) DEF BeginWrite, SlotInv
    <2>3. ASSUME NEW r \in Readers
          PROVE  ReaderInv(r)'
      BY <1>0, <1>1, <2>1, SMTT(40) DEF BeginWrite, ReadInv, SlotInv, ReaderInv
    <2> QED
      BY <1>1, <2>2, <2>3 DEF BeginWrite, ReadInv
  <1>2. ASSUME NEW w \in Writers, Store(w)
        PROVE  ReadInv'
    <2>1. slotLock # Nobody /\ version % 2 # 0
      BY <1>0, <1>2, SeqlockAssumption DEF Store, SlotInv
    <2>2. SlotInv'
      BY <1>0, <1>2, <2>1, SMTT(40) DEF Store, SlotInv
    <2>3. ASSUME NEW r \in Readers
          PROVE  ReaderInv(r)'
      BY <1>0, <1>2, <2>1 DEF Store, ReadInv, SlotInv, ReaderInv
    <2> QED
      BY <1>2, <2>2, <2>3 DEF Store, ReadInv
  <1>3. ASSUME NEW w \in Writers, EndWrite(w)
        PROVE  ReadInv'
    <2>1. version' = version + 1 /\ version % 2 = 1 /\ version' % 2 = 0
      BY <1>0, <1>3, SeqlockAssumption, SMTT(40) DEF EndWrite, SlotInv
    <2>2. /\ DOMAIN committed' = DOMAIN committed \cup {version'}
          /\ committed'[version'] = slot
          /\ \A v \in DOMAIN committed : committed'[v] = committed[v]
      <3>1. version' \notin DOMAIN committed
        BY <1>0, <2>1, SMTT(40) DEF SlotInv
      <3> QED
        BY <1>3, <3>1 DEF EndWrite, Put
    <2>3. SlotInv'
      BY <1>0, <1>3, <2>1, <2>2, SMTT(40) DEF EndWrite, SlotInv
    <2>4. ASSUME NEW r \in Readers
          PROVE  ReaderInv(r)'
      <3>1. version' \notin DOMAIN committed
        BY <1>0, <2>1, SMTT(40) DEF SlotInv
      <3> QED
        BY <1>3, <2>2, <3>1, SMTT(40) DEF EndWrite, ReadInv, ReaderInv
    <2> QED
      BY <1>3, <2>3, <2>4 DEF EndWrite, ReadInv
  <1>4. ASSUME NEW w \in Writers, Stop(w)
        PROVE  ReadInv'
    <2>1. SlotInv'
      BY <1>0, <1>4, SeqlockAssumption DEF Stop, SlotInv
    <2> QED
      BY <1>4, <2>1 DEF Stop, ReadInv, ReaderInv
  <1>5. ASSUME NEW r \in Readers, Get(r)
        PROVE  ReadInv'
    <2>1. reader'[r].pc = "sample"
      BY <1>5 DEF Get, ReadInv, Reading
    <2> QED
      BY <1>5, <2>1, ReaderStep DEF Get, ReaderInv
  <1>6. ASSUME NEW r \in Readers, Sample(r)
        PROVE  ReadInv'
    <2>1. UNCHANGED Shared
      BY <1>6 DEF Sample
    <2>2. CASE version % 2 = 1
      <3>1. reader' = [reader EXCEPT ![r] = Torn(r)] /\ reader'[r].pc = "torn"
        BY <1>6, <2>2 DEF Sample, ReadInv, Torn, Reading
      <3> QED
        BY <2>1, <3>1, ReaderStep DEF ReaderInv
    <2>3. CASE version % 2 # 1
      <3> DEFINE x == Reading("copy", version, Nothing, reader[r].tries)
      <3>1. reader' = [reader EXCEPT ![r] = x] /\ reader'[r] = x
        BY <1>6, <2>3 DEF Sample, ReadInv
      <3>2. version \in DOMAIN committed
        BY <1>0, <2>3, SMTT(40) DEF SlotInv
      <3>3. ReaderInv(r)'
        BY <2>1, <3>1, <3>2, SMTT(40) DEF ReaderInv, Reading, Nothing, Shared
      <3> HIDE DEF x
      <3> QED
        BY <2>1, <3>1, <3>3, ReaderStep
    <2> QED
      BY <2>2, <2>3
  <1>7. ASSUME NEW r \in Readers, Load(r)
        PROVE  ReadInv'
    <2>1. PICK i \in Words \ DOMAIN reader[r].copy :
            reader' = [reader EXCEPT ![r] =
                         Reading("copy", reader[r].v1,
                                 Put(reader[r].copy, i, slot[i]), reader[r].tries)]
      BY <1>7 DEF Load
    <2>2. UNCHANGED Shared /\ reader[r].pc = "copy"
      BY <1>7 DEF Load
    <2> DEFINE c == Put(reader[r].copy, i, slot[i])
               x == Reading("copy", reader[r].v1, c, reader[r].tries)
    <2>3. /\ DOMAIN c = DOMAIN reader[r].copy \cup {i}
          /\ c[i] = slot[i]
          /\ \A j \in DOMAIN reader[r].copy : j # i => c[j] = reader[r].copy[j]
      BY DEF Put
    <2> HIDE DEF c
    <2>4. /\ reader' = [reader EXCEPT ![r] = x]
          /\ reader'[r].pc = "copy" /\ reader'[r].copy = c
          /\ reader'[r].v1 = reader[r].v1
      BY <2>1 DEF ReadInv, Reading, c
    <2>5. ReaderInv(r)'
      BY <2>2, <2>3, <2>4, SMTT(40) DEF ReadInv, ReaderInv, Shared
    <2> HIDE DEF x
    <2> QED
      BY <2>2, <2>4, <2>5, ReaderStep
  <1>8. ASSUME NEW r \in Readers, Validate(r)
        PROVE  ReadInv'
    <2>1. UNCHANGED Shared /\ reader[r].pc = "copy"
      BY <1>8 DEF Validate
    <2>2. CASE Unmoved(r)
      <3> DEFINE x == Reading("hit", reader[r].v1, reader[r].copy, 0)
      <3>1. reader' = [reader EXCEPT ![r] = x] /\ reader'[r] = x
        BY <1>8, <2>2 DEF Validate, ReadInv
      <3>2. version = reader[r].v1 /\ slot = committed[version]
        BY <1>0, <2>1, <2>2 DEF Unmoved, ReadInv, ReaderInv, SlotInv
      <3>3. ReaderInv(r)'
        BY <2>1, <3>1, <3>2 DEF ReadInv, ReaderInv, Reading, Shared
      <3> HIDE DEF x
      <3> QED
        BY <2>1, <3>1, <3>3, ReaderStep
    <2>3. CASE ~Unmoved(r)
      <3>1. reader' = [reader EXCEPT ![r] = Torn(r)] /\ reader'[r].pc = "torn"
        BY <1>8, <2>3 DEF Validate, ReadInv, Torn, Reading
      <3> QED
        BY <2>1, <3>1, ReaderStep DEF ReaderInv
    <2> QED
      BY <2>2, <2>3
  <1>9. ASSUME NEW r \in Readers, Again(r)
        PROVE  ReadInv'
    <2>1. reader'[r].pc = "sample"
      BY <1>9 DEF Again, ReadInv, Reading
    <2> QED
      BY <1>9, <2>1, ReaderStep DEF Again, ReaderInv
  <1>10. ASSUME NEW r \in Readers, LockedRead(r)
         PROVE  ReadInv'
    <2> DEFINE x == Reading("locked", version, slot, 0)
    <2>1. reader' = [reader EXCEPT ![r] = x] /\ reader'[r] = x /\ UNCHANGED Shared
      BY <1>10 DEF LockedRead, ReadInv
    <2>2. ReaderInv(r)'
      BY <1>0, <2>1, SMTT(40) DEF SlotInv, ReaderInv, Reading, Shared
    <2> HIDE DEF x
    <2> QED
      BY <2>1, <2>2, ReaderStep
  <1>11. CASE UNCHANGED seqVars
    BY <1>11 DEF seqVars, ReadInv, SlotInv, ReaderInv
  <1> QED
    BY <1>1, <1>2, <1>3, <1>4, <1>5, <1>6, <1>7, <1>8, <1>9, <1>10, <1>11
    DEF SeqNext, Read, Write

\* What get returns from a slot is one whole committed state of it, whatever
\* writers did meanwhile and wherever they died.
THEOREM WholeReads == SeqSpec => []ReadsAreWhole
  <1>1. ReadInv => ReadsAreWhole
    BY DEF ReadInv, ReaderInv, ReadsAreWhole
  <1>2. ReadInv /\ [SeqNext]_seqVars => ReadInv'
    BY ReadInvStep
  <1> QED
    BY <1>1, <1>2, ReadInvInit, PTL DEF SeqSpec

-----------------------------------------------------------------------------
\* The requests and the table are well formed.
Fields == {"pc", "key", "now", "kh", "until", "leader", "refresh", "stored"}

Types ==
    /\ clock \in Nat
    /\ DOMAIN req = Requests /\ \A r \in Requests : DOMAIN req[r] = Fields
    /\ DOMAIN inflight = Slots
    /\ \A s \in Slots : DOMAIN inflight[s] = {"key_hash", "deadline"} /\ inflight[s].deadline \in Nat
    /\ DOMAIN cache = Keys
    /\ clean \subseteq Requests /\ owed \subseteq Requests

\* A request on its way has a key; it leads only once it is past begin, and it read the
\* clock no later than now.
Way(r) ==
    /\ req[r].pc \notin {"new", "done"} => req[r].key \in Keys
    /\ req[r].pc \in {"check", "recheck", "cas", "stamp", "lost"} => req[r].now \in Nat /\ req[r].now <= clock
    /\ req[r].pc \in {"load"} \cup Beginning => ~req[r].leader

\* A caller whose key has had a settled leader ever since it looked has seen the key in
\* its slot, and is about to look at the deadline, which has not passed.
CleanInv ==
    \A r \in clean : At(r, "check") /\ Settled(req[r].key)

\* A response that a leader has stored is in the cache when it releases the key, and so
\* for the followers that waited for it.
Served(r) ==
    /\ req[r].stored => req[r].pc \in {"store", "end", "clear", "free"}
    /\ req[r].stored /\ req[r].pc # "store" => cache[req[r].key] = "fresh"
    /\ r \in owed => req[r].pc \in {"wait", "peek"} /\ cache[req[r].key] = "fresh"

Inv == Types /\ CleanInv /\ \A r \in Requests : Way(r) /\ Served(r)


\* Nothing is in flight at the start.
LEMMA RequestsInit == Init => Inv
  <1> SUFFICES ASSUME Init
               PROVE  Inv
    OBVIOUS
  <1>1. Types
    BY CoalesceAssumption DEF Init, Types, Free, Start, Fields
  <1>2. CleanInv
    BY DEF Init, CleanInv
  <1>3. \A r \in Requests : req[r].pc = "new" /\ req[r].stored = FALSE /\ r \notin owed
    BY DEF Init, Start
  <1>4. \A r \in Requests : Way(r) /\ Served(r)
    BY <1>3 DEF Way, Served, Beginning
  <1> QED
    BY <1>1, <1>2, <1>4 DEF Inv

\* What a step of r does to r: x is where r is afterwards.
Becomes(r, x) == req' = [req EXCEPT ![r] = x]

\* Every step of a request moves that request only.
LEMMA OneMoves ==
    ASSUME Types, NEW r \in Requests,
           (\E k \in Wants[r] : Arrive(r, k)) \/ Step(r) \/ Rejects(r) \/ Vanishes(r)
    PROVE  \E x : DOMAIN x = Fields /\ Becomes(r, x)
  <1>0. DOMAIN Start = Fields /\ DOMAIN req[r] = Fields
    BY DEF Types, Start, Fields
  <1>1. ASSUME NEW next, Moves(r, next)
        PROVE  \E x : DOMAIN x = Fields /\ Becomes(r, x)
    BY <1>0, <1>1 DEF Moves, Becomes
  <1>2. ASSUME Leader(r) \/ Follower(r)
        PROVE  \E x : DOMAIN x = Fields /\ Becomes(r, x)
    BY <1>0, <1>1, <1>2 DEF Leader, Follower, Becomes
  <1>3. ASSUME NEW k, NEW b, Looks(r, k, b)
        PROVE  \E x : DOMAIN x = Fields /\ Becomes(r, x)
    BY <1>0, <1>3 DEF Looks, Becomes
  <1>4. ASSUME NEW k \in Wants[r], Arrive(r, k)
        PROVE  \E x : DOMAIN x = Fields /\ Becomes(r, x)
    BY <1>1, <1>3, <1>4 DEF Arrive, spawn_swr_refresh
  <1>5. CASE Begin(r)
    BY <1>0, <1>1, <1>2, <1>5, SMTT(40)
       DEF Begin, BeginLoad, BeginCheck, BeginRecheck, BeginCas, BeginStamp, BeginLost, Becomes
  <1>6. CASE Poll(r) \/ Peek(r) \/ Fails(r) \/ maybe_store(r) \/ End(r) \/ EndClear(r)
             \/ EndFree(r) \/ Rejects(r) \/ Vanishes(r)
    BY <1>1, <1>6
       DEF Poll, Peek, Fails, maybe_store, End, EndClear, EndFree, Rejects, Vanishes
  <1>7. CASE Answers(r) \/ refresh_entry(r)
    BY <1>0, <1>1, <1>7 DEF Answers, refresh_entry, Becomes
  <1> QED
    BY <1>4, <1>5, <1>6, <1>7 DEF Step

\* The tables stay well formed, and what is fresh stays so.
LEMMA TypesStep ==
    ASSUME Inv, NEW r \in Requests,
           (\E k \in Wants[r] : Arrive(r, k)) \/ Step(r) \/ Rejects(r) \/ Vanishes(r)
    PROVE  /\ Types' /\ clock' = clock
           /\ \A k \in Keys : cache[k] = "fresh" => cache'[k] = "fresh"
           /\ \A q \in Requests \ {r} : req'[q] = req[q]
  <1> USE DEF Inv
  <1>1. PICK x : DOMAIN x = Fields /\ req' = [req EXCEPT ![r] = x]
    BY OneMoves DEF Becomes
  <1>2. /\ DOMAIN req' = Requests /\ \A q \in Requests : DOMAIN req'[q] = Fields
        /\ \A q \in Requests \ {r} : req'[q] = req[q]
    BY <1>1 DEF Types
  <1>3. clock' = clock
    BY DEF Arrive, Step, Begin, BeginLoad, BeginCheck, BeginRecheck, BeginCas, BeginStamp,
           BeginLost, Poll, Peek, Answers, Fails, refresh_entry, maybe_store, End, EndClear,
           EndFree, Rejects, Vanishes
  <1>4. /\ DOMAIN cache' = Keys
        /\ \A k \in Keys : cache[k] = "fresh" => cache'[k] = "fresh"
    BY DEF Arrive, Step, Begin, BeginLoad, BeginCheck, BeginRecheck, BeginCas, BeginStamp,
           BeginLost, Poll, Peek, Answers, Fails, refresh_entry, maybe_store, End, EndClear,
           EndFree, Rejects, Vanishes, Types
  <1>5. /\ DOMAIN inflight' = Slots
        /\ \A s \in Slots : /\ DOMAIN inflight'[s] = {"key_hash", "deadline"}
                            /\ inflight'[s].deadline \in Nat
    <2>1. CASE UNCHANGED inflight
      BY <2>1 DEF Types
    <2>2. CASE BeginCas(r)
      BY <2>1, <2>2, SMTT(40) DEF BeginCas, Types
    <2>3. CASE BeginStamp(r)
      <3>1. req[r].now + COALESCE_TTL \in Nat
        BY <2>3, CoalesceAssumption, SMTT(40) DEF BeginStamp, At, Way
      <3> QED
        BY <2>3, <3>1 DEF BeginStamp, Types
    <2>4. CASE EndClear(r) \/ EndFree(r)
      BY <2>4, SMTT(40) DEF EndClear, EndFree, Types
    <2> QED
      BY <2>1, <2>2, <2>3, <2>4
         DEF Arrive, Step, Begin, BeginLoad, BeginCheck, BeginRecheck, BeginLost, Poll, Peek,
             Answers, Fails, refresh_entry, maybe_store, End, Rejects, Vanishes
  <1>6. clean' \subseteq Requests /\ owed' \subseteq Requests
    <2>1. CASE Record(r)
      BY <2>1 DEF Record, Types
    <2>2. CASE EndFree(r)
      BY <2>2 DEF EndFree, Types
    <2> QED
      BY <2>1, <2>2
         DEF Arrive, Step, Begin, BeginLoad, BeginCheck, BeginRecheck, BeginCas, BeginStamp,
             BeginLost, Poll, Peek, Answers, Fails, refresh_entry, maybe_store, End, EndClear,
             Rejects, Vanishes
  <1> QED
    BY <1>2, <1>3, <1>4, <1>5, <1>6 DEF Types

\* What a step of a request does to its own claims.
LEMMA SelfStep ==
    ASSUME Inv, NEW r \in Requests,
           (\E k \in Wants[r] : Arrive(r, k)) \/ Step(r) \/ Rejects(r) \/ Vanishes(r)
    PROVE  /\ Way(r)'
           /\ req'[r].stored => req'[r].pc \in {"store", "end", "clear", "free"}
           /\ req'[r].stored /\ req'[r].pc # "store" => cache'[req'[r].key] = "fresh"
           /\ r \in owed /\ req'[r].pc \in {"wait", "peek"} => req'[r].key = req[r].key
  <1> DEFINE Good == /\ Way(r)'
                     /\ req'[r].stored => req'[r].pc \in {"store", "end", "clear", "free"}
                     /\ req'[r].stored /\ req'[r].pc # "store" => cache'[req'[r].key] = "fresh"
                     /\ r \in owed /\ req'[r].pc \in {"wait", "peek"} => req'[r].key = req[r].key
  <1> SUFFICES Good
    OBVIOUS
  <1>0. /\ Types /\ Types' /\ clock' = clock /\ Way(r) /\ Served(r)
        /\ DOMAIN req = Requests /\ DOMAIN req[r] = Fields /\ clock \in Nat
        /\ \A k \in Keys : cache[k] = "fresh" => cache'[k] = "fresh"
    BY TypesStep DEF Inv, Types
  <1>1. ASSUME req'[r].pc = "done", req'[r].stored = FALSE
        PROVE  Good
    BY <1>1 DEF Way, Beginning
  <1>2. ASSUME Moves(r, "done")
        PROVE  Good
    BY <1>0, <1>1, <1>2 DEF Moves, Start
  <1>3. ASSUME Leader(r) \/ Follower(r), req[r].key \in Keys
        PROVE  Good
    <2>1. CASE Leader(r)
      <3>1. /\ req'[r].pc = "work" /\ req'[r].key = req[r].key /\ req'[r].stored = FALSE
        BY <1>0, <2>1 DEF Leader, Start
      <3> QED
        BY <1>3, <3>1 DEF Way, Beginning
    <2>2. CASE Follower(r) /\ ~req[r].refresh
      <3>1. /\ req'[r].pc = "wait" /\ req'[r].key = req[r].key /\ req'[r].stored = FALSE
        BY <1>0, <2>2 DEF Follower, Start
      <3> QED
        BY <1>3, <3>1 DEF Way, Beginning
    <2> QED
      BY <1>2, <1>3, <2>1, <2>2 DEF Follower
  <1>4. ASSUME NEW k \in Keys, NEW b, Looks(r, k, b), r \notin owed
        PROVE  Good
    BY <1>0, <1>4 DEF Looks, Start, Way, Beginning
  <1>5. ASSUME NEW next \in {"recheck", "cas", "lost", "work", "end", "clear", "free", "peek"},
               Moves(r, next), req[r].key \in Keys,
               next \in Beginning => req[r].pc \in Beginning,
               req[r].stored => next \in {"end", "clear", "free"} /\ req[r].pc # "store"
        PROVE  Good
    <2>1. req'[r] = [req[r] EXCEPT !.pc = next]
      BY <1>0, <1>5 DEF Moves
    <2>2. /\ req'[r].pc = next /\ req'[r].key = req[r].key /\ req'[r].now = req[r].now
          /\ req'[r].leader = req[r].leader /\ req'[r].stored = req[r].stored
      BY <1>0, <2>1 DEF Fields
    <2> QED
      BY <1>0, <1>5, <2>2 DEF Way, Served, Beginning
  <1> HIDE DEF Good
  <1>6. ASSUME NEW k \in Wants[r], Arrive(r, k)
        PROVE  Good
    <2>1. k \in Keys /\ req[r].pc = "new" /\ r \notin owed
      BY <1>0, <1>6, CoalesceAssumption DEF Arrive, At, Served
    <2> QED
      BY <1>2, <1>4, <1>6, <2>1 DEF Arrive, spawn_swr_refresh
  <1>7. CASE BeginLoad(r)
    <2>1. /\ req[r].pc = "load" /\ req'[r].pc \in {"check", "recheck"} /\ req'[r].now = clock
          /\ req'[r].key = req[r].key /\ req'[r].leader = req[r].leader
          /\ req'[r].stored = req[r].stored
      BY <1>0, <1>7 DEF BeginLoad, At, Fields
    <2> QED
      BY <1>0, <2>1, SMTT(40) DEF Way, Served, Beginning, Good
  <1>8. CASE BeginCheck(r) \/ BeginRecheck(r) \/ BeginLost(r)
    <2>1. req[r].key \in Keys /\ req[r].pc \in Beginning /\ ~req[r].stored
      BY <1>0, <1>8 DEF BeginCheck, BeginRecheck, BeginLost, At, Way, Served, Beginning
    <2> QED
      BY <1>3, <1>5, <1>8, <2>1 DEF BeginCheck, BeginRecheck, BeginLost
  <1>9. CASE BeginCas(r)
    <2>1. req[r].key \in Keys /\ req[r].pc = "cas" /\ ~req[r].stored
      BY <1>0, <1>9 DEF BeginCas, At, Way, Served
    <2>2. CASE req' = [req EXCEPT ![r].pc = "stamp", ![r].leader = TRUE]
      <3>1. /\ req'[r].pc = "stamp" /\ req'[r].key = req[r].key /\ req'[r].now = req[r].now
            /\ req'[r].stored = req[r].stored
        BY <1>0, <2>2 DEF Fields
      <3> QED
        BY <1>0, <2>1, <3>1 DEF Way, Beginning, Good
    <2>3. CASE Moves(r, "lost")
      BY <1>5, <2>1, <2>3 DEF Beginning
    <2> QED
      BY <1>9, <2>2, <2>3 DEF BeginCas
  <1>10. CASE BeginStamp(r)
    <2>1. req[r].key \in Keys
      BY <1>0, <1>10 DEF BeginStamp, At, Way
    <2> QED
      BY <1>3, <1>10, <2>1 DEF BeginStamp
  <1>11. CASE Poll(r) \/ Peek(r)
    <2>1. req[r].key \in Keys /\ ~req[r].stored
      BY <1>0, <1>11 DEF Poll, Peek, At, Way, Served
    <2>2. \E next \in {"work", "peek", "done"} : Moves(r, next)
      BY <1>11 DEF Poll, Peek
    <2> QED
      BY <1>2, <1>5, <2>1, <2>2 DEF Beginning
  <1>12. CASE Fails(r) \/ ((Answers(r) \/ refresh_entry(r)) /\ Moves(r, Then(r, "store")))
    <2>1. req[r].key \in Keys /\ ~req[r].stored
      BY <1>0, <1>12 DEF Fails, Answers, refresh_entry, At, Way, Served
    <2>2. \E next \in {"end", "done"} : Moves(r, next)
      BY <1>12 DEF Fails, Then
    <2> QED
      BY <1>2, <1>5, <2>1, <2>2 DEF Beginning
  <1>13. CASE (Answers(r) \/ refresh_entry(r)) /\ ~Moves(r, Then(r, "store"))
    <2>1. /\ req[r].key \in Keys /\ ~req[r].stored /\ req[r].pc = "work"
      BY <1>0, <1>13 DEF Answers, refresh_entry, At, Way, Served
    <2>2. /\ req'[r].key = req[r].key
          /\ \/ req'[r].pc = "store"
             \/ req'[r].pc \in {"end", "done"} /\ req'[r].stored = req[r].stored
      BY <1>0, <1>13, SMTT(40) DEF Answers, refresh_entry, Then, Fields
    <2> QED
      BY <2>1, <2>2 DEF Way, Beginning, Good
  <1>14. CASE maybe_store(r)
    <2>1. req[r].key \in Keys /\ req[r].pc = "store"
      BY <1>0, <1>14 DEF maybe_store, At, Way
    <2>2. cache'[req[r].key] = "fresh"
      BY <1>0, <1>14, <2>1 DEF maybe_store, Types
    <2>3. CASE Moves(r, "end")
      <3>1. req'[r].pc = "end" /\ req'[r].key = req[r].key
        BY <1>0, <2>3 DEF Moves, Fields
      <3> QED
        BY <2>1, <2>2, <3>1 DEF Way, Beginning, Good
    <2> QED
      BY <1>2, <1>14, <2>3 DEF maybe_store, Then
  <1>15. CASE End(r) \/ EndClear(r) \/ EndFree(r)
    <2>1. req[r].key \in Keys /\ req[r].pc \in {"end", "clear", "free"}
      BY <1>0, <1>15 DEF End, EndClear, EndFree, At, Way
    <2>2. \E next \in {"clear", "free", "done"} : Moves(r, next)
      BY <1>15 DEF End, EndClear, EndFree, Then
    <2> QED
      BY <1>2, <1>5, <2>1, <2>2 DEF Beginning
  <1>16. CASE Rejects(r) \/ Vanishes(r)
    BY <1>2, <1>16 DEF Rejects, Vanishes
  <1> QED
    BY <1>6, <1>7, <1>8, <1>9, <1>10, <1>11, <1>12, <1>13, <1>14, <1>15, <1>16 DEF Step, Begin

\* Only the end of a leader that stored its response adds to the followers it is owed to.
LEMMA OwedStep ==
    ASSUME Inv, NEW r \in Requests,
           (\E k \in Wants[r] : Arrive(r, k)) \/ Step(r) \/ Rejects(r) \/ Vanishes(r),
           NEW q \in owed'
    PROVE  /\ q \in Requests /\ req'[q].pc \in {"wait", "peek"}
           /\ \/ q \in owed
              \/ q # r /\ req[q].key \in Keys /\ cache[req[q].key] = "fresh"
  <1>0. q \in Requests /\ DOMAIN req = Requests
    BY TypesStep DEF Inv, Types
  <1>1. CASE Record(r)
    BY <1>0, <1>1 DEF Record
  <1>2. CASE EndFree(r)
    <2>1. r \notin owed /\ ~At(r, "wait") /\ At(r, "free")
      BY <1>2 DEF EndFree, At, Inv, Served
    <2>2. CASE q \in owed
      <3>1. q # r /\ req'[q] = req[q] /\ req[q].pc \in {"wait", "peek"}
        BY <1>0, <2>1, <2>2, TypesStep, SMTT(40) DEF Inv, Served
      <3> QED
        BY <1>0, <2>2, <3>1
    <2>3. CASE q \notin owed
      <3>1. req[r].stored /\ At(q, "wait") /\ req[q].key = req[r].key
        BY <1>2, <2>3 DEF EndFree
      <3>2. q # r /\ req'[q] = req[q]
        BY <1>0, <2>1, <3>1, TypesStep
      <3>3. req[r].key \in Keys /\ cache[req[r].key] = "fresh"
        BY <2>1, <3>1 DEF Inv, Way, Served, At
      <3> QED
        BY <1>0, <3>1, <3>2, <3>3 DEF At
    <2> QED
      BY <2>2, <2>3
  <1> QED
    BY <1>1, <1>2
       DEF Arrive, Step, Begin, BeginLoad, BeginCheck, BeginRecheck, BeginCas, BeginStamp,
           BeginLost, Poll, Peek, Answers, Fails, refresh_entry, maybe_store, End, EndClear,
           Rejects, Vanishes

\* A caller that keeps a settled leader goes from the load to the check and no further.
LEMMA CleanStep ==
    ASSUME Inv, NEW r \in Requests,
           (\E k \in Wants[r] : Arrive(r, k)) \/ Step(r) \/ Rejects(r) \/ Vanishes(r)
    PROVE  CleanInv'
  <1>0. /\ Types /\ clock' = clock /\ clock \in Nat /\ CleanInv /\ Way(r)
        /\ \A q \in Requests \ {r} : req'[q] = req[q]
        /\ clean \subseteq Requests
    BY TypesStep DEF Inv, Types
  <1>1. ASSUME NEW q \in clean', q # r
        PROVE  At(q, "check")' /\ Settled(req[q].key)'
    <2>1. q \in clean /\ Settled(req[q].key)'
      <3>1. CASE Record(r)
        BY <1>1, <3>1 DEF Record
      <3>2. CASE EndFree(r)
        BY <1>1, <3>2 DEF EndFree
      <3> QED
        BY <3>1, <3>2
           DEF Arrive, Step, Begin, BeginLoad, BeginCheck, BeginRecheck, BeginCas, BeginStamp,
               BeginLost, Poll, Peek, Answers, Fails, refresh_entry, maybe_store, End,
               EndClear, Rejects, Vanishes
    <2>2. req'[q] = req[q] /\ At(q, "check")
      BY <1>0, <1>1, <2>1 DEF CleanInv
    <2> QED
      BY <2>1, <2>2 DEF At
  <1>2. ASSUME r \in clean'
        PROVE  At(r, "check")' /\ Settled(req[r].key)'
    <2>1. ASSUME r \in clean
          PROVE  FALSE
      <3>1. At(r, "check") /\ Settled(req[r].key)
        BY <1>0, <2>1 DEF CleanInv
      <3>2. Live(S(r), req[r].now) /\ req[r].key \in Keys
        <4>1. /\ inflight[S(r)].deadline > clock /\ req[r].now \in Nat /\ req[r].now <= clock
              /\ req[r].key \in Keys
          BY <1>0, <3>1 DEF Settled, S, Way, At
        <4>2. inflight[S(r)].deadline \in Nat
          BY <1>0, <4>1, CoalesceAssumption DEF Types, S
        <4> QED
          BY <1>0, <4>1, <4>2, SMTT(40) DEF Live
      <3>3. Follower(r) \/ Moves(r, "done")
        BY <3>1, <3>2
           DEF At, Arrive, Step, Begin, BeginLoad, BeginCheck, BeginRecheck, BeginCas,
               BeginStamp, BeginLost, Poll, Peek, Answers, Fails, refresh_entry, maybe_store,
               End, EndClear, EndFree, Rejects, Vanishes
      <3>4. req'[r].pc \in {"wait", "done"}
        BY <1>0, <3>3 DEF Follower, Moves, Start, Types
      <3>5. Record(r)
        BY <3>1
           DEF At, Arrive, Step, Begin, BeginLoad, BeginCheck, BeginRecheck, BeginCas,
               BeginStamp, BeginLost, Poll, Peek, Answers, Fails, refresh_entry, maybe_store,
               End, EndClear, EndFree, Rejects, Vanishes
      <3> QED
        BY <1>2, <3>4, <3>5 DEF Record, Beginning
    <2>2. At(r, "load") /\ Record(r)
      <3>1. CASE EndFree(r)
        BY <1>2, <2>1, <3>1 DEF EndFree
      <3>2. CASE Record(r)
        BY <1>2, <2>1, <3>2 DEF Record
      <3> QED
        BY <3>1, <3>2
           DEF Arrive, Step, Begin, BeginLoad, BeginCheck, BeginRecheck, BeginCas, BeginStamp,
               BeginLost, Poll, Peek, Answers, Fails, refresh_entry, maybe_store, End,
               EndClear, Rejects, Vanishes
    <2>3. req'[r].pc \in Beginning /\ Settled(req[r].key)'
      BY <1>2, <2>2 DEF Record
    <2>4. BeginLoad(r) \/ Vanishes(r)
      BY <2>2
         DEF At, Arrive, Step, Begin, BeginCheck, BeginRecheck, BeginCas, BeginStamp,
             BeginLost, Poll, Peek, Answers, Fails, refresh_entry, maybe_store, End,
             EndClear, EndFree, Rejects
    <2>5. BeginLoad(r)
      <3>1. ~Vanishes(r)
        BY <1>0, <2>3, SMTT(40) DEF Vanishes, Moves, Start, Beginning, Types
      <3> QED
        BY <2>4, <3>1
    <2>6. /\ req'[r].key = req[r].key /\ inflight' = inflight
          /\ req'[r].pc = IF inflight[S(r)].key_hash = req[r].key THEN "check" ELSE "recheck"
      BY <1>0, <2>5, SMTT(40) DEF BeginLoad, Types, Fields
    <2>7. inflight[S(r)].key_hash = req[r].key
      BY <2>3, <2>6 DEF Settled, S
    <2> QED
      BY <2>3, <2>6, <2>7 DEF At
  <1> QED
    BY <1>1, <1>2 DEF CleanInv

\* Every step keeps the invariant.
LEMMA InvNext == Inv /\ [Next]_vars => Inv'
  <1> SUFFICES ASSUME Inv, [Next]_vars
               PROVE  Inv'
    OBVIOUS
  <1>1. CASE UNCHANGED vars
    BY <1>1, SMTT(40) DEF vars, Inv, Types, CleanInv, Way, Served, Settled, Leads, At
  <1>2. CASE Tick
    <2>1. clock \in Nat /\ clock' = clock + 1 /\ UNCHANGED <<inflight, cache, req, owed>>
      BY <1>2 DEF Tick, Inv, Types
    <2>2. clean' \subseteq clean /\ \A q \in clean' : Settled(req[q].key)'
      BY <1>2 DEF Tick
    <2>3. Types' /\ CleanInv'
      BY <2>1, <2>2, SMTT(40) DEF Inv, Types, CleanInv, At
    <2>4. ASSUME NEW q \in Requests
          PROVE  Way(q)' /\ Served(q)'
      <3>1. Way(q) /\ Served(q)
        BY DEF Inv
      <3> QED
        BY <2>1, <3>1, SMTT(40) DEF Way, Served, Beginning
    <2> QED
      BY <2>3, <2>4 DEF Inv
  <1>3. ASSUME NEW r \in Requests,
               (\E k \in Wants[r] : Arrive(r, k)) \/ Step(r) \/ Rejects(r) \/ Vanishes(r)
        PROVE  Inv'
    <2>1. Types' /\ CleanInv'
      BY <1>3, TypesStep, CleanStep
    <2>2. ASSUME NEW q \in Requests
          PROVE  Way(q)' /\ Served(q)'
      <3>1. Way(q) /\ Served(q) /\ clock' = clock
        BY <1>3, TypesStep DEF Inv
      <3>2. \A k \in Keys : cache[k] = "fresh" => cache'[k] = "fresh"
        BY <1>3, TypesStep
      <3>3. q \in owed' => cache'[req'[q].key] = "fresh" /\ req'[q].pc \in {"wait", "peek"}
        <4>1. SUFFICES ASSUME q \in owed'
                       PROVE  cache'[req'[q].key] = "fresh" /\ req'[q].pc \in {"wait", "peek"}
          OBVIOUS
        <4>2. /\ req'[q].pc \in {"wait", "peek"}
              /\ \/ q \in owed
                 \/ q # r /\ req[q].key \in Keys /\ cache[req[q].key] = "fresh"
          BY <1>3, <4>1, OwedStep
        <4>3. req'[q].key = req[q].key
          BY <1>3, <4>2, TypesStep, SelfStep
        <4>4. q \in owed => req[q].key \in Keys /\ cache[req[q].key] = "fresh"
          BY <3>1 DEF Served, Way
        <4> QED
          BY <3>2, <4>2, <4>3, <4>4
      <3>4. CASE q = r
        BY <1>3, <3>3, <3>4, SelfStep DEF Served
      <3>5. CASE q # r
        <4>1. req'[q] = req[q]
          BY <1>3, <3>5, TypesStep
        <4>2. Way(q)'
          BY <3>1, <4>1 DEF Way
        <4>3. req[q].stored /\ req[q].pc # "store" => cache'[req[q].key] = "fresh"
          BY <3>1, <3>2 DEF Way, Served
        <4> QED
          BY <3>1, <3>3, <4>1, <4>2, <4>3 DEF Served
      <3> QED
        BY <3>4, <3>5
    <2> QED
      BY <2>1, <2>2 DEF Inv
  <1> QED
    BY <1>1, <1>2, <1>3 DEF Next

\* What a caller and a follower may meet, as an action.
FedStep == NoSecondLeader /\ NoHungryFollower

\* For any number of requests, keys and slots, whatever fails, is rejected or vanishes: no
\* caller becomes a second leader of a key that had one settled leader ever since it
\* looked, and a follower whose leader stored its response finds it.
THEOREM Fed == Spec => FollowersAreFed
  <1>1. ASSUME Inv, [Next]_vars, NEW r \in clean
        PROVE  ~(~req[r].leader /\ req'[r].leader)
    <2>1. /\ r \in Requests /\ At(r, "check") /\ Settled(req[r].key) /\ Way(r)
      BY <1>1 DEF Inv, Types, CleanInv
    <2>2. ~req[r].leader /\ DOMAIN req = Requests
      BY <1>1, <2>1 DEF Way, At, Beginning, Inv, Types
    <2>3. CASE UNCHANGED req
      BY <2>2, <2>3
    <2>4. CASE UNCHANGED vars \/ Tick
      BY <2>3, <2>4 DEF vars, Tick
    <2>5. ASSUME NEW q \in Requests, q # r,
                 (\E k \in Wants[q] : Arrive(q, k)) \/ Step(q) \/ Rejects(q) \/ Vanishes(q)
          PROVE  req'[r].leader = req[r].leader
      BY <1>1, <2>1, <2>5, TypesStep
    <2>6. ASSUME (\E k \in Wants[r] : Arrive(r, k)) \/ Step(r) \/ Rejects(r) \/ Vanishes(r)
          PROVE  ~req'[r].leader
      <3>1. Live(S(r), req[r].now)
        <4>1. /\ inflight[S(r)].deadline > clock /\ req[r].now \in Nat /\ req[r].now <= clock
              /\ req[r].key \in Keys
          BY <2>1 DEF Settled, S, Way, At
        <4>2. inflight[S(r)].deadline \in Nat /\ clock \in Nat
          BY <1>1, <4>1, CoalesceAssumption DEF Inv, Types, S
        <4> QED
          BY <4>1, <4>2, SMTT(40) DEF Live
      <3>2. Follower(r) \/ Moves(r, "done")
        BY <2>1, <2>6, <3>1
           DEF At, Arrive, Step, Begin, BeginLoad, BeginCheck, BeginRecheck, BeginCas,
               BeginStamp, BeginLost, Poll, Peek, Answers, Fails, refresh_entry, maybe_store,
               End, EndClear, EndFree, Rejects, Vanishes
      <3> QED
        BY <2>1, <2>2, <3>2 DEF Follower, Moves, Start
    <2> QED
      BY <1>1, <2>2, <2>4, <2>5, <2>6 DEF Next
  <1>2. ASSUME Inv, [Next]_vars, NEW r \in owed, At(r, "peek"), ~At(r, "peek")'
        PROVE  At(r, "done")'
    <2>1. r \in Requests /\ cache[req[r].key] = "fresh" /\ DOMAIN req = Requests
      BY <1>2 DEF Inv, Types, Served
    <2>2. ~(UNCHANGED vars \/ Tick)
      BY <1>2 DEF vars, Tick, At
    <2>3. ASSUME NEW q \in Requests, q # r,
                 (\E k \in Wants[q] : Arrive(q, k)) \/ Step(q) \/ Rejects(q) \/ Vanishes(q)
          PROVE  FALSE
      <3>1. req'[r] = req[r]
        BY <1>2, <2>1, <2>3, TypesStep
      <3> QED
        BY <1>2, <3>1 DEF At
    <2>4. ASSUME (\E k \in Wants[r] : Arrive(r, k)) \/ Step(r) \/ Rejects(r) \/ Vanishes(r)
          PROVE  Moves(r, "done")
      BY <1>2, <2>1, <2>4
         DEF At, Arrive, Step, Begin, BeginLoad, BeginCheck, BeginRecheck, BeginCas,
             BeginStamp, BeginLost, Poll, Peek, Answers, Fails, refresh_entry, maybe_store,
             End, EndClear, EndFree, Rejects, Vanishes
    <2>5. Moves(r, "done")
      BY <1>2, <2>2, <2>3, <2>4 DEF Next
    <2> QED
      BY <2>1, <2>5 DEF Moves, Start, At
  <1>3. Inv /\ [Next]_vars => [FedStep]_vars
    BY <1>1, <1>2 DEF FedStep, NoSecondLeader, NoHungryFollower
  <1>4. Spec => []Inv
    BY RequestsInit, InvNext, PTL DEF Spec
  <1>5. [][FedStep]_vars => FollowersAreFed
    BY PTL DEF FedStep, FollowersAreFed
  <1> QED
    BY <1>3, <1>4, <1>5, PTL DEF Spec

=============================================================================
