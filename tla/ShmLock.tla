------------------------------ MODULE ShmLock -------------------------------
(***************************************************************************)
(* The lock of a shared-memory slot (crates/askr/src/shmlock.rs).          *)
(*                                                                         *)
(* The lock word holds the process id of its holder, 0 when it is free.  A *)
(* waiter that cannot take it inspects the holder: the lock of a process   *)
(* the kernel no longer knows is stolen, and so is a lock whose word shows *)
(* the same pid for STUCK_LIMIT.  Threads of one process share its pid.  A *)
(* dead child stays known to the kernel, as a zombie, until the master     *)
(* collects it, and the master is one thread that takes slot locks itself  *)
(* (the backlog report of its main loop).                                  *)
(***************************************************************************)
EXTENDS Naturals, FiniteSets

CONSTANTS
    Procs,      \* processes, one element per incarnation
    Master,     \* the process that forks and collects the others
    Threads,    \* threads that use the lock
    ProcOf,     \* the process of a thread
    PidOf,      \* the pid of a process; several may have the same in turn
    Limit,      \* STUCK_LIMIT, in ticks
    MaxDeaths   \* bound: number of deaths

ASSUME LockAssumption ==
    /\ Master \in Procs
    /\ ProcOf \in [Threads -> Procs]
    /\ PidOf \in [Procs -> Nat \ {0}]
    /\ \A p \in Procs \ {Master} : PidOf[p] # PidOf[Master]
    /\ Limit \in Nat
    /\ MaxDeaths \in Nat

VARIABLES
    lock,       \* the lock word
    state,      \* per process: unborn, run, zombie or gone
    pc,         \* per thread: where it is in acquire and release
    holder,     \* per thread: the holder it loaded
    watched,    \* per thread: the holder it watches; 0 is None
    age,        \* per thread: ticks since it started to watch
    deaths,     \* number of deaths so far
    reused,     \* history: some process got the pid of an earlier one
    stuckTaken  \* history: some lock was stolen after STUCK_LIMIT

locals == <<holder, watched, age>>
history == <<deaths, reused, stuckTaken>>
lockVars == <<lock, state, pc, locals, history>>

Pid(t) == PidOf[ProcOf[t]]
Pids == {PidOf[p] : p \in Procs}

Runs(t) == state[ProcOf[t]] = "run"

\* Fault: no holder is looked at; a waiter steals once its spins are used up.
AliveNever(pid) == pid = 0

\* kill(pid, 0): a process with this number exists, a zombie included.
Alive(pid) == \E p \in Procs : PidOf[p] = pid /\ state[p] \in {"run", "zombie"}

-----------------------------------------------------------------------------
Request(t) ==
    /\ Runs(t) /\ pc[t] = "out"
    /\ pc' = [pc EXCEPT ![t] = "spin"]
    /\ UNCHANGED <<lock, state, locals, history>>

\* The critical section starts; the locals of acquire are gone.
Enter(t) ==
    /\ lock' = Pid(t)
    /\ pc' = [pc EXCEPT ![t] = "in"]
    /\ holder' = [holder EXCEPT ![t] = 0]
    /\ watched' = [watched EXCEPT ![t] = 0]
    /\ age' = [age EXCEPT ![t] = 0]

\* One of the 40,000 attempts of the fast path succeeds.
FastPath(t) ==
    /\ Runs(t) /\ pc[t] = "spin"
    /\ lock = 0
    /\ Enter(t)
    /\ UNCHANGED <<state, history>>

\* They all failed, and the load that follows sees a holder.
Contended(t) ==
    /\ Runs(t) /\ pc[t] = "spin"
    /\ lock # 0
    /\ holder' = [holder EXCEPT ![t] = lock]
    /\ pc' = [pc EXCEPT ![t] = "inspect"]
    /\ UNCHANGED <<lock, state, watched, age, history>>

\* Fault: a holder that exists is waited for without an end.
StuckNever(t) == Limit < 0 /\ age[t] > Limit

Stuck(t) == watched[t] = holder[t] /\ age[t] >= Limit

\* process_alive, and for a live holder the decision to steal, to go on
\* watching, or to start to watch.
Inspect(t) ==
    /\ Runs(t) /\ pc[t] = "inspect"
    /\ \/ /\ ~Alive(holder[t])
          /\ pc' = [pc EXCEPT ![t] = "steal_dead"]
          /\ UNCHANGED <<watched, age>>
       \/ /\ Alive(holder[t]) /\ Stuck(t)
          /\ pc' = [pc EXCEPT ![t] = "steal_stuck"]
          /\ UNCHANGED <<watched, age>>
       \/ /\ Alive(holder[t]) /\ ~Stuck(t)
          /\ pc' = [pc EXCEPT ![t] = "spin"]
          /\ watched' = [watched EXCEPT ![t] = holder[t]]
          /\ age' = [age EXCEPT ![t] = IF watched[t] = holder[t] THEN @ ELSE 0]
    /\ UNCHANGED <<lock, state, holder, history>>

\* The compare-exchange on the dead holder.
StealDead(t) ==
    /\ Runs(t) /\ pc[t] = "steal_dead"
    /\ \/ lock = holder[t] /\ Enter(t)
       \/ /\ lock # holder[t]
          /\ pc' = [pc EXCEPT ![t] = "spin"]
          /\ UNCHANGED <<lock, locals>>
    /\ UNCHANGED <<state, history>>

\* The compare-exchange on the holder that did not move.
StealStuck(t) ==
    /\ Runs(t) /\ pc[t] = "steal_stuck"
    /\ \/ /\ lock = holder[t]
          /\ Enter(t)
          /\ stuckTaken' = TRUE
       \/ /\ lock # holder[t]
          /\ pc' = [pc EXCEPT ![t] = "spin"]
          /\ watched' = [watched EXCEPT ![t] = 0]
          /\ age' = [age EXCEPT ![t] = 0]
          /\ UNCHANGED <<lock, holder, stuckTaken>>
    /\ UNCHANGED <<state, deaths, reused>>

\* release stores 0 whatever the word holds.
Release(t) ==
    /\ Runs(t) /\ pc[t] = "in"
    /\ lock' = 0
    /\ pc' = [pc EXCEPT ![t] = "out"]
    /\ UNCHANGED <<state, locals, history>>

-----------------------------------------------------------------------------
\* A child dies wherever its threads are.
Die(p) ==
    /\ p # Master /\ state[p] = "run"
    /\ deaths < MaxDeaths
    /\ deaths' = deaths + 1
    /\ state' = [state EXCEPT ![p] = "zombie"]
    /\ UNCHANGED <<lock, pc, locals, reused, stuckTaken>>

\* waitpid in the main loop of the master: not while it waits for a lock.
Reap(p) ==
    /\ state[p] = "zombie"
    /\ \A t \in Threads : ProcOf[t] = Master => pc[t] = "out"
    /\ state' = [state EXCEPT ![p] = "gone"]
    /\ UNCHANGED <<lock, pc, locals, history>>

\* A process starts, of this server or not, with a pid nobody has now.
Spawn(p) ==
    /\ state[p] = "unborn"
    /\ ~Alive(PidOf[p])
    /\ state' = [state EXCEPT ![p] = "run"]
    /\ reused' = (reused \/ \E q \in Procs : /\ PidOf[q] = PidOf[p]
                                             /\ state[q] = "gone")
    /\ UNCHANGED <<lock, pc, locals, deaths, stuckTaken>>

LockTick ==
    /\ \E t \in Threads : watched[t] # 0 /\ age[t] < Limit
    /\ age' = [t \in Threads |-> IF watched[t] # 0 /\ age[t] < Limit
                                 THEN age[t] + 1 ELSE age[t]]
    /\ UNCHANGED <<lock, state, pc, holder, watched, history>>

LockInit ==
    /\ lock = 0
    /\ \E first \in SUBSET Procs :
         /\ Master \in first
         /\ \A p, q \in first : p # q => PidOf[p] # PidOf[q]
         /\ state = [p \in Procs |-> IF p \in first THEN "run" ELSE "unborn"]
    /\ pc = [t \in Threads |-> "out"]
    /\ holder = [t \in Threads |-> 0]
    /\ watched = [t \in Threads |-> 0]
    /\ age = [t \in Threads |-> 0]
    /\ deaths = 0
    /\ reused = FALSE
    /\ stuckTaken = FALSE

Acquire(t) == FastPath(t) \/ Contended(t) \/ Inspect(t)
                \/ StealDead(t) \/ StealStuck(t)

LockNext ==
    \/ \E t \in Threads : Request(t) \/ Acquire(t) \/ Release(t)
    \/ \E p \in Procs : Die(p) \/ Reap(p) \/ Spawn(p)
    \/ LockTick

LockSpec == LockInit /\ [][LockNext]_lockVars

\* A thread that runs goes on running, a critical section ends, the master
\* collects its children and time passes.
LockFairness ==
    /\ \A t \in Threads : WF_lockVars(Acquire(t)) /\ WF_lockVars(Release(t))
    /\ \A p \in Procs : WF_lockVars(Reap(p))
    /\ WF_lockVars(LockTick)

LockFairSpec == LockSpec /\ LockFairness

-----------------------------------------------------------------------------
TypeOK ==
    /\ lock \in Pids \cup {0}
    /\ state \in [Procs -> {"unborn", "run", "zombie", "gone"}]
    /\ pc \in [Threads -> {"out", "spin", "inspect", "steal_dead",
                           "steal_stuck", "in"}]
    /\ holder \in [Threads -> Pids \cup {0}]
    /\ watched \in [Threads -> Pids \cup {0}]
    /\ age \in [Threads -> 0 .. Limit]
    /\ deaths \in 0 .. MaxDeaths
    /\ reused \in BOOLEAN
    /\ stuckTaken \in BOOLEAN

\* The threads inside the critical section.
Inside == {t \in Threads : Runs(t) /\ pc[t] = "in"}

\* Mutual exclusion, as long as no pid was handed out twice and no lock was
\* stolen after STUCK_LIMIT: one thread at most is inside, and the word is the
\* pid of its process, so that release frees nobody else's lock.
Exclusion ==
    ~reused /\ ~stuckTaken =>
        \A t \in Inside : lock = Pid(t) /\ \A u \in Inside : u = t

Waiting(t) == Runs(t) /\ pc[t] \notin {"out", "in"}

\* No lock is wedged: one that nobody inside holds while somebody waits is
\* free or held again, even when a stranger now has the dead holder's pid and
\* when the waiter is the master that should have collected the holder.
NoWedge ==
    (lock # 0 /\ Inside = {} /\ \E t \in Threads : Waiting(t))
    ~> (lock = 0 \/ Inside # {} \/ \A t \in Threads : ~Waiting(t))

=============================================================================
