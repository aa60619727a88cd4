-------------------------------- MODULE Cow ---------------------------------
(***************************************************************************)
(* The copy-on-write template (crates/askr/src/supervisor.rs, run_cow and  *)
(* cow_ready_trampoline): one process boots the application, forks warm    *)
(* workers from it, reforks the ones that end, and moves their number      *)
(* between min and max with the load.  Its signal handler runs between any *)
(* two steps of its loop.                                                  *)
(***************************************************************************)
EXTENDS Naturals, FiniteSets

CONSTANTS
    MIN, MAX,     \* workers
    IDLE,         \* idle ticks before a worker is harvested (4 in the code)
    MaxPids       \* bound: workers ever forked

VARIABLES
    pc, i,        \* the template's loop: its step, and the slot it looks at
    desired,      \* DESIRED
    wanted,       \* the loop's copy of it
    child,        \* CHILDREN: per slot a process number, or 0
    newborn,      \* the result of fork that is not stored yet, or 0
    proc,         \* the processes: up, told (sent SIGTERM) or dead (not yet reaped)
    idle,         \* idle_ticks
    signals,      \* signals_installed
    SHUTDOWN,
    unseen        \* history: processes forked around the signal

vars == <<pc, i, desired, wanted, child, newborn, proc, idle, signals, SHUTDOWN, unseen>>

Slots == 0..(MAX - 1)
Live == {p \in DOMAIN proc : proc[p] # "dead"}
Told(S) == [p \in DOMAIN proc |-> IF p \in S /\ proc[p] = "up" THEN "told" ELSE proc[p]]

Init ==
    /\ pc = "fork" /\ i = 0
    /\ desired = MIN /\ wanted = MIN
    /\ child = [s \in Slots |-> 0] /\ newborn = 0
    /\ proc = [p \in {} |-> "up"]
    /\ idle = 0 /\ signals = FALSE /\ SHUTDOWN = FALSE
    /\ unseen = {}

\* The refork of a missing slot below desired; the check is made before the fork.
\* Fault: a slot is filled although its worker still drains.
ForkOver ==
    /\ pc = "fork" /\ i < wanted /\ ~SHUTDOWN
    /\ Cardinality(DOMAIN proc) < MaxPids
    /\ pc' = "forking"
    /\ UNCHANGED <<i, desired, wanted, child, newborn, proc, idle, signals, SHUTDOWN, unseen>>

Fork ==
    /\ pc = "fork" /\ i < wanted /\ child[i] = 0 /\ ~SHUTDOWN
    /\ Cardinality(DOMAIN proc) < MaxPids
    /\ pc' = "forking"
    /\ UNCHANGED <<i, desired, wanted, child, newborn, proc, idle, signals, SHUTDOWN, unseen>>

\* fork: it may fail.
Forked ==
    /\ pc = "forking"
    /\ \/ LET p == Cardinality(DOMAIN proc) + 1
          IN /\ proc' = [q \in DOMAIN proc \cup {p} |-> IF q = p THEN "up" ELSE proc[q]]
             /\ newborn' = p
             /\ unseen' = IF SHUTDOWN THEN unseen \cup {p} ELSE unseen
             /\ pc' = "store" /\ UNCHANGED i
       \/ pc' = "fork" /\ i' = i + 1 /\ UNCHANGED <<proc, newborn, unseen>>
    /\ UNCHANGED <<desired, wanted, child, idle, signals, SHUTDOWN>>

Store ==
    /\ pc = "store"
    /\ child' = [child EXCEPT ![i] = newborn]
    /\ newborn' = 0
    /\ pc' = "fork" /\ i' = i + 1
    /\ UNCHANGED <<desired, wanted, proc, idle, signals, SHUTDOWN, unseen>>

Occupied ==
    /\ pc = "fork" /\ i < wanted /\ (child[i] # 0 \/ SHUTDOWN \/ Cardinality(DOMAIN proc) = MaxPids)
    /\ i' = i + 1
    /\ UNCHANGED <<pc, desired, wanted, child, newborn, proc, idle, signals, SHUTDOWN, unseen>>

\* The handlers are installed after the first round of forks.
Install ==
    /\ pc = "fork" /\ i = wanted
    /\ signals' = TRUE /\ pc' = "reap"
    /\ UNCHANGED <<i, desired, wanted, child, newborn, proc, idle, SHUTDOWN, unseen>>

\* waitpid until nobody is left to reap; the slots of the reaped are cleared.
Reap ==
    /\ pc = "reap"
    /\ LET reaped == DOMAIN proc \ Live
       IN child' = [s \in Slots |-> IF child[s] \in reaped THEN 0 ELSE child[s]]
    /\ pc' = "scale"
    /\ UNCHANGED <<i, desired, wanted, newborn, proc, idle, signals, SHUTDOWN, unseen>>

\* The autoscaler's second: one more when everybody is busy, one less after a while of
\* idleness, and the top worker is told to go.
Scale ==
    /\ pc = "scale" /\ pc' = "check"
    /\ \E busy \in 0..(MAX + 1) :
         LET alive == Cardinality({s \in Slots : child[s] # 0})
         IN IF SHUTDOWN \/ MIN = MAX THEN UNCHANGED <<desired, idle, proc>>
            ELSE IF busy >= alive /\ desired < MAX
            THEN desired' = desired + 1 /\ idle' = 0 /\ UNCHANGED proc
            ELSE IF ~(desired > MIN /\ busy + 1 < desired)
            THEN idle' = 0 /\ UNCHANGED <<desired, proc>>
            ELSE IF idle + 1 < IDLE
            THEN idle' = idle + 1 /\ UNCHANGED <<desired, proc>>
            ELSE /\ desired' = desired - 1 /\ idle' = 0
                 /\ proc' = IF child[desired - 1] # 0 THEN Told({child[desired - 1]}) ELSE proc
    /\ UNCHANGED <<i, wanted, child, newborn, signals, SHUTDOWN, unseen>>

\* A pass in which the autoscaler does not run.
SkipScale ==
    /\ pc = "scale" /\ pc' = "check"
    /\ UNCHANGED <<i, desired, wanted, child, newborn, proc, idle, signals, SHUTDOWN, unseen>>

\* The template exits when it was told to and nobody is left; else it sleeps.
Check ==
    /\ pc = "check"
    /\ IF SHUTDOWN /\ \A s \in Slots : child[s] = 0
       THEN pc' = "exited" /\ UNCHANGED <<i, wanted>>
       ELSE pc' = "fork" /\ i' = 0 /\ wanted' = desired
    /\ UNCHANGED <<desired, child, newborn, proc, idle, signals, SHUTDOWN, unseen>>

\* on_terminate and kill_all, on the template's own thread.
OnTerminate ==
    /\ signals /\ pc # "exited"
    /\ SHUTDOWN' = TRUE
    /\ proc' = Told({child[s] : s \in Slots})
    /\ unseen' = IF newborn # 0 THEN unseen \cup {newborn} ELSE unseen
    /\ UNCHANGED <<pc, i, desired, wanted, child, newborn, idle, signals>>

\* A worker ends: it was told, it has served its requests, or it crashed.
WorkerEnds(p) ==
    /\ p \in Live
    /\ proc' = [proc EXCEPT ![p] = "dead"]
    /\ UNCHANGED <<pc, i, desired, wanted, child, newborn, idle, signals, SHUTDOWN, unseen>>

Next ==
    \/ Fork \/ Forked \/ Store \/ Occupied \/ Install \/ Reap \/ Scale \/ SkipScale \/ Check
    \/ OnTerminate
    \/ \E p \in Live : WorkerEnds(p)

Spec == Init /\ [][Next]_vars

-----------------------------------------------------------------------------
\* The workers there should not be have been told to go: the ones in slots at or above
\* desired once the autoscaler is done, and all of them once the template shuts down,
\* except a worker that was forked while the signal arrived.
SurplusIsTold ==
    \A s \in Slots :
      child[s] \in Live /\ proc[child[s]] = "up"
      => /\ s < desired
         /\ SHUTDOWN => child[s] \in unseen

\* The template knows every worker that lives: it is in exactly one slot (or being
\* stored), so none is forked over, and the template does not exit before all of them.
TemplateOutlivesWorkers ==
    /\ \A p \in Live : p = newborn \/ Cardinality({s \in Slots : child[s] = p}) = 1
    /\ pc = "exited" => Live = {}

\* The template knows its workers, and tells the ones it does not want any more.
WorkersAreKnown == TemplateOutlivesWorkers /\ SurplusIsTold

=============================================================================
