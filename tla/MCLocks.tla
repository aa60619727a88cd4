------------------------------ MODULE MCLocks -------------------------------
(***************************************************************************)
(* The lock word of squeue.rs and the cache's sequence lock, for TLC.  The *)
(* two do not interact: part says which of them moves.                     *)
(*                                                                         *)
(* The lock: the master, a worker with two threads, a second worker, and a *)
(* process that may come up with the pid of the first: a respawned worker  *)
(* or, if its thread never asks for the lock, a stranger.  The sequence    *)
(* lock: a slot of two words with two writers and one reader; readers      *)
(* change nothing, so that more of them add nothing.                       *)
(***************************************************************************)
EXTENDS ShmLock, Seqlock

CONSTANTS master, worker, peer, heir, m, a, b, c, d, w1, w2, r1

VARIABLE part

MCProcOf == [t \in Threads |-> CASE t = m -> master
                                 [] t \in {a, b} -> worker
                                 [] t = c -> peer
                                 [] t = d -> heir]
MCPidOf == [p \in Procs |-> CASE p = master -> 1
                              [] p = peer -> 3
                              [] OTHER -> 2]

allVars == <<part, lockVars, seqVars>>

\* The component that does not move stays in one of its initial states.
MCInit ==
    /\ part \in {"lock", "seqlock"}
    /\ LockInit /\ SeqInit
    /\ part = "lock" => slot = [i \in Words |-> 1]
    /\ part = "seqlock" => \A p \in Procs : state[p] = "run" <=> p = Master

MCNext ==
    \/ part = "lock" /\ LockNext /\ UNCHANGED <<part, seqVars>>
    \/ part = "seqlock" /\ SeqNext /\ UNCHANGED <<part, lockVars>>

MCSpec == MCInit /\ [][MCNext]_allVars /\ LockFairness /\ SeqFairness

-----------------------------------------------------------------------------
\* Nobody waits at a slot for ever: a lock whose owner died is taken over, and every
\* get of the cache leaves the slot (shm.rs, cache.rs).
WaitsEnd == NoWedge /\ ReadsEnd

=============================================================================
