------------------------------- MODULE MCQueue --------------------------------
(***************************************************************************)
(* The two back ends of the job queue for TLC.  They do not run together:  *)
(* part says which of them moves.                                          *)
(*                                                                         *)
(* The ring has two slots, two workers of the application that owns the    *)
(* queue and one of another application, which can only present tokens.    *)
(* All three together are too many for jobs enough to fill the ring, so    *)
(* that one of two bounds holds:                                           *)
(*                                                                         *)
(*   fence  at most two push calls, and the owners' calls do not overlap,  *)
(*   ring   or the other application's worker stays out;                   *)
(*   sql    the table, with two workers and two queues.                    *)
(***************************************************************************)
EXTENDS SQueue, SqlQueue, TLC

CONSTANTS w1, w2, w3, q1, q2, appA, appB

VARIABLE part

MCWorkerApp == [w \in Workers |-> IF w = w3 THEN appB ELSE appA]
MCAppOf == [q \in {q1} |-> appA]

MCInit == Init /\ SqlInit /\ part \in {"fence", "ring", "sql"}

Act(w) == \/ Push(w) \/ Pop(w) \/ Release(w) \/ Crash(w)
          \/ \E lease \in 1 .. MaxLease : Delete(w, lease)

MCNext ==
    \/ /\ \/ /\ part = "fence"
             /\ \E w \in Workers : Act(w)
             /\ nextId' <= 2 /\ "idle" \in {op'[w].pc : w \in {w1, w2}}
          \/ part = "ring" /\ \E w \in {w1, w2} : Act(w)
          \/ part # "sql" /\ Tick
       /\ UNCHANGED <<part, sqlVars>>
    \/ part = "sql" /\ SqlNext /\ UNCHANGED <<part, vars>>

MCSpec == MCInit /\ [][MCNext]_<<part, vars, sqlVars>>

WorkerSymmetry == Permutations({w1, w2})

=============================================================================
