------------------------------- MODULE Routes -------------------------------
(***************************************************************************)
(* The per-route accounting table (crates/askr/src/routes.rs): fixed slots *)
(* in shared memory, claimed on first sight by a compare-and-swap of the   *)
(* tag, named, and then published; a route that finds no slot in its probe *)
(* window is counted in slot 0, "(other)".  The counters are atomic.       *)
(*                                                                         *)
(* A thread spins on a slot that is being claimed, a million times at      *)
(* most; that it stops spinning is possible at any moment (the claimer may *)
(* be descheduled, or killed between its claim and its publication).       *)
(***************************************************************************)
EXTENDS Naturals, FiniteSets, Functions

CONSTANTS
    Threads,
    Routes,
    Tag,          \* the tag of every route, above CLAIMING (tag_of)
    SLOTS,        \* slots, slot 0 included
    PROBES,       \* slots tried
    Bounds,       \* number of latency bounds
    None,
    MaxResponses  \* bound: responses recorded

VARIABLES
    slot,       \* the table
    thread,     \* per thread: the response it records
    seen,       \* history: per route, responses whose request counter was bumped
    gaveUp      \* history: somebody stopped spinning on a claim

vars == <<slot, thread, seen, gaveUp>>

EMPTY == 0
CLAIMING == 1
OtherTag == 2            \* the tag of slot 0; no route has it
Buckets == 1..(Bounds + 1)
Free == [pc |-> "free", route |-> None, probe |-> 0, at |-> 0, bucket |-> 1]

\* map_table
Init ==
    /\ slot = [i \in 0..(SLOTS - 1) |->
                 [tag |-> IF i = 0 THEN OtherTag ELSE EMPTY, name |-> None,
                  requests |-> 0, buckets |-> [b \in Buckets |-> 0]]]
    /\ thread = [t \in Threads |-> Free]
    /\ seen = [r \in Routes |-> 0]
    /\ gaveUp = FALSE

\* The slot a probe looks at: (start - 1 + i) % (SLOTS - 1) + 1.
ProbeSlot(r, i) == ((((Tag[r] % (SLOTS - 1)) + i) % (SLOTS - 1)) + 1)

Responses == FoldFunction(+, 0, seen) + Cardinality({t \in Threads : thread[t].pc \notin {"free", "bucket"}})

\* note_response: a finished response, and the bucket of its latency.
NoteResponse(t) ==
    /\ thread[t].pc = "free" /\ Responses < MaxResponses
    /\ \E r \in Routes, b \in Buckets :
         thread' = [thread EXCEPT ![t] = [pc |-> "load", route |-> r, probe |-> 0,
                                          at |-> ProbeSlot(r, 0), bucket |-> b]]
    /\ UNCHANGED <<slot, seen, gaveUp>>

\* The next slot of the window, or slot 0.
NextProbe(t) ==
    LET x == thread[t]
    IN thread' = [thread EXCEPT ![t] =
                    IF x.probe + 1 = PROBES THEN [x EXCEPT !.pc = "count", !.at = 0]
                    ELSE [x EXCEPT !.pc = "load", !.probe = @ + 1,
                                   !.at = ProbeSlot(x.route, x.probe + 1)]]

\* slot_for: the load.  A claim in progress is waited for.
SlotLoad(t) ==
    /\ thread[t].pc = "load"
    /\ LET tag == slot[thread[t].at].tag
       IN \/ tag = Tag[thread[t].route] /\ thread' = [thread EXCEPT ![t].pc = "count"]
          \/ tag = EMPTY /\ thread' = [thread EXCEPT ![t].pc = "claim"]
          \/ tag \notin {EMPTY, CLAIMING, Tag[thread[t].route]} /\ NextProbe(t)
    /\ UNCHANGED <<slot, seen, gaveUp>>

\* slot_for: the spin limit.
GiveUp(t) ==
    /\ thread[t].pc = "load" /\ slot[thread[t].at].tag = CLAIMING
    /\ NextProbe(t)
    /\ gaveUp' = TRUE
    /\ UNCHANGED <<slot, seen>>

\* slot_for: the swap; the loser looks at the slot again.
SlotClaim(t) ==
    /\ thread[t].pc = "claim"
    /\ IF slot[thread[t].at].tag = EMPTY
       THEN /\ slot' = [slot EXCEPT ![thread[t].at].tag = CLAIMING]
            /\ thread' = [thread EXCEPT ![t].pc = "name"]
       ELSE thread' = [thread EXCEPT ![t].pc = "load"] /\ UNCHANGED slot
    /\ UNCHANGED <<seen, gaveUp>>

\* write_name, and then the publication of the tag.
WriteName(t) ==
    /\ thread[t].pc = "name"
    /\ slot' = [slot EXCEPT ![thread[t].at].name = thread[t].route]
    /\ thread' = [thread EXCEPT ![t].pc = "publish"]
    /\ UNCHANGED <<seen, gaveUp>>

Publish(t) ==
    /\ thread[t].pc = "publish"
    /\ slot' = [slot EXCEPT ![thread[t].at].tag = Tag[thread[t].route]]
    /\ thread' = [thread EXCEPT ![t].pc = "count"]
    /\ UNCHANGED <<seen, gaveUp>>

\* record_in: the counters, the requests first and the bucket last.
Count(t) ==
    /\ thread[t].pc = "count"
    /\ slot' = [slot EXCEPT ![thread[t].at].requests = @ + 1]
    /\ seen' = [seen EXCEPT ![thread[t].route] = @ + 1]
    /\ thread' = [thread EXCEPT ![t].pc = "bucket"]
    /\ UNCHANGED gaveUp

CountBucket(t) ==
    /\ thread[t].pc = "bucket"
    /\ slot' = [slot EXCEPT ![thread[t].at].buckets[thread[t].bucket] = @ + 1]
    /\ thread' = [thread EXCEPT ![t] = Free]
    /\ UNCHANGED <<seen, gaveUp>>

\* A worker is killed while it records, and replaced.
Killed(t) ==
    /\ thread[t].pc # "free"
    /\ thread' = [thread EXCEPT ![t] = Free]
    /\ UNCHANGED <<slot, seen, gaveUp>>

Next == \E t \in Threads : \/ NoteResponse(t) \/ SlotLoad(t) \/ GiveUp(t) \/ SlotClaim(t)
                           \/ WriteName(t) \/ Publish(t) \/ Count(t) \/ CountBucket(t) \/ Killed(t)

Spec == Init /\ [][Next]_vars

-----------------------------------------------------------------------------
\* snapshot_of: the slots that are published and were hit.
snapshot_of == {i \in DOMAIN slot : slot[i].tag > CLAIMING /\ slot[i].requests > 0}

\* The table adds up: a route's responses are under its own name or under "(other)", never
\* under another route's, and none is counted twice or dropped.
RoutesAddUp ==
    /\ \A i \in snapshot_of : i > 0 => slot[i].name # None /\ slot[i].tag = Tag[slot[i].name]
    /\ FoldFunction(+, 0, [i \in DOMAIN slot |-> slot[i].requests]) = FoldFunction(+, 0, seen)
    /\ \A r \in Routes :
         FoldFunction(+, 0, [i \in {i \in DOMAIN slot : slot[i].tag = Tag[r]} |-> slot[i].requests])
         <= seen[r]

\* "Moving past a slot another thread is still naming is how one route got two slots": a
\* route has one slot, unless somebody stopped waiting for a claim.
OneSlotPerRoute ==
    ~gaveUp => \A i, j \in DOMAIN slot : slot[i].tag = slot[j].tag /\ slot[i].tag > CLAIMING => i = j

\* A route is counted in one place, and every response in it.
RoutesAreCounted == OneSlotPerRoute /\ RoutesAddUp

=============================================================================
