------------------------------ MODULE Coalesce ------------------------------
(***************************************************************************)
(* Request coalescing: the table of keys in flight that the workers share  *)
(* (rcache.rs: begin, is_inflight, end) and the way of a cacheable request *)
(* through it (server/mod.rs: handle; server/cache_policy.rs:              *)
(* spawn_swr_refresh, refresh_entry), from the lookup to the answer.       *)
(*                                                                         *)
(* The loads and stores of the table are steps of their own: requests of   *)
(* different workers interleave between them.  The cache is what a lookup  *)
(* of a key finds: nothing, a fresh entry, one that may be served stale,   *)
(* or one that may be served only when PHP fails.                          *)
(***************************************************************************)
EXTENDS Naturals, FiniteSets

CONSTANTS
    Requests,
    Keys,
    Wants,          \* per request, the keys it may ask for
    None,           \* key_hash = 0
    Slots,          \* INFLIGHT_SLOTS
    SlotOf,         \* per key, the slot of its hash
    COALESCE_TTL,
    COALESCE_WAIT,
    Lookups,        \* what the cache may hold at the start
    Faults,         \* what may happen to a request that leads: "reject", "cancel", "fail"
    LastArrival     \* bound: the time of the last request

ASSUME CoalesceAssumption ==
    /\ None \notin Keys /\ SlotOf \in [Keys -> Slots] /\ Wants \in [Requests -> SUBSET Keys]
    /\ COALESCE_WAIT \in Nat \ {0} /\ COALESCE_TTL \in Nat /\ COALESCE_WAIT <= COALESCE_TTL
    /\ LastArrival \in Nat /\ \A l \in Lookups : DOMAIN l = Keys
    /\ Faults \subseteq {"reject", "cancel", "fail"}

\* Bound: by then every deadline of the last requests has passed.
MaxTime == LastArrival + COALESCE_TTL

VARIABLES
    inflight,   \* per slot, key_hash and deadline
    cache,      \* per key, what a lookup finds
    saint,      \* has some worker been in saint mode
    clock,
    req,        \* per request, where it is and its local variables
    clean,      \* history: requests whose key had a settled leader ever since they looked
    owed        \* history: followers whose leader stored its response and cleared the slot

vars == <<inflight, cache, saint, clock, req, clean, owed>>

Free == [key_hash |-> None, deadline |-> 0]
Start == [pc |-> "new", key |-> None, now |-> 0, kh |-> None, until |-> 0,
          leader |-> FALSE, refresh |-> FALSE, stored |-> FALSE]

Init ==
    /\ inflight = [s \in Slots |-> Free]
    /\ cache \in Lookups
    /\ saint = FALSE /\ clock = 0
    /\ req = [r \in Requests |-> Start]
    /\ clean = {} /\ owed = {}

S(r) == SlotOf[req[r].key]
At(r, pc) == req[r].pc = pc
Moves(r, pc) ==
    req' = [req EXCEPT ![r] = [(IF pc = "done" THEN Start ELSE req[r]) EXCEPT !.pc = pc]]

\* The requests that lead a key, from the claim to the release.
Leads(r, k) == req[r].key = k /\ req[r].leader /\ req[r].pc # "done"
Beginning == {"check", "recheck", "cas", "lost"}
Claiming == {"stamp", "end", "clear", "free"}

\* One request leads k, its claim is complete and has not lapsed.
Settled(k) ==
    /\ inflight[SlotOf[k]].key_hash = k /\ inflight[SlotOf[k]].deadline > clock
    /\ \E r \in Requests : Leads(r, k) /\ \A q \in Requests : Leads(q, k) => q = r
    /\ \A r \in Requests : req[r].key = k => req[r].pc \notin Claiming

\* The history of a step that owes nobody anything new.
Record(r) ==
    /\ clean' = {q \in IF At(r, "load") THEN clean \cup {r} ELSE clean :
                   req'[q].pc \in Beginning /\ Settled(req[q].key)'}
    /\ owed' = {q \in owed : req'[q].pc \in {"wait", "peek"}}
-----------------------------------------------------------------------------
Looks(r, k, refresh) ==
    req' = [req EXCEPT ![r] = [Start EXCEPT !.pc = "load", !.key = k, !.refresh = refresh]]

\* A stale hit answers its request, which goes on as the refresh of the entry.
spawn_swr_refresh(r, k) == cache[k] = "stale" /\ Looks(r, k, TRUE)

\* The lookup: a hit answers, and so does a stale variant, which is not refreshed.  What
\* may be served only on failure answers in a worker that is in saint mode; in another
\* worker, or when the mode has ended, the request goes on.
Arrive(r, k) ==
    /\ At(r, "new") /\ clock <= LastArrival
    /\ \/ cache[k] \in {"fresh", "stale"} /\ Moves(r, "done")
       \/ spawn_swr_refresh(r, k)
       \/ cache[k] = "error" /\ saint /\ Moves(r, "done")
       \/ cache[k] \in {"none", "error"} /\ Looks(r, k, FALSE)
    /\ UNCHANGED <<inflight, cache, saint, clock>> /\ Record(r)

\* begin: the caller leads, or follows; a refresh that does not lead is not needed.
Leader(r) ==
    req' = [req EXCEPT ![r] = [Start EXCEPT !.pc = "work", !.key = req[r].key, !.leader = TRUE,
                                            !.refresh = req[r].refresh]]
Follower(r) ==
    IF req[r].refresh
    THEN Moves(r, "done")
    ELSE req' = [req EXCEPT ![r] = [Start EXCEPT !.pc = "wait", !.key = req[r].key,
                                                 !.until = clock + COALESCE_WAIT]]

BeginLoad(r) ==
    /\ At(r, "load")
    /\ req' = [req EXCEPT ![r].now = clock, ![r].kh = inflight[S(r)].key_hash,
                          ![r].pc = IF inflight[S(r)].key_hash = req[r].key
                                    THEN "check" ELSE "recheck"]
    /\ UNCHANGED <<inflight, cache, saint, clock>> /\ Record(r)

Live(s, now) == inflight[s].deadline > now

BeginCheck(r) ==
    /\ At(r, "check")
    /\ IF Live(S(r), req[r].now) THEN Follower(r) ELSE Moves(r, "recheck")
    /\ UNCHANGED <<inflight, cache, saint, clock>> /\ Record(r)

\* The second look at the deadline; a slot that is busy with another key is left alone.
BeginRecheck(r) ==
    /\ At(r, "recheck")
    /\ IF req[r].kh = None \/ ~Live(S(r), req[r].now) THEN Moves(r, "cas") ELSE Leader(r)
    /\ UNCHANGED <<inflight, cache, saint, clock>> /\ Record(r)

BeginCas(r) ==
    /\ At(r, "cas")
    /\ IF inflight[S(r)].key_hash = req[r].kh
       THEN /\ inflight' = [inflight EXCEPT ![S(r)].key_hash = req[r].key]
            /\ req' = [req EXCEPT ![r].pc = "stamp", ![r].leader = TRUE]
       ELSE Moves(r, "lost") /\ UNCHANGED inflight
    /\ UNCHANGED <<cache, saint, clock>> /\ Record(r)

BeginStamp(r) ==
    /\ At(r, "stamp")
    /\ inflight' = [inflight EXCEPT ![S(r)].deadline = req[r].now + COALESCE_TTL]
    /\ Leader(r)
    /\ UNCHANGED <<cache, saint, clock>> /\ Record(r)

BeginLost(r) ==
    /\ At(r, "lost")
    /\ IF inflight[S(r)].key_hash = req[r].key THEN Follower(r) ELSE Leader(r)
    /\ UNCHANGED <<inflight, cache, saint, clock>> /\ Record(r)
-----------------------------------------------------------------------------
\* A follower's loop: it looks while its time lasts, the last time after a sleep that may
\* end later, and reads the cache once when the key is no longer in flight.
is_inflight(r) == inflight[S(r)].key_hash = req[r].key /\ Live(S(r), clock)

\* Fault: the follower waits until the slot is cleared.
PollForever(r) ==
    /\ At(r, "wait")
    /\ inflight[S(r)].key_hash # req[r].key
    /\ Moves(r, "peek")
    /\ UNCHANGED <<inflight, cache, saint, clock>> /\ Record(r)

Poll(r) ==
    /\ At(r, "wait")
    /\ \/ clock >= req[r].until /\ Moves(r, "work")
       \/ ~is_inflight(r) /\ Moves(r, "peek")
    /\ UNCHANGED <<inflight, cache, saint, clock>> /\ Record(r)

Peek(r) ==
    /\ At(r, "peek")
    /\ Moves(r, IF cache[req[r].key] \in {"fresh", "stale"} THEN "done" ELSE "work")
    /\ UNCHANGED <<inflight, cache, saint, clock>> /\ Record(r)
-----------------------------------------------------------------------------
\* The answer: PHP runs, the response is stored if it may be, the key is released by
\* its leader.

\* Fault: the key is released first.
ReleaseFirst(r, pc) ==
    CASE pc = "work" -> IF req[r].leader THEN "end" ELSE "store"
      [] pc = "free" -> IF req[r].stored THEN "store" ELSE "done"
      [] OTHER -> "done"

\* The step after `pc`.
Then(r, pc) ==
    CASE pc = "work" -> "store"
      [] pc = "store" -> IF req[r].leader THEN "end" ELSE "done"
      [] OTHER -> "done"

\* The response may be cached; or it may not, or it was streamed.
Answers(r) ==
    /\ At(r, "work") /\ ~req[r].refresh
    /\ \/ req' = [req EXCEPT ![r].pc = Then(r, "work"), ![r].stored = TRUE]
       \/ Moves(r, Then(r, "store"))
    /\ UNCHANGED <<inflight, cache, saint, clock>> /\ Record(r)

\* PHP failed: the worker enters saint mode, a fallback may answer, and the way goes on.
Fails(r) ==
    /\ At(r, "work") /\ ~req[r].refresh /\ "fail" \in Faults
    /\ saint' = TRUE
    /\ Moves(r, Then(r, "store"))
    /\ UNCHANGED <<inflight, cache, clock>> /\ Record(r)

\* A refresh: what cannot be stored, a failure included, is dropped.
refresh_entry(r) ==
    /\ At(r, "work") /\ req[r].refresh
    /\ \/ req' = [req EXCEPT ![r].pc = Then(r, "work"), ![r].stored = TRUE, ![r].refresh = FALSE]
       \/ req' = [req EXCEPT ![r].pc = Then(r, "store"), ![r].refresh = FALSE]
    /\ UNCHANGED <<inflight, cache, saint, clock>> /\ Record(r)

\* An early return (the body is too large): nobody releases the key.
Rejects(r) ==
    /\ At(r, "work") /\ ~req[r].refresh /\ "reject" \in Faults
    /\ Moves(r, "done")
    /\ UNCHANGED <<inflight, cache, saint, clock>> /\ Record(r)

\* The client is gone and the request's future is dropped, or the worker dies, at any
\* step: a claim is left as it is.
Vanishes(r) ==
    /\ req[r].pc \notin {"new", "done"} /\ "cancel" \in Faults
    /\ Moves(r, "done")
    /\ UNCHANGED <<inflight, cache, saint, clock>> /\ Record(r)

maybe_store(r) ==
    /\ At(r, "store")
    /\ cache' = [cache EXCEPT ![req[r].key] = "fresh"]
    /\ Moves(r, Then(r, "store"))
    /\ UNCHANGED <<inflight, saint, clock>> /\ Record(r)

\* end: the slot is cleared only if it still names the key.
End(r) ==
    /\ At(r, "end")
    /\ Moves(r, IF inflight[S(r)].key_hash = req[r].key THEN "clear" ELSE Then(r, "free"))
    /\ UNCHANGED <<inflight, cache, saint, clock>> /\ Record(r)

EndClear(r) ==
    /\ At(r, "clear")
    /\ inflight' = [inflight EXCEPT ![S(r)].deadline = 0]
    /\ Moves(r, "free")
    /\ UNCHANGED <<cache, saint, clock>> /\ Record(r)

EndFree(r) ==
    /\ At(r, "free")
    /\ inflight' = [inflight EXCEPT ![S(r)].key_hash = None]
    /\ Moves(r, Then(r, "free"))
    /\ owed' = IF req[r].stored
               THEN owed \cup {q \in Requests : At(q, "wait") /\ req[q].key = req[r].key}
               ELSE owed
    /\ UNCHANGED <<cache, saint, clock>>
    /\ clean' = {q \in clean : Settled(req[q].key)'}
-----------------------------------------------------------------------------
\* The clock, which starts with the first request and waits for the last callers of begin.
\* Entries that are stored outlive the run.
Tick ==
    /\ clock < MaxTime /\ \E r \in Requests : ~At(r, "new")
    /\ clock < LastArrival \/ \A r \in Requests : req[r].pc \notin Beginning \cup {"load", "stamp"}
    /\ clock' = clock + 1
    /\ UNCHANGED <<inflight, cache, saint, req, owed>>
    /\ clean' = {q \in clean : Settled(req[q].key)'}

Begin(r) ==
    \/ BeginLoad(r) \/ BeginCheck(r) \/ BeginRecheck(r) \/ BeginCas(r) \/ BeginStamp(r)
    \/ BeginLost(r)

Step(r) ==
    \/ Begin(r) \/ Poll(r) \/ Peek(r)
    \/ Answers(r) \/ Fails(r) \/ refresh_entry(r) \/ maybe_store(r)
    \/ End(r) \/ EndClear(r) \/ EndFree(r)

Next ==
    \/ \E r \in Requests : (\E k \in Wants[r] : Arrive(r, k)) \/ Step(r) \/ Rejects(r) \/ Vanishes(r)
    \/ Tick

\* A request that can go on does, PHP included, and time passes; nobody has to vanish.
Fairness == WF_vars(Tick) /\ \A r \in Requests : WF_vars(Step(r))

Spec == Init /\ [][Next]_vars /\ Fairness
-----------------------------------------------------------------------------
\* While one leader holds a complete claim that has not lapsed, a caller that comes
\* meanwhile follows it (begin): no second PHP run for the key.
NoSecondLeader ==
    \A r \in clean : ~(~req[r].leader /\ req'[r].leader)

\* A follower that waited for its leader finds the response the leader stored
\* (handle stores before it releases the key).
NoHungryFollower ==
    \A r \in owed : At(r, "peek") /\ ~At(r, "peek")' => At(r, "done")'

\* Requests for a page that one request renders wait for it and share what it stored.
FollowersAreFed == [][NoSecondLeader /\ NoHungryFollower]_vars

\* Every request is answered: no follower waits for a leader that vanished, a refresh
\* that was rejected or a slot that went to another key (the loop in handle).
EveryRequestIsAnswered ==
    []<>(\A r \in Requests : At(r, "new") \/ At(r, "done"))

=============================================================================
