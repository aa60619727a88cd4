------------------------------ MODULE SqlCache ------------------------------
(***************************************************************************)
(* The durable cache (crates/askr/src/cache_sql.rs): one database for all  *)
(* boxes, with the shared-memory cache of each box in front of it.  Every  *)
(* operation runs one statement on the database and then, in a second      *)
(* step, fills or clears the front; a read tries the front first.          *)
(*                                                                         *)
(* One key name is enough: it is another row for every application that    *)
(* has an app_id (ns::l2_key) and one shared row for all that have none,   *)
(* while the fronts keep it apart for each application.  A front is atomic *)
(* here; its slots and locks are module KvCache.  Without a front the      *)
(* statement is all there is to an operation.                              *)
(***************************************************************************)
EXTENDS Integers, FiniteSets

CONSTANTS
    Procs, Boxes, None,
    Apps, Named,      \* the applications, and those that have an app_id
    Shared,           \* the row of the applications that have none
    Values, Ttls,     \* what is written, and for how long; 0: for ever
    Deaths,           \* whether workers may die
    MaxTime,          \* bound: the clock
    MaxOps            \* bound: operations

VARIABLES
    box,              \* per process: where it runs
    clock,
    row,              \* askr_cache: per row, the value and expires_at (0: NULL)
    tagged,           \* askr_cache_tags: the rows that have the tag
    front,            \* per box and application: the entry of the L1 cache
    proc,             \* per process: the operation it is in
    lock,             \* history: per row, the last add that acquired it
    ops               \* history: operations so far

vars == <<box, clock, row, tagged, front, proc, lock, ops>>

Rows == Named \cup {Shared}

\* ns::l2_key and the key of the front.
l2_key(app) == IF app \in Named THEN app ELSE Shared

Expiry(ttl) == IF ttl > 0 THEN clock + ttl ELSE 0

\* The view askr_cache_live, and the same test in the front.
Live(e) == e # None /\ (e.exp = 0 \/ e.exp > clock)

-----------------------------------------------------------------------------
\* The statements: a row after it, or what a query answers.
do_get(r) == IF Live(r) THEN r.val ELSE None

do_get_with_ttl(r) ==
    [val |-> r.val, ttl |-> IF r.exp = 0 THEN 0 ELSE IF r.exp - clock > 1 THEN r.exp - clock ELSE 1]

do_delete(r) == None

do_set(r, v, ttl) == [val |-> v, exp |-> Expiry(ttl)]

do_add(r, v, ttl) ==
    IF Live(r) THEN [acquired |-> FALSE, row |-> r]
    ELSE [acquired |-> TRUE, row |-> [val |-> v, exp |-> Expiry(ttl)]]

\* A row that expired counts from 0 and keeps its old expires_at.
do_increment(r, delta, ttl) ==
    IF r = None THEN [val |-> delta, exp |-> Expiry(ttl)]
    ELSE [r EXCEPT !.val = (IF Live(r) THEN r.val ELSE 0) + delta]

do_touch(r, ttl) == IF Live(r) THEN [r EXCEPT !.exp = Expiry(ttl)] ELSE r

\* do_flush and do_flush_prefix: the rows an application's flush empties.
Flushed(app) == IF app \in Named THEN {app} ELSE Rows

-----------------------------------------------------------------------------
Idle(p) == proc[p] = None

\* The rows K are now new: an entry of a front that another application or box filled
\* from them is out of date, and so is whatever another process still has to write.
Statement(p, app, K, new, then) ==
    /\ row' = [k \in Rows |-> IF k \in K THEN new[k] ELSE row[k]]
    /\ front' = [b \in Boxes |-> [a \in Apps |->
         LET e == front[b][a]
         IN IF e # None /\ l2_key(a) \in K /\ <<b, a>> # <<box[p], app>>
            THEN [e EXCEPT !.ok = FALSE] ELSE e]]
    /\ proc' = [q \in Procs |->
         IF q = p THEN then
         ELSE IF proc[q] # None /\ l2_key(proc[q].app) \in K
         THEN [proc[q] EXCEPT !.late = TRUE] ELSE proc[q]]

Write(p, app, new, then) == Statement(p, app, {l2_key(app)}, [k \in {l2_key(app)} |-> new], then)

\* What is left to do on the front.
Fill(app, v, ttl) == [pc |-> "fill", app |-> app, val |-> v, ttl |-> ttl, late |-> FALSE]
Clear(app) == [pc |-> "clear", app |-> app, val |-> None, ttl |-> 0, late |-> FALSE]
\* Fault: a counter stays in the front.
KeepFront(app) == None
Invalidate(app) == Clear(app)

Start(p) == Idle(p) /\ ops < MaxOps /\ ops' = ops + 1

\* get: a hit in the front is the answer; a miss goes to the database.
Get(p) ==
    /\ Start(p)
    /\ \E app \in Apps :
         /\ ~Live(front[box[p]][app])
         /\ proc' = [proc EXCEPT ![p] = [Clear(app) EXCEPT !.pc = "read"]]
    /\ UNCHANGED <<box, clock, row, tagged, front, lock>>

\* The row is read, and the front is to have it for as long as it still lives; a row
\* that is not there, or a query that failed, is a miss.
Read(p) ==
    LET f == proc[p]
        r == row[l2_key(f.app)]
    IN /\ f # None /\ f.pc = "read"
       /\ \/ /\ do_get(r) # None
             /\ proc' = [proc EXCEPT ![p] = Fill(f.app, do_get_with_ttl(r).val, do_get_with_ttl(r).ttl)]
          \/ proc' = [proc EXCEPT ![p] = None]
       /\ UNCHANGED <<box, clock, row, tagged, front, lock, ops>>

\* set: a failed statement leaves the front alone.
Set(p) ==
    /\ Start(p)
    /\ \E app \in Apps, v \in Values, ttl \in Ttls :
         /\ Write(p, app, do_set(row[l2_key(app)], v, ttl), Fill(app, v, ttl))
         /\ lock' = [lock EXCEPT ![l2_key(app)] = None]
    /\ UNCHANGED <<box, clock, tagged>>

\* add: when the key is held the front is cleared, so that it does not mask the value.
Add(p) ==
    /\ Start(p)
    /\ \E app \in Apps, v \in Values, ttl \in Ttls :
         LET k == l2_key(app)
             added == do_add(row[k], v, ttl)
         IN IF added.acquired
            THEN /\ Write(p, app, added.row, Fill(app, v, ttl))
                 /\ lock' = [lock EXCEPT ![k] = [by |-> p, exp |-> Expiry(ttl), again |-> Live(lock[k])]]
            ELSE /\ proc' = [proc EXCEPT ![p] = Clear(app)]
                 /\ UNCHANGED <<row, front, lock>>
    /\ UNCHANGED <<box, clock, tagged>>

Delete(p) ==
    /\ Start(p)
    /\ \E app \in Apps :
         /\ Write(p, app, do_delete(row[l2_key(app)]), Clear(app))
         /\ lock' = [lock EXCEPT ![l2_key(app)] = None]
    /\ UNCHANGED <<box, clock, tagged>>

Increment(p) ==
    /\ Start(p)
    /\ \E app \in Apps, ttl \in Ttls :
         /\ Write(p, app, do_increment(row[l2_key(app)], 1, ttl), Invalidate(app))
         /\ lock' = [lock EXCEPT ![l2_key(app)] = None]
    /\ UNCHANGED <<box, clock, tagged>>

Touch(p) ==
    /\ Start(p)
    /\ \E app \in Apps, ttl \in Ttls :
         LET k == l2_key(app)
         IN /\ Write(p, app, do_touch(row[k], ttl), Clear(app))
            /\ lock' = [lock EXCEPT ![k] = IF Live(lock[k]) /\ Live(row[k])
                                           THEN [@ EXCEPT !.exp = Expiry(ttl)] ELSE @]
    /\ UNCHANGED <<box, clock, tagged>>

\* delete, increment, touch and add whose statement failed: the front is cleared all
\* the same.
Failed(p) ==
    /\ Start(p)
    /\ \E app \in Apps : proc' = [proc EXCEPT ![p] = Clear(app)]
    /\ UNCHANGED <<box, clock, row, tagged, front, lock>>

\* flush: an application with an app_id empties its rows and their tags, any other one
\* empties the tables.
Flush(p) ==
    /\ Start(p)
    /\ \E app \in Apps :
         /\ Statement(p, app, Flushed(app), [k \in Flushed(app) |-> None], Clear(app))
         /\ tagged' = tagged \ Flushed(app)
         /\ lock' = [k \in Rows |-> IF k \in Flushed(app) THEN None ELSE lock[k]]
    /\ UNCHANGED <<box, clock>>

\* forget_tag: the rows first, then the tag, then the front of the caller.
ForgetTag(p) ==
    /\ Start(p)
    /\ \E app \in Apps :
         /\ Statement(p, app, tagged, [k \in tagged |-> None], [Clear(app) EXCEPT !.pc = "untag"])
         /\ lock' = [k \in Rows |-> IF k \in tagged THEN None ELSE lock[k]]
    /\ UNCHANGED <<box, clock, tagged>>

Untag(p) ==
    /\ ~Idle(p) /\ proc[p].pc = "untag"
    /\ tagged' = {}
    /\ proc' = [proc EXCEPT ![p].pc = "clear"]
    /\ UNCHANGED <<box, clock, row, front, lock, ops>>

\* Another client of the database tags a row; nothing in Askr writes that table.
Tag ==
    /\ \E k \in Rows \ tagged : row[k] # None /\ tagged' = tagged \cup {k}
    /\ ops < MaxOps /\ ops' = ops + 1
    /\ UNCHANGED <<box, clock, row, front, proc, lock>>

\* The second half of an operation: cache::set, cache::delete or flush_app on the front.
Front(p) ==
    LET f == proc[p]
    IN /\ ~Idle(p) /\ f.pc \in {"fill", "clear"}
       /\ front' = [front EXCEPT ![box[p]][f.app] =
            IF f.pc = "clear" THEN None
            ELSE [val |-> f.val, exp |-> Expiry(f.ttl), ok |-> ~f.late]]
       /\ proc' = [proc EXCEPT ![p] = None]
       /\ UNCHANGED <<box, clock, row, tagged, lock, ops>>

\* The worker dies between the two halves.
Die(p) ==
    /\ Deaths /\ ~Idle(p)
    /\ front' = [front EXCEPT ![box[p]][proc[p].app] = IF @ = None THEN @ ELSE [@ EXCEPT !.ok = FALSE]]
    /\ proc' = [proc EXCEPT ![p] = None]
    /\ UNCHANGED <<box, clock, row, tagged, lock, ops>>

Tick ==
    /\ clock < MaxTime
    /\ clock' = clock + 1
    /\ proc' = [p \in Procs |-> IF proc[p] # None THEN [proc[p] EXCEPT !.late = TRUE] ELSE None]
    /\ UNCHANGED <<box, row, tagged, front, lock, ops>>

Init ==
    /\ box \in [Procs -> Boxes]
    /\ clock = 0
    /\ row = [k \in Rows |-> None]
    /\ tagged = {}
    /\ front = [b \in Boxes |-> [a \in Apps |-> None]]
    /\ proc = [p \in Procs |-> None]
    /\ lock = [k \in Rows |-> None]
    /\ ops = 0

Next ==
    \/ Tick \/ Tag
    \/ \E p \in Procs :
         \/ Get(p) \/ Read(p) \/ Set(p) \/ Add(p) \/ Delete(p) \/ Increment(p) \/ Touch(p)
         \/ Failed(p) \/ Flush(p) \/ ForgetTag(p) \/ Untag(p) \/ Front(p) \/ Die(p)

Spec == Init /\ [][Next]_vars

-----------------------------------------------------------------------------
\* Nobody is in an operation on this entry.
Quiet(b, a) == \A p \in Procs : ~Idle(p) => <<box[p], proc[p].app>> # <<b, a>>

\* What the front serves is what the database holds, value and lifetime, unless the row
\* was changed from another box or by an application that shares it, or the entry was
\* written by an operation that others overtook or that died: set, add, increment,
\* touch, delete, flush and forget_tag all leave the front in step.
FrontFollowsTheDatabase ==
    \A b \in Boxes, a \in Apps :
      LET e == front[b][a]
          r == row[l2_key(a)]
      IN Live(e) /\ e.ok /\ Quiet(b, a) => Live(r) /\ r.val = e.val /\ r.exp = e.exp

\* A lock taken with add on the database is nobody else's until it expires, is deleted
\* or overwritten, on every box.
LocksAreExclusive == \A k \in Rows : lock[k] # None => ~lock[k].again

\* The boxes agree on what the database holds and on who holds a lock.
BoxesAgree == FrontFollowsTheDatabase /\ LocksAreExclusive

=============================================================================
