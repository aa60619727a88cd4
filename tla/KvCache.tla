------------------------------ MODULE KvCache -------------------------------
(***************************************************************************)
(* The key-value cache that the workers share (crates/askr/src/cache.rs):  *)
(* two open-addressing tables, one per size class, probed one slot lock at *)
(* a time.                                                                 *)
(*                                                                         *)
(* One action is one critical section under one slot lock, or one          *)
(* validated lock-free read of a slot (module Seqlock).  Between them      *)
(* other workers run, so what an operation learnt from earlier slots may   *)
(* be stale.  Values are the number they parse to, or Big for one that     *)
(* only the large class holds; the time stamps that choose the oldest      *)
(* victim are left open: any live slot of the window may be the oldest.    *)
(***************************************************************************)
EXTENDS Naturals, FiniteSets

CONSTANTS
    Workers,
    Keys,
    AppOf,      \* the application whose prefix a key carries
    N,          \* per class, the number of slots
    Probe,      \* PROBE
    Home,       \* per class and key, the slot of its hash
    Top,        \* i64::MAX
    Big,        \* a value above VAL_SMALL
    Requests,   \* what the workers ask for: call, key, val and ttl (seconds;
                \* 0 is forever); the val matters to set and add only
    Presets,    \* what the small class may hold at the start
    MaxTime,    \* bound: the clock
    MaxCalls    \* bound: operations in all

Classes == {"small", "large"}
Apps == {AppOf[k] : k \in Keys}
Slots(c) == 0 .. N[c] - 1

ASSUME KvAssumption ==
    /\ N \in [Classes -> Nat \ {0}]
    /\ Probe \in Nat \ {0}
    /\ \A c \in Classes : Home[c] \in [Keys -> Slots(c)]
    /\ Top \in Nat \ {0} /\ Big \notin Nat
    /\ MaxTime \in Nat /\ MaxCalls \in Nat
    /\ Requests \subseteq [call: {"get", "set", "add", "delete", "touch", "flush", "increment"},
                          key: Keys, val: Nat \cup {Big}, ttl: Nat]

VARIABLES
    table,      \* per class, the slots
    op,         \* per worker, the operation in progress
    clock,      \* unix seconds
    calls,      \* operations issued
    steady,     \* history: per worker, slots that held its key all through
    dirty,      \* history: per worker, keys written while its call runs
    gone,       \* history: keys deleted and not written since
    total,      \* history: per key, what its writes add up to
    disturbed   \* history: some live slot was freed or given another key,
                \* or a big value was set

world == <<clock, calls>>
history == <<steady, dirty, gone, total, disturbed>>
vars == <<table, op, world, history>>

-----------------------------------------------------------------------------
None == "none"
NoSlot == N["small"] + N["large"]

Empty == [state |-> "empty", key |-> None, val |-> 0, exp |-> 0]

\* Fault: a removed slot ends the probe chains that run through it.
TombstoneEmpty == Empty

\* A removed slot is no end of the probe chains that run through it.
Tombstone == [state |-> "dead", key |-> None, val |-> 0, exp |-> 0]
Live(k, v, x) == [state |-> "live", key |-> k, val |-> v, exp |-> x]

Matches(e, k) == e.state = "live" /\ e.key = k
Expired(e, now) == e.exp # 0 /\ e.exp < now
Deadline(now, ttl) == IF ttl > 0 THEN now + ttl ELSE 0

\* What a stored value parses to; a value that is no number counts as 0.
Number(v) == IF v = Big THEN 0 ELSE v
SatAdd(a, b) == IF a + b > Top THEN Top ELSE a + b

Class(v) == IF v = Big THEN "large" ELSE "small"
Other(c) == IF c = "small" THEN "large" ELSE "small"

\* The i-th slot of the window of key k.  A stored key is found from its home slot
\* without passing an empty one.
Pos(c, k, i) == (Home[c][k] + i) % N[c]

Chained(t, c) ==
    \A s \in Slots(c) : t[s].state = "live" =>
        \E j \in 0 .. Probe - 1 :
            /\ s = Pos(c, t[s].key, j)
            /\ \A m \in 0 .. j - 1 : t[Pos(c, t[s].key, m)].state # "empty"

Cell == [state: {"empty", "dead", "live"}, key: Keys \cup {None}, val: Nat \cup {Big}, exp: Nat]

\* The table as earlier calls may have left it.
ASSUME PresetsAssumption ==
    \A small \in Presets :
        /\ small \in [Slots("small") -> Cell]
        /\ \A s \in Slots("small") : small[s].state = "live" => small[s].key \in Keys
        /\ Chained(small, "small")

Idle == [call |-> None]

\* The slot an operation looks at.
At(o) == IF o.fn = "flush" THEN o.i ELSE Pos(o.class, o.key, o.i)
Seen(w) == table[op[w].class][At(op[w])]

\* A call of function fn on one class: probing starts at the home slot.
Enter(o, class, fn) ==
    [o EXCEPT !.class = class, !.fn = fn, !.pc = "probe", !.i = 0, !.now = clock,
              !.reuse = NoSlot, !.stale = NoSlot, !.live = {}]

\* What the public function does with the answer of a class.
Then(o, found) ==
    CASE o.call = "get" /\ o.class = "small" /\ ~found -> Enter(o, "large", "get")
      [] o.call = "set" /\ o.fn = "delete" -> Enter(o, Class(o.val), "set")
      [] o.call = "add" /\ o.fn = "get" /\ ~found -> Enter(o, "small", "add")
      [] o.call = "delete" /\ o.class = "small" -> Enter(o, "large", "delete")
      [] o.call = "touch" /\ o.class = "small" /\ ~found -> Enter(o, "large", "touch")
      [] o.call = "flush" /\ o.class = "small" -> Enter(o, "large", "flush")
      [] OTHER -> Idle

\* The first region call of an operation.
First(o) ==
    CASE o.call = "set" -> Enter(o, Other(Class(o.val)), "delete")
      [] o.call = "add" -> Enter(o, "large", "get")
      [] OTHER -> Enter(o, "small", o.call)

Last(o) == IF o.fn = "flush" THEN N[o.class] - 1 ELSE Probe - 1

\* The next slot of the window, or what follows the last one.
Advance(o, after) == IF o.i < Last(o) THEN [o EXCEPT !.i = o.i + 1] ELSE after

-----------------------------------------------------------------------------
\* The keys a call writes, and the ones it is to remove.
Writes(o) == IF o.call \in {"set", "add", "increment"} THEN {o.key} ELSE {}
Clears(o) == CASE o.call = "delete" -> {o.key}
               [] o.call = "flush" -> {k \in Keys : AppOf[k] = o.app}
               [] OTHER -> {}

Busy == {w \in Workers : op[w] # Idle}

Holds(c, s, k, now) == Matches(table[c][s], k) /\ ~Expired(table[c][s], now)
Places == {p \in Classes \X (0 .. NoSlot) : p[2] \in Slots(p[1])}
Copies(k) == {p \in Places : Holds(p[1], p[2], k, clock)}

\* The histories that a step of w moves: its call ends when op'[w] is Idle.
Record(w) ==
    /\ steady' = [v \in Workers |->
         IF op'[v] = Idle \/ op'[v].pc = "reclaim" THEN {}
         ELSE {p \in steady[v] : Holds(p[1], p[2], op[v].key, clock)'}]
    /\ gone' = gone \cup (IF op'[w] = Idle THEN Clears(op[w]) \ dirty[w] ELSE {})
    /\ dirty' = IF op'[w] = Idle THEN [dirty EXCEPT ![w] = {}] ELSE dirty
    /\ disturbed' = (disturbed \/ \E p \in Places :
         LET old == table[p[1]][p[2]]
         IN old.state = "live" /\ ~Matches(table'[p[1]][p[2]], old.key))

\* A step that leaves the tables alone.
Look(w, next) ==
    /\ op' = [op EXCEPT ![w] = next]
    /\ UNCHANGED <<table, world, total>>
    /\ Record(w)

\* A step that stores e into slot s.
Put(w, s, e, next, sum) ==
    /\ op' = [op EXCEPT ![w] = next]
    /\ table' = [table EXCEPT ![op[w].class][s] = e]
    /\ total' = sum
    /\ UNCHANGED world
    /\ Record(w)

-----------------------------------------------------------------------------
\* A worker calls a public function.
Start(w) ==
    /\ op[w] = Idle
    /\ calls < MaxCalls
    /\ \E q \in Requests :
         LET o == [call |-> q.call, key |-> q.key, app |-> AppOf[q.key],
                   val |-> q.val, ttl |-> q.ttl, class |-> "small",
                   fn |-> q.call, pc |-> "probe", i |-> 0, now |-> clock,
                   reuse |-> NoSlot, stale |-> NoSlot, live |-> {}]
         IN /\ op' = [op EXCEPT ![w] = First(o)]
            /\ steady' = [steady EXCEPT ![w] =
                            IF q.call = "get" THEN Copies(q.key) ELSE {}]
            /\ dirty' = [u \in Workers |->
                 IF u = w THEN UNION {Writes(op[x]) : x \in Busy}
                 ELSE dirty[u] \cup (IF u \in Busy THEN Writes(o) ELSE {})]
            /\ gone' = gone \ Writes(o)
            /\ disturbed' = (disturbed \/ q.val = Big)
    /\ calls' = calls + 1
    /\ UNCHANGED <<table, clock, total>>

\* get, one slot: the read is one that the version counter validated.
GetSlot(w) ==
    LET o == op[w]
        e == Seen(w)
    IN /\ o.fn = "get" /\ o.pc = "probe"
       /\ Look(w, CASE e.state = "empty" -> Then(o, FALSE)
                    [] Matches(e, o.key) /\ ~Expired(e, o.now) -> Then(o, TRUE)
                    [] Matches(e, o.key) /\ Expired(e, o.now) ->
                         [o EXCEPT !.pc = "reclaim"]
                    [] OTHER -> Advance(o, Then(o, FALSE)))

StillExpired(e, o) == Matches(e, o.key) /\ Expired(e, o.now)

\* The expired slot is removed, if the lock finds it still expired.
Reclaim(w) ==
    LET o == op[w]
    IN /\ o.fn = "get" /\ o.pc = "reclaim"
       /\ IF StillExpired(Seen(w), o)
          THEN Put(w, At(o), Tombstone, Then(o, FALSE), total)
          ELSE Look(w, Then(o, FALSE))

\* The entry that set and add store.
Entry(o) == Live(o.key, o.val, Deadline(o.now, o.ttl))
Sum(o) == [total EXCEPT ![o.key] = Number(o.val)]

\* The first free slot of the window is remembered.
Free(o) == [o EXCEPT !.reuse = IF o.reuse = NoSlot THEN At(o) ELSE o.reuse]
ToInsert(o) == [o EXCEPT !.pc = "insert"]

\* A live slot of another key: a victim, best one whose entry has expired.
Candidate(o, e) ==
    [o EXCEPT !.live = o.live \cup {At(o)},
              !.stale = IF Expired(e, o.now) /\ o.stale = NoSlot THEN At(o) ELSE o.stale]

SetProbe(w) ==
    LET o == op[w]
        e == Seen(w)
    IN /\ o.fn = "set" /\ o.pc = "probe"
       /\ IF Matches(e, o.key)
          THEN Put(w, At(o), Entry(o), Then(o, TRUE), Sum(o))
          ELSE Look(w, CASE e.state = "empty" -> ToInsert(Free(o))
                         [] e.state = "dead" -> Advance(Free(o), ToInsert(Free(o)))
                         [] e.state = "live" ->
                              Advance(Candidate(o, e), ToInsert(Candidate(o, e))))

Targets(o) == IF o.reuse # NoSlot THEN {o.reuse}
              ELSE IF o.stale # NoSlot THEN {o.stale} ELSE o.live

\* The write does not look again at what the slot holds now.
SetInsert(w) ==
    LET o == op[w]
    IN /\ o.fn = "set" /\ o.pc = "insert"
       /\ \E t \in Targets(o) :
            Put(w, t, Entry(o), [o EXCEPT !.pc = "sweep", !.i = 0, !.reuse = t,
                                          !.stale = NoSlot, !.live = {}], Sum(o))

\* tombstone_others: the other copies of the key go.
Sweep(w) ==
    LET o == op[w]
        e == Seen(w)
    IN /\ o.fn = "set" /\ o.pc = "sweep"
       /\ IF At(o) # o.reuse /\ Matches(e, o.key)
          THEN Put(w, At(o), Tombstone, Advance(o, Then(o, TRUE)), total)
          ELSE Look(w, IF At(o) # o.reuse /\ e.state = "empty" THEN Then(o, TRUE)
                       ELSE Advance(o, Then(o, TRUE)))

AddProbe(w) ==
    LET o == op[w]
        e == Seen(w)
    IN /\ o.fn = "add" /\ o.pc = "probe"
       /\ IF Matches(e, o.key) /\ Expired(e, o.now)
          THEN Put(w, At(o), Entry(o), Then(o, TRUE), Sum(o))
          ELSE Look(w, CASE Matches(e, o.key) -> Then(o, FALSE)
                         [] e.state = "empty" -> ToInsert(Free(o))
                         [] e.state = "dead" -> Advance(Free(o), ToInsert(Free(o)))
                         [] OTHER -> Advance(o, IF o.reuse = NoSlot THEN Then(o, FALSE)
                                                ELSE ToInsert(o)))

\* What add asks of the slot it chose, again under its lock.
MayInsert(e, now) == e.state # "live" \/ Expired(e, now)

AddInsert(w) ==
    LET o == op[w]
    IN /\ o.fn = "add" /\ o.pc = "insert"
       /\ IF MayInsert(table[o.class][o.reuse], o.now)
          THEN Put(w, o.reuse, Entry(o), Then(o, TRUE), Sum(o))
          ELSE Look(w, Then(o, FALSE))

\* Fault: delete is done with the first copy it finds.
AfterDeleteFirst(o) == Then(o, TRUE)

\* delete goes on to the end of the window: racing sets may leave two copies.
AfterDelete(o) == Advance(o, Then(o, TRUE))

DeleteSlot(w) ==
    LET o == op[w]
        e == Seen(w)
    IN /\ o.fn = "delete"
       /\ IF Matches(e, o.key)
          THEN Put(w, At(o), Tombstone, AfterDelete(o), total)
          ELSE Look(w, IF e.state = "empty" THEN Then(o, TRUE)
                       ELSE Advance(o, Then(o, TRUE)))

TouchSlot(w) ==
    LET o == op[w]
        e == Seen(w)
    IN /\ o.fn = "touch"
       /\ IF Matches(e, o.key)
          THEN IF Expired(e, o.now)
               THEN Put(w, At(o), Tombstone, Then(o, FALSE), total)
               ELSE Put(w, At(o), Live(o.key, e.val, Deadline(o.now, o.ttl)),
                        Then(o, TRUE), total)
          ELSE Look(w, IF e.state = "empty" THEN Then(o, FALSE)
                       ELSE Advance(o, Then(o, FALSE)))

\* One more than the counter: a live one keeps its deadline.
\* Fault: a counter that expired goes on counting.
BumpedExpired(o, e) ==
    IF Matches(e, o.key)
    THEN Live(o.key, SatAdd(Number(e.val), 1), e.exp)
    ELSE Live(o.key, 1, Deadline(o.now, o.ttl))

Bumped(o, e) ==
    IF Matches(e, o.key) /\ ~Expired(e, o.now)
    THEN Live(o.key, SatAdd(Number(e.val), 1), e.exp)
    ELSE Live(o.key, 1, Deadline(o.now, o.ttl))

\* One more than all the increments of a counter that has not expired.
Counted(o) ==
    [total EXCEPT ![o.key] =
       SatAdd(IF \E p \in Places : Holds(p[1], p[2], o.key, o.now)
              THEN total[o.key] ELSE 0, 1)]

IncrementProbe(w) ==
    LET o == op[w]
        e == Seen(w)
    IN /\ o.fn = "increment" /\ o.pc = "probe"
       /\ IF Matches(e, o.key)
          THEN Put(w, At(o), Bumped(o, e), Then(o, TRUE), Counted(o))
          ELSE Look(w, CASE e.state = "empty" -> ToInsert(Free(o))
                         [] e.state = "dead" -> Advance(Free(o), ToInsert(Free(o)))
                         [] OTHER -> Advance(o, IF o.reuse = NoSlot THEN Then(o, FALSE)
                                                ELSE ToInsert(o)))

\* What increment stores into the free slot it chose.  A counter that appeared
\* meanwhile is bumped; another key that did is overwritten.
Created(o, e) == Bumped(o, e)

IncrementCreate(w) ==
    LET o == op[w]
    IN /\ o.fn = "increment" /\ o.pc = "insert"
       /\ Put(w, o.reuse, Created(o, table[o.class][o.reuse]), Then(o, TRUE),
              Counted(o))

\* flush_prefix, one slot.
FlushSlot(w) ==
    LET o == op[w]
        e == Seen(w)
    IN /\ o.fn = "flush"
       /\ IF e.state = "live" /\ AppOf[e.key] = o.app
          THEN Put(w, At(o), Tombstone, Advance(o, Then(o, TRUE)), total)
          ELSE Look(w, Advance(o, Then(o, TRUE)))

\* A worker dies between two critical sections of its call.
Die(w) ==
    /\ w \in Busy
    /\ op' = [op EXCEPT ![w] = Idle]
    /\ steady' = [steady EXCEPT ![w] = {}]
    /\ dirty' = [dirty EXCEPT ![w] = {}]
    /\ UNCHANGED <<table, world, gone, total, disturbed>>

Tick ==
    /\ clock < MaxTime
    /\ clock' = clock + 1
    /\ steady' = [w \in Workers |->
         {p \in steady[w] : Holds(p[1], p[2], op[w].key, clock + 1)}]
    /\ UNCHANGED <<table, op, calls, dirty, gone, total, disturbed>>

\* The value of a key in a table that holds it once at most.
Summed(small, k) ==
    LET at == {s \in Slots("small") : Matches(small[s], k)}
    IN IF at = {} THEN 0 ELSE Number(small[CHOOSE s \in at : TRUE].val)

Init ==
    /\ \E small \in Presets :
         /\ table = [c \in Classes |-> IF c = "small" THEN small
                                      ELSE [s \in Slots(c) |-> Empty]]
         /\ total = [k \in Keys |-> Summed(small, k)]
         /\ disturbed = (\E s, t \in Slots("small") :
                           s # t /\ Matches(small[s], small[t].key))
    /\ op = [w \in Workers |-> Idle]
    /\ clock = 1
    /\ calls = 0
    /\ steady = [w \in Workers |-> {}]
    /\ dirty = [w \in Workers |-> {}]
    /\ gone = {}

Step(w) ==
    /\ w \in Busy
    /\ \/ GetSlot(w) \/ Reclaim(w)
       \/ SetProbe(w) \/ SetInsert(w) \/ Sweep(w)
       \/ AddProbe(w) \/ AddInsert(w)
       \/ DeleteSlot(w) \/ TouchSlot(w) \/ FlushSlot(w)
       \/ IncrementProbe(w) \/ IncrementCreate(w)

Next == Tick \/ \E w \in Workers : Start(w) \/ Step(w) \/ Die(w)

Spec == Init /\ [][Next]_vars

-----------------------------------------------------------------------------
\* A get misses only what was not there: a key that one slot held, live, from
\* the start of the get to its end is found, unless the get meets an expired
\* copy of the key first.  No empty slot appears in front of a stored key,
\* whatever is removed beside it.
GetFindsSteadyKeys ==
    \A w \in Workers :
         /\ op[w].call = "get" /\ op'[w] = Idle /\ (GetSlot(w) \/ Reclaim(w))
         /\ ~Holds(op[w].class, At(op[w]), op[w].key, op[w].now)
         => steady[w] = {}

\* Deleted means deleted: after a delete or a flush that no write of the key
\* overlapped, no slot of either class holds the key, though earlier writes may
\* have raced and left it in two slots.
DeletedKeysAreGone ==
    \A k \in gone, p \in Places : ~Matches(table[p[1]][p[2]], k)

\* An unexpired entry goes only when its key is deleted, set or flushed, or
\* when a set or an increment takes its slot: never because a get or a touch
\* saw it expired a moment ago.
OnlyAskedRemovals ==
    table' # table => \A p \in Places, k \in Keys :
         Holds(p[1], p[2], k, clock) /\ ~Matches(table'[p[1]][p[2]], k) =>
           \E w \in Busy :
             /\ op'[w] # op[w]
             /\ \/ op[w].fn \in {"delete", "set"} /\ op[w].key = k
                \/ op[w].fn = "flush" /\ op[w].app = AppOf[k]
                \/ op[w].fn \in {"set", "increment"} /\ op[w].pc = "insert"

\* A key that was set can be read until it expires, is removed or loses its slot.
KeysStay == [][OnlyAskedRemovals /\ GetFindsSteadyKeys]_vars

\* No increment is lost: as long as no slot is freed or given to another key, a
\* counter is the sum of its increments, whoever races to create it.
CountersAddUp ==
    ~disturbed => \A p \in Places, k \in Keys :
        Matches(table[p[1]][p[2]], k) => Number(table[p[1]][p[2]].val) = total[k]

AddSucceeds(w) == w \in Busy /\ (AddProbe(w) \/ AddInsert(w)) /\ table' # table

\* What the comment before the sweep says ("Converge on one slot per key"): the
\* set of a key that ends while no other call runs leaves one copy of it.
SetsConverge ==
    [][\A w \in Workers :
         /\ Busy = {w} /\ op[w].call = "set" /\ op'[w] = Idle /\ ~Die(w)
         => Cardinality({p \in Places : Matches(table'[p[1]][p[2]], op[w].key)}) = 1]_vars

\* add is atomic as long as no slot is freed or given to another key.
AddIsExclusiveUndisturbed ==
    \A w \in Workers :
         AddSucceeds(w) /\ ~disturbed' => Copies(op[w].key) = {}

\* What reads and writes a key in one call is atomic: no increment is lost and no
\* two adds succeed.
UpdatesAreAtomic ==
    [][<<table, total>>' # <<table, total>> => CountersAddUp' /\ AddIsExclusiveUndisturbed]_vars

=============================================================================
