------------------------------ MODULE MCCache -------------------------------
(***************************************************************************)
(* The two back ends of the cache for TLC.  They do not run together: part *)
(* says which of them moves.                                               *)
(*                                                                         *)
(*   shm  two workers, two applications' keys that share a home slot, and  *)
(*        a table of two small slots and one large one;                    *)
(*   sql  two workers on one or two boxes, one key of an application that  *)
(*        has an app_id and of two that have none.                         *)
(***************************************************************************)
EXTENDS KvCache, TLC

CONSTANTS w1, w2, a1, b1, appA, appB, box1, box2, NoRow, Shared, a, u, v

VARIABLES part, box, sqlClock, row, tagged, front, proc, lock, ops

Sql == INSTANCE SqlCache WITH
         Procs <- {w1, w2}, Boxes <- {box1, box2}, None <- NoRow,
         Apps <- {a, u, v}, Named <- {a}, Values <- {1, 2}, Ttls <- {0, 1},
         Deaths <- TRUE, MaxTime <- 1, MaxOps <- 3, clock <- sqlClock

MCAppOf == [k \in {a1, b1} |-> IF k = a1 THEN appA ELSE appB]
MCN == [c \in {"small", "large"} |-> IF c = "small" THEN 2 ELSE 1]
MCHome == [c \in {"small", "large"} |-> [k \in {a1, b1} |-> 0]]

Request(call, val, ttl) ==
    {[call |-> call, key |-> k, val |-> val, ttl |-> ttl] : k \in {a1, b1}}

MCRequests ==
    UNION {Request("get", 0, 0), Request("delete", 0, 0), Request("flush", 0, 0),
           Request("set", 0, 1), Request("set", Big, 0),
           Request("add", 0, 0), Request("touch", 0, 1), Request("increment", 0, 0)}

\* Sets of one key that race.
MCSetRequests == {r \in Request("set", 0, 0) : r.key = a1}

\* A key in the slot that is home to both, or a key that racing sets left in
\* two slots.
Single(k) == [s \in 0 .. 1 |-> IF s = 0 THEN Live(k, 0, 0) ELSE Empty]
Double(k) == [s \in 0 .. 1 |-> Live(k, s, 0)]
MCPresets == {Single(k) : k \in {a1, b1}} \cup {Double(k) : k \in {a1, b1}}

\* The table is full of another application's entries, which are evicted.
MCFullPresets == {Double(b1)}

sqlVars == <<box, sqlClock, row, tagged, front, proc, lock, ops>>

\* The back end that is not used.
NoShm ==
    /\ table = [c \in Classes |-> [s \in Slots(c) |-> Empty]]
    /\ op = [w \in Workers |-> Idle]
    /\ clock = 0 /\ calls = 0
    /\ steady = [w \in Workers |-> {}] /\ dirty = [w \in Workers |-> {}]
    /\ gone = {} /\ total = [k \in Keys |-> 0] /\ disturbed = FALSE
NoSql == /\ box = 0 /\ sqlClock = 0 /\ row = 0 /\ tagged = 0 /\ front = 0
         /\ proc = 0 /\ lock = 0 /\ ops = 0

MCInit == \/ part = "shm" /\ Init /\ NoSql
          \/ part = "sql" /\ Sql!Init /\ NoShm

MCNext ==
    \/ part = "shm" /\ Next /\ UNCHANGED <<part, sqlVars>>
    \/ part = "sql" /\ Sql!Next /\ UNCHANGED <<part, vars>>

MCSpec == MCInit /\ [][MCNext]_<<part, vars, sqlVars>>

\* The shared-memory back end alone.
ShmSpec == part = "shm" /\ MCInit /\ [][MCNext]_<<part, vars, sqlVars>>

\* Workers are alike, and so are boxes and the two applications with their
\* keys.
Swap(x, y) == [z \in {x, y} |-> IF z = x THEN y ELSE x]
Same(S) == [z \in S |-> z]
Alike == {p @@ q : p \in Permutations({w1, w2}),
                   q \in {Same({a1, b1, appA, appB, box1, box2}),
                          Swap(a1, b1) @@ Swap(appA, appB) @@ Swap(box1, box2)}}

-----------------------------------------------------------------------------
\* What the boxes serve is what the database holds, and a lock taken on it is
\* exclusive on all of them (cache_sql.rs).
BoxesAgree == part = "sql" => Sql!BoxesAgree

=============================================================================
