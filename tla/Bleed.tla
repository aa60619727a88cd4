------------------------------- MODULE Bleed --------------------------------
(***************************************************************************)
(* The table of leaking keys (crates/askr/src/bleed.rs): rows in shared    *)
(* memory under one lock, filled by the state-bleed detector of every      *)
(* worker and read by the admin plane.  The lock is a word that is 0 or 1: *)
(* it does not name its holder, so a worker that is killed inside leaves   *)
(* it taken.  Keys longer than a row's text field are stored cut.          *)
(***************************************************************************)
EXTENDS Naturals, FiniteSets, Functions

CONSTANTS
    Workers,
    Apps,
    Keys, LongKeys,   \* keys reported; those that a row's text field cuts
    Cut(_),           \* Text::set: what is left of a long key
    SLOTS,            \* rows
    None,
    Deaths,           \* whether workers are killed
    MaxFindings       \* bound: findings recorded

VARIABLES
    lock,       \* the lock word
    row,        \* per row: None, or app, key and number of reports
    dropped,
    worker,     \* per worker: the finding it reports
    found,      \* history: findings recorded or dropped
    taken       \* history: the keys that were recorded

vars == <<lock, row, dropped, worker, found, taken>>

Rows == 1..SLOTS
Idle == [pc |-> "idle", app |-> None, key |-> None, at |-> 0, new |-> FALSE]

Init ==
    /\ lock = 0
    /\ row = [i \in Rows |-> None]
    /\ dropped = 0
    /\ worker = [w \in Workers |-> Idle]
    /\ found = 0
    /\ taken = {}

\* c_bleed: the detector of a worker reports a key of its application.
Report(w) ==
    /\ worker[w].pc = "idle" /\ found < MaxFindings
    /\ \E a \in Apps, k \in Keys :
         worker' = [worker EXCEPT ![w] = [Idle EXCEPT !.pc = "lock", !.app = a, !.key = k]]
    /\ UNCHANGED <<lock, row, dropped, found, taken>>

\* lock
Lock(w) ==
    /\ worker[w].pc = "lock" /\ lock = 0
    /\ lock' = 1
    /\ worker' = [worker EXCEPT ![w].pc = "find"]
    /\ UNCHANGED <<row, dropped, found, taken>>

\* Text::set and Text::get: what comes back of a key.
Stored(k) == IF k \in LongKeys THEN Cut(k) ELSE k

\* record_in: the row of an application's key, compared with the key as it was reported;
\* else the first free row; else 0.
RowFor(app, key) ==
    LET existing == {i \in Rows : row[i] # None /\ row[i].key = key /\ row[i].app = app}
        free == {i \in Rows : row[i] = None}
        first(S) == IF S = {} THEN 0 ELSE CHOOSE i \in S : \A j \in S : i <= j
    IN IF existing # {} THEN first(existing) ELSE first(free)

Find(w) ==
    /\ worker[w].pc = "find"
    /\ LET i == RowFor(worker[w].app, worker[w].key)
       IN worker' = [worker EXCEPT ![w].pc = "write", ![w].at = i,
                                   ![w].new = IF i = 0 THEN FALSE ELSE row[i] = None]
    /\ UNCHANGED <<lock, row, dropped, found, taken>>

\* record_in: the row is filled, and the lock is released.
Write(w) ==
    /\ worker[w].pc = "write"
    /\ LET i == worker[w].at
       IN IF i = 0 THEN dropped' = dropped + 1 /\ UNCHANGED <<row, taken>>
          ELSE /\ row' = [row EXCEPT ![i] =
                            LET n == IF row[i] = None THEN 0 ELSE row[i].reports
                            IN IF worker[w].new
                               THEN [app |-> worker[w].app, key |-> Stored(worker[w].key), reports |-> n + 1]
                               ELSE [row[i] EXCEPT !.reports = n + 1]]
               /\ taken' = taken \cup {<<worker[w].app, worker[w].key>>} /\ UNCHANGED dropped
    /\ found' = found + 1
    /\ lock' = 0
    /\ worker' = [worker EXCEPT ![w] = Idle]

\* A worker is killed; the lock stays as it is.
Killed(w) ==
    /\ Deaths /\ worker[w].pc # "idle"
    /\ worker' = [worker EXCEPT ![w] = Idle]
    /\ UNCHANGED <<lock, row, dropped, found, taken>>

Next == \E w \in Workers : Report(w) \/ Lock(w) \/ Find(w) \/ Write(w) \/ Killed(w)

Spec == Init /\ [][Next]_vars

-----------------------------------------------------------------------------
\* "One row per leaking key": an application's key has one row, for keys that fit, no
\* recorded key is lost, and every finding is a report of some row or a dropped one.
OneRowPerLeak ==
    /\ \A i, j \in Rows :
         /\ row[i] # None /\ row[j] # None /\ row[i].key \notin {Cut(k) : k \in LongKeys}
         /\ row[i].app = row[j].app /\ row[i].key = row[j].key
         => i = j
    /\ FoldFunction(+, dropped, [i \in Rows |-> IF row[i] = None THEN 0 ELSE row[i].reports]) = found
    /\ \A t \in taken : \E i \in Rows : row[i] # None /\ row[i].app = t[1] /\ row[i].key = Stored(t[2])
    /\ dropped > 0 => \A i \in Rows : row[i] # None
=============================================================================
