------------------------------ MODULE Seqlock -------------------------------
(***************************************************************************)
(* One slot of the key-value cache and its version counter                 *)
(* (crates/askr/src/cache.rs: Writing, peek and the reading part of get).  *)
(*                                                                         *)
(* Writers change a slot under its lock and between two stores of the      *)
(* counter; readers copy the slot without the lock and believe the copy    *)
(* only if the counter was even before it and is the same after it.  A     *)
(* slot is a tuple of words stored and loaded one at a time.  The lock is  *)
(* taken to exclude (module ShmLock); a writer may stop inside a write,    *)
(* because its process died or because it panicked, and its lock is then   *)
(* taken over or released.                                                 *)
(***************************************************************************)
EXTENDS Naturals

CONSTANTS
    Writers, Readers,
    Words,        \* the words of a slot: state, hash, expires_at, ... val
    Values,       \* what a word may hold
    Nobody,       \* no writer
    SeqAttempts,  \* SEQ_ATTEMPTS
    MaxVersion,   \* bound: the counter
    MaxStops      \* bound: writes that stop half way

ASSUME SeqlockAssumption ==
    /\ Nobody \notin Writers
    /\ Values # {}
    /\ SeqAttempts \in Nat \ {0}
    /\ MaxVersion \in Nat
    /\ MaxStops \in Nat

VARIABLES
    version,   \* the counter
    slot,      \* the words of the slot
    slotLock,  \* the writer or reader that holds the slot lock, or Nobody
    writing,   \* the write in progress: words still to store, next counter
    reader,    \* per reader: where it is and what it copied
    stops,
    committed  \* history: per even counter value, the contents it stood for

seqVars == <<version, slot, slotLock, writing, reader, stops, committed>>

Nothing == [i \in {} |-> 0]

NoWrite == [todo |-> {}, new |-> Nothing, next |-> 0]

\* A reader's place in get: the counter it sampled, the words it copied and
\* the attempts it used up.
Reading(pc, v1, copy, tries) ==
    [pc |-> pc, v1 |-> v1, copy |-> copy, tries |-> tries]

\* f with the value x at i, a new point of its domain or an old one.
Put(f, i, x) == [j \in DOMAIN f \cup {i} |-> IF j = i THEN x ELSE f[j]]

-----------------------------------------------------------------------------
\* Fault: the marker is an increment.
OddIncrement(v) == v + 1

\* The counter value that marks a write: odd, whatever it was.
Odd(v) == IF v % 2 = 1 THEN v ELSE v + 1

\* A writer has taken the lock and enters Writing::begin.  It will store the
\* words of some set: all of them (write) or one (mark_state, mark_expires).
BeginWrite(w) ==
    /\ slotLock = Nobody
    /\ version < MaxVersion
    /\ slotLock' = w
    /\ version' = Odd(version)
    /\ \E todo \in SUBSET Words \ {{}} : \E new \in [todo -> Values] :
         writing' = [todo |-> todo, new |-> new, next |-> Odd(version) + 1]
    /\ UNCHANGED <<slot, reader, stops, committed>>

\* One store.  They are plain stores: their order is the compiler's.
Store(w) ==
    /\ slotLock = w
    /\ \E i \in writing.todo :
         /\ slot' = [slot EXCEPT ![i] = writing.new[i]]
         /\ writing' = [writing EXCEPT !.todo = writing.todo \ {i}]
    /\ UNCHANGED <<version, slotLock, reader, stops, committed>>

\* The drop of Writing: the counter is even again; then the lock is released.
EndWrite(w) ==
    /\ slotLock = w
    /\ writing.todo = {}
    /\ version' = writing.next
    /\ committed' = Put(committed, writing.next, slot)
    /\ slotLock' = Nobody
    /\ writing' = NoWrite
    /\ UNCHANGED <<slot, reader, stops>>

\* The writer stops inside the write: the counter stays odd, the lock is free.
Stop(w) ==
    /\ slotLock = w
    /\ stops < MaxStops
    /\ stops' = stops + 1
    /\ slotLock' = Nobody
    /\ writing' = NoWrite
    /\ UNCHANGED <<version, slot, reader, committed>>

-----------------------------------------------------------------------------
Shared == <<version, slot, slotLock, writing, stops, committed>>

\* get comes to this slot.
Get(r) ==
    /\ reader[r].pc \in {"idle", "hit", "locked"}
    /\ reader' = [reader EXCEPT ![r] = Reading("sample", 0, Nothing, 0)]
    /\ UNCHANGED Shared

\* A torn read counts as one of the SEQ_ATTEMPTS.
Torn(r) ==
    LET tries == reader[r].tries
    IN Reading("torn", 0, Nothing,
               IF tries < SeqAttempts THEN tries + 1 ELSE tries)

\* The first sample of the counter.
Sample(r) ==
    /\ reader[r].pc = "sample"
    /\ reader' = [reader EXCEPT ![r] =
                    IF version % 2 = 1 THEN Torn(r)
                    ELSE Reading("copy", version, Nothing, reader[r].tries)]
    /\ UNCHANGED Shared

\* One load.
Load(r) ==
    /\ reader[r].pc = "copy"
    /\ \E i \in Words \ DOMAIN reader[r].copy :
         reader' = [reader EXCEPT ![r] =
                      Reading("copy", reader[r].v1,
                              Put(reader[r].copy, i, slot[i]), reader[r].tries)]
    /\ UNCHANGED Shared

Unmoved(r) == version = reader[r].v1

\* The second sample, after the identity words (a slot of another key needs no
\* value) or after all of them.
Validate(r) ==
    /\ reader[r].pc = "copy"
    /\ reader' = [reader EXCEPT ![r] =
                    IF Unmoved(r)
                    THEN Reading("hit", reader[r].v1, reader[r].copy, 0)
                    ELSE Torn(r)]
    /\ UNCHANGED Shared

GaveUp(r) == reader[r].tries >= SeqAttempts

Again(r) ==
    /\ reader[r].pc = "torn"
    /\ ~GaveUp(r)
    /\ reader' = [reader EXCEPT ![r] = Reading("sample", 0, Nothing, reader[r].tries)]
    /\ UNCHANGED Shared

\* The fallback takes the lock, so no writer is inside, and reads plainly.
LockedRead(r) ==
    /\ reader[r].pc = "torn"
    /\ GaveUp(r)
    /\ slotLock = Nobody
    /\ reader' = [reader EXCEPT ![r] = Reading("locked", version, slot, 0)]
    /\ UNCHANGED Shared

-----------------------------------------------------------------------------
SeqInit ==
    /\ version = 0
    /\ slot \in [Words -> Values]
    /\ slotLock = Nobody
    /\ writing = NoWrite
    /\ reader = [r \in Readers |-> Reading("idle", 0, Nothing, 0)]
    /\ stops = 0
    /\ committed = Put(Nothing, 0, slot)

Read(r) == Sample(r) \/ Load(r) \/ Validate(r) \/ Again(r) \/ LockedRead(r)

Write(w) == Store(w) \/ EndWrite(w)

SeqNext == \/ \E w \in Writers : BeginWrite(w) \/ Write(w) \/ Stop(w)
           \/ \E r \in Readers : Get(r) \/ Read(r)

SeqSpec == SeqInit /\ [][SeqNext]_seqVars

\* Threads that run go on running.
SeqFairness ==
    /\ \A r \in Readers : WF_seqVars(Read(r))
    /\ \A w \in Writers : WF_seqVars(Write(w))

-----------------------------------------------------------------------------
\* A read that get returns, lock-free or after the fallback, is what the slot
\* held when the counter had the value v1: never a mixture of two writes, also
\* after a writer died half way.  The fallback alone may meet the remains of a
\* dead write, and then the counter is odd (get does not look at it).
ReadsAreWhole ==
    \A r \in Readers :
        \/ reader[r].pc = "hit"
        \/ reader[r].pc = "locked" /\ reader[r].v1 % 2 = 0
        => /\ reader[r].v1 \in DOMAIN committed
           /\ \A i \in DOMAIN reader[r].copy :
                reader[r].copy[i] = committed[reader[r].v1][i]

\* Every get leaves the slot, also when a dead writer left the counter odd for
\* good, which only the bounded number of attempts ensures.
ReadsEnd ==
    \A r \in Readers : reader[r].pc \in {"sample", "copy", "torn"}
                         ~> reader[r].pc \in {"hit", "locked"}

=============================================================================
