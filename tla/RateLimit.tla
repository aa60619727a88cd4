----------------------------- MODULE RateLimit ------------------------------
(***************************************************************************)
(* The token buckets of the rate limiter (crates/askr/src/ratelimit.rs).   *)
(*                                                                         *)
(* The table is shared by all workers.  check looks at PROBE buckets, one  *)
(* lock at a time (module ShmLock), and takes a token from the bucket of   *)
(* its key or from a new one; if the window has no room it overwrites the  *)
(* bucket that was credited longest ago.  The clock is read once, before   *)
(* the first lock, so that a process may come to a bucket with a time that *)
(* is older than the bucket's.  MILLI is both the parts of a token and the *)
(* milliseconds of a second, as in the code.                               *)
(***************************************************************************)
EXTENDS Integers, FiniteSets

CONSTANTS
    Procs, Keys, None,
    Away,        \* a key that has buckets and does not ask any more
    Slots,       \* number of buckets
    PROBE, MILLI,
    Home,        \* the bucket that a key's hash points to
    Rules,       \* the rules: limit, window and burst
    MaxTime,     \* bound: the clock
    MaxMade      \* bound: buckets filled for one key

VARIABLES
    rule,        \* the rule that all the keys here are under
    clock,
    bucket,      \* per slot: key, tokens, last
    proc,        \* per process: where it is in check
    allowed,     \* history: per key, the requests that were let through
    made,        \* history: per key, the buckets that were filled for it
    promise      \* history: per slot, the earliest time a Retry-After named

shared == <<bucket, allowed, made, promise>>
vars == <<rule, clock, bucket, proc, allowed, made, promise>>

Capacity == (rule.limit + rule.burst) * MILLI
Out == [pc |-> "out"]
Free == [key |-> None, tokens |-> 0, last |-> 0]

\* The i-th bucket of a key's probe window.
Probed(k, i) == (Home[k] + i) % Slots

CeilDiv(a, b) == (a + b - 1) \div b
Least(a, b) == IF a < b THEN a ELSE b

\* Fault: time that was credited is not used up.
RefillAgain(b, now) ==
    LET elapsed == IF now > b.last THEN now - b.last ELSE 0
        refill == (elapsed * rule.limit) \div rule.window
    IN [b EXCEPT !.tokens = Least(b.tokens + refill, Capacity)]

\* consume, the refill: parts of tokens for the time since last, and last moves by
\* the time they stand for.
Refill(b, now) ==
    LET elapsed == IF now > b.last THEN now - b.last ELSE 0
        refill == (elapsed * rule.limit) \div rule.window
        credited == (refill * rule.window) \div rule.limit
    IN IF refill = 0 THEN b
       ELSE IF b.tokens + refill >= Capacity
       THEN [b EXCEPT !.tokens = Capacity, !.last = now]
       ELSE [b EXCEPT !.tokens = b.tokens + refill, !.last = Least(b.last + credited, now)]

\* consume, the verdict on a bucket that lacks a token: Retry-After, in seconds.
RetryAfter(b) ==
    LET ms == CeilDiv((MILLI - b.tokens) * rule.window, rule.limit)
        secs == CeilDiv(ms, MILLI)
    IN IF secs > 1 THEN secs ELSE 1

\* consume: b is the bucket as it was found or made.
Consume(p, s, b) ==
    LET now == proc[p].now
        full == Refill(b, now)
        granted == full.tokens >= MILLI
    IN /\ bucket' = [bucket EXCEPT ![s] = IF granted THEN [full EXCEPT !.tokens = @ - MILLI]
                                          ELSE full]
       /\ allowed' = [allowed EXCEPT ![b.key] = IF granted THEN @ + 1 ELSE @]
       /\ promise' = [promise EXCEPT ![s] =
            LET told == clock + RetryAfter(full) * MILLI
            IN IF granted THEN None
               ELSE IF promise[s] # None /\ bucket[s].key = b.key THEN Least(promise[s], told)
               ELSE told]
       /\ proc' = [proc EXCEPT ![p] = Out]

Fill(k, now) == [key |-> k, tokens |-> Capacity, last |-> now]

-----------------------------------------------------------------------------
\* check begins: the time is read.
Check(p) ==
    /\ proc[p] = Out
    /\ \E k \in Keys :
         proc' = [proc EXCEPT ![p] = [pc |-> "probe", key |-> k, now |-> clock,
                                      i |-> 0, victim |-> None, age |-> MaxTime + 1]]
    /\ UNCHANGED <<rule, clock, shared>>

\* One bucket of the window, under its lock.
Probe(p) ==
    LET f == proc[p]
        s == Probed(f.key, f.i)
        b == bucket[s]
    IN /\ f.pc = "probe"
       /\ \/ b.key = f.key /\ Consume(p, s, b) /\ UNCHANGED made
          \/ /\ b.key = None
             /\ Consume(p, s, Fill(f.key, f.now))
             /\ made' = [made EXCEPT ![f.key] = @ + 1]
          \/ /\ b.key \notin {None, f.key}
             /\ proc' = [proc EXCEPT ![p] =
                  [f EXCEPT !.i = f.i + 1, !.pc = IF f.i + 1 = PROBE THEN "evict" ELSE "probe",
                            !.victim = IF b.last < f.age THEN s ELSE f.victim,
                            !.age = Least(b.last, f.age)]]
             /\ UNCHANGED shared
       /\ UNCHANGED <<rule, clock>>

\* The window is full: the coldest bucket is overwritten, whoever has it by now.
Evict(p) ==
    LET f == proc[p]
    IN /\ f.pc = "evict" /\ made[f.key] < MaxMade
       /\ Consume(p, f.victim, Fill(f.key, f.now))
       /\ made' = [made EXCEPT ![f.key] = @ + 1]
       /\ UNCHANGED <<rule, clock>>

Tick == clock < MaxTime /\ clock' = clock + 1 /\ UNCHANGED <<rule, proc, shared>>

Init ==
    /\ rule \in Rules
    /\ clock = 0
    /\ \E taken \in SUBSET (1..Slots - 1) :
         bucket = [s \in 0..Slots - 1 |-> IF s \in taken THEN [Free EXCEPT !.key = Away] ELSE Free]
    /\ proc = [p \in Procs |-> Out]
    /\ allowed = [k \in Keys |-> 0]
    /\ made = [k \in Keys |-> 0]
    /\ promise = [s \in 0..Slots - 1 |-> None]

Next == Tick \/ \E p \in Procs : Check(p) \/ Probe(p) \/ Evict(p)

Spec == Init /\ [][Next]_vars

-----------------------------------------------------------------------------
\* What a key may have used by now: a full bucket for every one that was made, and
\* what the time since the start refills.
WithinTheRate(k) ==
    allowed[k] * MILLI * rule.window <= made[k] * (Capacity * rule.window + clock * rule.limit)

\* One of limit and window divides the other: no part of a millisecond is lost when
\* the credited time is rounded.
Exact == rule.limit % rule.window = 0 \/ rule.window % rule.limit = 0

\* A client gets no more than the rule gives, from all the workers together and
\* however their clocks and locks interleave; a bucket that was evicted starts full
\* again, which the code accepts.  Rules that do not divide are excepted: their
\* remainder is credited again.
LimitIsKept == Exact => \A k \in Keys : WithinTheRate(k)

\* Retry-After is true: at the time it names the bucket holds a token, however often
\* the client asked in between and was refused.
RetryAfterIsTrue ==
    \A s \in 0..Slots - 1 :
      promise[s] # None => Refill(bucket[s], promise[s]).tokens >= MILLI

\* A rule gives every client what it says: no more, and at the time it named.
RatesAreKept == LimitIsKept /\ RetryAfterIsTrue


=============================================================================
