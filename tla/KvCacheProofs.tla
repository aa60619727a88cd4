---------------------------- MODULE KvCacheProofs ---------------------------
(***************************************************************************)
(* What the calls of the shared key-value cache promise (cache.rs), for    *)
(* any number of workers, keys, slots and calls, any hashes and any probe  *)
(* window: deleted keys are gone, and updates of a counter are not lost.   *)
(*                                                                         *)
(* To the invariant of the tables and their scans (KvTableProofs) two      *)
(* parts are added.  A delete or flush has passed no copy of what it       *)
(* removes.  And while no slot is lost a key has one copy, in the first    *)
(* slot of its window that was free.                                       *)
(***************************************************************************)
EXTENDS KvTableProofs

\* A leaf that names no prover is tried with Zenon.
USE ZenonT(40)

-----------------------------------------------------------------------------
\* No call in progress writes k.
Quiet(k) == \A x \in Busy : k \notin Writes(op[x])
Without(c, k) == \A s \in Slots(c) : ~Matches(table[c][s], k)

\* The j-th slot a scan visits.
Visit(o, j) == IF o.fn = "flush" THEN j ELSE Pos(o.class, o.key, j)

\* The slots of its class that a delete or flush has passed hold no copy of k.
Cleared(o, k) ==
    /\ o.class = "large" => Without("small", k)
    /\ \A j \in 0 .. o.i - 1 : ~Matches(table[o.class][Visit(o, j)], k)

GoneInv ==
    /\ DOMAIN dirty = Workers
    /\ gone \subseteq Keys
    /\ \A k \in gone : Quiet(k) /\ Without("small", k) /\ Without("large", k)
    /\ \A w \in Busy : \A k \in Clears(op[w]) \ dirty[w] : Quiet(k) /\ Cleared(op[w], k)

-----------------------------------------------------------------------------
\* A slot that is and stays another key's.
Taken(s, k) == table["small"][s].state = "live" /\ table["small"][s].key # k

\* What a call that may insert k knows of its window while no slot is lost: the slots
\* before the free one it has marked are taken, and if k is in a slot it has passed, or
\* anywhere when it is done, its free slot is no longer free.
Claims(o) ==
    /\ o.reuse = NoSlot => \A j \in 0 .. o.i - 1 : Taken(Pos("small", o.key, j), o.key)
    /\ o.reuse # NoSlot =>
         /\ \E j \in 0 .. o.i :
              /\ o.reuse = Pos("small", o.key, j)
              /\ \A m \in 0 .. j - 1 : Taken(Pos("small", o.key, m), o.key)
         /\ \A j \in 0 .. o.i - 1 :
              Matches(table["small"][Pos("small", o.key, j)], o.key) =>
                  table["small"][o.reuse].state = "live"
         /\ o.pc = "insert" => \A s \in Slots("small") :
              Matches(table["small"][s], o.key) => table["small"][o.reuse].state = "live"
    /\ o.stale # NoSlot => Taken(o.stale, o.key)
    /\ \A s \in o.live : Taken(s, o.key)

SumInv ==
    /\ disturbed \in BOOLEAN
    /\ DOMAIN total = Keys
    /\ ~disturbed =>
         /\ \A s \in Slots("large") : table["large"][s].state # "live"
         /\ \A s, t \in Slots("small"), k \in Keys :
              Matches(table["small"][s], k) /\ Matches(table["small"][t], k) => s = t
         /\ \A s \in Slots("small"), k \in Keys : Matches(table["small"][s], k) =>
              Number(table["small"][s].val) = total[k]
         /\ \A w \in Busy : op[w].val # Big /\ (Inserts(op[w]) => Claims(op[w]))

Inv == ScanInv /\ GoneInv /\ SumInv

-----------------------------------------------------------------------------
\* A slot has no new copy of a key that no call writes.
LEMMA NoNewCopy ==
    ASSUME TableInv, OpsInv, NEW w \in Busy, Stepped(w), NEW k, Quiet(k),
           NEW c \in Classes, NEW s \in Slots(c), ~Matches(table[c][s], k)
    PROVE  ~Matches(table'[c][s], k)
<1>1. Changes(w, c, s) /\ Call(op[w])
    BY SlotChange DEF OpsInv, Busy, OpInv
<1>2. Inserts(op[w]) => op[w].call \in {"set", "add", "increment"}
    BY <1>1 DEF Call, Shape, Inserts
<1>3. Inserts(op[w]) => k # op[w].key
    BY <1>2 DEF Quiet, Writes
<1> QED BY <1>1, <1>3, NewCopies, SMTT(40)

\* The calls that go on write what they wrote.
LEMMA QuietStep ==
    ASSUME OpsInv, NEW w \in Busy, Stepped(w), NEW k, Quiet(k)
    PROVE  Quiet(k)'
<1>1. PICK x : op' = [op EXCEPT ![w] = x] /\ Goes(op[w], x)
    BY DEF Stepped
<1>2. \A v \in Workers : op'[v] # Idle => op[v] # Idle /\ Writes(op'[v]) = Writes(op[v])
    BY <1>1 DEF OpsInv, Busy, Goes, Same, Writes
<1> QED BY <1>2 DEF Quiet, Busy, Writes, Idle

\* The slots a scan visits are slots of its table.
LEMMA VisitSlot ==
    ASSUME NEW o, Call(o), NEW j \in 0 .. o.i
    PROVE  Visit(o, j) \in Slots(o.class) /\ Visit(o, o.i) = At(o) /\ o.i \in Nat /\ j \in Nat
<1>1. o.i \in Nat /\ j \in Nat /\ o.class \in Classes /\ o.key \in Keys
    BY KvAssumption, SMTT(40) DEF Call, Last
<1>2. CASE o.fn = "flush"
    BY <1>1, <1>2, KvAssumption, SMTT(40) DEF Visit, At, Call, Last, Slots
<1>3. CASE o.fn # "flush"
    BY <1>1, <1>3, PosSlot DEF Visit, At
<1> QED BY <1>2, <1>3

\* What one slot does to a delete or a flush: the slot has no copy afterwards, and when the
\* scan ends no copy is in a slot that it has not visited.
LEMMA ClearCases ==
    ASSUME TableInv, OpsInv, NEW w \in Workers, Step(w), NEW k \in Clears(op[w])
    PROVE  LET o == op[w]
           IN /\ ~Matches(table'[o.class][At(o)], k)
              /\ \/ /\ op'[w] = Then(o, TRUE)
                    /\ \A s \in Slots(o.class) :
                         Matches(table[o.class][s], k) => \E j \in 0 .. o.i : s = Visit(o, j)
                 \/ op'[w] = [o EXCEPT !.i = o.i + 1]
<1> DEFINE o == op[w]  e == Seen(w)
<1>1. w \in Busy /\ Call(o)
    BY DEF Step, OpsInv, Busy, OpInv
<1>2. /\ o.class \in Classes /\ At(o) \in Slots(o.class) /\ o.i \in 0 .. Last(o)
      /\ o.key \in Keys /\ DOMAIN op = Workers
    BY <1>1, AtSlot DEF Call, OpsInv
<1>3. Last(o) \in Nat /\ (o.i = Last(o) \/ o.i < Last(o))
    BY <1>2, KvAssumption, SMTT(40) DEF Last
<1>4. e = table[o.class][At(o)]
    BY DEF Seen
<1>5. ASSUME NEW x, NEW sum, Put(w, At(o), Tombstone, x, sum)
      PROVE  op'[w] = x /\ ~Matches(table'[o.class][At(o)], k)
    <2>1. op'[w] = x
        BY <1>2, <1>5 DEF Put
    <2>2. table'[o.class][At(o)] = Tombstone
        BY <1>2, <1>5 DEF Put, TableInv
    <2> QED BY <2>1, <2>2, SMTT(40) DEF Matches, Tombstone
<1>6. ASSUME NEW x, Look(w, x)
      PROVE  op'[w] = x /\ table' = table
    BY <1>2, <1>6 DEF Look
<1>7. ASSUME NEW x, x = Advance(o, Then(o, TRUE))
      PROVE  x = [o EXCEPT !.i = o.i + 1] \/ (x = Then(o, TRUE) /\ o.i = Last(o))
    BY <1>3, <1>7 DEF Advance
<1>8. CASE o.call = "delete"
    <2>1. o.fn = "delete" /\ k = o.key /\ DeleteSlot(w)
        BY <1>1, <1>8
        DEF Call, Shape, Clears, Step, GetSlot, Reclaim, SetProbe, SetInsert, Sweep,
            AddProbe, AddInsert, TouchSlot, FlushSlot, IncrementProbe, IncrementCreate
    <2>2. ASSUME e.state = "empty" \/ o.i = Last(o), NEW s \in Slots(o.class),
                 Matches(table[o.class][s], k)
          PROVE  \E j \in 0 .. o.i : s = Visit(o, j)
        <3>1. o.i \in 0 .. Probe - 1 /\ Last(o) = Probe - 1 /\ At(o) = Pos(o.class, o.key, o.i)
            BY <1>2, <2>1 DEF Last, At
        <3>2. Chained(table[o.class], o.class)
            BY <1>2 DEF TableInv
        <3>3. \E j \in 0 .. o.i : s = Pos(o.class, k, j)
            BY <1>2, <1>4, <2>1, <2>2, <3>1, <3>2, NotPast, SMTT(40)
        <3> QED BY <2>1, <3>3 DEF Visit
    <2>3. CASE Matches(e, o.key)
        <3>1. Put(w, At(o), Tombstone, Advance(o, Then(o, TRUE)), total)
            BY <2>1, <2>3 DEF DeleteSlot, AfterDelete
        <3> QED BY <1>5, <1>7, <2>2, <3>1
    <2>4. CASE ~Matches(e, o.key) /\ e.state = "empty"
        <3>1. Look(w, Then(o, TRUE))
            BY <2>1, <2>4 DEF DeleteSlot
        <3> QED BY <1>4, <1>6, <2>1, <2>2, <2>4, <3>1
    <2>5. CASE ~Matches(e, o.key) /\ e.state # "empty"
        <3>1. Look(w, Advance(o, Then(o, TRUE)))
            BY <2>1, <2>5 DEF DeleteSlot
        <3> QED BY <1>4, <1>6, <1>7, <2>1, <2>2, <2>5, <3>1
    <2> QED BY <2>3, <2>4, <2>5
<1>9. CASE o.call = "flush"
    <2>1. o.fn = "flush" /\ AppOf[k] = o.app /\ FlushSlot(w)
        BY <1>1, <1>9
        DEF Call, Shape, Clears, Step, GetSlot, Reclaim, SetProbe, SetInsert, Sweep,
            AddProbe, AddInsert, TouchSlot, DeleteSlot, IncrementProbe, IncrementCreate
    <2>2. ASSUME o.i = Last(o), NEW s \in Slots(o.class)
          PROVE  \E j \in 0 .. o.i : s = Visit(o, j)
        BY <1>2, <2>1, <2>2, KvAssumption DEF Last, Slots, Visit
    <2>3. CASE e.state = "live" /\ AppOf[e.key] = o.app
        <3>1. Put(w, At(o), Tombstone, Advance(o, Then(o, TRUE)), total)
            BY <2>1, <2>3 DEF FlushSlot
        <3> QED BY <1>5, <1>7, <2>2, <3>1
    <2>4. CASE ~(e.state = "live" /\ AppOf[e.key] = o.app)
        <3>1. Look(w, Advance(o, Then(o, TRUE)))
            BY <2>1, <2>4 DEF FlushSlot
        <3>2. ~Matches(e, k)
            BY <2>1, <2>4 DEF Matches
        <3> QED BY <1>4, <1>6, <1>7, <2>2, <3>1, <3>2
    <2> QED BY <2>3, <2>4
<1> QED BY <1>8, <1>9 DEF Clears

\* A delete or flush that no write of k overlaps leaves no copy of k behind it.
LEMMA ClearStep ==
    ASSUME TableInv, OpsInv, NEW w \in Workers, Step(w), Stepped(w), NEW k \in Clears(op[w]),
           Quiet(k), Cleared(op[w], k)
    PROVE  /\ op'[w] = Idle => Without("small", k)' /\ Without("large", k)'
           /\ op'[w] # Idle => Cleared(op[w], k)'
<1> DEFINE o == op[w]
<1>1. w \in Busy /\ Call(o) /\ o.class \in Classes /\ o.call \in {"delete", "flush"}
    BY DEF Step, OpsInv, Busy, OpInv, Call, Clears
<1>2. \A c \in Classes : \A s \in Slots(c) :
        ~Matches(table[c][s], k) => ~Matches(table'[c][s], k)
    BY <1>1, NoNewCopy
<1>3. ~Matches(table'[o.class][At(o)], k)
    BY ClearCases
<1>4. \A j \in 0 .. o.i : Visit(o, j) \in Slots(o.class) /\ Visit(o, o.i) = At(o) /\ j \in Nat
    BY <1>1, VisitSlot
<1>5. o.i \in Nat
    BY <1>1, KvAssumption, SMTT(40) DEF Call, Last
<1>6. ASSUME NEW j \in 0 .. o.i PROVE ~Matches(table'[o.class][Visit(o, j)], k)
    <2>1. j = o.i \/ j \in 0 .. o.i - 1
        BY <1>5, SMTT(40)
    <2> QED BY <1>1, <1>2, <1>3, <1>4, <2>1 DEF Cleared
<1>7. o.class = "large" => \A s \in Slots("small") : ~Matches(table'["small"][s], k)
    BY <1>2 DEF Cleared, Without, Classes
<1>8. CASE /\ op'[w] = Then(o, TRUE)
           /\ \A s \in Slots(o.class) :
                Matches(table[o.class][s], k) => \E j \in 0 .. o.i : s = Visit(o, j)
    <2>1. \A s \in Slots(o.class) : ~Matches(table'[o.class][s], k)
        BY <1>1, <1>2, <1>6, <1>8
    <2>2. CASE o.class = "large"
        <3>1. Then(o, TRUE) = Idle
            BY <1>1, <2>2 DEF Then
        <3> QED BY <1>7, <1>8, <2>1, <2>2, <3>1 DEF Without, Slots
    <2>3. CASE o.class = "small"
        <3>1. op'[w] = Enter(o, "large", "delete") \/ op'[w] = Enter(o, "large", "flush")
            BY <1>1, <1>8, <2>3 DEF Then
        <3>2. op'[w].i = 0 /\ op'[w].call = o.call
            BY <1>1, <3>1, EnterFields, SMTT(40) DEF Call, Same
        <3>3. op'[w] # Idle
            BY <1>1, <3>2, SMTT(40) DEF Idle, None
        <3>4. \A j \in 0 .. op'[w].i - 1 : FALSE
            BY <3>2, SMTT(40)
        <3> QED BY <2>1, <2>3, <3>3, <3>4 DEF Cleared, Without, Slots
    <2> QED BY <1>1, <2>2, <2>3 DEF Classes
<1>9. CASE op'[w] = [o EXCEPT !.i = o.i + 1]
    <2> DEFINE x == [o EXCEPT !.i = o.i + 1]
    <2>1. x.i = o.i + 1 /\ x.class = o.class /\ x.fn = o.fn /\ x.key = o.key /\ x.call = o.call
        BY <1>1 DEF Call, Fields
    <2> HIDE DEF x
    <2>2. op'[w] = x /\ x # Idle
        BY <1>1, <1>9, <2>1 DEF Idle, None, x
    <2>3. x.i - 1 = o.i
        BY <1>5, <2>1, SMTT(40)
    <2>4. \A j : Visit(x, j) = Visit(o, j)
        BY <2>1 DEF Visit
    <2>5. \A j \in 0 .. x.i - 1 : ~Matches(table'[x.class][Visit(x, j)], k)
        BY <1>6, <2>1, <2>3, <2>4
    <2>6. x.class = "large" => \A s \in Slots("small") : ~Matches(table'["small"][s], k)
        BY <1>7, <2>1
    <2>7. Cleared(op[w], k)'
        BY <2>2, <2>5, <2>6 DEF Cleared, Without, Slots, Visit, Pos
    <2> QED BY <2>2, <2>7
<1> QED BY <1>8, <1>9, ClearCases

\* A step of a call brings no removed key back, and no scan that removes a key leaves
\* a copy of it behind.
LEMMA GoneStep ==
    ASSUME TableInv, OpsInv, GoneInv, NEW w \in Workers, Step(w), Stepped(w)
    PROVE  GoneInv'
<1>1. w \in Busy /\ OpInv(op[w])
    BY DEF Step, OpsInv, Busy
<1>2. PICK x : op' = [op EXCEPT ![w] = x] /\ Goes(op[w], x)
    BY DEF Stepped
<1>3. /\ DOMAIN op = Workers /\ op'[w] = x
      /\ \A v \in Workers : v # w => op'[v] = op[v]
    BY <1>2 DEF OpsInv
<1>4. /\ gone' = gone \cup (IF op'[w] = Idle THEN Clears(op[w]) \ dirty[w] ELSE {})
      /\ dirty' = IF op'[w] = Idle THEN [dirty EXCEPT ![w] = {}] ELSE dirty
    BY DEF Stepped, Record
<1>5. DOMAIN dirty' = Workers
    BY <1>4 DEF GoneInv
<1>6. gone' \subseteq Keys
    <2>1. Clears(op[w]) \subseteq Keys
        BY <1>1 DEF OpInv, Call, Clears
    <2> QED BY <1>4, <2>1 DEF GoneInv
<1>7. ASSUME NEW k \in gone'
      PROVE  Quiet(k)' /\ Without("small", k)' /\ Without("large", k)'
    <2>1. CASE k \in gone
        <3>1. Quiet(k) /\ Without("small", k) /\ Without("large", k)
            BY <2>1 DEF GoneInv
        <3>2. Quiet(k)'
            BY <1>1, <3>1, QuietStep
        <3>3. \A c \in Classes : \A s \in Slots(c) :
                 ~Matches(table[c][s], k) => ~Matches(table'[c][s], k)
            BY <1>1, <3>1, NoNewCopy
        <3>4. Without("small", k)' /\ Without("large", k)'
            BY <3>1, <3>3 DEF Without, Classes, Slots
        <3> QED BY <3>2, <3>4
    <2>2. CASE k \notin gone
        <3>1. op'[w] = Idle /\ k \in Clears(op[w]) \ dirty[w]
            BY <1>4, <1>7, <2>2
        <3>2. Quiet(k) /\ Cleared(op[w], k)
            BY <1>1, <3>1 DEF GoneInv
        <3>3. Quiet(k)'
            BY <1>1, <3>2, QuietStep
        <3> QED BY <3>1, <3>2, <3>3, ClearStep
    <2> QED BY <2>1, <2>2
<1>8. ASSUME NEW v \in Workers, op'[v] # Idle, NEW k \in Clears(op'[v]) \ dirty'[v]
      PROVE  Quiet(k)' /\ Cleared(op[v], k)'
    <2>1. v \in Busy /\ Clears(op'[v]) = Clears(op[v])
        BY <1>1, <1>2, <1>3, <1>8, SMTT(40) DEF Busy, Goes, Same, Clears
    <2>2. dirty'[v] = dirty[v]
        BY <1>4, <1>8 DEF GoneInv
    <2>3. k \in Clears(op[v]) \ dirty[v]
        BY <1>8, <2>1, <2>2
    <2>4. Quiet(k) /\ Cleared(op[v], k)
        BY <2>1, <2>3 DEF GoneInv
    <2>5. Quiet(k)'
        BY <1>1, <2>4, QuietStep
    <2>6. CASE v = w
        BY <1>8, <2>3, <2>4, <2>5, <2>6, ClearStep
    <2>7. CASE v # w
        <3>1. op'[v] = op[v] /\ Call(op[v]) /\ op[v].class \in Classes
            BY <1>3, <2>1, <2>7 DEF OpsInv, Busy, OpInv, Call
        <3>2. \A c \in Classes : \A s \in Slots(c) :
                 ~Matches(table[c][s], k) => ~Matches(table'[c][s], k)
            BY <1>1, <2>4, NoNewCopy
        <3>3. \A j \in 0 .. op[v].i - 1 : Visit(op[v], j) \in Slots(op[v].class)
            <4>1. op[v].i \in Nat
                BY <3>1, KvAssumption, SMTT(40) DEF Call, Last
            <4>2. \A j \in 0 .. op[v].i - 1 : j \in 0 .. op[v].i
                BY <4>1, SMTT(40)
            <4> QED BY <3>1, <4>2, VisitSlot
        <3>4. \A j \in 0 .. op[v].i - 1 : ~Matches(table'[op[v].class][Visit(op[v], j)], k)
            BY <2>4, <3>1, <3>2, <3>3 DEF Cleared
        <3>5. op[v].class = "large" => \A s \in Slots("small") : ~Matches(table'["small"][s], k)
            BY <2>4, <3>2 DEF Cleared, Without, Classes
        <3>6. Cleared(op[v], k)'
            BY <3>1, <3>4, <3>5 DEF Cleared, Without, Slots, Visit, Pos
        <3> QED BY <2>5, <3>6
    <2> QED BY <2>6, <2>7
<1> QED BY <1>5, <1>6, <1>7, <1>8 DEF GoneInv, Busy, Idle, Clears

\* Nor does the start of a call: a call that may store the key takes it off the list.
LEMMA GoneStart ==
    ASSUME TableInv, OpsInv, GoneInv, NEW w \in Workers, Start(w)
    PROVE  GoneInv'
<1>1. PICK q \in Requests :
         /\ op[w] = Idle /\ op' = [op EXCEPT ![w] = First(Asked(q))]
         /\ dirty' = [u \in Workers |->
              IF u = w THEN UNION {Writes(op[x]) : x \in Busy}
              ELSE dirty[u] \cup (IF u \in Busy THEN Writes(Asked(q)) ELSE {})]
         /\ gone' = gone \ Writes(Asked(q))
         /\ UNCHANGED <<table, clock, total>>
    BY StartFacts
<1> DEFINE x == First(Asked(q))
<1>2. clock \in Nat /\ DOMAIN op = Workers /\ table' = table
    BY <1>1 DEF TableInv, OpsInv
<1>3. /\ OpInv(x) /\ x.call = q.call /\ x.key = q.key /\ x.i = 0
      /\ q.call \in {"delete", "flush"} => x.class = "small"
    BY <1>2, FirstGood
<1>4. Writes(Asked(q)) = Writes(x)
    BY <1>3 DEF Writes, Asked
<1> HIDE DEF x
<1>5. op'[w] = x /\ \A v \in Workers : v # w => op'[v] = op[v]
    BY <1>1, <1>2 DEF x
<1>6. \A k : Quiet(k) /\ k \notin Writes(x) => Quiet(k)'
    <2>1. \A v \in Workers : op'[v] # Idle => v = w \/ (v \in Busy /\ op'[v] = op[v])
        BY <1>5 DEF Busy
    <2>2. \A k : Quiet(k) /\ k \notin Writes(x) =>
              \A v \in Workers : op'[v] # Idle => k \notin Writes(op'[v])
        BY <1>5, <2>1 DEF Quiet
    <2> QED BY <2>2 DEF Quiet, Busy, Writes, Idle
<1>7. DOMAIN dirty' = Workers /\ gone' \subseteq Keys
    BY <1>1 DEF GoneInv
<1>8. ASSUME NEW k \in gone'
      PROVE  Quiet(k)' /\ Without("small", k)' /\ Without("large", k)'
    <2>1. k \in gone /\ k \notin Writes(x)
        BY <1>1, <1>4, <1>8
    <2>2. Quiet(k) /\ Without("small", k) /\ Without("large", k)
        BY <2>1 DEF GoneInv
    <2> QED BY <1>2, <1>6, <2>1, <2>2 DEF Without, Slots
<1>9. ASSUME NEW v \in Workers, op'[v] # Idle, NEW k \in Clears(op'[v]) \ dirty'[v]
      PROVE  Quiet(k)' /\ Cleared(op[v], k)'
    <2>1. CASE v = w
        <3>1. x.call \in {"delete", "flush"} /\ dirty'[w] = UNION {Writes(op[u]) : u \in Busy}
            BY <1>1, <1>5, <1>9, <2>1 DEF Clears
        <3>2. Quiet(k) /\ k \notin Writes(x)
            BY <1>9, <2>1, <3>1 DEF Quiet, Writes
        <3>3. op'[v].class = "small" /\ \A j \in 0 .. op'[v].i - 1 : FALSE
            BY <1>3, <1>5, <2>1, <3>1, SMTT(40)
        <3> QED BY <1>6, <3>2, <3>3 DEF Cleared
    <2>2. CASE v # w
        <3>1. op'[v] = op[v] /\ v \in Busy
            BY <1>5, <1>9, <2>2 DEF Busy
        <3>2. k \in Clears(op[v]) \ dirty[v] /\ k \notin Writes(x)
            BY <1>1, <1>4, <1>9, <2>2, <3>1
        <3>3. Quiet(k) /\ Cleared(op[v], k)
            BY <3>1, <3>2 DEF GoneInv
        <3>4. Cleared(op[v], k)'
            BY <1>2, <3>1, <3>3 DEF Cleared, Without, Slots, Visit, Pos
        <3> QED BY <1>6, <3>2, <3>3, <3>4
    <2> QED BY <2>1, <2>2
<1> QED BY <1>7, <1>8, <1>9 DEF GoneInv, Busy, Idle, Clears

\* Nor the death of a worker.
LEMMA GoneDie ==
    ASSUME TableInv, OpsInv, GoneInv, NEW w \in Workers, Die(w)
    PROVE  GoneInv'
<1>1. /\ op' = [op EXCEPT ![w] = Idle] /\ dirty' = [dirty EXCEPT ![w] = {}]
      /\ table' = table /\ gone' = gone /\ DOMAIN op = Workers /\ DOMAIN dirty = Workers
    BY DEF Die, OpsInv, GoneInv
<1>2. \A v \in Workers : op'[v] # Idle => v \in Busy /\ op'[v] = op[v] /\ dirty'[v] = dirty[v]
    BY <1>1 DEF Busy
<1>3. \A k : Quiet(k) => Quiet(k)'
    <2>1. \A k : Quiet(k) => \A v \in Workers : op'[v] # Idle => k \notin Writes(op'[v])
        BY <1>2 DEF Quiet
    <2> QED BY <2>1 DEF Quiet, Busy, Writes, Idle
<1>4. DOMAIN dirty' = Workers /\ gone' \subseteq Keys
    BY <1>1 DEF GoneInv
<1>5. ASSUME NEW k \in gone'
      PROVE  Quiet(k)' /\ Without("small", k)' /\ Without("large", k)'
    <2>1. Quiet(k) /\ Without("small", k) /\ Without("large", k)
        BY <1>1, <1>5 DEF GoneInv
    <2> QED BY <1>1, <1>3, <2>1 DEF Without, Slots
<1>6. ASSUME NEW v \in Workers, op'[v] # Idle, NEW k \in Clears(op'[v]) \ dirty'[v]
      PROVE  Quiet(k)' /\ Cleared(op[v], k)'
    <2>1. Quiet(k) /\ Cleared(op[v], k) /\ op'[v] = op[v]
        BY <1>2, <1>6 DEF GoneInv
    <2>2. Cleared(op[v], k)'
        BY <1>1, <2>1 DEF Cleared, Without, Slots, Visit, Pos
    <2> QED BY <1>3, <2>1, <2>2
<1> QED BY <1>4, <1>5, <1>6 DEF GoneInv, Busy, Idle, Clears

-----------------------------------------------------------------------------
\* While nothing is disturbed every live slot keeps its key.
LEMMA LiveKept ==
    ASSUME TableInv, NEW w \in Workers, Record(w), ~disturbed', disturbed \in BOOLEAN,
           NEW c \in Classes, NEW s \in Slots(c), table[c][s].state = "live"
    PROVE  ~disturbed /\ Matches(table'[c][s], table[c][s].key)
<1> DEFINE p == <<c, s>>
<1>1. p \in Places /\ p[1] = c /\ p[2] = s
    BY SlotIsSome DEF Places
<1> HIDE DEF p
<1>2. \A r \in Places : table[r[1]][r[2]].state = "live" =>
          Matches(table'[r[1]][r[2]], table[r[1]][r[2]].key)
    BY DEF Record
<1>3. ~disturbed
    BY DEF Record
<1> QED BY <1>1, <1>2, <1>3

\* The calls and tables of an undisturbed cache, without the sums.
Calm ==
    /\ \A s \in Slots("large") : table["large"][s].state # "live"
    /\ \A s, t \in Slots("small"), k \in Keys :
         Matches(table["small"][s], k) /\ Matches(table["small"][t], k) => s = t
    /\ \A w \in Busy : op[w].val # Big /\ (Inserts(op[w]) => Claims(op[w]))

\* What a step can store in it: a new value of a key in the slot of the key, or a key that
\* has none in the free slot that its call has marked.
Stores(w, s, e) ==
    /\ op[w].class = "small" /\ s \in Slots("small")
    /\ table' = [table EXCEPT !["small"][s] = e]
    /\ Storing(op[w], s, e)
    /\ \/ Matches(table["small"][s], op[w].key)
       \/ /\ Inserts(op[w]) /\ op[w].pc = "insert" /\ table["small"][s].state # "live"
          /\ op[w].reuse # NoSlot /\ s = op[w].reuse

\* A call that inserts does so in the small class.
LEMMA InsertsSmall ==
    ASSUME NEW o, Call(o), Inserts(o), o.val # Big
    PROVE  o.class = "small"
BY DEF Call, Shape, Inserts, Class

\* Undisturbed, a step removes nothing: it leaves the tables, or stores an entry.
LEMMA CalmStep ==
    ASSUME TableInv, OpsInv, Calm, disturbed \in BOOLEAN, NEW w \in Busy, Stepped(w), ~disturbed'
    PROVE  (table' = table /\ total' = total) \/ \E s, e : Stores(w, s, e)
<1> DEFINE o == op[w]
<1>1. w \in Workers /\ Call(o) /\ OpInv(o) /\ o.class \in Classes /\ o.val # Big
    BY DEF OpsInv, Busy, OpInv, Call, Calm
<1>2. \A c \in Classes : \A s \in Slots(c) :
        table[c][s].state = "live" => Matches(table'[c][s], table[c][s].key)
    BY <1>1, LiveKept DEF Stepped
<1> SUFFICES ASSUME ~(table' = table /\ total' = total)
             PROVE  \E s, e : Stores(w, s, e)
    OBVIOUS
<1>3. PICK s, e :
         /\ s \in Slots(o.class)
         /\ table' = [table EXCEPT ![o.class][s] = e]
         /\ \/ e = Tombstone /\ Removal(o, s) /\ total' = total
            \/ Storing(o, s, e)
    BY DEF Stepped, Effect
<1>4. table'[o.class][s] = e
    BY <1>1, <1>3 DEF TableInv
<1>5. table[o.class][s].state = "live" => Matches(e, table[o.class][s].key)
    BY <1>1, <1>2, <1>3, <1>4
<1>6. Storing(o, s, e)
    BY <1>3, <1>5, SMTT(40) DEF Removal, Matches, Tombstone
<1>7. CASE Matches(table[o.class][s], o.key)
    <2>1. o.class = "small"
        BY <1>1, <1>3, <1>7 DEF Calm, Matches, Classes
    <2> QED BY <1>3, <1>6, <1>7, <2>1 DEF Stores
<1>8. CASE ~Matches(table[o.class][s], o.key)
    <2>1. Inserts(o) /\ o.pc = "insert" /\ s \in Targets(o) /\ e.key = o.key
        BY <1>6, <1>8 DEF Storing
    <2>2. o.class = "small" /\ Claims(o)
        BY <1>1, <2>1, InsertsSmall DEF Calm
    <2>3. table["small"][s].state # "live"
        BY <1>5, <1>8, <2>1, <2>2 DEF Matches
    <2>4. o.reuse # NoSlot /\ s = o.reuse
        BY <2>1, <2>2, <2>3 DEF Targets, Claims, Taken
    <2> QED BY <1>3, <1>6, <2>1, <2>2, <2>3, <2>4 DEF Stores
<1> QED BY <1>7, <1>8

\* What a store leaves in the slots.
LEMMA StoredSlots ==
    ASSUME TableInv, NEW w, NEW s, NEW e, Stores(w, s, e)
    PROVE  /\ table'["large"] = table["large"]
           /\ \A t \in Slots("small") : table'["small"][t] = IF t = s THEN e ELSE table["small"][t]
BY DEF Stores, TableInv, Classes

\* A key has no copy when its call inserts it.
LEMMA NoCopyBefore ==
    ASSUME Calm, NEW w \in Busy, Inserts(op[w]), op[w].pc = "insert", op[w].reuse # NoSlot,
           table["small"][op[w].reuse].state # "live"
    PROVE  \A t \in Slots("small") : ~Matches(table["small"][t], op[w].key)
BY DEF Calm, Claims

\* No slot gets a second copy.
LEMMA OneCopyStep ==
    ASSUME TableInv, Calm, NEW w \in Busy, NEW s, NEW e, Stores(w, s, e)
    PROVE  /\ \A t \in Slots("large") : table'["large"][t].state # "live"
           /\ \A t, u \in Slots("small"), k \in Keys :
                Matches(table'["small"][t], k) /\ Matches(table'["small"][u], k) => t = u
<1>1. /\ table'["large"] = table["large"]
      /\ \A t \in Slots("small") : table'["small"][t] = IF t = s THEN e ELSE table["small"][t]
    BY StoredSlots
<1>2. s \in Slots("small") /\ e.key = op[w].key
    BY DEF Stores, Storing
<1>3. ASSUME NEW t \in Slots("small"), t # s, Matches(table["small"][t], op[w].key),
             op[w].key \in Keys
      PROVE  FALSE
    <2>1. CASE Matches(table["small"][s], op[w].key)
        BY <1>2, <1>3, <2>1 DEF Calm
    <2>2. CASE ~Matches(table["small"][s], op[w].key)
        BY <1>3, <2>2, NoCopyBefore DEF Stores
    <2> QED BY <2>1, <2>2
<1>4. ASSUME NEW t \in Slots("small"), NEW u \in Slots("small"), NEW k \in Keys,
             Matches(table'["small"][t], k), Matches(table'["small"][u], k)
      PROVE  t = u
    <2>1. CASE t = s /\ u # s
        BY <1>1, <1>2, <1>3, <1>4, <2>1 DEF Matches
    <2>2. CASE t # s /\ u = s
        BY <1>1, <1>2, <1>3, <1>4, <2>2 DEF Matches
    <2>3. CASE t # s /\ u # s
        BY <1>1, <1>4, <2>3 DEF Calm
    <2> QED BY <2>1, <2>2, <2>3
<1> QED BY <1>1, <1>4 DEF Calm

\* The counter in a slot is the sum of its writes.
Sums ==
    \A s \in Slots("small"), k \in Keys : Matches(table["small"][s], k) =>
        Number(table["small"][s].val) = total[k]

\* What a store makes of the sum of its key.
LEMMA SumOfKey ==
    ASSUME TableInv, OpsInv, Calm, Sums, DOMAIN total = Keys, NEW w \in Busy,
           NEW s, NEW e, Stores(w, s, e)
    PROVE  /\ DOMAIN total' = Keys
           /\ \A k \in Keys : k # op[w].key => total'[k] = total[k]
           /\ Number(e.val) = total'[op[w].key]
<1> DEFINE o == op[w]  old == table["small"][s]
<1>1. Call(o) /\ o.key \in Keys /\ o.class = "small" /\ s \in Slots("small")
    BY DEF OpsInv, Busy, OpInv, Call, Stores
<1>2. Storing(o, s, e)
    BY DEF Stores
<1>3. CASE o.fn \in {"set", "add"} /\ e.val = o.val /\ total' = Sum(o)
    BY <1>1, <1>3 DEF Sum
<1>4. CASE /\ o.fn = "touch" /\ Matches(table[o.class][s], o.key)
           /\ e.val = table[o.class][s].val /\ total' = total
    BY <1>1, <1>4 DEF Sums
<1>5. CASE o.fn = "increment" /\ e = Bumped(o, table[o.class][s]) /\ total' = Counted(o)
    <2>1. /\ old.val \in Nat \cup {Big} /\ old.exp \in Nat
        BY <1>1 DEF TableInv, Classes
    <2>2. e.val \in Nat /\ e.val = IF Matches(old, o.key) /\ ~Expired(old, o.now)
                                   THEN SatAdd(Number(old.val), 1) ELSE 1
        BY <1>1, <1>5, <2>1, BumpedFields, SMTT(40)
    <2>3. Number(e.val) = e.val
        BY <2>2, KvAssumption DEF Number
    <2> DEFINE held == \E p \in Places : Holds(p[1], p[2], o.key, o.now)
               base == IF held THEN total[o.key] ELSE 0
    <2>4. /\ DOMAIN total' = Keys /\ total'[o.key] = SatAdd(base, 1)
          /\ \A k \in Keys : k # o.key => total'[k] = total[k]
        BY <1>1, <1>5 DEF Counted
    <2>5. \A p \in Places : Matches(table[p[1]][p[2]], o.key) =>
             p[1] = "small" /\ p[2] \in Slots("small")
        BY DEF Places, Classes, Calm, Matches
    <2>6. <<"small", s>> \in Places
        BY <1>1, SlotIsSome DEF Places, Classes
    <2>7. CASE Matches(old, o.key)
        <3>1. \A p \in Places : Matches(table[p[1]][p[2]], o.key) =>
                 table[p[1]][p[2]] = old
            BY <1>1, <2>5, <2>7 DEF Calm
        <3>2. held <=> ~Expired(old, o.now)
            <4>1. ASSUME held PROVE ~Expired(old, o.now)
                BY <3>1, <4>1 DEF Holds
            <4>2. ASSUME ~Expired(old, o.now) PROVE held
                <5> DEFINE p == <<"small", s>>
                <5>1. p[1] = "small" /\ p[2] = s /\ p \in Places
                    BY <2>6
                <5> HIDE DEF p
                <5> QED BY <2>7, <4>2, <5>1 DEF Holds
            <4> QED BY <4>1, <4>2
        <3> HIDE DEF held
        <3>3. total[o.key] = Number(old.val)
            BY <1>1, <2>7 DEF Sums
        <3>4. SatAdd(0, 1) = 1
            BY KvAssumption, SMTT(40) DEF SatAdd
        <3>5. CASE held
            BY <2>2, <2>3, <2>4, <2>7, <3>2, <3>3, <3>5
        <3>6. CASE ~held
            BY <2>2, <2>3, <2>4, <3>2, <3>4, <3>6
        <3> QED BY <3>5, <3>6
    <2>8. CASE ~Matches(old, o.key)
        <3>1. \A t \in Slots("small") : ~Matches(table["small"][t], o.key)
            BY <2>8, NoCopyBefore DEF Stores
        <3>2. ~held
            BY <2>5, <3>1 DEF Holds
        <3> HIDE DEF held
        <3>3. SatAdd(0, 1) = 1
            BY KvAssumption, SMTT(40) DEF SatAdd
        <3> QED BY <2>2, <2>3, <2>4, <2>8, <3>2, <3>3
    <2> QED BY <2>7, <2>8
<1> QED BY <1>2, <1>3, <1>4, <1>5 DEF Storing

\* Every copy of a counter holds the sum of what was added to it.
LEMMA SumsStep ==
    ASSUME TableInv, OpsInv, Calm, Sums, DOMAIN total = Keys, NEW w \in Busy,
           NEW s, NEW e, Stores(w, s, e)
    PROVE  \A t \in Slots("small"), k \in Keys : Matches(table'["small"][t], k) =>
               Number(table'["small"][t].val) = total'[k]
<1>1. \A t \in Slots("small") : table'["small"][t] = IF t = s THEN e ELSE table["small"][t]
    BY StoredSlots
<1>2. /\ \A k \in Keys : k # op[w].key => total'[k] = total[k]
      /\ Number(e.val) = total'[op[w].key]
    BY SumOfKey
<1>3. s \in Slots("small") /\ e.key = op[w].key /\ e.state = "live"
    BY DEF Stores, Storing
<1> SUFFICES ASSUME NEW t \in Slots("small"), NEW k \in Keys, Matches(table'["small"][t], k)
             PROVE  Number(table'["small"][t].val) = total'[k]
    OBVIOUS
<1>4. CASE t = s
    BY <1>1, <1>2, <1>3, <1>4 DEF Matches
<1>5. CASE t # s
    <2>1. Matches(table'["small"][s], op[w].key)
        BY <1>1, <1>3 DEF Matches
    <2>2. k # op[w].key
        BY <1>3, <1>5, <2>1, OneCopyStep
    <2> QED BY <1>1, <1>2, <1>5, <2>2, SMTT(40) DEF Sums
<1> QED BY <1>4, <1>5

-----------------------------------------------------------------------------
\* A key that appears in the window of a call that is to insert it takes the slot that the
\* call has marked, unless that slot is taken already.
LEMMA NewCopyTakes ==
    ASSUME TableInv, OpsInv, Calm, NEW w \in Busy, NEW s, NEW e, Stores(w, s, e),
           \A t \in Slots("small") : table["small"][t].state = "live" =>
              table'["small"][t].state = "live",
           NEW o, Call(o), o.class = "small", Claims(o), o.reuse # NoSlot,
           NEW t \in Slots("small"), Matches(table'["small"][t], o.key),
           ~Matches(table["small"][t], o.key)
    PROVE  table'["small"][o.reuse].state = "live"
<1>1. \A u \in Slots("small") : table'["small"][u] = IF u = s THEN e ELSE table["small"][u]
    BY StoredSlots
<1>2. t = s /\ e.key = op[w].key /\ e.state = "live" /\ o.key = op[w].key
    BY <1>1 DEF Stores, Storing, Matches
<1>3. /\ Inserts(op[w]) /\ op[w].reuse # NoSlot /\ s = op[w].reuse
      /\ table["small"][s].state # "live" /\ Claims(op[w]) /\ Call(op[w])
    BY <1>2 DEF Stores, Calm, OpsInv, Busy, OpInv
<1>4. PICK i \in 0 .. op[w].i :
         s = Pos("small", o.key, i) /\ \A m \in 0 .. i - 1 : Taken(Pos("small", o.key, m), o.key)
    BY <1>2, <1>3 DEF Claims
<1>5. PICK j \in 0 .. o.i :
         /\ o.reuse = Pos("small", o.key, j)
         /\ \A m \in 0 .. j - 1 : Taken(Pos("small", o.key, m), o.key)
    BY DEF Claims
<1>6. i \in Nat /\ j \in Nat /\ o.key \in Keys
    BY <1>3, <1>4, <1>5, KvAssumption, SMTT(40) DEF Call, Last
<1>7. o.reuse \in Slots("small")
    BY <1>5, <1>6, PosSlot DEF Classes
<1>8. CASE i < j
    <2>1. Taken(s, o.key)
        BY <1>4, <1>5, <1>6, <1>8, SMTT(40)
    <2> QED BY <1>3, <2>1 DEF Taken
<1>9. CASE j < i
    <2>1. Taken(o.reuse, o.key)
        BY <1>4, <1>5, <1>6, <1>9, SMTT(40)
    <2> QED BY <1>7, <2>1 DEF Taken
<1>10. CASE i = j
    BY <1>1, <1>2, <1>4, <1>5, <1>7, <1>10
<1> QED BY <1>6, <1>8, <1>9, <1>10, SMTT(40)

\* What a call knows of its window stays true.
LEMMA ClaimsKept ==
    ASSUME TableInv, OpsInv, Calm, disturbed \in BOOLEAN, NEW w \in Busy, Stepped(w), ~disturbed',
           NEW o, Call(o), o.class = "small", Inserts(o), Marks(o), Claims(o)
    PROVE  Claims(o)'
<1>1. w \in Workers /\ o.key \in Keys /\ o.i \in Nat
    BY KvAssumption, SMTT(40) DEF Busy, Call, Last
<1>2. \A t \in Slots("small") : table["small"][t].state = "live" =>
        Matches(table'["small"][t], table["small"][t].key)
    BY <1>1, LiveKept DEF Stepped, Classes
<1>3. \A t \in Slots("small") : table["small"][t].state = "live" =>
        table'["small"][t].state = "live"
    BY <1>2 DEF Matches
<1>4. \A t \in Slots("small") : Taken(t, o.key) =>
        table'["small"][t].state = "live" /\ table'["small"][t].key # o.key
    BY <1>2 DEF Taken, Matches
<1>5. /\ \A j \in Nat : Pos("small", o.key, j) \in Slots("small")
      /\ \A j \in 0 .. o.i : j \in Nat /\ \A m \in 0 .. j - 1 : m \in Nat
      /\ \A j \in 0 .. o.i - 1 : j \in Nat
    BY <1>1, PosSlot, SMTT(40) DEF Classes
<1>6. /\ o.reuse # NoSlot => o.reuse \in Slots("small")
      /\ o.stale # NoSlot => o.stale \in Slots("small")
      /\ o.live \subseteq Slots("small")
    BY AtSlot DEF Marks
<1> DEFINE Now(t) == table'["small"][t].state = "live" /\ table'["small"][t].key # o.key
<1>7. \A t \in Slots("small") : Taken(t, o.key) => Now(t)
    BY <1>4
<1>8. o.reuse = NoSlot => \A j \in 0 .. o.i - 1 : Now(Pos("small", o.key, j))
    BY <1>5, <1>7 DEF Claims
<1>9. o.reuse # NoSlot => \E j \in 0 .. o.i :
         /\ o.reuse = Pos("small", o.key, j)
         /\ \A m \in 0 .. j - 1 : Now(Pos("small", o.key, m))
    BY <1>5, <1>7 DEF Claims
<1>10. (o.stale # NoSlot => Now(o.stale)) /\ \A t \in o.live : Now(t)
    BY <1>6, <1>7 DEF Claims
<1>11. ASSUME o.reuse # NoSlot, NEW t \in Slots("small"), Matches(table'["small"][t], o.key),
              Matches(table["small"][t], o.key) => table["small"][o.reuse].state = "live"
       PROVE  table'["small"][o.reuse].state = "live"
    <2>1. CASE Matches(table["small"][t], o.key)
        BY <1>3, <1>6, <1>11, <2>1
    <2>2. CASE ~Matches(table["small"][t], o.key)
        <3>1. table' # table
            BY <1>11, <2>2
        <3>2. PICK s, e : Stores(w, s, e)
            BY <3>1, CalmStep
        <3> QED BY <1>3, <1>11, <2>2, <3>2, NewCopyTakes
    <2> QED BY <2>1, <2>2
<1>12. o.reuse # NoSlot => \A j \in 0 .. o.i - 1 :
          Matches(table'["small"][Pos("small", o.key, j)], o.key) =>
              table'["small"][o.reuse].state = "live"
    BY <1>5, <1>11 DEF Claims
<1>13. o.reuse # NoSlot /\ o.pc = "insert" => \A t \in Slots("small") :
          Matches(table'["small"][t], o.key) => table'["small"][o.reuse].state = "live"
    BY <1>11 DEF Claims
<1> QED BY <1>8, <1>9, <1>10, <1>12, <1>13 DEF Claims, Taken, Pos, Slots, NoSlot

-----------------------------------------------------------------------------
\* What a call knows when it has seen the slot it is at, too.
SeenAll(o) ==
    /\ o.reuse = NoSlot => \A j \in 0 .. o.i : Taken(Pos("small", o.key, j), o.key)
    /\ o.reuse # NoSlot =>
         /\ \E j \in 0 .. o.i :
              /\ o.reuse = Pos("small", o.key, j)
              /\ \A m \in 0 .. j - 1 : Taken(Pos("small", o.key, m), o.key)
         /\ \A j \in 0 .. o.i :
              Matches(table["small"][Pos("small", o.key, j)], o.key) =>
                  table["small"][o.reuse].state = "live"
    /\ o.stale # NoSlot => Taken(o.stale, o.key)
    /\ \A s \in o.live : Taken(s, o.key)

\* A slot that is free or dead becomes the first one that a probe could reuse.
LEMMA SeenFree ==
    ASSUME NEW o, OpInv(o), Inserts(o), o.pc = "probe", o.class = "small", Claims(o),
           table["small"][At(o)].state # "live"
    PROVE  SeenAll(Free(o))
<1> DEFINE y == Free(o)
<1>1. /\ SamePlace(o, y) /\ y.reuse = (IF o.reuse = NoSlot THEN At(o) ELSE o.reuse)
      /\ y.reuse # NoSlot /\ y.stale = o.stale /\ y.live = o.live
    BY FreeGood
<1> HIDE DEF y
<1>2. y.key = o.key /\ y.i = o.i /\ At(o) = Pos("small", o.key, o.i) /\ o.i \in Nat
    BY <1>1, KvAssumption, SMTT(40) DEF SamePlace, Same, At, Inserts, OpInv, Call, Last
<1>3. \A j \in 0 .. o.i : j = o.i \/ j \in 0 .. o.i - 1
    BY <1>2, SMTT(40)
<1>4. ~Matches(table["small"][Pos("small", o.key, o.i)], o.key)
    BY <1>2 DEF Matches
<1>5. o.i \in 0 .. o.i
    BY <1>2, SMTT(40)
<1>6. CASE o.reuse = NoSlot
    <2>1. \A j \in 0 .. o.i - 1 : Taken(Pos("small", o.key, j), o.key)
        BY <1>6 DEF Claims
    <2>2. \A j \in 0 .. o.i : ~Matches(table["small"][Pos("small", o.key, j)], o.key)
        BY <1>3, <1>4, <2>1 DEF Taken, Matches
    <2>3. y.reuse = Pos("small", o.key, o.i)
        BY <1>1, <1>2, <1>6
    <2> QED BY <1>1, <1>2, <1>5, <2>1, <2>2, <2>3 DEF SeenAll, Claims, y
<1>7. CASE o.reuse # NoSlot
    <2>1. y.reuse = o.reuse
        BY <1>1, <1>7
    <2>2. \A j \in 0 .. o.i :
              Matches(table["small"][Pos("small", o.key, j)], o.key) =>
                  table["small"][o.reuse].state = "live"
        BY <1>3, <1>4, <1>7 DEF Claims
    <2> QED BY <1>1, <1>2, <1>7, <2>1, <2>2 DEF SeenAll, Claims, y
<1> QED BY <1>6, <1>7

\* A slot that is taken is passed by.
LEMMA SeenTaken ==
    ASSUME NEW o, OpInv(o), Inserts(o), o.class = "small", Claims(o), Taken(At(o), o.key),
           NEW y, SamePlace(o, y), y.reuse = o.reuse, y.stale \in {o.stale, At(o)},
           y.live \subseteq o.live \cup {At(o)}
    PROVE  SeenAll(y)
<1>1. y.key = o.key /\ y.i = o.i /\ At(o) = Pos("small", o.key, o.i) /\ o.i \in Nat
    BY KvAssumption, SMTT(40) DEF SamePlace, Same, At, Inserts, OpInv, Call, Last
<1>2. \A j \in 0 .. o.i : j = o.i \/ j \in 0 .. o.i - 1
    BY <1>1, SMTT(40)
<1>3. ~Matches(table["small"][Pos("small", o.key, o.i)], o.key)
    BY <1>1 DEF Matches, Taken
<1>4. o.reuse = NoSlot => \A j \in 0 .. o.i : Taken(Pos("small", o.key, j), o.key)
    BY <1>1, <1>2 DEF Claims
<1>5. o.reuse # NoSlot => \A j \in 0 .. o.i :
              Matches(table["small"][Pos("small", o.key, j)], o.key) =>
                  table["small"][o.reuse].state = "live"
    BY <1>2, <1>3 DEF Claims
<1>6. (y.stale # NoSlot => Taken(y.stale, o.key)) /\ \A s \in y.live : Taken(s, o.key)
    BY DEF Claims
<1> QED BY <1>1, <1>4, <1>5, <1>6 DEF SeenAll, Claims

\* What a probe has seen is what it claims at the next slot.
LEMMA SeenAdvances ==
    ASSUME NEW y, OpInv(y), y.pc = "probe", SeenAll(y)
    PROVE  Claims([y EXCEPT !.i = y.i + 1])
<1> DEFINE x == [y EXCEPT !.i = y.i + 1]
<1>1. /\ x.i = y.i + 1 /\ x.key = y.key /\ x.reuse = y.reuse /\ x.stale = y.stale
      /\ x.live = y.live /\ x.pc = "probe"
    BY DEF OpInv, Call, Fields
<1> HIDE DEF x
<1>2. y.i \in Nat
    BY KvAssumption, SMTT(40) DEF OpInv, Call, Last
<1>3. x.i - 1 = y.i /\ \A j \in 0 .. y.i : j \in 0 .. x.i
    BY <1>1, <1>2, SMTT(40)
<1>4. Claims(x)
    BY <1>1, <1>3 DEF SeenAll, Claims
<1> QED BY <1>4 DEF x

\* What a probe has seen is what it claims when it inserts: nothing lies behind an
\* empty slot or the end of the window.
LEMMA SeenInserts ==
    ASSUME TableInv, NEW y, OpInv(y), Inserts(y), y.class = "small", SeenAll(y),
           table["small"][At(y)].state = "empty" \/ y.i = Last(y)
    PROVE  Claims(ToInsert(y))
<1> DEFINE x == ToInsert(y)
<1>1. /\ x.i = y.i /\ x.key = y.key /\ x.reuse = y.reuse /\ x.stale = y.stale
      /\ x.live = y.live
    BY DEF OpInv, Call, Fields, ToInsert
<1> HIDE DEF x
<1>2. y.i \in 0 .. Probe - 1 /\ Last(y) = Probe - 1 /\ At(y) = Pos("small", y.key, y.i)
    BY DEF OpInv, Call, Last, Inserts, At
<1>3. \A j \in 0 .. y.i - 1 : j \in 0 .. y.i
    BY <1>2, KvAssumption, SMTT(40)
<1>4. ASSUME y.reuse # NoSlot, NEW s \in Slots("small"), Matches(table["small"][s], y.key)
      PROVE  table["small"][y.reuse].state = "live"
    <2>1. y.key \in Keys /\ "small" \in Classes /\ Chained(table["small"], "small")
        BY DEF OpInv, Call, TableInv, Classes
    <2>2. \E j \in 0 .. y.i : s = Pos("small", y.key, j)
        BY <1>2, <1>4, <2>1, NotPast, SMTT(40)
    <2> QED BY <1>4, <2>2 DEF SeenAll
<1>5. Claims(x)
    BY <1>1, <1>3, <1>4 DEF SeenAll, Claims
<1> QED BY <1>5 DEF x

\* A call that enters a function knows nothing, and claims nothing.
LEMMA ThenClaims ==
    ASSUME NEW o, Call(o), clock \in Nat, NEW found \in BOOLEAN, Then(o, found) # Idle
    PROVE  Claims(Then(o, found))
<1>1. PICK class \in Classes, fn \in CacheFns : Then(o, found) = Enter(o, class, fn)
    BY ThenGood
<1> DEFINE x == Enter(o, class, fn)
<1>2. x.i = 0 /\ x.reuse = NoSlot /\ x.stale = NoSlot /\ x.live = {}
    BY EnterFields, SMTT(40) DEF Call
<1> HIDE DEF x
<1>3. Claims(x)
    BY <1>2, SMTT(40) DEF Claims
<1> QED BY <1>1, <1>3 DEF x

\* The scan of a set, an add or an increment goes on.
LEMMA ProbeClaims ==
    ASSUME TableInv, OpsInv, Calm, NEW w \in Busy,
           SetProbe(w) \/ AddProbe(w) \/ IncrementProbe(w), op'[w] # Idle
    PROVE  Claims(op'[w])
<1> DEFINE o == op[w]  e == Seen(w)
<1>1. /\ w \in Workers /\ OpInv(o) /\ Call(o) /\ clock \in Nat /\ DOMAIN op = Workers
      /\ o.fn \in {"set", "add", "increment"} /\ o.pc = "probe" /\ Inserts(o)
    BY DEF TableInv, OpsInv, Busy, OpInv, SetProbe, AddProbe, IncrementProbe, Inserts
<1>2. o.class = "small" /\ Claims(o)
    BY <1>1, InsertsSmall DEF Calm
<1>3. At(o) \in Slots("small") /\ e = table["small"][At(o)]
    BY <1>1, <1>2, AtSlot DEF Seen
<1>4. e.state \in {"empty", "dead", "live"}
    BY <1>3 DEF TableInv, Classes
<1>5. ASSUME NEW found \in BOOLEAN, op'[w] = Then(o, found)
      PROVE  Claims(op'[w])
    BY <1>1, <1>5, ThenClaims
<1>6. \A x : Look(w, x) => op'[w] = x
    BY <1>1 DEF Look
<1>7. \A s, f, x, sum : Put(w, s, f, x, sum) => op'[w] = x
    BY <1>1 DEF Put
<1>8. ASSUME NEW y, OpInv(y), SamePlace(o, y), y.pc = "probe", SeenAll(y)
      PROVE  /\ e.state = "empty" \/ y.i = Last(y) => Claims(ToInsert(y))
             /\ Claims([y EXCEPT !.i = y.i + 1])
             /\ y.i = Last(y) \/ y.i < Last(y)
    <2>1. Inserts(y) /\ y.class = "small" /\ At(y) = At(o)
        BY <1>1, <1>2, <1>8 DEF SamePlace, Same, Inserts, At
    <2>2. y.i = Last(y) \/ y.i < Last(y)
        BY <1>8, KvAssumption, SMTT(40) DEF OpInv, Call, Last
    <2> QED BY <1>3, <1>8, <2>1, <2>2, SeenInserts, SeenAdvances
<1>9. ASSUME NEW y, NEW after, OpInv(y), SamePlace(o, y), y.pc = "probe", SeenAll(y),
             op'[w] = Advance(y, after), y.i = Last(y) /\ op'[w] = after => Claims(after)
      PROVE  Claims(op'[w])
    <2>1. CASE y.i < Last(y)
        BY <1>8, <1>9, <2>1 DEF Advance
    <2>2. CASE ~(y.i < Last(y))
        BY <1>8, <1>9, <2>2 DEF Advance
    <2> QED BY <2>1, <2>2
<1>10. CASE e.state # "live" /\ op'[w] \in {ToInsert(Free(o)), Advance(Free(o), ToInsert(Free(o)))}
            /\ (e.state # "empty" => op'[w] = Advance(Free(o), ToInsert(Free(o))))
    <2> DEFINE y == Free(o)
    <2>1. OpInv(y) /\ SamePlace(o, y) /\ y.pc = "probe" /\ SeenAll(y)
        BY <1>1, <1>2, <1>3, <1>10, FreeGood, SeenFree
    <2>2. op'[w] \in {ToInsert(y), Advance(y, ToInsert(y))}
          /\ (e.state # "empty" => op'[w] = Advance(y, ToInsert(y)))
        BY <1>10
    <2> HIDE DEF y
    <2>3. e.state = "empty" \/ y.i = Last(y) => Claims(ToInsert(y))
        BY <1>8, <2>1
    <2>4. CASE op'[w] = Advance(y, ToInsert(y))
        BY <1>9, <2>1, <2>3, <2>4
    <2>5. CASE op'[w] = ToInsert(y) /\ e.state = "empty"
        BY <2>3, <2>5
    <2> QED BY <2>2, <2>4, <2>5
<1>11. ASSUME e.state = "live", ~Matches(e, o.key)
       PROVE  Taken(At(o), o.key)
    BY <1>3, <1>11 DEF Matches, Taken
<1>12. CASE e.state = "live" /\ ~Matches(e, o.key) /\ o.fn = "set"
            /\ op'[w] = Advance(Candidate(o, e), ToInsert(Candidate(o, e)))
    <2> DEFINE y == Candidate(o, e)
    <2>1. /\ OpInv(y) /\ SamePlace(o, y) /\ y.pc = "probe" /\ y.reuse = o.reuse
          /\ y.stale \in {o.stale, At(o)} /\ y.live \subseteq o.live \cup {At(o)}
        BY <1>1, CandidateGood
    <2>2. op'[w] = Advance(y, ToInsert(y))
        BY <1>12
    <2> HIDE DEF y
    <2>3. SeenAll(y)
        BY <1>1, <1>2, <1>11, <1>12, <2>1, SeenTaken
    <2>4. y.i = Last(y) => Claims(ToInsert(y))
        BY <1>8, <2>1, <2>3
    <2> QED BY <1>9, <2>1, <2>2, <2>3, <2>4
<1>13. CASE e.state = "live" /\ ~Matches(e, o.key)
            /\ op'[w] = Advance(o, IF o.reuse = NoSlot THEN Then(o, FALSE) ELSE ToInsert(o))
    <2> DEFINE after == IF o.reuse = NoSlot THEN Then(o, FALSE) ELSE ToInsert(o)
    <2>1. SamePlace(o, o)
        BY <1>1 DEF SamePlace, Same, Call
    <2>2. SeenAll(o)
        BY <1>1, <1>2, <1>11, <1>13, <2>1, SeenTaken
    <2>3. o.i = Last(o) => Claims(ToInsert(o))
        BY <1>1, <1>8, <2>1, <2>2
    <2>4. op'[w] = after /\ o.i = Last(o) => Claims(after)
        BY <1>5, <2>3
    <2>5. op'[w] = Advance(o, after)
        BY <1>13
    <2> HIDE DEF after
    <2> QED BY <1>1, <1>9, <2>1, <2>2, <2>4, <2>5
<1>14. CASE SetProbe(w)
    <2>1. CASE Matches(e, o.key)
        <3>1. op'[w] = Then(o, TRUE)
            BY <1>7, <1>14, <2>1 DEF SetProbe
        <3> QED BY <1>5, <3>1
    <2>2. CASE ~Matches(e, o.key)
        <3> DEFINE x == CASE e.state = "empty" -> ToInsert(Free(o))
                         [] e.state = "dead" -> Advance(Free(o), ToInsert(Free(o)))
                         [] e.state = "live" ->
                              Advance(Candidate(o, e), ToInsert(Candidate(o, e)))
        <3>1. op'[w] = x /\ o.fn = "set"
            BY <1>6, <1>14, <2>2 DEF SetProbe
        <3>2. CASE e.state = "live"
            BY <1>12, <2>2, <3>1, <3>2
        <3>3. CASE e.state # "live"
            BY <1>4, <1>10, <3>1, <3>3
        <3> QED BY <3>2, <3>3
    <2> QED BY <2>1, <2>2
<1>15. CASE AddProbe(w)
    <2>1. CASE Matches(e, o.key)
        <3>1. op'[w] = Then(o, TRUE) \/ op'[w] = Then(o, FALSE)
            <4>1. CASE Expired(e, o.now)
                BY <1>7, <1>15, <2>1, <4>1 DEF AddProbe
            <4>2. CASE ~Expired(e, o.now)
                <5> DEFINE x == CASE Matches(e, o.key) -> Then(o, FALSE)
                             [] e.state = "empty" -> ToInsert(Free(o))
                             [] e.state = "dead" -> Advance(Free(o), ToInsert(Free(o)))
                             [] OTHER -> Advance(o, IF o.reuse = NoSlot THEN Then(o, FALSE)
                                                    ELSE ToInsert(o))
                <5>1. Look(w, x)
                    BY <1>15, <4>2 DEF AddProbe
                <5>2. x = Then(o, FALSE)
                    BY <2>1 DEF Matches
                <5> QED BY <1>6, <5>1, <5>2
            <4> QED BY <4>1, <4>2
        <3> QED BY <1>5, <3>1
    <2>2. CASE ~Matches(e, o.key)
        <3> DEFINE x == CASE e.state = "empty" -> ToInsert(Free(o))
                         [] e.state = "dead" -> Advance(Free(o), ToInsert(Free(o)))
                         [] OTHER -> Advance(o, IF o.reuse = NoSlot THEN Then(o, FALSE)
                                                ELSE ToInsert(o))
        <3>1. op'[w] = x
            BY <1>6, <1>15, <2>2 DEF AddProbe
        <3>2. CASE e.state = "live"
            BY <1>13, <2>2, <3>1, <3>2
        <3>3. CASE e.state # "live"
            BY <1>4, <1>10, <3>1, <3>3
        <3> QED BY <3>2, <3>3
    <2> QED BY <2>1, <2>2
<1>16. CASE IncrementProbe(w)
    <2>1. CASE Matches(e, o.key)
        <3>1. op'[w] = Then(o, TRUE)
            BY <1>7, <1>16, <2>1 DEF IncrementProbe
        <3> QED BY <1>5, <3>1
    <2>2. CASE ~Matches(e, o.key)
        <3> DEFINE x == CASE e.state = "empty" -> ToInsert(Free(o))
                         [] e.state = "dead" -> Advance(Free(o), ToInsert(Free(o)))
                         [] OTHER -> Advance(o, IF o.reuse = NoSlot THEN Then(o, FALSE)
                                                ELSE ToInsert(o))
        <3>1. op'[w] = x
            BY <1>6, <1>16, <2>2 DEF IncrementProbe
        <3>2. CASE e.state = "live"
            BY <1>13, <2>2, <3>1, <3>2
        <3>3. CASE e.state # "live"
            BY <1>4, <1>10, <3>1, <3>3
        <3> QED BY <3>2, <3>3
    <2> QED BY <2>1, <2>2
<1> QED BY <1>14, <1>15, <1>16

\* The other steps end a function, or are no scan for a slot.
LEMMA OtherClaims ==
    ASSUME TableInv, OpsInv, NEW w \in Busy, op'[w] # Idle, Inserts(op'[w]),
           \/ GetSlot(w) \/ Reclaim(w) \/ SetInsert(w) \/ Sweep(w) \/ AddInsert(w)
           \/ IncrementCreate(w) \/ DeleteSlot(w) \/ TouchSlot(w) \/ FlushSlot(w)
    PROVE  Claims(op'[w])
<1> DEFINE o == op[w]  e == Seen(w)
<1>1. w \in Workers /\ Call(o) /\ clock \in Nat /\ DOMAIN op = Workers /\ DOMAIN o = Fields
    BY DEF TableInv, OpsInv, Busy, OpInv, Call
<1>2. \A x : Look(w, x) => op'[w] = x
    BY <1>1 DEF Look
<1>3. \A s, f, x, sum : Put(w, s, f, x, sum) => op'[w] = x
    BY <1>1 DEF Put
<1>4. ASSUME NEW found \in BOOLEAN, op'[w] = Then(o, found)
      PROVE  Claims(op'[w])
    BY <1>1, <1>4, ThenClaims
<1> DEFINE F == Then(o, FALSE)  T == Then(o, TRUE)
<1>5. ASSUME NEW after, op'[w] = Advance(o, after), after \in {F, T},
             o.fn \notin {"set", "add", "increment"} \/ o.pc = "sweep"
      PROVE  Claims(op'[w])
    <2>1. CASE o.i < Last(o)
        <3> DEFINE x == [o EXCEPT !.i = o.i + 1]
        <3>1. x.fn = o.fn /\ x.pc = o.pc /\ op'[w] = x
            BY <1>1, <1>5, <2>1 DEF Fields, Advance
        <3> HIDE DEF x
        <3> QED BY <1>5, <3>1 DEF Inserts
    <2>2. CASE ~(o.i < Last(o))
        BY <1>4, <1>5, <2>2 DEF Advance
    <2> QED BY <2>1, <2>2
<1>6. ASSUME op'[w] \in {F, T} PROVE Claims(op'[w])
    BY <1>4, <1>6
<1>7. ASSUME op'[w] \in {Advance(o, F), Advance(o, T)},
             o.fn \notin {"set", "add", "increment"} \/ o.pc = "sweep"
      PROVE  Claims(op'[w])
    BY <1>5, <1>7
<1> HIDE DEF F, T
<1>8. CASE GetSlot(w)
    <2> DEFINE r == [o EXCEPT !.pc = "reclaim"]
               x == CASE e.state = "empty" -> F
                      [] Matches(e, o.key) /\ ~Expired(e, o.now) -> T
                      [] Matches(e, o.key) /\ Expired(e, o.now) -> r
                      [] OTHER -> Advance(o, F)
    <2>1. Look(w, x) /\ o.fn = "get"
        BY <1>8 DEF GetSlot, F, T
    <2>2. r.fn = o.fn
        BY <1>1 DEF Fields
    <2> HIDE DEF r
    <2>3. x \in {F, T, r, Advance(o, F)}
        OBVIOUS
    <2> HIDE DEF x
    <2>4. op'[w] \in {F, T, r, Advance(o, F)}
        BY <1>2, <2>1, <2>3
    <2>5. op'[w] # r
        BY <2>1, <2>2 DEF Inserts
    <2> QED BY <1>6, <1>7, <2>1, <2>4, <2>5
<1>9. CASE Reclaim(w)
    <2>1. op'[w] = F
        BY <1>2, <1>3, <1>9 DEF Reclaim, F
    <2> QED BY <1>6, <2>1
<1>10. CASE SetInsert(w)
    <2> DEFINE nx(t) == [o EXCEPT !.pc = "sweep", !.i = 0, !.reuse = t, !.stale = NoSlot,
                              !.live = {}]
    <2>1. PICK t : Put(w, t, Entry(o), nx(t), Sum(o))
        BY <1>10 DEF SetInsert
    <2>2. nx(t).pc = "sweep"
        BY <1>1 DEF Fields
    <2> HIDE DEF nx
    <2>3. op'[w] = nx(t)
        BY <1>3, <2>1
    <2> QED BY <2>2, <2>3 DEF Inserts
<1>11. CASE Sweep(w)
    <2>1. op'[w] \in {T, Advance(o, T)} /\ o.pc = "sweep"
        BY <1>2, <1>3, <1>11 DEF Sweep, T
    <2> QED BY <1>6, <1>7, <2>1
<1>12. CASE AddInsert(w)
    <2>1. op'[w] \in {F, T}
        BY <1>2, <1>3, <1>12 DEF AddInsert, F, T
    <2> QED BY <1>6, <2>1
<1>13. CASE IncrementCreate(w)
    <2>1. op'[w] = T
        BY <1>3, <1>13 DEF IncrementCreate, T
    <2> QED BY <1>6, <2>1
<1>14. CASE DeleteSlot(w)
    <2>1. op'[w] \in {T, Advance(o, T)} /\ o.fn = "delete"
        BY <1>2, <1>3, <1>14 DEF DeleteSlot, AfterDelete, T
    <2> QED BY <1>6, <1>7, <2>1
<1>15. CASE TouchSlot(w)
    <2>1. op'[w] \in {F, T, Advance(o, F)} /\ o.fn = "touch"
        BY <1>2, <1>3, <1>15 DEF TouchSlot, F, T
    <2> QED BY <1>6, <1>7, <2>1
<1>16. CASE FlushSlot(w)
    <2>1. op'[w] = Advance(o, T) /\ o.fn = "flush"
        BY <1>2, <1>3, <1>16 DEF FlushSlot, T
    <2> QED BY <1>7, <2>1
<1> QED BY <1>8, <1>9, <1>10, <1>11, <1>12, <1>13, <1>14, <1>15, <1>16

\* A step of a call keeps the counters, and what every probe claims.
LEMMA SumStep ==
    ASSUME TableInv, OpsInv, SumInv, NEW w \in Workers, Step(w), Stepped(w), OpsInv'
    PROVE  SumInv'
<1>1. w \in Busy /\ Record(w) /\ DOMAIN op = Workers
    BY DEF Step, Stepped, OpsInv
<1>2. disturbed' \in BOOLEAN /\ (~disturbed' => ~disturbed)
    BY <1>1 DEF Record
<1>3. DOMAIN total' = Keys
    BY DEF Stepped, Effect, Storing, Sum, Counted, SumInv
<1>4. CASE disturbed'
    BY <1>2, <1>3, <1>4 DEF SumInv
<1>5. CASE ~disturbed'
    <2>1. Calm /\ Sums /\ DOMAIN total = Keys /\ disturbed \in BOOLEAN
        BY <1>2, <1>5 DEF SumInv, Calm, Sums
    <2>2. (table' = table /\ total' = total) \/ \E s, e : Stores(w, s, e)
        BY <1>1, <1>5, <2>1, CalmStep
    <2>3. /\ \A t \in Slots("large") : table'["large"][t].state # "live"
          /\ \A t, u \in Slots("small"), k \in Keys :
                Matches(table'["small"][t], k) /\ Matches(table'["small"][u], k) => t = u
        BY <1>1, <2>1, <2>2, OneCopyStep DEF Calm
    <2>4. \A t \in Slots("small"), k \in Keys : Matches(table'["small"][t], k) =>
               Number(table'["small"][t].val) = total'[k]
        BY <1>1, <2>1, <2>2, SumsStep DEF Sums
    <2>5. PICK x : op' = [op EXCEPT ![w] = x] /\ Goes(op[w], x)
        BY DEF Stepped
    <2>6. op'[w] = x /\ \A v \in Workers : v # w => op'[v] = op[v]
        BY <1>1, <2>5
    <2>7. ASSUME NEW v \in Workers, op'[v] # Idle PROVE op'[v].val # Big
        BY <1>1, <2>1, <2>5, <2>6, <2>7 DEF Calm, Busy, Goes, Same
    <2>8. ASSUME NEW v \in Workers, op'[v] # Idle, Inserts(op'[v]) PROVE Claims(op[v])'
        <3> DEFINE o == op'[v]
        <3>3. Claims(o) /\ OpInv(o)
            <4>1. CASE v = w
                <5>1. Claims(o)
                    BY <1>1, <2>1, <2>8, <4>1, ProbeClaims, OtherClaims DEF Step
                <5>2. OpInv(o)
                    BY <2>5, <2>6, <2>8, <4>1 DEF Goes
                <5> QED BY <5>1, <5>2
            <4>2. CASE v # w
                <5>1. op'[v] = op[v] /\ v \in Busy
                    BY <2>6, <2>8, <4>2 DEF Busy
                <5> QED BY <2>1, <2>8, <5>1 DEF Calm, OpsInv, Busy
            <4> QED BY <4>1, <4>2
        <3>4. Call(o) /\ Marks(o) /\ o.val # Big /\ Inserts(o)
            BY <2>7, <2>8, <3>3 DEF OpInv
        <3> HIDE DEF o
        <3>5. o.class = "small"
            BY <3>4, InsertsSmall
        <3> QED BY <1>1, <1>5, <2>1, <3>3, <3>4, <3>5, ClaimsKept DEF o
    <2> QED BY <1>2, <1>3, <2>3, <2>4, <2>7, <2>8
            DEF SumInv, Busy, Slots, Idle, Inserts, Matches, Number
<1> QED BY <1>4, <1>5

\* What a probe claims is about the table alone.
LEMMA ClaimsSame ==
    ASSUME NEW o, Claims(o), table' = table
    PROVE  Claims(o)'
BY DEF Claims, Taken, Pos, Slots, NoSlot

\* The clock, and the start and the death of a call, keep the counters.
LEMMA SumOthers ==
    ASSUME TableInv, OpsInv, SumInv, Tick \/ \E w \in Workers : Start(w) \/ Die(w)
    PROVE  SumInv'
<1>1. /\ table' = table /\ total' = total /\ disturbed' \in BOOLEAN /\ DOMAIN op = Workers
      /\ ~disturbed' => ~disturbed
    BY DEF SumInv, OpsInv, Tick, Start, Die
<1>2. ASSUME ~disturbed', NEW v \in Workers, op'[v] # Idle
      PROVE  op'[v].val # Big /\ (Inserts(op'[v]) => Claims(op'[v]))
    <2>1. \A u \in Workers : op[u] # Idle =>
             op[u].val # Big /\ (Inserts(op[u]) => Claims(op[u]))
        BY <1>1, <1>2 DEF SumInv, Busy
    <2>2. CASE op'[v] = op[v]
        BY <1>2, <2>1, <2>2
    <2>3. CASE op'[v] # op[v]
        <3>1. PICK w \in Workers : Start(w) \/ Die(w)
            BY <2>3 DEF Tick
        <3>2. ~Die(w)
            BY <1>1, <1>2, <2>3 DEF Die
        <3>3. PICK q \in Requests :
                 /\ op' = [op EXCEPT ![w] = First(Asked(q))]
                 /\ disturbed' = (disturbed \/ q.val = Big)
            BY <3>1, <3>2, StartFacts
        <3> DEFINE x == First(Asked(q))
        <3>4. x.val = q.val /\ x.i = 0 /\ x.reuse = NoSlot /\ x.stale = NoSlot /\ x.live = {}
            BY FirstGood DEF TableInv
        <3>5. op'[v] = x
            BY <1>1, <2>3, <3>3
        <3> HIDE DEF x
        <3>6. Claims(x)
            BY <3>4, SMTT(40) DEF Claims
        <3> QED BY <1>2, <3>3, <3>4, <3>5, <3>6
    <2> QED BY <2>2, <2>3
<1>3. ASSUME ~disturbed', NEW v \in Workers, op'[v] # Idle, Inserts(op'[v])
      PROVE  Claims(op[v])'
    BY <1>1, <1>2, <1>3, ClaimsSame
<1> QED BY <1>1, <1>2, <1>3 DEF SumInv, Busy, Slots, Idle, Inserts, Matches, Number

\* An add that succeeds while nothing is disturbed is the only one.
LEMMA AddsExclude ==
    ASSUME TableInv, OpsInv, SumInv, NEW w \in Workers, AddSucceeds(w), ~disturbed'
    PROVE  Copies(op[w].key) = {}
<1> DEFINE o == op[w]
<1>1. w \in Busy /\ (AddProbe(w) \/ AddInsert(w)) /\ table' # table /\ o.fn = "add"
    BY DEF AddSucceeds, AddProbe, AddInsert
<1>2. Stepped(w) /\ Record(w)
    BY <1>1, AddSteps DEF Stepped
<1>3. Calm /\ disturbed \in BOOLEAN
    BY <1>2 DEF Record, SumInv, Calm
<1>4. PICK s, e : Stores(w, s, e)
    BY <1>1, <1>2, <1>3, CalmStep
<1>5. s \in Slots("small") /\ MayInsert(table["small"][s], o.now)
    BY <1>1, <1>4 DEF Stores, Storing
<1> SUFFICES ASSUME NEW p \in Places, Holds(p[1], p[2], o.key, clock)
             PROVE  FALSE
    BY DEF Copies
<1>6. p[1] = "small" /\ p[2] \in Slots("small") /\ Matches(table["small"][p[2]], o.key)
    BY <1>3 DEF Places, Classes, Calm, Matches, Holds
<1>7. CASE Matches(table["small"][s], o.key)
    <2>1. o.key \in Keys /\ o.now \in Nat /\ o.now <= clock /\ clock \in Nat
        BY <1>1 DEF OpsInv, Busy, OpInv, Call, TableInv
    <2>2. p[2] = s
        BY <1>3, <1>5, <1>6, <1>7, <2>1 DEF Calm
    <2>3. Expired(table["small"][s], o.now) /\ table["small"][s].exp \in Nat
        BY <1>5, <1>7 DEF MayInsert, Matches, TableInv, Classes
    <2>4. Expired(table["small"][s], clock)
        BY <2>1, <2>3, SMTT(40) DEF Expired
    <2> QED BY <1>6, <2>2, <2>4 DEF Holds
<1>8. CASE ~Matches(table["small"][s], o.key)
    BY <1>1, <1>3, <1>4, <1>6, <1>8, NoCopyBefore DEF Stores
<1> QED BY <1>7, <1>8

-----------------------------------------------------------------------------
\* The invariant holds at the start, ...
LEMMA InvInit == Init => Inv
<1> SUFFICES ASSUME Init PROVE Inv
    OBVIOUS
<1>1. PICK small \in Presets :
         /\ table = [c \in Classes |-> IF c = "small" THEN small ELSE [s \in Slots(c) |-> Empty]]
         /\ total = [k \in Keys |-> Summed(small, k)]
         /\ disturbed = (\E s, t \in Slots("small") : s # t /\ Matches(small[s], small[t].key))
    BY DEF Init
<1>2. /\ small \in [Slots("small") -> Cell]
      /\ \A s \in Slots("small") : small[s].state = "live" => small[s].key \in Keys
      /\ Chained(small, "small")
    BY PresetsAssumption
<1>3. table["small"] = small /\ table["large"] = [s \in Slots("large") |-> Empty]
    BY <1>1 DEF Classes
<1>4. ScanInv /\ OpsInv /\ Busy = {}
    BY ScanInit DEF ScanInv, Init, OpsInv, Busy
<1>5. GoneInv
    BY <1>4 DEF Init, GoneInv
<1>6. SumInv
    <2>1. disturbed \in BOOLEAN /\ DOMAIN total = Keys
        BY <1>1
    <2> SUFFICES ASSUME ~disturbed
                 PROVE  /\ \A s \in Slots("large") : table["large"][s].state # "live"
                        /\ \A s, t \in Slots("small"), k \in Keys :
                             Matches(small[s], k) /\ Matches(small[t], k) => s = t
                        /\ \A s \in Slots("small"), k \in Keys :
                             Matches(small[s], k) => Number(small[s].val) = total[k]
        BY <1>3, <1>4, <2>1 DEF SumInv
    <2>2. \A s, t \in Slots("small"), k \in Keys :
             Matches(small[s], k) /\ Matches(small[t], k) => s = t
        BY <1>1 DEF Matches
    <2>3. ASSUME NEW s \in Slots("small"), NEW k \in Keys, Matches(small[s], k)
          PROVE  Number(small[s].val) = total[k]
        <3> DEFINE at == {t \in Slots("small") : Matches(small[t], k)}
        <3>1. at = {s}
            BY <2>2, <2>3
        <3>2. (CHOOSE t \in at : TRUE) = s
            BY <3>1
        <3>3. Summed(small, k) = Number(small[s].val)
            BY <3>1, <3>2 DEF Summed
        <3> QED BY <1>1, <3>3
    <2>4. \A s \in Slots("large") : table["large"][s].state # "live"
        BY <1>3, SMTT(40) DEF Empty
    <2> QED BY <2>2, <2>3, <2>4
<1> QED BY <1>4, <1>5, <1>6 DEF Inv

\* The removed keys, where neither table nor calls change.
LEMMA GoneSame ==
    ASSUME GoneInv, table' = table, op' = op, gone' = gone, dirty' = dirty
    PROVE  GoneInv'
<1>1. Busy' = Busy /\ \A v : Clears(op[v])' = Clears(op[v])
    BY DEF Busy, Idle, Clears
<1>2. \A k : Quiet(k) => Quiet(k)'
    BY <1>1 DEF Quiet, Writes
<1>3. \A c, k : Without(c, k) => Without(c, k)'
    BY DEF Without, Slots, Matches
<1>4. \A v, k : Cleared(op[v], k) => Cleared(op[v], k)'
    BY <1>3 DEF Cleared, Visit, Pos, Matches
<1> QED BY <1>1, <1>2, <1>3, <1>4 DEF GoneInv

\* ... and every step keeps it.
LEMMA InvStep == Inv /\ [Next]_vars => Inv'
<1> SUFFICES ASSUME Inv, [Next]_vars PROVE Inv'
    OBVIOUS
<1>1. TableInv /\ OpsInv /\ FindsInv /\ GoneInv /\ SumInv
    BY DEF Inv, ScanInv
<1>2. ScanInv'
    BY ScanStep DEF Inv
<1>3. ASSUME NEW w \in Workers, Step(w) PROVE GoneInv' /\ SumInv'
    <2>1. w \in Busy /\ Stepped(w)
        BY <1>1, <1>3, StepSteps
    <2>2. OpsInv'
        BY <1>1, <2>1, OpsStep
    <2> QED BY <1>1, <1>3, <2>1, <2>2, GoneStep, SumStep
<1>4. ASSUME NEW w \in Workers, Start(w) PROVE GoneInv' /\ SumInv'
    BY <1>1, <1>4, GoneStart, SumOthers
<1>5. ASSUME NEW w \in Workers, Die(w) PROVE GoneInv' /\ SumInv'
    BY <1>1, <1>5, GoneDie, SumOthers
<1>6. CASE Tick
    <2>1. table' = table /\ op' = op /\ gone' = gone /\ dirty' = dirty
        BY <1>6 DEF Tick
    <2> QED BY <1>1, <1>2, <1>6, <2>1, GoneSame, SumOthers DEF Inv
<1>7. CASE UNCHANGED vars
    <2>1. /\ table' = table /\ op' = op /\ clock' = clock /\ steady' = steady /\ dirty' = dirty
          /\ gone' = gone /\ total' = total /\ disturbed' = disturbed
        BY <1>7 DEF vars, world, history
    <2>2. GoneInv'
        BY <1>1, <2>1, GoneSame
    <2>3. SumInv'
        <3>1. \A v \in Workers : Claims(op'[v]) => Claims(op[v])'
            BY <2>1, ClaimsSame
        <3> QED BY <1>1, <2>1, <3>1 DEF SumInv, Busy, Slots, Idle, Inserts, Matches, Number
    <2> QED BY <1>2, <2>2, <2>3 DEF Inv
<1> QED BY <1>2, <1>3, <1>4, <1>5, <1>6, <1>7 DEF Next, Inv

\* After a delete or a flush that no write of the key overlapped, no slot of either class
\* holds the key, whatever races came before.
THEOREM DeletesHold == Spec => []DeletedKeysAreGone
<1>1. Inv => DeletedKeysAreGone
    BY DEF Inv, GoneInv, Without, DeletedKeysAreGone, Places, Classes
<1> QED BY <1>1, InvInit, InvStep, PTL DEF Spec

\* As long as no slot is freed or given to another key, a counter is the sum of its
\* increments and of two adds of a key one fails.
THEOREM UpdatesHold == Spec => UpdatesAreAtomic
<1>1. Inv => CountersAddUp
    BY SMTT(40) DEF Inv, SumInv, CountersAddUp, Places, Classes, Matches
<1>2. Inv /\ [Next]_vars => AddIsExclusiveUndisturbed
    BY AddsExclude DEF Inv, ScanInv, AddIsExclusiveUndisturbed
<1>3. Inv /\ Inv' /\ [Next]_vars =>
        [<<table, total>>' # <<table, total>> => CountersAddUp' /\ AddIsExclusiveUndisturbed]_vars
    <2>1. Inv' => CountersAddUp'
        BY <1>1, PTL
    <2> QED BY <1>2, <2>1
<1> QED BY <1>3, InvInit, InvStep, PTL DEF Spec, UpdatesAreAtomic

=============================================================================
