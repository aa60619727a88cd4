---------------------------- MODULE KvTableProofs ---------------------------
(***************************************************************************)
(* The tables of the shared key-value cache and the calls that scan them   *)
(* (cache.rs), for any number of workers, keys, slots and calls, any       *)
(* hashes and any probe window: stored keys stay until they are asked for  *)
(* or their slot is taken, and are found.                                  *)
(*                                                                         *)
(* The tables are chained: an operation inserts only where it has passed   *)
(* no empty slot, and no slot becomes empty again.  So a scan may stop at  *)
(* an empty slot, and a get has passed none of the slots that held its key *)
(* throughout.                                                             *)
(***************************************************************************)
EXTENDS KvCache, TLAPS

\* A leaf that names no prover is tried with Zenon.
USE ZenonT(40)

-----------------------------------------------------------------------------
\* The tables.
TableInv ==
    /\ clock \in Nat
    /\ DOMAIN table = Classes
    /\ \A c \in Classes :
         /\ DOMAIN table[c] = Slots(c)
         /\ \A s \in Slots(c) :
              /\ table[c][s].state \in {"empty", "dead", "live"}
              /\ table[c][s].state = "live" => table[c][s].key \in Keys
              /\ table[c][s].exp \in Nat /\ table[c][s].val \in Nat \cup {Big}
         /\ Chained(table[c], c)

-----------------------------------------------------------------------------
\* The calls in progress.
Fields == {"call", "key", "app", "val", "ttl", "class", "fn", "pc", "i", "now", "reuse", "stale",
           "live"}

\* The functions of the cache that a call is made of.
CacheFns == {"get", "set", "add", "increment", "delete", "touch", "flush"}

\* Which function a call is in, on which class, and where in it.
Shape(o) ==
    \/ /\ o.fn = "get" /\ o.pc \in {"probe", "reclaim"}
       /\ o.call = "get" \/ (o.call = "add" /\ o.class = "large")
    \/ /\ o.fn = "set" /\ o.call = "set" /\ o.class = Class(o.val)
       /\ o.pc \in {"probe", "insert", "sweep"}
    \/ /\ o.fn = "add" /\ o.call = "add" /\ o.class = "small" /\ o.pc \in {"probe", "insert"}
    \/ /\ o.fn = "increment" /\ o.call = "increment" /\ o.class = "small"
       /\ o.pc \in {"probe", "insert"}
    \/ /\ o.fn = "delete" /\ o.call \in {"set", "delete"} /\ o.pc = "probe"
    \/ /\ o.fn \in {"touch", "flush"} /\ o.call = o.fn /\ o.pc = "probe"

Call(o) ==
    /\ DOMAIN o = Fields
    /\ o.key \in Keys /\ o.app = AppOf[o.key] /\ o.val \in Nat \cup {Big} /\ o.ttl \in Nat
    /\ o.class \in Classes /\ o.now \in Nat /\ o.i \in 0 .. Last(o)
    /\ o.call # "none" /\ Shape(o)

\* The slots a scan has passed are not empty.
Past(o) ==
    o.fn # "flush" /\ o.pc # "sweep" =>
        \A j \in 0 .. o.i - 1 : table[o.class][Pos(o.class, o.key, j)].state # "empty"

\* The slots it has marked are of the part of the window it has seen.
Window(o) == {Pos(o.class, o.key, j) : j \in 0 .. o.i}
Inserts(o) == o.fn \in {"set", "add", "increment"} /\ o.pc \in {"probe", "insert"}
Marks(o) ==
    Inserts(o) =>
        /\ o.reuse # NoSlot => o.reuse \in Window(o)
        /\ o.stale # NoSlot => o.stale \in Window(o)
        /\ o.live \subseteq Window(o)
        /\ o.pc = "insert" /\ o.fn # "set" => o.reuse # NoSlot

OpInv(o) == Call(o) /\ o.now <= clock /\ Past(o) /\ Marks(o)
OpsInv == DOMAIN op = Workers /\ \A w \in Workers : op[w] = Idle \/ OpInv(op[w])

-----------------------------------------------------------------------------
\* The slots that have held the key of a get throughout are ahead of it.
SteadyInv(w) ==
    /\ op[w] = Idle => steady[w] = {}
    /\ \A p \in steady[w] :
         /\ op[w].call = "get" /\ op[w].pc = "probe"
         /\ p \in Places /\ Holds(p[1], p[2], op[w].key, clock)
         /\ op[w].class = "large" => p[1] = "large"
         /\ p[1] = op[w].class =>
              \A j \in 0 .. op[w].i - 1 : p[2] # Pos(op[w].class, op[w].key, j)
FindsInv == DOMAIN steady = Workers /\ \A w \in Workers : SteadyInv(w)


-----------------------------------------------------------------------------
\* The slots of a window are slots of the table.
LEMMA PosSlot ==
    ASSUME NEW c \in Classes, NEW k \in Keys, NEW i \in Nat
    PROVE  Pos(c, k, i) \in Slots(c)
<1>1. N[c] \in Nat \ {0} /\ Home[c][k] \in Nat
    BY KvAssumption, SMTT(40) DEF Slots
<1> QED BY <1>1, SMTT(40) DEF Pos, Slots

\* No slot has the number that stands for none.
LEMMA SlotIsSome ==
    ASSUME NEW c \in Classes, NEW s \in Slots(c)
    PROVE  s # NoSlot /\ s \in Nat /\ s \in 0 .. NoSlot
<1>1. N["small"] \in Nat \ {0} /\ N["large"] \in Nat \ {0}
    BY KvAssumption DEF Classes
<1> QED BY <1>1, SMTT(40) DEF Slots, NoSlot, Classes

\* A copy of a key is in the part of the window that a scan has seen, once the scan
\* meets an empty slot or the end of the window: no copy is behind it.
LEMMA NotPast ==
    ASSUME NEW c \in Classes, NEW k \in Keys, NEW s \in Slots(c), NEW i \in 0 .. Probe - 1,
           Chained(table[c], c), Matches(table[c][s], k),
           table[c][Pos(c, k, i)].state = "empty" \/ i = Probe - 1
    PROVE  \E j \in 0 .. i : s = Pos(c, k, j)
<1>1. PICK j \in 0 .. Probe - 1 :
         /\ s = Pos(c, k, j)
         /\ \A m \in 0 .. j - 1 : table[c][Pos(c, k, m)].state # "empty"
    BY DEF Chained, Matches
<1>2. Probe \in Nat \ {0}
    BY KvAssumption
<1>3. CASE j <= i
    BY <1>1, <1>2, <1>3, SMTT(40)
<1>4. CASE i < j
    <2>1. i \in 0 .. j - 1
        BY <1>2, <1>4, SMTT(40)
    <2>2. i # Probe - 1
        BY <1>2, <1>4, SMTT(40)
    <2> QED BY <1>1, <2>1, <2>2
<1> QED BY <1>2, <1>3, <1>4, SMTT(40)

-----------------------------------------------------------------------------
\* x is the same call as o.
Same(o, x) == /\ x.call = o.call /\ x.key = o.key /\ x.app = o.app /\ x.val = o.val
              /\ x.ttl = o.ttl

\* What Enter makes of a call.
LEMMA EnterFields ==
    ASSUME NEW o, DOMAIN o = Fields, NEW class, NEW fn
    PROVE  LET x == Enter(o, class, fn)
           IN /\ DOMAIN x = Fields /\ Same(o, x)
              /\ x.class = class /\ x.fn = fn /\ x.pc = "probe" /\ x.i = 0 /\ x.now = clock
              /\ x.reuse = NoSlot /\ x.stale = NoSlot /\ x.live = {}
BY DEF Enter, Fields, Same

\* A call that starts on a class knows nothing yet.
LEMMA EnterGood ==
    ASSUME NEW o, DOMAIN o = Fields, clock \in Nat, NEW class \in Classes, NEW fn,
           o.key \in Keys, o.app = AppOf[o.key], o.val \in Nat \cup {Big}, o.ttl \in Nat,
           o.call # "none", Shape(Enter(o, class, fn))
    PROVE  OpInv(Enter(o, class, fn)) /\ Same(o, Enter(o, class, fn))
<1> DEFINE x == Enter(o, class, fn)
<1>1. /\ DOMAIN x = Fields /\ Same(o, x)
      /\ x.class = class /\ x.fn = fn /\ x.pc = "probe" /\ x.i = 0 /\ x.now = clock
      /\ x.reuse = NoSlot /\ x.stale = NoSlot /\ x.live = {}
    BY EnterFields
<1>2. Shape(x)
    OBVIOUS
<1> HIDE DEF x
<1>3. 0 \in 0 .. Last(x)
    BY <1>1, KvAssumption, SMTT(40) DEF Last
<1>4. Call(x)
    BY <1>1, <1>2, <1>3 DEF Call, Same
<1>5. x.now <= clock /\ Past(x) /\ Marks(x)
    BY <1>1, SMTT(40) DEF Past, Marks, Inserts
<1> QED BY <1>1, <1>4, <1>5 DEF OpInv, x

\* The next function of a call.
LEMMA ThenGood ==
    ASSUME NEW o, Call(o), clock \in Nat, NEW found \in BOOLEAN
    PROVE  Then(o, found) = Idle
           \/ /\ OpInv(Then(o, found)) /\ Same(o, Then(o, found))
              /\ \E class \in Classes, fn \in CacheFns : Then(o, found) = Enter(o, class, fn)
<1> DEFINE x == Then(o, found)
<1>1. \/ x = Idle
      \/ \E class \in Classes, fn \in CacheFns :
           /\ x = Enter(o, class, fn)
           /\ \/ o.call = "get" /\ fn = "get"
              \/ o.call = "set" /\ fn = "set" /\ class = Class(o.val)
              \/ o.call = "add" /\ fn = "add" /\ class = "small"
              \/ o.call = "delete" /\ fn = "delete"
              \/ o.call = "touch" /\ fn = "touch"
              \/ o.call = "flush" /\ fn = "flush"
    BY DEF Then, Classes, Class, CacheFns
<1> HIDE DEF x
<1>2. CASE x # Idle
    <2>1. PICK class \in Classes, fn \in CacheFns :
           /\ x = Enter(o, class, fn)
           /\ \/ o.call = "get" /\ fn = "get"
              \/ o.call = "set" /\ fn = "set" /\ class = Class(o.val)
              \/ o.call = "add" /\ fn = "add" /\ class = "small"
              \/ o.call = "delete" /\ fn = "delete"
              \/ o.call = "touch" /\ fn = "touch"
              \/ o.call = "flush" /\ fn = "flush"
        BY <1>1, <1>2
    <2>2. DOMAIN o = Fields
        BY DEF Call
    <2>3. /\ Same(o, x) /\ x.class = class /\ x.fn = fn /\ x.pc = "probe"
        BY <2>1, <2>2, EnterFields, SMTT(40)
    <2>4. Shape(x)
        BY <2>1, <2>3 DEF Shape, Same
    <2>5. OpInv(x) /\ Same(o, x)
        BY <2>1, <2>2, <2>4, EnterGood DEF Call
    <2> QED BY <2>1, <2>5 DEF x
<1> QED BY <1>2 DEF x

\* The next slot.
LEMMA AdvanceGood ==
    ASSUME NEW o, OpInv(o), o.pc # "insert", o.i < Last(o),
           o.fn # "flush" /\ o.pc # "sweep" => table[o.class][At(o)].state # "empty"
    PROVE  LET x == [o EXCEPT !.i = o.i + 1]
           IN /\ OpInv(x) /\ Same(o, x) /\ x.i = o.i + 1 /\ x.class = o.class /\ x.fn = o.fn
              /\ x.pc = o.pc /\ x.now = o.now /\ x.reuse = o.reuse /\ x.stale = o.stale
              /\ x.live = o.live
<1> DEFINE x == [o EXCEPT !.i = o.i + 1]
<1>1. /\ DOMAIN x = Fields /\ Same(o, x) /\ x.i = o.i + 1 /\ x.class = o.class /\ x.fn = o.fn
      /\ x.pc = o.pc /\ x.now = o.now /\ x.reuse = o.reuse /\ x.stale = o.stale
      /\ x.live = o.live
    BY DEF OpInv, Call, Fields, Same
<1>2. Last(x) = Last(o) /\ Last(o) \in Nat /\ o.i \in Nat
    BY <1>1, KvAssumption, SMTT(40) DEF Last, OpInv, Call
<1> HIDE DEF x
<1>3. Shape(x)
    BY <1>1 DEF OpInv, Call, Shape, Same
<1>4. Call(x)
    BY <1>1, <1>2, <1>3, SMTT(40) DEF OpInv, Call, Same
<1>5. Past(x)
    <2> SUFFICES ASSUME x.fn # "flush", x.pc # "sweep", NEW j \in 0 .. x.i - 1
                 PROVE  table[x.class][Pos(x.class, x.key, j)].state # "empty"
        BY DEF Past
    <2>1. x.key = o.key /\ x.class = o.class /\ (j \in 0 .. o.i - 1 \/ j = o.i)
        BY <1>1, <1>2, SMTT(40) DEF Same
    <2>2. CASE j \in 0 .. o.i - 1
        BY <1>1, <2>1, <2>2 DEF OpInv, Past
    <2>3. CASE j = o.i
        BY <1>1, <2>1, <2>3 DEF At
    <2> QED BY <2>1, <2>2, <2>3
<1>6. Window(o) \subseteq Window(x)
    BY <1>1, <1>2, SMTT(40) DEF Window, Same
<1>7. Marks(x)
    BY <1>1, <1>6 DEF OpInv, Marks, Inserts
<1> QED BY <1>1, <1>4, <1>5, <1>7 DEF OpInv, x

\* The slot a scan looks at is a slot of its table and of its window.
LEMMA AtSlot ==
    ASSUME NEW o, Call(o)
    PROVE  /\ At(o) \in Slots(o.class)
           /\ o.fn # "flush" => At(o) \in Window(o)
           /\ \A s \in Window(o) : s \in Slots(o.class) /\ s # NoSlot
<1>1. o.i \in Nat /\ o.class \in Classes /\ o.key \in Keys
    BY KvAssumption, SMTT(40) DEF Call, Last
<1>2. \A s \in Window(o) : s \in Slots(o.class) /\ s # NoSlot
    BY <1>1, PosSlot, SlotIsSome, SMTT(40) DEF Window
<1>3. CASE o.fn = "flush"
    BY <1>1, <1>2, <1>3, KvAssumption DEF At, Call, Last, Slots
<1>4. CASE o.fn # "flush"
    BY <1>1, <1>2, <1>4, PosSlot, SMTT(40) DEF At, Window
<1> QED BY <1>2, <1>3, <1>4

\* A step of a scan that leaves all but its marks and its place in the function alone.
SamePlace(o, x) ==
    /\ DOMAIN x = Fields /\ Same(o, x) /\ x.class = o.class /\ x.fn = o.fn /\ x.i = o.i
    /\ x.now = o.now

\* The free slot is marked.
LEMMA FreeGood ==
    ASSUME NEW o, OpInv(o), Inserts(o), o.pc = "probe"
    PROVE  /\ OpInv(Free(o)) /\ SamePlace(o, Free(o)) /\ Free(o).pc = "probe"
           /\ Free(o).reuse = (IF o.reuse = NoSlot THEN At(o) ELSE o.reuse)
           /\ Free(o).reuse # NoSlot
           /\ Free(o).stale = o.stale /\ Free(o).live = o.live
<1> DEFINE x == Free(o)
<1>1. /\ SamePlace(o, x) /\ x.pc = "probe"
      /\ x.reuse = (IF o.reuse = NoSlot THEN At(o) ELSE o.reuse)
      /\ x.stale = o.stale /\ x.live = o.live
    BY DEF OpInv, Call, Fields, Same, SamePlace, Free
<1>2. /\ At(o) \in Window(o) /\ At(o) # NoSlot
    BY AtSlot DEF OpInv, Inserts
<1> HIDE DEF x
<1>3. Window(x) = Window(o) /\ Last(x) = Last(o)
    BY <1>1 DEF Window, Last, SamePlace, Same
<1>4. Shape(x)
    BY <1>1 DEF OpInv, Call, Shape, Same, SamePlace, Inserts
<1>5. Call(x)
    BY <1>1, <1>3, <1>4 DEF OpInv, Call, Same, SamePlace
<1>6. Past(x)
    BY <1>1 DEF OpInv, Past, Same, SamePlace
<1>7. x.reuse # NoSlot /\ x.reuse \in Window(o)
    BY <1>1, <1>2 DEF OpInv, Marks
<1>8. Marks(x)
    BY <1>1, <1>3, <1>7 DEF OpInv, Marks, SamePlace
<1> QED BY <1>1, <1>5, <1>6, <1>7, <1>8 DEF OpInv, SamePlace, x

\* A live slot of another key is marked.
LEMMA CandidateGood ==
    ASSUME NEW o, OpInv(o), Inserts(o), o.pc = "probe", NEW e
    PROVE  /\ OpInv(Candidate(o, e)) /\ SamePlace(o, Candidate(o, e))
           /\ Candidate(o, e).pc = "probe" /\ Candidate(o, e).reuse = o.reuse
           /\ Candidate(o, e).stale \in {o.stale, At(o)}
           /\ Candidate(o, e).live = o.live \cup {At(o)}
<1> DEFINE x == Candidate(o, e)
<1>1. /\ SamePlace(o, x) /\ x.pc = "probe" /\ x.reuse = o.reuse
      /\ x.stale \in {o.stale, At(o)} /\ x.live = o.live \cup {At(o)}
    BY DEF OpInv, Call, Fields, Same, SamePlace, Candidate
<1>2. At(o) \in Window(o)
    BY AtSlot DEF OpInv, Inserts
<1> HIDE DEF x
<1>3. Window(x) = Window(o) /\ Last(x) = Last(o)
    BY <1>1 DEF Window, Last, SamePlace, Same
<1>4. Shape(x)
    BY <1>1 DEF OpInv, Call, Shape, Same, SamePlace, Inserts
<1>5. Call(x)
    BY <1>1, <1>3, <1>4 DEF OpInv, Call, Same, SamePlace
<1>6. Past(x)
    BY <1>1 DEF OpInv, Past, Same, SamePlace
<1>8. Marks(x)
    BY <1>1, <1>2, <1>3 DEF OpInv, Marks, SamePlace
<1> QED BY <1>1, <1>5, <1>6, <1>8 DEF OpInv, SamePlace, x

\* The scan is over and the key is to be inserted.
LEMMA ToInsertGood ==
    ASSUME NEW o, OpInv(o), Inserts(o), o.fn # "set" => o.reuse # NoSlot
    PROVE  /\ OpInv(ToInsert(o)) /\ SamePlace(o, ToInsert(o)) /\ ToInsert(o).pc = "insert"
           /\ ToInsert(o).reuse = o.reuse /\ ToInsert(o).stale = o.stale
           /\ ToInsert(o).live = o.live
<1> DEFINE x == ToInsert(o)
<1>1. /\ SamePlace(o, x) /\ x.pc = "insert" /\ x.reuse = o.reuse /\ x.stale = o.stale
      /\ x.live = o.live
    BY DEF OpInv, Call, Fields, Same, SamePlace, ToInsert
<1> HIDE DEF x
<1>3. Window(x) = Window(o) /\ Last(x) = Last(o)
    BY <1>1 DEF Window, Last, SamePlace, Same
<1>4. Shape(x)
    BY <1>1 DEF OpInv, Call, Shape, Same, SamePlace, Inserts
<1>5. Call(x)
    BY <1>1, <1>3, <1>4 DEF OpInv, Call, Same, SamePlace
<1>6. Past(x)
    BY <1>1 DEF OpInv, Past, Same, SamePlace, Inserts
<1>8. Marks(x)
    BY <1>1, <1>3 DEF OpInv, Marks, SamePlace, Inserts
<1> QED BY <1>1, <1>5, <1>6, <1>8 DEF OpInv, SamePlace, x

-----------------------------------------------------------------------------
\* How a step of a call ends: with the call, or further on in it.
Goes(o, x) == x # o /\ (x = Idle \/ (OpInv(x) /\ Same(o, x)))

\* The end of a function ends its call, or leads to the call's next function.
LEMMA ThenGoes ==
    ASSUME NEW o, Call(o), clock \in Nat, NEW found \in BOOLEAN
    PROVE  Goes(o, Then(o, found))
<1>1. o # Idle /\ DOMAIN o = Fields
    BY SMTT(40) DEF Call, Idle, None
<1>2. \A class, fn : Enter(o, class, fn).class = class /\ Enter(o, class, fn).fn = fn
    BY <1>1, EnterFields, SMTT(40)
<1>3. \/ Then(o, found) = Idle
      \/ \E class, fn : Then(o, found) = Enter(o, class, fn) /\ (class # o.class \/ fn # o.fn)
    BY DEF Then
<1>4. Then(o, found) # o
    BY <1>1, <1>2, <1>3, SMTT(40)
<1> QED BY <1>4, ThenGood DEF Goes

\* A scan that goes on keeps what is known of it, if it passes no empty slot.
LEMMA AdvanceGoes ==
    ASSUME NEW o, NEW y, NEW after, OpInv(y), Same(o, y), y.i = o.i, y.pc # "insert",
           Goes(o, after),
           y.fn # "flush" /\ y.pc # "sweep" => table[y.class][At(y)].state # "empty"
    PROVE  Goes(o, Advance(y, after))
<1>1. CASE y.i < Last(y)
    <2> DEFINE x == [y EXCEPT !.i = y.i + 1]
    <2>1. OpInv(x) /\ Same(y, x) /\ x.i = y.i + 1
        BY <1>1, AdvanceGood
    <2> HIDE DEF x
    <2>2. y.i \in Nat
        BY KvAssumption, SMTT(40) DEF OpInv, Call, Last
    <2>3. x # o
        BY <2>1, <2>2, SMTT(40)
    <2>4. Advance(y, after) = x
        BY <1>1 DEF Advance, x
    <2> QED BY <2>1, <2>3, <2>4 DEF Goes, Same
<1>2. CASE ~(y.i < Last(y))
    BY <1>2 DEF Advance
<1> QED BY <1>1, <1>2

\* Why a call empties a slot.
Removal(o, s) ==
    \/ Matches(table[o.class][s], o.key) /\ Expired(table[o.class][s], o.now)
    \/ Matches(table[o.class][s], o.key) /\ o.fn \in {"delete", "set"}
    \/ /\ o.fn = "flush" /\ table[o.class][s].state = "live"
       /\ AppOf[table[o.class][s].key] = o.app

\* What a call stores where, and what its writes then add up to.
Storing(o, s, e) ==
    /\ e.state = "live" /\ e.key = o.key /\ e.val \in Nat \cup {Big} /\ e.exp \in Nat
    /\ \/ Matches(table[o.class][s], o.key)
       \/ Inserts(o) /\ o.pc = "insert" /\ s \in Targets(o)
    /\ o.fn = "add" => MayInsert(table[o.class][s], o.now)
    /\ \/ o.fn \in {"set", "add"} /\ e.val = o.val /\ total' = Sum(o)
       \/ /\ o.fn = "touch" /\ Matches(table[o.class][s], o.key)
          /\ e.val = table[o.class][s].val /\ total' = total
       \/ o.fn = "increment" /\ e = Bumped(o, table[o.class][s]) /\ total' = Counted(o)

\* What a step of w does to the tables.
Effect(w) ==
    \/ table' = table /\ total' = total
    \/ \E s \in Slots(op[w].class) : \E e :
         /\ table' = [table EXCEPT ![op[w].class][s] = e]
         /\ \/ e = Tombstone /\ Removal(op[w], s) /\ total' = total
            \/ Storing(op[w], s, e)

Stepped(w) ==
    /\ \E x : op' = [op EXCEPT ![w] = x] /\ Goes(op[w], x)
    /\ UNCHANGED world
    /\ Record(w)
    /\ Effect(w)

\* A step that writes nothing.
LEMMA LookSteps ==
    ASSUME NEW w \in Workers, NEW x, Look(w, x), Goes(op[w], x)
    PROVE  Stepped(w)
BY DEF Look, Stepped, Effect

\* A step that removes a copy.
LEMMA PutRemoves ==
    ASSUME NEW w \in Workers, NEW x, NEW s \in Slots(op[w].class), Put(w, s, Tombstone, x, total),
           Goes(op[w], x), Removal(op[w], s)
    PROVE  Stepped(w)
BY DEF Put, Stepped, Effect

\* A step that stores an entry.
LEMMA PutStores ==
    ASSUME NEW w \in Workers, NEW x, NEW s \in Slots(op[w].class), NEW e, NEW sum,
           Put(w, s, e, x, sum), Goes(op[w], x), total' = sum => Storing(op[w], s, e)
    PROVE  Stepped(w)
BY DEF Put, Stepped, Effect

\* The entry that set and add write.
LEMMA EntryFields ==
    ASSUME NEW o, Call(o)
    PROVE  /\ Entry(o).state = "live" /\ Entry(o).key = o.key /\ Entry(o).val = o.val
           /\ Entry(o).exp \in Nat /\ Entry(o).val \in Nat \cup {Big}
BY SMTT(40) DEF Entry, Live, Deadline, Call

\* The entry that increment writes: a number, under the call's key.
LEMMA BumpedFields ==
    ASSUME NEW o, Call(o), NEW e, e.val \in Nat \cup {Big}, e.exp \in Nat
    PROVE  LET b == Bumped(o, e)
           IN /\ b.state = "live" /\ b.key = o.key /\ b.val \in Nat /\ b.exp \in Nat
              /\ b.val = (IF Matches(e, o.key) /\ ~Expired(e, o.now)
                          THEN SatAdd(Number(e.val), 1) ELSE 1)
<1>1. Number(e.val) \in Nat
    BY DEF Number
<1>2. SatAdd(Number(e.val), 1) \in Nat
    BY <1>1, KvAssumption, SMTT(40) DEF SatAdd
<1>3. Deadline(o.now, o.ttl) \in Nat
    BY SMTT(40) DEF Deadline, Call
<1> QED BY <1>2, <1>3 DEF Bumped, Live

-----------------------------------------------------------------------------
\* Every step of a call is of that kind.
LEMMA GetSteps ==
    ASSUME TableInv, OpsInv, NEW w \in Busy, GetSlot(w) \/ Reclaim(w)
    PROVE  Stepped(w)
<1> DEFINE o == op[w]  e == Seen(w)
<1>1. w \in Workers /\ OpInv(o) /\ clock \in Nat
    BY DEF TableInv, OpsInv, Busy
<1>2. Call(o) /\ At(o) \in Slots(o.class)
    BY <1>1, AtSlot DEF OpInv
<1>3. Goes(o, Then(o, FALSE)) /\ Goes(o, Then(o, TRUE))
    BY <1>1, <1>2, ThenGoes
<1>4. CASE GetSlot(w)
    <2>1. o.fn = "get" /\ o.pc = "probe"
        BY <1>4 DEF GetSlot
    <2>2. Goes(o, [o EXCEPT !.pc = "reclaim"])
        <3> DEFINE x == [o EXCEPT !.pc = "reclaim"]
        <3>1. /\ SamePlace(o, x) /\ x.pc = "reclaim" /\ x.reuse = o.reuse
            BY <1>2 DEF Call, Fields, Same, SamePlace
        <3> HIDE DEF x
        <3>2. Shape(x) /\ Last(x) = Last(o)
            BY <1>2, <2>1, <3>1 DEF Call, Shape, Same, SamePlace, Last
        <3>3. Call(x)
            BY <1>2, <3>1, <3>2 DEF Call, Same, SamePlace
        <3>4. Past(x) /\ Marks(x) /\ x.now <= clock
            BY <1>1, <2>1, <3>1 DEF OpInv, Past, Same, SamePlace, Marks, Inserts
        <3>5. x # o
            BY <2>1, <3>1
        <3> QED BY <3>1, <3>3, <3>4, <3>5 DEF Goes, OpInv, SamePlace, x
    <2>3. e.state # "empty" => Goes(o, Advance(o, Then(o, FALSE)))
        BY <1>1, <1>3, <2>1, AdvanceGoes DEF Seen, Same
    <2>4. \E x : Look(w, x) /\ Goes(o, x)
        <3> DEFINE x == CASE e.state = "empty" -> Then(o, FALSE)
                    [] Matches(e, o.key) /\ ~Expired(e, o.now) -> Then(o, TRUE)
                    [] Matches(e, o.key) /\ Expired(e, o.now) ->
                         [o EXCEPT !.pc = "reclaim"]
                    [] OTHER -> Advance(o, Then(o, FALSE))
        <3>1. Look(w, x)
            BY <1>4 DEF GetSlot
        <3>2. Goes(o, x)
            BY <1>3, <2>2, <2>3
        <3> QED BY <3>1, <3>2
    <2> QED BY <1>1, <2>4, LookSteps
<1>5. CASE Reclaim(w)
    <2>1. CASE StillExpired(Seen(w), o)
        <3>1. Put(w, At(o), Tombstone, Then(o, FALSE), total) /\ Removal(o, At(o))
            BY <1>5, <2>1 DEF Reclaim, Removal, StillExpired, Seen
        <3> QED BY <1>1, <1>2, <1>3, <3>1, PutRemoves
    <2>2. CASE ~StillExpired(Seen(w), o)
        BY <1>1, <1>3, <1>5, <2>2, LookSteps DEF Reclaim
    <2> QED BY <2>1, <2>2
<1> QED BY <1>4, <1>5

\* The ways a scan for a slot goes on.
LEMMA FreeGoes ==
    ASSUME NEW o, OpInv(o), Inserts(o), o.pc = "probe"
    PROVE  /\ Goes(o, ToInsert(Free(o)))
           /\ table[o.class][At(o)].state # "empty" =>
                Goes(o, Advance(Free(o), ToInsert(Free(o))))
<1> DEFINE y == Free(o)
<1>1. OpInv(y) /\ SamePlace(o, y) /\ y.pc = "probe" /\ y.reuse # NoSlot
    BY FreeGood
<1>2. Inserts(y) /\ At(y) = At(o)
    BY <1>1 DEF Inserts, SamePlace, Same, At
<1>3. Goes(o, ToInsert(y))
    BY <1>1, <1>2, ToInsertGood DEF Goes, SamePlace, Same
<1>4. ASSUME table[o.class][At(o)].state # "empty"
      PROVE  Goes(o, Advance(y, ToInsert(y)))
    <2> HIDE DEF y
    <2>1. /\ Same(o, y) /\ y.i = o.i /\ y.pc # "insert"
          /\ table[y.class][At(y)].state # "empty"
        BY <1>1, <1>2, <1>4 DEF SamePlace
    <2> QED BY <1>1, <1>3, <2>1, AdvanceGoes
<1> QED BY <1>3, <1>4

\* set goes on after a slot that it may overwrite, to the next or to its insert.
LEMMA CandidateGoes ==
    ASSUME NEW o, OpInv(o), o.fn = "set", o.pc = "probe", NEW e,
           table[o.class][At(o)].state # "empty"
    PROVE  Goes(o, Advance(Candidate(o, e), ToInsert(Candidate(o, e))))
<1> DEFINE y == Candidate(o, e)
<1>1. OpInv(y) /\ SamePlace(o, y) /\ y.pc = "probe"
    BY CandidateGood DEF Inserts
<1>2. Inserts(y) /\ At(y) = At(o) /\ y.fn = "set"
    BY <1>1 DEF Inserts, SamePlace, Same, At
<1>3. Goes(o, ToInsert(y))
    BY <1>1, <1>2, ToInsertGood DEF Goes, SamePlace, Same
<1> HIDE DEF y
<1>4. Same(o, y) /\ y.i = o.i /\ y.pc # "insert" /\ table[y.class][At(y)].state # "empty"
    BY <1>1, <1>2 DEF SamePlace
<1>5. Goes(o, Advance(y, ToInsert(y)))
    BY <1>1, <1>3, <1>4, AdvanceGoes
<1> QED BY <1>5 DEF y

\* Every step of a call is a Stepped one.  First set: its probe, its insert and its
\* sweep over the copies elsewhere in the window.
LEMMA SetProbeSteps ==
    ASSUME TableInv, OpsInv, NEW w \in Busy, SetProbe(w)
    PROVE  Stepped(w)
<1> DEFINE o == op[w]  e == Seen(w)
<1>1. w \in Workers /\ OpInv(o) /\ clock \in Nat /\ o.fn = "set" /\ o.pc = "probe"
    BY DEF TableInv, OpsInv, Busy, SetProbe
<1>2. Call(o) /\ At(o) \in Slots(o.class) /\ o.class \in Classes
    BY <1>1, AtSlot DEF OpInv, Call
<1>3. e.state \in {"empty", "dead", "live"}
    BY <1>2 DEF TableInv, Seen
<1>4. CASE Matches(e, o.key)
    <2>1. Put(w, At(o), Entry(o), Then(o, TRUE), Sum(o))
        BY <1>4 DEF SetProbe
    <2>2. total' = Sum(o) => Storing(o, At(o), Entry(o))
        BY <1>1, <1>2, <1>4, EntryFields DEF Storing, Seen
    <2> QED BY <1>1, <1>2, <2>1, <2>2, ThenGoes, PutStores
<1>5. CASE ~Matches(e, o.key)
    <2> DEFINE x == CASE e.state = "empty" -> ToInsert(Free(o))
                      [] e.state = "dead" -> Advance(Free(o), ToInsert(Free(o)))
                      [] e.state = "live" -> Advance(Candidate(o, e), ToInsert(Candidate(o, e)))
    <2>1. Look(w, x)
        BY <1>5 DEF SetProbe
    <2>2. e = table[o.class][At(o)]
        BY DEF Seen
    <2>3. Inserts(o)
        BY <1>1 DEF Inserts
    <2>4. Goes(o, x)
        BY <1>1, <1>3, <2>2, <2>3, FreeGoes, CandidateGoes
    <2> QED BY <1>1, <2>1, <2>4, LookSteps
<1> QED BY <1>4, <1>5

\* The slots an insertion may take are of the window.
LEMMA TargetsSeen ==
    ASSUME NEW o, OpInv(o), Inserts(o)
    PROVE  \A t \in Targets(o) : t \in Window(o) /\ t \in Slots(o.class)
BY AtSlot DEF OpInv, Marks, Targets

\* The insert of set.
LEMMA SetInsertSteps ==
    ASSUME TableInv, OpsInv, NEW w \in Busy, SetInsert(w)
    PROVE  Stepped(w)
<1> DEFINE o == op[w]
<1>1. w \in Workers /\ OpInv(o) /\ clock \in Nat /\ o.fn = "set" /\ o.pc = "insert"
    BY DEF TableInv, OpsInv, Busy, SetInsert
<1>2. Call(o) /\ Inserts(o)
    BY <1>1 DEF OpInv, Inserts
<1> DEFINE nx(t) == [o EXCEPT !.pc = "sweep", !.i = 0, !.reuse = t, !.stale = NoSlot,
                              !.live = {}]
<1>3. PICK t \in Targets(o) : Put(w, t, Entry(o), nx(t), Sum(o))
    BY DEF SetInsert
<1>4. t \in Slots(o.class)
    BY <1>1, <1>2, TargetsSeen
<1>5. total' = Sum(o) => Storing(o, t, Entry(o))
    BY <1>1, <1>2, <1>3, EntryFields DEF Storing
<1>6. Goes(o, nx(t))
    <2> DEFINE x == nx(t)
    <2>1. /\ DOMAIN x = Fields /\ Same(o, x) /\ x.class = o.class /\ x.fn = o.fn /\ x.i = 0
          /\ x.now = o.now /\ x.pc = "sweep"
        BY <1>2 DEF Call, Fields, Same
    <2> HIDE DEF x
    <2>2. Shape(x) /\ Last(x) = Last(o) /\ 0 \in 0 .. Last(o)
        BY <1>1, <1>2, <2>1, KvAssumption, SMTT(40) DEF Call, Shape, Same, Last
    <2>3. Call(x)
        BY <1>2, <2>1, <2>2 DEF Call, Same
    <2>4. Past(x) /\ Marks(x) /\ x.now <= clock
        BY <1>1, <2>1 DEF OpInv, Past, Marks, Inserts
    <2>5. x # o
        BY <1>1, <2>1
    <2> QED BY <2>1, <2>3, <2>4, <2>5 DEF Goes, OpInv, x
<1> HIDE DEF nx
<1> QED BY <1>1, <1>3, <1>4, <1>5, <1>6, PutStores

\* The sweep of set.
LEMMA SweepSteps ==
    ASSUME TableInv, OpsInv, NEW w \in Busy, Sweep(w)
    PROVE  Stepped(w)
<1> DEFINE o == op[w]  e == Seen(w)
<1>1. w \in Workers /\ OpInv(o) /\ clock \in Nat /\ o.fn = "set" /\ o.pc = "sweep"
    BY DEF TableInv, OpsInv, Busy, Sweep
<1>2. Call(o) /\ At(o) \in Slots(o.class)
    BY <1>1, AtSlot DEF OpInv
<1>3. Goes(o, Then(o, TRUE))
    BY <1>1, <1>2, ThenGoes
<1>4. Goes(o, Advance(o, Then(o, TRUE)))
    BY <1>1, <1>3, AdvanceGoes DEF Same
<1>5. CASE At(o) # o.reuse /\ Matches(e, o.key)
    <2>1. Put(w, At(o), Tombstone, Advance(o, Then(o, TRUE)), total) /\ Removal(o, At(o))
        BY <1>1, <1>5 DEF Sweep, Removal, Seen
    <2> QED BY <1>1, <1>2, <1>4, <2>1, PutRemoves
<1>6. CASE ~(At(o) # o.reuse /\ Matches(e, o.key))
    <2> DEFINE x == IF At(o) # o.reuse /\ e.state = "empty" THEN Then(o, TRUE)
                    ELSE Advance(o, Then(o, TRUE))
    <2>1. Look(w, x)
        BY <1>6 DEF Sweep
    <2>2. Goes(o, x)
        BY <1>3, <1>4
    <2> QED BY <1>1, <2>1, <2>2, LookSteps
<1> QED BY <1>5, <1>6

\* add.
LEMMA AddSteps ==
    ASSUME TableInv, OpsInv, NEW w \in Busy, AddProbe(w) \/ AddInsert(w)
    PROVE  Stepped(w)
<1> DEFINE o == op[w]  e == Seen(w)
<1>1. w \in Workers /\ OpInv(o) /\ clock \in Nat /\ o.fn = "add"
    BY DEF TableInv, OpsInv, Busy, AddProbe, AddInsert
<1>2. Call(o) /\ At(o) \in Slots(o.class) /\ o.class \in Classes
    BY <1>1, AtSlot DEF OpInv, Call
<1>3. Goes(o, Then(o, TRUE)) /\ Goes(o, Then(o, FALSE))
    BY <1>1, <1>2, ThenGoes
<1>4. CASE AddProbe(w)
    <2>1. o.pc = "probe" /\ Inserts(o)
        BY <1>1, <1>4 DEF AddProbe, Inserts
    <2>2. e = table[o.class][At(o)]
        BY DEF Seen
    <2>3. CASE Matches(e, o.key) /\ Expired(e, o.now)
        <3>1. Put(w, At(o), Entry(o), Then(o, TRUE), Sum(o))
            BY <1>4, <2>3 DEF AddProbe
        <3>2. total' = Sum(o) => Storing(o, At(o), Entry(o))
            BY <1>1, <1>2, <2>2, <2>3, EntryFields DEF Storing, MayInsert
        <3> QED BY <1>1, <1>2, <1>3, <3>1, <3>2, PutStores
    <2>4. CASE ~(Matches(e, o.key) /\ Expired(e, o.now))
        <3> DEFINE after == IF o.reuse = NoSlot THEN Then(o, FALSE) ELSE ToInsert(o)
                   x == CASE Matches(e, o.key) -> Then(o, FALSE)
                          [] e.state = "empty" -> ToInsert(Free(o))
                          [] e.state = "dead" -> Advance(Free(o), ToInsert(Free(o)))
                          [] OTHER -> Advance(o, after)
        <3>1. Look(w, x)
            BY <1>4, <2>4 DEF AddProbe
        <3>2. Goes(o, after)
            BY <1>1, <1>3, <2>1, ToInsertGood DEF Goes, SamePlace
        <3> HIDE DEF after
        <3>3. e.state # "empty" => Goes(o, Advance(o, after))
            BY <1>1, <2>1, <2>2, <3>2, AdvanceGoes DEF Same
        <3>4. Goes(o, x)
            BY <1>1, <1>3, <2>1, <2>2, <3>3, FreeGoes
        <3> QED BY <1>1, <3>1, <3>4, LookSteps
    <2> QED BY <2>3, <2>4
<1>5. CASE AddInsert(w)
    <2>1. o.pc = "insert" /\ Inserts(o)
        BY <1>1, <1>5 DEF AddInsert, Inserts
    <2>2. o.reuse # NoSlot /\ o.reuse \in Targets(o)
        BY <1>1, <2>1 DEF OpInv, Marks, Targets
    <2>3. o.reuse \in Slots(o.class)
        BY <1>1, <2>1, <2>2, TargetsSeen
    <2>4. CASE MayInsert(table[o.class][o.reuse], o.now)
        <3>1. Put(w, o.reuse, Entry(o), Then(o, TRUE), Sum(o))
            BY <1>5, <2>4 DEF AddInsert
        <3>2. total' = Sum(o) => Storing(o, o.reuse, Entry(o))
            BY <1>1, <1>2, <2>1, <2>2, <2>4, EntryFields DEF Storing
        <3> QED BY <1>1, <1>3, <2>3, <3>1, <3>2, PutStores
    <2>5. CASE ~MayInsert(table[o.class][o.reuse], o.now)
        BY <1>1, <1>3, <1>5, <2>5, LookSteps DEF AddInsert
    <2> QED BY <2>4, <2>5
<1> QED BY <1>4, <1>5

\* increment.
LEMMA IncrementSteps ==
    ASSUME TableInv, OpsInv, NEW w \in Busy, IncrementProbe(w) \/ IncrementCreate(w)
    PROVE  Stepped(w)
<1> DEFINE o == op[w]  e == Seen(w)
<1>1. w \in Workers /\ OpInv(o) /\ clock \in Nat /\ o.fn = "increment"
    BY DEF TableInv, OpsInv, Busy, IncrementProbe, IncrementCreate
<1>2. Call(o) /\ At(o) \in Slots(o.class) /\ o.class \in Classes
    BY <1>1, AtSlot DEF OpInv, Call
<1>3. Goes(o, Then(o, TRUE)) /\ Goes(o, Then(o, FALSE))
    BY <1>1, <1>2, ThenGoes
<1>4. \A s \in Slots(o.class) :
        LET b == Bumped(o, table[o.class][s])
        IN b.state = "live" /\ b.key = o.key /\ b.val \in Nat /\ b.exp \in Nat
    BY <1>2, BumpedFields DEF TableInv
<1>5. CASE IncrementProbe(w)
    <2>1. o.pc = "probe" /\ Inserts(o)
        BY <1>1, <1>5 DEF IncrementProbe, Inserts
    <2>2. e = table[o.class][At(o)]
        BY DEF Seen
    <2>3. CASE Matches(e, o.key)
        <3>1. Put(w, At(o), Bumped(o, e), Then(o, TRUE), Counted(o))
            BY <1>5, <2>3 DEF IncrementProbe
        <3>2. total' = Counted(o) => Storing(o, At(o), Bumped(o, e))
            BY <1>1, <1>2, <1>4, <2>2, <2>3 DEF Storing
        <3> QED BY <1>1, <1>2, <1>3, <3>1, <3>2, PutStores
    <2>4. CASE ~Matches(e, o.key)
        <3> DEFINE after == IF o.reuse = NoSlot THEN Then(o, FALSE) ELSE ToInsert(o)
                   x == CASE e.state = "empty" -> ToInsert(Free(o))
                          [] e.state = "dead" -> Advance(Free(o), ToInsert(Free(o)))
                          [] OTHER -> Advance(o, after)
        <3>1. Look(w, x)
            BY <1>5, <2>4 DEF IncrementProbe
        <3>2. Goes(o, after)
            BY <1>1, <1>3, <2>1, ToInsertGood DEF Goes, SamePlace
        <3> HIDE DEF after
        <3>3. e.state # "empty" => Goes(o, Advance(o, after))
            BY <1>1, <2>1, <2>2, <3>2, AdvanceGoes DEF Same
        <3>4. Goes(o, x)
            BY <1>1, <1>3, <2>1, <2>2, <3>3, FreeGoes
        <3> QED BY <1>1, <3>1, <3>4, LookSteps
    <2> QED BY <2>3, <2>4
<1>6. CASE IncrementCreate(w)
    <2>1. o.pc = "insert" /\ Inserts(o)
        BY <1>1, <1>6 DEF IncrementCreate, Inserts
    <2>2. o.reuse # NoSlot /\ o.reuse \in Targets(o)
        BY <1>1, <2>1 DEF OpInv, Marks, Targets
    <2>3. o.reuse \in Slots(o.class)
        BY <1>1, <2>1, <2>2, TargetsSeen
    <2> DEFINE b == Bumped(o, table[o.class][o.reuse])
    <2>4. Put(w, o.reuse, b, Then(o, TRUE), Counted(o))
        BY <1>6 DEF IncrementCreate, Created
    <2>5. total' = Counted(o) => Storing(o, o.reuse, b)
        BY <1>1, <1>2, <1>4, <2>1, <2>2, <2>3 DEF Storing
    <2> QED BY <1>1, <1>3, <2>3, <2>4, <2>5, PutStores
<1> QED BY <1>5, <1>6

\* delete, touch and flush.
LEMMA OtherSteps ==
    ASSUME TableInv, OpsInv, NEW w \in Busy, DeleteSlot(w) \/ TouchSlot(w) \/ FlushSlot(w)
    PROVE  Stepped(w)
<1> DEFINE o == op[w]  e == Seen(w)
<1>1. w \in Workers /\ OpInv(o) /\ clock \in Nat
    BY DEF TableInv, OpsInv, Busy
<1>2. Call(o) /\ At(o) \in Slots(o.class) /\ o.class \in Classes
    BY <1>1, AtSlot DEF OpInv, Call
<1>3. Goes(o, Then(o, TRUE)) /\ Goes(o, Then(o, FALSE))
    BY <1>1, <1>2, ThenGoes
<1>4. e = table[o.class][At(o)]
    BY DEF Seen
<1>5. o.fn \in {"delete", "touch", "flush"} /\ o.pc = "probe"
    BY <1>2 DEF DeleteSlot, TouchSlot, FlushSlot, Call, Shape
<1>6. e.state # "empty" \/ o.fn = "flush" =>
        Goes(o, Advance(o, Then(o, TRUE))) /\ Goes(o, Advance(o, Then(o, FALSE)))
    BY <1>1, <1>3, <1>4, <1>5, AdvanceGoes DEF Same
<1>7. CASE DeleteSlot(w)
    <2>1. CASE Matches(e, o.key)
        <3>1. Put(w, At(o), Tombstone, Advance(o, Then(o, TRUE)), total) /\ Removal(o, At(o))
            BY <1>4, <1>7, <2>1 DEF DeleteSlot, Removal, AfterDelete
        <3>2. e.state # "empty"
            BY <2>1 DEF Matches
        <3> QED BY <1>1, <1>2, <1>6, <3>1, <3>2, PutRemoves
    <2>2. CASE ~Matches(e, o.key)
        <3> DEFINE x == IF e.state = "empty" THEN Then(o, TRUE) ELSE Advance(o, Then(o, TRUE))
        <3>1. Look(w, x)
            BY <1>7, <2>2 DEF DeleteSlot
        <3>2. Goes(o, x)
            BY <1>3, <1>6
        <3> QED BY <1>1, <3>1, <3>2, LookSteps
    <2> QED BY <2>1, <2>2
<1>8. CASE TouchSlot(w)
    <2>1. CASE Matches(e, o.key) /\ Expired(e, o.now)
        <3>1. Put(w, At(o), Tombstone, Then(o, FALSE), total) /\ Removal(o, At(o))
            BY <1>4, <1>8, <2>1 DEF TouchSlot, Removal
        <3> QED BY <1>1, <1>2, <1>3, <3>1, PutRemoves
    <2>2. CASE Matches(e, o.key) /\ ~Expired(e, o.now)
        <3> DEFINE f == Live(o.key, e.val, Deadline(o.now, o.ttl))
        <3>1. Put(w, At(o), f, Then(o, TRUE), total) /\ o.fn = "touch"
            BY <1>8, <2>2 DEF TouchSlot
        <3>2. e.val \in Nat \cup {Big} /\ Deadline(o.now, o.ttl) \in Nat
            BY <1>2, <1>4, SMTT(40) DEF TableInv, Deadline, Call
        <3>3. /\ f.state = "live" /\ f.key = o.key /\ f.val = e.val
              /\ f.exp = Deadline(o.now, o.ttl)
            BY DEF Live
        <3> HIDE DEF f
        <3>4. total' = total => Storing(o, At(o), f)
            BY <1>4, <2>2, <3>1, <3>2, <3>3 DEF Storing
        <3> QED BY <1>1, <1>2, <1>3, <3>1, <3>4, PutStores
    <2>3. CASE ~Matches(e, o.key)
        <3> DEFINE x == IF e.state = "empty" THEN Then(o, FALSE) ELSE Advance(o, Then(o, FALSE))
        <3>1. Look(w, x)
            BY <1>8, <2>3 DEF TouchSlot
        <3>2. Goes(o, x)
            BY <1>3, <1>6
        <3> QED BY <1>1, <3>1, <3>2, LookSteps
    <2> QED BY <2>1, <2>2, <2>3
<1>9. CASE FlushSlot(w)
    <2>1. CASE e.state = "live" /\ AppOf[e.key] = o.app
        <3>1. Put(w, At(o), Tombstone, Advance(o, Then(o, TRUE)), total) /\ Removal(o, At(o))
            BY <1>4, <1>9, <2>1 DEF FlushSlot, Removal
        <3>2. o.fn = "flush"
            BY <1>9 DEF FlushSlot
        <3> QED BY <1>1, <1>2, <1>6, <3>1, <3>2, PutRemoves
    <2>2. CASE ~(e.state = "live" /\ AppOf[e.key] = o.app)
        BY <1>1, <1>6, <1>9, <2>2, LookSteps DEF FlushSlot
    <2> QED BY <2>1, <2>2
<1> QED BY <1>7, <1>8, <1>9

\* All of them.
LEMMA StepSteps ==
    ASSUME TableInv, OpsInv, NEW w \in Workers, Step(w)
    PROVE  w \in Busy /\ Stepped(w)
BY GetSteps, SetProbeSteps, SetInsertSteps, SweepSteps, AddSteps, IncrementSteps, OtherSteps
   DEF Step

-----------------------------------------------------------------------------
\* What a step does to a slot.
Changes(w, c, s) ==
    \/ table'[c][s] = table[c][s]
    \/ /\ c = op[w].class
       /\ \/ table'[c][s] = Tombstone /\ Removal(op[w], s) /\ total' = total
          \/ Storing(op[w], s, table'[c][s])

\* A step changes one slot at most, and in one of these ways.
LEMMA SlotChange ==
    ASSUME TableInv, OpsInv, NEW w \in Busy, Stepped(w)
    PROVE  /\ DOMAIN table' = Classes
           /\ \A c \in Classes : DOMAIN table'[c] = Slots(c)
           /\ \A c \in Classes : \A s \in Slots(c) : Changes(w, c, s)
<1>1. op[w].class \in Classes
    BY DEF OpsInv, Busy, OpInv, Call
<1>2. CASE table' = table
    BY <1>2 DEF TableInv, Changes
<1>3. CASE table' # table
    <2>1. PICK s, e :
            /\ s \in Slots(op[w].class)
            /\ table' = [table EXCEPT ![op[w].class][s] = e]
            /\ \/ e = Tombstone /\ Removal(op[w], s) /\ total' = total
               \/ Storing(op[w], s, e)
        BY <1>3 DEF Stepped, Effect
    <2>2. DOMAIN table' = Classes /\ \A c \in Classes : DOMAIN table'[c] = Slots(c)
        BY <1>1, <2>1 DEF TableInv
    <2>3. \A c \in Classes : \A t \in Slots(c) :
             table'[c][t] = IF c = op[w].class /\ t = s THEN e ELSE table[c][t]
        BY <1>1, <2>1 DEF TableInv
    <2>4. \A c \in Classes : \A t \in Slots(c) : Changes(w, c, t)
        BY <2>1, <2>3, SMTT(40) DEF Changes
    <2> QED BY <2>2, <2>4
<1> QED BY <1>2, <1>3

\* No slot is empty again.
LEMMA NeverEmptyAgain ==
    ASSUME NEW w, NEW c, NEW s, Changes(w, c, s), table[c][s].state # "empty"
    PROVE  table'[c][s].state # "empty"
BY SMTT(40) DEF Changes, Tombstone, Storing

\* A stored entry was stored by w, or its key was there before.
LEMMA NewCopies ==
    ASSUME NEW w, NEW c, NEW s, Changes(w, c, s), NEW k, Matches(table'[c][s], k)
    PROVE  \/ Matches(table[c][s], k)
           \/ /\ c = op[w].class /\ k = op[w].key /\ Inserts(op[w]) /\ op[w].pc = "insert"
              /\ s \in Targets(op[w])
BY SMTT(40) DEF Changes, Tombstone, Storing, Matches

\* The slots that a scan passes stay passed.
LEMMA OpKept ==
    ASSUME NEW o, OpInv(o), clock \in Nat, clock' \in Nat, clock <= clock',
           \A c \in Classes : \A s \in Slots(c) :
              table[c][s].state # "empty" => table'[c][s].state # "empty"
    PROVE  OpInv(o)'
<1>1. Call(o)' /\ Marks(o)'
    BY DEF OpInv, Call, Marks, Shape, Inserts, Window, Last, Pos, NoSlot, Slots, Class
<1>3. o.now <= clock'
    BY SMTT(40) DEF OpInv, Call
<1>2. Past(o)'
    <2> SUFFICES ASSUME o.fn # "flush", o.pc # "sweep", NEW j \in 0 .. o.i - 1
                 PROVE  table'[o.class][Pos(o.class, o.key, j)].state # "empty"
        BY DEF Past, Pos
    <2>1. o.class \in Classes /\ o.key \in Keys /\ j \in Nat
        BY KvAssumption, SMTT(40) DEF OpInv, Call, Last
    <2>2. Pos(o.class, o.key, j) \in Slots(o.class)
        BY <2>1, PosSlot
    <2> QED BY <2>1, <2>2 DEF OpInv, Past
<1> QED BY <1>1, <1>2, <1>3 DEF OpInv

\* A step keeps what is known of every call: its own, and those that it interrupts.
LEMMA OpsStep ==
    ASSUME TableInv, OpsInv, NEW w \in Busy, Stepped(w)
    PROVE  OpsInv'
<1>1. PICK x : op' = [op EXCEPT ![w] = x] /\ Goes(op[w], x)
    BY DEF Stepped
<1>2. \A c \in Classes : \A s \in Slots(c) :
         table[c][s].state # "empty" => table'[c][s].state # "empty"
    BY SlotChange, NeverEmptyAgain
<1>3. clock' \in Nat /\ clock \in Nat /\ clock <= clock'
    BY SMTT(40) DEF Stepped, world, TableInv
<1>4. ASSUME NEW v \in Workers PROVE op'[v] = Idle \/ OpInv(op'[v])
    BY <1>1 DEF OpsInv, Goes
<1>5. ASSUME NEW v \in Workers PROVE op'[v] = Idle \/ OpInv(op[v])'
    BY <1>2, <1>3, <1>4, OpKept
<1>6. DOMAIN op' = Workers
    BY <1>1 DEF OpsInv
<1> QED BY <1>5, <1>6 DEF OpsInv, Idle

\* A chain that a step leaves whole.
LEMMA ChainStep ==
    ASSUME TableInv, OpsInv, NEW w \in Busy, Stepped(w), NEW c \in Classes
    PROVE  Chained(table[c], c)'
<1> SUFFICES ASSUME NEW s \in Slots(c), table'[c][s].state = "live"
             PROVE  \E j \in 0 .. Probe - 1 :
                       /\ s = Pos(c, table'[c][s].key, j)
                       /\ \A m \in 0 .. j - 1 :
                            table'[c][Pos(c, table'[c][s].key, m)].state # "empty"
    BY DEF Chained, Slots, Pos
<1> DEFINE k == table'[c][s].key  o == op[w]
<1>1. \A t \in Slots(c) : Changes(w, c, t)
    BY SlotChange
<1>2. \A t \in Slots(c) : table[c][t].state # "empty" => table'[c][t].state # "empty"
    BY <1>1, NeverEmptyAgain
<1>3. Probe \in Nat \ {0}
    BY KvAssumption
<1>4. Matches(table'[c][s], k)
    BY DEF Matches
<1> HIDE DEF k
<1>5. SUFFICES \E j \in 0 .. Probe - 1 :
                  /\ s = Pos(c, k, j) /\ k \in Keys
                  /\ \A m \in 0 .. j - 1 : table[c][Pos(c, k, m)].state # "empty"
    <2>1. PICK j \in 0 .. Probe - 1 :
                  /\ s = Pos(c, k, j) /\ k \in Keys
                  /\ \A m \in 0 .. j - 1 : table[c][Pos(c, k, m)].state # "empty"
        BY <1>5
    <2>2. \A m \in 0 .. j - 1 : Pos(c, k, m) \in Slots(c)
        BY <1>3, <2>1, PosSlot, SMTT(40)
    <2> QED BY <1>2, <2>1, <2>2 DEF k
<1>6. CASE Matches(table[c][s], k)
    BY <1>6 DEF TableInv, Chained, Matches
<1>7. CASE ~Matches(table[c][s], k)
    <2>1. c = o.class /\ k = o.key /\ Inserts(o) /\ o.pc = "insert" /\ s \in Targets(o)
        BY <1>1, <1>4, <1>7, NewCopies
    <2>2. OpInv(o)
        BY DEF OpsInv, Busy
    <2>3. s \in Window(o)
        BY <2>1, <2>2, TargetsSeen
    <2>4. PICK j \in 0 .. o.i : s = Pos(c, k, j)
        BY <2>1, <2>3 DEF Window
    <2>5. o.i \in 0 .. Probe - 1 /\ k \in Keys
        BY <2>1, <2>2 DEF OpInv, Call, Last, Inserts
    <2>6. \A m \in 0 .. o.i - 1 : table[c][Pos(c, k, m)].state # "empty"
        BY <2>1, <2>2 DEF OpInv, Past, Inserts
    <2>7. j \in 0 .. Probe - 1 /\ \A m \in 0 .. j - 1 : m \in 0 .. o.i - 1
        BY <1>3, <2>4, <2>5, SMTT(40)
    <2> QED BY <2>4, <2>5, <2>6, <2>7
<1> QED BY <1>6, <1>7

\* A step keeps the tables, chains included: an entry is stored where all slots
\* before it in its key's window are taken.
LEMMA TableStep ==
    ASSUME TableInv, OpsInv, NEW w \in Busy, Stepped(w)
    PROVE  TableInv'
<1>1. DOMAIN table' = Classes /\ \A c \in Classes : DOMAIN table'[c] = Slots(c)
    BY SlotChange
<1>2. clock' \in Nat
    BY DEF TableInv, Stepped, world
<1>3. ASSUME NEW c \in Classes, NEW s \in Slots(c)
      PROVE  /\ table'[c][s].state \in {"empty", "dead", "live"}
             /\ table'[c][s].state = "live" => table'[c][s].key \in Keys
             /\ table'[c][s].exp \in Nat /\ table'[c][s].val \in Nat \cup {Big}
    <2>1. Changes(w, c, s) /\ op[w].key \in Keys
        BY SlotChange DEF OpsInv, Busy, OpInv, Call
    <2> QED BY <2>1, SMTT(40) DEF Changes, Storing, Tombstone, TableInv
<1>4. \A c \in Classes : Chained(table[c], c)'
    BY ChainStep
<1> QED BY <1>1, <1>2, <1>3, <1>4 DEF TableInv, Slots

-----------------------------------------------------------------------------
\* What a slot does to a get.
LEMMA GetCases ==
    ASSUME TableInv, OpsInv, NEW w \in Busy, GetSlot(w), op[w].call = "get"
    PROVE  LET o == op[w]
               e == Seen(w)
           IN /\ table' = table
              /\ \/ op'[w] = Idle /\ Holds(o.class, At(o), o.key, o.now)
                 \/ op'[w].pc = "reclaim" /\ op'[w] # Idle
                 \/ /\ ~Matches(e, o.key) /\ (e.state = "empty" \/ o.i = Last(o))
                    /\ op'[w] = Then(o, FALSE)
                 \/ ~Matches(e, o.key) /\ o.i < Last(o) /\ op'[w] = [o EXCEPT !.i = o.i + 1]
<1> DEFINE o == op[w]  e == Seen(w)
<1>1. w \in Workers /\ OpInv(o)
    BY DEF OpsInv, Busy
<1>2. Call(o) /\ o.class \in Classes /\ At(o) \in Slots(o.class)
    BY <1>1, AtSlot DEF OpInv, Call
<1>3. o.i = Last(o) \/ o.i < Last(o)
    BY <1>2, KvAssumption, SMTT(40) DEF Call, Last
<1> DEFINE r == [o EXCEPT !.pc = "reclaim"]
           x == CASE e.state = "empty" -> Then(o, FALSE)
                    [] Matches(e, o.key) /\ ~Expired(e, o.now) -> Then(o, TRUE)
                    [] Matches(e, o.key) /\ Expired(e, o.now) -> r
                    [] OTHER -> Advance(o, Then(o, FALSE))
<1>4. table' = table /\ op' = [op EXCEPT ![w] = x] /\ DOMAIN op = Workers
    BY DEF GetSlot, Look, OpsInv
<1>5. op'[w] = x
    BY <1>1, <1>4
<1>6. r.pc = "reclaim" /\ r # Idle
    <2>1. r.pc = "reclaim" /\ r.call = o.call
        BY <1>2 DEF Call, Fields
    <2>2. Idle.call = "none"
        BY DEF Idle, None
    <2> HIDE DEF r
    <2> QED BY <1>2, <2>1, <2>2 DEF Call
<1>7. Then(o, TRUE) = Idle
    BY DEF Then
<1> HIDE DEF r
<1>8. CASE e.state = "empty"
    <2>1. x = Then(o, FALSE) /\ ~Matches(e, o.key)
        BY <1>8 DEF Matches
    <2> QED BY <1>4, <1>5, <1>8, <2>1
<1>9. CASE e.state # "empty" /\ Matches(e, o.key) /\ ~Expired(e, o.now)
    <2>1. x = Idle
        BY <1>7, <1>9
    <2> QED BY <1>4, <1>5, <1>9, <2>1 DEF Holds, Seen
<1>10. CASE e.state # "empty" /\ Matches(e, o.key) /\ Expired(e, o.now)
    <2>1. x = r
        BY <1>10
    <2> QED BY <1>4, <1>5, <1>6, <2>1
<1>11. CASE e.state # "empty" /\ ~Matches(e, o.key)
    <2>1. x = Advance(o, Then(o, FALSE))
        BY <1>11
    <2> QED BY <1>3, <1>4, <1>5, <1>11, <2>1 DEF Advance
<1> QED BY <1>8, <1>9, <1>10, <1>11

\* A scan that ends without a match has passed every slot of its class that holds the key.
LEMMA GetMisses ==
    ASSUME TableInv, OpsInv, NEW w \in Busy, SteadyInv(w), op[w].fn = "get", op[w].pc = "probe",
           ~Matches(Seen(w), op[w].key), Seen(w).state = "empty" \/ op[w].i = Last(op[w]),
           NEW p \in steady[w]
    PROVE  p[1] # op[w].class
<1> SUFFICES ASSUME p[1] = op[w].class PROVE FALSE
    OBVIOUS
<1> DEFINE o == op[w]
<1>1. OpInv(o)
    BY DEF OpsInv, Busy
<1>2. o.class \in Classes /\ o.key \in Keys /\ o.i \in 0 .. Probe - 1 /\ Last(o) = Probe - 1
    BY <1>1 DEF OpInv, Call, Last
<1>3. p[2] \in Slots(o.class) /\ Matches(table[o.class][p[2]], o.key)
    BY DEF SteadyInv, Places, Holds
<1>4. \A j \in 0 .. o.i - 1 : p[2] # Pos(o.class, o.key, j)
    BY DEF SteadyInv
<1>5. Seen(w) = table[o.class][Pos(o.class, o.key, o.i)]
    BY DEF Seen, At
<1>6. PICK j \in 0 .. o.i : p[2] = Pos(o.class, o.key, j)
    BY <1>2, <1>3, <1>5, NotPast DEF TableInv
<1>7. j = o.i \/ j \in 0 .. o.i - 1
    BY <1>2, <1>6, KvAssumption, SMTT(40)
<1> QED BY <1>3, <1>4, <1>5, <1>6, <1>7

\* A get that goes on has what it looks for ahead of it.
LEMMA SteadyStep ==
    ASSUME TableInv, OpsInv, NEW w \in Workers, SteadyInv(w), Step(w), Stepped(w),
           NEW p \in steady'[w], op'[w] # Idle, op'[w].pc # "reclaim",
           p \in steady[w], Holds(p[1], p[2], op[w].key, clock)'
    PROVE  /\ op'[w].call = "get" /\ op'[w].pc = "probe"
           /\ op'[w].class = "large" => p[1] = "large"
           /\ p[1] = op'[w].class =>
                \A j \in 0 .. op'[w].i - 1 : p[2] # Pos(op'[w].class, op'[w].key, j)
<1> DEFINE o == op[w]  e == Seen(w)
<1>1. w \in Busy /\ OpInv(o) /\ Call(o)
    BY DEF Step, OpsInv, Busy, OpInv
<1>2. o.call = "get" /\ o.pc = "probe" /\ o.fn = "get"
    BY <1>1 DEF SteadyInv, Call, Shape
<1>3. GetSlot(w)
    BY <1>2 DEF Step, Reclaim, SetProbe, SetInsert, Sweep, AddProbe, AddInsert, DeleteSlot,
        TouchSlot, FlushSlot, IncrementProbe, IncrementCreate
<1>4. \/ ~Matches(e, o.key) /\ (e.state = "empty" \/ o.i = Last(o)) /\ op'[w] = Then(o, FALSE)
      \/ ~Matches(e, o.key) /\ o.i < Last(o) /\ op'[w] = [o EXCEPT !.i = o.i + 1]
    BY <1>1, <1>2, <1>3, GetCases
<1>5. CASE /\ ~Matches(e, o.key) /\ (e.state = "empty" \/ o.i = Last(o))
           /\ op'[w] = Then(o, FALSE)
    <2>1. p[1] # o.class
        BY <1>1, <1>2, <1>5, GetMisses
    <2>2. o.class = "small" /\ op'[w] = Enter(o, "large", "get")
        BY <1>2, <1>5 DEF Then
    <2>3. p[1] \in Classes
        BY DEF SteadyInv, Places
    <2>4. op'[w].class = "large" /\ op'[w].i = 0 /\ op'[w].pc = "probe" /\ op'[w].call = "get"
        BY <1>1, <1>2, <2>2, EnterFields, SMTT(40) DEF Call, Same
    <2> QED BY <2>1, <2>2, <2>3, <2>4, SMTT(40) DEF Classes
<1>6. CASE ~Matches(e, o.key) /\ o.i < Last(o) /\ op'[w] = [o EXCEPT !.i = o.i + 1]
    <2>1. /\ op'[w].class = o.class /\ op'[w].i = o.i + 1 /\ op'[w].pc = "probe"
          /\ op'[w].call = "get" /\ op'[w].key = o.key
        BY <1>1, <1>2, <1>6 DEF Call, Fields
    <2>2. ASSUME p[1] = o.class, NEW j \in 0 .. o.i
          PROVE  p[2] # Pos(o.class, o.key, j)
        <3>1. Matches(table[o.class][p[2]], o.key)
            BY <2>2 DEF SteadyInv, Holds
        <3>2. p[2] # Pos(o.class, o.key, o.i)
            BY <1>2, <1>6, <3>1 DEF Seen, At
        <3>3. j = o.i \/ j \in 0 .. o.i - 1
            BY <1>1, KvAssumption, SMTT(40) DEF Call, Last
        <3> QED BY <2>2, <3>2, <3>3 DEF SteadyInv
    <2>3. op'[w].i - 1 = o.i
        BY <1>1, <2>1, KvAssumption, SMTT(40) DEF Call, Last
    <2>4. o.class = "large" => p[1] = "large"
        BY DEF SteadyInv
    <2>5. p[1] = op'[w].class =>
             \A j \in 0 .. op'[w].i - 1 : p[2] # Pos(op'[w].class, op'[w].key, j)
        <3> SUFFICES ASSUME p[1] = op'[w].class, NEW j \in 0 .. op'[w].i - 1
                     PROVE  p[2] # Pos(op'[w].class, op'[w].key, j)
            OBVIOUS
        <3>1. p[1] = o.class /\ j \in 0 .. o.i
            BY <2>1, <2>3
        <3> QED BY <2>1, <2>2, <3>1
    <2> QED BY <2>1, <2>4, <2>5
<1> QED BY <1>4, <1>5, <1>6

\* A step of a call moves no get past a slot that holds its key throughout.
LEMMA FindsStep ==
    ASSUME TableInv, OpsInv, FindsInv, NEW w \in Workers, Step(w), Stepped(w)
    PROVE  FindsInv'
<1>1. w \in Busy /\ clock' = clock
    BY DEF Step, Stepped, world
<1>2. PICK x : op' = [op EXCEPT ![w] = x] /\ Goes(op[w], x)
    BY DEF Stepped
<1>3. /\ DOMAIN op = Workers /\ op'[w] = x
      /\ \A v \in Workers : v # w => op'[v] = op[v]
    BY <1>2 DEF OpsInv
<1>4. \A v \in Workers : op'[v] # Idle => op'[v].key = op[v].key
    BY <1>2, <1>3 DEF Goes, Same
<1>5. /\ DOMAIN steady' = Workers
      /\ \A v \in Workers : steady'[v] =
           IF op'[v] = Idle \/ op'[v].pc = "reclaim" THEN {}
           ELSE {p \in steady[v] : Holds(p[1], p[2], op[v].key, clock)'}
    BY DEF Stepped, Record
<1>6. ASSUME NEW v \in Workers PROVE SteadyInv(v)'
    <2>1. op'[v] = Idle => steady'[v] = {}
        BY <1>5
    <2>2. ASSUME NEW p \in steady'[v]
          PROVE  /\ op'[v].call = "get" /\ op'[v].pc = "probe"
                 /\ p \in Places /\ Holds(p[1], p[2], op[v].key, clock)'
                 /\ op'[v].class = "large" => p[1] = "large"
                 /\ p[1] = op'[v].class =>
                      \A j \in 0 .. op'[v].i - 1 : p[2] # Pos(op'[v].class, op'[v].key, j)
        <3>1. /\ op'[v] # Idle /\ op'[v].pc # "reclaim" /\ p \in steady[v]
              /\ Holds(p[1], p[2], op[v].key, clock)'
            BY <1>5, <2>2
        <3>2. SteadyInv(v)
            BY DEF FindsInv
        <3>3. CASE v = w
            BY <2>2, <3>1, <3>2, <3>3, SteadyStep DEF SteadyInv
        <3>4. CASE v # w
            BY <1>3, <3>1, <3>2, <3>4 DEF SteadyInv
        <3> QED BY <3>3, <3>4
    <2> QED BY <2>1, <2>2 DEF SteadyInv, Idle, Places, Pos, Slots, Classes, NoSlot
<1> QED BY <1>5, <1>6 DEF FindsInv

\* What is live and has not expired goes for a reason.
LEMMA RemovalsAsked ==
    ASSUME TableInv, OpsInv, NEW w \in Busy, Stepped(w)
    PROVE  OnlyAskedRemovals
<1> SUFFICES ASSUME NEW p \in Places, NEW k \in Keys, Holds(p[1], p[2], k, clock),
                    ~Matches(table'[p[1]][p[2]], k)
             PROVE  /\ op'[w] # op[w]
                    /\ \/ op[w].fn \in {"delete", "set"} /\ op[w].key = k
                       \/ op[w].fn = "flush" /\ op[w].app = AppOf[k]
                       \/ op[w].fn \in {"set", "increment"} /\ op[w].pc = "insert"
    BY DEF OnlyAskedRemovals
<1> DEFINE o == op[w]  c == p[1]  s == p[2]
<1>1. c \in Classes /\ s \in Slots(c)
    BY DEF Places
<1>2. op'[w] # op[w]
    BY DEF Stepped, Goes, OpsInv, Busy
<1>3. Changes(w, c, s) /\ OpInv(o)
    BY <1>1, SlotChange DEF OpsInv, Busy
<1>4. ~Expired(table[c][s], o.now)
    <2>1. o.now \in Nat /\ clock \in Nat /\ o.now <= clock /\ table[c][s].exp \in Nat
        BY <1>1, <1>3 DEF TableInv, OpInv, Call
    <2>2. ~Expired(table[c][s], clock)
        BY DEF Holds
    <2> QED BY <2>1, <2>2, SMTT(40) DEF Expired
<1>5. /\ table[c][s].state = "live" /\ table[c][s].key = k
      /\ ~(table'[c][s].state = "live" /\ table'[c][s].key = k)
    BY DEF Holds, Matches
<1>6. CASE c = o.class /\ Removal(o, s)
    BY <1>2, <1>4, <1>5, <1>6 DEF Removal, Matches
<1>7. CASE c = o.class /\ Storing(o, s, table'[c][s])
    <2>1. Inserts(o) /\ o.pc = "insert" /\ o.fn # "add"
        BY <1>4, <1>5, <1>7 DEF Storing, Matches, MayInsert
    <2> QED BY <1>2, <2>1 DEF Inserts
<1> QED BY <1>3, <1>5, <1>6, <1>7 DEF Changes

\* A get that ends has missed nothing that was there all along.
LEMMA GetsFind ==
    ASSUME TableInv, OpsInv, FindsInv
    PROVE  GetFindsSteadyKeys
<1> SUFFICES ASSUME NEW w \in Workers, op[w].call = "get", op'[w] = Idle,
                    GetSlot(w) \/ Reclaim(w),
                    ~Holds(op[w].class, At(op[w]), op[w].key, op[w].now),
                    NEW p \in steady[w]
             PROVE  FALSE
    BY DEF GetFindsSteadyKeys
<1> DEFINE o == op[w]  e == Seen(w)
<1>1. w \in Busy
    BY SMTT(40) DEF Busy, Idle, None
<1>2. SteadyInv(w) /\ OpInv(o)
    BY <1>1 DEF FindsInv, OpsInv, Busy
<1>3. o.pc = "probe" /\ GetSlot(w) /\ o.fn = "get"
    BY <1>2 DEF SteadyInv, Reclaim, GetSlot
<1>4. \/ ~Matches(e, o.key) /\ (e.state = "empty" \/ o.i = Last(o)) /\ op'[w] = Then(o, FALSE)
      \/ op'[w] = [o EXCEPT !.i = o.i + 1]
    BY <1>1, <1>3, GetCases
<1>5. [o EXCEPT !.i = o.i + 1] # Idle
    <2> DEFINE x == [o EXCEPT !.i = o.i + 1]
    <2>1. x.call = "get"
        BY <1>2 DEF OpInv, Call, Fields
    <2>2. Idle.call = "none"
        BY DEF Idle, None
    <2> HIDE DEF x
    <2>3. x # Idle
        BY <2>1, <2>2
    <2> QED BY <2>3 DEF x
<1>6. ~Matches(e, o.key) /\ (e.state = "empty" \/ o.i = Last(o)) /\ Then(o, FALSE) = Idle
    BY <1>4, <1>5
<1>7. p[1] # o.class
    BY <1>1, <1>2, <1>3, <1>6, GetMisses
<1>8. o.class = "large"
    <2>1. ASSUME o.class = "small" PROVE FALSE
        <3>1. Then(o, FALSE) = Enter(o, "large", "get")
            BY <2>1 DEF Then
        <3>2. Enter(o, "large", "get").call = "get"
            BY <1>2, EnterFields, SMTT(40) DEF OpInv, Call, Same
        <3>3. Idle.call = "none"
            BY DEF Idle, None
        <3> QED BY <1>6, <3>1, <3>2, <3>3
    <2> QED BY <1>2, <2>1 DEF OpInv, Call, Classes
<1> QED BY <1>2, <1>7, <1>8 DEF SteadyInv

-----------------------------------------------------------------------------
\* Time passes and the tables stay.
LEMMA TableSame ==
    ASSUME TableInv, table' = table, clock' \in Nat
    PROVE  TableInv'
<1>1. ASSUME NEW c \in Classes PROVE Chained(table[c], c)'
    <2>1. Chained(table[c], c) /\ table'[c] = table[c]
        BY DEF TableInv
    <2> QED BY <2>1 DEF Chained, Slots, Pos
<1> QED BY <1>1 DEF TableInv, Slots, Classes

\* The call that a request makes.
Asked(q) == [call |-> q.call, key |-> q.key, app |-> AppOf[q.key],
             val |-> q.val, ttl |-> q.ttl, class |-> "small",
             fn |-> q.call, pc |-> "probe", i |-> 0, now |-> clock,
             reuse |-> NoSlot, stale |-> NoSlot, live |-> {}]

\* The first step of a call.
LEMMA FirstGood ==
    ASSUME clock \in Nat, NEW q \in Requests
    PROVE  LET x == First(Asked(q))
           IN /\ OpInv(x) /\ x.call = q.call /\ x.key = q.key /\ x.app = AppOf[q.key]
              /\ x.val = q.val /\ x.i = 0 /\ x.pc = "probe" /\ x.reuse = NoSlot
              /\ x.stale = NoSlot /\ x.live = {}
              /\ q.call \in {"get", "delete", "flush"} => x.class = "small"
<1> DEFINE o == Asked(q)
<1>1. /\ q.call \in {"get", "set", "add", "delete", "touch", "flush", "increment"}
      /\ q.key \in Keys /\ q.val \in Nat \cup {Big} /\ q.ttl \in Nat
    BY KvAssumption
<1>2. /\ DOMAIN o = Fields /\ o.call = q.call /\ o.key = q.key /\ o.app = AppOf[q.key]
      /\ o.val = q.val /\ o.ttl = q.ttl
    BY DEF Fields, Asked
<1> HIDE DEF o
<1>3. \E class \in Classes, fn \in CacheFns :
        /\ First(o) = Enter(o, class, fn)
        /\ \/ o.call = "set" /\ fn = "delete"
           \/ o.call = "add" /\ fn = "get" /\ class = "large"
           \/ /\ o.call \in {"get", "delete", "touch", "flush", "increment"}
              /\ fn = o.call /\ class = "small"
    BY <1>1, <1>2 DEF First, Classes, Other, Class, CacheFns
<1>4. PICK class \in Classes, fn \in CacheFns :
        /\ First(o) = Enter(o, class, fn)
        /\ \/ o.call = "set" /\ fn = "delete"
           \/ o.call = "add" /\ fn = "get" /\ class = "large"
           \/ /\ o.call \in {"get", "delete", "touch", "flush", "increment"}
              /\ fn = o.call /\ class = "small"
    BY <1>3
<1> DEFINE x == Enter(o, class, fn)
<1>5. /\ DOMAIN x = Fields /\ Same(o, x)
      /\ x.class = class /\ x.fn = fn /\ x.pc = "probe" /\ x.i = 0 /\ x.now = clock
      /\ x.reuse = NoSlot /\ x.stale = NoSlot /\ x.live = {}
    BY <1>2, EnterFields
<1> HIDE DEF x
<1>6. Shape(x)
    BY <1>4, <1>5 DEF Shape, Same
<1>7. OpInv(x) /\ First(o) = x
    BY <1>1, <1>2, <1>4, <1>6, EnterGood DEF x
<1> QED BY <1>2, <1>4, <1>5, <1>7 DEF Same, o

\* What the start of a call writes.
LEMMA StartFacts ==
    ASSUME NEW w \in Workers, Start(w)
    PROVE  \E q \in Requests :
             /\ op[w] = Idle /\ op' = [op EXCEPT ![w] = First(Asked(q))]
             /\ steady' = [steady EXCEPT ![w] = IF q.call = "get" THEN Copies(q.key) ELSE {}]
             /\ dirty' = [u \in Workers |->
                  IF u = w THEN UNION {Writes(op[x]) : x \in Busy}
                  ELSE dirty[u] \cup (IF u \in Busy THEN Writes(Asked(q)) ELSE {})]
             /\ gone' = gone \ Writes(Asked(q))
             /\ disturbed' = (disturbed \/ q.val = Big)
             /\ UNCHANGED <<table, clock, total>>
BY DEF Start, Asked

\* A call starts: the tables, the calls and what a get looks for.
LEMMA StartKeeps ==
    ASSUME TableInv, OpsInv, FindsInv, NEW w \in Workers, Start(w)
    PROVE  TableInv' /\ OpsInv' /\ FindsInv'
<1>1. PICK q \in Requests :
             /\ op[w] = Idle /\ op' = [op EXCEPT ![w] = First(Asked(q))]
             /\ steady' = [steady EXCEPT ![w] = IF q.call = "get" THEN Copies(q.key) ELSE {}]
             /\ UNCHANGED <<table, clock, total>>
    BY StartFacts
<1> DEFINE x == First(Asked(q))
<1>2. clock \in Nat /\ DOMAIN op = Workers /\ DOMAIN steady = Workers
    BY DEF TableInv, OpsInv, FindsInv
<1>3. /\ OpInv(x) /\ x.call = q.call /\ x.key = q.key /\ x.i = 0 /\ x.pc = "probe"
      /\ q.call = "get" => x.class = "small"
    BY <1>2, FirstGood
<1> HIDE DEF x
<1>4. op'[w] = x /\ \A v \in Workers : v # w => op'[v] = op[v]
    BY <1>1, <1>2 DEF x
<1>5. TableInv'
    BY <1>1, TableSame DEF TableInv
<1>6. OpsInv'
    <2>1. ASSUME NEW v \in Workers PROVE op'[v] = Idle \/ OpInv(op'[v])
        BY <1>3, <1>4 DEF OpsInv
    <2>2. ASSUME NEW v \in Workers PROVE op'[v] = Idle \/ OpInv(op[v])'
        BY <1>1, <1>2, <2>1, OpKept, SMTT(40)
    <2>3. DOMAIN op' = Workers
        BY <1>1, <1>2
    <2> QED BY <2>2, <2>3 DEF OpsInv, Idle
<1>7. FindsInv'
    <2>1. DOMAIN steady' = Workers /\ \A v \in Workers : v # w => steady'[v] = steady[v]
        BY <1>1, <1>2
    <2>2. steady'[w] = IF q.call = "get" THEN Copies(q.key) ELSE {}
        BY <1>1, <1>2
    <2>3. ASSUME NEW v \in Workers, v # w PROVE SteadyInv(v)'
        <3>1. SteadyInv(v) /\ op'[v] = op[v] /\ steady'[v] = steady[v]
            BY <1>4, <2>1, <2>3 DEF FindsInv
        <3> QED BY <1>1, <3>1, SMTT(40) DEF SteadyInv, Holds, Places, Pos, Slots, Classes, NoSlot, Idle
    <2>4. SteadyInv(w)'
        <3>1. op'[w] # Idle
            BY <1>3, <1>4, SMTT(40) DEF OpInv, Call, Idle, None
        <3>2. ASSUME NEW p \in steady'[w]
              PROVE  /\ op'[w].call = "get" /\ op'[w].pc = "probe" /\ p \in Places
                     /\ Holds(p[1], p[2], op'[w].key, clock)
                     /\ op'[w].class = "small" /\ op'[w].i = 0
            BY <1>3, <1>4, <2>2, <3>2 DEF Copies
        <3> QED BY <1>1, <3>1, <3>2, SMTT(40) DEF SteadyInv, Holds, Places, Slots, Classes, NoSlot, Idle
    <2> QED BY <2>1, <2>3, <2>4 DEF FindsInv
<1> QED BY <1>5, <1>6, <1>7

\* The death of a worker in a call keeps the tables, the calls and the lookups.
LEMMA DieKeeps ==
    ASSUME TableInv, OpsInv, FindsInv, NEW w \in Workers, Die(w)
    PROVE  TableInv' /\ OpsInv' /\ FindsInv'
<1>1. /\ op' = [op EXCEPT ![w] = Idle] /\ steady' = [steady EXCEPT ![w] = {}]
      /\ table' = table /\ clock' = clock
    BY DEF Die, world
<1>2. clock \in Nat /\ DOMAIN op = Workers /\ DOMAIN steady = Workers
    BY DEF TableInv, OpsInv, FindsInv
<1>3. op'[w] = Idle /\ \A v \in Workers : v # w => op'[v] = op[v]
    BY <1>1, <1>2
<1>4. TableInv'
    BY <1>1, TableSame DEF TableInv
<1>5. OpsInv'
    <2>1. ASSUME NEW v \in Workers PROVE op'[v] = Idle \/ OpInv(op'[v])
        BY <1>3 DEF OpsInv
    <2>2. ASSUME NEW v \in Workers PROVE op'[v] = Idle \/ OpInv(op[v])'
        BY <1>1, <1>2, <2>1, OpKept, SMTT(40)
    <2>3. DOMAIN op' = Workers
        BY <1>1, <1>2
    <2> QED BY <2>2, <2>3 DEF OpsInv, Idle
<1>6. FindsInv'
    <2>1. /\ DOMAIN steady' = Workers /\ steady'[w] = {}
          /\ \A v \in Workers : v # w => steady'[v] = steady[v]
        BY <1>1, <1>2
    <2>2. ASSUME NEW v \in Workers PROVE SteadyInv(v)'
        <3>1. CASE v = w
            BY <2>1, <3>1 DEF SteadyInv
        <3>2. CASE v # w
            <4>1. SteadyInv(v) /\ op'[v] = op[v] /\ steady'[v] = steady[v]
                BY <1>3, <2>1, <3>2 DEF FindsInv
            <4> QED BY <1>1, <4>1, SMTT(40) DEF SteadyInv, Holds, Places, Pos, Slots, Classes, NoSlot, Idle
        <3> QED BY <3>1, <3>2
    <2> QED BY <2>1, <2>2 DEF FindsInv
<1> QED BY <1>4, <1>5, <1>6

\* The clock keeps them: an entry that expires is no longer held.
LEMMA TickKeeps ==
    ASSUME TableInv, OpsInv, FindsInv, Tick
    PROVE  TableInv' /\ OpsInv' /\ FindsInv'
<1>1. /\ op' = op /\ table' = table /\ clock' = clock + 1 /\ clock \in Nat
      /\ steady' = [w \in Workers |->
           {p \in steady[w] : Holds(p[1], p[2], op[w].key, clock + 1)}]
    BY DEF Tick, TableInv
<1>2. TableInv'
    BY <1>1, TableSame, SMTT(40) DEF TableInv
<1>3. OpsInv'
    <2>1. clock' \in Nat /\ clock <= clock'
        BY <1>1, SMTT(40)
    <2>2. ASSUME NEW v \in Workers PROVE op[v] = Idle \/ OpInv(op[v])'
        <3> SUFFICES ASSUME OpInv(op[v]) PROVE OpInv(op[v])'
            BY DEF OpsInv
        <3> DEFINE o == op[v]
        <3>1. o' = o
            BY <1>1
        <3> HIDE DEF o
        <3> QED BY <1>1, <2>1, OpKept DEF OpsInv
    <2> QED BY <1>1, <2>2 DEF OpsInv, Idle
<1>4. FindsInv'
    <2>1. ASSUME NEW v \in Workers PROVE SteadyInv(v)'
        <3>1. SteadyInv(v) /\ op'[v] = op[v]
            BY <1>1 DEF FindsInv
        <3>2. \A p \in steady'[v] : p \in steady[v] /\ Holds(p[1], p[2], op[v].key, clock)'
            BY <1>1 DEF Holds
        <3>3. steady'[v] \subseteq steady[v]
            BY <3>2
        <3> QED BY <1>1, <3>1, <3>2, <3>3 DEF SteadyInv, Places, Pos, Slots, Classes, NoSlot, Idle
    <2> QED BY <1>1, <2>1 DEF FindsInv
<1> QED BY <1>2, <1>3, <1>4

-----------------------------------------------------------------------------
\* The invariant of the tables and their scans holds at the start, ...
ScanInv == TableInv /\ OpsInv /\ FindsInv

LEMMA ScanInit == Init => ScanInv
<1> SUFFICES ASSUME Init PROVE ScanInv
    OBVIOUS
<1>1. PICK small \in Presets :
         table = [c \in Classes |-> IF c = "small" THEN small ELSE [s \in Slots(c) |-> Empty]]
    BY DEF Init
<1>2. /\ small \in [Slots("small") -> Cell]
      /\ \A s \in Slots("small") : small[s].state = "live" => small[s].key \in Keys
      /\ Chained(small, "small")
    BY PresetsAssumption
<1>3. table["small"] = small /\ table["large"] = [s \in Slots("large") |-> Empty]
    BY <1>1 DEF Classes
<1>4. TableInv
    <2>1. Chained(table["large"], "large")
        BY <1>3, SMTT(40) DEF Chained, Empty
    <2>2. ASSUME NEW c \in Classes
          PROVE  /\ DOMAIN table[c] = Slots(c)
                 /\ \A s \in Slots(c) :
                      /\ table[c][s].state \in {"empty", "dead", "live"}
                      /\ table[c][s].state = "live" => table[c][s].key \in Keys
                      /\ table[c][s].exp \in Nat /\ table[c][s].val \in Nat \cup {Big}
                 /\ Chained(table[c], c)
        <3>1. CASE c = "small"
            BY <1>2, <1>3, <3>1 DEF Cell
        <3>2. CASE c = "large"
            BY <1>3, <2>1, <3>2, SMTT(40) DEF Empty
        <3> QED BY <3>1, <3>2 DEF Classes
    <2>3. clock \in Nat /\ DOMAIN table = Classes
        BY <1>1 DEF Init
    <2> QED BY <2>2, <2>3 DEF TableInv
<1>5. OpsInv /\ Busy = {}
    BY DEF Init, OpsInv, Busy
<1>6. FindsInv
    BY <1>5 DEF Init, FindsInv, SteadyInv
<1> QED BY <1>4, <1>5, <1>6 DEF ScanInv

\* ... and every step keeps it.
LEMMA ScanStep == ScanInv /\ [Next]_vars => ScanInv'
<1> SUFFICES ASSUME ScanInv, [Next]_vars PROVE ScanInv'
    OBVIOUS
<1>1. TableInv /\ OpsInv /\ FindsInv
    BY DEF ScanInv
<1>2. ASSUME NEW w \in Workers, Step(w) PROVE ScanInv'
    <2>1. w \in Busy /\ Stepped(w)
        BY <1>1, <1>2, StepSteps
    <2>2. OpsInv'
        BY <1>1, <2>1, OpsStep
    <2> QED BY <1>1, <1>2, <2>1, <2>2, TableStep, FindsStep DEF ScanInv
<1>3. ASSUME NEW w \in Workers, Start(w) PROVE ScanInv'
    BY <1>1, <1>3, StartKeeps DEF ScanInv
<1>4. ASSUME NEW w \in Workers, Die(w) PROVE ScanInv'
    BY <1>1, <1>4, DieKeeps DEF ScanInv
<1>5. CASE Tick
    BY <1>1, <1>5, TickKeeps DEF ScanInv
<1>6. CASE UNCHANGED vars
    <2>1. /\ table' = table /\ op' = op /\ clock' = clock /\ steady' = steady
        BY <1>6 DEF vars, world, history
    <2>2. TableInv'
        BY <1>1, <2>1, TableSame DEF TableInv
    <2>3. OpsInv'
        <3>1. \A v \in Workers : op'[v] = Idle \/ OpInv(op'[v])
            BY <1>1, <2>1 DEF OpsInv
        <3>2. clock \in Nat /\ clock' \in Nat /\ clock <= clock'
            BY <1>1, <2>1, SMTT(40) DEF TableInv
        <3>3. \A v \in Workers : op'[v] = Idle \/ OpInv(op[v])'
            BY <2>1, <3>1, <3>2, OpKept
        <3> QED BY <1>1, <2>1, <3>3 DEF OpsInv, Idle
    <2>4. FindsInv'
        BY <1>1, <2>1, SMTT(40) DEF FindsInv, SteadyInv, Holds, Places, Pos, Slots, Classes, NoSlot, Idle
    <2> QED BY <2>2, <2>3, <2>4 DEF ScanInv
<1> QED BY <1>2, <1>3, <1>4, <1>5, <1>6 DEF Next

\* An unexpired entry goes only when it is asked for or its slot is taken, and a get finds
\* what one slot held throughout.
THEOREM StoredKeysStay == Spec => KeysStay
<1>1. ScanInv /\ [Next]_vars => [OnlyAskedRemovals /\ GetFindsSteadyKeys]_vars
    <2> SUFFICES ASSUME ScanInv, Next PROVE OnlyAskedRemovals /\ GetFindsSteadyKeys
        OBVIOUS
    <2>1. GetFindsSteadyKeys
        BY GetsFind DEF ScanInv
    <2>2. CASE \E w \in Workers : Step(w)
        BY <2>1, <2>2, StepSteps, RemovalsAsked DEF ScanInv
    <2>3. CASE ~\E w \in Workers : Step(w)
        <3>1. table' = table
            BY <2>3 DEF Next, Tick, Start, Die
        <3> QED BY <2>1, <3>1 DEF OnlyAskedRemovals
    <2> QED BY <2>2, <2>3
<1> QED BY <1>1, ScanInit, ScanStep, PTL DEF Spec, KeysStay

=============================================================================
