--------------------------- MODULE RCacheProofs ----------------------------
(***************************************************************************)
(* The response cache, for any number of workers, pages, tags, slots and   *)
(* calls, any hashes, any probe window, and any stops, crashes and         *)
(* deploys: what was forgotten, purged or rendered by an older release is  *)
(* not served, and what is stored is found (rcache.rs).                    *)
(*                                                                         *)
(* The invariant follows the parts of that.  Between the forgets of a tag  *)
(* and its generation lies a constant, which every entry has kept too; a   *)
(* scan that removes pages has left none of them behind; and the windows   *)
(* are chained, with one entry per page, as long as no flaw was recorded   *)
(* that breaks them.                                                       *)
(***************************************************************************)
EXTENDS RCache, WellFoundedInduction, TLAPS

\* A leaf that names no prover is tried with Zenon.
USE ZenonT(40)

-----------------------------------------------------------------------------
\* A table of responses, in memory or in the file.
Parts == {"state", "key", "app", "exp", "hard", "err", "gens", "snap", "by"}
EntryOK(e) ==
    /\ DOMAIN e = Parts /\ e.state \in {"empty", "dead", "live"}
    /\ e.state # "empty" => e.key \in Keys
    /\ e.state = "live" =>
         /\ e.app = AppOf[e.key] /\ DOMAIN e.gens \subseteq Tags /\ DOMAIN e.snap = DOMAIN e.gens
         /\ \A t \in DOMAIN e.gens : e.gens[t] \in Nat /\ e.snap[t] \in Nat
TableOK(S) == DOMAIN S = Slots /\ \A s \in Slots : EntryOK(S[s])
TagsOK(T) == T \in [TagSlots -> [tag : Tags \cup {None}, gen : Nat]]

\* A call in progress.
Fields == {"call", "req", "pc", "i", "now", "gens", "snap", "reuse", "target"}
Shape(o) ==
    \/ o.call \in {"get", "fallback", "purge", "flush"} /\ o.pc = "probe"
    \/ o.call = "store" /\ o.pc = "render" /\ o.i = 0 /\ o.reuse = NoSlot /\ o.target = NoSlot
    \/ /\ o.call = "store" /\ o.pc \in {"probe", "write"}
       /\ o.pc = "write" => o.i = Probe - 1
       /\ DOMAIN o.gens = o.req.tags /\ DOMAIN o.snap = o.req.tags
       /\ \A t \in o.req.tags : o.gens[t] \in Nat /\ o.snap[t] \in Nat
    \/ o.call = "forget" /\ o.pc \in {"probe", "bump", "claim", "create", "evict"}

\* The part of the window that a probe has passed.
Passed(o) == IF o.pc = "write" THEN 0 .. o.i ELSE 0 .. o.i - 1
Window(o) == {Pos(o.req.key, j) : j \in Passed(o)}
Marks(o) ==
    o.call = "store" =>
      /\ o.reuse # NoSlot => o.reuse \in Window(o)
      /\ o.target # NoSlot => o.target \in Window(o)
      /\ Passed(o) # {} => o.reuse # NoSlot \/ o.target # NoSlot

Call(o) ==
    /\ DOMAIN o = Fields
    /\ o.req \in Requests /\ o.call = o.req.call
    /\ o.i \in 0 .. Last(o) /\ Shape(o) /\ Marks(o)

TypeInv ==
    /\ TableOK(slots) /\ TagsOK(tags)
    /\ DOMAIN op = Workers /\ \A w \in Busy : Call(op[w])
    /\ bumps \in [Tags -> Nat]
    /\ up \in BOOLEAN /\ stamp \in Stamps
    /\ ~up => Busy = {} /\ \A s \in Slots : slots[s] = Empty
    /\ file # NoFile => TableOK(file.slots) /\ TagsOK(file.tags) /\ file.stamp \in Stamps
    /\ ~up /\ ended = "saved" => file # NoFile

-----------------------------------------------------------------------------
\* Whose the entries of a table are.
OwnedBy(S, st) == \A s \in Slots : S[s].state = "live" => S[s].by = st
OwnInv == (up => OwnedBy(slots, stamp)) /\ (file # NoFile => OwnedBy(file.slots, file.stamp))

-----------------------------------------------------------------------------
\* Without the entries of purged, banned and flushed pages.
Without(S, K) == \A k \in K, s \in Slots : ~(S[s].state = "live" /\ S[s].key = k)

GoneInv ==
    /\ DOMAIN dirty = Workers
    /\ \A v \in Busy : Stores(op[v]) \cap gone = {}
    /\ \A u, v \in Busy : u # v => Stores(op[v]) \subseteq dirty[u]
    /\ \A w \in Busy : op[w].call \in {"purge", "flush"} =>
         \A k \in Clears(op[w]) \ dirty[w], j \in 0 .. op[w].i - 1 : ~Holds(j, k)
    /\ "lapsed" \notin flaws => Without(slots, gone)
    /\ "lapsed" \notin flaws /\ ~up /\ ended = "saved" => Without(file.slots, gone)

-----------------------------------------------------------------------------
\* Forgets and generations.
Off(T, t) == bumps[t] - Gen(T, t)
Kept(g, s, T) == \A t \in DOMAIN g : s[t] - g[t] = Off(T, t)
AllKept(S, T) == \A s \in Slots : S[s].state = "live" => Kept(S[s].gens, S[s].snap, T)

\* A forget has passed no free slot, and not its tag's.
Forgets(o, T) ==
    o.call = "forget" =>
      /\ \A j \in 0 .. o.i - 1 : T[TagAt(o.req.tag, j)].tag \notin {o.req.tag, None}
      /\ o.pc \in {"bump", "create"} => T[TagSlot(o)].tag = o.req.tag

TagInv ==
    flaws \cap {"evicted", "race", "lapsed"} = {} =>
      /\ TagsChained(tags) /\ AllKept(slots, tags)
      /\ \A w \in Busy :
           /\ Forgets(op[w], tags)
           /\ op[w].call = "store" /\ op[w].pc # "render" => Kept(op[w].gens, op[w].snap, tags)
      /\ ~up /\ ended = "saved" => TagsChained(file.tags) /\ AllKept(file.slots, file.tags)

-----------------------------------------------------------------------------
\* Chains, and lookups along them.
Probes(o) == o.call \in {"get", "fallback", "store"}
ChainInv ==
    "hole" \notin flaws =>
      /\ Chained(slots) /\ (file # NoFile => Chained(file.slots))
      /\ \A w \in Busy : Probes(op[w]) => \A s \in Window(op[w]) : slots[s].state # "empty"

FindsInv ==
    /\ DOMAIN steady = Workers
    /\ \A w \in Busy : op[w].call = "get" =>
         \A s \in steady[w] : s \in Slots /\ Holds(s, op[w].req.key) /\ s \notin Window(op[w])

\* One entry per page.
SingleInv ==
    flaws \cap {"hole", "overlap"} = {} =>
      /\ Single(slots) /\ (file # NoFile => Single(file.slots))
      /\ \A w \in Busy \cap clean : op[w].call = "store" =>
           \A s \in Window(op[w]) : slots[s].key # op[w].req.key

Inv == TypeInv /\ OwnInv /\ GoneInv /\ TagInv /\ ChainInv /\ FindsInv /\ SingleInv

-----------------------------------------------------------------------------
\* A probe stays in the table.
LEMMA PosSlot == \A k \in Keys, j \in Nat : Pos(k, j) \in Slots
BY RCacheAssumption, SMTT(40) DEF Pos, Slots

\* So does a probe of the tags.
LEMMA TagAtSlot == \A t \in Tags, j \in Nat : TagAt(t, j) \in TagSlots
BY RCacheAssumption, SMTT(40) DEF TagAt, TagSlots

\* No slot is none.
LEMMA SlotIsSome == NoSlot \notin Slots
BY RCacheAssumption, SMTT(40) DEF Slots, NoSlot

\* An empty slot is in order.
LEMMA EmptyOK == EntryOK(Empty) /\ Empty.state = "empty"
BY DEF EntryOK, Empty, Parts

\* So is a removed one.
LEMMA TombstoneOK ==
    ASSUME NEW e, EntryOK(e), e.state = "live"
    PROVE  EntryOK(Tombstone(e)) /\ Tombstone(e).state = "dead" /\ Tombstone(e).key = e.key
BY DEF EntryOK, Tombstone, Empty, Parts

\* What is known of a call.
LEMMA CallFacts ==
    ASSUME NEW o, Call(o)
    PROVE  /\ o # Idle /\ o.i \in Nat /\ Last(o) \in Nat /\ (o.i = Last(o) \/ o.i < Last(o))
           /\ o.call \in {"get", "fallback", "store"} => o.req.key \in Keys /\ Last(o) = Probe - 1
           /\ o.call = "store" => o.req.tags \subseteq Tags
           /\ o.call = "forget" => o.req.tag \in Tags /\ Last(o) = Probe - 1
           /\ o.call \in {"purge", "flush"} => o.i \in Slots /\ Last(o) = N - 1
<1>1. o # Idle
    BY SMTT(40) DEF Call, Shape, Idle, None
<1>2. Last(o) \in Nat
    BY RCacheAssumption, SMTT(40) DEF Last
<1>3. o.i \in Nat /\ (o.i = Last(o) \/ o.i < Last(o)) /\ o.i \in 0 .. Last(o)
    BY <1>2, SMTT(40) DEF Call
<1>4. o.call \in {"get", "fallback", "store", "forget"} => Last(o) = Probe - 1
    BY DEF Last
<1>5. o.call \in {"purge", "flush"} => Last(o) = N - 1
    BY DEF Last
<1>6. /\ o.call \in {"get", "fallback", "store"} => o.req.key \in Keys
      /\ o.call = "store" => o.req.tags \subseteq Tags
      /\ o.call = "forget" => o.req.tag \in Tags
    BY RequestsAssumption DEF Call
<1>7. o.call \in {"purge", "flush"} => o.i \in Slots
    BY <1>3, <1>5 DEF Slots
<1> QED BY <1>1, <1>2, <1>3, <1>4, <1>5, <1>6, <1>7

\* The slot a call is at.
LEMMA AtSlot ==
    ASSUME NEW o, Call(o), o.call # "forget"
    PROVE  At(o) \in Slots
<1>1. o.call \in {"get", "fallback", "store", "purge", "flush"}
    BY DEF Call, Shape
<1> QED BY <1>1, CallFacts, PosSlot DEF At

\* The generation of a tag is the one in the first slot of its window that is free
\* or its own.
First(T, t, i) ==
    /\ i \in 0 .. Probe - 1 /\ T[TagAt(t, i)].tag \in {t, None}
    /\ \A j \in 0 .. i - 1 : T[TagAt(t, j)].tag \notin {t, None}

\* The generation that such a slot gives.
LEMMA GenFirst ==
    ASSUME NEW T, NEW t, NEW i, First(T, t, i)
    PROVE  Gen(T, t) = IF T[TagAt(t, i)].tag = t THEN T[TagAt(t, i)].gen ELSE 0
<1>1. i \in Ends(T, t) /\ i \in Nat
    BY RCacheAssumption, SMTT(40) DEF First, Ends
<1>2. \A j \in Ends(T, t) : i <= j
    BY <1>1, RCacheAssumption, SMTT(40) DEF First, Ends
<1>3. \A k \in Ends(T, t) : (\A j \in Ends(T, t) : k <= j) => k = i
    BY <1>1, <1>2, RCacheAssumption, SMTT(40) DEF Ends
<1>4. End(T, t) = i
    BY <1>1, <1>2, <1>3 DEF End
<1> QED BY <1>1, <1>4 DEF Gen

\* There is such a slot, or the window is full of others.
LEMMA GenCases ==
    ASSUME NEW T, NEW t
    PROVE  \/ \E i : First(T, t, i)
           \/ (\A i \in 0 .. Probe - 1 : T[TagAt(t, i)].tag \notin {t, None}) /\ Gen(T, t) = 0
<1>1. CASE Ends(T, t) = {}
    BY <1>1 DEF Ends, Gen
<1>2. CASE Ends(T, t) # {}
    <2>1. Ends(T, t) \subseteq Nat
        BY RCacheAssumption, SMTT(40) DEF Ends
    <2>2. PICK i \in Ends(T, t) : \A j \in Ends(T, t) : ~(<<j, i>> \in OpToRel(<, Nat))
        BY <1>2, <2>1, NatLessThanWellFounded, WFMin
    <2>6. \A j \in Ends(T, t) : ~(j < i)
        BY <2>1, <2>2 DEF OpToRel
    <2>3. \A j \in Ends(T, t) : i <= j
        BY <2>1, <2>6, SMTT(40)
    <2>4. \A j \in 0 .. i - 1 : j \in 0 .. Probe - 1 /\ ~(i <= j)
        BY <2>1, RCacheAssumption, SMTT(40) DEF Ends
    <2>5. First(T, t, i)
        BY <2>3, <2>4 DEF First, Ends
    <2> QED BY <2>5
<1> QED BY <1>1, <1>2

\* Generations are numbers.
LEMMA GenNat ==
    ASSUME NEW T, TagsOK(T), NEW t \in Tags
    PROVE  Gen(T, t) \in Nat
<1>1. CASE \E i : First(T, t, i)
    <2>1. PICK i : First(T, t, i)
        BY <1>1
    <2>2. TagAt(t, i) \in TagSlots
        BY <2>1, TagAtSlot, RCacheAssumption, SMTT(40) DEF First
    <2>3. T[TagAt(t, i)].gen \in Nat
        BY <2>2 DEF TagsOK
    <2> QED BY <2>1, <2>3, GenFirst, SMTT(40)
<1>2. CASE ~ \E i : First(T, t, i)
    BY <1>2, GenCases, SMTT(40)
<1> QED BY <1>1, <1>2

-----------------------------------------------------------------------------
\* What a step of a call, other than its worker's death, does to the call.
Reaches(o, x) ==
    \/ Window(x) \subseteq Window(o)
    \/ /\ Window(x) \subseteq Window(o) \cup {At(o)}
       /\ slots' = slots /\ slots[At(o)].state # "empty"
       /\ o.call = "get" => ~Holds(At(o), o.req.key)
       /\ o.call = "store" => slots[At(o)].key # o.req.key

Keeps(o, x) ==
    \/ o.pc # "render" /\ x.gens = o.gens /\ x.snap = o.snap
    \/ /\ x.gens = [t \in o.req.tags |-> TagGen(t)] /\ x.snap = [t \in o.req.tags |-> bumps[t]]
       /\ UNCHANGED <<slots, tags, bumps>>

Moves(o, x) ==
    /\ x # Idle => /\ Call(x) /\ x.req = o.req
                   /\ Probes(o) => Reaches(o, x)
                   /\ o.call = "store" => x.pc # "render" /\ Keeps(o, x)
    /\ o.call \in {"purge", "flush"} =>
         /\ \A k \in Clears(o) : ~(slots'[o.i].state = "live" /\ slots'[o.i].key = k)
         /\ IF x = Idle THEN o.i = N - 1 ELSE x.i = o.i + 1

\* What it does to the tables.
Target(o, s) ==
    \/ o.pc = "probe" /\ s = At(o) /\ Takes(slots[s], o.req.key)
    \/ o.pc = "write" /\ s \in Window(o)

Quiet(w) ==
    /\ UNCHANGED <<slots, tags, bumps, flaws>>
    /\ clean' = clean \/ (clean' = clean \cup {w} /\ (op'[w] = Idle \/ Window(op'[w]) = {}))
Drops ==
    /\ \E s \in Slots : slots[s].state = "live"
                        /\ slots' = [slots EXCEPT ![s] = Tombstone(slots[s])]
    /\ UNCHANGED <<tags, bumps, flaws>> /\ clean' = {}
Saves(w) ==
    /\ op[w].call = "store" /\ op[w].pc # "render" /\ op'[w] = Idle
    /\ \E s \in Slots : Target(op[w], s) /\ slots' = [slots EXCEPT ![s] = Entry(op[w])]
    /\ flaws' = flaws \cup Overlap(w) /\ UNCHANGED <<tags, bumps>> /\ clean' = {}
Flushes ==
    /\ \E s \in Slots : slots' = [slots EXCEPT ![s] = Empty]
    /\ flaws' = flaws \cup {"hole"} /\ UNCHANGED <<tags, bumps>> /\ clean' = {}
Tagging(w) ==
    /\ op[w].call = "forget" /\ TagsOK(tags') /\ bumps' \in [Tags -> Nat]
    /\ \E flaw \in SUBSET {"race", "evicted"} : flaws' = flaws \cup flaw
    /\ UNCHANGED <<slots, clean>>

Stepped(w) ==
    /\ \E x : op' = [op EXCEPT ![w] = x] /\ Moves(op[w], x)
    /\ UNCHANGED <<disk, clock, calls>> /\ Record(w)
    /\ Quiet(w) \/ Drops \/ Saves(w) \/ Flushes \/ Tagging(w)

\* A call goes on to the next slot.
LEMMA NextSlot ==
    ASSUME NEW o, Call(o), o.pc = "probe", o.i < Last(o),
           NEW y, DOMAIN y = Fields, y.req = o.req, y.call = o.call, y.pc = o.pc, y.i = o.i,
           y.gens = o.gens, y.snap = o.snap,
           o.call = "store" =>
             /\ y.reuse # NoSlot => y.reuse \in Window(o) \cup {At(o)}
             /\ y.target # NoSlot => y.target \in Window(o) \cup {At(o)}
             /\ y.reuse # NoSlot \/ y.target # NoSlot
    PROVE  LET x == [y EXCEPT !.i = y.i + 1]
           IN /\ x # Idle /\ Call(x) /\ x.req = o.req /\ x.i = o.i + 1 /\ x.pc = o.pc
              /\ x.gens = o.gens /\ x.snap = o.snap
              /\ Probes(o) => Window(x) = Window(o) \cup {At(o)}
<1> DEFINE x == [y EXCEPT !.i = y.i + 1]
<1>1. /\ DOMAIN x = Fields /\ x.req = o.req /\ x.call = o.call /\ x.i = o.i + 1 /\ x.pc = "probe"
      /\ x.gens = o.gens /\ x.snap = o.snap /\ x.reuse = y.reuse /\ x.target = y.target
    BY DEF Fields
<1> HIDE DEF x
<1>2. o.i \in Nat /\ Last(o) \in Nat /\ Last(x) = Last(o)
    BY <1>1, CallFacts DEF Last
<1>3. x.i \in 0 .. Last(x) /\ 0 .. x.i - 1 = (0 .. o.i - 1) \cup {o.i}
    BY <1>1, <1>2, SMTT(40)
<1>4. Window(x) = {Pos(o.req.key, j) : j \in (0 .. o.i - 1) \cup {o.i}}
    BY <1>1, <1>3 DEF Window, Passed
<1>5. Window(o) = {Pos(o.req.key, j) : j \in 0 .. o.i - 1}
    BY DEF Window, Passed
<1>6. Probes(o) => At(o) = Pos(o.req.key, o.i)
    BY DEF Probes, At
<1>7. Probes(o) => Window(x) = Window(o) \cup {At(o)}
    BY <1>4, <1>5, <1>6
<1>8. Shape(x)
    BY <1>1 DEF Call, Shape
<1>9. Marks(x)
    BY <1>1, <1>7 DEF Marks, Probes
<1>10. Call(x)
    BY <1>1, <1>3, <1>8, <1>9 DEF Call
<1>11. x # Idle
    BY <1>10, CallFacts
<1> QED BY <1>1, <1>7, <1>10, <1>11 DEF x

\* One that looks at a slot and writes none.
LEMMA LookSteps ==
    ASSUME NEW w \in Workers, NEW x, Look(w, x), Moves(op[w], x)
    PROVE  Stepped(w)
BY DEF Look, Stepped, Quiet, memory

\* get and the fallback after a failure.
LEMMA GetSteps ==
    ASSUME TypeInv, NEW w \in Busy, GetSlot(w)
    PROVE  Stepped(w)
<1> DEFINE o == op[w]  s == At(o)
<1>1. /\ w \in Workers /\ Call(o) /\ DOMAIN op = Workers /\ o.call \in {"get", "fallback"}
      /\ o.pc = "probe"
    BY DEF TypeInv, Busy, GetSlot, Call, Shape
<1>2. s \in Slots /\ Probes(o) /\ o.call \notin {"purge", "flush", "store"}
    BY <1>1, AtSlot DEF Probes
<1>3. Moves(o, Idle)
    BY <1>2 DEF Moves
<1>4. CASE Holds(s, o.req.key) /\ ~Usable(slots[s], o)
    <2>1. Put(w, s, Tombstone(slots[s]), Idle, {})
        BY <1>4 DEF GetSlot
    <2>2. slots[s].state = "live"
        BY <1>4 DEF Holds
    <2>3. Drops
        BY <1>2, <2>1, <2>2 DEF Put, Drops
    <2> QED BY <1>1, <1>3, <2>1, <2>3 DEF Put, Stepped
<1>5. CASE ~(Holds(s, o.req.key) /\ ~Usable(slots[s], o))
    <2> DEFINE x == IF slots[s].state = "empty" \/ Holds(s, o.req.key) THEN Idle
                    ELSE Advance(o, Idle)
    <2>1. Look(w, x)
        BY <1>5 DEF GetSlot
    <2>2. CASE x = Idle
        BY <1>1, <1>3, <2>1, <2>2, LookSteps
    <2>3. CASE x # Idle
        <3>1. /\ x = [o EXCEPT !.i = o.i + 1] /\ o.i < Last(o)
              /\ slots[s].state # "empty" /\ ~Holds(s, o.req.key)
            BY <2>3 DEF Advance
        <3>2. DOMAIN o = Fields
            BY <1>1 DEF Call
        <3> HIDE DEF x, o, s
        <3>3. Call(x) /\ x.req = o.req /\ Window(x) = Window(o) \cup {At(o)}
            BY <1>1, <1>2, <3>1, <3>2, NextSlot
        <3> USE DEF o, s
        <3>4. slots' = slots
            BY <2>1 DEF Look, memory
        <3>5. Moves(o, x)
            BY <1>2, <3>1, <3>3, <3>4 DEF Moves, Reaches
        <3> QED BY <1>1, <2>1, <3>5, LookSteps
    <2> QED BY <2>2, <2>3
<1> QED BY <1>4, <1>5

\* The snapshot of the tags' generations that store takes.
LEMMA SnapshotSteps ==
    ASSUME TypeInv, NEW w \in Busy, Snapshot(w)
    PROVE  Stepped(w)
<1> DEFINE o == op[w]  T == o.req.tags
           y == [o EXCEPT !.pc = "probe", !.now = clock, !.gens = [t \in T |-> TagGen(t)],
                          !.snap = [t \in T |-> bumps[t]]]
           x == IF Cardinality(T) > MaxTags THEN Idle ELSE y
<1>1. /\ w \in Workers /\ Call(o) /\ DOMAIN op = Workers /\ o.call = "store" /\ o.pc = "render"
      /\ o.i = 0 /\ o.reuse = NoSlot /\ o.target = NoSlot
    BY DEF TypeInv, Busy, Snapshot, Call, Shape
<1>2. op' = [op EXCEPT ![w] = x]
    BY DEF Snapshot
<1>3. T \subseteq Tags /\ o.req \in Requests /\ o.call = o.req.call
    BY <1>1, CallFacts DEF Call
<1>4. /\ DOMAIN y = Fields /\ y.req = o.req /\ y.call = "store" /\ y.pc = "probe" /\ y.i = 0
      /\ y.reuse = NoSlot /\ y.target = NoSlot
      /\ y.gens = [t \in T |-> TagGen(t)] /\ y.snap = [t \in T |-> bumps[t]]
    BY <1>1 DEF Call, Fields
<1> HIDE DEF y
<1>5. \A t \in T : TagGen(t) \in Nat /\ bumps[t] \in Nat
    BY <1>3, GenNat DEF TypeInv, TagGen
<1>6. Window(y) = {} /\ Passed(y) = {}
    BY <1>4, SMTT(40) DEF Window, Passed
<1>7. Shape(y)
    BY <1>4, <1>5 DEF Shape
<1>8. Last(y) \in Nat
    BY RCacheAssumption, SMTT(40) DEF Last
<1>9. Call(y)
    <2>1. Marks(y) /\ y.i \in 0 .. Last(y)
        BY <1>4, <1>6, <1>8, SMTT(40) DEF Marks
    <2> QED BY <1>1, <1>3, <1>4, <1>7, <2>1 DEF Call
<1>10. UNCHANGED <<slots, tags, bumps, flaws>> /\ clean' = clean \cup {w}
    BY DEF Snapshot, memory
<1>11. Moves(o, x)
    BY <1>1, <1>4, <1>6, <1>9, <1>10 DEF Moves, Reaches, Keeps
<1>12. Quiet(w)
    BY <1>1, <1>2, <1>6, <1>10 DEF Quiet
<1> QED BY <1>2, <1>11, <1>12 DEF Snapshot, Stepped

\* What store writes.
LEMMA EntryFacts ==
    ASSUME NEW o, Call(o), o.call = "store", o.pc # "render"
    PROVE  /\ EntryOK(Entry(o)) /\ Entry(o).state = "live" /\ Entry(o).key = o.req.key
           /\ Entry(o).gens = o.gens /\ Entry(o).snap = o.snap /\ Entry(o).by = stamp
<1>1. /\ o.req.key \in Keys /\ o.req.tags \subseteq Tags /\ DOMAIN o.gens = o.req.tags
      /\ DOMAIN o.snap = o.req.tags /\ \A t \in o.req.tags : o.gens[t] \in Nat /\ o.snap[t] \in Nat
    BY CallFacts DEF Call, Shape
<1> DEFINE e == Entry(o)
<1>2. /\ DOMAIN e = Parts /\ e.state = "live" /\ e.key = o.req.key /\ e.app = AppOf[o.req.key]
      /\ e.gens = o.gens /\ e.snap = o.snap /\ e.by = stamp
    BY DEF Entry, Parts
<1> HIDE DEF e
<1>3. EntryOK(e)
    BY <1>1, <1>2 DEF EntryOK
<1> QED BY <1>2, <1>3 DEF e

\* The probe of store.
LEMMA StoreProbeSteps ==
    ASSUME TypeInv, NEW w \in Busy, StoreProbe(w)
    PROVE  Stepped(w)
<1> DEFINE o == op[w]  s == At(o)  e == slots[s]
           seen == [o EXCEPT
             !.reuse = IF e.state = "dead" /\ o.reuse = NoSlot THEN s ELSE o.reuse,
             !.target = IF e.state = "live" /\ o.target = NoSlot THEN s ELSE o.target]
           x == Advance(seen, [seen EXCEPT !.pc = "write"])
<1>1. w \in Workers /\ Call(o) /\ DOMAIN op = Workers /\ o.call = "store" /\ o.pc = "probe"
    BY DEF TypeInv, Busy, StoreProbe
<1>2. s \in Slots /\ Probes(o) /\ e.state \in {"empty", "dead", "live"} /\ s # NoSlot
    BY <1>1, AtSlot, SlotIsSome DEF Probes, TypeInv, TableOK, EntryOK
<1>3. CASE Takes(e, o.req.key)
    <2>1. Put(w, s, Entry(o), Idle, Overlap(w))
        BY <1>3 DEF StoreProbe
    <2>2. op'[w] = Idle /\ Moves(o, Idle)
        BY <1>1, <2>1 DEF Put, Moves
    <2>3. Saves(w)
        BY <1>1, <1>2, <1>3, <2>1, <2>2 DEF Put, Saves, Target
    <2> QED BY <2>1, <2>2, <2>3 DEF Put, Stepped
<1>4. CASE ~Takes(e, o.req.key)
    <2>1. Look(w, x)
        BY <1>4 DEF StoreProbe
    <2>2. e.state # "empty" /\ e.key # o.req.key
        BY <1>4 DEF Takes
    <2>3. slots' = slots
        BY <2>1 DEF Look, memory
    <2>4. DOMAIN o = Fields /\ Marks(o)
        BY <1>1 DEF Call
    <2>5. /\ DOMAIN seen = Fields /\ seen.req = o.req /\ seen.call = o.call /\ seen.pc = o.pc
          /\ seen.i = o.i /\ seen.gens = o.gens /\ seen.snap = o.snap
          /\ seen.reuse = IF e.state = "dead" /\ o.reuse = NoSlot THEN s ELSE o.reuse
          /\ seen.target = IF e.state = "live" /\ o.target = NoSlot THEN s ELSE o.target
        BY <2>4 DEF Fields
    <2> HIDE DEF seen
    <2>6. /\ seen.reuse # NoSlot => seen.reuse \in Window(o) \cup {s}
          /\ seen.target # NoSlot => seen.target \in Window(o) \cup {s}
          /\ seen.reuse # NoSlot \/ seen.target # NoSlot
        BY <1>1, <1>2, <2>2, <2>4, <2>5 DEF Marks
    <2>7. Last(seen) = Last(o)
        BY <2>5 DEF Last
    <2>8. CASE o.i < Last(o)
        <3>1. x = [seen EXCEPT !.i = seen.i + 1]
            BY <2>5, <2>7, <2>8 DEF Advance
        <3> HIDE DEF x, o, s, e
        <3>2. /\ Call(x) /\ x.req = o.req /\ x.pc = o.pc /\ x.gens = o.gens /\ x.snap = o.snap
              /\ Window(x) = Window(o) \cup {At(o)}
            BY <1>1, <1>2, <2>5, <2>6, <2>8, <3>1, NextSlot DEF s
        <3>3. Moves(o, x)
            BY <1>1, <2>2, <2>3, <3>2 DEF Moves, Reaches, Keeps, e, s
        <3> QED BY <1>1, <2>1, <3>3, LookSteps DEF o
    <2>9. CASE ~(o.i < Last(o))
        <3>1. x = [seen EXCEPT !.pc = "write"]
            BY <2>5, <2>7, <2>9 DEF Advance
        <3> HIDE DEF x
        <3>2. /\ DOMAIN x = Fields /\ x.req = o.req /\ x.call = o.call /\ x.pc = "write"
              /\ x.i = o.i /\ x.gens = o.gens /\ x.snap = o.snap
              /\ x.reuse = seen.reuse /\ x.target = seen.target
            BY <2>5, <3>1 DEF Fields
        <3>3. o.i \in Nat /\ 0 .. o.i = (0 .. o.i - 1) \cup {o.i}
            BY <1>1, CallFacts, SMTT(40)
        <3>4. Window(x) = {Pos(o.req.key, j) : j \in (0 .. o.i - 1) \cup {o.i}}
            BY <3>2, <3>3 DEF Window, Passed
        <3>5. Window(x) = Window(o) \cup {s}
            <4>1. Window(o) = {Pos(o.req.key, j) : j \in 0 .. o.i - 1} /\ s = Pos(o.req.key, o.i)
                BY <1>1 DEF Window, Passed, At
            <4> QED BY <3>4, <4>1
        <3>6. Shape(x) /\ Last(x) = Last(o)
            <4>1. o.i = Probe - 1
                BY <1>1, <2>9, CallFacts
            <4> QED BY <1>1, <3>2, <4>1 DEF Call, Shape, Last
        <3>7. Call(x)
            BY <1>1, <2>6, <3>2, <3>5, <3>6 DEF Call, Marks
        <3>8. Moves(o, x)
            BY <1>1, <2>2, <2>3, <3>2, <3>5, <3>7 DEF Moves, Reaches, Keeps
        <3> QED BY <1>1, <2>1, <3>8, LookSteps
    <2> QED BY <2>8, <2>9
<1> QED BY <1>3, <1>4

\* The write of store into a full window.
LEMMA StoreWriteSteps ==
    ASSUME TypeInv, NEW w \in Busy, StoreWrite(w)
    PROVE  Stepped(w)
<1> DEFINE o == op[w]  s == IF o.reuse # NoSlot THEN o.reuse ELSE o.target
<1>1. w \in Workers /\ Call(o) /\ DOMAIN op = Workers /\ o.call = "store" /\ o.pc = "write"
    BY DEF TypeInv, Busy, StoreWrite
<1>2. o.i \in Nat /\ o.req.key \in Keys
    BY <1>1, CallFacts
<1>3. Passed(o) # {} /\ Window(o) \subseteq Slots
    BY <1>1, <1>2, PosSlot, SMTT(40) DEF Passed, Window
<1>4. s \in Window(o)
    BY <1>1, <1>3 DEF Call, Marks
<1>5. Put(w, s, Entry(o), Idle, Overlap(w))
    BY DEF StoreWrite
<1> HIDE DEF s
<1>6. op'[w] = Idle /\ Moves(o, Idle)
    BY <1>1, <1>5 DEF Put, Moves
<1>7. Saves(w)
    BY <1>1, <1>3, <1>4, <1>5, <1>6 DEF Put, Saves, Target
<1> QED BY <1>5, <1>6, <1>7 DEF Put, Stepped

\* A scan for pages to remove, after its slot.
LEMMA ScanMoves ==
    ASSUME NEW o, Call(o), o.call \in {"purge", "flush"},
           \A k \in Clears(o) : ~(slots'[o.i].state = "live" /\ slots'[o.i].key = k)
    PROVE  Moves(o, Advance(o, Idle))
<1>1. o.pc = "probe" /\ DOMAIN o = Fields /\ o.call # "store" /\ ~Probes(o)
    BY DEF Call, Shape, Probes
<1>2. o.i \in Nat /\ Last(o) = N - 1 /\ (o.i = Last(o) \/ o.i < Last(o))
    BY CallFacts
<1>3. CASE o.i < Last(o)
    <2> DEFINE x == [o EXCEPT !.i = o.i + 1]
    <2>1. x # Idle /\ Call(x) /\ x.req = o.req /\ x.i = o.i + 1
        BY <1>1, <1>3, NextSlot
    <2>2. Advance(o, Idle) = x
        BY <1>3 DEF Advance
    <2> HIDE DEF x
    <2> QED BY <1>1, <2>1, <2>2 DEF Moves
<1>4. CASE o.i = Last(o)
    <2>1. Advance(o, Idle) = Idle
        BY <1>2, <1>4, RCacheAssumption, SMTT(40) DEF Advance
    <2> QED BY <1>1, <1>2, <1>4, <2>1 DEF Moves
<1> QED BY <1>2, <1>3, <1>4

\* purge_url and ban_glob, and flush_app.
LEMMA ScanSteps ==
    ASSUME TypeInv, NEW w \in Busy, PurgeSlot(w) \/ FlushSlot(w)
    PROVE  Stepped(w)
<1> DEFINE o == op[w]  e == slots[o.i]
<1>1. /\ w \in Workers /\ Call(o) /\ DOMAIN op = Workers /\ o.call \in {"purge", "flush"}
      /\ DOMAIN slots = Slots
    BY DEF TypeInv, TableOK, Busy, PurgeSlot, FlushSlot
<1>2. o.i \in Slots
    BY <1>1, CallFacts
<1>3. EntryOK(e)
    BY <1>2 DEF TypeInv, TableOK
<1>4. CASE PurgeSlot(w) /\ e.state = "live" /\ e.key \in o.req.want
    <2>1. Put(w, o.i, Tombstone(e), Advance(o, Idle), {})
        BY <1>4 DEF PurgeSlot, AfterPurge
    <2>2. slots'[o.i].state = "dead"
        BY <1>1, <1>2, <1>3, <1>4, <2>1, TombstoneOK DEF Put
    <2>3. Moves(o, Advance(o, Idle))
        BY <1>1, <2>2, ScanMoves
    <2>4. Drops
        BY <1>2, <1>4, <2>1 DEF Put, Drops
    <2> QED BY <2>1, <2>3, <2>4 DEF Put, Stepped
<1>5. CASE FlushSlot(w) /\ e.app = o.req.app
    <2>1. Put(w, o.i, Empty, Advance(o, Idle), {"hole"})
        BY <1>5 DEF FlushSlot
    <2>2. slots'[o.i].state = "empty"
        BY <1>1, <1>2, <2>1, EmptyOK DEF Put
    <2>3. Moves(o, Advance(o, Idle))
        BY <1>1, <2>2, ScanMoves
    <2>4. Flushes
        BY <1>2, <2>1 DEF Put, Flushes
    <2> QED BY <2>1, <2>3, <2>4 DEF Put, Stepped
<1>6. CASE /\ ~(PurgeSlot(w) /\ e.state = "live" /\ e.key \in o.req.want)
           /\ ~(FlushSlot(w) /\ e.app = o.req.app)
    <2>1. Look(w, Advance(o, Idle))
        BY <1>6 DEF PurgeSlot, FlushSlot
    <2>2. slots' = slots
        BY <2>1 DEF Look, memory
    <2>3. \A k \in Clears(o) : ~(e.state = "live" /\ e.key = k)
        BY <1>3, <1>6 DEF PurgeSlot, FlushSlot, Clears, EntryOK
    <2>4. Moves(o, Advance(o, Idle))
        BY <1>1, <2>2, <2>3, ScanMoves
    <2> QED BY <1>1, <2>1, <2>4, LookSteps
<1> QED BY <1>4, <1>5, <1>6

\* A forget goes on: at another slot, or with another step.
LEMMA ForgetMoves ==
    ASSUME NEW o, Call(o), o.call = "forget", NEW x,
           x \in {Idle, NextTag(o), [o EXCEPT !.pc = "bump"], [o EXCEPT !.pc = "claim"],
                  [o EXCEPT !.pc = "create"]}
    PROVE  Moves(o, x)
<1>1. /\ o.i \in Nat /\ Last(o) = Probe - 1 /\ Probe - 1 \in Nat /\ o.i \in 0 .. Probe - 1
      /\ DOMAIN o = Fields /\ o.req \in Requests /\ o.call = o.req.call
      /\ ~Probes(o)
    BY CallFacts, RCacheAssumption DEF Call, Probes
<1>2. CASE x = Idle
    BY <1>2 DEF Moves
<1>3. CASE x # Idle
    <2>1. /\ DOMAIN x = Fields /\ x.req = o.req /\ x.call = o.call
          /\ x.pc \in {"probe", "bump", "claim", "create", "evict"}
        BY <1>1, <1>3 DEF NextTag, Fields
    <2>2. x.i \in 0 .. Probe - 1
        <3>1. x.i = o.i \/ x.i = 0 \/ (x.i = o.i + 1 /\ o.i < Probe - 1)
            BY <1>1, <1>3 DEF NextTag, Fields
        <3> QED BY <1>1, <3>1, SMTT(40)
    <2>3. Last(x) = Probe - 1
        BY <2>1 DEF Last
    <2>4. Call(x)
        BY <1>1, <2>1, <2>2, <2>3 DEF Call, Shape, Marks
    <2> QED BY <1>1, <2>1, <2>4 DEF Moves
<1> QED BY <1>2, <1>3

\* A step of forget_tag that writes to the tags.
LEMMA PutTagSteps ==
    ASSUME TypeInv, NEW w \in Busy, Call(op[w]), op[w].call = "forget", NEW x,
           NEW t \in Tags \cup {None}, NEW g \in Nat, NEW bump \in BOOLEAN,
           NEW flaw \in SUBSET {"race", "evicted"},
           PutTag(w, TagSlot(op[w]), [tag |-> t, gen |-> g], x, bump, flaw), Moves(op[w], x)
    PROVE  Stepped(w)
<1>1. op[w].req.tag \in Tags /\ op[w].i \in Nat
    BY CallFacts
<1>2. TagSlot(op[w]) \in TagSlots
    BY <1>1, TagAtSlot DEF TagSlot
<1>4. TagsOK(tags')
    BY <1>2 DEF TypeInv, TagsOK, PutTag
<1>5. bumps' \in [Tags -> Nat]
    BY <1>1, SMTT(40) DEF TypeInv, PutTag
<1>6. Tagging(w)
    BY <1>4, <1>5 DEF Tagging, PutTag
<1> QED BY <1>6 DEF PutTag, Stepped

\* forget_tag.
LEMMA ForgetSteps ==
    ASSUME TypeInv, NEW w \in Busy,
           ForgetProbe(w) \/ ForgetBump(w) \/ ForgetClaim(w) \/ ForgetCreate(w) \/ ForgetEvict(w)
    PROVE  Stepped(w)
<1> DEFINE o == op[w]  r == tags[TagSlot(o)]
<1>1. w \in Workers /\ Call(o) /\ DOMAIN op = Workers /\ o.call = "forget"
    BY DEF TypeInv, Busy, ForgetProbe, ForgetBump, ForgetClaim, ForgetCreate, ForgetEvict
<1>2. o.req.tag \in Tags /\ TagSlot(o) \in TagSlots
    BY <1>1, CallFacts, TagAtSlot DEF TagSlot
<1>3. /\ r.tag \in Tags \cup {None} /\ r.gen \in Nat /\ r.gen + 1 \in Nat
      /\ r = [tag |-> r.tag, gen |-> r.gen]
    BY <1>2, SMTT(40) DEF TypeInv, TagsOK
<1>4. /\ \A g : [r EXCEPT !.gen = g] = [tag |-> r.tag, gen |-> g]
      /\ \A t : [r EXCEPT !.tag = t] = [tag |-> t, gen |-> r.gen]
    BY <1>3, SMTT(40)
<1>5. CASE ForgetProbe(w)
    <2>1. PICK x \in {NextTag(o), [o EXCEPT !.pc = "bump"], [o EXCEPT !.pc = "claim"]} : Look(w, x)
        BY <1>5 DEF ForgetProbe
    <2>2. Moves(o, x)
        BY <1>1, ForgetMoves
    <2> QED BY <1>1, <2>1, <2>2, LookSteps
<1>6. CASE ~ForgetProbe(w)
    <2>1. PICK x \in {Idle, NextTag(o), [o EXCEPT !.pc = "bump"], [o EXCEPT !.pc = "create"]},
               bump \in BOOLEAN, flaw \in SUBSET {"race", "evicted"},
               t \in Tags \cup {None}, g \in Nat :
            PutTag(w, TagSlot(o), [tag |-> t, gen |-> g], x, bump, flaw)
        <3>1. CASE ForgetBump(w)
            <4>1. PutTag(w, TagSlot(o), [tag |-> r.tag, gen |-> r.gen + 1], Idle, TRUE, {})
                BY <1>4, <3>1 DEF ForgetBump
            <4> QED BY <1>3, <4>1
        <3>2. CASE ForgetClaim(w) /\ r.tag = None
            <4>1. PutTag(w, TagSlot(o), [tag |-> o.req.tag, gen |-> r.gen],
                         [o EXCEPT !.pc = "create"], FALSE, {})
                BY <1>4, <3>2 DEF ForgetClaim
            <4> QED BY <1>2, <1>3, <4>1
        <3>5. CASE ForgetClaim(w) /\ r.tag # None
            <4>1. \E flaw \in {{}, {"race"}} :
                    PutTag(w, TagSlot(o), [tag |-> r.tag, gen |-> r.gen], NextTag(o), FALSE, flaw)
                BY <1>3, <3>5 DEF ForgetClaim
            <4> QED BY <1>3, <4>1
        <3>3. CASE ForgetCreate(w)
            <4>1. \E flaw \in {{}, {"race"}} :
                    PutTag(w, TagSlot(o), [tag |-> r.tag, gen |-> 1], Idle, TRUE, flaw)
                BY <1>4, <3>3 DEF ForgetCreate, FirstGen
            <4> QED BY <1>3, <4>1
        <3>4. CASE ForgetEvict(w)
            <4>1. PutTag(w, TagSlot(o), [tag |-> o.req.tag, gen |-> r.gen],
                         [o EXCEPT !.pc = "bump"], FALSE, {"evicted"})
                BY <1>4, <3>4 DEF ForgetEvict
            <4> QED BY <1>2, <1>3, <4>1
        <3> QED BY <1>6, <3>1, <3>2, <3>3, <3>4, <3>5
    <2> HIDE DEF o
    <2>3. x \in {Idle, NextTag(o), [o EXCEPT !.pc = "bump"], [o EXCEPT !.pc = "claim"],
                [o EXCEPT !.pc = "create"]}
        BY <2>1
    <2>2. Moves(o, x)
        BY <1>1, <2>3, ForgetMoves
    <2> QED BY <1>1, <2>1, <2>2, PutTagSteps, SMTT(40) DEF o
<1> QED BY <1>5, <1>6

\* All of them.
LEMMA StepSteps ==
    ASSUME TypeInv, NEW w \in Workers, Step(w)
    PROVE  w \in Busy /\ (Stepped(w) \/ Die(w))
BY GetSteps, SnapshotSteps, StoreProbeSteps, StoreWriteSteps, ScanSteps, ForgetSteps DEF Step

-----------------------------------------------------------------------------
\* What a step of a call does to a slot.
Changes(w, s) ==
    \/ slots'[s] = slots[s]
    \/ slots[s].state = "live" /\ slots'[s] = Tombstone(slots[s])
    \/ Saves(w) /\ Target(op[w], s) /\ slots'[s] = Entry(op[w])
    \/ slots'[s] = Empty /\ "hole" \in flaws'

\* No step does more than that to one.
LEMMA SlotChange ==
    ASSUME TypeInv, NEW w, Quiet(w) \/ Drops \/ Saves(w) \/ Flushes \/ Tagging(w)
    PROVE  DOMAIN slots' = Slots /\ \A s \in Slots : Changes(w, s)
<1>1. DOMAIN slots = Slots
    BY DEF TypeInv, TableOK
<1>2. CASE Quiet(w) \/ Tagging(w)
    BY <1>1, <1>2 DEF Quiet, Tagging, Changes
<1>3. CASE Drops
    BY <1>1, <1>3 DEF Drops, Changes
<1>4. CASE Saves(w)
    <2>1. PICK s \in Slots : Target(op[w], s) /\ slots' = [slots EXCEPT ![s] = Entry(op[w])]
        BY <1>4 DEF Saves
    <2>2. \A r \in Slots : slots'[r] = IF r = s THEN Entry(op[w]) ELSE slots[r]
        BY <1>1, <2>1
    <2> QED BY <1>1, <1>4, <2>1, <2>2 DEF Changes
<1>5. CASE Flushes
    BY <1>1, <1>5 DEF Flushes, Changes
<1> QED BY <1>2, <1>3, <1>4, <1>5

\* What a step does to the calls: the others go on where they were.
LEMMA OpChange ==
    ASSUME TypeInv, NEW w \in Busy, Stepped(w)
    PROVE  /\ DOMAIN op' = Workers /\ w \in Workers /\ up /\ Call(op[w])
           /\ \A v \in Workers : v # w => op'[v] = op[v]
           /\ Busy' \subseteq Busy /\ Moves(op[w], op'[w])
           /\ w \in Busy' => /\ op'[w] # Idle /\ Call(op'[w]) /\ op'[w].req = op[w].req
                             /\ op'[w].call = op[w].call
           /\ up' = up /\ file' = file /\ stamp' = stamp /\ ended' = ended
<1>1. w \in Workers /\ DOMAIN op = Workers /\ up /\ Call(op[w]) /\ op[w] # Idle
    BY DEF TypeInv, Busy
<1>2. PICK x : op' = [op EXCEPT ![w] = x] /\ Moves(op[w], x)
    BY DEF Stepped
<1>3. op'[w] = x /\ DOMAIN op' = Workers /\ \A v \in Workers : v # w => op'[v] = op[v]
    BY <1>1, <1>2
<1>4. Busy' \subseteq Busy /\ (w \in Busy' => x # Idle)
    BY <1>1, <1>3 DEF Busy, Idle
<1>5. x # Idle => Call(x) /\ x.req = op[w].req /\ x.call = op[w].call
    BY <1>1, <1>2 DEF Moves, Call
<1>6. up' = up /\ file' = file /\ stamp' = stamp /\ ended' = ended
    BY DEF Stepped, disk
<1> QED BY <1>1, <1>2, <1>3, <1>4, <1>5, <1>6

\* A step of a call keeps the types, ...
LEMMA TypeStep ==
    ASSUME TypeInv, NEW w \in Busy, Stepped(w)
    PROVE  TypeInv'
<1>1. /\ DOMAIN op' = Workers /\ up /\ Call(op[w]) /\ Busy' \subseteq Busy
      /\ \A v \in Workers : v # w => op'[v] = op[v]
      /\ w \in Busy' => Call(op'[w])
      /\ up' = up /\ file' = file /\ stamp' = stamp /\ ended' = ended
    BY OpChange
<1>2. TableOK(slots')
    <2>1. DOMAIN slots' = Slots /\ \A s \in Slots : Changes(w, s)
        BY SlotChange DEF Stepped
    <2>2. ASSUME NEW s \in Slots PROVE EntryOK(slots'[s])
        <3>1. EntryOK(slots[s]) /\ Changes(w, s)
            BY <2>1 DEF TypeInv, TableOK
        <3>2. Saves(w) => EntryOK(Entry(op[w]))
            BY <1>1, EntryFacts DEF Saves
        <3> QED BY <3>1, <3>2, EmptyOK, TombstoneOK DEF Changes
    <2> QED BY <2>1, <2>2 DEF TableOK
<1>3. TagsOK(tags') /\ bumps' \in [Tags -> Nat]
    BY DEF TypeInv, Stepped, Quiet, Drops, Saves, Flushes, Tagging
<1>4. \A v \in Busy' : Call(op'[v])
    BY <1>1 DEF TypeInv, Busy
<1> QED BY <1>1, <1>2, <1>3, <1>4
        DEF TypeInv, Busy, Idle, TableOK, EntryOK, TagsOK, Slots, TagSlots, Call, NoFile

\* ... and whose the entries are.
LEMMA OwnStep ==
    ASSUME TypeInv, OwnInv, NEW w \in Busy, Stepped(w)
    PROVE  OwnInv'
<1>1. up' = up /\ file' = file /\ stamp' = stamp /\ up /\ Call(op[w])
    BY OpChange
<1>2. ASSUME NEW s \in Slots, slots'[s].state = "live" PROVE slots'[s].by = stamp
    <2>1. Changes(w, s) /\ EntryOK(slots[s])
        BY SlotChange DEF Stepped, TypeInv, TableOK
    <2>2. Saves(w) => Entry(op[w]).by = stamp
        BY <1>1, EntryFacts DEF Saves
    <2>3. slots[s].state = "live" => slots[s].by = stamp
        BY <1>1 DEF OwnInv, OwnedBy
    <2> QED BY <1>2, <2>1, <2>2, <2>3, EmptyOK, TombstoneOK DEF Changes
<1> QED BY <1>1, <1>2 DEF OwnInv, OwnedBy, Slots, NoFile

\* A scan that goes on, or ends, has left no page behind that it removes.
LEMMA ScanStep ==
    ASSUME TypeInv, GoneInv, NEW w \in Busy, Stepped(w), NEW u \in Busy,
           op[u].call \in {"purge", "flush"}, NEW k \in Clears(op[u]) \ dirty[u], NEW j \in Slots,
           j < op[u].i \/ (u = w /\ j = op[u].i)
    PROVE  ~(slots'[j].state = "live" /\ slots'[j].key = k)
<1>1. Call(op[w]) /\ Call(op[u]) /\ op[u].i \in Nat /\ Moves(op[w], op'[w])
    BY OpChange, CallFacts DEF TypeInv
<1>2. CASE u = w /\ j = op[u].i
    BY <1>1, <1>2 DEF Moves
<1>3. CASE j < op[u].i
    <2>1. j \in 0 .. op[u].i - 1
        BY <1>1, <1>3, RCacheAssumption, SMTT(40) DEF Slots
    <2>2. ~(slots[j].state = "live" /\ slots[j].key = k)
        BY <2>1 DEF GoneInv, Holds
    <2>3. Changes(w, j) /\ EntryOK(slots[j])
        BY SlotChange DEF Stepped, TypeInv, TableOK
    <2>4. Saves(w) => k # op[w].req.key
        BY DEF GoneInv, Stores, Saves
    <2>5. Saves(w) => Entry(op[w]).key = op[w].req.key
        BY <1>1, EntryFacts DEF Saves
    <2> QED BY <2>2, <2>3, <2>4, <2>5, EmptyOK, TombstoneOK DEF Changes
<1> QED BY <1>2, <1>3

\* What is purged, banned or flushed stays away.
LEMMA GoneStep ==
    ASSUME TypeInv, GoneInv, NEW w \in Busy, Stepped(w)
    PROVE  GoneInv'
<1> DEFINE o == op[w]
           cleared == IF op'[w] = Idle THEN Clears(o) \ dirty[w] ELSE {}
<1>1. /\ DOMAIN op' = Workers /\ w \in Workers /\ up /\ Call(o) /\ Busy' \subseteq Busy
      /\ \A v \in Workers : v # w => op'[v] = op[v]
      /\ w \in Busy' => op'[w] # Idle /\ Call(op'[w]) /\ op'[w].req = o.req /\ op'[w].call = o.call
      /\ Moves(o, op'[w]) /\ up' = up
    BY OpChange
<1>2. /\ gone' = gone \cup cleared
      /\ dirty' = IF op'[w] = Idle THEN [dirty EXCEPT ![w] = {}] ELSE dirty
    BY DEF Stepped, Record
<1>3. DOMAIN dirty' = Workers /\ \A v \in Busy' : dirty'[v] = dirty[v]
    BY <1>1, <1>2 DEF GoneInv, Busy
<1>4. \A v \in Busy' : v \in Busy /\ v \in Workers
    BY <1>1 DEF Busy
<1>5. \A v \in Busy' : Stores(op'[v]) = Stores(op[v]) /\ Clears(op'[v]) = Clears(op[v])
                       /\ op'[v].call = op[v].call
    BY <1>1, <1>4 DEF Stores, Clears
<1>6. ASSUME NEW v \in Busy' PROVE Stores(op'[v]) \cap gone' = {}
    <2>1. Stores(op'[v]) \cap gone = {}
        BY <1>4, <1>5 DEF GoneInv
    <2>2. op'[w] = Idle => v # w /\ Stores(op'[v]) \subseteq dirty[w]
        BY <1>1, <1>4, <1>5 DEF GoneInv
    <2> QED BY <1>2, <2>1, <2>2
<1>7. \A u, v \in Busy' : u # v => Stores(op'[v]) \subseteq dirty'[u]
    BY <1>3, <1>4, <1>5 DEF GoneInv
<1>8. ASSUME NEW u \in Busy', op'[u].call \in {"purge", "flush"},
             NEW k \in Clears(op'[u]) \ dirty'[u], NEW j \in 0 .. op'[u].i - 1
      PROVE  ~(slots'[j].state = "live" /\ slots'[j].key = k)
    <2>1. u \in Busy /\ op[u].call \in {"purge", "flush"} /\ k \in Clears(op[u]) \ dirty[u]
        BY <1>3, <1>4, <1>5, <1>8
    <2>2. Call(op'[u]) /\ Call(op[u])
        BY <1>1, <1>4 DEF TypeInv
    <2>3. op'[u].i \in Slots /\ op[u].i \in Slots /\ j \in Slots /\ j < op'[u].i
        BY <1>8, <2>1, <2>2, CallFacts, RCacheAssumption, SMTT(40) DEF Slots
    <2>4. op'[u].i = op[u].i \/ (u = w /\ op'[u].i = op[u].i + 1)
        BY <1>1, <1>4, <2>1 DEF Moves
    <2>5. j < op[u].i \/ (u = w /\ j = op[u].i)
        BY <2>3, <2>4, RCacheAssumption, SMTT(40) DEF Slots
    <2> QED BY <2>1, <2>3, <2>5, ScanStep
<1>9. ASSUME "lapsed" \notin flaws', NEW k \in gone', NEW s \in Slots
      PROVE  ~(slots'[s].state = "live" /\ slots'[s].key = k)
    <2>1. CASE k \in gone
        <3>1. ~(slots[s].state = "live" /\ slots[s].key = k)
            BY <1>9, <2>1 DEF GoneInv, Without, Stepped, Quiet, Drops, Saves, Flushes, Tagging
        <3>2. Changes(w, s) /\ EntryOK(slots[s])
            BY SlotChange DEF Stepped, TypeInv, TableOK
        <3>3. Saves(w) => k # o.req.key
            BY <2>1 DEF GoneInv, Stores, Saves
        <3>4. Saves(w) => Entry(o).key = o.req.key
            BY <1>1, EntryFacts DEF Saves
        <3> QED BY <3>1, <3>2, <3>3, <3>4, EmptyOK, TombstoneOK DEF Changes
    <2>2. CASE k \in cleared
        <3>1. op'[w] = Idle /\ k \in Clears(o) \ dirty[w] /\ o.call \in {"purge", "flush"}
            BY <2>2 DEF Clears
        <3>2. o.i = N - 1
            BY <1>1, <3>1 DEF Moves
        <3>3. s < o.i \/ s = o.i
            BY <3>2, RCacheAssumption, SMTT(40) DEF Slots
        <3> QED BY <3>1, <3>3, ScanStep
    <2> QED BY <1>2, <2>1, <2>2
<1> QED BY <1>1, <1>3, <1>6, <1>7, <1>8, <1>9
        DEF GoneInv, Holds, Without, Busy, Idle, Stores, Clears, Slots

-----------------------------------------------------------------------------
\* Table U is table T with tag t in the first slot it can have.
Sets(T, U, t, i, g) ==
    First(T, t, i) /\ U = [T EXCEPT ![TagAt(t, i)] = [tag |-> t, gen |-> g]]

\* No other tag's generation changes by that.
LEMMA GenSet ==
    ASSUME NEW T, TagsOK(T), TagsChained(T), NEW t \in Tags, NEW i,
           NEW g \in Nat, NEW U, Sets(T, U, t, i, g)
    PROVE  /\ Gen(U, t) = g /\ \A v \in Tags : v # t => Gen(U, v) = Gen(T, v)
           /\ TagsChained(U) /\ \A s \in TagSlots : T[s].tag # None => U[s].tag = T[s].tag
<1> DEFINE s == TagAt(t, i)
<1>0. First(T, t, i) /\ U = [T EXCEPT ![TagAt(t, i)] = [tag |-> t, gen |-> g]]
    BY DEF Sets
<1>1. /\ i \in 0 .. Probe - 1 /\ i \in Nat /\ s \in TagSlots /\ T[s].tag \in {t, None} /\ t # None
      /\ DOMAIN T = TagSlots
    BY <1>0, TagAtSlot, RCacheAssumption, SMTT(40) DEF First, TagsOK, None
<1>2. \A r \in TagSlots : U[r] = IF r = s THEN [tag |-> t, gen |-> g] ELSE T[r]
    BY <1>0, <1>1
<1>3. U[s].tag = t /\ U[s].gen = g /\ \A r \in TagSlots : r # s => U[r] = T[r]
    BY <1>1, <1>2, SMTT(40)
<1>4. \A r \in TagSlots : T[r].tag # None => U[r].tag = T[r].tag
    BY <1>1, <1>3
<1>5. \A v \in Tags, j \in 0 .. Probe - 1 : TagAt(v, j) \in TagSlots
    BY TagAtSlot, SMTT(40)
<1>6. \A j \in 0 .. i - 1 : j \in 0 .. Probe - 1
    BY <1>1, RCacheAssumption, SMTT(40)
<1> HIDE DEF s
<1>7. First(U, t, i)
    <2>1. \A j \in 0 .. i - 1 : T[TagAt(t, j)].tag \notin {t, None}
        BY <1>0 DEF First
    <2>2. \A j \in 0 .. i - 1 : U[TagAt(t, j)].tag \notin {t, None}
        BY <1>4, <1>5, <1>6, <2>1
    <2> QED BY <1>1, <1>3, <2>2 DEF First, s
<1>8. Gen(U, t) = g
    <2>1. Gen(U, t) = IF U[TagAt(t, i)].tag = t THEN U[TagAt(t, i)].gen ELSE 0
        BY <1>7, GenFirst
    <2> QED BY <1>3, <2>1 DEF s
<1>9. ASSUME NEW v \in Tags, v # t PROVE Gen(U, v) = Gen(T, v)
    <2>0. v # None
        BY RCacheAssumption DEF None
    <2>1. CASE \E k : First(T, v, k) /\ TagAt(v, k) # s
        <3>1. PICK k : First(T, v, k) /\ TagAt(v, k) # s
            BY <2>1
        <3>2. k \in 0 .. Probe - 1 /\ \A j \in 0 .. k - 1 : j \in 0 .. Probe - 1
            BY <3>1, RCacheAssumption, SMTT(40) DEF First
        <3>3. U[TagAt(v, k)] = T[TagAt(v, k)]
            BY <1>3, <1>5, <3>1, <3>2
        <3>4. \A j \in 0 .. k - 1 : U[TagAt(v, j)].tag \notin {v, None}
            BY <1>4, <1>5, <3>1, <3>2 DEF First
        <3>5. First(U, v, k)
            BY <3>1, <3>3, <3>4 DEF First
        <3>6. Gen(U, v) = IF U[TagAt(v, k)].tag = v THEN U[TagAt(v, k)].gen ELSE 0
            BY <3>5, GenFirst
        <3>7. Gen(T, v) = IF T[TagAt(v, k)].tag = v THEN T[TagAt(v, k)].gen ELSE 0
            BY <3>1, GenFirst
        <3> QED BY <3>3, <3>6, <3>7, SMTT(40)
    <2>2. CASE ~ \E k : First(T, v, k) /\ TagAt(v, k) # s
        <3>1. Gen(T, v) = 0
            <4>1. CASE \E k : First(T, v, k)
                <5>1. PICK k : First(T, v, k)
                    BY <4>1
                <5>2. T[TagAt(v, k)].tag # v
                    BY <1>1, <1>9, <2>0, <2>2, <5>1
                <5> QED BY <5>1, <5>2, GenFirst
            <4>2. CASE ~ \E k : First(T, v, k)
                BY <4>2, GenCases
            <4> QED BY <4>1, <4>2
        <3>2. \A k : First(U, v, k) => U[TagAt(v, k)].tag # v
            <4> SUFFICES ASSUME NEW k, First(U, v, k), U[TagAt(v, k)].tag = v PROVE FALSE
                OBVIOUS
            <4>1. k \in 0 .. Probe - 1 /\ TagAt(v, k) \in TagSlots
                BY <1>5 DEF First
            <4>2. TagAt(v, k) # s /\ T[TagAt(v, k)].tag = v
                BY <1>3, <1>9, <4>1
            <4>3. PICK m \in 0 .. Probe - 1 :
                     /\ TagAt(v, k) = TagAt(v, m)
                     /\ \A j \in 0 .. m - 1 : T[TagAt(v, j)].tag # None
                BY <2>0, <4>1, <4>2 DEF TagsChained
            <4>4. PICK n : First(T, v, n)
                BY <4>2, <4>1, GenCases
            <4>5. TagAt(v, n) = s /\ T[s].tag = None /\ n \in 0 .. Probe - 1
                BY <1>1, <1>9, <2>2, <4>4 DEF First
            <4>6. ~(n \in 0 .. m - 1) /\ n # m
                BY <2>0, <4>2, <4>3, <4>5
            <4>7. m \in 0 .. n - 1
                BY <4>3, <4>5, <4>6, RCacheAssumption, SMTT(40)
            <4> QED BY <4>2, <4>3, <4>4, <4>7 DEF First
        <3>3. Gen(U, v) = 0
            <4>1. CASE \E k : First(U, v, k)
                BY <3>2, <4>1, GenFirst
            <4>2. CASE ~ \E k : First(U, v, k)
                BY <4>2, GenCases
            <4> QED BY <4>1, <4>2
        <3> QED BY <3>1, <3>3
    <2> QED BY <2>1, <2>2
<1>10. TagsChained(U)
    <2> SUFFICES ASSUME NEW r \in TagSlots
                 PROVE  /\ U[r].tag = None => U[r].gen = 0
                        /\ U[r].tag # None => \E k \in 0 .. Probe - 1 :
                             /\ r = TagAt(U[r].tag, k)
                             /\ \A j \in 0 .. k - 1 : U[TagAt(U[r].tag, j)].tag # None
        BY DEF TagsChained
    <2>1. CASE r = s
        <3>1. \A j \in 0 .. i - 1 : U[TagAt(t, j)].tag # None
            BY <1>7 DEF First
        <3> QED BY <1>1, <1>3, <2>1, <3>1 DEF s
    <2>2. CASE r # s
        <3>1. U[r] = T[r]
            BY <1>3, <2>2
        <3>2. CASE T[r].tag = None
            BY <3>1, <3>2 DEF TagsChained
        <3>3. CASE T[r].tag # None
            <4>1. PICK k \in 0 .. Probe - 1 :
                    /\ r = TagAt(T[r].tag, k)
                    /\ \A j \in 0 .. k - 1 : T[TagAt(T[r].tag, j)].tag # None
                BY <3>3 DEF TagsChained
            <4>2. T[r].tag \in Tags /\ \A j \in 0 .. k - 1 : j \in 0 .. Probe - 1
                BY <3>3, <4>1, RCacheAssumption, SMTT(40) DEF TagsOK
            <4>3. \A j \in 0 .. k - 1 : U[TagAt(T[r].tag, j)].tag # None
                BY <1>4, <1>5, <4>1, <4>2
            <4> QED BY <3>1, <3>3, <4>1, <4>3
        <3> QED BY <3>2, <3>3
    <2> QED BY <2>1, <2>2
<1> QED BY <1>4, <1>8, <1>9, <1>10

\* A forget whose tag table only fills up has still passed no free slot.
LEMMA ForgetsStay ==
    ASSUME NEW T, NEW U, \A s \in TagSlots : T[s].tag # None => U[s].tag = T[s].tag,
           NEW o, Call(o), Forgets(o, T)
    PROVE  Forgets(o, U)
<1> SUFFICES ASSUME o.call = "forget" PROVE Forgets(o, U)
    BY DEF Forgets
<1>1. /\ o.req.tag \in Tags /\ o.i \in Nat /\ TagSlot(o) = TagAt(o.req.tag, o.i)
      /\ o.req.tag # None
    BY CallFacts, RCacheAssumption DEF TagSlot, None
<1>2. \A j \in 0 .. o.i : TagAt(o.req.tag, j) \in TagSlots
    BY <1>1, TagAtSlot, SMTT(40)
<1>3. \A j \in 0 .. o.i - 1 : j \in 0 .. o.i
    BY <1>1, SMTT(40)
<1>4. o.i \in 0 .. o.i
    BY <1>1, SMTT(40)
<1> QED BY <1>1, <1>2, <1>3, <1>4 DEF Forgets

\* A forget that goes on to the next slot of the window has seen another tag here.
LEMMA NextTagForgets ==
    ASSUME NEW o, Call(o), o.call = "forget", NEW T, Forgets(o, T),
           T[TagSlot(o)].tag \notin {o.req.tag, None}
    PROVE  Forgets(NextTag(o), T)
<1>1. o.i \in Nat /\ DOMAIN o = Fields /\ Probe - 1 \in Nat /\ TagSlot(o) = TagAt(o.req.tag, o.i)
    BY CallFacts, RCacheAssumption DEF Call, TagSlot
<1>2. CASE o.i < Probe - 1
    <2> DEFINE x == [o EXCEPT !.i = o.i + 1, !.pc = "probe"]
    <2>1. x.i = o.i + 1 /\ x.pc = "probe" /\ x.req = o.req /\ x.call = o.call /\ NextTag(o) = x
        BY <1>1, <1>2 DEF NextTag, Fields
    <2> HIDE DEF x
    <2>2. \A j \in 0 .. x.i - 1 : j \in 0 .. o.i - 1 \/ j = o.i
        BY <1>1, <2>1, SMTT(40)
    <2> QED BY <1>1, <2>1, <2>2 DEF Forgets
<1>3. CASE ~(o.i < Probe - 1)
    <2> DEFINE x == [o EXCEPT !.i = 0, !.pc = "evict"]
    <2>1. x.i = 0 /\ x.pc = "evict" /\ x.req = o.req /\ x.call = o.call /\ NextTag(o) = x
        BY <1>1, <1>3 DEF NextTag, Fields
    <2> HIDE DEF x
    <2> QED BY <2>1, SMTT(40) DEF Forgets
<1> QED BY <1>2, <1>3

\* forget_tag: the forgets and the generation of its tag move together, the other
\* tags' not at all.
LEMMA ForgetTags ==
    ASSUME TypeInv, TagInv, NEW w \in Busy, Stepped(w), op[w].call = "forget",
           ForgetProbe(w) \/ ForgetBump(w) \/ ForgetClaim(w) \/ ForgetCreate(w) \/ ForgetEvict(w),
           flaws' \cap {"evicted", "race", "lapsed"} = {}
    PROVE  /\ TagsChained(tags') /\ \A v \in Tags : bumps'[v] - Gen(tags', v) = Off(tags, v)
           /\ \A v \in Busy' : Forgets(op'[v], tags')
<1> DEFINE o == op[w]  t == o.req.tag  s == TagSlot(o)  r == tags[s]
<1>1. /\ w \in Workers /\ Call(o) /\ DOMAIN op = Workers /\ TagsOK(tags) /\ DOMAIN o = Fields
      /\ bumps \in [Tags -> Nat]
    BY DEF TypeInv, Busy, Call
<1>2. /\ t \in Tags /\ o.i \in Nat /\ o.i \in 0 .. Probe - 1 /\ s = TagAt(t, o.i) /\ s \in TagSlots
      /\ t # None
    BY <1>1, CallFacts, TagAtSlot, RCacheAssumption, SMTT(40) DEF TagSlot, None
<1>3. /\ TagsChained(tags) /\ \A v \in Busy : Forgets(op[v], tags)
    <2>1. flaws \cap {"evicted", "race", "lapsed"} = {}
        BY DEF Stepped, Quiet, Drops, Saves, Flushes, Tagging
    <2> QED BY <2>1 DEF TagInv
<1>4. \A j \in 0 .. o.i - 1 : tags[TagAt(t, j)].tag \notin {t, None}
    BY <1>3 DEF Forgets
<1>5. r.tag \in {t, None} => First(tags, t, o.i)
    BY <1>2, <1>4 DEF First
<1>6. r = [tag |-> r.tag, gen |-> r.gen] /\ r.gen \in Nat /\ r.gen + 1 \in Nat
    BY <1>1, <1>2, SMTT(40) DEF TagsOK
<1>7. /\ \A g : [r EXCEPT !.gen = g] = [tag |-> r.tag, gen |-> g]
      /\ \A u : [r EXCEPT !.tag = u] = [tag |-> u, gen |-> r.gen]
    BY <1>6, SMTT(40)
<1>8. ASSUME NEW g \in Nat, r.tag \in {t, None},
             tags' = [tags EXCEPT ![s] = [tag |-> t, gen |-> g]],
             bumps'[t] - g = bumps[t] - (IF r.tag = t THEN r.gen ELSE 0),
             \A v \in Tags : v # t => bumps'[v] = bumps[v]
      PROVE  /\ TagsChained(tags') /\ \A v \in Tags : bumps'[v] - Gen(tags', v) = Off(tags, v)
             /\ \A q \in TagSlots : tags[q].tag # None => tags'[q].tag = tags[q].tag
    <2>1. /\ Gen(tags', t) = g /\ \A v \in Tags : v # t => Gen(tags', v) = Gen(tags, v)
          /\ TagsChained(tags')
          /\ \A q \in TagSlots : tags[q].tag # None => tags'[q].tag = tags[q].tag
        <3>1. Sets(tags, tags', t, o.i, g)
            BY <1>2, <1>5, <1>8 DEF Sets
        <3> HIDE DEF o, t, s, r
        <3>2. TagsOK(tags) /\ TagsChained(tags) /\ t \in Tags /\ g \in Nat
            BY <1>1, <1>2, <1>3, <1>8
        <3> QED BY <3>1, <3>2, GenSet, SMTT(40)
    <2>2. Gen(tags, t) = IF tags[TagAt(t, o.i)].tag = t THEN tags[TagAt(t, o.i)].gen ELSE 0
        BY <1>5, <1>8, GenFirst
    <2>3. bumps'[t] - Gen(tags', t) = Off(tags, t)
        BY <1>2, <1>8, <2>1, <2>2 DEF Off
    <2>4. \A v \in Tags : v # t => bumps'[v] - Gen(tags', v) = Off(tags, v)
        BY <1>8, <2>1 DEF Off
    <2> QED BY <2>1, <2>3, <2>4
<1>9. ASSUME tags' = tags, bumps' = bumps
      PROVE  /\ TagsChained(tags') /\ \A v \in Tags : bumps'[v] - Gen(tags', v) = Off(tags, v)
             /\ \A q \in TagSlots : tags[q].tag # None => tags'[q].tag = tags[q].tag
    BY <1>3, <1>9 DEF Off
<1> SUFFICES /\ TagsChained(tags') /\ \A v \in Tags : bumps'[v] - Gen(tags', v) = Off(tags, v)
             /\ \A q \in TagSlots : tags[q].tag # None => tags'[q].tag = tags[q].tag
             /\ op'[w] # Idle => Forgets(op'[w], tags')
    <2>1. \A v \in Busy' : v = w \/ (v \in Busy /\ op'[v] = op[v] /\ Call(op[v]))
        BY OpChange DEF TypeInv, Busy
    <2>2. op'[w] # Idle \/ w \notin Busy'
        BY DEF Busy, Idle
    <2>3. \A v \in Busy' : v # w => Forgets(op'[v], tags')
        BY <1>3, <2>1, ForgetsStay
    <2> QED BY <2>2, <2>3
<1>10. CASE ForgetProbe(w)
    <2>1. tags' = tags /\ bumps' = bumps /\ o.pc = "probe"
        BY <1>10 DEF ForgetProbe, Look, memory
    <2>2. CASE r.tag \in {t, None}
        <3>1. PICK p \in {"bump", "claim"} :
                op'[w] = [o EXCEPT !.pc = p] /\ (p = "bump" => r.tag = t)
            <4>1. r.tag = t => op'[w] = [o EXCEPT !.pc = "bump"]
                BY <1>1, <1>2, <1>10 DEF ForgetProbe, Look
            <4>2. r.tag = None => op'[w] = [o EXCEPT !.pc = "claim"]
                BY <1>1, <1>2, <1>10 DEF ForgetProbe, Look
            <4> QED BY <2>2, <4>1, <4>2
        <3> DEFINE x == [o EXCEPT !.pc = p]
        <3>2. x.i = o.i /\ x.pc = p /\ x.req = o.req /\ x.call = o.call
            BY <1>1 DEF Fields
        <3>3. op'[w] = x
            BY <3>1
        <3> HIDE DEF x
        <3>4. Forgets(x, tags')
            BY <1>4, <2>1, <3>1, <3>2 DEF Forgets, TagSlot
        <3> QED BY <1>9, <2>1, <3>3, <3>4
    <2>3. CASE r.tag \notin {t, None}
        <3>1. op'[w] = NextTag(o)
            BY <1>1, <1>10, <2>3 DEF ForgetProbe, Look
        <3>2. Forgets(NextTag(o), tags')
            BY <1>1, <1>3, <2>1, <2>3, NextTagForgets
        <3> QED BY <1>9, <2>1, <3>1, <3>2
    <2> QED BY <2>2, <2>3
<1>11. CASE ForgetBump(w)
    <2>1. /\ r.tag = t /\ tags' = [tags EXCEPT ![s] = [tag |-> t, gen |-> r.gen + 1]]
          /\ bumps' = [bumps EXCEPT ![t] = bumps[t] + 1] /\ op'[w] = Idle
        BY <1>1, <1>3, <1>7, <1>11 DEF ForgetBump, PutTag, Forgets
    <2>2. /\ bumps'[t] - (r.gen + 1) = bumps[t] - r.gen
          /\ \A v \in Tags : v # t => bumps'[v] = bumps[v]
        BY <1>1, <1>2, <1>6, <2>1, SMTT(40)
    <2> QED BY <1>6, <1>8, <2>1, <2>2
<1>12. CASE ForgetCreate(w)
    <2>1. /\ r.tag = t /\ tags' = [tags EXCEPT ![s] = [tag |-> t, gen |-> 1]]
          /\ bumps' = [bumps EXCEPT ![t] = bumps[t] + 1] /\ op'[w] = Idle /\ r.gen = 0
        <3>1. flaws' = flaws \cup IF r.gen = 0 THEN {} ELSE {"race"}
            BY <1>12 DEF ForgetCreate, PutTag
        <3>2. r.gen = 0
            BY <3>1
        <3> QED BY <1>1, <1>3, <1>7, <1>12, <3>2 DEF ForgetCreate, PutTag, Forgets, FirstGen
    <2>2. bumps'[t] - 1 = bumps[t] - r.gen /\ \A v \in Tags : v # t => bumps'[v] = bumps[v]
        BY <1>1, <1>2, <1>6, <2>1, SMTT(40)
    <2> QED BY <1>8, <2>1, <2>2
<1>13. CASE ForgetClaim(w) /\ r.tag = None
    <2>1. /\ tags' = [tags EXCEPT ![s] = [tag |-> t, gen |-> r.gen]] /\ bumps' = bumps
          /\ op'[w] = [o EXCEPT !.pc = "create"]
        BY <1>1, <1>7, <1>13 DEF ForgetClaim, PutTag
    <2>2. r.gen = 0
        BY <1>2, <1>3, <1>13 DEF TagsChained
    <2>3. /\ TagsChained(tags') /\ \A v \in Tags : bumps'[v] - Gen(tags', v) = Off(tags, v)
          /\ \A q \in TagSlots : tags[q].tag # None => tags'[q].tag = tags[q].tag
        BY <1>2, <1>6, <1>8, <1>13, <2>1, <2>2
    <2>4. tags'[s].tag = t
        BY <1>1, <1>2, <2>1 DEF TagsOK
    <2> DEFINE x == [o EXCEPT !.pc = "create"]
    <2>5. x.i = o.i /\ x.req = o.req /\ x.call = o.call /\ op'[w] = x
        BY <1>1, <2>1 DEF Fields
    <2> HIDE DEF x
    <2>6. Forgets(o, tags')
        BY <1>1, <1>3, <2>3, ForgetsStay
    <2>7. Forgets(x, tags')
        BY <2>4, <2>5, <2>6 DEF Forgets, TagSlot
    <2> QED BY <2>3, <2>5, <2>7
<1>14. CASE ForgetClaim(w) /\ r.tag # None
    <2>1. /\ tags' = [tags EXCEPT ![s] = r] /\ bumps' = bumps /\ op'[w] = NextTag(o)
          /\ flaws' = flaws \cup IF r.tag = t THEN {"race"} ELSE {}
        BY <1>1, <1>14 DEF ForgetClaim, PutTag
    <2>2. tags' = tags /\ r.tag \notin {t, None}
        BY <1>1, <1>2, <1>14, <2>1 DEF TagsOK
    <2>3. Forgets(NextTag(o), tags')
        BY <1>1, <1>3, <2>2, NextTagForgets
    <2> QED BY <1>9, <2>1, <2>2, <2>3
<1>15. ~ForgetEvict(w)
    BY DEF ForgetEvict, PutTag
<1> QED BY <1>10, <1>11, <1>12, <1>13, <1>14, <1>15

\* What the entries and the stores keep of their tags stays right.
LEMMA TagStep ==
    ASSUME TypeInv, TagInv, NEW w \in Busy, Step(w), ~Die(w), Stepped(w)
    PROVE  TagInv'
<1> SUFFICES ASSUME flaws' \cap {"evicted", "race", "lapsed"} = {} PROVE TagInv'
    BY DEF TagInv
<1> DEFINE o == op[w]
           KeptNow(g, s) == \A t \in DOMAIN g : s[t] - g[t] = bumps'[t] - Gen(tags', t)
<1>1. /\ w \in Workers /\ up /\ up' = up /\ Call(o) /\ Moves(o, op'[w])
      /\ \A v \in Busy' : v \in Busy /\ (v # w => op'[v] = op[v]) /\ Call(op[v])
      /\ w \in Busy' => op'[w] # Idle /\ Call(op'[w]) /\ op'[w].req = o.req /\ op'[w].call = o.call
    BY OpChange DEF Busy, TypeInv
<1>2. flaws \cap {"evicted", "race", "lapsed"} = {}
    BY DEF Stepped, Quiet, Drops, Saves, Flushes, Tagging
<1>3. /\ TagsChained(tags) /\ AllKept(slots, tags)
      /\ \A v \in Busy : /\ Forgets(op[v], tags)
                         /\ op[v].call = "store" /\ op[v].pc # "render"
                              => Kept(op[v].gens, op[v].snap, tags)
    BY <1>2 DEF TagInv
<1>4. /\ TagsChained(tags') /\ \A v \in Tags : bumps'[v] - Gen(tags', v) = Off(tags, v)
      /\ \A v \in Busy' : Forgets(op'[v], tags')
    <2>1. CASE o.call = "forget"
        <3>1. ForgetProbe(w) \/ ForgetBump(w) \/ ForgetClaim(w) \/ ForgetCreate(w) \/ ForgetEvict(w)
            BY <2>1 DEF Step, GetSlot, Snapshot, StoreProbe, StoreWrite, PurgeSlot, FlushSlot
        <3> QED BY <2>1, <3>1, ForgetTags
    <2>2. CASE o.call # "forget"
        <3>1. tags' = tags /\ bumps' = bumps
            BY <2>2 DEF Stepped, Quiet, Drops, Saves, Flushes, Tagging
        <3>2. \A v \in Busy' : Forgets(op'[v], tags')
            BY <1>1, <1>3, <2>2, <3>1 DEF Forgets
        <3> QED BY <1>3, <3>1, <3>2 DEF Off
    <2> QED BY <2>1, <2>2
<1>5. ASSUME NEW g, NEW s, DOMAIN g \subseteq Tags, Kept(g, s, tags) PROVE KeptNow(g, s)
    BY <1>4, <1>5 DEF Kept
<1>6. ASSUME NEW s \in Slots, slots'[s].state = "live" PROVE KeptNow(slots'[s].gens, slots'[s].snap)
    <2>1. Changes(w, s) /\ EntryOK(slots[s])
        BY SlotChange DEF Stepped, TypeInv, TableOK
    <2>2. CASE slots'[s] = slots[s]
        <3>1. DOMAIN slots[s].gens \subseteq Tags /\ Kept(slots[s].gens, slots[s].snap, tags)
            BY <1>3, <1>6, <2>1, <2>2 DEF AllKept, EntryOK
        <3> QED BY <1>5, <2>2, <3>1
    <2>3. CASE Saves(w) /\ slots'[s] = Entry(o)
        <3>1. o.call = "store" /\ o.pc # "render"
            BY <2>3 DEF Saves
        <3>2. slots'[s].gens = o.gens /\ slots'[s].snap = o.snap /\ DOMAIN o.gens \subseteq Tags
            <4>1. DOMAIN o.gens \subseteq Tags
                BY <1>1, <3>1, CallFacts DEF Call, Shape
            <4>2. Entry(o).gens = o.gens /\ Entry(o).snap = o.snap
                BY <1>1, <3>1, EntryFacts
            <4> QED BY <2>3, <4>1, <4>2
        <3>3. Kept(o.gens, o.snap, tags)
            BY <1>3, <3>1
        <3> QED BY <1>5, <3>2, <3>3
    <2> QED BY <1>6, <2>1, <2>2, <2>3, EmptyOK, TombstoneOK DEF Changes
<1>7. ASSUME NEW v \in Busy', op'[v].call = "store", op'[v].pc # "render"
      PROVE  KeptNow(op'[v].gens, op'[v].snap)
    <2>1. v \in Busy /\ Call(op[v])
        BY <1>1
    <2>2. CASE v # w \/ (o.pc # "render" /\ op'[w].gens = o.gens /\ op'[w].snap = o.snap)
        <3>1. /\ op[v].call = "store" /\ op[v].pc # "render"
              /\ op'[v].gens = op[v].gens /\ op'[v].snap = op[v].snap
            BY <1>1, <1>7, <2>2
        <3>2. DOMAIN op[v].gens \subseteq Tags
            BY <2>1, <3>1, CallFacts DEF Call, Shape
        <3>3. Kept(op[v].gens, op[v].snap, tags)
            BY <1>3, <2>1, <3>1
        <3> QED BY <1>5, <3>1, <3>2, <3>3
    <2>3. CASE v = w /\ ~(o.pc # "render" /\ op'[w].gens = o.gens /\ op'[w].snap = o.snap)
        <3>1. o.call = "store" /\ op'[w] # Idle
            BY <1>1, <1>7, <2>3
        <3>2. /\ op'[w].gens = [t \in o.req.tags |-> TagGen(t)]
              /\ op'[w].snap = [t \in o.req.tags |-> bumps[t]] /\ UNCHANGED <<slots, tags, bumps>>
            BY <1>1, <2>3, <3>1 DEF Moves, Keeps
        <3> QED BY <2>3, <3>2 DEF TagGen
    <2> QED BY <2>2, <2>3
<1>8. AllKept(slots, tags)'
    BY <1>6 DEF AllKept, Kept, Off, Slots
<1>9. \A v \in Busy' : op'[v].call = "store" /\ op'[v].pc # "render"
                         => Kept(op[v].gens, op[v].snap, tags)'
    BY <1>7 DEF Kept, Off
<1> QED BY <1>1, <1>4, <1>8, <1>9 DEF TagInv, Busy, Idle

-----------------------------------------------------------------------------
\* A step that makes no hole empties no slot, and a slot that is not written by
\* store keeps its key.
LEMMA NoHole ==
    ASSUME TypeInv, NEW w \in Busy, Stepped(w), "hole" \notin flaws'
    PROVE  /\ "hole" \notin flaws
           /\ \A s \in Slots :
                /\ slots[s].state # "empty" => slots'[s].state # "empty"
                /\ slots'[s].state # "empty" =>
                     \/ slots[s].state # "empty" /\ slots'[s].key = slots[s].key
                     \/ Saves(w) /\ Target(op[w], s) /\ slots'[s].key = op[w].req.key
<1>1. "hole" \notin flaws
    BY DEF Stepped, Quiet, Drops, Saves, Flushes, Tagging
<1>2. Call(op[w])
    BY DEF TypeInv
<1>3. Saves(w) => Entry(op[w]).state = "live" /\ Entry(op[w]).key = op[w].req.key
    BY <1>2, EntryFacts DEF Saves
<1>4. ASSUME NEW s \in Slots
      PROVE  /\ slots[s].state # "empty" => slots'[s].state # "empty"
             /\ slots'[s].state # "empty" =>
                     \/ slots[s].state # "empty" /\ slots'[s].key = slots[s].key
                     \/ Saves(w) /\ Target(op[w], s) /\ slots'[s].key = op[w].req.key
    <2>1. Changes(w, s) /\ EntryOK(slots[s])
        BY SlotChange DEF Stepped, TypeInv, TableOK
    <2> QED BY <1>3, <2>1, EmptyOK, TombstoneOK DEF Changes
<1> QED BY <1>1, <1>4

\* Where store writes: in the window, behind slots it has passed.
LEMMA TargetPlace ==
    ASSUME NEW o, Call(o), o.call = "store", NEW s, Target(o, s)
    PROVE  \E i \in 0 .. Probe - 1 : /\ s = Pos(o.req.key, i)
                                     /\ \A j \in 0 .. i - 1 : Pos(o.req.key, j) \in Window(o)
<1>1. o.i \in 0 .. Probe - 1 /\ Probe - 1 \in Nat /\ o.i \in Nat
    BY CallFacts, RCacheAssumption DEF Call
<1>2. CASE o.pc = "probe" /\ s = At(o)
    BY <1>1, <1>2 DEF At, Window, Passed
<1>3. CASE o.pc = "write" /\ s \in Window(o)
    <2>1. PICK i \in 0 .. o.i : s = Pos(o.req.key, i)
        BY <1>3 DEF Window, Passed
    <2>2. i \in 0 .. Probe - 1 /\ \A j \in 0 .. i - 1 : j \in 0 .. o.i
        BY <1>1, SMTT(40)
    <2> QED BY <1>3, <2>1, <2>2 DEF Window, Passed
<1> QED BY <1>2, <1>3 DEF Target

\* The chains stay unbroken.
LEMMA ChainStep ==
    ASSUME TypeInv, ChainInv, NEW w \in Busy, Stepped(w)
    PROVE  ChainInv'
<1> SUFFICES ASSUME "hole" \notin flaws' PROVE ChainInv'
    BY DEF ChainInv
<1> DEFINE o == op[w]
<1>1. /\ Call(o) /\ Moves(o, op'[w]) /\ file' = file
      /\ \A v \in Busy' : v \in Busy /\ (v # w => op'[v] = op[v])
      /\ w \in Busy' => op'[w] # Idle /\ op'[w].req = o.req /\ op'[w].call = o.call
    BY OpChange DEF Busy
<1>2. /\ "hole" \notin flaws
      /\ \A s \in Slots :
           /\ slots[s].state # "empty" => slots'[s].state # "empty"
           /\ slots'[s].state # "empty" =>
                \/ slots[s].state # "empty" /\ slots'[s].key = slots[s].key
                \/ Saves(w) /\ Target(o, s) /\ slots'[s].key = o.req.key
    BY NoHole
<1>3. /\ Chained(slots) /\ (file # NoFile => Chained(file.slots))
      /\ \A v \in Busy : Probes(op[v]) => \A s \in Window(op[v]) : slots[s].state # "empty"
    BY <1>2 DEF ChainInv
<1>4. \A v \in Busy : Probes(op[v]) => Window(op[v]) \subseteq Slots /\ At(op[v]) \in Slots
    <2> SUFFICES ASSUME NEW v \in Busy, Probes(op[v])
                 PROVE  Window(op[v]) \subseteq Slots /\ At(op[v]) \in Slots
        OBVIOUS
    <2>1. Call(op[v]) /\ op[v].req.key \in Keys /\ op[v].i \in Nat
        BY CallFacts DEF TypeInv, Probes
    <2>2. \A j \in Passed(op[v]) : j \in Nat
        BY <2>1, SMTT(40) DEF Passed
    <2> QED BY <2>1, <2>2, PosSlot, AtSlot DEF Window, Probes
<1>5. ASSUME NEW s \in Slots, slots'[s].state # "empty"
      PROVE  \E i \in 0 .. Probe - 1 :
                /\ s = Pos(slots'[s].key, i)
                /\ \A j \in 0 .. i - 1 : slots'[Pos(slots'[s].key, j)].state # "empty"
    <2>1. CASE slots[s].state # "empty" /\ slots'[s].key = slots[s].key
        <3>1. PICK i \in 0 .. Probe - 1 :
                /\ s = Pos(slots[s].key, i)
                /\ \A j \in 0 .. i - 1 : slots[Pos(slots[s].key, j)].state # "empty"
            BY <1>3, <2>1 DEF Chained
        <3>2. slots[s].key \in Keys /\ \A j \in 0 .. i - 1 : j \in Nat
            BY <2>1, RCacheAssumption, SMTT(40) DEF TypeInv, TableOK, EntryOK
        <3>3. \A j \in 0 .. i - 1 : slots'[Pos(slots[s].key, j)].state # "empty"
            BY <1>2, <3>1, <3>2, PosSlot
        <3> QED BY <2>1, <3>1, <3>3
    <2>2. CASE Saves(w) /\ Target(o, s) /\ slots'[s].key = o.req.key
        <3>0. o.call = "store" /\ Probes(o)
            BY <2>2 DEF Saves, Probes
        <3>1. PICK i \in 0 .. Probe - 1 : /\ s = Pos(o.req.key, i)
                                          /\ \A j \in 0 .. i - 1 : Pos(o.req.key, j) \in Window(o)
            BY <1>1, <2>2, <3>0, TargetPlace
        <3>2. \A r \in Window(o) : slots'[r].state # "empty"
            BY <1>2, <1>3, <1>4, <3>0
        <3> QED BY <2>2, <3>1, <3>2
    <2> QED BY <1>2, <1>5, <2>1, <2>2
<1>6. Chained(slots')
    BY <1>5 DEF Chained
<1>7. ASSUME NEW v \in Busy', Probes(op'[v]), NEW s \in Window(op'[v])
      PROVE  slots'[s].state # "empty"
    <2>1. v \in Busy /\ Probes(op[v])
        BY <1>1, <1>7 DEF Probes
    <2>2. \A r \in Window(op[v]) : slots'[r].state # "empty"
        BY <1>2, <1>3, <1>4, <2>1
    <2>3. CASE s \in Window(op[v])
        BY <2>2, <2>3
    <2>4. CASE s \notin Window(op[v])
        <3>1. v = w /\ Reaches(o, op'[w])
            BY <1>1, <1>7, <2>1, <2>4 DEF Moves
        <3>2. s = At(o) /\ slots'[s].state # "empty"
            BY <1>7, <2>4, <3>1 DEF Reaches
        <3> QED BY <3>2
    <2> QED BY <2>3, <2>4
<1> QED BY <1>1, <1>3, <1>6, <1>7
        DEF ChainInv, Chained, Slots, NoFile, Busy, Idle, Probes, Window, Passed, Pos

\* A lookup has not passed an entry that was there all through.
LEMMA FindsStep ==
    ASSUME TypeInv, FindsInv, NEW w \in Busy, Stepped(w)
    PROVE  FindsInv'
<1> DEFINE o == op[w]
<1>1. /\ Call(o) /\ Moves(o, op'[w])
      /\ \A v \in Busy' : v \in Busy /\ v \in Workers /\ (v # w => op'[v] = op[v])
      /\ w \in Busy' => op'[w] # Idle /\ op'[w].req = o.req /\ op'[w].call = o.call
    BY OpChange DEF Busy
<1>2. /\ DOMAIN steady' = Workers
      /\ \A v \in Busy' : \A s \in steady'[v] :
            s \in steady[v] /\ slots'[s].state = "live" /\ slots'[s].key = op'[v].req.key
    BY <1>1 DEF Stepped, Record, Holds, Busy
<1>3. ASSUME NEW v \in Busy', op'[v].call = "get", NEW s \in steady'[v]
      PROVE  /\ s \in Slots /\ slots'[s].state = "live" /\ slots'[s].key = op'[v].req.key
             /\ s \notin Window(op'[v])
    <2>1. v \in Busy /\ op[v].call = "get" /\ s \in steady[v]
        BY <1>1, <1>2, <1>3
    <2>2. s \in Slots /\ Holds(s, op[v].req.key) /\ s \notin Window(op[v])
        BY <2>1 DEF FindsInv
    <2>3. s \notin Window(op'[v])
        <3>1. CASE v # w
            BY <1>1, <2>2, <3>1
        <3>2. CASE v = w
            <4>1. Reaches(o, op'[w])
                BY <1>1, <1>3, <2>1, <3>2 DEF Moves, Probes
            <4> QED BY <2>1, <2>2, <3>2, <4>1 DEF Reaches
        <3> QED BY <3>1, <3>2
    <2> QED BY <1>2, <1>3, <2>2, <2>3
<1> QED BY <1>2, <1>3 DEF FindsInv, Busy, Idle, Holds, Slots, Window, Passed, Pos

\* A store that saw no other write finds the entry of its page, if there is one.
LEMMA SaveReplaces ==
    ASSUME TypeInv, NEW w \in Busy, Call(op[w]), op[w].call = "store",
           Chained(slots), Single(slots),
           \A s \in Window(op[w]) : slots[s].key # op[w].req.key,
           NEW q \in Slots, Target(op[w], q),
           NEW r \in Slots, slots[r].state # "empty", slots[r].key = op[w].req.key
    PROVE  r = q
<1> DEFINE o == op[w]  k == o.req.key
<1>1. o.i \in 0 .. Probe - 1 /\ o.i \in Nat /\ Probe - 1 \in Nat
    BY CallFacts, RCacheAssumption DEF Call
<1>2. PICK i \in 0 .. Probe - 1 :
         r = Pos(k, i) /\ \A j \in 0 .. i - 1 : slots[Pos(k, j)].state # "empty"
    BY DEF Chained
<1>3. r \notin Window(o)
    OBVIOUS
<1>4. CASE o.pc = "write"
    <2>1. o.i = Probe - 1
        BY <1>4 DEF Call, Shape
    <2> QED BY <1>2, <1>3, <1>4, <2>1 DEF Window, Passed
<1>5. CASE o.pc = "probe" /\ q = At(o) /\ Takes(slots[q], k)
    <2>1. q = Pos(k, o.i) /\ i \notin 0 .. o.i - 1
        BY <1>2, <1>3, <1>5 DEF At, Window, Passed
    <2>2. CASE i = o.i
        BY <1>2, <2>1, <2>2
    <2>3. CASE i # o.i
        <3>1. o.i \in 0 .. i - 1
            BY <1>1, <1>2, <2>1, <2>3, SMTT(40)
        <3>2. slots[q].state # "empty" /\ slots[q].key = k
            BY <1>2, <1>5, <2>1, <3>1 DEF Takes
        <3> QED BY <3>2 DEF Single
    <2> QED BY <2>2, <2>3
<1> QED BY <1>4, <1>5 DEF Target

\* A page keeps one entry.
LEMMA SingleStep ==
    ASSUME TypeInv, ChainInv, SingleInv, NEW w \in Busy, Stepped(w)
    PROVE  SingleInv'
<1> SUFFICES ASSUME flaws' \cap {"hole", "overlap"} = {} PROVE SingleInv'
    BY DEF SingleInv
<1> DEFINE o == op[w]
<1>1. /\ Call(o) /\ Moves(o, op'[w]) /\ file' = file
      /\ \A v \in Busy' : v \in Busy /\ (v # w => op'[v] = op[v])
      /\ w \in Busy' => op'[w] # Idle /\ op'[w].req = o.req /\ op'[w].call = o.call
    BY OpChange DEF Busy
<1>2. "hole" \notin flaws' /\ flaws \cap {"hole", "overlap"} = {}
    BY DEF Stepped, Quiet, Drops, Saves, Flushes, Tagging
<1>3. /\ Chained(slots) /\ Single(slots) /\ (file # NoFile => Single(file.slots))
      /\ \A v \in Busy \cap clean : op[v].call = "store" =>
            \A s \in Window(op[v]) : slots[s].key # op[v].req.key
    BY <1>2 DEF ChainInv, SingleInv
<1>4. \A s \in Slots : slots'[s].state # "empty" =>
           \/ slots[s].state # "empty" /\ slots'[s].key = slots[s].key
           \/ Saves(w) /\ Target(o, s) /\ slots'[s].key = o.req.key
    BY <1>2, NoHole
<1>5. Single(slots')
    <2>1. CASE ~Saves(w)
        BY <1>3, <1>4, <2>1 DEF Single
    <2>2. CASE Saves(w)
        <3>1. o.call = "store" /\ w \in clean
            BY <2>2 DEF Saves, Overlap
        <3>2. \A s \in Window(o) : slots[s].key # o.req.key
            BY <1>3, <3>1
        <3>3. PICK q \in Slots : Target(o, q) /\ slots' = [slots EXCEPT ![q] = Entry(o)]
            BY <2>2 DEF Saves
        <3>4. \A r \in Slots : r # q => slots'[r] = slots[r]
            BY <3>3 DEF TypeInv, TableOK
        <3>5. slots'[q].key = o.req.key
            BY <1>1, <2>2, <3>3, EntryFacts DEF Saves, TypeInv, TableOK
        <3>6. \A r \in Slots : slots[r].state # "empty" /\ slots[r].key = o.req.key => r = q
            BY <1>1, <1>3, <3>1, <3>2, <3>3, SaveReplaces
        <3> QED BY <1>3, <3>4, <3>5, <3>6, SMTT(40) DEF Single
    <2> QED BY <2>1, <2>2
<1>6. ASSUME NEW v \in Busy', v \in clean', op'[v].call = "store", NEW s \in Window(op'[v])
      PROVE  slots'[s].key # op'[v].req.key
    <2>1. v \in Busy /\ op[v].call = "store" /\ op'[v].req = op[v].req /\ op'[v] # Idle
        BY <1>1, <1>6 DEF Busy, Idle
    <2>2. slots' = slots /\ v \in clean
        BY <1>6, <2>1 DEF Stepped, Quiet, Drops, Saves, Flushes, Tagging
    <2>3. CASE s \in Window(op[v])
        BY <1>3, <2>1, <2>2, <2>3
    <2>4. CASE s \notin Window(op[v])
        <3>1. v = w /\ Reaches(o, op'[w])
            BY <1>1, <1>6, <2>1, <2>4 DEF Moves, Probes
        <3>2. s = At(o) /\ slots[s].key # o.req.key
            BY <1>6, <2>1, <2>4, <3>1 DEF Reaches
        <3> QED BY <2>1, <2>2, <3>1, <3>2
    <2> QED BY <2>3, <2>4
<1> QED BY <1>1, <1>3, <1>5, <1>6
        DEF SingleInv, Single, Slots, NoFile, Busy, Idle, Window, Passed, Pos

\* A step of a call keeps the invariant.
LEMMA StepInv ==
    ASSUME Inv, NEW w \in Busy, Step(w), ~Die(w), Stepped(w)
    PROVE  Inv'
BY TypeStep, OwnStep, GoneStep, TagStep, ChainStep, FindsStep, SingleStep DEF Inv

-----------------------------------------------------------------------------
\* Time passes, or nothing happens.
LEMMA UnmovedInv ==
    ASSUME Inv, UNCHANGED <<memory, op, disk, bumps, history, flaws>>
    PROVE  Inv'
<1>1. UNCHANGED <<slots, tags, op, file, stamp, up, ended, bumps, steady, dirty, gone, clean,
                  flaws>>
    BY DEF memory, disk, history
<1>2. Busy' = Busy
    BY <1>1 DEF Busy, Idle
<1>3. TypeInv'
    BY <1>1, <1>2 DEF Inv, TypeInv
<1>4. OwnInv' /\ GoneInv'
    BY <1>1, <1>2 DEF Inv, OwnInv, GoneInv, Holds
<1>5. TagInv'
    BY <1>1, <1>2, SMTT(40) DEF Inv, TagInv, AllKept, Kept, Off
<1>6. ChainInv' /\ FindsInv' /\ SingleInv'
    BY <1>1, <1>2, SMTT(40) DEF Inv, ChainInv, FindsInv, SingleInv, Holds
<1> QED BY <1>3, <1>4, <1>5, <1>6 DEF Inv

\* A worker dies: its call is over, and the tables stay as they are.
LEMMA DieInv ==
    ASSUME Inv, NEW w \in Busy, Die(w)
    PROVE  Inv'
<1>1. /\ UNCHANGED <<slots, tags, file, stamp, up, ended, bumps, gone, flaws>>
      /\ op' = [op EXCEPT ![w] = Idle] /\ steady' = [steady EXCEPT ![w] = {}]
      /\ dirty' = [dirty EXCEPT ![w] = {}] /\ clean' \subseteq clean
    BY DEF Die, memory, disk
<1>2. /\ DOMAIN op' = Workers /\ DOMAIN steady' = Workers /\ DOMAIN dirty' = Workers /\ up
      /\ \A v \in Busy' : /\ v \in Busy /\ op'[v] = op[v] /\ steady'[v] = steady[v]
                          /\ dirty'[v] = dirty[v]
    BY <1>1 DEF Inv, TypeInv, GoneInv, FindsInv, Busy, Idle
<1>3. TypeInv'
    BY <1>1, <1>2 DEF Inv, TypeInv
<1>4. OwnInv' /\ GoneInv'
    <2>1. OwnInv'
        BY <1>1 DEF Inv, OwnInv, OwnedBy
    <2>2. \A v \in Busy' : /\ Stores(op'[v]) = Stores(op[v]) /\ Clears(op'[v]) = Clears(op[v])
                           /\ op'[v].call = op[v].call /\ op'[v].i = op[v].i
        BY <1>1, <1>2
    <2>3. \A v \in Busy' : Stores(op'[v]) \cap gone' = {}
        BY <1>1, <1>2, <2>2 DEF Inv, GoneInv
    <2>4. \A u, v \in Busy' : u # v => Stores(op'[v]) \subseteq dirty'[u]
        BY <1>1, <1>2, <2>2 DEF Inv, GoneInv
    <2>5. \A v \in Busy' : op'[v].call \in {"purge", "flush"} =>
            \A k \in Clears(op'[v]) \ dirty'[v], j \in 0 .. op'[v].i - 1 : ~Holds(j, k)'
        BY <1>1, <1>2, SMTT(40) DEF Inv, GoneInv, Holds
    <2>6. /\ "lapsed" \notin flaws' => Without(slots', gone')
          /\ "lapsed" \notin flaws' /\ ~up' /\ ended' = "saved" => Without(file'.slots, gone')
        BY <1>1 DEF Inv, GoneInv, Without
    <2> QED BY <1>2, <2>1, <2>3, <2>4, <2>5, <2>6 DEF GoneInv
<1>5. TagInv'
    BY <1>1, <1>2, SMTT(40) DEF Inv, TagInv, AllKept, Kept, Off
<1>6. ChainInv' /\ FindsInv' /\ SingleInv'
    BY <1>1, <1>2, SMTT(40) DEF Inv, ChainInv, FindsInv, SingleInv, Holds
<1> QED BY <1>3, <1>4, <1>5, <1>6 DEF Inv

\* A call begins: it has passed no slot yet.
LEMMA StartInv ==
    ASSUME Inv, NEW w \in Workers, Start(w)
    PROVE  Inv'
<1>0. PICK q \in Requests :
        LET o == [call |-> q.call, req |-> q, pc |-> "probe", i |-> 0, now |-> clock,
                  gens |-> << >>, snap |-> << >>, reuse |-> NoSlot, target |-> NoSlot]
        IN /\ op' = [op EXCEPT ![w] = IF q.call = "store" THEN [o EXCEPT !.pc = "render"] ELSE o]
           /\ steady' = [steady EXCEPT ![w] =
                IF q.call = "get" THEN {s \in Slots : Holds(s, q.key)} ELSE {}]
           /\ dirty' = [u \in Workers |->
                IF u = w THEN UNION {Stores(op[x]) : x \in Busy}
                ELSE dirty[u] \cup (IF u \in Busy THEN Stores(o) ELSE {})]
           /\ gone' = gone \ Stores(o)
    BY DEF Start
<1> DEFINE o == [call |-> q.call, req |-> q, pc |-> "probe", i |-> 0, now |-> clock,
                 gens |-> << >>, snap |-> << >>, reuse |-> NoSlot, target |-> NoSlot]
           x == IF q.call = "store" THEN [o EXCEPT !.pc = "render"] ELSE o
<1>1. UNCHANGED <<slots, tags, file, stamp, up, ended, bumps, clean, flaws>> /\ up /\ op[w] = Idle
    BY DEF Start, memory, disk
<1>2. /\ DOMAIN x = Fields /\ x.call = q.call /\ x.req = q /\ x.i = 0
      /\ x.pc = (IF q.call = "store" THEN "render" ELSE "probe")
      /\ x.reuse = NoSlot /\ x.target = NoSlot /\ o.call = q.call /\ o.req = q
    BY DEF Fields
<1>3. Stores(o) = Stores(x)
    BY <1>2 DEF Stores
<1>4. /\ op' = [op EXCEPT ![w] = x]
      /\ steady' = [steady EXCEPT ![w] =
                IF q.call = "get" THEN {s \in Slots : Holds(s, q.key)} ELSE {}]
      /\ dirty' = [u \in Workers |->
                IF u = w THEN UNION {Stores(op[y]) : y \in Busy}
                ELSE dirty[u] \cup (IF u \in Busy THEN Stores(x) ELSE {})]
      /\ gone' = gone \ Stores(x)
    BY <1>0, <1>3
<1> HIDE DEF x, o
<1>5. Window(x) = {} /\ Passed(x) = {}
    BY <1>2, SMTT(40) DEF Window, Passed
<1>6. Call(x)
    <2>1. Last(x) \in Nat
        BY RCacheAssumption, SMTT(40) DEF Last
    <2>2. Shape(x)
        BY <1>2, RequestsAssumption DEF Shape
    <2> QED BY <1>2, <1>5, <2>1, <2>2, SMTT(40) DEF Call, Marks
<1>7. /\ DOMAIN op' = Workers /\ DOMAIN steady' = Workers /\ DOMAIN dirty' = Workers
      /\ w \notin Busy /\ op'[w] = x
      /\ \A v \in Busy' : v = w \/ (v \in Busy /\ v # w /\ op'[v] = op[v] /\ steady'[v] = steady[v])
    BY <1>1, <1>4 DEF Inv, TypeInv, GoneInv, FindsInv, Busy, Idle
<1>8. TypeInv'
    BY <1>1, <1>6, <1>7 DEF Inv, TypeInv
<1>9. OwnInv'
    BY <1>1 DEF Inv, OwnInv
<1>10. GoneInv'
    <2>1. \A v \in Busy' : Stores(op'[v]) \cap gone' = {}
        BY <1>4, <1>7 DEF Inv, GoneInv
    <2>2. \A u, v \in Busy' : u # v => Stores(op'[v]) \subseteq dirty'[u]
        <3> SUFFICES ASSUME NEW u \in Busy', NEW v \in Busy', u # v
                     PROVE  Stores(op'[v]) \subseteq dirty'[u]
            OBVIOUS
        <3>1. CASE u = w
            BY <1>4, <1>7, <3>1
        <3>2. CASE u # w
            <4>1. u \in Busy /\ u \in Workers /\ dirty'[u] = dirty[u] \cup Stores(x)
                BY <1>4, <1>7, <3>2 DEF Busy
            <4> QED BY <1>7, <4>1 DEF Inv, GoneInv
        <3> QED BY <3>1, <3>2
    <2>3. \A u \in Busy' : op'[u].call \in {"purge", "flush"} =>
            \A k \in Clears(op'[u]) \ dirty'[u], j \in 0 .. op'[u].i - 1 :
               ~(slots'[j].state = "live" /\ slots'[j].key = k)
        <3> SUFFICES ASSUME NEW u \in Busy', op'[u].call \in {"purge", "flush"},
                            NEW k \in Clears(op'[u]) \ dirty'[u], NEW j \in 0 .. op'[u].i - 1
                     PROVE  ~(slots'[j].state = "live" /\ slots'[j].key = k)
            OBVIOUS
        <3>1. u # w
            BY <1>2, <1>7, SMTT(40)
        <3>2. u \in Busy /\ u \in Workers /\ op'[u] = op[u] /\ k \in Clears(op[u]) \ dirty[u]
            BY <1>4, <1>7, <3>1 DEF Busy
        <3> QED BY <1>1, <3>2 DEF Inv, GoneInv, Holds
    <2>4. \A S : \A K \in SUBSET gone : Without(S, gone) => Without(S, K)
        BY DEF Without
    <2>5. gone' \subseteq gone
        BY <1>4
    <2> QED BY <1>1, <1>7, <2>1, <2>2, <2>3, <2>4, <2>5 DEF Inv, GoneInv, Holds
<1>11. TagInv'
    <2>1. Forgets(x, tags) /\ (x.call = "store" => x.pc = "render")
        BY <1>2, SMTT(40) DEF Forgets
    <2> QED BY <1>1, <1>7, <2>1, SMTT(40) DEF Inv, TagInv, AllKept, Kept, Off
<1>12. ChainInv'
    BY <1>1, <1>5, <1>7 DEF Inv, ChainInv
<1>13. FindsInv'
    <2>1. x.call = "get" => \A s \in steady'[w] : s \in Slots /\ Holds(s, x.req.key)
        BY <1>2, <1>4, <1>7 DEF Inv, FindsInv
    <2> QED BY <1>1, <1>5, <1>7, <2>1, SMTT(40) DEF Inv, FindsInv, Holds
<1>14. SingleInv'
    BY <1>1, <1>5, <1>7, SMTT(40) DEF Inv, SingleInv
<1> QED BY <1>8, <1>9, <1>10, <1>11, <1>12, <1>13, <1>14 DEF Inv

\* An unmapped table is in order.
LEMMA NothingLeft ==
    ASSUME NEW S, DOMAIN S = Slots, \A s \in Slots : S[s] = Empty
    PROVE  /\ TableOK(S) /\ Chained(S) /\ Single(S)
           /\ \A s \in Slots : S[s].state = "empty"
<1>1. \A s \in Slots : S[s].state = "empty"
    BY EmptyOK
<1> QED BY <1>1, EmptyOK DEF TableOK, Chained, Single

\* So is an unmapped table of tags.
LEMMA NoTagsLeft ==
    LET T == [s \in TagSlots |-> NoTag] IN TagsOK(T) /\ TagsChained(T)
<1>1. NoTag.tag = None /\ NoTag.gen = 0 /\ NoTag \in [tag : Tags \cup {None}, gen : Nat]
    BY DEF NoTag
<1> QED BY <1>1 DEF TagsOK, TagsChained

\* The server goes down, by a stop that saves the cache or cannot, or by a crash.
LEMMA DownInv ==
    ASSUME Inv, Stop \/ Crash
    PROVE  Inv'
<1>1. /\ up /\ Unmapped /\ Busy' = {} /\ DOMAIN op' = Workers
      /\ UNCHANGED <<stamp, bumps, gone, flaws>>
      /\ DOMAIN steady' = Workers /\ DOMAIN dirty' = Workers
    <2>1. CASE Stop
        BY <2>1 DEF Stop, history, Busy, Idle, Inv, TypeInv, GoneInv, FindsInv
    <2>2. CASE Crash
        BY <2>2 DEF Crash, Busy, Idle
    <2> QED BY <2>1, <2>2
<1>2. \/ file' = file /\ ended' # "saved"
      \/ file' = [slots |-> slots, tags |-> tags, stamp |-> stamp]
    BY DEF Stop, Crash
<1>3. ~up' /\ DOMAIN slots' = Slots /\ (\A s \in Slots : slots'[s] = Empty) /\ up' \in BOOLEAN
    BY <1>1 DEF Unmapped
<1>4. /\ TableOK(slots') /\ Chained(slots') /\ Single(slots')
      /\ \A s \in Slots : slots'[s].state = "empty"
    BY <1>3, NothingLeft
<1>5. TagsOK(tags') /\ TagsChained(tags')
    BY <1>1, NoTagsLeft DEF Unmapped
<1>6. /\ file' = [slots |-> slots, tags |-> tags, stamp |-> stamp]
           => file'.slots = slots /\ file'.tags = tags /\ file'.stamp = stamp /\ file' # NoFile
    BY RCacheAssumption, SMTT(40) DEF NoFile, None, Inv, TypeInv
<1>7. TypeInv'
    BY <1>1, <1>2, <1>3, <1>4, <1>5, <1>6 DEF Inv, TypeInv
<1>8. OwnInv'
    BY <1>1, <1>2, <1>3, <1>6 DEF Inv, OwnInv
<1>9. GoneInv'
    <2>1. Without(slots', gone')
        BY <1>4 DEF Without
    <2>2. "lapsed" \notin flaws' /\ ended' = "saved" => Without(file'.slots, gone')
        BY <1>1, <1>2, <1>6 DEF Inv, GoneInv
    <2> QED BY <1>1, <2>1, <2>2 DEF GoneInv
<1>10. TagInv'
    <2> SUFFICES ASSUME flaws' \cap {"evicted", "race", "lapsed"} = {} PROVE TagInv'
        BY DEF TagInv
    <2>1. AllKept(slots, tags)'
        BY <1>4 DEF AllKept
    <2>2. ended' = "saved" => TagsChained(file'.tags) /\ AllKept(file.slots, file.tags)'
        BY <1>1, <1>2, <1>6 DEF Inv, TagInv, AllKept, Kept, Off
    <2> QED BY <1>1, <1>5, <2>1, <2>2 DEF TagInv
<1>11. ChainInv' /\ FindsInv' /\ SingleInv'
    BY <1>1, <1>2, <1>4, <1>6 DEF Inv, ChainInv, FindsInv, SingleInv
<1> QED BY <1>7, <1>8, <1>9, <1>10, <1>11 DEF Inv

\* A boot, with the file of the same release or with none.
LEMMA BootInv ==
    ASSUME Inv, Boot
    PROVE  Inv'
<1>1. /\ ~up /\ up' = TRUE /\ UNCHANGED <<op, file, ended, bumps, steady, dirty, gone, clean>>
      /\ stamp' \in Stamps
    BY DEF Boot, history
<1>2. Busy = {} /\ Busy' = {} /\ DOMAIN op' = Workers
    BY <1>1 DEF Inv, TypeInv, Busy, Idle
<1>3. CASE UNCHANGED <<memory, flaws>>
    <2>1. UNCHANGED <<slots, tags, flaws>> /\ \A s \in Slots : slots[s].state = "empty"
        BY <1>1, <1>3, EmptyOK DEF memory, Inv, TypeInv
    <2>2. TypeInv' /\ OwnInv'
        BY <1>1, <1>2, <2>1 DEF Inv, TypeInv, OwnInv, OwnedBy
    <2>3. GoneInv'
        BY <1>1, <1>2, <2>1 DEF Inv, GoneInv
    <2>4. TagInv'
        BY <1>1, <1>2, <2>1 DEF Inv, TagInv, AllKept, Kept, Off
    <2>5. ChainInv' /\ FindsInv' /\ SingleInv'
        BY <1>1, <1>2, <2>1 DEF Inv, ChainInv, FindsInv, SingleInv
    <2> QED BY <2>2, <2>3, <2>4, <2>5 DEF Inv
<1>4. CASE ~UNCHANGED <<memory, flaws>>
    <2>1. /\ file.stamp = stamp' /\ slots' = [s \in Slots |-> Restored(file.slots[s])]
          /\ tags' = file.tags
          /\ flaws' = flaws \cup (IF slots' = file.slots THEN {} ELSE {"hole"})
                            \cup (IF ended = "saved" THEN {} ELSE {"lapsed"})
        BY <1>4 DEF Boot, Loads
    <2>2. file # NoFile
        BY <1>1, <2>1, RCacheAssumption, SMTT(40) DEF NoFile, None
    <2>3. /\ DOMAIN slots' = Slots
          /\ \A s \in Slots : slots'[s] = file.slots[s] \/ slots'[s] = Empty
        BY <2>1 DEF Restored
    <2>4. TableOK(file.slots) /\ TagsOK(file.tags)
        BY <2>2 DEF Inv, TypeInv
    <2>5. TypeInv'
        <3>1. TableOK(slots')
            BY <2>3, <2>4, EmptyOK DEF TableOK
        <3> QED BY <1>1, <1>2, <2>1, <2>4, <3>1 DEF Inv, TypeInv
    <2>6. OwnInv'
        <3>1. OwnedBy(file.slots, file.stamp)
            BY <2>2 DEF Inv, OwnInv
        <3>2. OwnedBy(slots', stamp')
            BY <2>1, <2>3, <3>1, EmptyOK DEF OwnedBy
        <3> QED BY <1>1, <3>1, <3>2 DEF OwnInv
    <2>7. GoneInv'
        <3>1. "lapsed" \notin flaws' => Without(file.slots, gone)
            BY <1>1, <2>1 DEF Inv, GoneInv
        <3>2. "lapsed" \notin flaws' => Without(slots', gone')
            BY <1>1, <2>3, <3>1, EmptyOK DEF Without
        <3> QED BY <1>1, <1>2, <3>2 DEF Inv, GoneInv
    <2>8. TagInv'
        <3> SUFFICES ASSUME flaws' \cap {"evicted", "race", "lapsed"} = {} PROVE TagInv'
            BY DEF TagInv
        <3>1. TagsChained(file.tags) /\ AllKept(file.slots, file.tags)
            BY <1>1, <2>1 DEF Inv, TagInv
        <3>2. AllKept(slots, tags)'
            BY <1>1, <2>1, <2>3, <3>1, EmptyOK DEF AllKept, Kept, Off
        <3> QED BY <1>1, <1>2, <2>1, <3>1, <3>2 DEF TagInv
    <2>9. ChainInv' /\ FindsInv' /\ SingleInv'
        <3>1. "hole" \notin flaws' => slots' = file.slots /\ "hole" \notin flaws
            BY <2>1
        <3>2. FindsInv'
            BY <1>1, <1>2 DEF Inv, FindsInv
        <3>3. ChainInv'
            BY <1>1, <1>2, <2>2, <3>1 DEF Inv, ChainInv
        <3>4. flaws' \cap {"hole", "overlap"} = {} => flaws \cap {"hole", "overlap"} = {}
            BY <2>1
        <3>5. SingleInv'
            BY <1>1, <1>2, <2>2, <3>1, <3>4 DEF Inv, SingleInv
        <3> QED BY <3>2, <3>3, <3>5
    <2> QED BY <2>5, <2>6, <2>7, <2>8, <2>9 DEF Inv
<1> QED BY <1>3, <1>4

\* The table that earlier stores have left.
LEMMA InvInit ==
    ASSUME Init
    PROVE  Inv
<1>1. PICK S \in Presets :
         slots = [s \in Slots |-> IF S[s].state = "live" THEN [S[s] EXCEPT !.by = stamp] ELSE S[s]]
    BY DEF Init
<1>2. /\ stamp \in Stamps /\ tags \in TagPresets /\ op = [w \in Workers |-> Idle]
      /\ file = NoFile /\ up = TRUE /\ ended = None /\ bumps = [t \in Tags |-> TagGen(t)]
      /\ steady = [w \in Workers |-> {}] /\ dirty = [w \in Workers |-> {}]
      /\ gone = {} /\ clean = {} /\ flaws = {}
    BY DEF Init
<1>3. Busy = {}
    BY <1>2 DEF Busy
<1>4. TagsOK(tags) /\ TagsChained(tags)
    BY <1>2, PresetsAssumption DEF TagsOK
<1>5. /\ Chained(S) /\ Single(S)
      /\ \A s \in Slots :
              /\ DOMAIN S[s] = DOMAIN Empty /\ S[s].state \in {"empty", "dead", "live"}
              /\ S[s].state # "empty" => S[s].key \in Keys
              /\ S[s].state = "live" =>
                   /\ S[s].app = AppOf[S[s].key] /\ S[s].snap = S[s].gens
                   /\ \E T \in SUBSET Tags : S[s].gens \in [T -> Nat]
    BY PresetsAssumption
<1>6. DOMAIN Empty = Parts
    BY DEF Empty, Parts
<1>7. ASSUME NEW s \in Slots
      PROVE  /\ DOMAIN slots[s] = Parts /\ slots[s].state = S[s].state /\ slots[s].key = S[s].key
             /\ slots[s].app = S[s].app /\ slots[s].gens = S[s].gens /\ slots[s].snap = S[s].snap
             /\ slots[s].state = "live" => slots[s].by = stamp
    <2>1. DOMAIN S[s] = Parts
        BY <1>5, <1>6
    <2> QED BY <1>1, <2>1 DEF Parts
<1>8. TableOK(slots)
    <2>1. ASSUME NEW s \in Slots PROVE EntryOK(slots[s])
        <3>1. slots[s].state = "live" =>
                \A t \in DOMAIN S[s].gens : t \in Tags /\ S[s].gens[t] \in Nat
            BY <1>5, <1>7
        <3> QED BY <1>5, <1>7, <3>1 DEF EntryOK
    <2> QED BY <1>1, <2>1 DEF TableOK
<1>9. TypeInv
    <2>1. bumps \in [Tags -> Nat]
        BY <1>2, <1>4, GenNat DEF TagGen
    <2> QED BY <1>2, <1>3, <1>4, <1>8, <2>1 DEF TypeInv
<1>10. OwnInv
    BY <1>2, <1>7 DEF OwnInv, OwnedBy
<1>11. GoneInv
    BY <1>2, <1>3 DEF GoneInv, Without, None
<1>12. TagInv
    <2>1. \A t \in Tags : Off(tags, t) = 0
        <3>1. \A t \in Tags : Gen(tags, t) \in Nat /\ bumps[t] = Gen(tags, t)
            BY <1>2, <1>4, GenNat DEF TagGen
        <3> QED BY <3>1, SMTT(40) DEF Off
    <2>2. ASSUME NEW s \in Slots, slots[s].state = "live", NEW t \in DOMAIN slots[s].gens
          PROVE  slots[s].snap[t] - slots[s].gens[t] = Off(tags, t)
        <3>1. t \in Tags /\ slots[s].gens[t] \in Nat /\ slots[s].snap = slots[s].gens
            BY <1>5, <1>7, <2>2
        <3> QED BY <2>1, <3>1, SMTT(40)
    <2>3. AllKept(slots, tags)
        BY <2>2 DEF AllKept, Kept
    <2> QED BY <1>2, <1>3, <1>4, <2>3 DEF TagInv
<1>13. Chained(slots) /\ Single(slots)
    <2>1. \A s \in Slots : S[s].state # "empty" => S[s].key \in Keys
        BY <1>5
    <2>2. ASSUME NEW s \in Slots, slots[s].state # "empty"
          PROVE  \E i \in 0 .. Probe - 1 : /\ s = Pos(slots[s].key, i)
                    /\ \A j \in 0 .. i - 1 : slots[Pos(slots[s].key, j)].state # "empty"
        <3>1. PICK i \in 0 .. Probe - 1 : /\ s = Pos(S[s].key, i)
                    /\ \A j \in 0 .. i - 1 : S[Pos(S[s].key, j)].state # "empty"
            BY <1>5, <1>7, <2>2 DEF Chained
        <3>2. \A j \in 0 .. i - 1 : Pos(S[s].key, j) \in Slots
            BY <1>7, <2>1, <2>2, <3>1, PosSlot, SMTT(40)
        <3>3. \A j \in 0 .. i - 1 : slots[Pos(S[s].key, j)].state # "empty"
            BY <1>7, <3>1, <3>2
        <3> QED BY <1>7, <3>1, <3>3
    <2> QED BY <1>5, <1>7, <2>2, SMTT(40) DEF Chained, Single
<1>14. ChainInv /\ FindsInv /\ SingleInv
    BY <1>2, <1>3, <1>13 DEF ChainInv, FindsInv, SingleInv
<1> QED BY <1>9, <1>10, <1>11, <1>12, <1>14 DEF Inv

\* Every step keeps the invariant.
LEMMA InvStep ==
    ASSUME Inv, [Next]_vars
    PROVE  Inv'
<1>1. CASE UNCHANGED vars
    BY <1>1, UnmovedInv DEF vars
<1>2. CASE Tick
    BY <1>2, UnmovedInv DEF Tick
<1>3. CASE Stop \/ Crash
    BY <1>3, DownInv
<1>4. CASE Boot
    BY <1>4, BootInv
<1>5. CASE \E w \in Workers : Start(w)
    BY <1>5, StartInv
<1>6. CASE \E w \in Workers : Step(w)
    <2>1. PICK w \in Workers : Step(w)
        BY <1>6
    <2>2. w \in Busy /\ (Stepped(w) \/ Die(w))
        BY <2>1, StepSteps DEF Inv
    <2>3. CASE Die(w)
        BY <2>2, <2>3, DieInv
    <2>4. CASE ~Die(w)
        BY <2>1, <2>2, <2>4, StepInv
    <2> QED BY <2>3, <2>4
<1> QED BY <1>1, <1>2, <1>3, <1>4, <1>5, <1>6 DEF Next

-----------------------------------------------------------------------------
\* What is served was rendered after the last forget of its tags.
LEMMA ServedIsNew ==
    ASSUME Inv
    PROVE  ForgottenIsNotServed
<1> SUFFICES ASSUME NEW w \in Workers, Serves(w), flaws \cap {"evicted", "race", "lapsed"} = {},
                    NEW t \in TagsOf(slots[At(op[w])])
             PROVE  slots[At(op[w])].snap[t] = bumps[t]
    BY DEF ForgottenIsNotServed
<1> DEFINE e == slots[At(op[w])]
<1>1. w \in Busy /\ op[w].call \in {"get", "fallback"} /\ e.state = "live" /\ ~TagInvalid(e)
    BY DEF Serves, GetSlot, Holds, Usable
<1>2. At(op[w]) \in Slots
    BY <1>1, AtSlot DEF Inv, TypeInv
<1>3. EntryOK(e) /\ Kept(e.gens, e.snap, tags)
    BY <1>1, <1>2 DEF Inv, TypeInv, TableOK, TagInv, AllKept
<1>4. t \in DOMAIN e.gens /\ t \in Tags /\ e.gens[t] \in Nat /\ e.snap[t] \in Nat
    BY <1>1, <1>3 DEF TagsOf, EntryOK
<1>5. Gen(tags, t) = e.gens[t]
    BY <1>1 DEF TagInvalid, TagGen
<1>6. e.snap[t] - e.gens[t] = bumps[t] - Gen(tags, t) /\ bumps[t] \in Nat
    BY <1>3, <1>4 DEF Kept, Off, Inv, TypeInv
<1> QED BY <1>4, <1>5, <1>6, SMTT(40)

\* A lookup that ends without an entry has missed none.
LEMMA MissesNothing ==
    ASSUME Inv
    PROVE  GetFindsSteadyEntries
<1> SUFFICES ASSUME NEW w \in Workers, op[w].call = "get", op'[w] = Idle, GetSlot(w),
                    ~Holds(At(op[w]), op[w].req.key), "hole" \notin flaws, NEW s \in steady[w]
             PROVE  FALSE
    BY DEF GetFindsSteadyEntries
<1> DEFINE o == op[w]  k == o.req.key
<1>1. w \in Busy /\ Call(o) /\ DOMAIN op = Workers
    BY SMTT(40) DEF Inv, TypeInv, Busy, Idle, None
<1>2. /\ o.i \in Nat /\ Last(o) = Probe - 1 /\ Probe - 1 \in Nat /\ o.pc = "probe"
      /\ At(o) = Pos(k, o.i)
      /\ o.i = Last(o) \/ o.i < Last(o)
    BY <1>1, CallFacts, RCacheAssumption DEF Call, Shape, At
<1>3. s \in Slots /\ Holds(s, k) /\ s \notin Window(o)
    BY <1>1 DEF Inv, FindsInv
<1>4. PICK i \in 0 .. Probe - 1 :
         s = Pos(k, i) /\ \A j \in 0 .. i - 1 : slots[Pos(k, j)].state # "empty"
    BY <1>3 DEF Inv, ChainInv, Chained, Holds
<1>5. i \notin 0 .. o.i - 1
    BY <1>2, <1>3, <1>4 DEF Window, Passed
<1>6. i # o.i
    BY <1>2, <1>3, <1>4
<1>7. o.i \in 0 .. i - 1
    BY <1>2, <1>4, <1>5, <1>6, SMTT(40)
<1>8. slots[At(o)].state # "empty"
    BY <1>2, <1>4, <1>7
<1>9. Advance(o, Idle) = Idle
    BY <1>1, <1>8 DEF GetSlot, Look
<1>10. o.i = Last(o)
    <2>1. CASE o.i < Last(o)
        <3>1. o = Idle \/ [o EXCEPT !.i = o.i + 1] = Idle
            BY <1>9, <2>1 DEF Advance
        <3>2. DOMAIN [o EXCEPT !.i = o.i + 1] = Fields /\ DOMAIN Idle = {"call"}
            BY <1>1 DEF Call, Idle
        <3> QED BY <1>1, <3>1, <3>2 DEF Busy, Fields
    <2> QED BY <1>2, <2>1
<1> QED BY <1>2, <1>4, <1>7, <1>10, SMTT(40)

\* Once a tag is forgotten, a page purged, banned or flushed, or a release
\* deployed, no response that it invalidates is served again by any worker
\* (tag_invalid, purge_url, ban_glob, flush_app and restore of rcache.rs), save
\* for the flaws that the properties name.
THEOREM InvalidationHolds == Spec => InvalidatedIsGone
<1>1. Inv /\ [Next]_vars => ForgottenIsNotServed /\ (PurgedIsGone /\ ReleaseOwnsEntries)'
    <2> SUFFICES ASSUME Inv, [Next]_vars
                 PROVE  ForgottenIsNotServed /\ (PurgedIsGone /\ ReleaseOwnsEntries)'
        OBVIOUS
    <2>1. Inv'
        BY InvStep
    <2>2. PurgedIsGone'
        BY <2>1 DEF Inv, GoneInv, Without, PurgedIsGone, Holds
    <2>3. ReleaseOwnsEntries'
        BY <2>1 DEF Inv, OwnInv, OwnedBy, ReleaseOwnsEntries
    <2> QED BY <2>2, <2>3, ServedIsNew
<1> QED BY <1>1, InvInit, InvStep, PTL DEF Spec, InvalidatedIsGone

\* A page that was stored is found by every lookup that it was there for, whatever
\* is removed beside it, and no store leaves a second entry of it (get and store of
\* rcache.rs), save for the flaws that the properties name.
THEOREM PagesHold == Spec => PagesAreFound
<1>1. Inv /\ [Next]_vars => OneEntryPerPage' /\ GetFindsSteadyEntries
    <2> SUFFICES ASSUME Inv, [Next]_vars PROVE OneEntryPerPage' /\ GetFindsSteadyEntries
        OBVIOUS
    <2>1. Inv'
        BY InvStep
    <2>2. OneEntryPerPage'
        BY <2>1 DEF Inv, SingleInv, Single, OneEntryPerPage, Holds
    <2> QED BY <2>2, MissesNothing
<1> QED BY <1>1, InvInit, InvStep, PTL DEF Spec, PagesAreFound

=============================================================================
