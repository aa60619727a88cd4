------------------------------- MODULE RCache -------------------------------
(***************************************************************************)
(* The response cache that the workers share (crates/askr/src/rcache.rs):  *)
(* an open-addressing table of whole responses, the table of tag           *)
(* generations that invalidates them, and the file that carries both over  *)
(* a restart.                                                              *)
(*                                                                         *)
(* One action is one critical section under one slot lock, or one atomic   *)
(* write of the tag table.  A probe of the tag table is one read: a tag    *)
(* slot is never emptied, so a slower probe finds nothing that this one    *)
(* does not find at some moment of it.  A response is the counts of its    *)
(* tags' forgets when it was rendered and when they were read: enough to   *)
(* tell a stale response from a good one.                                  *)
(***************************************************************************)
EXTENDS Naturals, FiniteSets

CONSTANTS
    Workers,
    Keys,
    Tags,
    AppOf,        \* the application that answers a key
    N,            \* response slots
    TagN,         \* TAG_SLOTS
    Probe,        \* PROBE
    Home,         \* per key, the slot of its hash
    TagHome,      \* per tag, the slot of its hash
    MaxTags,      \* MAX_TAGS
    Requests,     \* what the workers ask for: call, keys, ttl, swr, sie, tags
    Presets,      \* what the response slots may hold at the start
    TagPresets,   \* what the tag table may hold at the start
    Stamps,       \* app_stamp: the deployed applications
    MaxTime,      \* bound: the clock
    MaxCalls,     \* bound: operations in all
    MaxRestarts   \* bound: stops and crashes in all

Slots == 0 .. N - 1
TagSlots == 0 .. TagN - 1

ASSUME RCacheAssumption ==
    /\ N \in Nat \ {0} /\ TagN \in Nat \ {0} /\ Probe \in Nat \ {0}
    /\ Home \in [Keys -> Slots] /\ TagHome \in [Tags -> TagSlots]
    /\ MaxTags \in Nat /\ MaxTime \in Nat /\ MaxCalls \in Nat /\ MaxRestarts \in Nat
    /\ "none" \notin Tags /\ "none" \notin Stamps

\* What a call is given: every one but flush names a page, pages or a tag.
ASSUME RequestsAssumption ==
    \A q \in Requests :
      \/ q.call \in {"get", "fallback"} /\ q.key \in Keys
      \/ q.call = "store" /\ q.key \in Keys /\ q.tags \subseteq Tags
      \/ q.call = "forget" /\ q.tag \in Tags
      \/ q.call \in {"purge", "flush"}

VARIABLES
    slots,      \* the entries
    tags,       \* the tag table
    op,         \* per worker, the operation in progress
    file,       \* the saved cache
    stamp,      \* the application deployed now
    up,         \* is the server running
    clock,      \* unix seconds
    calls,      \* operations issued
    restarts,   \* stops and crashes so far
    bumps,      \* history: per tag, how often it was forgotten
    steady,     \* history: per worker, slots that held its key all through
    dirty,      \* history: per worker, keys stored while its call runs
    gone,       \* history: keys purged, banned or flushed and not stored since
    clean,      \* history: workers whose store saw no other write so far
    ended,      \* history: how the server's last run ended
    flaws       \* history: what happened that the properties make an exception for

memory == <<slots, tags>>
disk == <<file, stamp, up, restarts, ended>>
history == <<steady, dirty, gone, clean>>
vars == <<memory, op, disk, clock, calls, bumps, history, flaws>>

-----------------------------------------------------------------------------
None == "none"
NoSlot == N
Idle == [call |-> None]

\* snap is a history, the forgets of the entry's tags when their generations were
\* read, and so is by, the release that rendered the entry.
Empty == [state |-> "empty", key |-> None, app |-> None, exp |-> 0, hard |-> 0,
          err |-> 0, gens |-> << >>, snap |-> << >>, by |-> None]
NoTag == [tag |-> None, gen |-> 0]
NoFile == [stamp |-> None]

\* The i-th slot of a key's window.
Pos(k, i) == (Home[k] + i) % N

\* Every entry of table S, a removed one too, is in its key's window, and a probe
\* for the key meets no empty slot on the way to it.
Chained(S) ==
    \A s \in Slots : S[s].state # "empty" =>
      \E i \in 0 .. Probe - 1 :
         s = Pos(S[s].key, i) /\ \A j \in 0 .. i - 1 : S[Pos(S[s].key, j)].state # "empty"

\* A key has one entry at most, a removed one included.
Single(S) == \A r, s \in Slots : S[r].state # "empty" /\ S[s].state # "empty"
                                /\ S[r].key = S[s].key => r = s

TagAt(t, i) == (TagHome[t] + i) % TagN

\* So are the tags of T, and a free slot is as it was made.
TagsChained(T) ==
    \A s \in TagSlots :
      /\ T[s].tag = None => T[s].gen = 0
      /\ T[s].tag # None =>
           \E i \in 0 .. Probe - 1 :
              s = TagAt(T[s].tag, i) /\ \A j \in 0 .. i - 1 : T[TagAt(T[s].tag, j)].tag # None

\* A preset is a table that earlier stores of this run have left.
ASSUME PresetsAssumption ==
    /\ \A S \in Presets :
         /\ DOMAIN S = Slots /\ Chained(S) /\ Single(S)
         /\ \A s \in Slots :
              /\ DOMAIN S[s] = DOMAIN Empty /\ S[s].state \in {"empty", "dead", "live"}
              /\ S[s].state # "empty" => S[s].key \in Keys
              /\ S[s].state = "live" =>
                   /\ S[s].app = AppOf[S[s].key] /\ S[s].snap = S[s].gens
                   /\ \E T \in SUBSET Tags : S[s].gens \in [T -> Nat]
    /\ \A T \in TagPresets :
         /\ T \in [TagSlots -> [tag : Tags \cup {None}, gen : Nat]]
         /\ TagsChained(T)

\* Fault: a removed entry ends the probe chains that run through it.
TombstoneEmpty(e) == Empty

\* A removed entry keeps the probe chains that run through it, and its key and
\* application; nothing else of it is read again.
Tombstone(e) == [Empty EXCEPT !.state = "dead", !.key = e.key, !.app = e.app]

Holds(s, k) == slots[s].state = "live" /\ slots[s].key = k
Busy == {w \in Workers : op[w] # Idle}

\* retain: the widest deadline of an entry; 0 is never.
Retain(e) == IF e.hard > e.err THEN e.hard ELSE e.err
Past(t, now) == t # 0 /\ t < now
Expired(e, now) == Past(Retain(e), now)

\* Past its fresh deadline and its stale window: for failures only.
ErrorOnly(e, now) == Past(e.exp, now) /\ (e.hard = 0 \/ e.hard < now)

-----------------------------------------------------------------------------
\* Where the probe of tag table T for t ends: at its slot or at a free one, if it
\* meets one.
Ends(T, t) == {i \in 0 .. Probe - 1 : T[TagAt(t, i)].tag \in {t, None}}
End(T, t) == CHOOSE i \in Ends(T, t) : \A j \in Ends(T, t) : i <= j

\* A tag that was never forgotten, or lost its slot, has generation 0.
Gen(T, t) ==
    IF Ends(T, t) # {} /\ T[TagAt(t, End(T, t))].tag = t
    THEN T[TagAt(t, End(T, t))].gen ELSE 0
TagGen(t) == Gen(tags, t)

TagsOf(e) == DOMAIN e.gens
TagInvalid(e) == \E t \in TagsOf(e) : TagGen(t) # e.gens[t]

-----------------------------------------------------------------------------
Stores(o) == IF o.call = "store" THEN {o.req.key} ELSE {}
Clears(o) == CASE o.call = "purge" -> o.req.want
               [] o.call = "flush" -> {k \in Keys : AppOf[k] = o.req.app}
               [] OTHER -> {}

At(o) == IF o.call \in {"purge", "flush"} THEN o.i ELSE Pos(o.req.key, o.i)
Last(o) == IF o.call \in {"purge", "flush"} THEN N - 1 ELSE Probe - 1

\* The next slot, or what follows the last one.
Advance(o, after) == IF o.i < Last(o) THEN [o EXCEPT !.i = o.i + 1] ELSE after

\* The histories that a step of w moves: its call ends when op'[w] is Idle.
Record(w) ==
    /\ steady' = [v \in Workers |->
         IF op'[v] = Idle THEN {}
         ELSE {s \in steady[v] : Holds(s, op[v].req.key)'}]
    /\ gone' = gone \cup (IF op'[w] = Idle THEN Clears(op[w]) \ dirty[w] ELSE {})
    /\ dirty' = IF op'[w] = Idle THEN [dirty EXCEPT ![w] = {}] ELSE dirty

\* A step that leaves the entries alone.
Look(w, next) ==
    /\ op' = [op EXCEPT ![w] = next]
    /\ UNCHANGED <<memory, disk, clock, calls, bumps, clean, flaws>>
    /\ Record(w)

\* A step that writes entry e to slot s.
Put(w, s, e, next, flaw) ==
    /\ op' = [op EXCEPT ![w] = next]
    /\ slots' = [slots EXCEPT ![s] = e]
    /\ clean' = {}
    /\ flaws' = flaws \cup flaw
    /\ Record(w)
    /\ UNCHANGED <<tags, disk, clock, calls, bumps>>

\* A worker calls a public function; a store begins with PHP rendering.
Start(w) ==
    /\ up /\ op[w] = Idle
    /\ calls < MaxCalls
    /\ \E q \in Requests :
         LET o == [call |-> q.call, req |-> q, pc |-> "probe", i |-> 0, now |-> clock,
                   gens |-> << >>, snap |-> << >>, reuse |-> NoSlot, target |-> NoSlot]
         IN /\ op' = [op EXCEPT ![w] =
                        IF q.call = "store" THEN [o EXCEPT !.pc = "render"] ELSE o]
            /\ steady' = [steady EXCEPT ![w] =
                 IF q.call = "get" THEN {s \in Slots : Holds(s, q.key)} ELSE {}]
            /\ dirty' = [u \in Workers |->
                 IF u = w THEN UNION {Stores(op[x]) : x \in Busy}
                 ELSE dirty[u] \cup (IF u \in Busy THEN Stores(o) ELSE {})]
            /\ gone' = gone \ Stores(o)
    /\ calls' = calls + 1
    /\ UNCHANGED <<memory, disk, clock, bumps, clean, flaws>>

-----------------------------------------------------------------------------
\* peek, one slot: what it finds there for the key.
Usable(e, o) == ~Expired(e, o.now) /\ ~TagInvalid(e)

GetSlot(w) ==
    LET o == op[w]
        s == At(o)
    IN /\ o.call \in {"get", "fallback"}
       /\ IF Holds(s, o.req.key) /\ ~Usable(slots[s], o)
          THEN Put(w, s, Tombstone(slots[s]), Idle, {})
          ELSE Look(w, IF slots[s].state = "empty" \/ Holds(s, o.req.key) THEN Idle
                       ELSE Advance(o, Idle))

\* The step of a get, or of a fallback after a failure, that answers the request
\* from the cache.
Serves(w) ==
    LET o == op[w]
        s == At(o)
    IN /\ w \in Busy /\ GetSlot(w)
       /\ Holds(s, o.req.key) /\ Usable(slots[s], o)
       /\ o.call = "fallback" \/ ~ErrorOnly(slots[s], o.now)

\* The response is rendered: store reads the clock and the tag generations.
Snapshot(w) ==
    LET o == op[w]
        T == o.req.tags
    IN /\ o.call = "store" /\ o.pc = "render"
       /\ op' = [op EXCEPT ![w] =
            IF Cardinality(T) > MaxTags THEN Idle
            ELSE [o EXCEPT !.pc = "probe", !.now = clock,
                           !.gens = [t \in T |-> TagGen(t)],
                           !.snap = [t \in T |-> bumps[t]]]]
       /\ clean' = clean \cup {w}
       /\ UNCHANGED <<memory, disk, clock, calls, bumps, flaws>>
       /\ Record(w)

\* write_entry: what store writes.
Entry(o) ==
    LET q == o.req
        exp == IF q.ttl > 0 THEN o.now + q.ttl ELSE 0
    IN [state |-> "live", key |-> q.key, app |-> AppOf[q.key], exp |-> exp,
        hard |-> IF q.ttl > 0 /\ q.swr > 0 THEN exp + q.swr ELSE exp,
        err |-> IF q.ttl > 0 /\ q.sie > 0 THEN exp + q.sie ELSE 0,
        gens |-> o.gens, snap |-> o.snap, by |-> stamp]

\* A write that rests on slots which changed meanwhile.
Overlap(w) == IF w \in clean THEN {} ELSE {"overlap"}

\* A slot that store writes where it finds it; the key may be a removed one's.
Takes(e, k) == e.state = "empty" \/ e.key = k

StoreProbe(w) ==
    LET o == op[w]
        s == At(o)
        e == slots[s]
        seen == [o EXCEPT
          !.reuse = IF e.state = "dead" /\ o.reuse = NoSlot THEN s ELSE o.reuse,
          !.target = IF e.state = "live" /\ o.target = NoSlot THEN s ELSE o.target]
    IN /\ o.call = "store" /\ o.pc = "probe"
       /\ IF Takes(e, o.req.key) THEN Put(w, s, Entry(o), Idle, Overlap(w))
          ELSE Look(w, Advance(seen, [seen EXCEPT !.pc = "write"]))

\* The window is full: the slot is not looked at again.
StoreWrite(w) ==
    LET o == op[w]
    IN /\ o.call = "store" /\ o.pc = "write"
       /\ Put(w, IF o.reuse # NoSlot THEN o.reuse ELSE o.target, Entry(o), Idle,
              Overlap(w))

-----------------------------------------------------------------------------
\* The scan goes on to the last slot.
AfterPurge(o) == Advance(o, Idle)

\* purge_url and ban_glob, one slot: the scan removes the entries it wants.
PurgeSlot(w) ==
    LET o == op[w]
        e == slots[o.i]
    IN /\ o.call = "purge"
       /\ IF e.state = "live" /\ e.key \in o.req.want
          THEN Put(w, o.i, Tombstone(e), AfterPurge(o), {})
          ELSE Look(w, Advance(o, Idle))

\* flush_app, one slot: it is emptied, a removed one too, and ends the probe
\* chains that ran through it.
FlushSlot(w) ==
    LET o == op[w]
    IN /\ o.call = "flush"
       /\ IF slots[o.i].app = o.req.app
          THEN Put(w, o.i, Empty, Advance(o, Idle), {"hole"})
          ELSE Look(w, Advance(o, Idle))

\* A step of forget_tag that leaves slot s of the tag table as r.
PutTag(w, s, r, next, bump, flaw) ==
    /\ op' = [op EXCEPT ![w] = next]
    /\ tags' = [tags EXCEPT ![s] = r]
    /\ bumps' = IF bump THEN [bumps EXCEPT ![op[w].req.tag] = bumps[op[w].req.tag] + 1]
                ELSE bumps
    /\ flaws' = flaws \cup flaw
    /\ UNCHANGED <<slots, disk, clock, calls, clean>>
    /\ Record(w)

TagSlot(o) == TagAt(o.req.tag, o.i)

\* After the last slot of the window the tag takes its first one.
NextTag(o) == IF o.i < Probe - 1 THEN [o EXCEPT !.i = o.i + 1, !.pc = "probe"]
              ELSE [o EXCEPT !.i = 0, !.pc = "evict"]

ForgetProbe(w) ==
    LET o == op[w]
        held == tags[TagSlot(o)].tag
    IN /\ o.call = "forget" /\ o.pc = "probe"
       /\ Look(w, CASE held = o.req.tag -> [o EXCEPT !.pc = "bump"]
                    [] held = None -> [o EXCEPT !.pc = "claim"]
                    [] OTHER -> NextTag(o))

\* fetch_add, on whatever tag the slot has by now.
ForgetBump(w) ==
    LET o == op[w]
        r == tags[TagSlot(o)]
    IN /\ o.call = "forget" /\ o.pc = "bump"
       /\ PutTag(w, TagSlot(o), [r EXCEPT !.gen = r.gen + 1], Idle, TRUE, {})

\* The compare-exchange that takes a free slot.  A racing forget that took it
\* sends this one on, also when it took it for the same tag.
ForgetClaim(w) ==
    LET o == op[w]
        r == tags[TagSlot(o)]
    IN /\ o.call = "forget" /\ o.pc = "claim"
       /\ IF r.tag = None
          THEN PutTag(w, TagSlot(o), [r EXCEPT !.tag = o.req.tag],
                      [o EXCEPT !.pc = "create"], FALSE, {})
          ELSE PutTag(w, TagSlot(o), r, NextTag(o), FALSE,
                      IF r.tag = o.req.tag THEN {"race"} ELSE {})

\* Fault: a tag is created as if it had never been forgotten.
FirstGenZero == 0

\* The generation of a tag that is forgotten for the first time.
FirstGen == 1

\* The store that follows: a bump that came in between is lost.
ForgetCreate(w) ==
    LET o == op[w]
        r == tags[TagSlot(o)]
    IN /\ o.call = "forget" /\ o.pc = "create"
       /\ PutTag(w, TagSlot(o), [r EXCEPT !.gen = FirstGen], Idle, TRUE,
                 IF r.gen = 0 THEN {} ELSE {"race"})

\* The window is full: the tag takes the slot of another, generation and all.
ForgetEvict(w) ==
    LET o == op[w]
        r == tags[TagSlot(o)]
    IN /\ o.call = "forget" /\ o.pc = "evict"
       /\ PutTag(w, TagSlot(o), [r EXCEPT !.tag = o.req.tag], [o EXCEPT !.pc = "bump"],
                 FALSE, {"evicted"})

-----------------------------------------------------------------------------
\* A worker dies between two steps of its call.
Die(w) ==
    /\ op' = [op EXCEPT ![w] = Idle]
    /\ steady' = [steady EXCEPT ![w] = {}]
    /\ dirty' = [dirty EXCEPT ![w] = {}]
    /\ clean' = clean \ {w}
    /\ UNCHANGED <<memory, disk, clock, calls, bumps, gone, flaws>>

\* The mapping goes with the last process.
Unmapped ==
    /\ slots' = [s \in Slots |-> Empty]
    /\ tags' = [s \in TagSlots |-> NoTag]
    /\ up' = FALSE
    /\ restarts' = restarts + 1

\* A graceful stop: the workers are gone, and the cache is saved, unless the
\* file cannot be written; then the one that is there stays.
Stop ==
    /\ up /\ Busy = {}
    /\ restarts < MaxRestarts
    /\ \/ /\ file' = [slots |-> slots, tags |-> tags, stamp |-> stamp]
          /\ ended' = "saved"
       \/ /\ file' = file
          /\ ended' = "unsaved"
    /\ Unmapped
    /\ UNCHANGED <<op, stamp, clock, calls, bumps, history, flaws>>

\* The server goes down without a stop.
Crash ==
    /\ up
    /\ restarts < MaxRestarts
    /\ Unmapped
    /\ ended' = "crashed"
    /\ op' = [w \in Workers |-> Idle]
    /\ steady' = [w \in Workers |-> {}]
    /\ dirty' = [w \in Workers |-> {}]
    /\ clean' = {}
    /\ UNCHANGED <<file, stamp, clock, calls, bumps, gone, flaws>>

\* restore drops what expired meanwhile, and leaves an empty slot there.
Restored(e) == IF e.state = "live" /\ Expired(e, clock) THEN Empty ELSE e

\* The file is loaded if the same application is deployed.
Loads(st) == file.stamp = st

\* A boot, with application st deployed.  The file stays where it is.
Boot ==
    /\ ~up
    /\ \E st \in Stamps :
         /\ stamp' = st
         /\ IF Loads(st)
            THEN /\ slots' = [s \in Slots |-> Restored(file.slots[s])]
                 /\ tags' = file.tags
                 /\ flaws' = flaws
                      \cup (IF slots' = file.slots THEN {} ELSE {"hole"})
                      \cup (IF ended = "saved" THEN {} ELSE {"lapsed"})
            ELSE UNCHANGED <<memory, flaws>>
    /\ up' = TRUE
    /\ UNCHANGED <<op, file, restarts, ended, clock, calls, bumps, history>>

Tick ==
    /\ clock < MaxTime
    /\ clock' = clock + 1
    /\ UNCHANGED <<memory, op, disk, calls, bumps, history, flaws>>

Init ==
    /\ stamp \in Stamps
    /\ \E S \in Presets :
         slots = [s \in Slots |-> IF S[s].state = "live" THEN [S[s] EXCEPT !.by = stamp]
                                 ELSE S[s]]
    /\ tags \in TagPresets
    /\ op = [w \in Workers |-> Idle]
    /\ file = NoFile /\ up = TRUE /\ restarts = 0 /\ ended = None
    /\ clock = 1 /\ calls = 0
    /\ bumps = [t \in Tags |-> TagGen(t)]
    /\ steady = [w \in Workers |-> {}]
    /\ dirty = [w \in Workers |-> {}]
    /\ gone = {} /\ clean = {} /\ flaws = {}

Step(w) ==
    /\ w \in Busy
    /\ \/ GetSlot(w)
       \/ Snapshot(w) \/ StoreProbe(w) \/ StoreWrite(w)
       \/ PurgeSlot(w) \/ FlushSlot(w)
       \/ ForgetProbe(w) \/ ForgetBump(w) \/ ForgetClaim(w)
       \/ ForgetCreate(w) \/ ForgetEvict(w)
       \/ Die(w)

Next == Tick \/ Stop \/ Crash \/ Boot \/ \E w \in Workers : Start(w) \/ Step(w)

Spec == Init /\ [][Next]_vars

-----------------------------------------------------------------------------
\* Instant invalidation: once a tag is forgotten, no worker answers a request
\* with a response whose store had read the tag's generation before, not even
\* one that was still on its way into the table, or that a restart brought back.
\* Excepted are a tag that lost its slot to another, two forgets that race to
\* create their tag, and a boot that loads the file of an earlier stop.
ForgottenIsNotServed ==
    \A w \in Workers :
         Serves(w) /\ flaws \cap {"evicted", "race", "lapsed"} = {} =>
           \A t \in TagsOf(slots[At(op[w])]) : slots[At(op[w])].snap[t] = bumps[t]

\* A page that was purged, banned or flushed, while no store of it was under
\* way, is in no slot until it is stored again: not in the copy that racing
\* stores left elsewhere in the window, and not after a restart.
PurgedIsGone ==
    "lapsed" \notin flaws => \A k \in gone, s \in Slots : ~Holds(s, k)

\* A lookup misses only what is not there: as long as nothing was flushed or
\* dropped by a restore, an entry that was in the table from the start of the
\* lookup to its end is met, whatever is removed beside it meanwhile.
GetFindsSteadyEntries ==
    \A w \in Workers :
         /\ op[w].call = "get" /\ op'[w] = Idle /\ GetSlot(w)
         /\ ~Holds(At(op[w]), op[w].req.key)
         /\ "hole" \notin flaws
         => steady[w] = {}

\* A page has one entry: no store leaves an older response behind that comes to
\* light when the newer one expires, unless slots of the window changed while
\* the store probed it, or a flush or a restore had emptied one.
OneEntryPerPage ==
    flaws \cap {"hole", "overlap"} = {} =>
      \A r, s \in Slots : slots[r].state = "live" /\ Holds(s, slots[r].key) => r = s

\* A deploy does not bring the old release's pages back: what the table holds
\* was rendered by the release that is running, over any stops and crashes.
ReleaseOwnsEntries ==
    up => \A s \in Slots : slots[s].state = "live" => slots[s].by = stamp

\* What was forgotten, purged or rendered by an older release is not served again.
InvalidatedIsGone ==
    [][ForgottenIsNotServed /\ (PurgedIsGone /\ ReleaseOwnsEntries)']_vars

\* A page that was stored is found, and it is the newest one.
PagesAreFound == [][OneEntryPerPage' /\ GetFindsSteadyEntries]_vars

=============================================================================
