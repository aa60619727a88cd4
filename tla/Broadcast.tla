----------------------------- MODULE Broadcast ------------------------------
(***************************************************************************)
(* The bus behind askr_broadcast(): the ring in shared memory              *)
(* (crates/askr/src/broadcast.rs) or the table in SQL (broadcast_sql.rs),  *)
(* its publishers, and the task of one worker that tails it                *)
(* (server/mod.rs, run).                                                   *)
(*                                                                         *)
(* The ring is modelled store by store.  An event's payload is stood for   *)
(* by the sequence number it was published under; a slot's channel and     *)
(* payload, each with its length, are one word each.                       *)
(***************************************************************************)
EXTENDS Naturals, Sequences, FiniteSets

CONSTANTS
    Publishers,  \* threads that publish, in any process
    Channels,    \* channel names
    None,        \* no channel; a tailer that has not started
    Backends,    \* which bus to start with: "ring", "sql"
    RING_SLOTS,  \* 1024 in broadcast.rs
    BATCH,       \* rows per tail query, 256 in broadcast_sql.rs
    MaxSeq       \* bound: events published

\* What the constants must satisfy.
BroadcastAssumption ==
    /\ RING_SLOTS \in Nat \ {0} /\ BATCH \in Nat \ {0} /\ MaxSeq \in Nat
    /\ None \notin Channels
    /\ Backends \subseteq {"ring", "sql"}

VARIABLES
    backend,
    write_seq,  \* the ring's counter; the last AUTOINCREMENT of the table
    slots,      \* the ring's slots: commit marker, channel, payload
    pub,        \* per publisher: where it is, its number, channel and payload
    tail,       \* the tailer: where it is, last, and the locals of read_from
    batch,      \* events read and not yet delivered
    sent,       \* history: per number, the channel of the event published under it
    lapped,     \* history: numbers the tailer found overwritten, or fell a ring behind
    unseen,     \* history: numbers the tailer passed before their publisher committed
    clash       \* history: two publishers were inside one slot

busVars == <<backend, write_seq, slots, pub, tail, batch, sent, lapped, unseen, clash>>

NoSlot == [seq |-> 0, chan |-> None, payload |-> 0]
Idle == [pc |-> "idle", seq |-> 0, chan |-> None]
Tail0 == [pc |-> "starting", from |-> 0, last |-> 0, w |-> 0, s |-> 0,
          chan |-> None, payload |-> 0]

SlotOf(seq) == (seq - 1) % RING_SLOTS

BusInit ==
    /\ backend \in Backends
    /\ write_seq = 0
    /\ slots = [k \in 0..(RING_SLOTS - 1) |-> NoSlot]
    /\ pub = [p \in Publishers |-> Idle]
    /\ tail = Tail0
    /\ batch = <<>>
    /\ sent = <<>>
    /\ lapped = {} /\ unseen = {} /\ clash = FALSE

-----------------------------------------------------------------------------
(***************************************************************************)
(* publish                                                                 *)
(***************************************************************************)

Publishing(p, pc) == pub' = [pub EXCEPT ![p].pc = pc]
Store(p, slot) == slots' = [slots EXCEPT ![SlotOf(pub[p].seq)] = slot]
MySlot(p) == slots[SlotOf(pub[p].seq)]

\* Publishers that have begun to write p's slot.
Inside(seq) == {q \in Publishers : /\ pub[q].pc \in {"chan", "payload", "commit"}
                                   /\ SlotOf(pub[q].seq) = SlotOf(seq)}

\* fetch_add: the event has its number, and with it its slot.  (A name or a payload that
\* is too long for a slot is refused before.)
publish(p, c) ==
    /\ backend = "ring" /\ pub[p].pc = "idle" /\ write_seq < MaxSeq
    /\ write_seq' = write_seq + 1
    /\ pub' = [pub EXCEPT ![p] = [pc |-> "claim", seq |-> write_seq', chan |-> c]]
    /\ sent' = Append(sent, c)
    /\ UNCHANGED <<backend, slots, tail, batch, lapped, unseen, clash>>

\* The slot is marked as in progress.
PublishMarks(p) ==
    /\ pub[p].pc = "claim"
    /\ Store(p, [MySlot(p) EXCEPT !.seq = 0])
    /\ Publishing(p, "chan")
    /\ clash' = (clash \/ Inside(pub[p].seq) # {})
    /\ UNCHANGED <<backend, write_seq, tail, batch, sent, lapped, unseen>>

PublishChannel(p) ==
    /\ pub[p].pc = "chan"
    /\ Store(p, [MySlot(p) EXCEPT !.chan = pub[p].chan])
    /\ Publishing(p, "payload")
    /\ UNCHANGED <<backend, write_seq, tail, batch, sent, lapped, unseen, clash>>

PublishPayload(p) ==
    /\ pub[p].pc = "payload"
    /\ Store(p, [MySlot(p) EXCEPT !.payload = pub[p].seq])
    /\ Publishing(p, "commit")
    /\ UNCHANGED <<backend, write_seq, tail, batch, sent, lapped, unseen, clash>>

PublishCommits(p) ==
    /\ pub[p].pc = "commit"
    /\ Store(p, [MySlot(p) EXCEPT !.seq = pub[p].seq])
    /\ pub' = [pub EXCEPT ![p] = Idle]
    /\ UNCHANGED <<backend, write_seq, tail, batch, sent, lapped, unseen, clash>>

\* A publisher's process dies inside publish; what it stored stays.
PublisherDies(p) ==
    /\ pub[p].pc \notin {"idle", "dead"}
    /\ Publishing(p, "dead")
    /\ UNCHANGED <<backend, write_seq, slots, tail, batch, sent, lapped, unseen, clash>>

\* broadcast_sql: publish is one INSERT; one that fails publishes nothing.
do_publish(p, c) ==
    /\ backend = "sql" /\ write_seq < MaxSeq
    /\ write_seq' = write_seq + 1
    /\ sent' = Append(sent, c)
    /\ UNCHANGED <<backend, slots, pub, tail, batch, lapped, unseen, clash>>

-----------------------------------------------------------------------------
(***************************************************************************)
(* The tailer: current_seq once, then read_from every 50 ms.               *)
(***************************************************************************)

Started(last) == tail' = [tail EXCEPT !.pc = "sleep", !.last = last, !.from = last]

\* The task starts at the end of the log.
current_seq ==
    /\ backend = "ring" /\ tail.pc = "starting"
    /\ Started(write_seq)
    /\ UNCHANGED <<backend, write_seq, slots, pub, batch, sent, lapped, unseen, clash>>

\* broadcast_sql: a query that fails counts as 0, the start of the log.
do_current_seq ==
    /\ backend = "sql" /\ tail.pc = "starting"
    /\ Started(write_seq) \/ Started(0)
    /\ UNCHANGED <<backend, write_seq, slots, pub, batch, sent, lapped, unseen, clash>>

\* read_from, up to its loop: the counter, and the oldest event a ring still holds.
Oldest(last, w) == IF w > RING_SLOTS - 1 /\ w - (RING_SLOTS - 1) > last + 1
                   THEN w - (RING_SLOTS - 1) ELSE last + 1

read_from ==
    /\ backend = "ring" /\ tail.pc = "sleep" /\ batch = <<>>
    /\ write_seq > tail.last
    /\ LET start == Oldest(tail.last, write_seq)
       IN /\ tail' = [tail EXCEPT !.pc = "check", !.w = write_seq, !.s = start]
          /\ lapped' = lapped \cup ((tail.last + 1)..(start - 1))
    /\ UNCHANGED <<backend, write_seq, slots, pub, batch, sent, unseen, clash>>

\* The next number of the loop or, past w, the end of read_from.
Onwards == IF tail.s = tail.w
           THEN [Tail0 EXCEPT !.pc = "sleep", !.last = tail.w, !.from = tail.from]
           ELSE [tail EXCEPT !.pc = "check", !.s = @ + 1, !.chan = None, !.payload = 0]

\* Why a slot is passed over: it holds a later event, or this one is not there yet.
PassedOver == IF slots[SlotOf(tail.s)].seq > tail.s
              THEN lapped' = lapped \cup {tail.s} /\ UNCHANGED unseen
              ELSE unseen' = unseen \cup {tail.s} /\ UNCHANGED lapped

ReadMarker ==
    /\ tail.pc = "check"
    /\ IF slots[SlotOf(tail.s)].seq = tail.s
       THEN tail' = [tail EXCEPT !.pc = "chan"] /\ UNCHANGED <<lapped, unseen>>
       ELSE tail' = Onwards /\ PassedOver
    /\ UNCHANGED <<backend, write_seq, slots, pub, batch, sent, clash>>

ReadChannel ==
    /\ tail.pc = "chan"
    /\ tail' = [tail EXCEPT !.pc = "payload", !.chan = slots[SlotOf(tail.s)].chan]
    /\ UNCHANGED <<backend, write_seq, slots, pub, batch, sent, lapped, unseen, clash>>

ReadPayload ==
    /\ tail.pc = "payload"
    /\ tail' = [tail EXCEPT !.pc = "recheck", !.payload = slots[SlotOf(tail.s)].payload]
    /\ UNCHANGED <<backend, write_seq, slots, pub, batch, sent, lapped, unseen, clash>>

\* The copy is kept if the marker is still the event's.
ReadAgain ==
    /\ tail.pc = "recheck"
    /\ tail' = Onwards
    /\ IF slots[SlotOf(tail.s)].seq = tail.s
       THEN /\ batch' = Append(batch, [chan |-> tail.chan, payload |-> tail.payload])
            /\ UNCHANGED <<lapped, unseen>>
       ELSE PassedOver /\ UNCHANGED batch
    /\ UNCHANGED <<backend, write_seq, slots, pub, sent, clash>>

\* broadcast_sql: one SELECT, up to BATCH rows; one that fails moves nothing.
do_read_from ==
    /\ backend = "sql" /\ tail.pc = "sleep" /\ batch = <<>>
    /\ write_seq > tail.last
    /\ LET last == IF write_seq > tail.last + BATCH THEN tail.last + BATCH ELSE write_seq
       IN /\ batch' = [k \in 1..(last - tail.last) |->
                         [chan |-> sent[tail.last + k], payload |-> tail.last + k]]
          /\ tail' = [tail EXCEPT !.last = last]
    /\ UNCHANGED <<backend, write_seq, slots, pub, sent, lapped, unseen, clash>>

BusNext ==
    \/ \E p \in Publishers :
         \/ \E c \in Channels : publish(p, c) \/ do_publish(p, c)
         \/ PublishMarks(p) \/ PublishChannel(p) \/ PublishPayload(p)
         \/ PublishCommits(p) \/ PublisherDies(p)
    \/ current_seq \/ do_current_seq \/ read_from \/ do_read_from
    \/ ReadMarker \/ ReadChannel \/ ReadPayload \/ ReadAgain

=============================================================================
