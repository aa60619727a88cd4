----------------------------- MODULE Supervisor -----------------------------
(***************************************************************************)
(* The master process (crates/askr/src/supervisor.rs, prefork mode): its   *)
(* loop of reaping, refilling, the canary gate, memory recycling, queue    *)
(* autoscaling and the exit check, and the signal handlers that interrupt  *)
(* it between any two steps, also between a fork and the store of the new  *)
(* pid.                                                                    *)
(*                                                                         *)
(* A child is its state and the release it booted from: a reload follows a *)
(* deploy, so the number of reloads names the release.  Clocks are events: *)
(* a child leaves its boot seconds, the crash-loop window passes, the      *)
(* canary window passes (with it the wait for the replay, which            *)
(* verify::gate bounds).  The canary's numbers may give any verdict.       *)
(***************************************************************************)
EXTENDS Naturals, FiniteSets, FiniteSetsExt

CONSTANTS
    Web,           \* web workers
    QueueMin,      \* queue workers at boot
    QueueMax,      \* queue workers the autoscaler may reach
    Others,        \* scheduler and commands
    GiveUpAt,      \* boot failures that end the server: (workers * 3).max(10)
    MaxReloads,    \* bound: reloads
    MaxEvents      \* bound: reloads, children that end by themselves or are over the
                   \* memory limit, failed forks, changes of the queue workers' number

Count == Web + QueueMax + Others
Slots == 0 .. Count - 1
WebSlots == 0 .. Web - 1
IsQueue(i) == i \in Web .. Web + QueueMax - 1

ASSUME SupervisorAssumption ==
    /\ Web \in Nat \ {0} /\ QueueMin \in Nat /\ QueueMax \in Nat /\ QueueMin <= QueueMax
    /\ Others \in Nat /\ GiveUpAt \in Nat \ {0}
    /\ MaxReloads \in Nat /\ MaxEvents \in Nat

VARIABLES
    CHILDREN,         \* per slot, the child whose pid is stored there
    newborn,          \* the child that is forked and not stored yet
    orphans,          \* children whose pid was overwritten
    SHUTDOWN,
    RELOAD_CURSOR,    \* Count: not rolling
    CANARY_ENABLED,
    canary,           \* CANARY_ACTIVE and CANARY_DEADLINE: "off", "open" or "due"
    ROLLOUT_STATE,
    QUARANTINED,
    QUEUE_DESIRED,
    fastfail,         \* FASTFAIL_COUNT, and is FASTFAIL_WINDOW recent
    master,           \* where the loop is, and its local variables
    release,          \* reloads so far
    left,             \* bound: events to come
    passed,           \* history: this release was judged good enough to roll
    seen              \* history: what happened that the properties make an exception for

kids == <<CHILDREN, newborn, orphans>>
roll == <<RELOAD_CURSOR, canary, ROLLOUT_STATE, QUARANTINED>>
vars == <<kids, SHUTDOWN, roll, CANARY_ENABLED, QUEUE_DESIRED, fastfail, master, release,
          left, passed, seen>>

Nobody == [state |-> "none", rel |-> 0]
Child == [state : {"none", "boot", "up", "drain", "failed", "dead"}, rel : 0 .. MaxReloads]
Fork == [state |-> "boot", rel |-> release]

Ended == master.at \in {"exited", "gaveup"}
Events == {"exit", "recycle", "overlap", "unseen", "slow", "late", "orphan", "stale"}

TypeOK ==
    /\ CHILDREN \in [Slots -> Child] /\ newborn \in Child /\ orphans \in Nat
    /\ SHUTDOWN \in BOOLEAN /\ CANARY_ENABLED \in BOOLEAN /\ passed \in BOOLEAN
    /\ RELOAD_CURSOR \in 0 .. Count
    /\ canary \in {"off", "open", "due"}
    /\ ROLLOUT_STATE \in {"idle", "rolling", "ok", "aborted", "inconclusive"}
    /\ QUARANTINED \subseteq Slots
    /\ QUEUE_DESIRED \in QueueMin .. QueueMax
    /\ fastfail \in [count : Nat, recent : BOOLEAN]
    /\ fastfail.count < GiveUpAt \/ master.at = "gaveup"
    /\ master.at \in {"reap", "fork", "store", "roll", "refill", "gate", "verdict", "timers",
                      "scaling", "exited", "gaveup"}
    /\ release \in 0 .. MaxReloads /\ seen \subseteq Events

Init ==
    /\ QUEUE_DESIRED \in QueueMin .. QueueMax
    /\ CHILDREN = [i \in Slots |->
                      IF IsQueue(i) /\ i - Web >= QUEUE_DESIRED THEN Nobody
                      ELSE [state |-> "boot", rel |-> 0]]
    /\ newborn = Nobody /\ orphans = 0
    /\ SHUTDOWN = FALSE /\ RELOAD_CURSOR = Count /\ CANARY_ENABLED \in BOOLEAN
    /\ canary = "off" /\ ROLLOUT_STATE = "idle" /\ QUARANTINED = {}
    /\ fastfail = [count |-> 0, recent |-> FALSE]
    /\ master = [at |-> "reap", slot |-> 0, want |-> 0, verdict |-> "ok", back |-> "roll"]
    /\ release = 0
    /\ left = MaxEvents
    /\ passed = FALSE /\ seen = {}

Happens == left > 0 /\ left' = left - 1
Goto(at) == master' = [master EXCEPT !.at = at, !.slot = 0]
-----------------------------------------------------------------------------
\* Signals.

\* A SIGTERM to a child: it drains, or dies at once if it is still booting.
Signal(c) == IF c.state \in {"boot", "up"} THEN [c EXCEPT !.state = "drain"] ELSE c
SignalSlot(i) == [CHILDREN EXCEPT ![i] = Signal(CHILDREN[i])]

\* Fault: only the web workers are told.
KillWeb == [i \in Slots |-> IF i \in WebSlots THEN Signal(CHILDREN[i]) ELSE CHILDREN[i]]

kill_all == [i \in Slots |-> Signal(CHILDREN[i])]

\* The slots that roll_next finds occupied from the cursor on.
Ahead(cursor) == {i \in Slots : i >= cursor /\ CHILDREN[i] # Nobody}

\* Fault: every worker is told to drain at once.
RollAll(cursor) == RELOAD_CURSOR' = Count /\ CHILDREN' = kill_all

\* Fault: every other worker is passed over.
RollSkips(cursor) ==
    IF Ahead(cursor) = {}
    THEN RELOAD_CURSOR' = Count /\ UNCHANGED CHILDREN
    ELSE /\ RELOAD_CURSOR' = Min({Count, Min(Ahead(cursor)) + 2})
         /\ CHILDREN' = SignalSlot(Min(Ahead(cursor)))

roll_next(cursor) ==
    IF Ahead(cursor) = {}
    THEN RELOAD_CURSOR' = Count /\ UNCHANGED CHILDREN
    ELSE /\ RELOAD_CURSOR' = Min(Ahead(cursor)) + 1
         /\ CHILDREN' = SignalSlot(Min(Ahead(cursor)))

on_terminate ==
    /\ ~Ended
    /\ SHUTDOWN' = TRUE
    /\ CHILDREN' = kill_all
    /\ seen' = IF master.at = "store" THEN seen \cup {"late"} ELSE seen
    /\ UNCHANGED <<newborn, orphans, roll, CANARY_ENABLED, QUEUE_DESIRED, fastfail, master,
                   release, left, passed>>

\* What makes a reload overlap with what an earlier one still does.
Rolling ==
    \/ RELOAD_CURSOR < Count
    \/ master.at \in {"verdict", "roll"}
    \/ master.at \in {"fork", "store"} /\ master.back = "roll"
    \/ \E i \in Slots : CHILDREN[i].state \in {"drain", "dead", "failed"}

\* The canary is slot 0; the rest waits for the gate.
CanaryRollout ==
    /\ canary' = "open"
    /\ ROLLOUT_STATE' = "rolling"
    /\ QUARANTINED' = {}
    /\ CHILDREN' = SignalSlot(0)
    /\ UNCHANGED RELOAD_CURSOR

begin_reload ==
    /\ ~Ended
    /\ release < MaxReloads
    /\ Happens
    /\ release' = release + 1
    /\ passed' = FALSE
    /\ IF CANARY_ENABLED
       THEN CanaryRollout
       ELSE roll_next(0) /\ UNCHANGED <<canary, ROLLOUT_STATE, QUARANTINED>>
    /\ seen' = seen \cup (IF Rolling THEN {"overlap"} ELSE {})
                    \cup (IF master.at = "store" THEN {"unseen"} ELSE {})
    /\ UNCHANGED <<newborn, orphans, SHUTDOWN, CANARY_ENABLED, QUEUE_DESIRED, fastfail, master>>
-----------------------------------------------------------------------------
\* The loop: reaping.

Reaped == {i \in Slots : CHILDREN[i].state \in {"dead", "failed"}}

ReapNone ==
    /\ master.at = "reap" /\ Reaped = {}
    /\ Goto(IF SHUTDOWN THEN "gate" ELSE "refill")
    /\ UNCHANGED <<kids, SHUTDOWN, roll, CANARY_ENABLED, QUEUE_DESIRED, fastfail, release,
                   left, passed, seen>>

\* A queue worker outside the desired set is not replaced.
ScaledDown(i) == IsQueue(i) /\ i - Web >= QUEUE_DESIRED

\* The crash-loop guard.
Failures(c) ==
    IF c.state = "failed"
    THEN [count |-> IF fastfail.recent THEN fastfail.count + 1 ELSE 1, recent |-> TRUE]
    ELSE [fastfail EXCEPT !.count = 0]

GivesUp(n) == n >= GiveUpAt

Respawns(i) == i \notin QUARANTINED

Reap(i) ==
    /\ master.at = "reap" /\ i \in Reaped
    /\ UNCHANGED <<newborn, orphans, SHUTDOWN, roll, CANARY_ENABLED, QUEUE_DESIRED, release,
                   left, passed, seen>>
    /\ \/ /\ SHUTDOWN \/ ScaledDown(i)
          /\ CHILDREN' = [CHILDREN EXCEPT ![i] = Nobody]
          /\ UNCHANGED <<fastfail, master>>
       \/ /\ ~SHUTDOWN /\ ~ScaledDown(i)
          /\ fastfail' = Failures(CHILDREN[i])
          /\ IF CHILDREN[i].state = "failed" /\ fastfail.recent /\ GivesUp(fastfail'.count)
             THEN /\ CHILDREN' = [kill_all EXCEPT ![i] = Nobody]
                  /\ master' = [master EXCEPT !.at = "gaveup"]
             ELSE /\ CHILDREN' = [CHILDREN EXCEPT ![i] = Nobody]
                  /\ master' = IF Respawns(i)
                               THEN [master EXCEPT !.at = "fork", !.slot = i, !.back = "roll"]
                               ELSE master

\* A child nobody's slot names is reaped and forgotten.
ReapOrphan ==
    /\ master.at = "reap" /\ orphans > 0
    /\ orphans' = orphans - 1
    /\ UNCHANGED <<CHILDREN, newborn, SHUTDOWN, roll, CANARY_ENABLED, QUEUE_DESIRED, fastfail,
                   master, release, left, passed, seen>>
-----------------------------------------------------------------------------
\* The loop: spawn_slot, and where it returns to.

\* Where spawn_slot returns to.
Back ==
    CASE master.back = "roll" ->
             [master EXCEPT !.at = IF RELOAD_CURSOR < Count THEN "roll" ELSE "reap", !.slot = 0]
      [] OTHER -> [master EXCEPT !.at = master.back, !.slot = master.slot + 1, !.back = "roll"]

SpawnFork ==
    /\ master.at = "fork"
    /\ \/ /\ newborn' = Fork
          /\ master' = [master EXCEPT !.at = "store"]
          /\ seen' = IF SHUTDOWN THEN seen \cup {"late"} ELSE seen
          /\ UNCHANGED left
       \/ /\ Happens
          /\ master' = Back
          /\ seen' = IF CHILDREN[master.slot] # Nobody THEN seen \cup {"stale"} ELSE seen
          /\ UNCHANGED newborn
    /\ UNCHANGED <<CHILDREN, orphans, SHUTDOWN, roll, CANARY_ENABLED, QUEUE_DESIRED, fastfail,
                   release, passed>>

\* The store of the pid, over one that is still there if any.
SpawnStore ==
    /\ master.at = "store"
    /\ CHILDREN' = [CHILDREN EXCEPT ![master.slot] = newborn]
    /\ newborn' = Nobody
    /\ orphans' = orphans + IF CHILDREN[master.slot] # Nobody THEN 1 ELSE 0
    /\ seen' = IF CHILDREN[master.slot] # Nobody THEN seen \cup {"orphan"} ELSE seen
    /\ master' = Back
    /\ UNCHANGED <<SHUTDOWN, roll, CANARY_ENABLED, QUEUE_DESIRED, fastfail, release, left, passed>>

\* After a pause in which the new worker boots.
RollOn ==
    /\ master.at = "roll"
    /\ roll_next(RELOAD_CURSOR)
    /\ Goto("reap")
    /\ UNCHANGED <<newborn, orphans, SHUTDOWN, canary, ROLLOUT_STATE, QUARANTINED, CANARY_ENABLED,
                   QUEUE_DESIRED, fastfail, release, left, passed, seen>>

\* The empty web slots the refill has not looked at yet.
Vacant == {i \in WebSlots : i >= master.slot /\ CHILDREN[i] = Nobody /\ i \notin QUARANTINED}

Refill ==
    /\ master.at = "refill"
    /\ IF Vacant = {}
       THEN Goto("gate")
       ELSE master' = [master EXCEPT !.at = "fork", !.slot = Min(Vacant), !.back = "refill"]
    /\ UNCHANGED <<kids, SHUTDOWN, roll, CANARY_ENABLED, QUEUE_DESIRED, fastfail, release, left,
                   passed, seen>>
-----------------------------------------------------------------------------
\* The loop: the canary gate.

\* canary_verdict, with what verified reloads add to it.
Verdicts ==
    IF CHILDREN[0] = Nobody THEN {"aborted"} ELSE {"ok", "inconclusive", "aborted"}

Gate ==
    /\ master.at = "gate"
    /\ IF canary = "due"
       THEN /\ canary' = "off"
            /\ \E v \in Verdicts :
                   /\ master' = [master EXCEPT !.at = "verdict", !.verdict = v]
                   /\ passed' = (v # "aborted")
       ELSE Goto("timers") /\ UNCHANGED <<canary, passed>>
    /\ UNCHANGED <<kids, SHUTDOWN, RELOAD_CURSOR, ROLLOUT_STATE, QUARANTINED, CANARY_ENABLED,
                   QUEUE_DESIRED, fastfail, release, left, seen>>

\* Fault: an aborted rollout goes on.
RollsAlways(v) == TRUE

RollsOn(v) == v # "aborted"

\* The failed canary is drained and its slot kept empty, unless it is the only worker.
GateVerdict ==
    /\ master.at = "verdict"
    /\ ROLLOUT_STATE' = master.verdict
    /\ IF RollsOn(master.verdict)
       THEN roll_next(1) /\ UNCHANGED QUARANTINED
       ELSE /\ UNCHANGED RELOAD_CURSOR
            /\ IF Web > 1 /\ CHILDREN[0] # Nobody
               THEN QUARANTINED' = QUARANTINED \cup {0} /\ CHILDREN' = SignalSlot(0)
               ELSE UNCHANGED <<QUARANTINED, CHILDREN>>
    /\ master' = [master EXCEPT !.at = "timers", !.verdict = "ok"]
    /\ UNCHANGED <<newborn, orphans, SHUTDOWN, canary, CANARY_ENABLED, QUEUE_DESIRED, fastfail,
                   release, left, passed, seen>>
-----------------------------------------------------------------------------
\* The loop: memory recycling and queue autoscaling, which run once in some seconds,
\* so in any order over the passes of the loop; and the exit.

recycle_over_rss(i) ==
    /\ master.at = "timers" /\ i < Web + QueueMax
    /\ CHILDREN[i].state \in {"boot", "up"}
    /\ Happens
    /\ CHILDREN' = SignalSlot(i)
    /\ seen' = seen \cup {"recycle"}
    /\ UNCHANGED <<newborn, orphans, SHUTDOWN, roll, CANARY_ENABLED, QUEUE_DESIRED, fastfail,
                   master, release, passed>>

\* Fault: the queue worker that is one too many is not told.
ScaleDownSilent ==
    QUEUE_DESIRED' = QUEUE_DESIRED - 1 /\ UNCHANGED CHILDREN

ScaleDown ==
    /\ QUEUE_DESIRED' = QUEUE_DESIRED - 1
    /\ CHILDREN' = SignalSlot(Web + QUEUE_DESIRED - 1)

\* The backlog asks for `want` queue workers.
Scale(want) ==
    /\ master.at = "timers"
    /\ Happens
    /\ \/ /\ want > QUEUE_DESIRED
          /\ master' = [master EXCEPT !.at = "scaling", !.slot = Web + QUEUE_DESIRED,
                                      !.want = want]
          /\ UNCHANGED <<CHILDREN, QUEUE_DESIRED>>
       \/ want < QUEUE_DESIRED /\ ScaleDown /\ UNCHANGED master
    /\ UNCHANGED <<newborn, orphans, SHUTDOWN, roll, CANARY_ENABLED, fastfail, release, passed, seen>>

ScaleUp ==
    /\ master.at = "scaling"
    /\ IF master.slot < Web + master.want
       THEN /\ master' = [master EXCEPT !.at = "fork", !.back = "scaling"]
            /\ UNCHANGED QUEUE_DESIRED
       ELSE /\ QUEUE_DESIRED' = master.want
            /\ master' = [master EXCEPT !.at = "timers", !.slot = 0, !.want = 0]
    /\ UNCHANGED <<kids, SHUTDOWN, roll, CANARY_ENABLED, fastfail, release, left, passed, seen>>

AllReaped == \A i \in Slots : CHILDREN[i] = Nobody

ExitCheck ==
    /\ master.at = "timers"
    /\ Goto(IF SHUTDOWN /\ AllReaped THEN "exited" ELSE "reap")
    /\ UNCHANGED <<kids, SHUTDOWN, roll, CANARY_ENABLED, QUEUE_DESIRED, fastfail, release, left,
                   passed, seen>>
-----------------------------------------------------------------------------
\* The children and the clocks.

\* A child booted; one ended by itself (it recycled after its requests, crashed,
\* or failed to boot); one has drained.
Becomes(i, state) ==
    /\ CHILDREN' = [CHILDREN EXCEPT ![i].state = state]
    /\ UNCHANGED <<newborn, orphans, SHUTDOWN, roll, CANARY_ENABLED, QUEUE_DESIRED, fastfail,
                   master, release, passed>>

Boots(i) == CHILDREN[i].state = "boot" /\ Becomes(i, "up") /\ UNCHANGED <<left, seen>>

Exits(i) ==
    /\ CHILDREN[i].state \in {"boot", "up"}
    /\ Becomes(i, IF CHILDREN[i].state = "boot" THEN "failed" ELSE "dead")
    /\ Happens
    /\ seen' = seen \cup {"exit"}

Drains(i) == CHILDREN[i].state = "drain" /\ Becomes(i, "dead") /\ UNCHANGED <<left, seen>>

CanaryWindowEnds ==
    /\ canary = "open"
    /\ canary' = "due"
    /\ seen' = IF CHILDREN[0].rel < release /\ CHILDREN[0].state \in {"drain", "dead"}
               THEN seen \cup {"slow"} ELSE seen
    /\ UNCHANGED <<kids, SHUTDOWN, RELOAD_CURSOR, ROLLOUT_STATE, QUARANTINED, CANARY_ENABLED,
                   QUEUE_DESIRED, fastfail, master, release, left, passed>>

FailWindowEnds ==
    /\ fastfail.recent
    /\ fastfail' = [fastfail EXCEPT !.recent = FALSE]
    /\ UNCHANGED <<kids, SHUTDOWN, roll, CANARY_ENABLED, QUEUE_DESIRED, master, release, left,
                   passed, seen>>

Master ==
    \/ ReapNone \/ (\E i \in Slots : Reap(i)) \/ ReapOrphan
    \/ SpawnFork \/ SpawnStore \/ RollOn \/ Refill
    \/ Gate \/ GateVerdict \/ (\E i \in Slots : recycle_over_rss(i))
    \/ (\E want \in QueueMin .. QueueMax : Scale(want)) \/ ScaleUp \/ ExitCheck

Next ==
    \/ Master \/ on_terminate \/ begin_reload
    \/ \E i \in Slots : Boots(i) \/ Exits(i) \/ Drains(i)
    \/ CanaryWindowEnds \/ FailWindowEnds

\* The master's loop goes on, a child that was told to drain does so within its
\* deadline, and the canary window passes.
Fairness ==
    /\ WF_vars(Master)
    /\ \A i \in Slots : WF_vars(Drains(i))
    /\ WF_vars(CanaryWindowEnds)

Spec == Init /\ [][Next]_vars /\ Fairness
-----------------------------------------------------------------------------
\* A rolling reload drains one web worker at a time, so that the others go on
\* accepting (roll_next).  Exceptions: a worker that ends by itself or is recycled
\* during the roll and a reload during a roll, which roll one more; an old canary that
\* still drains when the gate lets the roll go on; and a queue worker that the autoscaler
\* let go and, as a fork failed, wants again, whose end is then taken for one of the roll.
RollIsOneByOne ==
    seen \cap {"exit", "recycle", "overlap", "slow", "stale"} = {} /\ ~SHUTDOWN =>
        Cardinality({i \in WebSlots : CHILDREN[i].state = "drain"}) <= 1

\* With the canary gate on, the roll moves past the canary only after a verdict that
\* lets it, given to this release (begin_reload and the gate).  Exception: a reload
\* during a roll, which the old cursor carries on.
PassedBeforeRoll ==
    CANARY_ENABLED /\ RELOAD_CURSOR' # RELOAD_CURSOR /\ "overlap" \notin seen' => passed'

\* The worker that is judged runs the release that is rolled out.  Exceptions: the old
\* worker drains for longer than the window, or its fork was not stored yet when the
\* reload came.
CanaryIsNew ==
    (master.at = "verdict" /\ passed /\ seen \cap {"slow", "unseen", "overlap"} = {}) =>
        CHILDREN[0].rel = release

\* A failed canary's slot serves nobody until the next reload (QUARANTINED), whatever
\* the reaper, the refill and the recycling do meanwhile.
QuarantineHolds ==
    \A i \in QUARANTINED : CHILDREN[i].state \notin {"boot", "up"}

\* The canary gate: only a verdict on the new release lets the roll go on, and a
\* canary that failed serves nobody.
GateHolds == [][PassedBeforeRoll /\ (CanaryIsNew /\ QuarantineHolds)']_vars

\* A child that was not told to stop is never forgotten: whatever store replaces a pid,
\* the child it named is on its way out, so kill_all reaches every child that serves.
StoreForgetsNobody ==
    master.at = "store" => CHILDREN[master.slot].state \notin {"boot", "up"}

\* When the master leaves its loop to save the cache, no child is left.  Exception: a
\* queue worker whose pid the autoscaler overwrote while it drained.
ExitIsQuiet ==
    master.at = "exited" /\ "orphan" \notin seen =>
        /\ newborn = Nobody /\ orphans = 0
        /\ \A i \in Slots : CHILDREN[i] = Nobody

\* The master knows its children: it forgets none that serves when it stores a pid, and
\* none at all when it exits.
NoChildIsForgotten == StoreForgetsNobody /\ ExitIsQuiet

\* A stop ends: on_terminate reaches every child, and the loop reaps them all.
\* Exception: a child forked during or after the signal.
ShutdownEnds == SHUTDOWN ~> (Ended \/ "late" \in seen)

\* What the comments on on_terminate and on the refill say: no child is started in a
\* shutdown, so the master exits.
MasterExits == SHUTDOWN ~> Ended

\* A reload reaches every web worker whose slot is not quarantined, also when the
\* next one comes before it is done, unless the gate aborts it or the server stops
\* (roll_next after each respawn).  Exception: a child that was
\* forked and not stored when the reload came.
ReloadArrives ==
    release > 0 ~>
        \/ \A i \in WebSlots \ QUARANTINED : CHILDREN[i] # Nobody /\ CHILDREN[i].rel = release
        \/ SHUTDOWN \/ Ended \/ ROLLOUT_STATE = "aborted" \/ "unseen" \in seen

\* Empty web slots are all filled again, also after a fork failed (the refill).
WebSlotsAreRefilled ==
    (\E i \in WebSlots : CHILDREN[i] = Nobody) ~>
        ((\A i \in WebSlots \ QUARANTINED : CHILDREN[i] # Nobody) \/ SHUTDOWN \/ Ended)

\* A reload brings the new release to every web slot, and no web slot stays empty.
ReloadReachesEveryWorker == ReloadArrives /\ WebSlotsAreRefilled

=============================================================================
