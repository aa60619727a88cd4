-------------------------- MODULE SupervisorProofs --------------------------
(***************************************************************************)
(* Proofs about the master, for any number of workers, reloads and events: *)
(* it forgets no child, its canary gate holds, and a rolling reload drains *)
(* one web worker at a time.                                               *)
(***************************************************************************)
EXTENDS Supervisor, FiniteSetTheorems, WellFoundedInduction, TLAPS

\* A leaf that names no prover is tried with Zenon.
USE ZenonT(40)

Places == {"reap", "fork", "store", "roll", "refill", "gate", "verdict", "timers",
           "scaling", "exited", "gaveup"}

KidTypes ==
    /\ CHILDREN \in [Slots -> Child] /\ newborn \in Child
    /\ \A i \in Slots : CHILDREN[i].state = "none" => CHILDREN[i] = Nobody
    /\ \A i \in Slots : CHILDREN[i].rel <= release
    /\ newborn.rel <= release
    /\ release \in 0 .. MaxReloads
    /\ orphans \in Nat

LoopTypes ==
    /\ DOMAIN master = {"at", "slot", "want", "verdict", "back"}
    /\ master.at \in Places /\ master.slot \in Nat
    /\ master.back \in {"roll", "refill", "scaling"}
    /\ QUEUE_DESIRED \in QueueMin .. QueueMax
    /\ canary \in {"off", "open", "due"}

\* The autoscaler adds workers, one slot after the other; the slots it has been at
\* count as desired although QUEUE_DESIRED is stored at the end.
Forking == master.at \in {"fork", "store"}
Scaling == master.at = "scaling" \/ (Forking /\ master.back = "scaling")
Desired == IF Scaling THEN master.slot - Web ELSE QUEUE_DESIRED
LetGo(i) == IsQueue(i) /\ i - Web >= Desired

Serves(c) == c.state \in {"boot", "up"}

\* What spawn_slot is called for: a slot in which nobody serves.
LoopInv ==
    /\ Forking =>
         /\ master.slot \in Slots \ QUARANTINED
         /\ ~Serves(CHILDREN[master.slot])
         /\ master.back # "scaling" =>
              ~(IsQueue(master.slot) /\ master.slot - Web >= QUEUE_DESIRED)
    /\ Scaling =>
         /\ master.want \in QueueMin .. QueueMax
         /\ Web + QUEUE_DESIRED <= master.slot /\ master.slot <= Web + master.want
         /\ Forking => master.slot < Web + master.want
    /\ \A i \in Slots : LetGo(i) => ~Serves(CHILDREN[i])
    /\ IF master.at = "store"
       THEN newborn.state = "boot" /\ ("unseen" \notin seen => newborn.rel = release)
       ELSE newborn = Nobody
    /\ master.at = "exited" => \A i \in Slots : CHILDREN[i] = Nobody
    /\ QUARANTINED \subseteq {0}
    /\ \A i \in QUARANTINED : ~Serves(CHILDREN[i])
    /\ "orphan" \notin seen => orphans = 0

\* The canary: while it is judged nothing rolls, and it is judged as the new release.
GateInv ==
    /\ canary # "off" => CANARY_ENABLED
    /\ CANARY_ENABLED /\ "overlap" \notin seen =>
         /\ RELOAD_CURSOR < Count => passed /\ canary = "off"
         /\ master.at = "roll" => RELOAD_CURSOR < Count
         /\ master.at = "verdict" =>
              canary = "off" /\ (master.verdict # "aborted" => passed)
    /\ seen \cap {"slow", "unseen", "overlap"} = {} =>
         /\ canary # "off" =>
              \/ CHILDREN[0] = Nobody \/ CHILDREN[0].rel = release
              \/ canary = "open" /\ CHILDREN[0].state \in {"drain", "dead"}
         /\ master.at = "verdict" /\ passed => CHILDREN[0].rel = release

\* The children that leave and will be replaced.
Leaving == {i \in Slots : CHILDREN[i].state \in {"drain", "dead"} /\ ~LetGo(i)}

Undisturbed == seen \cap {"exit", "recycle", "overlap", "slow", "stale"} = {} /\ ~SHUTDOWN

RollInv ==
    Undisturbed =>
      /\ \A i, j \in Leaving : i = j
      /\ \/ master.at \in {"roll", "verdict"} \/ (Forking /\ master.back = "roll")
         \/ canary = "due"
         => Leaving = {}
      /\ canary = "open" => \A i \in Leaving : i = 0 /\ CHILDREN[0].rel < release
      /\ \A i \in Slots : CHILDREN[i].state # "failed"

Inv == KidTypes /\ LoopTypes /\ LoopInv /\ GateInv /\ RollInv

-----------------------------------------------------------------------------
(***************************************************************************)
(* Lemmas about the operators.                                             *)
(***************************************************************************)

\* The least of a set of slots is one of them.
LEMMA MinIn ==
    ASSUME NEW S \in SUBSET Nat, S # {}
    PROVE  Min(S) \in S
  <1>1. \E x \in S : \A y \in S : ~(<<y, x>> \in OpToRel(<, Nat))
    BY WFMin, NatLessThanWellFounded
  <1>2. \E x \in S : \A y \in S : ~(y < x)
    BY <1>1 DEF OpToRel
  <1>3. \E x \in S : \A y \in S : x =< y
    BY <1>2, SMTT(40)
  <1> QED
    BY <1>3 DEF Min

\* The slots are 0 .. Count - 1, the web slots first; slot 0, the canary's, is a web
\* slot.
LEMMA SlotFacts ==
    /\ Count \in Nat \ {0} /\ 0 \in Slots /\ WebSlots \subseteq Slots /\ Slots \subseteq Nat
    /\ \A i \in Slots : IsQueue(i) <=> Web <= i /\ i < Web + QueueMax
    /\ ~IsQueue(0)
  BY SupervisorAssumption, SMTT(40) DEF Count, Slots, WebSlots, IsQueue

\* A signal makes a child that serves drain, and does nothing to any other.
LEMMA SignalFacts ==
    ASSUME NEW c \in Child
    PROVE  /\ Signal(c) \in Child /\ Signal(c).rel = c.rel
           /\ \/ Signal(c) = c /\ ~Serves(c)
              \/ Serves(c) /\ Signal(c).state = "drain"
  BY DEF Signal, Child, Serves

\* What a step does to the children that tells those of S to drain.
OnlyTold(S) ==
    /\ CHILDREN' \in [Slots -> Child]
    /\ \A i \in Slots :
         /\ CHILDREN'[i].rel = CHILDREN[i].rel
         /\ \/ CHILDREN'[i] = CHILDREN[i]
            \/ i \in S /\ Serves(CHILDREN[i]) /\ CHILDREN'[i].state = "drain"
         /\ i \in S => ~Serves(CHILDREN'[i])

\* SignalSlot tells one slot.
LEMMA SlotTold ==
    ASSUME KidTypes, NEW i, CHILDREN' = SignalSlot(i)
    PROVE  OnlyTold({i})
  <1> SUFFICES ASSUME NEW j \in Slots
               PROVE  /\ CHILDREN'[j] = IF j = i THEN Signal(CHILDREN[j]) ELSE CHILDREN[j]
                      /\ CHILDREN[j] \in Child
    <2>1. ASSUME NEW j \in Slots
          PROVE  /\ CHILDREN'[j].rel = CHILDREN[j].rel /\ CHILDREN'[j] \in Child
                 /\ \/ CHILDREN'[j] = CHILDREN[j]
                    \/ j = i /\ Serves(CHILDREN[j]) /\ CHILDREN'[j].state = "drain"
                 /\ j = i => ~Serves(CHILDREN'[j])
      BY SignalFacts, SMTT(40) DEF Serves
    <2>2. DOMAIN CHILDREN' = Slots /\ CHILDREN' = [j \in Slots |-> CHILDREN'[j]]
      BY DEF KidTypes, SignalSlot
    <2> QED
      BY <2>1, <2>2 DEF OnlyTold
  <1> QED
    BY DEF KidTypes, SignalSlot

\* kill_all tells every slot.
LEMMA AllTold ==
    ASSUME KidTypes, CHILDREN' = kill_all
    PROVE  OnlyTold(Slots)
  <1>1. \A j \in Slots : CHILDREN'[j] = Signal(CHILDREN[j]) /\ CHILDREN[j] \in Child
    BY DEF KidTypes, kill_all
  <1>2. \A j \in Slots :
          /\ CHILDREN'[j].rel = CHILDREN[j].rel /\ CHILDREN'[j] \in Child
          /\ \/ CHILDREN'[j] = CHILDREN[j]
             \/ Serves(CHILDREN[j]) /\ CHILDREN'[j].state = "drain"
          /\ ~Serves(CHILDREN'[j])
    BY <1>1, SignalFacts DEF Serves
  <1>3. CHILDREN' = [j \in Slots |-> CHILDREN'[j]]
    BY DEF kill_all
  <1> QED
    BY <1>2, <1>3 DEF OnlyTold

\* A step that leaves the table alone tells nobody.
LEMMA NoneTold ==
    ASSUME KidTypes, CHILDREN' = CHILDREN
    PROVE  OnlyTold({})
  BY DEF KidTypes, OnlyTold

\* roll_next tells at most one slot.
LEMMA RollTold ==
    ASSUME KidTypes, NEW cursor, roll_next(cursor)
    PROVE  \E i : OnlyTold({i})
  <1>1. CASE Ahead(cursor) = {}
    <2>1. OnlyTold({})
      BY <1>1, NoneTold DEF roll_next
    <2>2. OnlyTold({Count})
      BY <2>1, SlotFacts, SMTT(40) DEF OnlyTold, Slots
    <2> QED
      BY <2>2
  <1>2. CASE Ahead(cursor) # {}
    BY <1>2, SlotTold DEF roll_next
  <1> QED
    BY <1>1, <1>2

\* Signals keep the table well formed.
LEMMA KidsTold ==
    ASSUME KidTypes, NEW S, OnlyTold(S), UNCHANGED <<newborn, orphans>>,
           release' \in 0 .. MaxReloads, release <= release'
    PROVE  KidTypes'
  <1>1. \A i \in Slots : CHILDREN'[i].rel <= release'
    BY SMTT(40) DEF KidTypes, OnlyTold, Child
  <1>2. \A i \in Slots : CHILDREN'[i].state = "none" => CHILDREN'[i] = Nobody
    BY DEF KidTypes, OnlyTold
  <1>3. newborn'.rel <= release'
    BY SMTT(40) DEF KidTypes, Child
  <1> QED
    BY <1>1, <1>2, <1>3 DEF KidTypes, OnlyTold

\* Only a slot that is told starts to leave.
LEMMA LeavingTold ==
    ASSUME NEW S, OnlyTold(S), Desired' = Desired
    PROVE  /\ \A i \in Leaving' : i \in Leaving \/ i \in S
           /\ \A i \in Leaving' : i \in Slots
  BY DEF OnlyTold, Leaving, LetGo

\* Signals leave the loop's claims alone.
LEMMA LoopTold ==
    ASSUME Inv, NEW S, OnlyTold(S), UNCHANGED <<newborn, orphans, master, QUEUE_DESIRED>>,
           "orphan" \in seen => "orphan" \in seen',
           "unseen" \notin seen' => "unseen" \notin seen /\ (master.at = "store" => release' = release),
           QUARANTINED' \subseteq {0},
           \A i \in QUARANTINED' : i \in QUARANTINED \/ (i \in S /\ ~Forking)
    PROVE  LoopInv' /\ Desired' = Desired
  <1>1. /\ Forking' = Forking /\ Scaling' = Scaling /\ Desired' = Desired
        /\ \A i : LetGo(i)' <=> LetGo(i)
    BY DEF Forking, Scaling, Desired, LetGo
  <1>2. \A i \in Slots : ~Serves(CHILDREN[i]) => CHILDREN'[i] = CHILDREN[i]
    BY DEF OnlyTold
  <1>3. \A i \in Slots : ~Serves(CHILDREN[i]) => ~Serves(CHILDREN'[i])
    BY <1>2
  <1>4. \A i \in QUARANTINED' : ~Serves(CHILDREN'[i])
    BY <1>3, SlotFacts DEF Inv, LoopInv, OnlyTold
  <1>5. Forking' =>
         /\ master'.slot \in Slots \ QUARANTINED'
         /\ ~Serves(CHILDREN'[master'.slot])
         /\ master'.back # "scaling" =>
              ~(IsQueue(master'.slot) /\ master'.slot - Web >= QUEUE_DESIRED')
    BY <1>1, <1>3 DEF Inv, LoopInv
  <1>6. \A i \in Slots : LetGo(i)' => ~Serves(CHILDREN'[i])
    BY <1>1, <1>3 DEF Inv, LoopInv
  <1>7. master'.at = "exited" => \A i \in Slots : CHILDREN'[i] = Nobody
    BY <1>2, SMTT(40) DEF Inv, LoopInv, Serves, Nobody
  <1>8. IF master'.at = "store"
        THEN newborn'.state = "boot" /\ ("unseen" \notin seen' => newborn'.rel = release')
        ELSE newborn' = Nobody
    BY DEF Inv, LoopInv
  <1>9. Scaling' =>
         /\ master'.want \in QueueMin .. QueueMax
         /\ Web + QUEUE_DESIRED' <= master'.slot /\ master'.slot <= Web + master'.want
         /\ Forking' => master'.slot < Web + master'.want
    BY <1>1 DEF Inv, LoopInv
  <1>10. "orphan" \notin seen' => orphans' = 0
    BY DEF Inv, LoopInv
  <1> QED
    BY <1>1, <1>4, <1>5, <1>6, <1>7, <1>8, <1>9, <1>10 DEF LoopInv, Serves, LetGo

\* Signals leave the gate's claims alone.
LEMMA GateTold ==
    ASSUME Inv, NEW S, OnlyTold(S), seen \subseteq seen',
           UNCHANGED <<master, RELOAD_CURSOR, canary, CANARY_ENABLED, release, passed>>
    PROVE  GateInv'
  <1> USE DEF Inv
  <1>1. CHILDREN[0] = Nobody => CHILDREN'[0] = Nobody
    BY SlotFacts, SMTT(40) DEF OnlyTold, Serves, Nobody
  <1>2. CHILDREN[0].rel = CHILDREN'[0].rel
    BY SlotFacts DEF OnlyTold
  <1>3. CHILDREN[0].state \in {"drain", "dead"} => CHILDREN'[0] = CHILDREN[0]
    BY SlotFacts DEF OnlyTold, Serves
  <1> QED
    BY <1>1, <1>2, <1>3 DEF GateInv

\* The loop moves on as it sends a signal.
LEMMA LoopToldMoves ==
    ASSUME Inv, NEW S, OnlyTold(S), UNCHANGED <<newborn, orphans, QUEUE_DESIRED, seen>>,
           master.at \in {"roll", "verdict"}, master'.at \in {"reap", "timers"},
           QUARANTINED' \subseteq {0},
           \A i \in QUARANTINED' : i \in QUARANTINED \/ i \in S
    PROVE  LoopInv' /\ Desired' = Desired
  <1>1. /\ ~Forking /\ ~Forking' /\ ~Scaling /\ ~Scaling' /\ Desired' = Desired
        /\ \A i : LetGo(i)' <=> LetGo(i)
    BY DEF Forking, Scaling, Desired, LetGo
  <1>2. \A i \in Slots : ~Serves(CHILDREN[i]) => ~Serves(CHILDREN'[i])
    BY DEF OnlyTold
  <1>3. \A i \in QUARANTINED' : ~Serves(CHILDREN'[i])
    BY <1>2, SlotFacts DEF Inv, LoopInv, OnlyTold
  <1>4. \A i \in Slots : LetGo(i)' => ~Serves(CHILDREN'[i])
    BY <1>1, <1>2 DEF Inv, LoopInv
  <1> QED
    BY <1>1, <1>3, <1>4 DEF Inv, LoopInv, Serves, LetGo

-----------------------------------------------------------------------------
(***************************************************************************)
(* The invariant holds initially, and the signals keep it.                 *)
(***************************************************************************)

\* The invariant holds once the master has forked its first children.
LEMMA InvInit == Init => Inv
  <1> SUFFICES ASSUME Init
               PROVE  Inv
    OBVIOUS
  <1>1. \A i \in Slots : CHILDREN[i] = IF IsQueue(i) /\ i - Web >= QUEUE_DESIRED THEN Nobody
                                       ELSE [state |-> "boot", rel |-> 0]
    BY DEF Init
  <1>2. KidTypes
    BY <1>1, SupervisorAssumption, SMTT(40) DEF Init, KidTypes, Child, Nobody
  <1>3. LoopTypes
    BY DEF Init, LoopTypes, Places
  <1>4. ~Forking /\ ~Scaling /\ Desired = QUEUE_DESIRED
    BY DEF Init, Forking, Scaling, Desired
  <1>5. LoopInv
    BY <1>1, <1>4 DEF Init, LoopInv, LetGo, Serves, Nobody
  <1>6. GateInv
    BY SlotFacts, SMTT(40) DEF Init, GateInv
  <1>7. RollInv
    BY <1>1 DEF Init, RollInv, Leaving, Nobody, Forking
  <1> QED
    BY <1>2, <1>3, <1>5, <1>6, <1>7 DEF Inv

\* on_terminate keeps the invariant.
LEMMA TerminateStep ==
    ASSUME Inv, on_terminate
    PROVE  Inv'
  <1> USE DEF Inv
  <1>1. /\ OnlyTold(Slots) /\ SHUTDOWN' = TRUE
        /\ UNCHANGED <<newborn, orphans, RELOAD_CURSOR, canary, QUARANTINED, CANARY_ENABLED,
                       QUEUE_DESIRED, master, release, passed>>
        /\ seen \subseteq seen' /\ seen' \subseteq seen \cup {"late"}
    BY AllTold DEF on_terminate, roll
  <1>2. KidTypes' /\ LoopTypes'
    BY <1>1, KidsTold, SMTT(40) DEF LoopTypes, KidTypes
  <1>3. LoopInv'
    BY <1>1, LoopTold DEF LoopInv
  <1>4. GateInv'
    BY <1>1, GateTold
  <1>5. RollInv'
    BY <1>1 DEF RollInv, Undisturbed
  <1> QED
    BY <1>2, <1>3, <1>4, <1>5

\* begin_reload keeps the invariant: a roll starts with its first slot or with the
\* canary.
LEMMA ReloadStep ==
    ASSUME Inv, begin_reload
    PROVE  Inv'
  <1> USE DEF Inv
  <1>1. /\ UNCHANGED <<newborn, orphans, SHUTDOWN, CANARY_ENABLED, QUEUE_DESIRED, master>>
        /\ release' = release + 1 /\ release' \in 0 .. MaxReloads /\ passed' = FALSE
        /\ seen \subseteq seen' /\ seen' \subseteq seen \cup {"overlap", "unseen"}
        /\ Rolling => "overlap" \in seen'
        /\ master.at = "store" => "unseen" \in seen'
    <2>1. release' = release + 1 /\ release < MaxReloads /\ release \in 0 .. MaxReloads
      BY DEF begin_reload, KidTypes
    <2>2. release' \in 0 .. MaxReloads
      BY <2>1, SupervisorAssumption, SMTT(40)
    <2> HIDE DEF Inv
    <2>3. seen' = seen \cup (IF Rolling THEN {"overlap"} ELSE {})
                       \cup (IF master.at = "store" THEN {"unseen"} ELSE {})
      BY DEF begin_reload
    <2>4. /\ seen \subseteq seen' /\ seen' \subseteq seen \cup {"overlap", "unseen"}
          /\ Rolling => "overlap" \in seen'
          /\ master.at = "store" => "unseen" \in seen'
      BY <2>3
    <2> QED
      BY <2>1, <2>2, <2>4 DEF begin_reload
  <1>2. PICK i : /\ OnlyTold({i})
                 /\ IF CANARY_ENABLED
                    THEN i = 0 /\ canary' = "open" /\ QUARANTINED' = {}
                         /\ RELOAD_CURSOR' = RELOAD_CURSOR
                    ELSE canary' = canary /\ QUARANTINED' = QUARANTINED
    <2>1. CASE CANARY_ENABLED
      BY <2>1, SlotTold DEF begin_reload, CanaryRollout
    <2>2. CASE ~CANARY_ENABLED
      BY <2>2, RollTold DEF begin_reload
    <2> QED
      BY <2>1, <2>2
  <1>3. KidTypes' /\ LoopTypes'
    BY <1>1, <1>2, KidsTold, SMTT(40) DEF LoopTypes, KidTypes
  <1>4. LoopInv' /\ Desired' = Desired
    BY <1>1, <1>2, LoopTold DEF LoopInv
  <1>5. ~Rolling => \A j \in Slots : CHILDREN[j].state \in {"none", "boot", "up"}
    BY DEF Rolling, KidTypes, Child
  <1>6. GateInv'
    <2>1. CASE CANARY_ENABLED
      <3>1. ~Rolling => CHILDREN'[0] = Nobody \/ CHILDREN'[0].state = "drain"
        <4>1. CHILDREN[0].state = "none" => CHILDREN[0] = Nobody
          BY SlotFacts DEF KidTypes
        <4>2. ~Rolling => CHILDREN[0] = Nobody \/ Serves(CHILDREN[0])
          BY <1>5, <4>1, SlotFacts DEF Serves
        <4>3. CHILDREN[0] = Nobody => CHILDREN'[0] = Nobody
          BY <1>2, SlotFacts, SMTT(40) DEF OnlyTold, Serves, Nobody
        <4>4. Serves(CHILDREN[0]) => CHILDREN'[0].state = "drain"
          BY <1>2, <2>1, SlotFacts DEF OnlyTold
        <4> QED
          BY <4>2, <4>3, <4>4
      <3> QED
        BY <1>1, <1>2, <2>1, <3>1 DEF GateInv, Rolling
    <2>2. CASE ~CANARY_ENABLED
      BY <1>1, <1>2, <2>2 DEF GateInv, Rolling
    <2> QED
      BY <2>1, <2>2
  <1>7. RollInv'
    <2> SUFFICES ASSUME Undisturbed'
                 PROVE  RollInv'
      BY DEF RollInv
    <2>1. ~Rolling /\ Undisturbed
      BY <1>1 DEF Undisturbed
    <2>2. \A j \in Leaving' : j = i /\ j \in Slots
      BY <1>2, <1>4, <1>5, <2>1, LeavingTold, SMTT(40) DEF Leaving
    <2>3. /\ master'.at \notin {"roll", "verdict"} /\ ~(Forking' /\ master'.back = "roll")
          /\ canary' # "due"
      BY <1>1, <1>2, <2>1 DEF Rolling, Forking, GateInv
    <2>4. canary' = "open" => \A j \in Leaving' : j = 0 /\ CHILDREN'[0].rel < release'
      <3>1. canary' = "open" => i = 0
        BY <1>2 DEF GateInv
      <3>2. CHILDREN'[0].rel = CHILDREN[0].rel /\ CHILDREN[0].rel \in Nat
            /\ CHILDREN[0].rel <= release /\ release \in Nat
        BY <1>2, SlotFacts, SMTT(40) DEF OnlyTold, KidTypes, Child
      <3> QED
        BY <1>1, <2>2, <3>1, <3>2, SMTT(40)
    <2>5. \A j \in Slots : CHILDREN'[j].state # "failed"
      BY <1>2, <1>5, <2>1 DEF OnlyTold
    <2> QED
      BY <2>2, <2>3, <2>4, <2>5 DEF RollInv
  <1> QED
    BY <1>3, <1>4, <1>6, <1>7

-----------------------------------------------------------------------------
(***************************************************************************)
(* The master's loop keeps the invariant.                                  *)
(***************************************************************************)

\* A step that moves the loop only, between places that claim nothing.
LEMMA MoveStep ==
    ASSUME Inv, UNCHANGED <<kids, SHUTDOWN, RELOAD_CURSOR, canary, QUARANTINED,
                            CANARY_ENABLED, QUEUE_DESIRED, release, passed, seen>>,
           NEW at \in {"reap", "refill", "gate", "timers", "exited"}, Goto(at),
           master.at \notin {"fork", "store", "scaling"},
           at = "exited" => AllReaped
    PROVE  Inv'
  <1> USE DEF Inv, kids
  <1>1. /\ DOMAIN master' = {"at", "slot", "want", "verdict", "back"}
        /\ master'.at = at /\ master'.slot = 0 /\ master'.back = master.back
    BY DEF Goto, LoopTypes
  <1>2. /\ ~Forking /\ ~Forking' /\ ~Scaling /\ ~Scaling' /\ Desired' = Desired
        /\ \A i : LetGo(i)' <=> LetGo(i)
    BY <1>1 DEF Forking, Scaling, Desired, LetGo
  <1>3. KidTypes' /\ LoopTypes'
    BY <1>1, SMTT(40) DEF KidTypes, LoopTypes, Places
  <1>4. LoopInv'
    BY <1>1, <1>2 DEF LoopInv, AllReaped
  <1>5. GateInv'
    BY <1>1 DEF GateInv
  <1>6. RollInv'
    <2>1. Leaving' = Leaving /\ Undisturbed' = Undisturbed
      BY <1>2 DEF Leaving, Undisturbed
    <2> QED
      BY <1>1, <1>2, <2>1 DEF RollInv
  <1> QED
    BY <1>3, <1>4, <1>5, <1>6

\* A reap loop that finds nothing more moves on.
LEMMA ReapNoneStep ==
    ASSUME Inv, ReapNone
    PROVE  Inv'
  <1>1. PICK at \in {"gate", "refill"} : Goto(at)
    BY DEF ReapNone
  <1> QED
    BY <1>1, MoveStep DEF ReapNone, roll

\* The master exits only when every child is reaped.
LEMMA ExitCheckStep ==
    ASSUME Inv, ExitCheck
    PROVE  Inv'
  <1>1. PICK at \in {"exited", "reap"} : Goto(at) /\ (at = "exited" => AllReaped)
    BY DEF ExitCheck
  <1> QED
    BY <1>1, MoveStep DEF ExitCheck, roll

\* Reaping a child no slot names keeps the invariant.
LEMMA ReapOrphanStep ==
    ASSUME Inv, ReapOrphan
    PROVE  Inv'
  <1> USE DEF Inv, roll
  <1>1. /\ UNCHANGED <<CHILDREN, newborn, SHUTDOWN, roll, CANARY_ENABLED, QUEUE_DESIRED,
                       master, release, passed, seen>>
        /\ orphans > 0 /\ orphans' = orphans - 1
    BY DEF ReapOrphan
  <1>2. Forking' = Forking /\ Scaling' = Scaling /\ Desired' = Desired
    BY <1>1 DEF Forking, Scaling, Desired
  <1>3. KidTypes' /\ LoopTypes'
    BY <1>1, SMTT(40) DEF KidTypes, LoopTypes
  <1>4. LoopInv'
    BY <1>1, <1>2, SMTT(40) DEF LoopInv, LetGo, KidTypes
  <1>5. GateInv'
    BY <1>1 DEF GateInv
  <1>6. RollInv'
    BY <1>1, <1>2 DEF RollInv, Leaving, LetGo, Undisturbed
  <1> QED
    BY <1>3, <1>4, <1>5, <1>6

\* The refill picks a vacant slot and nothing else.
LEMMA RefillStep ==
    ASSUME Inv, Refill
    PROVE  Inv'
  <1>1. CASE Vacant = {}
    BY <1>1, MoveStep DEF Refill, roll
  <1>2. CASE Vacant # {}
    <2> DEFINE i == Min(Vacant)
    <2> USE DEF Inv, kids, roll
    <2>1. i \in Vacant
      BY <1>2, MinIn, SlotFacts DEF Vacant
    <2>2. /\ i \in Slots /\ i \notin QUARANTINED /\ CHILDREN[i] = Nobody /\ i \in Nat
          /\ ~IsQueue(i)
      BY <2>1, SlotFacts, SupervisorAssumption, SMTT(40) DEF Vacant, WebSlots
    <2>3. /\ master.at = "refill"
          /\ UNCHANGED <<kids, SHUTDOWN, roll, CANARY_ENABLED, QUEUE_DESIRED, release, passed, seen>>
          /\ master' = [master EXCEPT !.at = "fork", !.slot = i, !.back = "refill"]
      BY <1>2 DEF Refill
    <2> HIDE DEF i
    <2>4. /\ DOMAIN master' = {"at", "slot", "want", "verdict", "back"}
          /\ master'.at = "fork" /\ master'.slot = i /\ master'.back = "refill"
      BY <2>3 DEF LoopTypes
    <2>5. /\ Forking' /\ ~Scaling' /\ ~Scaling /\ Desired' = Desired
          /\ \A j : LetGo(j)' <=> LetGo(j)
      BY <2>3, <2>4 DEF Forking, Scaling, Desired, LetGo
    <2>6. KidTypes' /\ LoopTypes'
      BY <2>2, <2>3, <2>4 DEF KidTypes, LoopTypes, Places
    <2>7. LoopInv'
      BY <2>2, <2>3, <2>4, <2>5, SMTT(40) DEF LoopInv, Serves, Nobody
    <2>8. GateInv'
      BY <2>3, <2>4 DEF GateInv
    <2>9. RollInv'
      <3>1. Leaving' = Leaving /\ Undisturbed' = Undisturbed
        BY <2>3, <2>5 DEF Leaving, Undisturbed
      <3> QED
        BY <2>3, <2>4, <3>1 DEF RollInv
    <2> QED
      BY <2>6, <2>7, <2>8, <2>9
  <1> QED
    BY <1>1, <1>2

\* Reaping the child of a slot keeps the invariant, respawn, canary failure and
\* quarantine included.
LEMMA ReapStep ==
    ASSUME Inv, NEW i \in Slots, Reap(i)
    PROVE  Inv'
  <1> USE DEF Inv, roll
  <1>1. /\ master.at = "reap" /\ CHILDREN[i].state \in {"dead", "failed"}
        /\ UNCHANGED <<newborn, orphans, SHUTDOWN, roll, CANARY_ENABLED, QUEUE_DESIRED,
                       release, passed, seen>>
        /\ ~Forking /\ ~Scaling /\ Desired = QUEUE_DESIRED
    BY DEF Reap, Reaped, Forking, Scaling, Desired
  <1>2. Nobody \in Child /\ Nobody.state = "none" /\ Nobody.rel = 0 /\ release \in Nat
    BY SupervisorAssumption, SMTT(40) DEF Nobody, Child, KidTypes
  <1>3. CASE /\ CHILDREN' = [CHILDREN EXCEPT ![i] = Nobody]
             /\ \/ master' = master
                \/ /\ ~SHUTDOWN /\ ~ScaledDown(i) /\ i \notin QUARANTINED
                   /\ master' = [master EXCEPT !.at = "fork", !.slot = i, !.back = "roll"]
             /\ SHUTDOWN \/ ScaledDown(i) \/ i \in QUARANTINED
                \/ master' = [master EXCEPT !.at = "fork", !.slot = i, !.back = "roll"]
    <2>1. \A j \in Slots : CHILDREN'[j] = IF j = i THEN Nobody ELSE CHILDREN[j]
      BY <1>3 DEF KidTypes
    <2>2. CHILDREN' \in [Slots -> Child]
      BY <1>2, <1>3 DEF KidTypes
    <2>3. KidTypes'
      BY <1>1, <1>2, <2>1, <2>2, SMTT(40) DEF KidTypes
    <2>4. /\ DOMAIN master' = {"at", "slot", "want", "verdict", "back"}
          /\ \/ master'.at = "reap" /\ master'.slot = master.slot /\ master'.back = master.back
             \/ /\ master'.at = "fork" /\ master'.slot = i /\ master'.back = "roll"
                /\ ~SHUTDOWN /\ ~ScaledDown(i) /\ i \notin QUARANTINED
      BY <1>1, <1>3 DEF LoopTypes
    <2>5. LoopTypes'
      BY <1>1, <2>4, SlotFacts DEF LoopTypes, Places
    <2>6. ~Scaling' /\ Desired' = Desired /\ \A j : LetGo(j)' <=> LetGo(j)
      BY <1>1, <2>4 DEF Scaling, Forking, Desired, LetGo
    <2>7. LoopInv'
      BY <1>1, <1>2, <2>1, <2>4, <2>6, SlotFacts DEF LoopInv, Serves, Forking, ScaledDown
    <2>8. GateInv'
      BY <1>1, <2>1, <2>4, SlotFacts DEF GateInv
    <2>9. RollInv'
      <3> SUFFICES ASSUME Undisturbed'
                   PROVE  RollInv'
        BY DEF RollInv
      <3>1. Undisturbed
        BY <1>1 DEF Undisturbed
      <3>2. Leaving' \subseteq Leaving \ {i}
        BY <1>2, <2>1, <2>6 DEF Leaving
      <3>3. master'.at = "fork" => Leaving' = {}
        <4>1. master'.at = "fork" => i \in Leaving
          BY <1>1, <2>4, <3>1 DEF Leaving, LetGo, ScaledDown, RollInv
        <4> QED
          BY <3>1, <3>2, <4>1 DEF RollInv
      <3>4. CHILDREN'[0].rel = CHILDREN[0].rel \/ 0 \notin Leaving'
        BY <2>1, <3>2, SlotFacts
      <3> QED
        BY <1>1, <1>2, <2>1, <2>4, <3>1, <3>2, <3>3, <3>4 DEF RollInv, Forking
    <2> QED
      BY <2>3, <2>5, <2>7, <2>8, <2>9
  <1>4. CASE /\ CHILDREN' = [kill_all EXCEPT ![i] = Nobody]
             /\ master' = [master EXCEPT !.at = "gaveup"]
             /\ CHILDREN[i].state = "failed"
    <2>1. \A j \in Slots : /\ CHILDREN'[j] = IF j = i THEN Nobody ELSE Signal(CHILDREN[j])
                           /\ CHILDREN[j] \in Child
      BY <1>4 DEF KidTypes, kill_all
    <2>2. \A j \in Slots :
            /\ CHILDREN'[j] \in Child /\ CHILDREN'[j].rel <= release
            /\ ~Serves(CHILDREN'[j])
            /\ CHILDREN'[j].state = "none" => CHILDREN'[j] = Nobody
      BY <1>2, <2>1, SignalFacts, SMTT(40) DEF Serves, KidTypes
    <2>3. CHILDREN' \in [Slots -> Child]
      BY <1>4, <2>2 DEF kill_all
    <2>4. KidTypes'
      BY <1>1, <2>2, <2>3 DEF KidTypes
    <2>5. /\ DOMAIN master' = {"at", "slot", "want", "verdict", "back"}
          /\ master'.at = "gaveup" /\ master'.slot = master.slot /\ master'.back = master.back
      BY <1>4 DEF LoopTypes
    <2>6. LoopTypes'
      BY <1>1, <2>5 DEF LoopTypes, Places
    <2>7. LoopInv'
      BY <1>1, <2>2, <2>5, SlotFacts DEF LoopInv, Forking, Scaling
    <2>8. GateInv'
      <3>1. /\ CHILDREN[0] = Nobody => CHILDREN'[0] = Nobody
            /\ CHILDREN'[0] = Nobody \/ CHILDREN'[0].rel = CHILDREN[0].rel
            /\ CHILDREN[0].state \in {"drain", "dead"} =>
                 CHILDREN'[0] = Nobody \/ CHILDREN'[0].state \in {"drain", "dead"}
        BY <1>2, <2>1, SignalFacts, SlotFacts DEF Serves
      <3> QED
        BY <1>1, <2>5, <3>1 DEF GateInv
    <2>9. RollInv'
      BY <1>1, <1>4 DEF RollInv, Undisturbed
    <2> QED
      BY <2>4, <2>6, <2>7, <2>8, <2>9
  <1> QED
    BY <1>3, <1>4 DEF Reap, Respawns

\* Where the loop goes on after a spawn_slot.
LEMMA BackFacts ==
    ASSUME Inv, Forking, master' = Back,
           UNCHANGED <<QUEUE_DESIRED, RELOAD_CURSOR, canary>>
    PROVE  /\ LoopTypes'
           /\ master'.want = master.want /\ ~Forking'
           /\ master'.at \in {"roll", "reap", "refill", "scaling"}
           /\ master'.at = "roll" => master.back = "roll" /\ RELOAD_CURSOR < Count
           /\ Scaling' <=> Scaling
           /\ Scaling => master'.slot = master.slot + 1
           /\ Desired' = IF Scaling THEN Desired + 1 ELSE Desired
  <1> USE DEF Inv
  <1>1. CASE master.back = "roll"
    <2>1. /\ DOMAIN master' = {"at", "slot", "want", "verdict", "back"}
          /\ master'.at \in {"roll", "reap"} /\ master'.slot = 0 /\ master'.back = "roll"
          /\ master'.want = master.want
          /\ master'.at = "roll" => RELOAD_CURSOR < Count
      BY <1>1 DEF Back, LoopTypes
    <2>2. ~Scaling /\ ~Scaling' /\ ~Forking'
      BY <1>1, <2>1 DEF Scaling, Forking
    <2> QED
      BY <1>1, <2>1, <2>2, SMTT(40) DEF LoopTypes, Places, Desired
  <1>2. CASE master.back # "roll"
    <2>1. /\ DOMAIN master' = {"at", "slot", "want", "verdict", "back"}
          /\ master'.at = master.back /\ master'.slot = master.slot + 1
          /\ master'.back = "roll" /\ master'.want = master.want
      BY <1>2 DEF Back, LoopTypes
    <2>2. (Scaling <=> master.back = "scaling") /\ (Scaling' <=> Scaling) /\ ~Forking'
      BY <1>2, <2>1 DEF Scaling, Forking, LoopTypes
    <2>3. Desired' = IF Scaling THEN Desired + 1 ELSE Desired
      BY <2>1, <2>2, SupervisorAssumption, SMTT(40) DEF Desired, LoopTypes
    <2> QED
      BY <1>2, <2>1, <2>2, <2>3, SMTT(40) DEF LoopTypes, Places
  <1> QED
    BY <1>1, <1>2

\* fork, successful or not, keeps the invariant.
LEMMA SpawnForkStep ==
    ASSUME Inv, SpawnFork
    PROVE  Inv'
  <1> USE DEF Inv, roll
  <1>1. /\ master.at = "fork" /\ Forking
        /\ UNCHANGED <<CHILDREN, orphans, SHUTDOWN, roll, CANARY_ENABLED, QUEUE_DESIRED, release,
                       passed>>
    BY DEF SpawnFork, Forking
  <1>2. CASE /\ newborn' = Fork /\ master' = [master EXCEPT !.at = "store"]
             /\ seen' = IF SHUTDOWN THEN seen \cup {"late"} ELSE seen
    <2>1. /\ DOMAIN master' = {"at", "slot", "want", "verdict", "back"}
          /\ master'.at = "store" /\ master'.slot = master.slot /\ master'.back = master.back
          /\ master'.want = master.want
      BY <1>2 DEF LoopTypes
    <2>2. newborn' \in Child /\ newborn'.state = "boot" /\ newborn'.rel = release
      BY <1>2 DEF Fork, Child, KidTypes
    <2>3. KidTypes'
      BY <1>1, <2>2, SupervisorAssumption, SMTT(40) DEF KidTypes
    <2>4. LoopTypes'
      BY <1>1, <2>1 DEF LoopTypes, Places
    <2>5. /\ Forking' /\ (Scaling' <=> Scaling) /\ Desired' = Desired
          /\ \A i : LetGo(i)' <=> LetGo(i)
      BY <1>1, <2>1 DEF Forking, Scaling, Desired, LetGo
    <2>6. /\ "orphan" \in seen' <=> "orphan" \in seen
          /\ "overlap" \in seen' <=> "overlap" \in seen
          /\ seen' \cap {"slow", "unseen", "overlap"} = seen \cap {"slow", "unseen", "overlap"}
          /\ seen' \cap {"exit", "recycle", "overlap", "slow", "stale"} =
                seen \cap {"exit", "recycle", "overlap", "slow", "stale"}
      BY <1>2
    <2>7. LoopInv'
      BY <1>1, <2>1, <2>2, <2>5, <2>6 DEF LoopInv
    <2>8. GateInv'
      BY <1>1, <2>1, <2>6 DEF GateInv
    <2>9. Leaving' = Leaving
      BY <1>1, <2>5 DEF Leaving
    <2>10. RollInv'
      BY <1>1, <2>1, <2>5, <2>6, <2>9 DEF RollInv, Undisturbed
    <2> QED
      BY <2>3, <2>4, <2>7, <2>8, <2>10
  <1>3. CASE /\ newborn' = newborn /\ master' = Back
             /\ seen' = IF CHILDREN[master.slot] # Nobody THEN seen \cup {"stale"} ELSE seen
    <2>1. KidTypes' /\ LoopTypes'
      BY <1>1, <1>3, BackFacts DEF KidTypes, LoopTypes
    <2>2. /\ master'.want = master.want /\ ~Forking'
          /\ master'.at \in {"roll", "reap", "refill", "scaling"}
          /\ master'.at = "roll" => master.back = "roll" /\ RELOAD_CURSOR < Count
          /\ Scaling' <=> Scaling
          /\ Scaling => master'.slot = master.slot + 1
          /\ Desired' = IF Scaling THEN Desired + 1 ELSE Desired
      BY <1>1, <1>3, BackFacts
    <2>3. /\ "orphan" \in seen' <=> "orphan" \in seen
          /\ "overlap" \in seen' <=> "overlap" \in seen
          /\ seen' \cap {"slow", "unseen", "overlap"} = seen \cap {"slow", "unseen", "overlap"}
          /\ CHILDREN[master.slot] = Nobody => seen' = seen
          /\ CHILDREN[master.slot] # Nobody => "stale" \in seen'
      BY <1>3
    <2>4. Desired \in Int /\ (Scaling => Desired = master.slot - Web)
      BY SupervisorAssumption, SMTT(40) DEF Desired, LoopTypes
    <2>5. \A i \in Slots : /\ LetGo(i)' => LetGo(i)
                           /\ LetGo(i) /\ ~LetGo(i)' => i = master.slot
      <3>1. Web \in Int /\ master.slot \in Int /\ \A i \in Slots : i \in Int
        BY SlotFacts, SupervisorAssumption, SMTT(40) DEF LoopTypes
      <3> QED
        BY <2>2, <2>4, <3>1, SMTT(40) DEF LetGo
    <2>6. Scaling' => /\ master'.want \in QueueMin .. QueueMax
                      /\ Web + QUEUE_DESIRED' <= master'.slot
                      /\ master'.slot <= Web + master'.want
      BY <1>1, <2>2, SupervisorAssumption, SMTT(40) DEF LoopInv, LoopTypes
    <2>7. \A i \in Slots : LetGo(i)' => ~Serves(CHILDREN'[i])
      BY <1>1, <2>5 DEF LoopInv
    <2>8. LoopInv'
      BY <1>1, <1>3, <2>2, <2>3, <2>6, <2>7 DEF LoopInv
    <2>9. GateInv'
      BY <1>1, <2>2, <2>3 DEF GateInv
    <2>10. RollInv'
      <3> SUFFICES ASSUME Undisturbed'
                   PROVE  RollInv'
        BY DEF RollInv
      <3>1. Undisturbed /\ CHILDREN[master.slot] = Nobody
        BY <1>1, <2>3 DEF Undisturbed
      <3>2. Leaving' \subseteq Leaving
        BY <1>1, <2>5, <3>1, SMTT(40) DEF Leaving, Nobody
      <3> QED
        BY <1>1, <2>2, <3>1, <3>2 DEF RollInv
    <2> QED
      BY <2>1, <2>8, <2>9, <2>10
  <1> QED
    BY <1>2, <1>3 DEF SpawnFork

\* The store of the new pid keeps the invariant.
LEMMA SpawnStoreStep ==
    ASSUME Inv, SpawnStore
    PROVE  Inv'
  <1> USE DEF Inv, roll
  <1>1. /\ master.at = "store" /\ Forking /\ master' = Back
        /\ UNCHANGED <<SHUTDOWN, roll, CANARY_ENABLED, QUEUE_DESIRED, release, passed>>
        /\ newborn' = Nobody
    BY DEF SpawnStore, Forking
  <1>2. /\ master.slot \in Slots \ QUARANTINED /\ newborn.state = "boot"
        /\ newborn \in Child /\ newborn.rel <= release
        /\ "unseen" \notin seen => newborn.rel = release
    BY <1>1 DEF LoopInv, KidTypes
  <1>3. \A i \in Slots : CHILDREN'[i] = IF i = master.slot THEN newborn ELSE CHILDREN[i]
    BY <1>2 DEF SpawnStore, KidTypes
  <1>4. CHILDREN' \in [Slots -> Child]
    BY <1>2 DEF SpawnStore, KidTypes
  <1>5. Nobody \in Child /\ Nobody.state = "none" /\ Nobody.rel = 0 /\ release \in Nat
    BY SupervisorAssumption, SMTT(40) DEF Nobody, Child, KidTypes
  <1>6. /\ orphans' \in Nat
        /\ "orphan" \notin seen' => "orphan" \notin seen /\ orphans' = orphans
        /\ "overlap" \in seen' <=> "overlap" \in seen
        /\ seen' \cap {"slow", "unseen", "overlap"} = seen \cap {"slow", "unseen", "overlap"}
        /\ seen' \cap {"exit", "recycle", "overlap", "slow", "stale"} =
              seen \cap {"exit", "recycle", "overlap", "slow", "stale"}
    BY SMTT(40) DEF SpawnStore, KidTypes
  <1>7. KidTypes'
    BY <1>1, <1>2, <1>3, <1>4, <1>5, <1>6, SMTT(40) DEF KidTypes
  <1>8. LoopTypes'
    BY <1>1, BackFacts DEF LoopTypes
  <1>9. /\ master'.want = master.want /\ ~Forking'
        /\ master'.at \in {"roll", "reap", "refill", "scaling"}
        /\ master'.at = "roll" => master.back = "roll" /\ RELOAD_CURSOR < Count
        /\ Scaling' <=> Scaling
        /\ Scaling => master'.slot = master.slot + 1
        /\ Desired' = IF Scaling THEN Desired + 1 ELSE Desired
    BY <1>1, BackFacts
  <1>10. Desired \in Int /\ (Scaling => Desired = master.slot - Web)
         /\ (~Scaling => Desired = QUEUE_DESIRED /\ master.back # "scaling")
    BY <1>1, SupervisorAssumption, SMTT(40) DEF Desired, LoopTypes, Scaling
  <1>11. \A i \in Slots : /\ LetGo(i)' => LetGo(i) /\ i # master.slot
                          /\ LetGo(i) /\ ~LetGo(i)' => i = master.slot
    BY <1>1, <1>9, <1>10, SlotFacts, SupervisorAssumption, SMTT(40) DEF LetGo, LoopTypes, LoopInv
  <1>12. Scaling' => /\ master'.want \in QueueMin .. QueueMax
                     /\ Web + QUEUE_DESIRED' <= master'.slot
                     /\ master'.slot <= Web + master'.want
    <2>1. Scaling => /\ master.want \in QueueMin .. QueueMax
                     /\ Web + QUEUE_DESIRED <= master.slot
                     /\ master.slot < Web + master.want
      BY <1>1 DEF LoopInv
    <2>2. Web \in Nat /\ QueueMin \in Nat /\ QueueMax \in Nat /\ master.slot \in Nat
          /\ QUEUE_DESIRED \in QueueMin .. QueueMax
      BY SupervisorAssumption DEF LoopTypes
    <2> HIDE DEF Inv
    <2> QED
      BY <1>1, <1>9, <2>1, <2>2, SMTT(40)
  <1>13. \A i \in Slots : LetGo(i)' => ~Serves(CHILDREN'[i])
    BY <1>3, <1>11 DEF LoopInv
  <1>14. \A i \in QUARANTINED' : ~Serves(CHILDREN'[i])
    BY <1>1, <1>2, <1>3, SlotFacts DEF LoopInv
  <1>15. LoopInv'
    BY <1>1, <1>6, <1>9, <1>12, <1>13, <1>14 DEF LoopInv
  <1>16. GateInv'
    BY <1>1, <1>2, <1>3, <1>6, <1>9, SlotFacts DEF GateInv
  <1>17. RollInv'
    <2> SUFFICES ASSUME Undisturbed'
                 PROVE  RollInv'
      BY DEF RollInv
    <2>1. Undisturbed
      BY <1>1, <1>6 DEF Undisturbed
    <2>2. Leaving' \subseteq Leaving /\ (0 \in Leaving' => CHILDREN'[0] = CHILDREN[0])
      BY <1>2, <1>3, <1>11 DEF Leaving
    <2> QED
      BY <1>1, <1>2, <1>3, <1>9, <2>1, <2>2 DEF RollInv
  <1> QED
    BY <1>7, <1>8, <1>15, <1>16, <1>17

\* What a signal to one slot does to the canary's own.
LEMMA FirstTold ==
    ASSUME KidTypes, NEW S, OnlyTold(S)
    PROVE  /\ CHILDREN'[0].rel = CHILDREN[0].rel
           /\ CHILDREN[0] = Nobody => CHILDREN'[0] = Nobody
           /\ CHILDREN[0].state \in {"drain", "dead"} => CHILDREN'[0] = CHILDREN[0]
           /\ \A i \in Slots : CHILDREN[i].state # "failed" => CHILDREN'[i].state # "failed"
  BY SlotFacts, SMTT(40) DEF OnlyTold, Serves, Nobody

\* The roll moves on to its next slot.
LEMMA RollOnStep ==
    ASSUME Inv, RollOn
    PROVE  Inv'
  <1> USE DEF Inv
  <1>1. /\ master.at = "roll"
        /\ UNCHANGED <<newborn, orphans, SHUTDOWN, canary, QUARANTINED, CANARY_ENABLED,
                       QUEUE_DESIRED, release, passed, seen>>
    BY DEF RollOn
  <1>2. PICK i : OnlyTold({i})
    BY RollTold DEF RollOn
  <1>3. /\ DOMAIN master' = {"at", "slot", "want", "verdict", "back"}
        /\ master'.at = "reap" /\ master'.slot = 0 /\ master'.back = master.back
    BY DEF RollOn, Goto, LoopTypes
  <1>4. KidTypes' /\ LoopTypes'
    BY <1>1, <1>2, <1>3, KidsTold, SMTT(40) DEF KidTypes, LoopTypes, Places
  <1>5. LoopInv' /\ Desired' = Desired
    BY <1>1, <1>2, <1>3, LoopToldMoves DEF LoopInv
  <1>6. GateInv'
    BY <1>1, <1>2, <1>3, FirstTold DEF GateInv
  <1>7. RollInv'
    <2> SUFFICES ASSUME Undisturbed'
                 PROVE  RollInv'
      BY DEF RollInv
    <2>1. Undisturbed /\ "overlap" \notin seen
      BY <1>1 DEF Undisturbed
    <2>2. Leaving = {} /\ \A j \in Slots : CHILDREN[j].state # "failed"
      BY <1>1, <2>1 DEF RollInv
    <2>3. \A j \in Leaving' : j = i
      BY <1>2, <1>5, <2>2, LeavingTold, SMTT(40)
    <2>4. canary' = "off"
      BY <1>1, <2>1 DEF GateInv, LoopTypes
    <2>5. ~Forking'
      BY <1>3 DEF Forking
    <2> QED
      BY <1>2, <1>3, <2>2, <2>3, <2>4, <2>5, FirstTold DEF RollInv
  <1> QED
    BY <1>4, <1>5, <1>6, <1>7

\* The gate's check keeps the invariant.
LEMMA GateStep ==
    ASSUME Inv, Gate
    PROVE  Inv'
  <1>1. CASE canary # "due"
    <2>1. Goto("timers") /\ master.at = "gate"
          /\ UNCHANGED <<kids, SHUTDOWN, RELOAD_CURSOR, canary, QUARANTINED,
                         CANARY_ENABLED, QUEUE_DESIRED, release, passed, seen>>
      BY <1>1 DEF Gate
    <2> QED
      BY <2>1, MoveStep
  <1>2. CASE canary = "due"
    <2> USE DEF Inv, kids
    <2>1. PICK v \in Verdicts : /\ master' = [master EXCEPT !.at = "verdict", !.verdict = v]
                                /\ passed' = (v # "aborted")
      BY <1>2 DEF Gate
    <2>2. /\ master.at = "gate" /\ canary' = "off"
          /\ UNCHANGED <<CHILDREN, newborn, orphans, SHUTDOWN, RELOAD_CURSOR, QUARANTINED,
                         CANARY_ENABLED, QUEUE_DESIRED, release, seen>>
      BY <1>2 DEF Gate
    <2>3. /\ DOMAIN master' = {"at", "slot", "want", "verdict", "back"}
          /\ master'.at = "verdict" /\ master'.verdict = v
          /\ master'.slot = master.slot /\ master'.back = master.back
      BY <2>1 DEF LoopTypes
    <2>4. CHILDREN[0] = Nobody => v = "aborted"
      BY <2>1 DEF Verdicts
    <2>5. KidTypes' /\ LoopTypes'
      BY <2>2, <2>3 DEF KidTypes, LoopTypes, Places
    <2>6. /\ ~Forking /\ ~Forking' /\ ~Scaling /\ ~Scaling' /\ Desired' = Desired
          /\ \A i : LetGo(i)' <=> LetGo(i)
      BY <2>2, <2>3 DEF Forking, Scaling, Desired, LetGo
    <2>7. LoopInv'
      BY <2>2, <2>3, <2>6 DEF LoopInv
    <2>8. GateInv'
      BY <1>2, <2>1, <2>2, <2>3, <2>4 DEF GateInv
    <2>9. Leaving' = Leaving
      BY <2>2, <2>6 DEF Leaving
    <2>10. RollInv'
      BY <1>2, <2>2, <2>6, <2>9 DEF RollInv, Undisturbed
    <2> QED
      BY <2>5, <2>7, <2>8, <2>10
  <1> QED
    BY <1>1, <1>2

\* The canary's verdict keeps the invariant: pass rolls on, failure quarantines.
LEMMA GateVerdictStep ==
    ASSUME Inv, GateVerdict
    PROVE  Inv'
  <1> USE DEF Inv
  <1>1. /\ master.at = "verdict"
        /\ UNCHANGED <<newborn, orphans, SHUTDOWN, canary, CANARY_ENABLED, QUEUE_DESIRED,
                       release, passed, seen>>
    BY DEF GateVerdict
  <1>2. \E i : /\ OnlyTold({i})
               /\ QUARANTINED' = QUARANTINED \/ (i = 0 /\ QUARANTINED' = QUARANTINED \cup {0})
    <2>1. CASE RollsOn(master.verdict)
      <3>1. roll_next(1) /\ QUARANTINED' = QUARANTINED
        BY <2>1 DEF GateVerdict
      <3>2. \E i : OnlyTold({i})
        BY <3>1, RollTold
      <3> QED
        BY <3>1, <3>2
    <2>2. CASE CHILDREN' = SignalSlot(0) /\ QUARANTINED' = QUARANTINED \cup {0}
      <3>1. OnlyTold({0})
        BY <2>2, SlotTold
      <3> QED
        BY <2>2, <3>1
    <2>3. CASE CHILDREN' = CHILDREN /\ QUARANTINED' = QUARANTINED
      <3>1. OnlyTold({})
        BY <2>3, NoneTold
      <3>2. OnlyTold({Count})
        BY <3>1, SlotFacts, SMTT(40) DEF OnlyTold, Slots
      <3> QED
        BY <2>3, <3>2
    <2> QED
      BY <2>1, <2>2, <2>3 DEF GateVerdict
  <1>3. PICK i : /\ OnlyTold({i})
                 /\ QUARANTINED' = QUARANTINED \/ (i = 0 /\ QUARANTINED' = QUARANTINED \cup {0})
    BY <1>2
  <1>4. /\ DOMAIN master' = {"at", "slot", "want", "verdict", "back"}
        /\ master'.at = "timers" /\ master'.slot = master.slot /\ master'.back = master.back
    BY DEF GateVerdict, LoopTypes
  <1>5. KidTypes' /\ LoopTypes'
    BY <1>1, <1>3, <1>4, KidsTold, SMTT(40) DEF KidTypes, LoopTypes, Places
  <1>6. LoopInv' /\ Desired' = Desired
    <2>1. QUARANTINED' \subseteq {0} /\ \A j \in QUARANTINED' : j \in QUARANTINED \/ j \in {i}
      BY <1>3 DEF LoopInv
    <2> QED
      BY <1>1, <1>3, <1>4, <2>1, LoopToldMoves
  <1>7. CANARY_ENABLED /\ "overlap" \notin seen /\ RELOAD_CURSOR' < Count => passed
    BY <1>1 DEF GateInv, GateVerdict, RollsOn
  <1>8. "overlap" \notin seen => canary = "off"
    BY <1>1 DEF GateInv, LoopTypes
  <1>9. GateInv'
    BY <1>1, <1>4, <1>7, <1>8 DEF GateInv
  <1>10. RollInv'
    <2> SUFFICES ASSUME Undisturbed'
                 PROVE  RollInv'
      BY DEF RollInv
    <2>1. Undisturbed /\ "overlap" \notin seen
      BY <1>1 DEF Undisturbed
    <2>2. Leaving = {} /\ \A j \in Slots : CHILDREN[j].state # "failed"
      BY <1>1, <2>1 DEF RollInv
    <2>3. \A j \in Leaving' : j = i
      BY <1>3, <1>6, <2>2, LeavingTold, SMTT(40)
    <2>4. ~Forking'
      BY <1>4 DEF Forking
    <2> QED
      BY <1>1, <1>3, <1>4, <1>8, <2>1, <2>2, <2>3, <2>4, FirstTold DEF RollInv
  <1> QED
    BY <1>5, <1>6, <1>9, <1>10

\* Recycling a worker over its memory limit keeps the invariant.
LEMMA RecycleStep ==
    ASSUME Inv, NEW i \in Slots, recycle_over_rss(i)
    PROVE  Inv'
  <1> USE DEF Inv
  <1>1. /\ OnlyTold({i}) /\ master.at = "timers"
        /\ UNCHANGED <<newborn, orphans, RELOAD_CURSOR, canary, QUARANTINED, CANARY_ENABLED,
                       QUEUE_DESIRED, master, release, passed>>
        /\ seen' = seen \cup {"recycle"}
    BY SlotTold DEF recycle_over_rss, roll
  <1>2. KidTypes' /\ LoopTypes'
    BY <1>1, KidsTold, SMTT(40) DEF LoopTypes, KidTypes
  <1>3. LoopInv'
    BY <1>1, LoopTold DEF LoopInv
  <1>4. GateInv'
    BY <1>1, GateTold
  <1>5. RollInv'
    BY <1>1 DEF RollInv, Undisturbed
  <1> QED
    BY <1>2, <1>3, <1>4, <1>5

\* The autoscaler's decision keeps the invariant: down signals one slot, up starts to
\* fork.
LEMMA ScaleStep ==
    ASSUME Inv, NEW want \in QueueMin .. QueueMax, Scale(want)
    PROVE  Inv'
  <1> USE DEF Inv, roll
  <1>1. /\ master.at = "timers" /\ ~Forking /\ ~Scaling /\ Desired = QUEUE_DESIRED
        /\ UNCHANGED <<newborn, orphans, SHUTDOWN, roll, CANARY_ENABLED, release, passed, seen>>
    BY DEF Scale, Forking, Scaling, Desired
  <1>2. /\ Web \in Nat /\ QueueMin \in Nat /\ QueueMax \in Nat
        /\ QUEUE_DESIRED \in QueueMin .. QueueMax
    BY SupervisorAssumption DEF LoopTypes
  <1>3. CASE /\ want > QUEUE_DESIRED /\ UNCHANGED <<CHILDREN, QUEUE_DESIRED>>
             /\ master' = [master EXCEPT !.at = "scaling", !.slot = Web + QUEUE_DESIRED,
                                         !.want = want]
    <2>1. /\ DOMAIN master' = {"at", "slot", "want", "verdict", "back"}
          /\ master'.at = "scaling" /\ master'.slot = Web + QUEUE_DESIRED
          /\ master'.want = want /\ master'.back = master.back
      BY <1>3 DEF LoopTypes
    <2>2. KidTypes' /\ LoopTypes'
      BY <1>1, <1>2, <1>3, <2>1, SMTT(40) DEF KidTypes, LoopTypes, Places
    <2>3. Scaling' /\ ~Forking' /\ Desired' = Desired /\ \A i : LetGo(i)' <=> LetGo(i)
      BY <1>1, <1>2, <2>1, SMTT(40) DEF Scaling, Forking, Desired, LetGo
    <2>4. LoopInv'
      BY <1>1, <1>2, <1>3, <2>1, <2>3, SMTT(40) DEF LoopInv
    <2>5. GateInv'
      BY <1>1, <1>3, <2>1 DEF GateInv
    <2>6. Leaving' = Leaving
      BY <1>3, <2>3 DEF Leaving
    <2>7. RollInv'
      BY <1>1, <1>3, <2>1, <2>3, <2>6 DEF RollInv, Undisturbed
    <2> QED
      BY <2>2, <2>4, <2>5, <2>7
  <1>4. CASE want < QUEUE_DESIRED /\ ScaleDown /\ UNCHANGED master
    <2> DEFINE last == Web + QUEUE_DESIRED - 1
    <2>1. OnlyTold({last}) /\ QUEUE_DESIRED' = QUEUE_DESIRED - 1
          /\ QUEUE_DESIRED' \in QueueMin .. QueueMax
      BY <1>2, <1>4, SlotTold, SMTT(40) DEF ScaleDown
    <2>2. KidTypes' /\ LoopTypes'
      BY <1>1, <1>4, <2>1, KidsTold, SMTT(40) DEF KidTypes, LoopTypes
    <2>3. ~Forking' /\ ~Scaling' /\ Desired' = QUEUE_DESIRED - 1
      BY <1>1, <1>4, <2>1 DEF Forking, Scaling, Desired
    <2>4. \A i \in Slots : LetGo(i)' <=> LetGo(i) \/ i = last
      BY <1>1, <1>2, <1>4, <2>3, SlotFacts, SMTT(40) DEF LetGo
    <2>5. \A i \in Slots : LetGo(i)' => ~Serves(CHILDREN'[i])
      BY <2>1, <2>4 DEF LoopInv, OnlyTold
    <2>6. \A i \in QUARANTINED' : ~Serves(CHILDREN'[i])
      BY <1>1, <2>1, SlotFacts DEF LoopInv, OnlyTold
    <2>7. LoopInv'
      BY <1>1, <1>4, <2>3, <2>5, <2>6 DEF LoopInv
    <2>8. GateInv'
      BY <1>1, <1>4, <2>1, GateTold
    <2>9. Leaving' \subseteq Leaving
      BY <2>1, <2>4 DEF Leaving, OnlyTold
    <2>10. RollInv'
      BY <1>1, <1>4, <2>1, <2>3, <2>9, FirstTold DEF RollInv, Undisturbed
    <2> QED
      BY <2>2, <2>7, <2>8, <2>10
  <1> QED
    BY <1>3, <1>4 DEF Scale

\* Each fork of a scale-up keeps the invariant.
LEMMA ScaleUpStep ==
    ASSUME Inv, ScaleUp
    PROVE  Inv'
  <1> USE DEF Inv, roll, kids
  <1>1. /\ master.at = "scaling" /\ ~Forking /\ Scaling /\ Desired = master.slot - Web
        /\ UNCHANGED <<CHILDREN, newborn, orphans, SHUTDOWN, roll, CANARY_ENABLED, release,
                       passed, seen>>
    BY DEF ScaleUp, Forking, Scaling, Desired
  <1>2. /\ Web \in Nat \ {0} /\ QueueMin \in Nat /\ QueueMax \in Nat /\ Others \in Nat
        /\ QUEUE_DESIRED \in QueueMin .. QueueMax /\ master.slot \in Nat
        /\ master.want \in QueueMin .. QueueMax /\ Web + QUEUE_DESIRED <= master.slot
        /\ master.slot <= Web + master.want
    BY <1>1, SupervisorAssumption DEF LoopTypes, LoopInv
  <1>3. CASE /\ master.slot < Web + master.want /\ UNCHANGED QUEUE_DESIRED
             /\ master' = [master EXCEPT !.at = "fork", !.back = "scaling"]
    <2>1. /\ DOMAIN master' = {"at", "slot", "want", "verdict", "back"}
          /\ master'.at = "fork" /\ master'.slot = master.slot
          /\ master'.want = master.want /\ master'.back = "scaling"
      BY <1>3 DEF LoopTypes
    <2>2. KidTypes' /\ LoopTypes'
      BY <1>1, <1>3, <2>1 DEF KidTypes, LoopTypes, Places
    <2>3. Scaling' /\ Forking' /\ Desired' = Desired /\ \A i : LetGo(i)' <=> LetGo(i)
      BY <1>1, <2>1 DEF Scaling, Forking, Desired, LetGo
    <2>4. master.slot \in Slots /\ master.slot # 0 /\ IsQueue(master.slot)
      BY <1>2, <1>3, SMTT(40) DEF Slots, Count, IsQueue
    <2>5. LetGo(master.slot)
      BY <1>1, <1>2, <2>4, SMTT(40) DEF LetGo
    <2>6. master.slot \in Slots \ QUARANTINED /\ ~Serves(CHILDREN[master.slot])
      BY <2>4, <2>5 DEF LoopInv
    <2>7. LoopInv'
      BY <1>1, <1>2, <1>3, <2>1, <2>3, <2>6 DEF LoopInv
    <2>8. GateInv'
      BY <1>1, <2>1 DEF GateInv
    <2>9. Leaving' = Leaving
      BY <1>1, <2>3 DEF Leaving
    <2>10. RollInv'
      BY <1>1, <2>1, <2>3, <2>9 DEF RollInv, Undisturbed
    <2> QED
      BY <2>2, <2>7, <2>8, <2>10
  <1>4. CASE /\ ~(master.slot < Web + master.want) /\ QUEUE_DESIRED' = master.want
             /\ master' = [master EXCEPT !.at = "timers", !.slot = 0, !.want = 0]
    <2>1. /\ DOMAIN master' = {"at", "slot", "want", "verdict", "back"}
          /\ master'.at = "timers" /\ master'.slot = 0 /\ master'.back = master.back
      BY <1>4 DEF LoopTypes
    <2>2. KidTypes' /\ LoopTypes'
      BY <1>1, <1>2, <1>4, <2>1 DEF KidTypes, LoopTypes, Places
    <2>3. ~Scaling' /\ ~Forking'
      BY <2>1 DEF Scaling, Forking
    <2>4. Desired' = Desired
      BY <1>1, <1>2, <1>4, <2>3, SMTT(40) DEF Desired
    <2>5. \A i : LetGo(i)' <=> LetGo(i)
      BY <2>4 DEF LetGo
    <2>6. LoopInv'
      BY <1>1, <2>1, <2>3, <2>5 DEF LoopInv
    <2>7. GateInv'
      BY <1>1, <2>1 DEF GateInv
    <2>8. Leaving' = Leaving
      BY <1>1, <2>5 DEF Leaving
    <2>9. RollInv'
      BY <1>1, <2>1, <2>3, <2>8 DEF RollInv, Undisturbed
    <2> QED
      BY <2>2, <2>6, <2>7, <2>9
  <1> QED
    BY <1>3, <1>4 DEF ScaleUp

-----------------------------------------------------------------------------
(***************************************************************************)
(* The children and the clocks keep it.                                    *)
(***************************************************************************)

\* What a child does by itself keeps the invariant.
LEMMA ChildStep ==
    ASSUME Inv, NEW i \in Slots, Boots(i) \/ Exits(i) \/ Drains(i)
    PROVE  Inv'
  <1> USE DEF Inv, roll
  <1>1. /\ UNCHANGED <<newborn, orphans, SHUTDOWN, roll, CANARY_ENABLED, QUEUE_DESIRED, master,
                       release, passed>>
        /\ seen' = seen \/ (Exits(i) /\ seen' = seen \cup {"exit"})
    BY DEF Boots, Exits, Drains, Becomes
  <1>2. PICK st \in {"up", "failed", "dead"} :
          /\ CHILDREN' = [CHILDREN EXCEPT ![i].state = st]
          /\ \/ st = "up" /\ CHILDREN[i].state = "boot" /\ ~Exits(i)
             \/ st \in {"failed", "dead"} /\ Serves(CHILDREN[i]) /\ Exits(i)
             \/ st = "dead" /\ CHILDREN[i].state = "drain" /\ ~Exits(i)
    <2>1. CHILDREN[i] \in Child
      BY DEF KidTypes
    <2> QED
      BY <2>1 DEF Boots, Exits, Drains, Becomes, Serves
  <1>3. \A j \in Slots :
          /\ CHILDREN'[j].state = IF j = i THEN st ELSE CHILDREN[j].state
          /\ CHILDREN'[j].rel = CHILDREN[j].rel
          /\ j # i => CHILDREN'[j] = CHILDREN[j]
          /\ CHILDREN'[j] \in Child
    BY <1>2 DEF KidTypes, Child
  <1>4. CHILDREN' \in [Slots -> Child]
    BY <1>2, <1>3 DEF KidTypes
  <1>5. KidTypes' /\ LoopTypes'
    BY <1>1, <1>3, <1>4 DEF KidTypes, LoopTypes
  <1>6. /\ (Forking' <=> Forking) /\ (Scaling' <=> Scaling) /\ Desired' = Desired
        /\ \A j : LetGo(j)' <=> LetGo(j)
    BY <1>1 DEF Forking, Scaling, Desired, LetGo
  <1>7. \A j \in Slots : ~Serves(CHILDREN[j]) => ~Serves(CHILDREN'[j])
    BY <1>2, <1>3 DEF Serves
  <1>8. master.at # "exited"
    BY <1>2, SMTT(40) DEF LoopInv, Nobody, Serves
  <1>9. /\ "orphan" \in seen' <=> "orphan" \in seen
        /\ "unseen" \in seen' <=> "unseen" \in seen
        /\ "overlap" \in seen' <=> "overlap" \in seen
        /\ seen' \cap {"slow", "unseen", "overlap"} = seen \cap {"slow", "unseen", "overlap"}
        /\ Exits(i) => "exit" \in seen'
    BY <1>1 DEF Exits
  <1>10. LoopInv'
    <2>1. \A j \in QUARANTINED' : ~Serves(CHILDREN'[j])
      BY <1>1, <1>7, SlotFacts DEF LoopInv
    <2>2. \A j \in Slots : LetGo(j)' => ~Serves(CHILDREN'[j])
      BY <1>6, <1>7 DEF LoopInv
    <2> QED
      BY <1>1, <1>6, <1>7, <1>8, <1>9, <2>1, <2>2 DEF LoopInv
  <1>11. GateInv'
    <2>1. /\ CHILDREN'[0].rel = CHILDREN[0].rel
          /\ CHILDREN[0] = Nobody => CHILDREN'[0] = Nobody
          /\ CHILDREN[0].state \in {"drain", "dead"} => CHILDREN'[0].state \in {"drain", "dead"}
      BY <1>2, <1>3, SlotFacts, SMTT(40) DEF Nobody, Serves
    <2> QED
      BY <1>1, <1>9, <2>1 DEF GateInv
  <1>12. RollInv'
    <2> SUFFICES ASSUME Undisturbed'
                 PROVE  RollInv'
      BY DEF RollInv
    <2>1. Undisturbed /\ ~Exits(i)
      BY <1>1, <1>9 DEF Undisturbed
    <2>2. \A j \in Slots : CHILDREN'[j].state \in {"drain", "dead"} <=>
                             CHILDREN[j].state \in {"drain", "dead"}
      BY <1>2, <1>3, <2>1
    <2>3. Leaving' = Leaving
      BY <1>6, <2>2 DEF Leaving
    <2>4. \A j \in Slots : CHILDREN'[j].state # "failed"
      BY <1>2, <1>3, <2>1 DEF RollInv
    <2> QED
      BY <1>1, <1>3, <1>6, <2>1, <2>3, <2>4, SlotFacts DEF RollInv
  <1> QED
    BY <1>5, <1>10, <1>11, <1>12

\* The end of the canary's window keeps the invariant.
LEMMA CanaryWindowStep ==
    ASSUME Inv, CanaryWindowEnds
    PROVE  Inv'
  <1> USE DEF Inv, kids
  <1>1. /\ canary = "open" /\ canary' = "due"
        /\ UNCHANGED <<CHILDREN, newborn, orphans, SHUTDOWN, RELOAD_CURSOR, QUARANTINED,
                       CANARY_ENABLED, QUEUE_DESIRED, master, release, passed>>
        /\ seen' = IF CHILDREN[0].rel < release /\ CHILDREN[0].state \in {"drain", "dead"}
                   THEN seen \cup {"slow"} ELSE seen
    BY DEF CanaryWindowEnds
  <1>2. /\ seen \subseteq seen' /\ seen' \subseteq seen \cup {"slow"}
        /\ "slow" \notin seen' =>
             ~(CHILDREN[0].rel < release /\ CHILDREN[0].state \in {"drain", "dead"})
    BY <1>1
  <1>3. KidTypes' /\ LoopTypes'
    BY <1>1 DEF KidTypes, LoopTypes
  <1>4. /\ (Forking' <=> Forking) /\ (Scaling' <=> Scaling) /\ Desired' = Desired
        /\ \A j : LetGo(j)' <=> LetGo(j)
    BY <1>1 DEF Forking, Scaling, Desired, LetGo
  <1>5. LoopInv'
    BY <1>1, <1>2, <1>4 DEF LoopInv
  <1>6. CHILDREN[0].rel \in Nat /\ release \in Nat /\ CHILDREN[0].rel <= release
    BY SlotFacts, SupervisorAssumption, SMTT(40) DEF KidTypes, Child
  <1>7. GateInv'
    <2>1. /\ "overlap" \in seen' <=> "overlap" \in seen
          /\ seen' \cap {"slow", "unseen", "overlap"} = {} =>
               /\ seen \cap {"slow", "unseen", "overlap"} = {}
               /\ CHILDREN[0].state \in {"drain", "dead"} => CHILDREN[0].rel = release
      BY <1>2, <1>6, SMTT(40)
    <2> QED
      BY <1>1, <2>1 DEF GateInv
  <1>8. RollInv'
    <2> SUFFICES ASSUME Undisturbed'
                 PROVE  RollInv'
      BY DEF RollInv
    <2>1. Undisturbed /\ "slow" \notin seen'
      BY <1>1, <1>2 DEF Undisturbed
    <2>2. Leaving' = Leaving
      BY <1>1, <1>4 DEF Leaving
    <2>3. Leaving = {}
      BY <1>1, <1>2, <2>1 DEF RollInv, Leaving
    <2> QED
      BY <1>1, <2>1, <2>2, <2>3 DEF RollInv
  <1> QED
    BY <1>3, <1>5, <1>7, <1>8

\* A step that changes neither table, roll nor loop keeps the invariant.
LEMMA QuietStep ==
    ASSUME Inv, UNCHANGED <<kids, SHUTDOWN, roll, CANARY_ENABLED, QUEUE_DESIRED, master, release,
                            passed, seen>>
    PROVE  Inv'
  <1> USE DEF Inv, kids, roll
  <1>1. KidTypes' /\ LoopTypes' /\ GateInv'
    BY DEF KidTypes, LoopTypes, GateInv
  <1>2. /\ (Forking' <=> Forking) /\ (Scaling' <=> Scaling) /\ Desired' = Desired
        /\ \A j : LetGo(j)' <=> LetGo(j)
    BY DEF Forking, Scaling, Desired, LetGo
  <1>3. LoopInv'
    BY <1>2 DEF LoopInv
  <1>4. Leaving' = Leaving /\ (Undisturbed' <=> Undisturbed)
    BY <1>2 DEF Leaving, Undisturbed
  <1>5. RollInv'
    BY <1>2, <1>4 DEF RollInv
  <1> QED
    BY <1>1, <1>3, <1>5

\* Every step of the master, of a signal handler and of a child keeps the invariant.
LEMMA InvNext == Inv /\ [Next]_vars => Inv'
  <1> SUFFICES ASSUME Inv, [Next]_vars
               PROVE  Inv'
    OBVIOUS
  <1>1. CASE Master
    BY <1>1, ReapNoneStep, ReapStep, ReapOrphanStep, SpawnForkStep, SpawnStoreStep, RollOnStep,
       RefillStep, GateStep, GateVerdictStep, RecycleStep, ScaleStep, ScaleUpStep, ExitCheckStep
    DEF Master
  <1>2. CASE on_terminate
    BY <1>2, TerminateStep
  <1>3. CASE begin_reload
    BY <1>3, ReloadStep
  <1>4. CASE \E i \in Slots : Boots(i) \/ Exits(i) \/ Drains(i)
    BY <1>4, ChildStep
  <1>5. CASE CanaryWindowEnds
    BY <1>5, CanaryWindowStep
  <1>6. CASE FailWindowEnds
    BY <1>6, QuietStep DEF FailWindowEnds
  <1>7. CASE UNCHANGED vars
    <2>1. UNCHANGED <<kids, SHUTDOWN, roll, CANARY_ENABLED, QUEUE_DESIRED, master, release,
                      passed, seen>>
      BY <1>7 DEF vars, kids, roll
    <2> QED
      BY <2>1, QuietStep
  <1> QED
    BY <1>1, <1>2, <1>3, <1>4, <1>5, <1>6, <1>7 DEF Next

\* The inductive invariant of the master: what each place of its loop claims of the
\* children, of the canary and of the roll.
THEOREM Invariant == Spec => []Inv
  <1> QED
    BY InvInit, InvNext, PTL DEF Spec

-----------------------------------------------------------------------------
(***************************************************************************)
(* What follows from it.                                                   *)
(***************************************************************************)

\* However many workers, reloads, exits, recycles and failed forks there are, spawn_slot
\* never stores its pid over that of a child that serves, and when the master leaves its
\* loop every child it forked is reaped (unless the autoscaler overwrote one that drained).
THEOREM KnowsItsChildren == Spec => []NoChildIsForgotten
  <1>1. Inv => NoChildIsForgotten
    <2> SUFFICES ASSUME Inv
                 PROVE  NoChildIsForgotten
      OBVIOUS
    <2>1. StoreForgetsNobody
      BY DEF Inv, LoopInv, Forking, Serves, StoreForgetsNobody
    <2>2. ExitIsQuiet
      BY DEF Inv, LoopInv, ExitIsQuiet
    <2> QED
      BY <2>1, <2>2 DEF NoChildIsForgotten
  <1> QED
    BY <1>1, Invariant, PTL

\* With nothing else happening to the workers, roll_next drains one web worker at a time,
\* whatever the number of workers and releases and whatever the autoscaler does meanwhile.
THEOREM RollsOneByOne == Spec => []RollIsOneByOne
  <1>1. Inv => RollIsOneByOne
    <2> SUFFICES ASSUME Inv, Undisturbed
                 PROVE  Cardinality({i \in WebSlots : CHILDREN[i].state = "drain"}) <= 1
      BY DEF RollIsOneByOne, Undisturbed
    <2> DEFINE D == {i \in WebSlots : CHILDREN[i].state = "drain"}
    <2>1. \A i \in WebSlots : i \in Slots /\ ~IsQueue(i)
      BY SlotFacts, SupervisorAssumption, SMTT(40) DEF WebSlots, IsQueue
    <2>2. D \subseteq Leaving
      BY <2>1 DEF Leaving, LetGo
    <2>3. \A i, j \in D : i = j
      BY <2>2 DEF Inv, RollInv
    <2>4. CASE D = {}
      BY <2>4, FS_EmptySet, SMTT(40)
    <2>5. CASE D # {}
      <3>1. PICK i : D = {i}
        BY <2>3, <2>5
      <3>2. Cardinality(D) = 1
        BY <3>1, FS_Singleton
      <3> QED
        BY <3>2, SMTT(40)
    <2> QED
      BY <2>4, <2>5
  <1> QED
    BY <1>1, Invariant, PTL

\* The canary gate: with it on, the cursor of the roll moves only after a verdict on this
\* release that lets it; the worker that is judged runs that release; and the slot of a
\* canary that failed serves nobody, whatever the reaper, the refill, the recycling and
\* the autoscaler do meanwhile.
THEOREM GateIsKept == Spec => GateHolds
  <1>1. Inv /\ [Next]_vars => [PassedBeforeRoll]_vars
    <2> SUFFICES ASSUME Inv, Next, CANARY_ENABLED, RELOAD_CURSOR' # RELOAD_CURSOR,
                        "overlap" \notin seen'
                 PROVE  passed'
      BY DEF PassedBeforeRoll, vars
    <2>1. CASE RollOn
      <3>1. master.at = "roll" /\ passed' = passed /\ seen' = seen
        BY <2>1 DEF RollOn
      <3> QED
        BY <3>1 DEF Inv, GateInv
    <2>2. CASE GateVerdict
      <3>1. /\ master.at = "verdict" /\ passed' = passed /\ seen' = seen
            /\ master.verdict # "aborted"
        BY <2>2 DEF GateVerdict, RollsOn
      <3> QED
        BY <3>1 DEF Inv, GateInv
    <2>3. CASE ~RollOn /\ ~GateVerdict
      <3>1. ~begin_reload
        BY DEF begin_reload, CanaryRollout
      <3>2. RELOAD_CURSOR' = RELOAD_CURSOR
        BY <2>3, <3>1 DEF Next, Master, roll, on_terminate, ReapNone, Reap, ReapOrphan, SpawnFork,
             SpawnStore, Refill, Gate, recycle_over_rss, Scale, ScaleUp, ExitCheck, Boots, Exits,
             Drains, Becomes, CanaryWindowEnds, FailWindowEnds
      <3> QED
        BY <3>2
    <2> QED
      BY <2>1, <2>2, <2>3
  <1>2. Inv => CanaryIsNew /\ QuarantineHolds
    BY DEF Inv, LoopInv, GateInv, Serves, CanaryIsNew, QuarantineHolds
  <1>3. Inv /\ Inv' /\ [Next]_vars => [PassedBeforeRoll /\ (CanaryIsNew /\ QuarantineHolds)']_vars
    <2>1. Inv' => (CanaryIsNew /\ QuarantineHolds)'
      BY <1>2, PTL
    <2> QED
      BY <1>1, <2>1
  <1> QED
    BY <1>3, InvInit, InvNext, PTL DEF Spec, GateHolds

=============================================================================
