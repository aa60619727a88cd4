------------------------------- MODULE Verify -------------------------------
(***************************************************************************)
(* Verified reloads (crates/askr/src/verify.rs with the canary gate of     *)
(* supervisor.rs): the ring of recent requests in shared memory, the       *)
(* canary's replay of them on the new code, and the gate that waits for    *)
(* the verdict before the rest of the fleet is rolled.                     *)
(*                                                                         *)
(* A release answers each URL with one status, or now and then with        *)
(* another (flaky).  Slot 0 is the canary's; one other process stands for  *)
(* the rest of the fleet.  An entry of the ring is written and read as a   *)
(* whole (module Seqlock is about such a counter).  The canary's live      *)
(* error rate is a free verdict, as in module Supervisor.                  *)
(***************************************************************************)
EXTENDS Naturals, Sequences, FiniteSets

CONSTANTS
    Urls,
    Cell,       \* the slot of the ring a URL hashes to
    Releases,   \* what a release may answer: per URL a status or "flaky"
    BUDGET,     \* MAX_REPLAY
    WINDOW,     \* CANARY_WINDOW
    TIMEOUT,    \* TIMEOUT_SECS
    None,
    MaxDeploys, \* bound: releases
    MaxRequests,\* bound: recorded requests
    MaxExits    \* bound: ends of the canary

VARIABLES
    code,      \* the releases deployed so far: what each answers per URL
    ring,      \* per cell, the entry or None
    canary,    \* slot 0: its release, its life and its replay
    fleet,     \* the release of the other slots
    region,    \* the verdict: state, replayed, flaky and regressed
    gate_state,\* CANARY_ACTIVE, the seconds since the reload, ROLLOUT_STATE
    quarantined,
    requests,
    exits,
    asked,     \* history: the last replay that ended before the gate decided: what
               \* it asked, and of which release
    mixed      \* history: a reload began while the last one was not decided

vars == <<code, ring, canary, fleet, region, gate_state, quarantined,
          requests, exits, asked, mixed>>

Latest == Len(code)
Fresh == [state |-> "idle", replayed |-> 0, flaky |-> 0, regressed |-> 0]
NoReplay(rel, life) ==
    [rel |-> rel, life |-> life, replay |-> "none", all |-> {}, todo |-> {},
     again |-> FALSE]
Gone == NoReplay(0, "down")
Runs == canary.life # "down"

Answers(rel, u) ==
    IF code[rel][u] = "flaky" THEN {"ok", "broken"} ELSE {code[rel][u]}

\* judge: 2xx or 3xx before and 5xx now, or 2xx before and 4xx now.
Regressed(before, after) ==
    \/ before \in {"ok", "moved"} /\ after = "broken"
    \/ before = "ok" /\ after = "missing"

-----------------------------------------------------------------------------
\* record_in: a process answers an anonymous GET; the newer of two URLs of one
\* cell evicts the other.  Replayed requests are not recorded.
Record(rel, u) ==
    /\ requests < MaxRequests
    /\ \E status \in Answers(rel, u) :
         ring' = [ring EXCEPT ![Cell[u]] = [url |-> u, status |-> status, at |-> requests]]
    /\ requests' = requests + 1
    /\ UNCHANGED <<code, canary, fleet, region, gate_state, quarantined, asked, mixed, exits>>

\* recorded_in: the most recent entries.
Recent ==
    LET whole == {ring[c] : c \in DOMAIN ring} \ {None}
    IN {e \in whole : Cardinality({f \in whole : f.at > e.at}) < BUDGET}

-----------------------------------------------------------------------------
\* Fault: the verdict of the last reload stays.
NoReset(k) == region

\* reset
Reset(k) == Fresh

\* A release is deployed and begin_reload runs: a new verdict, a new window, no
\* quarantine, and SIGTERM for the canary.
Reload(k) ==
    /\ Latest < MaxDeploys
    /\ code' = Append(code, k)
    /\ region' = Reset(k)
    /\ gate_state' = [active |-> TRUE, elapsed |-> 0, rollout |-> "rolling"]
    /\ quarantined' = FALSE
    /\ canary' = IF Runs THEN [canary EXCEPT !.life = "draining"] ELSE canary
    /\ mixed' = (mixed \/ gate_state.active \/ canary.replay # "none")
    /\ UNCHANGED <<ring, fleet, requests, asked, exits>>

\* Slot 0 is filled: the worker boots on what is deployed, and replays if a
\* reload is being judged (should_replay).
Boot ==
    /\ ~Runs /\ ~quarantined
    /\ canary' = [NoReplay(Latest, "up") EXCEPT
                    !.replay = IF gate_state.active THEN "start" ELSE "none"]
    /\ UNCHANGED <<code, ring, fleet, region, gate_state, quarantined,
                   requests, asked, mixed, exits>>

StartReplay ==
    /\ canary.replay = "start"
    /\ region' = [region EXCEPT !.state = "replaying"]
    /\ canary' = [canary EXCEPT !.replay = "run", !.all = Recent, !.todo = Recent]
    /\ UNCHANGED <<code, ring, fleet, gate_state, quarantined, requests,
                   asked, mixed, exits>>

\* One ask of the replay, the most recent entry first.  A regression is tried
\* once more before it counts.
Ask ==
    /\ canary.replay = "run"
    /\ \E e \in canary.todo :
         /\ \A f \in canary.todo : f.at <= e.at
         /\ \E after \in Answers(canary.rel, e.url) :
              IF Regressed(e.status, after) /\ ~canary.again
              THEN /\ canary' = [canary EXCEPT !.again = TRUE]
                   /\ UNCHANGED region
              ELSE /\ canary' = [canary EXCEPT !.again = FALSE, !.todo = @ \ {e}]
                   /\ region' = [region EXCEPT
                        !.replayed = @ + 1,
                        !.regressed = @ + (IF Regressed(e.status, after) THEN 1 ELSE 0),
                        !.flaky = @ + (IF canary.again /\ ~Regressed(e.status, after)
                                       THEN 1 ELSE 0)]
    /\ UNCHANGED <<code, ring, fleet, gate_state, quarantined, requests,
                   asked, mixed, exits>>

EndReplay ==
    /\ canary.replay = "run" /\ canary.todo = {}
    /\ region' = [region EXCEPT !.state = "done"]
    /\ canary' = [canary EXCEPT !.replay = "none", !.all = {}]
    /\ asked' = IF gate_state.active THEN [rel |-> canary.rel, entries |-> canary.all]
                ELSE asked
    /\ UNCHANGED <<code, ring, fleet, gate_state, quarantined, requests, mixed, exits>>

\* The canary ends, drained or crashed, and its replay with it.
Exit ==
    /\ Runs /\ exits < MaxExits
    /\ exits' = exits + 1
    /\ canary' = Gone
    /\ UNCHANGED <<code, ring, fleet, region, gate_state, quarantined, requests,
                   asked, mixed>>

Tick ==
    /\ gate_state.active /\ gate_state.elapsed < TIMEOUT
    /\ gate_state' = [gate_state EXCEPT !.elapsed = @ + 1]
    /\ UNCHANGED <<code, ring, canary, fleet, region, quarantined, requests,
                   asked, mixed, exits>>

-----------------------------------------------------------------------------
\* verify::gate as the canary gate calls it.
VerifyGate ==
    CASE ~Runs -> "pass"
      [] Runs /\ region.state # "done" ->
           IF gate_state.elapsed < TIMEOUT THEN "wait" ELSE "fail"
      [] Runs /\ region.state = "done" ->
           IF region.regressed > 0 THEN "fail" ELSE "pass"

\* canary_verdict: the live traffic may say anything of a canary that runs.
Verdicts ==
    IF ~Runs \/ VerifyGate = "fail" THEN {"aborted"}
    ELSE {"ok", "aborted", IF region.replayed > 0 THEN "ok" ELSE "inconclusive"}

\* The canary gate in the master's loop: the rest is rolled, or the canary is
\* drained and its slot quarantined.
Gate ==
    /\ gate_state.active /\ gate_state.elapsed >= WINDOW
    /\ VerifyGate # "wait"
    /\ \E verdict \in Verdicts :
         /\ gate_state' = [gate_state EXCEPT !.active = FALSE, !.rollout = verdict]
         /\ fleet' = IF verdict = "aborted" THEN fleet ELSE Latest
         /\ quarantined' = (verdict = "aborted" /\ Runs)
         /\ canary' = IF verdict = "aborted" /\ Runs
                      THEN [canary EXCEPT !.life = "draining"] ELSE canary
    /\ UNCHANGED <<code, ring, region, requests, asked, mixed, exits>>

Init ==
    /\ code \in [{1} -> Releases]
    /\ ring = [c \in {Cell[u] : u \in Urls} |-> None]
    /\ canary = NoReplay(1, "up")
    /\ fleet = 1
    /\ region = Fresh
    /\ gate_state = [active |-> FALSE, elapsed |-> 0, rollout |-> "idle"]
    /\ quarantined = FALSE
    /\ requests = 0
    /\ exits = 0
    /\ asked = [rel |-> 0, entries |-> {}]
    /\ mixed = FALSE

Next == \/ \E u \in Urls : Record(fleet, u) \/ (Runs /\ Record(canary.rel, u))
        \/ \E k \in Releases : Reload(k)
        \/ Boot \/ StartReplay \/ Ask \/ EndReplay \/ Exit \/ Tick \/ Gate

Spec == Init /\ [][Next]_vars

-----------------------------------------------------------------------------
\* The deploy that the gate let through was tried: its own canary finished a
\* replay.
Tried == asked.rel = Latest

\* No page that the replay asked worked before and always fails now.
NothingBroke ==
    \A e \in asked.entries :
        e.status = "ok" => Answers(Latest, e.url) \cap {"ok", "moved"} # {}

\* The fleet is rolled onto a release only after its own canary replayed what
\* was recorded and nothing that worked before fails for good, whatever died,
\* was recorded or ran late meanwhile, and although the verdict of an earlier
\* reload lies in the same memory (reset, replay, gate).  It does not hold when
\* a reload begins before the one before it is decided and its replay ended.
RollsOnlyWhatWasTried ==
    gate_state.rollout \in {"ok", "inconclusive"} /\ ~mixed => Tried /\ NothingBroke

\* The same for every reload: begin_reload says that a new deploy gets a new
\* verdict.
NewDeployNewVerdict ==
    gate_state.rollout \in {"ok", "inconclusive"} => Tried

=============================================================================
