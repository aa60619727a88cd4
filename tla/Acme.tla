-------------------------------- MODULE Acme --------------------------------
(***************************************************************************)
(* The certificate that the master obtains and renews itself               *)
(* (crates/askr/src/acme.rs and its callers in main.rs, supervisor.rs and  *)
(* worker.rs): the order with its HTTP-01 challenges, the two files that   *)
(* are replaced one after the other, the marker of the next renewal, the   *)
(* watcher of the files, and the workers that read them when they start.   *)
(*                                                                         *)
(* A file is the number of the order it came from, 0 when it is absent; a  *)
(* file's modification time is that number too.  The temporary file of     *)
(* stage_and_rename is never read, so that a staging is its rename or its  *)
(* failure.  The authority is external: it asks for the token of every     *)
(* challenge that was declared ready.  The order of the restarts of a      *)
(* reload is module Supervisor's; here each worker restarts once.          *)
(***************************************************************************)
EXTENDS Naturals, FiniteSets

CONSTANTS
    Domains,
    Workers,
    RENEW,      \* renew_after_days
    MaxTime,    \* bound: the clock
    MaxOrders,  \* bound: orders in all
    MaxCrashes  \* bound: crashes of the master

VARIABLES
    key, cert,   \* key.pem and cert.pem
    renew_at,    \* the marker file, 0 when absent
    clock,
    master,      \* down, boot, or up with its renewal thread
    pc,          \* where obtain is
    order,       \* the number of the latest order
    authz,       \* per domain, the authorization of that order
    front,       \* the listener on port 80: none, bound, or failed to bind
    challenges,  \* the tokens it answers, <<order, domain>>
    seen,        \* the files' times at the watcher's last look
    roll,        \* the workers a reload has still to restart
    worker,      \* per worker: its place and the certificate it holds
    crashes

files == <<key, cert, renew_at>>
issue == <<pc, order, authz, challenges>>
fleet == <<seen, roll, worker>>
vars == <<files, clock, master, issue, front, fleet, crashes>>

Down == [pc |-> "down", cert |-> 0]
NoAuthz == [d \in Domains |-> "none"]

-----------------------------------------------------------------------------
needs_renewal == key = 0 \/ cert = 0 \/ renew_at = 0 \/ clock >= renew_at

\* The master starts: the front is spawned, and stays the front when it could
\* not bind; then the first issuance, or none.
Start ==
    /\ master = "down"
    /\ front' \in {"bound", "failed"}
    /\ master' = IF needs_renewal THEN "boot" ELSE "up"
    /\ pc' = IF needs_renewal THEN "order" ELSE "idle"
    /\ seen' = <<cert, key>>
    /\ UNCHANGED <<files, clock, order, authz, challenges, roll, worker, crashes>>

\* The renewal thread wakes up, every six hours.
RenewalDue ==
    /\ master = "up" /\ pc = "idle"
    /\ needs_renewal
    /\ pc' = "order"
    /\ UNCHANGED <<files, clock, master, order, authz, challenges, front, fleet, crashes>>

\* obtain returns an error: at boot the master gives up, later it logs.  The
\* tokens stay where they are.
Failed ==
    /\ pc' = "idle"
    /\ master' = IF master = "boot" THEN "down" ELSE master
    /\ front' = IF master = "boot" THEN "none" ELSE front
    /\ challenges' = IF master = "boot" THEN {} ELSE challenges
    /\ UNCHANGED <<files, order, authz>>

\* load_or_create_account and new_order.  The authority may hold a domain
\* valid from before.
NewOrder ==
    /\ pc = "order"
    /\ \/ /\ order < MaxOrders
          /\ order' = order + 1
          /\ \E valid \in SUBSET Domains :
               authz' = [d \in Domains |-> IF d \in valid THEN "valid" ELSE "pending"]
          /\ pc' = "authz"
          /\ UNCHANGED <<files, master, front, challenges>>
       \/ Failed
    /\ UNCHANGED <<clock, fleet, crashes>>

Publish(d) ==
    /\ pc = "authz" /\ authz[d] = "pending"
    /\ challenges' = challenges \cup {<<order, d>>}
    /\ authz' = [authz EXCEPT ![d] = "published"]
    /\ UNCHANGED <<pc, order, files, clock, master, front, fleet, crashes>>

SetReady(d) ==
    /\ pc = "authz" /\ authz[d] = "published"
    /\ \/ /\ authz' = [authz EXCEPT ![d] = "ready"]
          /\ UNCHANGED <<pc, order, challenges, files, master, front>>
       \/ Failed
    /\ UNCHANGED <<clock, fleet, crashes>>

\* What the front says to a request for the token: the key authorization, and
\* only when it has none the redirect or the 404.
Answers(token) == front = "bound" /\ token \in challenges

\* External: the authority validates a challenge.
Validate(d) ==
    /\ authz[d] = "ready"
    /\ authz' = [authz EXCEPT ![d] = IF Answers(<<order, d>>) THEN "valid" ELSE "invalid"]
    /\ UNCHANGED <<files, clock, master, pc, order, front, challenges, fleet, crashes>>

\* poll_ready, finalize and poll_certificate.
Poll ==
    /\ pc = "authz"
    /\ \A d \in Domains : authz[d] \in {"ready", "valid", "invalid"}
    /\ \/ /\ \A d \in Domains : authz[d] = "valid"
          /\ pc' = "key"
          /\ UNCHANGED <<files, master, order, authz, front, challenges>>
       \/ Failed
    /\ UNCHANGED <<clock, fleet, crashes>>

\* Fault: the marker is written before the files.
InstallKeyMarked ==
    /\ pc = "key"
    /\ \/ /\ key' = order
          /\ renew_at' = clock + RENEW
          /\ pc' = "cert"
          /\ UNCHANGED <<cert, master, order, authz, front, challenges>>
       \/ Failed
    /\ UNCHANGED <<clock, fleet, crashes>>

InstallKey ==
    /\ pc = "key"
    /\ \/ /\ key' = order
          /\ pc' = "cert"
          /\ UNCHANGED <<cert, renew_at, master, order, authz, front, challenges>>
       \/ Failed
    /\ UNCHANGED <<clock, fleet, crashes>>

InstallCert ==
    /\ pc = "cert"
    /\ \/ /\ cert' = order
          /\ pc' = "mark"
          /\ UNCHANGED <<key, renew_at, master, order, authz, front, challenges>>
       \/ Failed
    /\ UNCHANGED <<clock, fleet, crashes>>

\* The marker, whose failure is ignored; then the tokens are dropped, and the
\* master goes on to fork its workers or to roll them.
Finish ==
    /\ pc = "mark"
    /\ renew_at' \in {renew_at, clock + RENEW}
    /\ challenges' = {}
    /\ pc' = "idle"
    /\ roll' = IF master = "up" THEN Workers ELSE roll
    /\ seen' = IF master = "boot" THEN <<cert, key>> ELSE seen
    /\ master' = "up"
    /\ UNCHANGED <<key, cert, clock, order, authz, front, worker, crashes>>

-----------------------------------------------------------------------------
\* spawn_cert_watcher: a look every 30 seconds.
Watch ==
    /\ master = "up"
    /\ <<cert, key>> # seen /\ cert # 0
    /\ seen' = <<cert, key>>
    /\ roll' = Workers
    /\ UNCHANGED <<files, clock, master, issue, front, worker, crashes>>

\* A reload stops a worker; its slot is filled again.
Roll(w) ==
    /\ w \in roll
    /\ roll' = roll \ {w}
    /\ worker' = [worker EXCEPT ![w] = Down]
    /\ UNCHANGED <<files, clock, master, issue, front, seen, crashes>>

\* acceptor reads the certificate, then the key.
ReadCert(w) ==
    /\ master = "up" /\ worker[w].pc = "down"
    /\ worker' = [worker EXCEPT ![w] = [pc |-> "read", cert |-> cert]]
    /\ UNCHANGED <<files, clock, master, issue, front, seen, roll, crashes>>

\* with_single_cert refuses a key that is not the certificate's; the worker
\* exits and its slot is filled again.
ReadKey(w) ==
    /\ worker[w].pc = "read"
    /\ worker' = [worker EXCEPT ![w] = IF worker[w].cert = key
                                       THEN [pc |-> "serving", cert |-> key] ELSE Down]
    /\ UNCHANGED <<files, clock, master, issue, front, seen, roll, crashes>>

Crash ==
    /\ master # "down" /\ crashes < MaxCrashes
    /\ crashes' = crashes + 1
    /\ master' = "down" /\ pc' = "idle" /\ front' = "none" /\ challenges' = {}
    /\ authz' = NoAuthz
    /\ roll' = {} /\ worker' = [w \in Workers |-> Down]
    /\ UNCHANGED <<files, clock, order, seen>>

Tick ==
    /\ clock < MaxTime
    /\ clock' = clock + 1
    /\ UNCHANGED <<files, master, issue, front, fleet, crashes>>

Init ==
    /\ key = 0 /\ cert = 0 /\ renew_at = 0
    /\ clock = 0
    /\ master = "down"
    /\ pc = "idle" /\ order = 0 /\ authz = NoAuthz
    /\ front = "none" /\ challenges = {}
    /\ seen = <<0, 0>>
    /\ roll = {} /\ worker = [w \in Workers |-> Down]
    /\ crashes = 0

Next == \/ Start \/ RenewalDue \/ NewOrder \/ Poll
        \/ InstallKey \/ InstallCert \/ Finish
        \/ \E d \in Domains : Publish(d) \/ SetReady(d) \/ Validate(d)
        \/ Watch \/ \E w \in Workers : Roll(w) \/ ReadCert(w) \/ ReadKey(w)
        \/ Crash \/ Tick

Spec == Init /\ [][Next]_vars

-----------------------------------------------------------------------------
\* A key and a certificate of different orders, which no worker can start with,
\* are either being replaced now or due for renewal, whatever crash or failed
\* rename left them: the marker is written last, so that the next start or the
\* next wake-up repairs the pair (stage_and_rename twice and the marker, in
\* obtain; needs_renewal).
TornPairIsRenewed == key # cert => pc = "cert" \/ needs_renewal

\* While the front is bound, the authority gets its answer for every challenge
\* that was declared ready, through failed orders and restarts (obtain inserts
\* the token before set_ready; a new order never drops a token in use).
ReadyChallengesAreAnswered ==
    front = "bound" /\ pc = "authz" =>
        \A d \in Domains : authz[d] = "ready" => Answers(<<order, d>>)

\* Issuing certificates is safe against crashes: a torn pair is repaired and the
\* authority gets its answers.
CertificatesHold == TornPairIsRenewed /\ ReadyChallengesAreAnswered

=============================================================================
