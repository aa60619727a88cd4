------------------------------ MODULE MCHost --------------------------------
(***************************************************************************)
(* The components beside the request path, one at a time: what a process   *)
(* of the host does to a table, a file or another process.  They share no  *)
(* state, so a behaviour is one of one of them; they share the variables   *)
(* x1, x2, ... here, and a variable that a component has no use for is 0.  *)
(***************************************************************************)
EXTENDS Integers, Sequences, FiniteSets, TLC

CONSTANTS w1, w2, None, Away, k1, k2

VARIABLES part, x1, x2, x3, x4, x5, x6, x7, x8, x9, x10, x11, x12, x13, x14

Actors == {w1, w2}

\* The variables after the first n.
Keep14 == TRUE
Keep13 == UNCHANGED x14
Keep11 == UNCHANGED <<x12, x13>> /\ Keep13
Keep9 == UNCHANGED <<x10, x11>> /\ Keep11
Keep8 == UNCHANGED x9 /\ Keep9
Keep7 == UNCHANGED x8 /\ Keep8
Keep6 == UNCHANGED x7 /\ Keep7
Keep5 == UNCHANGED x6 /\ Keep6
Keep4 == UNCHANGED x5 /\ Keep5
Keep2 == UNCHANGED <<x3, x4>> /\ Keep4

Off14 == TRUE
Off13 == x14 = 0
Off11 == x12 = 0 /\ x13 = 0 /\ Off13
Off9 == x10 = 0 /\ x11 = 0 /\ Off11
Off8 == x9 = 0 /\ Off9
Off7 == x8 = 0 /\ Off8
Off6 == x7 = 0 /\ Off7
Off5 == x6 = 0 /\ Off6
Off4 == x5 = 0 /\ Off5
Off2 == x3 = 0 /\ x4 = 0 /\ Off4

-----------------------------------------------------------------------------
\* Two masters, two layouts of the ring.
Ring == INSTANCE QueueFile WITH
    Masters <- Actors, Geometries <- {1, 2}, MaxObjects <- 3, MaxJobs <- 1,
    object <- x1, name <- x2, master <- x3, jobs <- x4, crossed <- x5

\* Three queues in two lanes: two of one name, two of one application.
LaneQueues == {<<"a", "m">>, <<"b", "m">>, <<"a", "d">>}
LaneHash == (<<"a", "m">> :> 1) @@ (<<"b", "m">> :> 3) @@ (<<"a", "d">> :> 2)
Lane == INSTANCE Lanes WITH
    Workers <- Actors, Queues <- LaneQueues, Hash <- LaneHash, LANES <- 2,
    Slots <- {1}, Delays <- {0, 1}, STALL <- 1, STALE <- 1, REWARN <- 1,
    MaxTime <- 2, MaxPolls <- 3,
    clock <- x1, lane <- x2, job <- x3, worker <- x4, warned <- x5, polls <- x6,
    heard <- x7, unlaned <- x8

\* Three routes in two slots and the one of the others.
Route == INSTANCE Routes WITH
    Threads <- Actors, Routes <- {4, 6, 7}, Tag <- [r \in {4, 6, 7} |-> r],
    SLOTS <- 3, PROBES <- 2, Bounds <- 1, MaxResponses <- 3,
    slot <- x1, thread <- x2, seen <- x3, gaveUp <- x4

BleedCut(k) == "cut"
Leak == INSTANCE Bleed WITH
    Workers <- Actors, Apps <- {"a", "b"}, Keys <- {"k", "long"},
    LongKeys <- {"long"}, Cut <- BleedCut, SLOTS <- 3, Deaths <- TRUE,
    MaxFindings <- 5,
    lock <- x1, row <- x2, dropped <- x3, worker <- x4, found <- x5, taken <- x6

Sink == INSTANCE LogSink WITH
    QUEUE <- 3, BATCH <- 2, MaxRows <- 7,
    queue <- x1, buf <- x2, sink <- x3, logs <- x4, logged <- x5, lossy <- x6

Roll == INSTANCE Rollup WITH
    Slots <- 1..2, Bounds <- <<1, 2>>, MaxResponses <- 3, MaxPids <- 4,
    MaxWindows <- 2,
    worker <- x1, pids <- x2, leader <- x3, count <- x4, windows <- x5

\* The days up to the year 2101, which is no leap year's successor.
Days == INSTANCE Calendar WITH LastDay <- 47850, day <- x1, date <- x2

Ask == INSTANCE Oracle WITH
    Paths <- {<<"b", "1">>, <<"b", "2", "">>}, Ids <- {"1", "2"},
    Responses <- {<<1, "plain">>, <<2, "plain">>, <<1, "cookie">>,
                  <<1, "session">>, <<1, "opted">>, <<1, "error">>},
    Ttls <- <<1, 2>>, MaxTime <- 4, MaxSamples <- 3,
    clock <- x1, log <- x2

Template == INSTANCE Cow WITH
    MIN <- 1, MAX <- 3, IDLE <- 2, MaxPids <- 5,
    pc <- x1, i <- x2, desired <- x3, wanted <- x4, child <- x5, newborn <- x6,
    proc <- x7, idle <- x8, signals <- x9, SHUTDOWN <- x10, unseen <- x11

Certs == INSTANCE Acme WITH
    Domains <- {1, 2}, Workers <- Actors, RENEW <- 1, MaxTime <- 2,
    MaxOrders <- 3, MaxCrashes <- 1,
    key <- x1, cert <- x2, renew_at <- x3, clock <- x4, master <- x5, pc <- x6,
    order <- x7, authz <- x8, front <- x9, challenges <- x10, seen <- x11,
    roll <- x12, worker <- x13, crashes <- x14

Install == INSTANCE Upgrade WITH
    Upgraders <- Actors, MaxRuns <- 3,
    prefix <- x1, backup <- x2, keyed <- x3, up <- x4, runs <- x5, history <- x6

\* A page that is there, one that is not and one that fails now and then.
Deploys == {[u \in {1, 2} |-> IF u = 1 THEN k ELSE "ok"] : k \in {"ok", "missing", "flaky"}}
Try == INSTANCE Verify WITH
    Urls <- {1, 2}, Cell <- [u \in {1, 2} |-> u], Releases <- Deploys,
    BUDGET <- 1, WINDOW <- 1, TIMEOUT <- 2, MaxDeploys <- 3, MaxRequests <- 2,
    MaxExits <- 3,
    code <- x1, ring <- x2, canary <- x3, fleet <- x4, region <- x5,
    gate_state <- x6, quarantined <- x7, requests <- x8, exits <- x9, asked <- x10,
    mixed <- x11

\* Two directories, one of them served through a link or not, and a key that looks stored.
Apps == INSTANCE Namespace WITH
    Webs <- {"web", "other"}, Sidecars <- {"queue"}, Roots <- {1, 2, 3}, Ids <- {1, 2},
    Reals <- {<<1, 2, 1>>, <<1, 2, 2>>}, Letters <- {<<"k">>}, SEP <- <<"sep">>,
    Texts <- {<< <<"k">> >>, << <<"path", 2>>, <<"sep">>, <<"k">> >>}, MaxStored <- 2,
    sites <- x1, server <- x2, real <- x3, wanted <- x4, sidecar <- x5, memo <- x6,
    current <- x7, serving <- x8, stored <- x9

Rule(l, w, b) == [limit |-> l, window |-> w, burst |-> b]
Rate == INSTANCE RateLimit WITH
    Procs <- Actors, Keys <- {k1, k2}, Slots <- 2, PROBE <- 2, MILLI <- 2,
    Home <- [k \in {k1, k2} |-> IF k = k1 THEN 0 ELSE 1],
    Rules <- {Rule(1, 2, 0), Rule(1, 1, 0)}, MaxTime <- 3, MaxMade <- 2,
    rule <- x1, clock <- x2, bucket <- x3, proc <- x4, allowed <- x5, made <- x6,
    promise <- x7

-----------------------------------------------------------------------------
MCInit ==
    \/ part = "ring" /\ Ring!Init /\ Off5
    \/ part = "lane" /\ Lane!Init /\ Off8
    \/ part = "route" /\ Route!Init /\ Off4
    \/ part = "leak" /\ Leak!Init /\ Off6
    \/ part = "sink" /\ Sink!Init /\ Off6
    \/ part = "roll" /\ Roll!Init /\ Off5
    \/ part = "days" /\ Days!Init /\ Off2
    \/ part = "ask" /\ Ask!Init /\ Off2
    \/ part = "template" /\ Template!Init /\ Off11
    \/ part = "certs" /\ Certs!Init /\ Off14
    \/ part = "install" /\ Install!Init /\ Off6
    \/ part = "try" /\ Try!Init /\ Off11
    \/ part = "rate" /\ Rate!Init /\ Off7
    \/ part = "apps" /\ Apps!Init /\ Off9

MCNext ==
    /\ \/ part = "ring" /\ Ring!Next /\ Keep5
       \/ part = "lane" /\ Lane!Next /\ Keep8
       \/ part = "route" /\ Route!Next /\ Keep4
       \/ part = "leak" /\ Leak!Next /\ Keep6
       \/ part = "sink" /\ Sink!Next /\ Keep6
       \/ part = "roll" /\ Roll!Next /\ Keep5
       \/ part = "days" /\ Days!Next /\ Keep2
       \/ part = "ask" /\ Ask!Next /\ Keep2
       \/ part = "template" /\ Template!Next /\ Keep11
       \/ part = "certs" /\ Certs!Next /\ Keep14
       \/ part = "install" /\ Install!Next /\ Keep6
       \/ part = "try" /\ Try!Next /\ Keep11
       \/ part = "rate" /\ Rate!Next /\ Keep7
       \/ part = "apps" /\ Apps!Next /\ Keep9
    /\ UNCHANGED part

x == <<x1, x2, x3, x4, x5, x6, x7, x8, x9, x10, x11, x12, x13, x14>>

MCSpec == MCInit /\ [][MCNext]_<<part, x>>

\* Reloads alone.
TrySpec == part = "try" /\ MCInit /\ [][MCNext]_<<part, x>>

Alike == Permutations(Actors)

-----------------------------------------------------------------------------
\* A name has one entry in the tables that workers fill without a lock or under one
\* that is given up: a queue one lane, a route one slot, a leak one row, and what is
\* counted there adds up (squeue.rs, routes.rs, bleed.rs).
OneEntryPerName ==
    /\ part = "lane" => Lane!LanesNameTheirQueue
    /\ part = "route" => Route!RoutesAreCounted
    /\ part = "leak" => Leak!OneRowPerLeak

\* What an operator reads is so: rows of the log are shipped once, in order and with
\* the right date, metrics are not doubled, percentiles are ranks, a suggested cache
\* rule would have changed no page, and the warnings about queues tell the faults apart
\* (observ_sql.rs, oracle.rs, queue.rs).
ReportsAreTrue ==
    /\ part = "lane" => Lane!WarningsAreTrue
    /\ part = "sink" => Sink!RowsAreShippedOnce
    /\ part = "days" => Days!DatesAreTheCalendars
    /\ part = "roll" => Roll!WindowsAreTrue
    /\ part = "ask" => Ask!SuggestionsAreSafe

\* A job ring that fits is kept with its jobs over restarts, and one that does not is
\* never used (squeue.rs).
RingsAreKept ==
    [][part = "ring" => Ring!RingsFit' /\ Ring!JobsSurviveRestarts]_<<part, x>>

\* The template knows every worker, outlives it and tells the surplus to go
\* (supervisor.rs).
WorkersAreKnown == part = "template" => Template!WorkersAreKnown

\* Torn key pairs are renewed and ready challenges answered (acme.rs).
CertificatesHold == part = "certs" => Certs!CertificatesHold

\* An upgrade leaves an install, and a genuine one (upgrade.rs).
InstallsHold == part = "install" => Install!InstallsHold

\* A fleet is rolled onto what its own canary tried (verify.rs).
RollsOnlyWhatWasTried == part = "try" => Try!RollsOnlyWhatWasTried

\* Every application has its own data, and all its processes have it (ns.rs, config.rs).
AppsAreApart == part = "apps" => Apps!AppsAreApart

\* A client gets what the rule gives (ratelimit.rs).
RatesAreKept == part = "rate" => Rate!RatesAreKept

\* What begin_reload says: "A new deploy gets a new verdict." (supervisor.rs).
NewDeployNewVerdict == part = "try" => Try!NewDeployNewVerdict

=============================================================================
