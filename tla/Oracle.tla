------------------------------- MODULE Oracle -------------------------------
(***************************************************************************)
(* The cache oracle (crates/askr/src/oracle.rs): what a cache rule would   *)
(* have done to the traffic that was logged.  A path is a sequence of      *)
(* segments, a body is its hash, and the log grows by one sample a step.   *)
(***************************************************************************)
EXTENDS Naturals, Sequences, FiniteSets, SequencesExt

CONSTANTS
    Paths,        \* paths of requests
    Ids,          \* segments that are identifiers (is_identifier)
    Responses,    \* pairs of a body and a kind: plain, cookie, session,
                  \* opted or error
    Ttls,         \* candidate TTLs
    MaxTime, MaxSamples   \* bounds

VARIABLES
    clock,
    log           \* the samples, in the order of their time

vars == <<clock, log>>

\* A request that ran PHP is logged: a page, one for a request with cookies, one that
\* sets a cookie, one that asked to be cached, or something else than a page.
Sample(p, body, kind) ==
    /\ Len(log) < MaxSamples
    /\ log' = Append(log, [ts |-> clock, path |-> p, body |-> body,
                          ok |-> kind # "error", kind |-> kind])
    /\ UNCHANGED clock

Tick == clock < MaxTime /\ clock' = clock + 1 /\ UNCHANGED log

Init == clock = 0 /\ log = <<>>

Next ==
    \/ \E p \in Paths, r \in Responses : Sample(p, r[1], r[2])
    \/ Tick

Spec == Init /\ [][Next]_vars

-----------------------------------------------------------------------------
\* path_pattern: empty segments go, identifiers become a star.
path_pattern(p) ==
    LET kept == SelectSeq(p, LAMBDA seg : seg # "")
    IN [i \in DOMAIN kept |-> IF kept[i] \in Ids THEN "*" ELSE kept[i]]

\* simulate, one sample: a request that the stored page would have answered is a hit, and
\* diverges when it got another body; any other is stored.
CountSample(v, s, ttl) ==
    LET mine == {e \in v.store : e.path = s.path /\ s.ts - e.ts <= ttl}
    IN IF ~s.ok THEN v
       ELSE IF mine # {}
       THEN [v EXCEPT !.hits = @ + 1, !.divergent = @ + Cardinality({e \in mine : e.body # s.body})]
       ELSE [v EXCEPT !.store = {e \in @ : e.path # s.path} \cup
                                {[path |-> s.path, ts |-> s.ts, body |-> s.body]}]

\* simulate: the samples of the pattern, in order.
simulate(samples, pattern, ttl) ==
    LET mine == SelectSeq(samples, LAMBDA s : path_pattern(s.path) = pattern)
        eligible == SelectSeq(mine, LAMBDA s : s.ok)
        v == FoldLeft(LAMBDA acc, s : CountSample(acc, s, ttl),
                      [store |-> {}, hits |-> 0, divergent |-> 0], mine)
    IN [ttl |-> ttl, requests |-> Len(mine), eligible |-> Len(eligible), hits |-> v.hits,
        divergent |-> v.divergent,
        with_cookies |-> Len(SelectSeq(mine, LAMBDA s : s.kind = "cookie")),
        set_cookie |-> Len(SelectSeq(mine, LAMBDA s : s.kind = "session")),
        opted_in |-> \E i \in DOMAIN mine : mine[i].kind = "opted"]

\* Verdict::risk
risk(v) ==
    IF v.divergent > 0 \/ v.set_cookie > 0 THEN "unsafe"
    ELSE IF v.with_cookies > 0 THEN "cookies" ELSE "identical"

Patterns == {path_pattern(log[i].path) : i \in DOMAIN log}

\* report: the TTL that saves most, the first of those that save as much.  The log counts
\* the same PHP time for every request.
best(pattern) ==
    LET vs == [i \in DOMAIN Ttls |-> simulate(log, pattern, Ttls[i])]
        i == CHOOSE i \in DOMAIN vs :
               /\ \A j \in DOMAIN vs : vs[j].hits <= vs[i].hits
               /\ \A j \in 1..(i - 1) : vs[j].hits < vs[i].hits
    IN vs[i]

\* report: the rules an operator is told to paste.
Suggested ==
    {p \in Patterns : LET v == best(p)
                      IN /\ v.eligible > 0 /\ v.divergent = 0 /\ v.set_cookie = 0
                         /\ v.hits > 0 /\ ~v.opted_in}

-----------------------------------------------------------------------------
\* The samples of a path that a rule would have answered from the page stored by the
\* first of them: nobody stored one before it that was still fresh.
Opens(i, ttl) ==
    /\ log[i].ok
    /\ \E W \in SUBSET {j \in 1..i : log[j].ok /\ log[j].path = log[i].path} :
         /\ i \in W
         /\ \A j \in W : \A k \in 1..(j - 1) :
              log[k].ok /\ log[k].path = log[i].path
              => (k \in W => log[j].ts - log[k].ts > ttl)
         /\ \A j \in 1..i : log[j].ok /\ log[j].path = log[i].path /\ j \notin W
              => \E k \in W : k < j /\ log[j].ts - log[k].ts <= ttl

\* A suggested rule would have given every visitor of the sample the page they got: the
\* requests that fall in the life of a stored page all had that page's body, and the hits
\* claimed for it are all the requests but the ones that stored a page.
SuggestionsAreSafe ==
    \A p \in Suggested :
      LET ttl == best(p).ttl
          mine == {i \in DOMAIN log : log[i].ok /\ path_pattern(log[i].path) = p}
          stores == {i \in mine : Opens(i, ttl)}
      IN /\ risk(best(p)) # "unsafe"
         /\ best(p).hits = Cardinality(mine \ stores)
         /\ \A i \in stores, j \in mine :
              i < j /\ log[i].path = log[j].path /\ log[j].ts - log[i].ts <= ttl
              => log[i].body = log[j].body

=============================================================================
