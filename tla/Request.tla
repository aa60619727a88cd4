------------------------------- MODULE Request -------------------------------
(***************************************************************************)
(* The way of a request through handle() (server/mod.rs): the rate limit,  *)
(* PURGE and BAN, redirects, the site, static files, the response cache    *)
(* (server/cache_policy.rs), PHP, and the assembly of edge-side includes   *)
(* (server/esi.rs); and the background refresh of a stale page.            *)
(*                                                                         *)
(* Requests of one worker interleave at every await and at every look at   *)
(* the shared cache.  The cache is a function from keys to entries here:   *)
(* its slots are module RCache, the leader table is Coalesce, the buckets  *)
(* of the limiter are RateLimit, upload bodies are Upload.  What PHP sent  *)
(* is the $_SERVER it was called with: enough to say whether a page is     *)
(* the right one for the client that gets it.                              *)
(***************************************************************************)
EXTENDS Http

CONSTANTS
    Tasks,          \* the request futures of a worker
    Background,     \* bound: the refreshes at once
    Configs,        \* a sequence of configurations, each with its clients' requests and how
                    \* many of them in all (a bound), what the
                    \* application may answer per path, and the files per docroot
    MaxAges,        \* bound: entries that age or go by themselves
    ESI_MAX_PASSES, ESI_MAX_INCLUDES,
    MaxBody         \* max_body_size

VARIABLES
    server,     \* which of Configs
    store,      \* the response cache
    inflight,   \* keys with a leader
    saint,      \* saint mode: PHP failed a moment ago
    task,       \* the futures
    left,       \* history: keys whose leader returned without releasing them
    sent, aged  \* bounds

vars == <<server, store, inflight, saint, task, left, sent, aged>>

-----------------------------------------------------------------------------
cfg == Configs[server]

Idle == [pc |-> "idle"]
Stopped(t) == task[t].pc \in {"idle", "done"}

\* A future at its start; key is None while the request is not cacheable, todo is
\* what maybe_store has still to write, counted the address a limit was counted by.
Fresh(r, pc) ==
    [pc |-> pc, r |-> r, key |-> None, lead |-> FALSE, fetch |-> "get", names |-> {},
     from |-> "php", status |-> 200, enc |-> "id", esi |-> FALSE, body |-> <<>>,
     todo |-> <<>>, rest |-> <<>>, out |-> <<>>, passes |-> 0,
     budget |-> ESI_MAX_INCLUDES, counted |-> None]

Step(t, f) == task' = [task EXCEPT ![t] = f]
Rest(v) == UNCHANGED v

\* The answer, and the end of the future.
Answer(f, from, status) ==
    [Fresh(f.r, "done") EXCEPT !.from = from, !.status = status, !.body = f.body,
       !.enc = f.enc, !.esi = f.esi, !.passes = f.passes]

Arrive(t) ==
    /\ Stopped(t) /\ sent < cfg.requests
    /\ \E r \in cfg.clients : Step(t, Fresh(r, "limit"))
    /\ sent' = sent + 1
    /\ Rest(<<server, store, inflight, saint, left, aged>>)

-----------------------------------------------------------------------------
\* ratelimit_check: whom the first rule that matches the path counts the request
\* for, None if it is not limited.
Identity(r) ==
    LET match == {i \in DOMAIN cfg.limits : r.path \in cfg.limits[i].paths}
        by == cfg.limits[Min(match)].by
    IN IF match = {} THEN None
       ELSE IF by = "ip" THEN client_ip_from(r, cfg.trusted) ELSE Value(r, by)

Limit(t) ==
    LET f == task[t]
    IN /\ f.pc = "limit"
       /\ \/ Step(t, [f EXCEPT !.pc = "route", !.counted = Identity(f.r)])
          \/ Identity(f.r) # None /\ Step(t, Answer(f, "limit", 429))
       /\ Rest(<<server, store, inflight, saint, left, sent, aged>>)

-----------------------------------------------------------------------------
\* invalidate_request: who may, and which keys go.  The query of a PURGE is matched
\* as it was sent.
MayInvalidate(r) ==
    IF cfg.token THEN Value(r, "authorization") = "token"
    ELSE r.peer = cfg.loopback /\ cfg.trusted = {}

Purged(r) ==
    {k \in DOMAIN store :
       /\ k.host = HostOf(r)
       /\ IF r.method = "PURGE" THEN k.path = r.path /\ (r.query = <<>> \/ k.query = r.query)
          ELSE k.path \in Value(r, "x-ban-url").paths}

Invalidate(t) ==
    LET f == task[t]
        r == f.r
        refusal == IF ~MayInvalidate(r) THEN 403
                   ELSE IF ~cfg.cache THEN 409
                   ELSE IF HostOf(r) = <<>> THEN 400
                   ELSE IF r.method = "BAN" /\ (~Has(r, "x-ban-url") \/ Value(r, "x-ban-url").regex) THEN 400
                   ELSE 0
    IN /\ f.pc = "route" /\ r.method \in {"PURGE", "BAN"}
       /\ store' = IF refusal # 0 THEN store
                   ELSE [k \in DOMAIN store \ Purged(r) |-> store[k]]
       /\ Step(t, Answer(f, "invalidate", IF refusal # 0 THEN refusal ELSE 200))
       /\ Rest(<<server, inflight, saint, left, sent, aged>>)

Redirects(r) == (cfg.force_https \/ cfg.redirects # <<>>) /\ redirect_target(cfg, r) # None

\* The WebSocket and event-stream endpoints, which module Events goes on with.
Streams(r) == \/ cfg.pusher /\ r.path[1] = "app" /\ Has(r, "upgrade")
              \/ r.method = "GET" /\ r.path = <<"askr", "events">>

\* try_files: a regular file of the site that may be served.
Static(r) ==
    LET rel == sanitize(r.path)
    IN rel # <<>> /\ ~static_forbidden(rel) /\ rel \in DOMAIN cfg.files[site_for(cfg, HostOf(r))]

\* The file is opened after it was looked up, and may be gone then.
ServeStatic(t) ==
    LET f == task[t]
        rel == sanitize(f.r.path)
        a == serve_static(f.r, Last(rel), cfg.files[site_for(cfg, HostOf(f.r))][rel], "etag")
    IN /\ f.pc = "static"
       /\ \/ Step(t, [Answer(f, "static", a.status) EXCEPT !.enc = a.enc])
          \/ a.status # 304 /\ Step(t, Answer(f, "static", 404))
       /\ Rest(<<server, store, inflight, saint, left, sent, aged>>)

\* May the answer come from the cache, and go there?
Cacheable(r) ==
    /\ cfg.cache /\ ~Rule(cfg, r.path, "pass", FALSE)
    /\ r.method \in {"GET", "HEAD"}
    /\ ~carries_identity(r, cfg.ignore) \/ Rule(cfg, r.path, "force", FALSE)

Route(t) ==
    LET f == task[t]
        r == f.r
    IN /\ f.pc = "route" /\ r.method \notin {"PURGE", "BAN"}
       /\ Step(t, IF Redirects(r) THEN Answer(f, "redirect", 308)
                  ELSE IF Streams(r) THEN Answer(f, "stream", 200)
                  ELSE IF Static(r) THEN [f EXCEPT !.pc = "static"]
                  ELSE IF Cacheable(r)
                  THEN [f EXCEPT !.pc = "find", !.key = response_cache_key(cfg, r)]
                  ELSE [f EXCEPT !.pc = "body"])
       /\ Rest(<<server, store, inflight, saint, left, sent, aged>>)

-----------------------------------------------------------------------------
\* rcache::get, peek and stale_on_error: a get does not return what is kept for
\* failures only.
Holds(k, fetch) == k \in DOMAIN store /\ (fetch = "get" => store[k].age # "error")
Index(e) == e.index # None

\* cached_response: the stored bytes as they are.
Serve(f, e, from) ==
    [Answer(f, from, 200) EXCEPT !.body = e.body, !.enc = e.enc, !.esi = e.esi]

\* The answer from the cache; only a hit is assembled.
Found(f, e) ==
    CASE f.fetch = "get" ->
           IF e.esi /\ e.body # <<>>
           THEN [f EXCEPT !.pc = "esi", !.from = "cache", !.body = e.body, !.esi = TRUE]
           ELSE Serve(f, e, "cache")
      [] f.fetch = "saint" -> Serve(f, e, "fallback")
      [] f.fetch = "peek" ->
           IF e.age = "error" THEN [f EXCEPT !.pc = "body"] ELSE Serve(f, e, "coalesced")
      [] f.fetch = "failed" -> Serve(f, e, "fallback")

\* rcache::begin.
Begin(f) == IF f.key \in inflight THEN [f EXCEPT !.pc = "wait"]
            ELSE [f EXCEPT !.pc = "body", !.lead = TRUE]

Missed(f) ==
    CASE f.fetch = "get" ->
           IF saint THEN [f EXCEPT !.pc = "find", !.fetch = "saint"] ELSE Begin(f)
      [] f.fetch = "saint" -> Begin(f)
      [] f.fetch = "peek" -> [f EXCEPT !.pc = "body"]
      [] f.fetch = "failed" -> Answer(f, "php", f.status)

\* Fault: a leader that falls back to a stored page keeps its key.
LookKeeps(t, g) ==
    /\ Step(t, g)
    /\ inflight' = IF g.lead /\ ~task[t].lead THEN inflight \cup {g.key}
                   ELSE IF task[t].lead /\ g.pc = "done" /\ g.from # "fallback"
                   THEN inflight \ {task[t].key}
                   ELSE inflight

\* A step of the lookup: the key is taken by a leader, or let go by a request that
\* is over.
Look(t, g) ==
    /\ Step(t, g)
    /\ inflight' = IF g.lead /\ ~task[t].lead THEN inflight \cup {g.key}
                   ELSE IF task[t].lead /\ g.pc = "done" THEN inflight \ {task[t].key}
                   ELSE inflight

\* spawn_swr_refresh: the request that the refresh makes up has the URL, the host,
\* the encodings and, if the key tells devices apart, the user agent.
Synthetic(r) ==
    [r EXCEPT !.authority = None,
       !.headers = <<<<"host", IF effective_host(r) = None THEN <<>> ELSE effective_host(r)>>>>
                   \o SelectSeq(r.headers, LAMBDA h :
                        \/ h[1] = "accept-encoding"
                        \/ h[1] = "user-agent" /\ cfg.vary_ua)]

\* A stale hit that is no variant starts a refresh, unless its key has a leader.
Refreshes(f, e) == f.fetch = "get" /\ e.age = "stale" /\ f.key \notin inflight

Find(t) ==
    LET f == task[t]
        e == store[f.key]
    IN /\ f.pc = "find" /\ f.todo = <<>>
       /\ IF ~Holds(f.key, f.fetch) THEN Look(t, Missed(f))
          ELSE IF Index(e) THEN Look(t, [f EXCEPT !.pc = "variant", !.names = e.index])
          ELSE IF Refreshes(f, e)
          THEN \E b \in Background :
                 /\ task[b] = Idle
                 /\ task' = [task EXCEPT ![t] = Found(f, e),
                               ![b] = [Fresh(Synthetic(f.r), "refresh") EXCEPT
                                         !.key = f.key, !.lead = TRUE]]
                 /\ inflight' = inflight \cup {f.key}
          ELSE Look(t, Found(f, e))
       /\ Rest(<<server, store, saint, left, sent, aged>>)

\* resolve_cached, the second lookup: the variant for this request's headers.
Variant(t) ==
    LET f == task[t]
        k == secondary_key(f.key, f.names, f.r)
    IN /\ f.pc = "variant"
       /\ Look(t, IF Holds(k, f.fetch) /\ ~Index(store[k]) THEN Found(f, store[k])
                  ELSE Missed(f))
       /\ Rest(<<server, store, saint, left, sent, aged>>)

\* A follower waits for the leader, and not for ever.
Wait(t) ==
    LET f == task[t]
    IN /\ f.pc = "wait"
       /\ \/ f.key \notin inflight /\ Step(t, [f EXCEPT !.pc = "find", !.fetch = "peek"])
          \/ Step(t, [f EXCEPT !.pc = "body"])
       /\ Rest(<<server, store, inflight, saint, left, sent, aged>>)

-----------------------------------------------------------------------------
\* The body is read, or is too large; the Pusher trigger is answered without PHP.
\* A leader that returns here leaves its key taken.
Triggers(r) == cfg.pusher /\ r.method = "POST" /\ r.path[1] = "apps" /\ Last(r.path) = "events"

ReadBody(t) ==
    LET f == task[t]
    IN /\ f.pc = "body"
       /\ Step(t, IF f.r.size > MaxBody THEN Answer(f, "refused", 413)
                  ELSE IF Triggers(f.r)
                  THEN Answer(f, "trigger", IF cfg.secret /\ ~f.r.signed THEN 401 ELSE 200)
                  ELSE [f EXCEPT !.pc = "php"])
       /\ left' = IF f.lead /\ f.r.size > MaxBody THEN left \cup {f.key} ELSE left
       /\ Rest(<<server, store, inflight, saint, sent, aged>>)

\* What PHP sends for a request: the pieces of its answer's body, each with what it
\* was rendered from.
Render(r, site, a, by) ==
    [i \in DOMAIN a.body |->
       IF a.body[i].t # "text" THEN a.body[i]
       ELSE [t |-> "text", saw |-> build_request(cfg, r, site), vary |-> a.vary, by |-> by]]

\* maybe_store, the refusals: the status, no directive, Vary: *, a body that the
\* application compressed.
Storable(r, a) ==
    /\ a.kind = "buffered" /\ a.status = 200
    /\ Rule(cfg, r.path, "ttl", None) # None \/ parse_cache_directive(a.cache) # None
    /\ "*" \notin a.vary /\ ~a.encoded

\* A rule's lifetimes win over the application's.
Lifetime(r, a) ==
    LET rule == cache_rule_for(cfg, r.path)
    IN IF rule # None /\ Rule(cfg, r.path, "ttl", None) # None
       THEN [ttl |-> rule.ttl, swr |-> rule.swr, sie |-> rule.sie]
       ELSE parse_cache_directive(a.cache)

\* Fault: a response that varies is kept like any other.
WritesPlain(k, r, a, body, offers) ==
    LET life == Lifetime(r, a)
    IN <<<<k, [index |-> None, body |-> body, esi |-> a.esi,
               enc |-> maybe(a.worthwhile, IF a.esi THEN <<>> ELSE offers),
               age |-> "fresh", life |-> life]>>>>

\* maybe_store, the writes: the entry, or an index that names the headers of an
\* uncovered Vary and the variant under its own key.  A shell is not compressed.
Writes(k, r, a, body, offers) ==
    LET life == Lifetime(r, a)
        e == [index |-> None, body |-> body, esi |-> a.esi,
              enc |-> maybe(a.worthwhile, IF a.esi THEN <<>> ELSE offers),
              age |-> "fresh", life |-> life]
    IN IF vary_is_covered_by_key(a.vary, cfg.vary_ua) THEN <<<<k, e>>>>
       ELSE <<<<k, [e EXCEPT !.index = a.vary, !.body = <<>>, !.esi = FALSE, !.enc = "id"]>>,
              <<secondary_key(k, a.vary, r), e>>>>

MaybeStore(k, r, a, body, offers) ==
    IF k # None /\ Storable(r, a) THEN Writes(k, r, a, body, offers) ELSE <<>>

\* One rcache::store.
Write(t) ==
    LET f == task[t]
        w == f.todo[1]
    IN /\ f.pc # "idle" /\ f.todo # <<>>
       /\ store' = [k \in DOMAIN store \cup {w[1]} |-> IF k = w[1] THEN w[2] ELSE store[k]]
       /\ Step(t, [f EXCEPT !.todo = Tail(f.todo)])
       /\ Rest(<<server, inflight, saint, left, sent, aged>>)

\* PHP answers: a stream goes out as it comes, a failure is a 502.
RunPhp(t) ==
    LET f == task[t]
    IN /\ f.pc = "php"
       /\ \E a \in cfg.app[f.r.path] :
            LET body == Render(f.r, site_for(cfg, HostOf(f.r)), a, "request")
            IN Step(t, CASE a.kind = "stream" -> [f EXCEPT !.pc = "finish", !.body = body]
                         [] a.kind = "error" -> [f EXCEPT !.pc = "finish", !.status = 502]
                         [] a.kind = "buffered" ->
                              [f EXCEPT !.pc = IF a.esi THEN "esi" ELSE "finish",
                                 !.status = a.status, !.body = body, !.esi = a.esi,
                                 !.enc = maybe(a.worthwhile, Accepts(f.r)),
                                 !.todo = MaybeStore(f.key, f.r, a, body, Accepts(f.r))])
       /\ Rest(<<server, store, inflight, saint, left, sent, aged>>)

\* refresh_entry looks for the site with the authority, port and all.
RefreshSite(r) == site_for(cfg, Value(r, "host"))

\* refresh_entry, to the reply; its end releases the key.
Refresh(b) ==
    LET f == task[b]
    IN /\ f.pc = "refresh"
       /\ \E a \in cfg.app[f.r.path] :
            LET body == Render(f.r, RefreshSite(f.r), a, "refresh")
            IN Step(b, [f EXCEPT !.pc = "refreshed",
                          !.todo = MaybeStore(f.key, f.r, a, body, Accepts(f.r))])
       /\ Rest(<<server, store, inflight, saint, left, sent, aged>>)

Refreshed(b) ==
    /\ task[b].pc = "refreshed" /\ task[b].todo = <<>>
    /\ inflight' = inflight \ {task[b].key}
    /\ Step(b, Idle)
    /\ Rest(<<server, store, saint, left, sent, aged>>)

-----------------------------------------------------------------------------
\* esi_expand, one pass: nothing is done to a body without an include.
EsiPass(t) ==
    LET f == task[t]
    IN /\ f.pc = "esi" /\ f.todo = <<>>
       /\ Step(t, IF f.passes < ESI_MAX_PASSES /\ Includes(plan(f.body)) # {}
                  THEN [f EXCEPT !.pc = "pieces", !.rest = plan(f.body), !.out = <<>>,
                                 !.passes = @ + 1]
                  ELSE [f EXCEPT !.pc = "finish"])
       /\ Rest(<<server, store, inflight, saint, left, sent, aged>>)

\* esi_fragment: an anonymous GET from the same peer, with the host alone.
Fragment(r, src) ==
    [method |-> "GET", path |-> src, query |-> <<>>, peer |-> r.peer, authority |-> None,
     headers |-> <<<<"host", HostOf(r)>>>>, size |-> 0, signed |-> FALSE]

NextPiece(f, more) == [f EXCEPT !.rest = Tail(f.rest), !.out = f.out \o more]

\* One fragment of the budget.
Spend(f) == [f EXCEPT !.budget = f.budget - 1]

\* One piece of the plan: text is copied; an include without a budget, refused by
\* its src or by the rate limit, is left out; one in the cache is copied.
Piece(t) ==
    LET f == task[t]
        p == f.rest[1]
        q == Fragment(f.r, p.src)
        k == response_cache_key(cfg, q)
    IN /\ f.pc = "pieces" /\ f.todo = <<>>
       /\ IF f.rest = <<>> THEN Step(t, [f EXCEPT !.pc = "esi", !.body = f.out])
          ELSE IF ~Fetchable(p) THEN Step(t, NextPiece(f, <<p>>))
          ELSE IF f.budget = 0 THEN Step(t, NextPiece(f, <<>>))
          ELSE IF ~safe_src(p.src) THEN Step(t, NextPiece(Spend(f), <<>>))
          ELSE \/ Identity(q) # None /\ Step(t, NextPiece(Spend(f), <<>>))
               \/ Step(t, IF cfg.cache /\ Holds(k, "get")
                          THEN NextPiece(Spend(f), store[k].body)
                          ELSE [Spend(f) EXCEPT !.pc = "fragment"])
       /\ Rest(<<server, store, inflight, saint, left, sent, aged>>)

\* PHP renders the fragment, which is kept like a page; a failure leaves a hole.
FetchFragment(t) ==
    LET f == task[t]
        q == Fragment(f.r, f.rest[1].src)
        k == IF cfg.cache THEN response_cache_key(cfg, q) ELSE None
    IN /\ f.pc = "fragment"
       /\ \E a \in cfg.app[q.path] :
            LET body == Render(q, site_for(cfg, HostOf(f.r)), a, "fragment")
            IN Step(t, IF a.kind = "buffered" /\ a.status = 200
                       THEN [NextPiece(f, body) EXCEPT !.pc = "pieces",
                               !.todo = MaybeStore(k, q, a, body, <<>>)]
                       ELSE [NextPiece(f, <<>>) EXCEPT !.pc = "pieces"])
       /\ Rest(<<server, store, inflight, saint, left, sent, aged>>)

-----------------------------------------------------------------------------
\* The end of handle: a failure falls back to what the cache holds for failures; a
\* leader releases its key with the answer.
Finish(t) ==
    LET f == task[t]
        failed == f.status >= 500
        g == IF failed /\ f.key # None THEN [f EXCEPT !.pc = "find", !.fetch = "failed"]
             ELSE Answer(f, f.from, f.status)
    IN /\ f.pc = "finish" /\ f.todo = <<>>
       /\ Look(t, g)
       /\ saint' = (saint \/ (failed /\ cfg.saint))
       /\ Rest(<<server, store, left, sent, aged>>)

\* Time passes over an entry: fresh, stale, kept for failures, gone; and tags,
\* eviction and a ttl of 0 do the rest (module RCache).
Older(e) ==
    CASE e.life.ttl = 0 -> "gone"
      [] e.age = "fresh" /\ e.life.swr > 0 -> "stale"
      [] e.age = "fresh" /\ e.life.swr = 0 /\ e.life.sie > 0 -> "error"
      [] e.age = "stale" /\ e.life.sie > e.life.swr -> "error"
      [] OTHER -> "gone"

Age(k) ==
    /\ aged < MaxAges /\ aged' = aged + 1
    /\ store' = IF Older(store[k]) = "gone" THEN [j \in DOMAIN store \ {k} |-> store[j]]
                ELSE [store EXCEPT ![k].age = Older(store[k])]
    /\ Rest(<<server, inflight, saint, task, left, sent>>)

SaintEnds == saint /\ saint' = FALSE /\ Rest(<<server, store, inflight, task, left, sent, aged>>)

\* The lease of a key ends (module Coalesce).
Lapse(k) ==
    /\ aged < MaxAges /\ aged' = aged + 1
    /\ inflight' = inflight \ {k} /\ left' = left \ {k}
    /\ Rest(<<server, store, saint, task, sent>>)

Init ==
    /\ server \in DOMAIN Configs
    /\ store = << >> /\ inflight = {} /\ saint = FALSE /\ left = {}
    /\ task = [t \in Tasks \cup Background |-> Idle]
    /\ sent = 0 /\ aged = 0

Handle(t) ==
    \/ Limit(t) \/ Invalidate(t) \/ Route(t) \/ ServeStatic(t)
    \/ Find(t) \/ Variant(t) \/ Wait(t) \/ ReadBody(t) \/ RunPhp(t) \/ Write(t)
    \/ EsiPass(t) \/ Piece(t) \/ FetchFragment(t) \/ Finish(t)

Next ==
    \/ \E t \in Tasks : Arrive(t) \/ Handle(t)
    \/ \E b \in Background : Refresh(b) \/ Write(b) \/ Refreshed(b)
    \/ \E k \in DOMAIN store : Age(k)
    \/ \E k \in inflight : Lapse(k)
    \/ SaintEnds

Spec == Init /\ [][Next]_vars

-----------------------------------------------------------------------------
\* The same variables for PHP: each name has the same values in the same order.
SameQuery(p, q) ==
    LET Kept(s, n) == SelectSeq(s, LAMBDA x : x[1] = n)
    IN \A n \in ({x[1] : x \in ToSet(p) \cup ToSet(q)} \ cfg.strip) : Kept(p, n) = Kept(q, n)

Seen(v, n) == IF n \in DOMAIN v.http THEN v.http[n] ELSE <<>>
SchemeSeen(v) == IF v.HTTPS \/ Seen(v, "x-forwarded-proto") = <<"https">> THEN "https" ELSE "http"
Personal(v) ==
    Seen(v, "authorization") # <<>>
    \/ \E c \in ToSet(Seen(v, "cookie")) : ~cookies_ignorable(c, cfg.ignore)

\* A piece of text that fits a request it is served to from the cache: rendered for
\* the host, the variables, the device and the headers that the answer depends on,
\* and for nobody in particular.  The scheme fits if PHP was told of it at all: a
\* peer that is not trusted, or a refresh, does not pass it on.
Fits(p, r) ==
    LET v == p.saw
    IN /\ host_without_port(v.HTTP_HOST) = HostOf(r)
       /\ p.by # "refresh" => v.site = site_for(cfg, HostOf(r))
       /\ Personal(v) => Rule(cfg, v.path, "force", FALSE)
       /\ v.path = r.path =>
            /\ SameQuery(v.query, r.query)
            /\ cfg.vary_ua => (Seen(v, "user-agent") = <<"phone">>) = (ua_class(r) = "m")
            /\ \A n \in p.vary \ {"accept-encoding", "user-agent"} : Seen(v, n) = Values(r, n)
            /\ SchemeSeen(v) = "https" => request_scheme(cfg, r) = "https"

Texts(body) == {body[i] : i \in {i \in DOMAIN body : body[i].t = "text"}}
Done(t) == task[t].pc = "done"
FromCache(t) == Done(t) /\ task[t].from \in {"cache", "coalesced", "fallback"}

\* Whatever interleaving of stores, refreshes, expiries and lookups led to it, a page
\* that comes from the shared cache is one that PHP would have rendered for this
\* client as well (cache_policy.rs: carries_identity, response_cache_key,
\* resolve_cached, maybe_store), and in an encoding the client takes.
CachedPagesFit ==
    \A t \in Tasks : FromCache(t) =>
      /\ \A p \in Texts(task[t].body) : Fits(p, task[t].r)
      /\ task[t].enc # "id" => accepts(Accepts(task[t].r), task[t].enc)

\* A key that has a leader in the table has a future that will release it, but for
\* a lead that was given up without a word: a body refused with 413 returns from
\* handle before rcache::end (followers then wait for the deadline).
LeadersRelease ==
    \A k \in inflight \ left :
      \E t \in Tasks \cup Background : ~Stopped(t) /\ task[t].key = k /\ task[t].lead

\* An answer that is assembled, on a miss or on a hit, has no include left in it that
\* could have been fetched, unless the passes ran out; and the work for one request
\* is bounded, though fragments may include themselves (esi_expand).
HolesAreFilled ==
    \A t \in Tasks :
      Done(t) /\ task[t].esi /\ task[t].from \in {"php", "cache"} /\ task[t].status = 200 =>
        Includes(plan(task[t].body)) = {} \/ task[t].passes = ESI_MAX_PASSES

\* What a request says is read as its parts define it: the address of a client, the
\* prefix of a network, a range of a file, a port, a query (trust.rs, cgi.rs,
\* statics.rs, normalize_query), each against a definition of another form.
RequestsAreReadRight ==
    sent = 0 =>
      /\ PrefixesAreShifts
      /\ ClientsDoNotNameThemselves([fam |-> 4, octets |-> <<2, 1>>],
           {[fam |-> 4, octets |-> <<1, 3>>], [fam |-> 4, octets |-> <<2, 3>>]},
           {"x-real-ip", "forwarded", "x-forwarded-proto", "x-forwarded-host", "accept"})
      /\ RangesAreMet(MaxStatic)
      /\ PortsAreStripped
      /\ QueriesKeepTheirMeaning(1..3, 1..2, {3})

\* A request is read right, and what it is answered is a page for it: out of the cache
\* or put together from fragments.
AnswersFit == RequestsAreReadRight /\ CachedPagesFit /\ HolesAreFilled
=============================================================================
