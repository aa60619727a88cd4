-------------------------------- MODULE MCWeb -------------------------------
(***************************************************************************)
(* What a worker does with a connection, for TLC: requests that may be     *)
(* cached, and event streams.  The two are checked one at a time: part     *)
(* says which of them moves.                                               *)
(*                                                                         *)
(*   request  four configurations of a server, each with its own clients;  *)
(*   events   the ring's stores and loads are explored with one stream     *)
(*            that stays and no drain;                                     *)
(*            over the table, whose steps are single, a WebSocket takes    *)
(*            part too.  Two publishers and a ring of two slots are enough *)
(*            for a publisher to be overtaken by a whole ring.             *)
(***************************************************************************)
EXTENDS Integers, SequencesExt, TLC

CONSTANTS None, t1, t2, b1, p1, p2, browser, echo, open, private

VARIABLES
    part,
    server, store, inflight, saint, task, left, sent, aged,
    backend, write_seq, slots, pub, tail, batch, published, lapped, unseen, clash,
    client, reg, draining, got, first

-----------------------------------------------------------------------------
IP(a, b) == [fam |-> 4, octets |-> <<a, b>>]
Proxy == IP(2, 1)
Client == IP(1, 3)
Other == IP(1, 2)
Local == IP(0, 1)

shop == <<"shop", ".", "test">>
blog == <<"blog", ".", "test">>
port == <<":", "8">>

Rq(method, path, query, headers) ==
    [method |-> method, path |-> path, query |-> query, headers |-> headers,
     authority |-> None, peer |-> Client, size |-> 0, signed |-> FALSE]
Host(h) == <<<<"host", h>>>>
Get(path, headers) == Rq("GET", path, <<>>, headers)

Text == [t |-> "text"]
Include(src) == [t |-> "include", src |-> src]
Page(cache, vary) ==
    [kind |-> "buffered", status |-> 200, cache |-> cache, vary |-> vary, esi |-> FALSE,
     encoded |-> FALSE, worthwhile |-> TRUE, body |-> <<Text>>]
Shell(body) == [Page(<<<<"num", 2>>>>, {}) EXCEPT !.esi = TRUE, !.body = body]
Failure(status) == [Page(<<>>, {}) EXCEPT !.status = status]
Dead == [Page(<<>>, {}) EXCEPT !.kind = "error"]
Stream == [Page(<<>>, {}) EXCEPT !.kind = "stream"]
Swr == <<<<"num", 2>>, <<"swr", 1>>, <<"sie", 2>>>>

Base == [trusted |-> {}, sites |-> <<>>, docroot |-> "root", https |-> FALSE,
         force_https |-> FALSE, redirects |-> <<>>, rules |-> <<>>, strip |-> {},
         vary_ua |-> FALSE, ignore |-> {}, cache |-> TRUE, saint |-> TRUE, token |-> FALSE,
         loopback |-> Local, limits |-> <<>>, pusher |-> FALSE, secret |-> FALSE,
         clients |-> {}, requests |-> 3, app |-> << >>, files |-> [d \in {"root", "shoproot"} |-> << >>]]

p == <<"p">>
f == <<"f">>

\* Two sites, languages, a port, stale pages and failures.
Varied ==
    [Base EXCEPT
       !.sites = <<[hosts |-> {shop}, docroot |-> "shoproot"]>>,
       !.clients = {Get(p, Host(shop) \o <<<<"accept-language", "en">>>>),
                    Get(p, Host(shop \o port) \o <<<<"accept-language", "de">>>>),
                    Get(p, Host(blog))},
       !.app = p :> {Page(Swr, {"accept-language"}), Page(Swr, {}), Failure(500)}]

\* Holes in pages, and fragments that hold others.
Holes ==
    [Base EXCEPT
       !.clients = {Get(p, Host(shop)), Get(f, Host(shop))},
       !.limits = <<[paths |-> {f}, by |-> "ip"]>>, !.requests = 2,
       !.app = p :> {Shell(<<[t |-> "remove"], Text, [t |-> "endremove"], Include(f), Text,
                             Include(<<"..", "f">>), [t |-> "include", src |-> None]>>)}
               @@ f :> {Page(<<<<"num", 2>>>>, {"accept-language"}), Shell(<<Text, Include(f)>>),
                        Dead}]

\* Who asks, and how.
Personalised ==
    [Base EXCEPT
       !.trusted = {[net |-> IP(2, 0), bits |-> 3]}, !.ignore = {"_ga"}, !.strip = {9},
       !.vary_ua = TRUE,
       !.rules = <<[paths |-> {f}, pass |-> FALSE, force |-> TRUE, ttl |-> 0, swr |-> 0, sie |-> 0]>>,
       !.clients = {Get(p, Host(shop) \o <<<<"cookie", {"_ga"}>>>>),
                    Get(p, Host(shop) \o <<<<"cookie", {"_ga"}>>, <<"cookie", {"sid"}>>>>),
                    Get(p, Host(shop) \o <<<<"authorization", "basic">>, <<"user-agent", "phone">>>>),
                    Get(p, Host(shop) \o <<<<"user-agent", "phone">>>>),
                    Get(f, Host(shop) \o <<<<"cookie", {"sid"}>>>>),
                    [Get(p, Host(shop) \o <<<<"x-forwarded-proto", "https">>>>) EXCEPT !.peer = Proxy],
                    Rq("GET", p, <<<<2, 1>>, <<1, 1>>, <<9, 1>>>>, Host(shop)),
                    Rq("GET", p, <<<<1, 1>>, <<2, 1>>>>, Host(shop)),
                    Rq("GET", p, <<<<1, 1>>, <<1, 2>>>>, Host(shop)),
                    Rq("GET", p, <<<<1, 2>>, <<1, 1>>>>,
                       Host(shop) \o <<<<"accept-encoding", <<[name |-> "br", refused |-> FALSE]>>>>>>)},
       !.app = p :> {Page(<<<<"num", 2>>>>, {"accept-encoding"})}
               @@ f :> {Page(<<>>, {}), [Page(Swr, {}) EXCEPT !.encoded = TRUE], Page(Swr, {"*"})}]

\* What is answered without PHP.
Routed ==
    [Base EXCEPT
       !.redirects = <<[from |-> blog, to |-> shop]>>, !.pusher = TRUE, !.secret = TRUE,
       !.rules = <<[paths |-> {f}, pass |-> TRUE, force |-> FALSE, ttl |-> None, swr |-> 0, sie |-> 0]>>,
       !.files = [Base.files EXCEPT !["root"] = (<<"a.css">> :> 3)],
       !.clients = {[Rq("PURGE", p, <<>>, Host(shop)) EXCEPT !.peer = Local],
                    Rq("PURGE", p, <<>>, Host(shop)),
                    [Rq("BAN", p, <<>>, Host(shop) \o <<<<"x-ban-url", [regex |-> FALSE, paths |-> {p}]>>>>) EXCEPT !.peer = Local],
                    [Rq("BAN", p, <<>>, Host(shop)) EXCEPT !.peer = Local],
                    Get(p, Host(blog)), Get(p, Host(shop)), Get(f, Host(shop)),
                    [Get(p, Host(shop)) EXCEPT !.size = 9],
                    Get(<<"askr", "events">>, Host(shop)), Get(<<"..", "a.css">>, Host(shop)),
                    Rq("POST", <<"apps", "events">>, <<>>, Host(shop))},
       !.app = p :> {Page(<<<<"num", 0>>>>, {})} @@ f :> {Stream, Page(Swr, {})}]


Web == INSTANCE Request WITH
         Configs <- <<Varied, Holes, Personalised, Routed>>,
         Tasks <- {t1, t2}, Background <- {b1}, OctetBits <- 2, Hidden <- {".git"},
         Sources <- {"i.php"}, Leftovers <- {"i.bak"}, Scripts <- {"a.css"},
         MaxStatic <- 4, MaxAges <- 2, ESI_MAX_PASSES <- 2, ESI_MAX_INCLUDES <- 2,
         MaxBody <- 3

-----------------------------------------------------------------------------
Ev == INSTANCE Events WITH
        Publishers <- {p1, p2}, Channels <- {open, private}, Private <- {private},
        Backends <- {"ring", "sql"}, RING_SLOTS <- 2, BATCH <- 2, MaxSeq <- 3,
        SseClients <- {browser}, WsClients <- {echo}, Signed <- TRUE, QueueCap <- 1,
        Present <- [b \in {"ring", "sql"} |->
                      IF b = "ring" THEN {browser} ELSE {browser, echo}],
        MAX_SUBSCRIPTIONS <- 1, sent <- published

ASSUME Ev!BroadcastAssumption

-----------------------------------------------------------------------------
requestVars == <<server, store, inflight, saint, task, left, sent, aged>>
eventVars == <<backend, write_seq, slots, pub, tail, batch, published, lapped, unseen,
               clash, client, reg, draining, got, first>>

\* The parts that are not used.
NoRequest == /\ server = 0 /\ store = 0 /\ inflight = 0 /\ saint = 0 /\ task = 0
             /\ left = 0 /\ sent = 0 /\ aged = 0
NoEvents == /\ backend = 0 /\ write_seq = 0 /\ slots = 0 /\ pub = 0 /\ tail = 0
            /\ batch = 0 /\ published = 0 /\ lapped = 0 /\ unseen = 0 /\ clash = 0
            /\ client = 0 /\ reg = 0 /\ draining = 0 /\ got = 0 /\ first = 0

MCInit == \/ part = "request" /\ Web!Init /\ NoEvents
          \/ part = "events" /\ Ev!Init /\ NoRequest

MCNext ==
    \/ part = "request" /\ Web!Next /\ UNCHANGED <<part, eventVars>>
    \/ /\ part = "events" /\ Ev!Next /\ UNCHANGED <<part, requestVars>>
       /\ backend = "ring" => ~draining' /\ client'[browser].st # "gone"

MCSpec == MCInit /\ [][MCNext]_<<part, requestVars, eventVars>>

\* Tasks are alike, and so are publishers; one part moves, so that they may be
\* swapped together.
Alike == {to @@ [z \in {p1, p2} |-> IF to[t1] = t1 THEN z ELSE IF z = p1 THEN p2 ELSE p1] :
            to \in Permutations({t1, t2})}

-----------------------------------------------------------------------------
\* A request is read right, a page from the shared cache is one PHP would have
\* rendered for this client, and an assembled page has no include left
\* (trust.rs, cgi.rs, statics.rs, cache_policy.rs, esi.rs).
AnswersFit == part = "request" => Web!AnswersFit

\* A key that has a leader has a future that will release it (server/mod.rs).
LeadersRelease == part = "request" => Web!LeadersRelease

\* A client is sent the events of its channels, whole, in order and without a gap,
\* or is disconnected (broadcast.rs, broadcast_sql.rs, sse.rs, ws.rs).
EventsAreDelivered == part = "events" => Ev!EventsAreDelivered

=============================================================================
