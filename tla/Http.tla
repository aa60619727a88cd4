-------------------------------- MODULE Http --------------------------------
(***************************************************************************)
(* What a worker reads out of one request before it runs PHP: who the      *)
(* client is (server/trust.rs), which host and path it asks for (cgi.rs,   *)
(* server/statics.rs), what it accepts (compress.rs), what of it reaches   *)
(* $_SERVER (cgi.rs), and under which key its answer is kept               *)
(* (server/cache_policy.rs).                                               *)
(*                                                                         *)
(* Everything here is a function of the request and the configuration.     *)
(* A request is [method, path, query, headers, authority, peer]: headers   *)
(* is a sequence of <<name, value>>, names in lower case as hyper gives    *)
(* them, and a value is already split the way its reader splits it.        *)
(***************************************************************************)
EXTENDS Integers, Sequences, FiniteSets, SequencesExt, FiniteSetsExt

CONSTANTS
    None,
    OctetBits,   \* bits of one octet of an address
    Hidden,      \* path components that begin with a dot, but .well-known
    Sources,     \* file names with a PHP extension
    Leftovers,   \* editor and deploy leftovers: *.php.*, *~, *.bak and so on
    Scripts,     \* the file names compressible() accepts the type of
    MaxStatic    \* MAX_STATIC

\* The values of a header, in the order of its fields; and the first, as
\* HeaderMap::get returns it.
Values(r, name) ==
    LET fields == SelectSeq(r.headers, LAMBDA h : h[1] = name)
    IN [i \in DOMAIN fields |-> fields[i][2]]
Has(r, name) == Values(r, name) # <<>>
Value(r, name) == IF Has(r, name) THEN Values(r, name)[1] ELSE None

-----------------------------------------------------------------------------
\* server/trust.rs.  An address is [fam, octets], a Cidr [net, bits].

\* masked: the first bits of an address, the rest zero, one octet at a time.
masked(octets, bits) ==
    [i \in DOMAIN octets |->
       LET keep == Min({Max({bits - (i - 1) * OctetBits, 0}), OctetBits})
       IN IF keep = 0 THEN 0 ELSE octets[i] - (octets[i] % 2^(OctetBits - keep))]

cidr_contains(c, ip) ==
    c.net.fam = ip.fam /\ masked(c.net.octets, c.bits) = masked(ip.octets, c.bits)

peer_is_trusted(peer, trusted) == \E c \in trusted : cidr_contains(c, peer)

\* client_ip_from: the hop nearest to the server that is not itself a trusted
\* proxy; a hop that is no address, None here, is skipped.
Chain(r) == FlattenSeq(Values(r, "x-forwarded-for"))
client_ip_from(r, trusted) ==
    LET hops == SelectSeq(Chain(r), LAMBDA h : h # None /\ ~peer_is_trusted(h, trusted))
    IN IF ~peer_is_trusted(r.peer, trusted) \/ hops = <<>> THEN r.peer
       ELSE Last(hops)

-----------------------------------------------------------------------------
\* cgi.rs.  An authority is a sequence of tokens: labels, digits and . : [ ].
Digits == {"8", "0"}
RFind(s, x) == Max({0} \cup {i \in DOMAIN s : s[i] = x})

\* host_without_port: an IPv6 literal stays whole, and so does a port that is none.
host_without_port(a) ==
    LET close == RFind(a, "]")
        colon == RFind(a, ":")
    IN IF close # 0 THEN SubSeq(a, 1, close)
       ELSE IF colon = 0 \/ Contains(SubSeq(a, 1, colon - 1), ":") THEN a
       ELSE IF \A i \in colon + 1 .. Len(a) : a[i] \in Digits THEN SubSeq(a, 1, colon - 1)
       ELSE a

\* effective_host: HTTP/2 has the authority in the URI and no Host header.
effective_host(r) ==
    IF Value(r, "host") \notin {None, <<>>} THEN Value(r, "host") ELSE r.authority

\* The host that redirects, sites and cache keys go by (handle).
HostOf(r) == IF effective_host(r) = None THEN <<>> ELSE host_without_port(effective_host(r))

\* host_matches: a pattern is exact, or *.suffix.
host_matches(host, pattern) ==
    IF pattern[1] = "*" THEN LET suffix == SubSeq(pattern, 3, Len(pattern))
                             IN host = suffix \/ IsSuffix(<<".">> \o suffix, host)
    ELSE host = pattern

\* site_for: the first site that lists the host, else the server's own root.
site_for(cfg, host) ==
    LET match == {i \in DOMAIN cfg.sites : \E p \in cfg.sites[i].hosts : host_matches(host, p)}
    IN IF match = {} THEN cfg.docroot ELSE cfg.sites[Min(match)].docroot

Https(r) == Value(r, "x-forwarded-proto") = "https"

\* request_scheme: what a cache key says of the scheme.
request_scheme(cfg, r) == IF cfg.https \/ Https(r) THEN "https" ELSE "http"

\* redirect_target: force_https first, then the first rule that matches the host.
redirect_target(cfg, r) ==
    LET host == HostOf(r)
        match == {i \in DOMAIN cfg.redirects : host_matches(host, cfg.redirects[i].from)}
    IN IF cfg.force_https /\ host # <<>> /\ ~cfg.https /\ ~Https(r)
       THEN [scheme |-> "https", host |-> host]
       ELSE IF match = {} THEN None ELSE cfg.redirects[Min(match)].to

-----------------------------------------------------------------------------
\* is_forwarding_claim: x-real-ip, forwarded and x-forwarded-*.
is_forwarding_claim(name) ==
    name \in {"x-real-ip", "forwarded", "x-forwarded-proto", "x-forwarded-host"}

\* header_policy: what becomes of a request header on its way to $_SERVER.
header_policy(name, trusted) ==
    CASE name \in {"content-type", "content-length", "proxy", "host"} -> "drop"
      [] name = "x-forwarded-for" -> IF trusted THEN "client" ELSE "drop"
      [] is_forwarding_claim(name) /\ ~trusted -> "drop"
      [] name = "x_forwarded_for" -> "drop"      \* a name with an underscore
      [] OTHER -> "pass"

\* build_request: the part of $_SERVER that depends on the client and on the site
\* that its caller found.  A header that
\* passes is the sequence of its values, joined for PHP into one.
build_request(cfg, r, site) ==
    LET client == client_ip_from(r, cfg.trusted)
        trusted == peer_is_trusted(r.peer, cfg.trusted)
        names == {r.headers[i][1] : i \in DOMAIN r.headers}
    IN [method |-> r.method, path |-> r.path, query |-> r.query,
        site |-> site,
        HTTP_HOST |-> IF effective_host(r) = None THEN <<"localhost">> ELSE effective_host(r),
        REMOTE_ADDR |-> client,
        HTTPS |-> cfg.https,
        http |-> [n \in {n \in names : header_policy(n, trusted) = "pass"} |-> Values(r, n)],
        HTTP_X_FORWARDED_FOR |->
          IF "x-forwarded-for" \in names /\ trusted THEN client ELSE None]

-----------------------------------------------------------------------------
\* compress.rs.  An Accept-Encoding is a sequence of [name, refused]: q=0 refuses.
accepts(offers, name) == \E o \in ToSet(offers) : o.name = name /\ ~o.refused
negotiate(offers) ==
    IF accepts(offers, "br") THEN "br" ELSE IF accepts(offers, "gzip") THEN "gzip" ELSE "id"
Accepts(r) == IF Has(r, "accept-encoding") THEN Value(r, "accept-encoding") ELSE <<>>

\* maybe: a body worth compressing, for a client that takes it.
maybe(worthwhile, offers) == IF worthwhile THEN negotiate(offers) ELSE "id"

-----------------------------------------------------------------------------
\* server/statics.rs.

\* sanitize: the normal components of a path.
sanitize(path) == SelectSeq(path, LAMBDA c : c \notin {"", ".", ".."})

\* static_forbidden: sources, leftovers and anything in a dot directory.
static_forbidden(rel) ==
    (\E i \in DOMAIN rel : rel[i] \in Hidden) \/ Last(rel) \in Sources \cup Leftovers

\* A side of a range that is empty, and one that is no number.
Open == -1
Junk == -2

\* parse_range: the first range of the header, as <<from, to>>; all of the file if
\* it cannot be met.
parse_range(r, len) ==
    LET full == <<0, IF len = 0 THEN 0 ELSE len - 1>>
        spec == Value(r, "range")
        from == spec[1]
        to == spec[2]
        at == CASE from = Open /\ to > 0 -> <<Max({len - to, 0}), len - 1>>
                [] from >= 0 /\ to = Open -> <<from, len - 1>>
                [] from >= 0 /\ to >= 0 -> <<from, Min({to, len - 1})>>
                [] OTHER -> full
    IN IF len = 0 \/ spec = None THEN full
       ELSE IF at[1] > at[2] \/ at[1] >= len THEN full ELSE at

\* serve_static, after the file was found with length len and version tag etag: the
\* status, and the bytes of it that are sent.
serve_static(r, name, len, etag) ==
    LET range == parse_range(r, len)
        partial == Has(r, "range") /\ range # <<0, Max({len - 1, 0})>>
    IN CASE Value(r, "if-none-match") = etag -> [status |-> 304, enc |-> "id", sent |-> {}]
         [] Value(r, "if-none-match") # etag /\ ~Has(r, "range") /\ len <= MaxStatic
              /\ name \in Scripts /\ negotiate(Accepts(r)) # "id" ->
              [status |-> 200, enc |-> negotiate(Accepts(r)), sent |-> 0 .. len - 1]
         [] OTHER -> [status |-> IF partial THEN 206 ELSE 200, enc |-> "id",
                      sent |-> IF len = 0 THEN {} ELSE range[1] .. range[2]]

-----------------------------------------------------------------------------
\* server/cache_policy.rs.

\* cookies_ignorable: every cookie of the field is on the list; an empty list
\* excuses none.  A field is the set of its cookies' names.
cookies_ignorable(field, ignore) == ignore # {} /\ field \subseteq ignore

\* carries_identity: credentials, or a cookie that is not excused.
carries_identity(r, ignore) ==
    \/ Has(r, "authorization")
    \/ \E f \in ToSet(Values(r, "cookie")) : ~cookies_ignorable(f, ignore)

\* cache_rule_for: the first rule whose glob, here a set of paths, has the path.
cache_rule_for(cfg, path) ==
    LET match == {i \in DOMAIN cfg.rules : path \in cfg.rules[i].paths}
    IN IF match = {} THEN None ELSE cfg.rules[Min(match)]
Rule(cfg, path, field, default) ==
    LET rule == cache_rule_for(cfg, path) IN IF rule = None THEN default ELSE rule[field]

\* normalize_query: stripped parameters go, and the rest is sorted unless a name
\* repeats, where PHP's result depends on the order.
normalize_query(query, strip) ==
    LET kept == SelectSeq(query, LAMBDA p : p[1] \notin strip)
        names == {kept[i][1] : i \in DOMAIN kept}
    IN IF Cardinality(names) = Len(kept)
       THEN SortSeq(kept, LAMBDA p, q : p[1] < q[1]) ELSE kept

ua_class(r) == IF Value(r, "user-agent") = "phone" THEN "m" ELSE "d"

\* response_cache_key; vary is the suffix that secondary_key appends.
response_cache_key(cfg, r) ==
    [method |-> r.method, host |-> HostOf(r), path |-> r.path,
     query |-> normalize_query(r.query, cfg.strip), enc |-> negotiate(Accepts(r)),
     device |-> IF cfg.vary_ua THEN ua_class(r) ELSE "", scheme |-> request_scheme(cfg, r),
     vary |-> << >>]

\* vary_is_covered_by_key: the key tells these headers apart already.
vary_is_covered_by_key(vary, vary_ua) ==
    vary \subseteq {"accept-encoding"} \cup (IF vary_ua THEN {"user-agent"} ELSE {})

\* vary_suffix and secondary_key: the request's own values of the headers that the
\* response varies on; a header it does not have is a value too.
vary_suffix(names, r) == [n \in names |-> Values(r, n)]
secondary_key(key, names, r) == [key EXCEPT !.vary = vary_suffix(names, r)]

\* parse_cache_directive, over the items of an Askr-Cache header: the first bare
\* number before the tags is the time to live; swr= and stale-if-error= count
\* wherever they are.
parse_cache_directive(v) ==
    LET tags == {i \in DOMAIN v : v[i][1] = "tags"}
        head == IF tags = {} THEN v ELSE SubSeq(v, 1, Min(tags) - 1)
        nums == SelectSeq(head, LAMBDA i : i[1] = "num")
        Secs(n) == LET s == SelectSeq(v, LAMBDA i : i[1] = n)
                   IN IF s = <<>> THEN 0 ELSE s[1][2]
    IN IF nums = <<>> THEN None
       ELSE [ttl |-> nums[1][2], swr |-> Secs("swr"), sie |-> Secs("sie")]

-----------------------------------------------------------------------------
\* esi.rs.  A body is a sequence of pieces: text, an include with its src (None if
\* the tag has none), the opening and the closing of a remove block.

\* plan: the pieces that are kept or to be fetched.  A remove block goes, unless it
\* is never closed.
RECURSIVE plan(_)
plan(body) ==
    IF body = <<>> THEN <<>>
    ELSE LET ends == {i \in DOMAIN body : body[i].t = "endremove"}
         IN IF body[1].t = "remove" /\ ends # {}
            THEN plan(SubSeq(body, Min(ends) + 1, Len(body)))
            ELSE <<body[1]>> \o plan(Tail(body))

Fetchable(piece) == piece.t = "include" /\ piece.src # None
Includes(body) == {i \in DOMAIN body : Fetchable(body[i])}

\* safe_src: an absolute path of this server.
safe_src(src) == src # <<>> /\ src[1] \notin {"//", "http://"} /\ ~Contains(src, "..")

-----------------------------------------------------------------------------
\* The same functions said another way, over all addresses of two octets, all short
\* chains of hops, ranges, authorities and queries.
Addresses == [fam : {4}, octets : [1..2 -> 0..2^OctetBits - 1]]
Number(ip) == ip.octets[1] * 2^OctetBits + ip.octets[2]

\* A prefix holds the addresses that agree with it after a shift.
PrefixesAreShifts ==
    \A net, ip \in Addresses : \A bits \in 0..2 * OctetBits :
      cidr_contains([net |-> net, bits |-> bits], ip)
        <=> Number(net) \div 2^(2 * OctetBits - bits) = Number(ip) \div 2^(2 * OctetBits - bits)

\* What a client writes into the chain does not change who it is: the hop that the
\* proxies added counts, and from a peer that is no proxy nothing does.
ClientsDoNotNameThemselves(proxy, clients, names) ==
    LET trusted == {[net |-> proxy, bits |-> 2 * OctetBits]}
        Via(peer, hops) == [method |-> "GET", path |-> <<"p">>, query |-> <<>>, peer |-> peer,
                            authority |-> None,
                            headers |-> <<<<"x-forwarded-for", hops>>>>
                                        \o SetToSeq({<<n, "claimed">> : n \in names})]
        base == [trusted |-> trusted, https |-> FALSE]
    IN \A claimed \in BoundedSeq(clients \cup {proxy, None}, 2), c \in clients,
          hops \in BoundedSeq({proxy, None}, 1) :
         LET told == build_request(base, Via(proxy, claimed \o <<c>> \o hops), "root")
             direct == build_request(base, Via(c, claimed), "root")
         IN /\ told.REMOTE_ADDR = c /\ told.HTTP_X_FORWARDED_FOR = c
            /\ direct.REMOTE_ADDR = c /\ direct.HTTP_X_FORWARDED_FOR = None
            /\ \A n \in names : is_forwarding_claim(n) => n \notin DOMAIN direct.http

\* A range request gets the bytes it names, or the whole file if it names none.
RangesAreMet(max) ==
    \A len \in 0..max, from, to \in {Open, Junk} \cup 0..max + 1 :
      LET file == 0..len - 1
          named == CASE from = Open /\ to >= 0 -> {i \in file : i >= len - to}
                     [] from >= 0 /\ to = Open -> {i \in file : i >= from}
                     [] from >= 0 /\ to >= 0 -> {i \in file : from <= i /\ i <= to}
                     [] OTHER -> {}
          a == serve_static([headers |-> <<<<"range", <<from, to>>>>>>], "a", len, "etag")
      IN /\ a.sent = IF named = {} THEN file ELSE named
         /\ a.status = IF a.sent = file THEN 200 ELSE 206

\* The port goes and the name stays, whatever kind of name it is.
PortsAreStripped ==
    \A name \in {<<"a">>, <<"a", ".", "b">>, <<"[", ":", ":", "8", "]">>},
       port \in {<<>>, <<":">>, <<":", "8", "0">>} : host_without_port(name \o port) = name

\* Two queries have one key only if PHP makes the same variables of them.
QueriesKeepTheirMeaning(names, values, strip) ==
    LET Of(q, n) == SelectSeq(q, LAMBDA x : x[1] = n)
        queries == BoundedSeq(names \X values, 3)
    IN \A p, q \in queries :
         normalize_query(p, strip) = normalize_query(q, strip)
           => \A n \in names \ strip : Of(p, n) = Of(q, n)
=============================================================================
