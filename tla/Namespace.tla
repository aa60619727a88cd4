----------------------------- MODULE Namespace ------------------------------
(***************************************************************************)
(* Whose data is whose in shared memory (ns.rs, config.rs).  Applications  *)
(* of one instance share the tables; a key and a queue name are stored     *)
(* behind the application's sixteen hex digits and a separator.  The       *)
(* digits are a hash of the docroot as it is spelled, or of the app_id.    *)
(*                                                                         *)
(* A text is a sequence of symbols.  Sixteen hex digits are one symbol,    *)
(* the value that was hashed: the 64-bit hash is taken to be injective.    *)
(***************************************************************************)
EXTENDS Naturals, Sequences, FiniteSets

CONSTANTS
    Webs, Sidecars, \* web workers and queue workers
    Roots,          \* docroots, as they are spelled
    Reals,          \* where the spellings may lead, by symlink or not
    Ids,            \* app_ids
    Letters, Texts, \* the keys and queue names that PHP code uses, and what is in them
    SEP,            \* the separator
    None,           \* no application, no docroot, no app_id
    MaxStored       \* bound: keys in the tables

Procs == Webs \cup Sidecars

\* App::for_docroot() beyond its memo, and App::for_id(), whose input is marked.
path_hash(root) == <<"path", root>>
for_id(id) == <<"app_id", id>>
Hex == {path_hash(r) : r \in Roots} \cup {for_id(i) : i \in Ids}

NamespaceAssumption ==
    /\ None \notin Roots \cup Ids \cup Hex
    /\ Texts \subseteq Seq(Hex \cup {SEP} \cup Letters)
    /\ Reals \subseteq [Roots -> Roots]

VARIABLES
    sites,    \* the configuration: [server] and every [[site]], docroot and app_id
    server,   \* the docroot of [server]
    real,     \* where the docroots led when the configuration was read
    wanted,   \* [queue] root as configured, or None
    sidecar,  \* and as it was resolved
    memo,     \* MEMO, of every process
    current,  \* CURRENT, of every process
    serving,  \* history: the docroot whose application a process's PHP belongs to
    stored    \* the stored keys: history, who stored each and under which name

vars == <<sites, server, real, wanted, sidecar, memo, current, serving, stored>>

-----------------------------------------------------------------------------
\* A named application has one docroot, and a docroot one name.
\* Fault: two docroots may have one app_id.
ValidByDocroot(S) ==
    \A s, t \in S : (s.id # None /\ t.id # None) => (s.root = t.root => s.id = t.id)

Valid(S) ==
    \A s, t \in S : (s.id # None /\ t.id # None) => (s.root = t.root <=> s.id = t.id)

\* name_apps(): the memo that every process inherits.
Names(S, r) == {s.id : s \in {t \in S : t.root = r /\ t.id # None}}
name_apps(S) == [r \in Roots |-> IF Names(S, r) = {} THEN None
                                 ELSE for_id(CHOOSE i \in Names(S, r) : TRUE)]

\* [queue] root: a directory that is served under another spelling takes that one, and
\* one that is not keeps its own.  The first of several such sites is taken: any here.
as_served(S, p, where) ==
    LET same == {s.root : s \in {t \in S : t.root = p \/ where[t.root] = where[p]}}
    IN  IF same = {} THEN {p} ELSE same

Boot(where) ==
    /\ real' = where
    /\ sidecar' \in IF wanted = None THEN {server} ELSE as_served(sites, wanted, where)
    /\ memo' = [p \in Procs |-> name_apps(sites)]
    /\ current' = [p \in Procs |-> None]
    /\ serving' = [p \in Procs |-> None]
    /\ UNCHANGED <<sites, server, wanted>>

Init ==
    /\ sites \in {{s, t} : s, t \in [root : Roots, id : Ids \cup {None}]}
    /\ Valid(sites)
    /\ server \in {s.root : s \in sites}
    /\ real \in Reals /\ wanted \in Roots \cup {None}
    /\ sidecar \in IF wanted = None THEN {server} ELSE as_served(sites, wanted, real)
    /\ memo = [p \in Procs |-> name_apps(sites)]
    /\ current = [p \in Procs |-> None]
    /\ serving = [p \in Procs |-> None]
    /\ stored = <<>>

\* A restart, after a deploy or not.  What a persistent queue holds is kept.
Restart(where) == Boot(where) /\ stored' \in {stored, <<>>}

\* App::for_docroot() and set(), or set_from_request() of what it wrote.
for_docroot(p, r) == IF memo[p][r] # None THEN memo[p][r] ELSE path_hash(r)

set(p, r) ==
    /\ current' = [current EXCEPT ![p] = for_docroot(p, r)]
    /\ memo' = [memo EXCEPT ![p] = [memo[p] EXCEPT ![r] = for_docroot(p, r)]]
    /\ serving' = [serving EXCEPT ![p] = r]
    /\ UNCHANGED <<sites, server, real, wanted, sidecar, stored>>

\* A web worker is handed a request of one of the sites; a queue worker boots.
Handle(p) == \E s \in sites : set(p, s.root)
SidecarBoots(p) == current[p] = None /\ set(p, sidecar)

-----------------------------------------------------------------------------
\* key(), split() and owns().
key(app, k) == IF app = None THEN k ELSE <<app, SEP>> \o k

split(s) == IF Len(s) >= 2 /\ s[1] \in Hex /\ s[2] = SEP
            THEN [app |-> s[1], name |-> SubSeq(s, 3, Len(s))]
            ELSE [app |-> None, name |-> s]

owns(app, s) == IF app = None THEN split(s).app = None
                ELSE Len(s) >= 2 /\ s[1] = app /\ s[2] = SEP

Only(f, S) == [s \in S |-> f[s]]
Tables == UNCHANGED <<sites, server, real, wanted, sidecar, memo, current, serving>>

\* A key is set, or a job pushed.
Store(p, k) ==
    LET s == key(current[p], k) IN
    /\ current[p] # None /\ Cardinality(DOMAIN stored \cup {s}) <= MaxStored
    /\ stored' = [t \in DOMAIN stored \cup {s} |->
                    IF t = s THEN [by |-> serving[p], name |-> k] ELSE stored[t]]
    /\ Tables

\* A key is deleted; a job, found by its lease, if owns() says so.
Delete(p, s) ==
    /\ owns(current[p], s)
    /\ stored' = Only(stored, DOMAIN stored \ {s})
    /\ Tables

\* c_flush(): all keys behind the application's prefix, and refused without one.
Flush(p) ==
    /\ current[p] # None
    /\ stored' = Only(stored, {s \in DOMAIN stored : ~owns(current[p], s)})
    /\ Tables

Next ==
    \/ \E where \in Reals : Restart(where)
    \/ \E p \in Webs : Handle(p)
    \/ \E p \in Sidecars : SidecarBoots(p)
    \/ \E p \in Procs : \/ \E k \in Texts : Store(p, k)
                        \/ \E s \in DOMAIN stored : Delete(p, s)
                        \/ Flush(p)

Spec == Init /\ [][Next]_vars

-----------------------------------------------------------------------------
(***************************************************************************)
(* Properties                                                              *)
(***************************************************************************)

\* Applications of one instance cannot touch each other's data, over reloads, deploys
\* that swap a symlink, and restarts that keep the jobs: what a process may delete, and
\* what its keys lead to, is what its own application stored under that name, in this
\* process or another; and a report attributes a stored key to who stored it.
DataIsApart ==
    \A p \in Procs : serving[p] # None =>
        \A s \in DOMAIN stored :
            /\ owns(current[p], s) <=> stored[s].by = serving[p]
            /\ split(s).name = stored[s].name
            /\ split(s).app = current[p] <=> stored[s].by = serving[p]
            /\ \A k \in Texts : key(current[p], k) = s =>
                    stored[s] = [by |-> serving[p], name |-> k]

\* A queue worker whose root leads to a served directory, however it is spelled, is of
\* an application that is served from there, so its jobs are the ones it finds.
SidecarsJoin ==
    \A p \in Sidecars, q \in Webs, s \in sites :
        (wanted # None /\ real[wanted] = real[s.root] /\ serving[p] # None) =>
            \E t \in sites : /\ real[t.root] = real[wanted]
                            /\ current[p] = for_docroot(q, t.root)

\* Every application has its own data, and all its processes have it.
AppsAreApart == DataIsApart /\ SidecarsJoin

=============================================================================
