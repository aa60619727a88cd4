----------------------------- MODULE QueueFile ------------------------------
(***************************************************************************)
(* The named ring of the job queue (crates/askr/src/squeue.rs,             *)
(* init_persistent): a shared-memory object that a master creates or finds *)
(* when it boots, and that its jobs survive in.  Objects are kept by       *)
(* number, because an object that lost its name lives on in the processes  *)
(* that mapped it.  A process may die between any two system calls.        *)
(*                                                                         *)
(* Of the operating system (external): a new object is empty, mmap of an   *)
(* object that is shorter than the mapping succeeds, and touching a page   *)
(* beyond its end kills the process.                                       *)
(***************************************************************************)
EXTENDS Naturals, FiniteSets

CONSTANTS
    Masters,
    Geometries,   \* layouts of binaries and configurations; none is 0
    None,
    MaxObjects,   \* bound: objects ever created
    MaxJobs       \* bound: jobs ever pushed

VARIABLES
    object,       \* per object: size and header of which geometry, the magic, jobs
    name,         \* the object that has the name
    master,       \* per master: where its boot is
    jobs,         \* history: jobs pushed
    crossed       \* history: two masters were booting at the same time

vars == <<object, name, master, jobs, crossed>>

Off == [pc |-> "off", geo |-> 0, obj |-> 0, fresh |-> FALSE, retry |-> FALSE]
Booting(m) == master[m].pc \notin {"off", "up", "anon", "sigbus"}
Objects == DOMAIN object
Goto(m, pc) == master' = [master EXCEPT ![m].pc = pc]

\* init_configured: the master has a name and a geometry.
Boot(m) ==
    /\ master[m].pc = "off"
    /\ \E g \in Geometries :
         master' = [master EXCEPT ![m] = [Off EXCEPT !.pc = "open", !.geo = g, !.retry = TRUE]]
    /\ crossed' = (crossed \/ \E o \in Masters \ {m} : Booting(o))
    /\ UNCHANGED <<object, name, jobs>>

\* map_named: shm_open, with O_EXCL to learn whether the object is new.
Open(m) ==
    /\ master[m].pc = "open"
    /\ \/ /\ name = None /\ Cardinality(Objects) < MaxObjects
          /\ LET o == Cardinality(Objects) + 1
             IN /\ object' = [x \in Objects \cup {o} |->
                                 IF x = o THEN [size |-> 0, header |-> 0, magic |-> FALSE, jobs |-> {}]
                                 ELSE object[x]]
                /\ name' = o
                /\ master' = [master EXCEPT ![m].pc = "size", ![m].obj = o, ![m].fresh = TRUE]
       \/ /\ name # None
          /\ master' = [master EXCEPT ![m].pc = "map", ![m].obj = name, ![m].fresh = FALSE]
          /\ UNCHANGED <<object, name>>
       \/ Goto(m, "anon") /\ UNCHANGED <<object, name>>
    /\ UNCHANGED <<jobs, crossed>>

\* ftruncate; when it fails the name is taken away and the queue is anonymous.
Size(m) ==
    /\ master[m].pc = "size"
    /\ \/ /\ object' = [object EXCEPT ![master[m].obj].size = master[m].geo]
          /\ Goto(m, "map") /\ UNCHANGED name
       \/ name' = None /\ Goto(m, "anon") /\ UNCHANGED object
    /\ UNCHANGED <<jobs, crossed>>

\* recreate: once, by taking the name away.
Recreate(m, why) == Goto(m, IF master[m].retry THEN why ELSE "anon")

Map(m) ==
    /\ master[m].pc = "map"
    /\ \/ Goto(m, IF master[m].fresh THEN "geometry" ELSE "check")
       \/ IF master[m].fresh THEN Goto(m, "anon") ELSE Recreate(m, "unmappable")
    /\ UNCHANGED <<object, name, jobs, crossed>>

\* write_header: the geometry, and then the magic.
Geometry(m) ==
    /\ master[m].pc = "geometry"
    /\ object' = [object EXCEPT ![master[m].obj].header = master[m].geo]
    /\ Goto(m, "magic")
    /\ UNCHANGED <<name, jobs, crossed>>

Magic(m) ==
    /\ master[m].pc = "magic"
    /\ object' = [object EXCEPT ![master[m].obj].magic = TRUE]
    /\ Goto(m, "up")
    /\ UNCHANGED <<name, jobs, crossed>>

\* Fault: only the magic is looked at.
MagicOnly(m) == ~object[master[m].obj].magic

header_mismatch(m) ==
    LET o == object[master[m].obj] IN ~o.magic \/ o.header # master[m].geo

\* An object that was there: its header is read.
Check(m) ==
    /\ master[m].pc = "check"
    /\ IF object[master[m].obj].size = 0 THEN Goto(m, "sigbus")
       ELSE IF header_mismatch(m) THEN Recreate(m, "mismatch")
       ELSE Goto(m, "up")
    /\ UNCHANGED <<object, name, jobs, crossed>>

\* shm_unlink takes the name from whatever object has it by now.
Unlink(m) ==
    /\ master[m].pc \in {"unmappable", "mismatch"}
    /\ name' = None
    /\ master' = [master EXCEPT ![m].pc = "open", ![m].retry = FALSE]
    /\ UNCHANGED <<object, jobs, crossed>>

Push(m) ==
    /\ master[m].pc = "up" /\ jobs < MaxJobs
    /\ jobs' = jobs + 1
    /\ object' = [object EXCEPT ![master[m].obj].jobs = @ \cup {jobs + 1}]
    /\ UNCHANGED <<name, master, crossed>>

\* A master is stopped or killed, and its workers with it.
Stop(m) ==
    /\ master[m].pc # "off"
    /\ master' = [master EXCEPT ![m] = Off]
    /\ UNCHANGED <<object, name, jobs, crossed>>

Init ==
    /\ object = [o \in {} |-> 0]
    /\ name = None
    /\ master = [m \in Masters |-> Off]
    /\ jobs = 0
    /\ crossed = FALSE

Next ==
    \E m \in Masters :
        \/ Boot(m) \/ Open(m) \/ Size(m) \/ Map(m) \/ Geometry(m) \/ Magic(m) \/ Check(m)
        \/ Unlink(m) \/ Push(m) \/ Stop(m)

Spec == Init /\ [][Next]_vars

-----------------------------------------------------------------------------
\* A ring that is in use is laid out for the binary that uses it: a boot that died or
\* was overtaken at any point, or an older binary, left nothing that is mistaken for it.
RingsFit ==
    \A m \in Masters :
      master[m].pc = "up" =>
        LET o == object[master[m].obj]
        IN o.size = master[m].geo /\ o.header = master[m].geo /\ o.magic

\* "The difference is that a matching ring keeps them": a finished ring loses its name,
\* and with it the jobs, only to a master of another geometry (or to one whose mapping
\* failed), unless two masters boot at the same moment.
JobsSurviveRestarts ==
    \A o \in Objects :
         name = o /\ name' # o /\ object[o].magic /\ ~crossed
         => \E m \in Masters :
              /\ master[m].obj = o
              /\ \/ master[m].pc = "unmappable"
                 \/ master[m].pc = "mismatch" /\ master[m].geo # object[o].header

\* A ring that fits is kept, with its jobs, and one that does not is never used.
RingsAreKept == [][RingsFit' /\ JobsSurviveRestarts]_vars


=============================================================================
