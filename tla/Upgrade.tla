------------------------------ MODULE Upgrade -------------------------------
(***************************************************************************)
(* askr upgrade (crates/askr/src/upgrade.rs): fetch a release next to the  *)
(* install, check it, and swap the two directories with two renames.       *)
(*                                                                         *)
(* The parent directory has two names, prefix and backup (askr.old), each  *)
(* absent or a directory; a directory has a number of its own, because a   *)
(* running askr finds its install by where its own binary is now.  Several *)
(* upgrades may run, and each may stop at any step.  A download arrives    *)
(* whole or cut, and is signed by the release key or not.  The checks of   *)
(* the platform and the tools end an upgrade before it touches anything.   *)
(***************************************************************************)
EXTENDS Naturals, FiniteSets

CONSTANTS
    Upgraders,
    None,
    MaxRuns     \* bound: upgrades started

VARIABLES
    prefix, backup,  \* what each name stands for: a directory or None
    keyed,           \* this build has a signing key (release_key)
    up,              \* per upgrader: its step, its number, the directory it runs
                     \* from, the name it installs to, and the release it fetched
    runs,            \* upgrades started
    history          \* history: what AnInstallRemains makes an exception for

vars == <<prefix, backup, keyed, up, runs, history>>

\* whole: all files are there; genuine: signed by the release key.
Dir(id, whole, genuine) == [id |-> id, whole |-> whole, genuine |-> genuine]

Idle == [pc |-> "idle", no |-> 0, exe |-> 0, at |-> None, tree |-> None]

At(u, pc) == up[u].pc = pc
Goto(u, pc) == up' = [up EXCEPT ![u].pc = pc]
Quit(u) == up' = [up EXCEPT ![u] = Idle]

\* The upgraders between the removal of the old backup and the last rename, and
\* those that know where they will install.
Swapping == {u \in Upgraders : up[u].pc \in {"aside", "place", "rollback"}}
Located == {u \in Upgraders : up[u].at # None}

-----------------------------------------------------------------------------
\* The askr of either directory is run; an upgrade to the version it is, --check
\* and the platform's guards end here.
Start(u) ==
    /\ At(u, "idle") /\ runs < MaxRuns
    /\ \E d \in {prefix, backup} \ {None} :
         /\ d.whole
         /\ up' = [up EXCEPT ![u] = [Idle EXCEPT !.pc = "locate", !.no = runs, !.exe = d.id]]
    /\ runs' = runs + 1
    /\ UNCHANGED <<prefix, backup, keyed, history>>

\* install_prefix: the directory the binary is in now, under the name it has
\* now; none if it was removed.  Then the probe for write access.
Locate(u) ==
    /\ At(u, "locate")
    /\ \/ /\ prefix # None /\ prefix.id = up[u].exe
          /\ up' = [up EXCEPT ![u].pc = "fetch", ![u].at = "prefix"]
          /\ history' = IF Located # {} THEN history \cup {"together"} ELSE history
       \/ /\ backup # None /\ backup.id = up[u].exe
          /\ up' = [up EXCEPT ![u].pc = "fetch", ![u].at = "backup"]
          /\ history' = history \cup {"from_backup"}
       \/ Quit(u) /\ UNCHANGED history
    /\ UNCHANGED <<prefix, backup, keyed, runs>>

\* The tarball, its checksum and its signature, or a download that fails.
Fetch(u) ==
    /\ At(u, "fetch")
    /\ \/ \E whole, genuine \in BOOLEAN :
            up' = [up EXCEPT ![u].pc = "verify",
                             ![u].tree = Dir(up[u].no + 3, whole, genuine)]
       \/ Quit(u)
    /\ UNCHANGED <<prefix, backup, keyed, runs, history>>

\* verify_sha256, and verify_signature in a build with a key.
Accepted(d) == d.whole /\ (keyed => d.genuine)

Verify(u) ==
    /\ At(u, "verify")
    /\ IF Accepted(up[u].tree) THEN Goto(u, "extract") ELSE Quit(u)
    /\ UNCHANGED <<prefix, backup, keyed, runs, history>>

\* tar, the check of the layout and the file modes.
Extract(u) ==
    /\ At(u, "extract")
    /\ Goto(u, "remove") \/ Quit(u)
    /\ UNCHANGED <<prefix, backup, keyed, runs, history>>

\* remove_dir_all(backup), whose failure half way is ignored.
Remove(u) ==
    /\ At(u, "remove")
    /\ \/ backup' = None
       \/ backup # None /\ backup' = [backup EXCEPT !.whole = FALSE]
    /\ Goto(u, "aside")
    /\ UNCHANGED <<prefix, keyed, runs, history>>

\* rename(prefix, backup): onto a directory that is not empty it fails.  For an
\* askr that runs from askr.old both are one name, and nothing is moved.
Aside(u) ==
    /\ At(u, "aside")
    /\ \/ /\ up[u].at = "prefix" /\ prefix # None /\ backup = None
          /\ backup' = prefix /\ prefix' = None
          /\ Goto(u, "place")
       \/ /\ Quit(u)
          /\ UNCHANGED <<prefix, backup>>
    /\ UNCHANGED <<keyed, runs, history>>

\* rename(extracted, prefix), which may fail.
Place(u) ==
    /\ At(u, "place")
    /\ \/ /\ prefix = None
          /\ prefix' = up[u].tree
          /\ Quit(u)
       \/ /\ Goto(u, "rollback")
          /\ UNCHANGED prefix
    /\ UNCHANGED <<backup, keyed, runs, history>>

\* Fault: the new release that could not be placed is given up, not undone.
NoRollback(u) ==
    /\ At(u, "rollback")
    /\ Quit(u)
    /\ UNCHANGED <<prefix, backup, keyed, runs, history>>

\* rename(backup, prefix), whose failure is ignored.
Rollback(u) ==
    /\ At(u, "rollback")
    /\ IF prefix = None /\ backup # None
       THEN prefix' = backup /\ backup' = None
       ELSE UNCHANGED <<prefix, backup>>
    /\ Quit(u)
    /\ UNCHANGED <<keyed, runs, history>>

\* The upgrade is killed.  Inside the swap it leaves the install moved aside.
Killed(u) ==
    /\ ~At(u, "idle")
    /\ history' = IF up[u].pc \in {"place", "rollback"}
                  THEN history \cup {"killed"} ELSE history
    /\ Quit(u)
    /\ UNCHANGED <<prefix, backup, keyed, runs>>

Init ==
    /\ prefix = Dir(1, TRUE, TRUE)
    /\ backup \in {None, Dir(2, TRUE, TRUE)}
    /\ keyed \in BOOLEAN
    /\ up = [u \in Upgraders |-> Idle]
    /\ runs = 0
    /\ history = {}

Next == \E u \in Upgraders :
    \/ Start(u) \/ Locate(u) \/ Fetch(u) \/ Verify(u) \/ Extract(u)
    \/ Remove(u) \/ Aside(u) \/ Place(u) \/ Rollback(u) \/ Killed(u)

Spec == Init /\ [][Next]_vars

-----------------------------------------------------------------------------
Sound(d) == d # None /\ d.whole

\* There is an install to start: under its own name whenever no swap is going
\* on and none was killed, else at least under one of the two.  Everything may
\* fail (curl, tar, both renames, the removal of the backup).  It does not hold
\* once two upgrades ran at the same time or one was run from askr.old,
\* which removes the directory it runs from (run: the swap and its roll-back).
AnInstallRemains ==
    history \cap {"together", "from_backup"} = {} =>
        /\ Sound(prefix) \/ Sound(backup)
        /\ Swapping = {} /\ "killed" \notin history => Sound(prefix)

\* Nothing is installed, or kept for a roll-back, that a build with a key did
\* not find signed, however upgrades are mixed (verify_signature before tar).
OnlySignedIsInstalled ==
    keyed => \A d \in {prefix, backup} \ {None} : d.genuine

\* An upgrade leaves an install behind, and a genuine one.
InstallsHold == AnInstallRemains /\ OnlySignedIsInstalled

=============================================================================
