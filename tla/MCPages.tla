------------------------------ MODULE MCPages -------------------------------
(***************************************************************************)
(* The response cache and form uploads for TLC, one at a time: part says   *)
(* which of them moves.                                                    *)
(*                                                                         *)
(*   pages   two workers, three pages of two applications that share a     *)
(*           home slot, and a table of two slots;                          *)
(*   upload  bodies of up to two parts of every kind, and longer ones      *)
(*           where a limit is met on the way.                              *)
(***************************************************************************)
EXTENDS RCache, Integers, Sequences, TLC

CONSTANTS w1, w2, a1, a2, b1, appA, appB, t1, t2, t3, v1, v2, NoText

VARIABLES
    part,
    in, dirs, pc, read, given, upEnded, i, acc, cur, pool, seq, guard, upDisk, result, orphan

MCAppOf == [k \in {a1, a2, b1} |-> IF k = b1 THEN appB ELSE appA]
MCHome == [k \in {a1, a2, b1} |-> 0]
MCTagHome == [t \in {t1, t2, t3} |-> 0]

Get(k) == [call |-> "get", key |-> k]
Fallback(k) == [call |-> "fallback", key |-> k]
Store(k, ttl, swr, sie, T) ==
    [call |-> "store", key |-> k, ttl |-> ttl, swr |-> swr, sie |-> sie, tags |-> T]
Forget(t) == [call |-> "forget", tag |-> t]
Purge(K) == [call |-> "purge", want |-> K]
Flush(a) == [call |-> "flush", app |-> a]

\* Pages that are kept forever, expire, or may still be served when the renderer
\* fails; one of them has a tag too many for an entry.
MCRequests ==
    {Get(a1), Get(a2), Fallback(a2), Store(a1, 0, 0, 0, {t1}), Store(a2, 1, 0, 1, {t1}),
     Store(a2, 0, 0, 0, {t1, t2}), Forget(t1), Purge({a1, b1}), Flush(appA)}

\* Nothing is stored, or the window is full.
Stored(k, T) ==
    [Empty EXCEPT !.state = "live", !.key = k, !.app = MCAppOf[k],
                  !.gens = [t \in T |-> 0], !.snap = [t \in T |-> 0]]
MCPresets ==
    {[s \in 0 .. 1 |-> Empty],
     [s \in 0 .. 1 |-> IF s = 0 THEN Stored(b1, {}) ELSE Stored(a1, {t1})]}

\* No tag was ever forgotten, or two others fill the window.
MCTagPresets ==
    {[s \in 0 .. 1 |-> NoTag],
     [s \in 0 .. 1 |-> [tag |-> IF s = 0 THEN t2 ELSE t3, gen |-> 1]]}

-----------------------------------------------------------------------------
Seqs == INSTANCE SequencesExt

Field(data) == [cd |-> TRUE, name |-> <<"a">>, file |-> NoText, data |-> data]
MaxSize(data) == [cd |-> TRUE, name |-> <<"MAX_FILE_SIZE">>, file |-> NoText, data |-> data]
File(name, named, n) ==
    [cd |-> TRUE, name |-> name, file |-> named, data |-> [k \in 1..n |-> "x"]]

aField == Field(<<"x">>)
aTail == Field(<<"x", "cr", "nl">>)
aFile == File(<<"f">>, <<"/", "n">>, 2)
anon == File(NoText, <<"n">>, 1)
empty == File(<<"f">>, <<>>, 0)
badName == File(<<"f", "]">>, <<"n">>, 1)
garbled == File(NoText, NoText, 0)
noHead == [cd |-> FALSE, name |-> NoText, file |-> NoText, data |-> <<"x">>]
oneByte == MaxSize(<<"1">>)

Kinds == {aField, aTail, aFile, anon, empty, badName, garbled, noHead, oneByte}

Bodies == Seqs!BoundedSeq(Kinds, 2)
          \cup {<<oneByte, anon, aFile>>, <<anon, empty, aFile>>, <<anon, badName, aFile>>,
                <<aField, aField, aField>>, <<aField, anon, garbled>>,
                <<MaxSize(<<"-", "1">>), empty, anon>>, <<noHead, aField, anon, aField>>}

Loose == [post_max |-> 0, file_uploads |-> TRUE, max_file_uploads |-> 2, upload_max |-> 0,
          max_input_vars |-> 3, max_parts |-> -1]

Limits == {Loose,
           [Loose EXCEPT !.max_file_uploads = 1, !.max_input_vars = 1, !.max_parts = 3],
           [Loose EXCEPT !.upload_max = 1, !.post_max = 6],
           [Loose EXCEPT !.file_uploads = FALSE, !.max_parts = 1]}

\* How a body may end: a body that ends before its last part's data has none of it.
Endings(parts) ==
    {<<"closed", 0>>, <<"broken", 0>>}
    \cup (IF Len(parts) > 1 THEN {} ELSE {<<"closed", 4>>})
    \cup (IF parts = <<>> THEN {} ELSE {<<"cut", 0>>})
    \cup (IF parts # <<>> /\ Seqs!Last(parts).data = <<>> THEN {<<"bare", 0>>} ELSE {})

Types == {<<";", "boundary", "=", "B">>}
OddTypes == {<<>>, <<"boundary">>, <<"boundary", "=", "\"", "B", "\"">>,
             <<"boundary", "=", "\"", "B">>, <<"boundary", "=", "B", "B", "B", ",", "B">>}

MCInputs ==
    UNION {{[parts |-> parts, ending |-> e[1], epilogue |-> e[2], declared |-> d,
             ctype |-> t, lim |-> l] :
              e \in Endings(parts), d \in BOOLEAN, l \in Limits,
              t \in IF Len(parts) = 1 THEN Types \cup OddTypes ELSE Types} : parts \in Bodies}

MCTexts == Seqs!BoundedSeq({"[", "]", "x"}, 5)
           \cup Seqs!BoundedSeq({"x", "cr", "nl", "-", "B"}, 4)
           \cup Seqs!BoundedSeq({" ", "-", "1", "9"}, 4)

Up == INSTANCE Upload WITH
        None <- NoText,
        Inputs <- MCInputs, Texts <- MCTexts, DirStates <- {"absent", "unusable"},
        BodyLimit <- 8, BoundaryLimit <- 2, I64Max <- 127,
        ended <- upEnded, disk <- upDisk

-----------------------------------------------------------------------------
uploadVars == <<in, dirs, pc, read, given, upEnded, i, acc, cur, pool, seq, guard,
                upDisk, result, orphan>>

\* The part that is not used.
NoUpload == /\ in = 0 /\ dirs = 0 /\ pc = 0 /\ read = 0 /\ given = 0 /\ upEnded = 0
            /\ i = 0 /\ acc = 0 /\ cur = 0 /\ pool = 0 /\ seq = 0 /\ guard = 0
            /\ upDisk = 0 /\ result = 0 /\ orphan = 0
NoPages == /\ Init /\ stamp = v1
           /\ \A s \in Slots : slots[s] = Empty /\ tags[s] = NoTag

MCInit == \/ part = "pages" /\ Init /\ NoUpload
          \/ part = "upload" /\ Up!Init /\ NoPages

MCNext ==
    \/ part = "pages" /\ Next /\ UNCHANGED <<part, uploadVars>>
    \/ part = "upload" /\ Up!Next /\ UNCHANGED <<part, vars>>

MCSpec == MCInit /\ [][MCNext]_<<part, vars, uploadVars>>

\* Workers are alike, and so are releases.
Alike == {p @@ q : p \in Permutations({w1, w2}), q \in Permutations({v1, v2})}

-----------------------------------------------------------------------------
\* A form is parsed as PHP itself parses it (upload.rs).
FormsAreRead == part = "upload" => Up!FormsAreRead

\* Every uploaded file that PHP is told of is on disk, whole, and a client that goes
\* away leaves no temp file (upload.rs).
TempFilesAreKept == part = "upload" => Up!TempFilesAreKept

=============================================================================
