------------------------------- MODULE Upload -------------------------------
(***************************************************************************)
(* One multipart upload in worker mode (crates/askr/src/upload.rs), from   *)
(* the first chunk of the body to the end of the request.                  *)
(*                                                                         *)
(* A body is a sequence of parts and the way it ends; the parser library   *)
(* (multer) is external: it hands out a part when all of its head has      *)
(* arrived, and data as it arrives.  Text is a sequence of tokens.  The    *)
(* handler's future may be dropped wherever it waits; the blocking pool,   *)
(* which opens files, does not stop with it.                               *)
(***************************************************************************)
EXTENDS Integers, Sequences, SequencesExt, FiniteSetsExt

CONSTANTS
    Inputs,        \* requests to parse, records as in Init's comment
    DirStates,     \* what may be at the shared and at the private temp path
    None,
    Texts,         \* texts on which the helpers are compared with their references
    BodyLimit,     \* max_body_size
    BoundaryLimit, \* FILLUNIT - 4 (5 * 1024 - 4 in upload.rs)
    I64Max         \* the largest i64

VARIABLES
    in,       \* the request: parts, ending, epilogue, declared, ctype, lim
    dirs,     \* what is at the shared and at the private temp path
    pc,       \* where the handler waits
    read,     \* Ended.read: how much of the body arrived
    given,    \* how much of it the parser was handed
    ended,    \* the body ended and the parser was handed the tail
    i,        \* parts the parser handed out
    acc,      \* the locals of parse
    cur,      \* the file being written: temp file, size, data taken
    pool,     \* the temp file the blocking pool was told to open, or None
    seq,      \* SEQ, the counter in temp file names
    guard,    \* TempFiles: the paths the handler owns
    disk,     \* the temp files that exist
    result,   \* what parse returned
    orphan    \* history: temp files whose open was under way when the future was dropped

vars == <<in, dirs, pc, read, given, ended, i, acc, cur, pool, seq, guard, disk,
          result, orphan>>

-----------------------------------------------------------------------------
(***************************************************************************)
(* The helpers.                                                            *)
(***************************************************************************)

Digit == [d \in {"0", "1", "9"} |-> CASE d = "0" -> 0 [] d = "1" -> 1 [] d = "9" -> 9]

\* The longest prefix of s whose tokens are all in S.
TakeWhile(s, S) ==
    SubSeq(s, 1, Max({n \in 0..Len(s) : \A k \in 1..n : s[k] \in S}))

SkipWhile(s, S) == SubSeq(s, Len(TakeWhile(s, S)) + 1, Len(s))

\* C's strtoll: blanks, a sign, digits; clamped at the ends of an i64.
strtoll(s) ==
    LET t == SkipWhile(s, {" "})
        neg == t # <<>> /\ t[1] = "-"
        digits == IF t # <<>> /\ t[1] \in {"-", "+"} THEN Tail(t) ELSE t
        limit == IF neg THEN -I64Max - 1 ELSE I64Max
        step(n, d) == IF n = limit THEN n     \* returned from inside the loop
                      ELSE IF neg THEN IF n * 10 - Digit[d] < limit THEN limit
                                       ELSE n * 10 - Digit[d]
                      ELSE IF n * 10 + Digit[d] > limit THEN limit ELSE n * 10 + Digit[d]
    IN FoldLeft(step, 0, TakeWhile(digits, DOMAIN Digit))

\* Which file fields' names PHP keeps.
php_keeps_file_name(name) ==
    LET opened(n) == Quantify(1..n, LAMBDA k : name[k] = "[")
        closed(n) == Quantify(1..n, LAMBDA k : name[k] = "]")
    IN /\ \A k \in 1..Len(name) :
            /\ opened(k) >= closed(k)
            /\ name[k] = "]" /\ k < Len(name) => name[k + 1] = "["
       /\ opened(Len(name)) = closed(Len(name))

\* The file name without its directories.
basename(name) ==
    LET cut == Max({0} \cup {k \in DOMAIN name : name[k] \in {"/", "\\"}})
    IN SubSeq(name, cut + 1, Len(name))

\* A field the body ended in, less a tail that could become the next boundary.
rest_of_field(value, bound) ==
    LET next == <<"nl", "-", "-">> \o bound
        from == Max({0, Len(value) - Len(next)})
        tails == {k \in from..(Len(value) - 1) :
                    IsPrefix(SubSeq(value, k + 1, Len(value)), next)}
        cut == SubSeq(value, 1, Min(tails))
    IN IF tails = {} THEN value
       ELSE IF cut # <<>> /\ Last(cut) = "cr" THEN Front(cut) ELSE cut

\* The boundary in a Content-Type (the tokens after the media type), or the warning.
boundary(ctype) ==
    LET at == {k \in DOMAIN ctype : ctype[k] = "boundary"}
        eq == {k \in DOMAIN ctype : at # {} /\ k > Min(at) /\ ctype[k] = "="}
        rest == SubSeq(ctype, Min(eq) + 1, Len(ctype))
        quoted == rest # <<>> /\ rest[1] = "\""
        value == IF quoted THEN TakeWhile(Tail(rest), {"B", ";", ","})
                 ELSE TakeWhile(rest, {"B", "\""})
    IN CASE at = {} \/ eq = {} -> [warning |-> "missing"]
         [] at # {} /\ eq # {} /\ quoted /\ Len(value) + 1 = Len(rest) ->
              [warning |-> "invalid"]
         [] OTHER -> IF Len(value) > BoundaryLimit THEN [warning |-> "too large"]
                     ELSE [value |-> value]

\* A directory at one of the two paths is created if need be; one of ours that others
\* can enter is tightened.  Everything else (another user's, a link, no directory, one
\* that cannot be created or tightened) is not taken.
private_dir(d) == d \in {"absent", "ours", "ours, open"}

temp_dir(d) ==
    IF private_dir(d.shared) THEN "shared"
    ELSE IF private_dir(d.mine) THEN "mine" ELSE None

-----------------------------------------------------------------------------
(***************************************************************************)
(* The body as it arrives (struct Ended).                                  *)
(***************************************************************************)

lim == in.lim

\* Where part k ends; a part's head counts for one.
End(k) == MapThenSumSet(LAMBDA j : 1 + Len(in.parts[j].data), 1..k)

Total == End(Len(in.parts)) + in.epilogue

\* post_max_size, where it is the lower limit; 0 is none.
post_max == IF lim.post_max < BodyLimit THEN lim.post_max ELSE 0

OverPostMax == post_max > 0 /\ Total > post_max

parts_limit == IF lim.max_parts < 0 THEN lim.max_input_vars + lim.max_file_uploads
               ELSE lim.max_parts

Locals == [fields |-> <<>>, files |-> <<>>, warnings |-> <<>>,
           uploads_left |-> lim.max_file_uploads, form_max |-> 0,
           parts_left |-> parts_limit, skip_files |-> FALSE, anonymous |-> 0,
           last |-> None, count |-> 0]

NoFile == [tmp |-> None, name |-> None, size |-> 0, taken |-> 0]

Init ==
    /\ in \in Inputs /\ dirs \in [shared : DirStates, mine : DirStates]
    /\ pc = "start" /\ read = 0 /\ given = 0 /\ ended = FALSE /\ i = 0
    /\ acc = Locals /\ cur = NoFile
    /\ pool = None /\ seq = 0 /\ guard = {} /\ disk = {}
    /\ result = [status |-> "none"] /\ orphan = {}

stream == <<read, given, ended>>
files == <<cur, pool, seq, orphan>>

Accepted(a) == [status |-> "ok", fields |-> a.fields, files |-> a.files,
                warnings |-> ToSet(a.warnings)]

\* Parsed, with nothing but a warning.
Nothing(warning) == [status |-> "ok", fields |-> <<>>, files |-> <<>>,
                     warnings |-> {[what |-> warning, before |-> 0]}]

Refused(status) == [status |-> status]

\* Drop for TempFiles.
DropGuard == guard' = {} /\ disk' = disk \ guard

\* parse returns; its guard is in what it returns only if the parts are.
Returns(r) ==
    /\ result' = r
    /\ pc' = IF r.status = "ok" THEN "php" ELSE "dropped"
    /\ DropGuard

ReturnsParts(a) ==
    /\ result' = Accepted(a)
    /\ pc' = "php"
    /\ acc' = a

\* Before anything is read: the declared length, then the boundary.
Start ==
    /\ pc = "start"
    /\ IF in.declared /\ Total > BodyLimit THEN Returns(Refused("413"))
       ELSE IF in.declared /\ OverPostMax THEN Returns(Nothing("post_max"))
       ELSE IF "warning" \notin DOMAIN boundary(in.ctype)
       THEN pc' = "next" /\ UNCHANGED <<result, guard, disk>>
       ELSE IF ~in.declared /\ post_max > 0
       THEN pc' = "drain" /\ UNCHANGED <<result, guard, disk>>
       ELSE Returns(Nothing(boundary(in.ctype).warning))
    /\ UNCHANGED <<in, dirs, stream, i, acc, files>>

\* poll_body: a chunk.  Over max_body_size it ends the parse; over post_max_size it
\* is counted and kept from the parser.
poll_body(n) ==
    /\ pc \in {"next", "data", "drain"} /\ ~ended /\ n <= Total - read
    /\ read' = read + n
    /\ IF read' > BodyLimit
       THEN Returns(Refused("413")) /\ UNCHANGED given
       ELSE /\ given' = IF post_max > 0 /\ read' > post_max THEN given ELSE read'
            /\ UNCHANGED <<result, pc, guard, disk>>
    /\ UNCHANGED <<in, dirs, ended, i, acc, files>>

\* poll_body, poll_next and drain at the end of the body.
BodyEnds ==
    /\ pc \in {"next", "data", "drain"} /\ ~ended /\ read = Total
    /\ ended' = TRUE
    /\ IF OverPostMax THEN Returns(Nothing("post_max"))
       ELSE IF pc = "drain" THEN Returns(Nothing(boundary(in.ctype).warning))
       ELSE UNCHANGED <<result, pc, guard, disk>>
    /\ UNCHANGED <<in, dirs, read, given, i, acc, files>>

\* The connection breaks while the body is read.
BodyBreaks ==
    /\ pc \in {"next", "data", "drain"} /\ ~ended
    /\ Returns(Refused("400"))
    /\ UNCHANGED <<in, dirs, stream, i, acc, files>>

-----------------------------------------------------------------------------
(***************************************************************************)
(* The loop over the parts.                                                *)
(***************************************************************************)

Part == in.parts[i + 1]
IsLast(k) == k = Len(in.parts)

\* All of part k has arrived: the boundary after it or, if the body ends in it, the tail.
Whole(k) == /\ given >= End(k)
            /\ IsLast(k) /\ in.ending \in {"cut", "bare"} => ended

Warn(a, what) ==
    [a EXCEPT !.warnings = Append(@, [what |-> what, before |-> Len(a.fields)])]

add_field(a, name, value) ==
    LET b == [a EXCEPT !.count = @ + 1]
    IN IF b.count <= lim.max_input_vars
       THEN [b EXCEPT !.fields = Append(@, [name |-> name, value |-> value]),
                      !.last = "field"]
       ELSE IF b.count = lim.max_input_vars + 1 THEN Warn(b, "vars") ELSE b

\* A part is looked at: with a Content-Disposition it counts.
Counted(a) == [a EXCEPT !.last = None, !.parts_left = @ - 1]

\* A file part, or one that PHP takes for one: does it count, and is it passed over?
\* Fault: the flag is set anew for every part.
ForgetsToSkip(a) ==
    IF ~lim.file_uploads THEN [a EXCEPT !.skip_files = TRUE]
    ELSE IF a.uploads_left > 0 THEN [a EXCEPT !.skip_files = FALSE]
    ELSE LET b == [a EXCEPT !.skip_files = TRUE]
         IN IF a.uploads_left < 0 THEN b
            ELSE Warn([b EXCEPT !.uploads_left = -1], "uploads")

CountUpload(a) ==
    IF ~lim.file_uploads THEN [a EXCEPT !.skip_files = TRUE]
    ELSE IF a.uploads_left > 0 THEN a
    ELSE LET b == [a EXCEPT !.skip_files = TRUE]
         IN IF a.uploads_left < 0 THEN b
            ELSE Warn([b EXCEPT !.uploads_left = -1], "uploads")

\* The field's name, or the number of a file without one.
NameOf(a, part) == IF part.name = None THEN <<ToString(a.anonymous)>> ELSE part.name

Named(a, part) ==
    LET b == [a EXCEPT !.anonymous = IF part.name = None THEN @ + 1 ELSE @]
    IN IF php_keeps_file_name(NameOf(a, part)) THEN b ELSE [b EXCEPT !.skip_files = TRUE]

\* UploadedFile without a temp file.
cancelled(name, file, error) ==
    [name |-> name, file |-> basename(file), full |-> file, tmp |-> None,
     size |-> 0, error |-> error]

AddFile(a, f, last) == [a EXCEPT !.files = Append(@, f), !.last = last]

Keep(a) == acc' = a /\ i' = i + 1 /\ UNCHANGED <<pc, result>>
Break(a) == i' = i + 1 /\ ReturnsParts(a)

\* A part without a Content-Disposition, or one past the limit.
PassOver ==
    /\ pc = "next" /\ i < Len(in.parts) /\ given > End(i)
    /\ \/ ~Part.cd /\ Keep([acc EXCEPT !.last = None])
       \/ /\ Part.cd /\ acc.parts_left - 1 < 0
          /\ Break(Warn(Counted(acc), "parts"))
    /\ UNCHANGED <<in, dirs, stream, files, guard, disk>>

\* A field.  One named MAX_FILE_SIZE limits the files after it.
FieldPart ==
    /\ pc = "next" /\ i < Len(in.parts) /\ Part.cd /\ acc.parts_left > 0
    /\ Part.name # None /\ Part.file = None /\ Whole(i + 1)
    /\ LET a == Counted(acc)
           b == IF Part.name = <<"MAX_FILE_SIZE">>
                THEN [a EXCEPT !.form_max = strtoll(Part.data)] ELSE a
       IN IF IsLast(i + 1) /\ in.ending = "bare"
          THEN Break(add_field(a, Part.name, <<>>))
          ELSE Keep(add_field(b, Part.name, Part.data))
    /\ UNCHANGED <<in, dirs, stream, files, guard, disk>>

\* A part that is not a field, up to the opening of its temp file.
FilePart ==
    /\ pc = "next" /\ i < Len(in.parts) /\ Part.cd /\ acc.parts_left > 0
    /\ Part.name = None \/ Part.file # None
    /\ given > End(i)
    /\ LET a == CountUpload(Counted(acc))
           b == Named(a, Part)
       IN IF Part.file = None
          THEN Break(Warn(a, "garbled")) /\ UNCHANGED <<files, guard, disk>>
          ELSE IF b.skip_files
          THEN Keep(b) /\ UNCHANGED <<files, guard, disk>>
          ELSE IF Part.file = <<>>
          THEN /\ Keep(AddFile(b, cancelled(NameOf(a, Part), <<>>, 4), None))
               /\ UNCHANGED <<files, guard, disk>>
          ELSE /\ acc' = [b EXCEPT !.uploads_left = @ - 1]
               /\ i' = i + 1
               /\ IF temp_dir(dirs) = None
                  THEN Returns(Refused("400")) /\ UNCHANGED files
                  ELSE /\ pc' = "opening" /\ pool' = seq /\ seq' = seq + 1
                       /\ cur' = [NoFile EXCEPT !.tmp = seq, !.name = NameOf(a, Part)]
                       /\ UNCHANGED <<result, guard, disk, orphan>>
    /\ UNCHANGED <<in, dirs, stream>>

\* create_temp_file on the blocking pool, which goes on if the future is dropped.
create_temp_file ==
    /\ pool # None
    /\ pool' = None
    /\ \/ disk' = disk \cup {pool} /\ UNCHANGED <<pc, result, guard>>
       \/ IF pc = "opening" THEN Returns(Refused("400"))
          ELSE UNCHANGED <<disk, pc, result, guard>>
    /\ UNCHANGED <<in, dirs, stream, i, acc, cur, seq, orphan>>

\* The future resumes with the open file, and its guard owns the path.
\* Fault: the guard owns a file once it is whole.
OwnsLater ==
    /\ pc = "opening" /\ pool = None
    /\ pc' = "data"
    /\ UNCHANGED <<in, dirs, stream, i, acc, files, guard, disk, result>>

Opened ==
    /\ pc = "opening" /\ pool = None
    /\ pc' = "data"
    /\ guard' = guard \cup {cur.tmp}
    /\ UNCHANGED <<in, dirs, stream, i, acc, files, disk, result>>

\* The data of the file part that has arrived and was not taken yet.
Arrived == Min({Len(in.parts[i].data), given - End(i - 1) - 1}) - cur.taken

\* The error that n more bytes make of the file, 0 for none.
TooBig(n) ==
    LET total == cur.size + n
    IN IF lim.upload_max > 0 /\ total > lim.upload_max THEN 1
       ELSE IF acc.form_max # 0 /\ total > acc.form_max THEN 2 ELSE 0

\* The file is not kept; the rest of the part is skipped.
Reject(error) ==
    /\ acc' = AddFile(acc, cancelled(cur.name, in.parts[i].file, error), None)
    /\ pc' = "next" /\ cur' = NoFile
    /\ disk' = disk \ {cur.tmp}
    /\ UNCHANGED guard

Chunk(n) ==
    /\ pc = "data" /\ n <= Arrived
    /\ IF TooBig(n) # 0
       THEN Reject(TooBig(n)) /\ UNCHANGED result
       ELSE \/ /\ cur' = [cur EXCEPT !.size = @ + n, !.taken = @ + n]
               /\ UNCHANGED <<acc, pc, disk, guard, result>>
            \/ Returns(Refused("400")) /\ UNCHANGED <<acc, cur>>   \* the write failed
    /\ UNCHANGED <<in, dirs, stream, i, pool, seq, orphan>>

\* The part's data is over: the file is listed, or is the one the body ended before.
FileEnds ==
    /\ pc = "data" /\ cur.taken = Len(in.parts[i].data) /\ Whole(i)
    /\ cur' = NoFile
    /\ IF IsLast(i) /\ in.ending = "bare"
       THEN /\ disk' = disk \ {cur.tmp}
            /\ ReturnsParts(AddFile(acc, cancelled(cur.name, in.parts[i].file, 3), None))
       ELSE /\ acc' = AddFile(acc, [name |-> cur.name,
                                    file |-> basename(in.parts[i].file),
                                    full |-> in.parts[i].file, tmp |-> cur.tmp,
                                    size |-> cur.size, error |-> 0], "file")
            /\ pc' = "next"
            /\ UNCHANGED <<disk, result>>
    /\ UNCHANGED <<in, dirs, stream, i, pool, seq, orphan, guard>>

\* No part is left.  If the body ended inside the last one, the tail's part comes and
\* what was made of the last one is made good.
NoMoreParts ==
    /\ pc = "next" /\ i = Len(in.parts) /\ given >= End(i)
    /\ in.ending # "closed" => ended
    /\ IF in.ending = "cut" /\ acc.last = "file"
       THEN LET f == Last(acc.files)
            IN /\ ReturnsParts([acc EXCEPT !.files[Len(acc.files)] =
                                   [f EXCEPT !.tmp = None, !.size = 0, !.error = 3]])
               /\ disk' = disk \ {f.tmp}
       ELSE IF in.ending = "cut" /\ acc.last = "field"
       THEN /\ ReturnsParts([acc EXCEPT !.fields[Len(acc.fields)].value =
                                rest_of_field(@, boundary(in.ctype).value)])
            /\ UNCHANGED disk
       ELSE ReturnsParts(acc) /\ UNCHANGED disk
    /\ UNCHANGED <<in, dirs, stream, i, files, guard>>

-----------------------------------------------------------------------------
(***************************************************************************)
(* The rest of the request.                                                *)
(***************************************************************************)

\* move_uploaded_file().
PhpMoves(f) ==
    /\ pc = "php" /\ f.tmp \in disk
    /\ disk' = disk \ {f.tmp}
    /\ UNCHANGED <<in, dirs, pc, stream, i, acc, files, guard, result>>

\* handle() returns, or its future is dropped where it waits.
RequestEnds ==
    /\ pc \notin {"start", "dropped"}
    /\ pc' = "dropped"
    /\ DropGuard
    /\ orphan' = IF pc = "opening" THEN {cur.tmp} ELSE {}
    /\ UNCHANGED <<in, dirs, stream, i, acc, cur, pool, seq, result>>

Next ==
    \/ Start \/ BodyEnds \/ BodyBreaks
    \/ \E n \in 1..Total : poll_body(n)
    \/ PassOver \/ FieldPart \/ FilePart
    \/ create_temp_file \/ Opened \/ FileEnds \/ NoMoreParts
    \/ \E n \in 1..Total : Chunk(n)
    \/ \E f \in ToSet(acc.files) : PhpMoves(f)
    \/ RequestEnds

Spec == Init /\ [][Next]_vars

-----------------------------------------------------------------------------
(***************************************************************************)
(* What PHP's parser is documented to make of the body (the comment on     *)
(* parse): a definition over the whole body, without its loop.             *)
(***************************************************************************)

PhpIndices == DOMAIN in.parts
PhpIsFile(j) == in.parts[j].cd /\ in.parts[j].file # None
PhpIsField(j) == in.parts[j].cd /\ in.parts[j].file = None /\ in.parts[j].name # None
PhpIsGarbled(j) == in.parts[j].cd /\ in.parts[j].file = None /\ in.parts[j].name = None

\* The part PHP stops at, if there is one.
PhpPastLimit(j) == in.parts[j].cd /\ Quantify(1..j, LAMBDA h : in.parts[h].cd) > parts_limit
PhpStop == {j \in PhpIndices : PhpPastLimit(j) \/ PhpIsGarbled(j)}
PhpReads == {j \in PhpIndices : \A h \in PhpStop : j < h}

PhpFields(j) == {h \in PhpReads : PhpIsField(h) /\ h <= j}
PhpKept(j) == Min({Cardinality(PhpFields(j)), lim.max_input_vars})

\* Names: no brackets, then any number of bracketed keys.
RECURSIVE PhpKeys(_)
PhpKeys(s) ==
    \/ s = <<>>
    \/ \E n \in DOMAIN s : /\ s[1] = "[" /\ n > 1 /\ s[n] = "]"
                           /\ \A k \in 2..(n - 1) : s[k] \notin {"[", "]"}
                           /\ PhpKeys(SubSeq(s, n + 1, Len(s)))
PhpName(s) == \E n \in 0..Len(s) : /\ \A k \in 1..n : s[k] \notin {"[", "]"}
                                   /\ PhpKeys(SubSeq(s, n + 1, Len(s)))

PhpRealFile(j) == PhpIsFile(j) /\ in.parts[j].file # <<>>

\* A part from which on files are passed over.
PhpSkipsFrom(j) ==
    /\ PhpIsFile(j)
    /\ \/ ~lim.file_uploads
       \/ Quantify(1..(j - 1), PhpRealFile) >= lim.max_file_uploads
       \/ in.parts[j].name # None /\ ~PhpName(in.parts[j].name)

PhpLists == {j \in PhpReads : PhpIsFile(j) /\ \A h \in 1..j : ~PhpSkipsFrom(h)}

PhpFormMax(j) ==
    LET m == {h \in PhpFields(j) : in.parts[h].name = <<"MAX_FILE_SIZE">>}
    IN IF m = {} THEN 0 ELSE strtoll(in.parts[Max(m)].data)

\* The error codes a file may have: over both limits, either may be met first.
PhpErrors(j) ==
    LET n == Len(in.parts[j].data)
        form == PhpFormMax(j)
        ini == n > 0 /\ lim.upload_max > 0 /\ n > lim.upload_max
        frm == n > 0 /\ form # 0 /\ n > form
    IN IF in.parts[j].file = <<>> THEN {4}
       ELSE IF ini /\ frm THEN IF form < lim.upload_max THEN {1, 2} ELSE {1}
       ELSE IF ini THEN {1} ELSE IF frm THEN {2}
       ELSE IF IsLast(j) /\ in.ending \in {"cut", "bare"} THEN {3} ELSE {0}

PhpWarnings ==
    LET full == {j \in PhpReads \cup PhpStop :
                   /\ PhpIsFile(j) \/ PhpIsGarbled(j)
                   /\ j \in PhpReads \/ ((\A h \in PhpStop : j <= h) /\ ~PhpPastLimit(j))
                   /\ Quantify(1..(j - 1), LAMBDA h : h \in PhpLists /\ PhpRealFile(h))
                        = lim.max_file_uploads}
        over == Cardinality(PhpFields(Len(in.parts))) > lim.max_input_vars
        At(S, what) == IF S = {} THEN {} ELSE {[what |-> what, before |-> PhpKept(Min(S))]}
    IN At(IF lim.file_uploads THEN full ELSE {}, "uploads")
       \cup (IF over THEN {[what |-> "vars", before |-> lim.max_input_vars]} ELSE {})
       \cup (IF PhpStop = {} THEN {}
             ELSE At(PhpStop, IF PhpPastLimit(Min(PhpStop)) THEN "parts" ELSE "garbled"))

PhpFieldOf(j) ==
    [name |-> in.parts[j].name,
     value |-> IF IsLast(j) /\ in.ending = "cut"
               THEN rest_of_field(in.parts[j].data, boundary(in.ctype).value)
               ELSE in.parts[j].data]

\* r is what PHP shows of the body.
PhpShows(r) ==
    LET fields == SetToSortSeq(PhpFields(Len(in.parts)), <)
        list == SetToSortSeq(PhpLists, <)
        kept == PhpKept(Len(in.parts))
    IN /\ r.fields = [k \in 1..kept |-> PhpFieldOf(fields[k])]
       /\ Len(r.files) = Len(list)
       /\ \A k \in DOMAIN list :
            LET part == in.parts[list[k]]
                f == r.files[k]
            IN /\ f.full = part.file /\ f.file = basename(part.file)
               /\ f.name = IF part.name # None THEN part.name
                           ELSE <<ToString(Quantify(1..(list[k] - 1), LAMBDA h :
                                      PhpIsFile(h) /\ in.parts[h].name = None))>>
               /\ f.error \in PhpErrors(list[k])
               /\ f.size = IF f.error = 0 THEN Len(part.data) ELSE 0
       /\ r.warnings = PhpWarnings

\* The parser returns before the end of the body: no length then tells it is too long.
StopsEarly == PhpStop # {} \/ (in.ending = "closed" /\ in.epilogue > 0)

\* A worker's $_POST, $_FILES and upload warnings are what PHP's own parser would have
\* made of the body, whatever the limits, the order of the parts, the way the body
\* ends and the chunks it arrives in; a body over max_body_size is a 413 and one over
\* post_max_size leaves nothing.  A body without a Content-Length whose parts end, or
\* whose limits stop the parser, before its length has shown is the exception.
SeesWhatPhpSees ==
    result.status \notin {"none", "400"} =>
        LET bad == "warning" \in DOMAIN boundary(in.ctype)
            unmeasured == ~in.declared /\ (StopsEarly \/ (bad /\ post_max = 0))
            parsed == IF bad THEN result = Nothing(boundary(in.ctype).warning)
                      ELSE result.status = "ok" /\ PhpShows(result)
        IN \/ Total > BodyLimit /\ result.status = "413"
           \/ OverPostMax /\ Total <= BodyLimit /\ result = Nothing("post_max")
           \/ ~OverPostMax /\ Total <= BodyLimit /\ parsed
           \/ unmeasured /\ parsed

\* A file that PHP is told arrived whole is on disk until PHP moves it or the request
\* ends, no two files share a temp path, and one with an error code leaves nothing.
FilesAreBackedByDisk ==
    pc = "php" =>
        /\ \A j, k \in DOMAIN result.files :
             j # k /\ result.files[j].error = 0 => result.files[j].tmp # result.files[k].tmp
        /\ \A f \in ToSet(result.files) : (f.error = 0) <=> (f.tmp # None)
        /\ disk \subseteq {f.tmp : f \in ToSet(result.files)} \cup orphan

\* When the request is over, by an answer, an error or a dropped future, none of its
\* temp files is left, but for one whose open was still under way at that moment:
\* TempFiles learns of a path only after the await on its creation.
NoTempFileIsLeft == pc = "dropped" => disk \subseteq orphan

\* The helpers, on all short texts, are what their comments say of PHP and C.
HelpersAgree ==
    pc = "start" /\ in.parts = <<>> =>
        \A s \in Texts :
          /\ php_keeps_file_name(s) <=> PhpName(s)
          /\ LET r == rest_of_field(s, <<"B">>)
                 next == <<"nl", "-", "-", "B">>
                 t == SubSeq(s, Len(r) + 1, Len(s))
             IN /\ IsPrefix(r, s)
                /\ t # <<>> => IsPrefix(t, next) \/ (t[1] = "cr" /\ IsPrefix(Tail(t), next))
                /\ \A k \in DOMAIN r : ~IsPrefix(SubSeq(s, k, Len(s)), next)
          /\ LET t == SkipWhile(s, {" "})
                 signed == t # <<>> /\ t[1] \in {"-", "+"}
                 n == FoldLeft(LAMBDA v, d : v * 10 + Digit[d], 0,
                               TakeWhile(IF signed THEN Tail(t) ELSE t, DOMAIN Digit))
             IN strtoll(s) = IF signed /\ t[1] = "-" THEN Max({-n, -I64Max - 1})
                             ELSE Min({n, I64Max})

\* A form is parsed as PHP itself parses it.
FormsAreRead == SeesWhatPhpSees /\ HelpersAgree

\* Every file that PHP is told of is on disk, and no temp file outlives its request.
TempFilesAreKept == FilesAreBackedByDisk /\ NoTempFileIsLeft

=============================================================================
