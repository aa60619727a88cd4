---------------------------- MODULE WorkerProofs ----------------------------
(***************************************************************************)
(* Proofs about one worker process, for any number of connections, any     *)
(* scripts and any capacities: no request's output, headers, body, uploads *)
(* or deferred closures reach another's, and no failure is answered as a   *)
(* success.                                                                *)
(***************************************************************************)
EXTENDS Worker, TLAPS

\* A leaf that names no prover is tried with Zenon.
USE ZenonT(40)

Ops == {"echo", "buffer", "header", "read", "defer", "flush"}

Fields == {"out", "ob", "hdr", "status", "streaming", "uploads", "deferred", "ran",
           "slot", "unread", "ns"}

Types ==
    /\ jobs \in Seq(Conns)
    /\ code \in Seq(Ops)
    /\ cur \in Conns \cup {None}
    /\ DOMAIN bridge = {"pending", "stream"}
    /\ DOMAIN sapi = Fields
    /\ sapi.deferred \in Seq(Conns)
    /\ mixed \in [Conns -> SUBSET Conns]
    /\ got \in [Conns -> SUBSET (Conns \cup {None})]

\* While PHP code of a request runs, or may still print, everything the shim holds is
\* that request's, and so is the reply or stream it goes to.
OwnState ==
    /\ pc \in {"handler", "deferred", "plain"} => cur \in Conns
    /\ pc \in {"boot", "handler", "deferred", "shutdown", "plain"} =>
         sapi.out \subseteq {cur} /\ sapi.ob \subseteq {cur} /\ sapi.hdr \subseteq {cur}
    /\ pc \in {"boot", "handler", "deferred", "shutdown"} =>
         bridge.pending \in {None, cur} /\ bridge.stream \in {None, cur}
    /\ pc = "handler" =>
         /\ sapi.uploads = {cur} /\ sapi.slot = cur
         /\ sapi.unread = 1 \/ got[cur] # {}
    /\ pc \in {"handler", "deferred"} =>
         /\ sapi.ns = cur
         /\ \A i \in 1..Len(sapi.deferred) : sapi.deferred[i] = cur
    /\ pc \in {"boot", "wait", "deferred", "plain"} => sapi.uploads = {}
    /\ pc \in {"boot", "wait", "plain"} => sapi.deferred = <<>>
    /\ \A c \in Conns : mixed[c] \subseteq {c} /\ got[c] \subseteq {c}

BleedInv == Types /\ OwnState

\* At boot the thread carries nothing of any request.
LEMMA BleedInit == Init => BleedInv
  <1> SUFFICES ASSUME Init
               PROVE  BleedInv
    OBVIOUS
  <1>1. Types
    BY SMTT(40) DEF Init, Types, Fresh, Fields
  <1>2. OwnState
    BY DEF Init, OwnState, Fresh
  <1> QED
    BY <1>1, <1>2 DEF BleedInv

\* A step of the server that leaves the PHP thread alone.
LEMMA BleedServed ==
    ASSUME BleedInv, jobs' \in Seq(Conns), UNCHANGED <<phpVars, mixed, got>>
    PROVE  BleedInv'
  BY DEF BleedInv, Types, OwnState, phpVars

\* The end of the process leaves nothing to bleed.
LEMMA BleedExit ==
    ASSUME BleedInv, NEW how, Exit(how)
    PROVE  BleedInv'
  <1>1. Types'
    BY SMTT(40) DEF BleedInv, Types, Exit, Fresh, Fields
  <1>2. OwnState'
    BY DEF BleedInv, OwnState, Exit
  <1> QED
    BY <1>1, <1>2 DEF BleedInv

\* Every step of the server is one of these.
LEMMA ServeStep ==
    ASSUME Types, Serve
    PROVE  \/ jobs' \in Seq(Conns) /\ UNCHANGED <<phpVars, mixed, got>>
           \/ Exit("stopped")
  <1>1. ASSUME NEW c \in Conns, SendJob(c)
        PROVE  jobs' \in Seq(Conns) /\ UNCHANGED <<phpVars, mixed, got>>
    BY <1>1, SMTT(40) DEF SendJob, serverStep, Types
  <1>2. ASSUME NEW c \in Conns,
               \/ Accept(c) \/ ReadRequest(c) \/ CloseIdle(c) \/ ClientGone(c)
               \/ Handshake(c) \/ Unavailable(c) \/ Answered(c) \/ poll_frame(c)
        PROVE  jobs' \in Seq(Conns) /\ UNCHANGED <<phpVars, mixed, got>>
    BY <1>2 DEF Accept, ReadRequest, CloseIdle, ClientGone, Handshake, Unavailable,
                Answered, poll_frame, serverStep, Types
  <1>3. ASSUME AcceptFails \/ BackoffEnds \/ Sigterm \/ StartDrain \/ DrainDeadline
        PROVE  jobs' \in Seq(Conns) /\ UNCHANGED <<phpVars, mixed, got>>
    BY <1>3 DEF AcceptFails, BackoffEnds, Sigterm, StartDrain, DrainDeadline, serverStep, Types
  <1>4. ASSUME DrainEnds
        PROVE  Exit("stopped")
    BY <1>4 DEF DrainEnds
  <1> QED
    BY <1>1, <1>2, <1>3, <1>4 DEF Serve, ConnStep

\* What a delivery adds to the history of its client is the request's own.
LEMMA OwnBytes ==
    ASSUME Types, OwnState, NEW t \in {None, cur}, NEW what, what \subseteq {cur},
           cur \in Conns \/ t = None
    PROVE  /\ Reaches(t, what) \in [Conns -> SUBSET Conns]
           /\ \A c \in Conns : Reaches(t, what)[c] \subseteq {c}
  BY Caps, SMTT(40) DEF Types, OwnState, Reaches

\* A flush: output goes to the request's own client, and the rest stays the request's.
LEMMA FlushStep ==
    ASSUME BleedInv, pc \in {"handler", "deferred", "shutdown"},
           NEW out, out \subseteq {cur}, cur \in Conns, askr_flush(out),
           code' \in Seq(Ops), UNCHANGED <<jobs, pc, cur, got>>
    PROVE  BleedInv'
  <1> DEFINE first == ~sapi.streaming /\ bridge.pending # None
             t == IF first THEN bridge.pending ELSE bridge.stream
             what == out \cup (IF first THEN sapi.hdr ELSE {})
  <1>1. /\ bridge' = [pending |-> IF first THEN None ELSE bridge.pending,
                      stream |-> IF t # None /\ out # {} /\ Hung(t) THEN None ELSE t]
        /\ mixed' = Reaches(t, what)
        /\ sapi' = [sapi EXCEPT !.streaming = TRUE, !.out = {}]
    BY DEF askr_flush
  <1>2. t \in {None, cur} /\ what \subseteq {cur}
    BY DEF BleedInv, OwnState
  <1>3. /\ DOMAIN sapi' = Fields /\ sapi'.out = {} /\ sapi'.ob = sapi.ob
        /\ sapi'.hdr = sapi.hdr /\ sapi'.uploads = sapi.uploads /\ sapi'.slot = sapi.slot
        /\ sapi'.unread = sapi.unread /\ sapi'.ns = sapi.ns
        /\ sapi'.deferred = sapi.deferred
    BY <1>1 DEF BleedInv, Types, Fields
  <1> HIDE DEF first, t, what
  <1>4. /\ DOMAIN bridge' = {"pending", "stream"}
        /\ bridge'.pending \in {None, bridge.pending} /\ bridge'.stream \in {None, t}
    BY <1>1
  <1>5. /\ mixed' \in [Conns -> SUBSET Conns]
        /\ \A c \in Conns : mixed'[c] \subseteq {c}
    BY <1>1, <1>2, OwnBytes DEF BleedInv
  <1>6. Types'
    BY <1>3, <1>4, <1>5 DEF BleedInv, Types
  <1>7. OwnState'
    BY <1>2, <1>3, <1>4, <1>5 DEF BleedInv, OwnState
  <1> QED
    BY <1>6, <1>7 DEF BleedInv

\* Booting the application, well or badly, touches no request.
LEMMA BleedBoot ==
    ASSUME BleedInv, BootDone \/ BootDies
    PROVE  BleedInv'
  BY DEF BleedInv, Types, OwnState, BootDone, BootDies, phpStep, quiet

\* askr_handle_request() loads the request into a clean slate.
LEMMA TakeSapi ==
    ASSUME BleedInv, TakeRequest
    PROVE  LET c == Head(jobs) IN
           /\ DOMAIN sapi' = Fields /\ sapi'.ns = c /\ sapi'.uploads = {c}
           /\ sapi'.deferred = <<>> /\ sapi'.slot = c /\ sapi'.unread = 1
           /\ sapi'.out = {} /\ sapi'.ob = {} /\ sapi'.hdr = {}
           /\ sapi'.status = "200" /\ sapi'.streaming = FALSE
  <1> DEFINE c == Head(jobs)
             s1 == [sapi EXCEPT !.ns = c]
             s2 == askr_req_set(s1, c)
             s3 == worker_reset_response(s2)
  <1>1. DOMAIN s1 = Fields /\ s1.ns = c /\ s1.uploads = {} /\ s1.deferred = <<>>
    BY DEF BleedInv, Types, OwnState, Fields, TakeRequest
  <1> HIDE DEF s1
  <1>2. /\ DOMAIN s2 = Fields /\ s2.ns = c /\ s2.uploads = {} /\ s2.deferred = <<>>
        /\ s2.slot = c /\ s2.unread = 1
    BY <1>1 DEF Fields, askr_req_set
  <1> HIDE DEF s2
  <1>3. /\ DOMAIN s3 = Fields /\ s3.ns = c /\ s3.uploads = {} /\ s3.deferred = <<>>
        /\ s3.slot = c /\ s3.unread = 1
        /\ s3.out = {} /\ s3.ob = {} /\ s3.hdr = {}
        /\ s3.status = "200" /\ s3.streaming = FALSE
    BY <1>2 DEF Fields, worker_reset_response
  <1>4. sapi' = askr_uploads_begin(s3)
    BY DEF TakeRequest, load_request, s3, s2, s1
  <1> HIDE DEF s3
  <1> QED
    BY <1>3, <1>4 DEF Fields, askr_uploads_begin

\* askr_handle_request() keeps the invariant.
LEMMA BleedTake ==
    ASSUME BleedInv, TakeRequest
    PROVE  BleedInv'
  <1> DEFINE c == Head(jobs)
  <1>1. c \in Conns /\ jobs' \in Seq(Conns) /\ code' \in Seq(Ops)
    BY Caps, SMTT(40) DEF BleedInv, Types, TakeRequest, Ops
  <1>2. /\ DOMAIN sapi' = Fields /\ sapi'.ns = c /\ sapi'.uploads = {c}
        /\ sapi'.deferred = <<>> /\ sapi'.slot = c /\ sapi'.unread = 1
        /\ sapi'.out = {} /\ sapi'.ob = {} /\ sapi'.hdr = {}
    BY TakeSapi
  <1>3. /\ cur' = c /\ pc' = "handler" /\ bridge' = [pending |-> c, stream |-> None]
        /\ UNCHANGED <<mixed, got>>
    BY DEF TakeRequest
  <1> HIDE DEF c
  <1>4. Types'
    BY <1>1, <1>2, <1>3, SMTT(40) DEF BleedInv, Types
  <1>5. OwnState'
    BY <1>1, <1>2, <1>3, SMTT(40) DEF BleedInv, OwnState
  <1> QED
    BY <1>4, <1>5 DEF BleedInv

\* The plain mode starts each request from fresh state.
LEMMA BleedTakePlain ==
    ASSUME BleedInv, TakePlain
    PROVE  BleedInv'
  <1> DEFINE c == Head(jobs)
             s1 == [Fresh EXCEPT !.ns = c]
             s2 == askr_req_set(s1, c)
  <1>1. c \in Conns /\ jobs' \in Seq(Conns) /\ cur' = c
    BY SMTT(40) DEF BleedInv, Types, TakePlain
  <1>2. DOMAIN s1 = Fields /\ s1.uploads = {} /\ s1.deferred = <<>> /\ s1.ob = {}
    BY DEF Fresh, Fields
  <1> HIDE DEF s1
  <1>3. DOMAIN s2 = Fields /\ s2.uploads = {} /\ s2.deferred = <<>> /\ s2.ob = {}
    BY <1>2 DEF Fields, askr_req_set
  <1>4. sapi' = [s2 EXCEPT !.out = {c}, !.hdr = {c}]
    BY <1>1 DEF TakePlain, load_request, s2, s1
  <1> HIDE DEF s2
  <1>5. /\ DOMAIN sapi' = Fields /\ sapi'.uploads = {} /\ sapi'.deferred = <<>>
        /\ sapi'.out = {c} /\ sapi'.ob = {} /\ sapi'.hdr = {c}
    BY <1>3, <1>4 DEF Fields
  <1>6. /\ pc' = "plain" /\ bridge' = bridge /\ code' = code
        /\ UNCHANGED <<mixed, got>> /\ pc = "wait" /\ mode = "request"
    BY DEF TakePlain
  <1> HIDE DEF c
  <1>7. Types'
    BY <1>1, <1>5, <1>6, SMTT(40) DEF BleedInv, Types
  <1>8. OwnState'
    BY <1>1, <1>5, <1>6 DEF BleedInv, OwnState
  <1> QED
    BY <1>7, <1>8 DEF BleedInv

\* What one operation of the handler does to the shim's state, field by field.
LEMMA WorksSapi ==
    ASSUME BleedInv, HandlerWorks
    PROVE  /\ DOMAIN sapi' = Fields /\ sapi'.ns = sapi.ns /\ sapi'.uploads = sapi.uploads
           /\ sapi'.slot = sapi.slot
           /\ sapi'.unread = IF Head(code) = "read" THEN 0 ELSE sapi.unread
           /\ sapi'.out \in {sapi.out, sapi.out \cup {cur}}
           /\ sapi'.ob \in {sapi.ob, sapi.ob \cup {cur}}
           /\ sapi'.hdr \in {sapi.hdr, sapi.hdr \cup {cur}}
           /\ sapi'.deferred \in {sapi.deferred, Append(sapi.deferred, cur)}
           /\ sapi'.status = sapi.status /\ sapi'.streaming = sapi.streaming
  <1>1. /\ DOMAIN sapi = Fields /\ sapi' = Does(Head(code), sapi)
        /\ Head(code) \in Ops \ {"flush"}
    BY SMTT(40) DEF BleedInv, Types, HandlerWorks
  <1>2. CASE Head(code) = "echo"
    BY <1>1, <1>2 DEF Does, askr_ub_write, Fields
  <1>3. CASE Head(code) = "buffer"
    BY <1>1, <1>3 DEF Does, Fields
  <1>4. CASE Head(code) = "header"
    BY <1>1, <1>4 DEF Does, askr_send_header, Fields
  <1>5. CASE Head(code) = "read"
    BY <1>1, <1>5 DEF Does, askr_read_post, Fields
  <1>6. CASE Head(code) = "defer"
    BY <1>1, <1>6 DEF Does, askr_defer, Fields
  <1> QED
    BY <1>1, <1>2, <1>3, <1>4, <1>5, <1>6 DEF Ops

\* An operation of the handler keeps the invariant.
LEMMA BleedWorks ==
    ASSUME BleedInv, HandlerWorks
    PROVE  BleedInv'
  <1>1. /\ pc = "handler" /\ pc' = "handler" /\ cur' = cur /\ cur \in Conns
        /\ code' \in Seq(Ops)
        /\ UNCHANGED <<jobs, bridge, mixed>>
    BY SMTT(40) DEF BleedInv, Types, OwnState, HandlerWorks, quiet
  <1>2. /\ DOMAIN sapi' = Fields /\ sapi'.ns = sapi.ns /\ sapi'.uploads = sapi.uploads
        /\ sapi'.slot = sapi.slot
        /\ sapi'.unread = IF Head(code) = "read" THEN 0 ELSE sapi.unread
        /\ sapi'.out \in {sapi.out, sapi.out \cup {cur}}
        /\ sapi'.ob \in {sapi.ob, sapi.ob \cup {cur}}
        /\ sapi'.hdr \in {sapi.hdr, sapi.hdr \cup {cur}}
        /\ sapi'.deferred \in {sapi.deferred, Append(sapi.deferred, cur)}
    BY WorksSapi
  <1>3. /\ sapi'.deferred \in Seq(Conns)
        /\ \A i \in 1..Len(sapi'.deferred) : sapi'.deferred[i] = cur
    <2>1. /\ sapi.deferred \in Seq(Conns)
          /\ \A i \in 1..Len(sapi.deferred) : sapi.deferred[i] = cur
      BY <1>1 DEF BleedInv, Types, OwnState
    <2>2. CASE sapi'.deferred = sapi.deferred
      BY <2>1, <2>2
    <2>3. CASE sapi'.deferred = Append(sapi.deferred, cur)
      BY <1>1, <2>1, <2>3, SMTT(40)
    <2> QED
      BY <1>2, <2>2, <2>3
  <1>4. /\ got' \in [Conns -> SUBSET (Conns \cup {None})]
        /\ \A c \in Conns : got'[c] \subseteq {c}
        /\ Head(code) = "read" => got'[cur] # {}
        /\ got[cur] # {} => got'[cur] # {}
    <2>1. sapi.slot = cur /\ (sapi.unread = 1 \/ got[cur] # {})
      BY <1>1 DEF BleedInv, OwnState
    <2>2. CASE Head(code) # "read" \/ got[cur] # {}
      BY <2>2 DEF HandlerWorks, BleedInv, Types, OwnState
    <2>3. CASE Head(code) = "read" /\ got[cur] = {}
      <3>1. got' = [got EXCEPT ![cur] = {IF sapi.unread > 0 THEN sapi.slot ELSE None}]
        BY <2>3 DEF HandlerWorks
      <3>2. (IF sapi.unread > 0 THEN sapi.slot ELSE None) = cur
        BY <2>1, <2>3, SMTT(40)
      <3> QED
        BY <1>1, <2>3, <3>1, <3>2, SMTT(40) DEF BleedInv, Types, OwnState
    <2> QED
      BY <2>2, <2>3
  <1>5. Types'
    BY <1>1, <1>2, <1>3, <1>4 DEF BleedInv, Types
  <1>6. OwnState'
    BY <1>1, <1>2, <1>3, <1>4 DEF BleedInv, OwnState
  <1> QED
    BY <1>5, <1>6 DEF BleedInv

\* What the end of the handler leaves in the shim's state.
LEMMA EndsSapi ==
    ASSUME BleedInv, NEW how, HandlerEnds(how)
    PROVE  /\ DOMAIN sapi' = Fields /\ sapi'.ns = sapi.ns /\ sapi'.ob = sapi.ob
           /\ sapi'.hdr = sapi.hdr /\ sapi'.deferred = sapi.deferred
           /\ sapi'.out \in {sapi.out, {}} /\ sapi'.uploads = {}
           /\ sapi'.streaming = sapi.streaming
           /\ sapi'.status = IF how = "throw" THEN "500" ELSE sapi.status
           /\ Deliver(sapi')
  <1> DEFINE f == Failed(how)
  <1>1. /\ DOMAIN f = Fields /\ f.ns = sapi.ns /\ f.ob = sapi.ob /\ f.hdr = sapi.hdr
        /\ f.deferred = sapi.deferred /\ f.out \in {sapi.out, {}}
        /\ f.streaming = sapi.streaming
        /\ f.status = IF how = "throw" THEN "500" ELSE sapi.status
    BY DEF Failed, BleedInv, Types, Fields
  <1>2. sapi' = askr_uploads_end(f) /\ Deliver(sapi')
    BY DEF HandlerEnds
  <1> HIDE DEF f
  <1> QED
    BY <1>1, <1>2 DEF askr_uploads_end, Fields

\* The end of the handler keeps the invariant: the answer goes to the request's own
\* client.
LEMMA BleedEnds ==
    ASSUME BleedInv, NEW how, HandlerEnds(how)
    PROVE  BleedInv'
  <1> DEFINE t == IF sapi'.streaming THEN bridge.stream ELSE bridge.pending
             what == IF sapi'.streaming THEN sapi'.out ELSE sapi'.out \cup sapi'.hdr
  <1>1. /\ pc = "handler" /\ cur' = cur /\ cur \in Conns /\ code' = <<>>
        /\ pc' = IF sapi.deferred = <<>> THEN "wait" ELSE "deferred"
        /\ UNCHANGED <<jobs, got>>
    BY DEF BleedInv, OwnState, HandlerEnds
  <1>3. Deliver(sapi')
    BY EndsSapi
  <1>4. /\ DOMAIN sapi' = Fields /\ sapi'.ns = sapi.ns /\ sapi'.ob = sapi.ob
        /\ sapi'.hdr = sapi.hdr /\ sapi'.deferred = sapi.deferred
        /\ sapi'.out \in {sapi.out, {}} /\ sapi'.uploads = {}
    BY EndsSapi
  <1>5. t \in {None, cur} /\ what \subseteq {cur}
    BY <1>1, <1>4 DEF BleedInv, OwnState
  <1>6. mixed' = Reaches(t, what)
    BY <1>3 DEF Deliver
  <1>7. /\ DOMAIN bridge' = {"pending", "stream"}
        /\ bridge'.pending \in {None, bridge.pending}
        /\ bridge'.stream \in {None, bridge.stream}
    BY <1>3 DEF Deliver, BleedInv, Types
  <1> HIDE DEF t, what
  <1>8. /\ mixed' \in [Conns -> SUBSET Conns]
        /\ \A c \in Conns : mixed'[c] \subseteq {c}
    BY <1>1, <1>5, <1>6, OwnBytes DEF BleedInv
  <1>9. Types'
    BY <1>1, <1>4, <1>7, <1>8, SMTT(40) DEF BleedInv, Types
  <1>10. OwnState'
    BY <1>1, <1>4, <1>7, <1>8 DEF BleedInv, OwnState
  <1> QED
    BY <1>9, <1>10 DEF BleedInv

\* The end of a plain request keeps the invariant.
LEMMA BleedPlainEnds ==
    ASSUME BleedInv, NEW how, PlainEnds(how)
    PROVE  BleedInv'
  <1>1. /\ pc = "plain" /\ pc' = "wait" /\ cur \in Conns
        /\ mixed' = Reaches(cur, sapi.out \cup sapi.hdr)
        /\ sapi.out \cup sapi.hdr \subseteq {cur}
        /\ UNCHANGED <<jobs, cur, code, bridge, sapi, got>>
    BY DEF BleedInv, OwnState, PlainEnds
  <1>2. /\ mixed' \in [Conns -> SUBSET Conns]
        /\ \A c \in Conns : mixed'[c] \subseteq {c}
    BY <1>1, OwnBytes, SMTT(40) DEF BleedInv
  <1> QED
    BY <1>1, <1>2 DEF BleedInv, Types, OwnState

\* The deferred callbacks run with the request's own state.
LEMMA BleedDeferred ==
    ASSUME BleedInv, askr_run_deferred
    PROVE  BleedInv'
  <1>1. /\ pc = "deferred" /\ cur \in Conns
        /\ UNCHANGED <<jobs, bridge, mixed, cur, code, got>>
    BY DEF BleedInv, OwnState, askr_run_deferred, quiet
  <1>2. CASE sapi.ran < Len(sapi.deferred)
    <2>1. /\ DOMAIN sapi' = Fields /\ sapi'.ns = sapi.ns /\ sapi'.ob = sapi.ob
          /\ sapi'.hdr = sapi.hdr /\ sapi'.deferred = sapi.deferred
          /\ sapi'.out = sapi.out \cup {cur} /\ sapi'.uploads = sapi.uploads
          /\ pc' = pc
      BY <1>2 DEF askr_run_deferred, BleedInv, Types, Fields
    <2>2. Types'
      BY <1>1, <2>1 DEF BleedInv, Types
    <2>3. OwnState'
      BY <1>1, <2>1 DEF BleedInv, OwnState
    <2> QED
      BY <2>2, <2>3 DEF BleedInv
  <1>3. CASE ~(sapi.ran < Len(sapi.deferred))
    <2>1. /\ DOMAIN sapi' = Fields /\ sapi'.deferred = <<>>
          /\ sapi'.uploads = sapi.uploads /\ pc' = "wait"
      BY <1>3 DEF askr_run_deferred, BleedInv, Types, Fields
    <2>2. Types'
      BY <1>1, <2>1, SMTT(40) DEF BleedInv, Types
    <2>3. OwnState'
      BY <1>1, <2>1 DEF BleedInv, OwnState
    <2> QED
      BY <2>2, <2>3 DEF BleedInv
  <1> QED
    BY <1>2, <1>3

\* A fatal error keeps the invariant.
LEMMA BleedDies ==
    ASSUME BleedInv, Fatal
    PROVE  BleedInv'
  BY SMTT(40) DEF BleedInv, Types, OwnState, Fatal, phpStep, quiet

\* The end of the application's loop keeps the invariant.
LEMMA BleedLoopEnded ==
    ASSUME BleedInv, LoopEnded
    PROVE  BleedInv'
  <1>1. /\ pc' \in {"gone", "sleep"} /\ jobs' \in Seq(Conns)
        /\ bridge' = [pending |-> None, stream |-> None]
        /\ UNCHANGED <<cur, code, sapi, mixed, got>>
    BY SMTT(40) DEF BleedInv, Types, LoopEnded
  <1> QED
    BY <1>1 DEF BleedInv, Types, OwnState

\* A flush keeps the invariant.
LEMMA BleedFlushes ==
    ASSUME BleedInv, HandlerFlushes \/ DeferredFlushes \/ ShutdownFlush
    PROVE  BleedInv'
  <1>1. CASE HandlerFlushes
    <2>1. /\ cur \in Conns /\ sapi.out \subseteq {cur} /\ askr_flush(sapi.out)
          /\ pc = "handler" /\ code' \in Seq(Ops) /\ UNCHANGED <<jobs, pc, cur, got>>
      BY <1>1, SMTT(40) DEF BleedInv, Types, OwnState, HandlerFlushes
    <2> QED
      BY <2>1, FlushStep
  <1>2. CASE DeferredFlushes
    <2>1. /\ cur \in Conns /\ sapi.out \subseteq {cur} /\ askr_flush(sapi.out)
          /\ pc = "deferred" /\ code' \in Seq(Ops) /\ UNCHANGED <<jobs, pc, cur, got>>
      BY <1>2 DEF BleedInv, Types, OwnState, DeferredFlushes
    <2> QED
      BY <2>1, FlushStep
  <1>3. CASE ShutdownFlush
    <2> DEFINE out == sapi.out \cup sapi.ob \cup {cur}
    <2>1. /\ cur \in Conns /\ out \subseteq {cur} /\ askr_flush(out)
          /\ pc = "shutdown" /\ code' \in Seq(Ops) /\ UNCHANGED <<jobs, pc, cur, got>>
      BY <1>3 DEF BleedInv, Types, OwnState, ShutdownFlush
    <2> HIDE DEF out
    <2> QED
      BY <2>1, FlushStep
  <1> QED
    BY <1>1, <1>2, <1>3

\* Every step keeps the invariant.
LEMMA BleedNext == BleedInv /\ [Next]_vars => BleedInv'
  <1> SUFFICES ASSUME BleedInv, [Next]_vars
               PROVE  BleedInv'
    OBVIOUS
  <1>1. CASE Serve
    BY <1>1, ServeStep, BleedServed, BleedExit DEF BleedInv
  <1>2. CASE BootDone \/ BootDies
    BY <1>2, BleedBoot
  <1>3. CASE TakeRequest \/ TakePlain
    BY <1>3, BleedTake, BleedTakePlain
  <1>4. CASE HandlerWorks
    BY <1>4, BleedWorks
  <1>5. CASE HandlerFlushes \/ DeferredFlushes \/ ShutdownFlush
    BY <1>5, BleedFlushes
  <1>6. CASE Ends
    BY <1>6, BleedEnds, BleedPlainEnds DEF Ends
  <1>7. CASE askr_run_deferred \/ Fatal \/ LoopEnded
    BY <1>7, BleedDeferred, BleedDies, BleedLoopEnded
  <1>8. CASE ExitForRespawn
    BY <1>8, BleedExit DEF ExitForRespawn
  <1>9. CASE UNCHANGED vars
    BY <1>9 DEF vars, phpVars, BleedInv, Types, OwnState
  <1> QED
    BY <1>1, <1>2, <1>3, <1>4, <1>5, <1>6, <1>7, <1>8, <1>9 DEF Next, Php

\* The PHP request of a worker never ends, and still no client is sent a byte or a
\* header of another request, and every handler has its own namespace, upload table,
\* deferred closures and php://input (worker_reset_response(), load_request(),
\* askr_uploads_begin() and askr_uploads_end()), for any number of connections, any
\* scripts and any capacities.
THEOREM NothingBleeds == Spec => []RequestsDoNotBleed
  <1>1. BleedInv => RequestsDoNotBleed
    BY DEF BleedInv, OwnState, RequestsDoNotBleed
  <1> QED
    BY <1>1, BleedInit, BleedNext, PTL DEF Spec

-----------------------------------------------------------------------------
(***************************************************************************)
(* Failures.                                                               *)
(***************************************************************************)

ConnStates == {"off", "handshake", "idle", "sending", "awaiting", "reading", "kept", "done"}
Replies == {"open", "stream", "200", "500", "fail", "dropped"}
Sights == {"nothing", "closed", "502", "200", "500", "cut", "complete", "reset"}
Endings == {"no", "return", "exit", "throw", "fatal", "startup"}

FailTypes ==
    /\ mode \in {"worker", "request"}
    /\ conn \in [Conns -> ConnStates]
    /\ reply \in [Conns -> Replies]
    /\ body \in [Conns -> Seq({"data", "err"})]
    /\ seen \in [Conns -> Sights]
    /\ ended \in [Conns -> Endings]

\* A queued job is its request's only one; nothing has been done for it yet.
Queued ==
    /\ \A i \in 1..Len(jobs) :
         /\ conn[jobs[i]] \in {"awaiting", "done"}
         /\ ended[jobs[i]] = "no" /\ reply[jobs[i]] = "open" /\ jobs[i] # cur
    /\ \A i, j \in 1..Len(jobs) : jobs[i] = jobs[j] => i = j

\* What the PHP thread owes the request whose code runs, or died: an answer, or the end
\* of the stream it began.
Owes ==
    IF sapi.streaming
    THEN /\ reply[cur] = "stream" /\ bridge.pending = None
         /\ conn[cur] # "done" => bridge.stream = cur
    ELSE reply[cur] = "open" /\ bridge.pending = cur /\ bridge.stream = None

Died == pc = "shutdown" /\ cur \in Conns /\ ended[cur] = "fatal"

Thread ==
    /\ mode = "request" => pc \in {"wait", "plain", "gone"}
    /\ mode = "worker" => pc # "plain"
    /\ pc = "boot" => cur = None
    /\ pc \in {"handler", "plain"} => ended[cur] = "no" /\ reply[cur] \in {"open", "stream"}
    /\ pc = "handler" => Owes /\ sapi.status = "200" /\ seen[cur] # "complete"
    /\ pc = "plain" => reply[cur] = "open"
    /\ pc = "deferred" => ended[cur] # "fatal"
    /\ Died => Owes
    /\ pc # "handler" /\ ~Died => bridge.pending = None /\ bridge.stream = None

\* The client of a request that died has been told, or will be by what is in its channel.
Told(c) ==
    \/ reply[c] = "fail"
    \/ /\ reply[c] = "stream"
       /\ conn[c] \in {"awaiting", "reading"} =>
            body[c] # <<>> /\ body[c][Len(body[c])] = "err"

ConnInv(c) ==
    /\ conn[c] \in {"off", "handshake", "idle", "sending"} =>
         ended[c] = "no" /\ reply[c] = "open" /\ seen[c] = "nothing" /\ c # cur
    /\ conn[c] = "awaiting" => seen[c] = "nothing"
    /\ conn[c] = "reading" => seen[c] = "nothing" /\ reply[c] = "stream"
    /\ seen[c] = "200" => reply[c] = "200"
    /\ seen[c] = "complete" => reply[c] = "stream"
    /\ mode = "worker" /\ reply[c] = "200" => ended[c] \in {"return", "exit"}
    /\ mode = "worker" /\ ended[c] = "fatal" =>
         seen[c] # "complete" /\ (proc # "up" \/ (Died /\ cur = c) \/ Told(c))
    /\ ended[c] # "no" => proc # "up" \/ reply[c] # "open" \/ (Died /\ cur = c)
    /\ seen[c] = "reset" =>
         late \/ (proc = "respawn" /\ ended[c] = "no" /\ reply[c] = "open")

FailInv ==
    /\ FailTypes /\ Queued /\ Thread
    /\ \A c \in Conns : ConnInv(c)

\* A chunk more keeps the bodies well typed.
LEMMA BodyType ==
    ASSUME body \in [Conns -> Seq({"data", "err"})], NEW c \in Conns,
           NEW what \in {"data", "err"},
           body' = body \/ body' = [body EXCEPT ![c] = Append(@, what)]
    PROVE  body' \in [Conns -> Seq({"data", "err"})]
  <1>1. CASE body' = body
    BY <1>1
  <1>2. CASE body' = [body EXCEPT ![c] = Append(@, what)]
    <2>1. Append(body[c], what) \in Seq({"data", "err"})
      BY SMTT(40)
    <2> QED
      BY <1>2, <2>1
  <1> QED
    BY <1>1, <1>2

\* An error at the end of a body is still at its end when data before it is taken.
LEMMA LastOfTail ==
    ASSUME NEW S, NEW b \in Seq(S), b # <<>>, b[Len(b)] # b[1]
    PROVE  Tail(b) # <<>> /\ Tail(b)[Len(Tail(b))] = b[Len(b)]
  <1>1. Len(b) \in Nat /\ Len(b) # 0 /\ Len(b) # 1
    BY SMTT(40)
  <1>2. /\ Tail(b) \in Seq(S) /\ Len(Tail(b)) = Len(b) - 1
        /\ \A i \in 1 .. Len(b) - 1 : Tail(b)[i] = b[i + 1]
    BY SMTT(40)
  <1> QED
    BY <1>1, <1>2, SMTT(40)

\* No answer is under way at the start.
LEMMA FailInit == Init => FailInv
  <1> SUFFICES ASSUME Init
               PROVE  FailInv
    OBVIOUS
  <1>1. FailTypes
    BY Caps, SMTT(40) DEF Init, FailTypes, ConnStates, Replies, Sights, Endings
  <1>2. Queued
    BY SMTT(40) DEF Init, Queued
  <1>3. Thread
    BY <1>1 DEF Init, Thread, Died, FailTypes
  <1>4. \A c \in Conns : ConnInv(c)
    BY Caps DEF Init, ConnInv
  <1> QED
    BY <1>1, <1>2, <1>3, <1>4 DEF FailInv

\* A step of the server that changes the state of one connection's task and what its
\* client sees: what the step must not do to the PHP thread's claims.
LEMMA FailServed ==
    ASSUME BleedInv, FailInv, NEW c \in Conns, NEW to \in ConnStates, NEW what \in Sights,
           Goes(c, to), Sees(c, what),
           jobs' = jobs, reply' = reply, UNCHANGED <<proc, mode, phpVars, ended>>,
           late' = late,
           body' \in [Conns -> Seq({"data", "err"})],
           \A d \in Conns \ {c} : body'[d] = body[d],
           ConnInv(c)',
           conn[c] \in {"awaiting", "done"} => to \in {"awaiting", "reading", "kept", "done"},
           conn[c] = "awaiting" /\ reply[c] = "open" => to \in {"awaiting", "done"},
           conn[c] = "done" => to = "done",
           what = "complete" => c # cur \/ pc # "handler"
    PROVE  FailInv'
  <1>1. FailTypes'
    BY DEF FailInv, FailTypes, Goes, Sees
  <1>2. Queued'
    BY SMTT(40) DEF FailInv, Queued, FailTypes, Goes, BleedInv, Types, phpVars
  <1>3. Thread'
    BY DEF FailInv, Thread, FailTypes, Goes, Sees, phpVars, Owes, Died, BleedInv, OwnState
  <1>4. ASSUME NEW d \in Conns, d # c
        PROVE  ConnInv(d)'
    BY <1>4, SMTT(40) DEF FailInv, ConnInv, FailTypes, Goes, Sees, phpVars, Died, Told
  <1> QED
    BY <1>1, <1>2, <1>3, <1>4 DEF FailInv

\* A connection that is accepted, reads a request, closes or gets its head keeps the
\* invariant.
LEMMA FailTask ==
    ASSUME BleedInv, FailInv, NEW c \in Conns,
           \/ Accept(c) \/ Handshake(c) \/ ReadRequest(c) \/ CloseIdle(c) \/ ClientGone(c)
           \/ Unavailable(c) \/ Answered(c)
    PROVE  FailInv'
  <1> USE DEF FailInv, FailTypes, Goes, Sees, serverStep, srvVars, phpVars
  <1>1. /\ proc = "up" /\ late' = late /\ reply' = reply
        /\ UNCHANGED <<jobs, proc, mode, phpVars, ended>>
    BY DEF Accept, Handshake, ReadRequest, CloseIdle, ClientGone, Unavailable, Answered
  <1>2. /\ body' \in [Conns -> Seq({"data", "err"})]
        /\ \A d \in Conns \ {c} : body'[d] = body[d]
        /\ body'[c] = body[c] \/ conn'[c] = "done"
    <2>1. CASE ClientGone(c)
      <3>1. body' = [body EXCEPT ![c] = <<>>] /\ conn' = [conn EXCEPT ![c] = "done"]
        BY <2>1 DEF ClientGone
      <3>2. <<>> \in Seq({"data", "err"})
        BY SMTT(40)
      <3> QED
        BY <3>1, <3>2
    <2>2. CASE ~ClientGone(c)
      <3>1. body' = body
        BY <2>2 DEF Accept, Handshake, ReadRequest, CloseIdle, Unavailable, Answered
      <3> QED
        BY <3>1
    <2> QED
      BY <2>1, <2>2
  <1>3. PICK to \in ConnStates, what \in Sights :
           /\ Goes(c, to) /\ Sees(c, what)
           /\ \/ conn[c] \in {"off", "handshake", "idle"} /\ to \in {"handshake", "idle", "sending"}
                 /\ what = seen[c]
              \/ conn[c] \in {"off", "handshake", "idle", "sending", "awaiting", "reading"}
                 /\ to = "done" /\ what = "closed"
              \/ conn[c] = "kept" /\ to = "done" /\ what = seen[c]
              \/ conn[c] = "sending" /\ to = "kept" /\ what = "502"
              \/ conn[c] = "awaiting" /\ to = "reading" /\ what = seen[c] /\ reply[c] = "stream"
              \/ /\ conn[c] = "awaiting" /\ to = "kept"
                 /\ reply[c] \notin {"open", "stream"}
                 /\ what = IF reply[c] \in {"fail", "dropped"} THEN "502" ELSE reply[c]
    <2>1. CASE Accept(c)
      BY <2>1, SMTT(40) DEF Accept, ConnStates, Sights
    <2>2. CASE Handshake(c)
      BY <2>2, SMTT(40) DEF Handshake, ConnStates, Sights
    <2>3. CASE ReadRequest(c)
      BY <2>3 DEF ReadRequest, ConnStates, Sights
    <2>4. CASE CloseIdle(c)
      BY <2>4 DEF CloseIdle, ConnStates, Sights
    <2>5. CASE ClientGone(c)
      BY <2>5 DEF ClientGone, ConnStates, Sights
    <2>6. CASE Unavailable(c)
      BY <2>6 DEF Unavailable, ConnStates, Sights
    <2>7. CASE Answered(c)
      <3>1. CASE reply[c] = "stream"
        BY <2>7, <3>1, SMTT(40) DEF Answered, ConnStates, Sights
      <3>2. CASE reply[c] # "stream"
        BY <2>7, <3>2 DEF Answered, ConnStates, Sights, Replies
      <3> QED
        BY <3>1, <3>2
    <2> QED
      BY <2>1, <2>2, <2>3, <2>4, <2>5, <2>6, <2>7
  <1>4. conn'[c] = to /\ seen'[c] = what /\ ConnInv(c)
    BY <1>3
  <1>5. reply[c] \in Replies /\ seen[c] \in Sights /\ ended[c] \in Endings /\ Died' = Died
    BY <1>1 DEF Died
  <1>6. ConnInv(c)'
    <2>1. CASE to \in {"handshake", "idle", "sending", "reading"}
      BY <1>1, <1>2, <1>3, <1>4, <1>5, <2>1 DEF ConnInv, Told
    <2>2. CASE to = "done"
      BY <1>1, <1>2, <1>3, <1>4, <1>5, <2>2 DEF ConnInv, Told
    <2>3. CASE to = "kept"
      BY <1>1, <1>2, <1>3, <1>4, <1>5, <2>3 DEF ConnInv, Told, Replies
    <2> QED
      BY <1>3, <2>1, <2>2, <2>3
  <1>7. /\ conn[c] \in {"awaiting", "done"} => to \in {"awaiting", "reading", "kept", "done"}
        /\ conn[c] = "awaiting" /\ reply[c] = "open" => to \in {"awaiting", "done"}
        /\ conn[c] = "done" => to = "done"
        /\ what = "complete" => seen[c] = "complete"
    BY <1>3, <1>5 DEF Replies
  <1>8. what = "complete" => c # cur \/ pc # "handler"
    BY <1>7 DEF Thread
  <1>9. Goes(c, to) /\ Sees(c, what)
    BY <1>3
  <1> HIDE DEF FailInv, FailTypes, Goes, Sees, serverStep, srvVars, phpVars
  <1> QED
    BY <1>1, <1>2, <1>6, <1>7, <1>8, <1>9, FailServed

\* poll_frame() keeps the invariant: the client sees a clean end only if the body has
\* one.
LEMMA FailFrame ==
    ASSUME BleedInv, FailInv, NEW c \in Conns, poll_frame(c)
    PROVE  FailInv'
  <1> USE DEF FailInv, FailTypes, Goes, Sees, serverStep, srvVars, phpVars
  <1>1. /\ proc = "up" /\ late' = late /\ reply' = reply /\ conn[c] = "reading"
        /\ UNCHANGED <<jobs, proc, mode, phpVars, ended>>
        /\ ConnInv(c) /\ seen[c] = "nothing" /\ reply[c] = "stream"
    BY DEF poll_frame, ConnInv
  <1>2. CASE body[c] # <<>> /\ body' = [body EXCEPT ![c] = Tail(@)] /\ Head(body[c]) = "data"
             /\ UNCHANGED <<conn, seen>>
    <2>1. /\ body' \in [Conns -> Seq({"data", "err"})]
          /\ \A d \in Conns \ {c} : body'[d] = body[d]
          /\ body'[c] = Tail(body[c])
      BY <1>2, SMTT(40)
    <2>2. body[c][Len(body[c])] = "err" =>
            body'[c] # <<>> /\ body'[c][Len(body'[c])] = "err"
      <3>1. body[c] \in Seq({"data", "err"}) /\ body[c] # <<>> /\ body[c][1] = "data"
        BY <1>2, SMTT(40)
      <3> QED
        BY <2>1, <3>1, LastOfTail
    <2>3. Goes(c, "reading") /\ Sees(c, "nothing")
      BY <1>1, <1>2
    <2>4. ConnInv(c)'
      BY <1>1, <1>2, <2>2 DEF ConnInv, Died, Told
    <2> QED
      BY <1>1, <2>1, <2>3, <2>4, FailServed DEF ConnStates, Sights
  <1>3. CASE body[c] # <<>> /\ body' = [body EXCEPT ![c] = Tail(@)]
             /\ Goes(c, "done") /\ Sees(c, "cut")
    <2>1. /\ body' \in [Conns -> Seq({"data", "err"})]
          /\ \A d \in Conns \ {c} : body'[d] = body[d]
      BY <1>3, SMTT(40)
    <2>2. ConnInv(c)'
      BY <1>1, <1>3 DEF ConnInv, Died, Told
    <2> QED
      BY <1>1, <1>3, <2>1, <2>2, FailServed DEF ConnStates, Sights
  <1>4. CASE /\ body[c] = <<>> /\ bridge.stream # c /\ UNCHANGED body
             /\ Goes(c, "kept") /\ Sees(c, "complete")
    <2>1. c # cur \/ pc # "handler"
      BY <1>1, <1>4 DEF Thread, Owes
    <2>2. ~(Died /\ cur = c)
      BY <1>1, <1>4 DEF Thread, Owes, Died
    <2>3. ConnInv(c)'
      BY <1>1, <1>4, <2>2 DEF ConnInv, Died, Told
    <2> QED
      BY <1>1, <1>4, <2>1, <2>3, FailServed DEF ConnStates, Sights
  <1> QED
    BY <1>2, <1>3, <1>4 DEF poll_frame

\* Handing a request to the PHP thread keeps the invariant.
LEMMA FailSendJob ==
    ASSUME BleedInv, FailInv, NEW c \in Conns, SendJob(c)
    PROVE  FailInv'
  <1> USE DEF FailInv, FailTypes, serverStep, srvVars, phpVars
  <1>1. /\ proc = "up" /\ late' = late /\ conn[c] = "sending"
        /\ jobs \in Seq(Conns) /\ jobs' = Append(jobs, c)
        /\ conn' = [conn EXCEPT ![c] = "awaiting"]
        /\ UNCHANGED <<proc, mode, phpVars, ended, reply, body, seen>>
        /\ ended[c] = "no" /\ reply[c] = "open" /\ seen[c] = "nothing" /\ c # cur
    BY DEF SendJob, ConnInv, Goes, BleedInv, Types
  <1>2. FailTypes'
    BY <1>1 DEF ConnStates
  <1>3. \A i \in 1..Len(jobs) : jobs[i] # c
    BY <1>1 DEF Queued
  <1>4. Queued'
    <2>1. /\ Len(jobs') = Len(jobs) + 1 /\ Len(jobs) \in Nat /\ jobs'[Len(jobs) + 1] = c
          /\ \A i \in 1..Len(jobs) : jobs'[i] = jobs[i] /\ jobs[i] \in Conns
      BY <1>1, SMTT(40)
    <2>2. \A i \in 1..Len(jobs') : i = Len(jobs) + 1 \/ i \in 1..Len(jobs)
      BY <2>1, SMTT(40)
    <2>3. conn'[c] = "awaiting" /\ \A d \in Conns : d # c => conn'[d] = conn[d]
      BY <1>1
    <2>q. Queued
      OBVIOUS
    <2> HIDE DEF FailInv, FailTypes, serverStep, srvVars, phpVars
    <2>u. UNCHANGED <<ended, reply, cur>>
      BY <1>1 DEF phpVars
    <2>4. ASSUME NEW i \in 1..Len(jobs')
          PROVE  /\ conn'[jobs'[i]] \in {"awaiting", "done"}
                 /\ ended'[jobs'[i]] = "no" /\ reply'[jobs'[i]] = "open" /\ jobs'[i] # cur'
      <3>1. CASE i \in 1..Len(jobs)
        BY <1>3, <2>1, <2>3, <2>q, <2>u, <3>1, SMTT(40) DEF Queued
      <3>2. CASE i = Len(jobs) + 1
        BY <1>1, <2>1, <2>3, <2>u, <3>2
      <3> QED
        BY <2>2, <3>1, <3>2
    <2>5. ASSUME NEW i \in 1..Len(jobs'), NEW j \in 1..Len(jobs'), jobs'[i] = jobs'[j]
          PROVE  i = j
      <3>1. CASE i \in 1..Len(jobs) /\ j \in 1..Len(jobs)
        BY <2>1, <2>5, <2>q, <3>1, SMTT(40) DEF Queued
      <3>2. CASE i = Len(jobs) + 1 \/ j = Len(jobs) + 1
        BY <1>3, <2>1, <2>2, <2>5, <3>2
      <3> QED
        BY <2>2, <3>1, <3>2
    <2> QED
      BY <2>4, <2>5 DEF Queued
  <1>5. Thread'
    BY <1>1 DEF Thread, Owes, Died, BleedInv, OwnState
  <1>6. ASSUME NEW d \in Conns
        PROVE  ConnInv(d)'
    BY <1>1 DEF ConnInv, Died, Told
  <1> QED
    BY <1>2, <1>4, <1>5, <1>6

\* The steps of the accept loop, and steps that change nothing.
LEMMA FailAccepts ==
    ASSUME BleedInv, FailInv,
           UNCHANGED <<proc, mode, phpVars, ended, conn, jobs, reply, body, seen>>,
           late => late'
    PROVE  FailInv'
  <1>1. UNCHANGED <<pc, cur, bridge, sapi, ended, conn, jobs, reply, body, seen, mode, proc>>
    BY DEF phpVars
  <1>2. FailTypes' /\ Queued' /\ Died' = Died
    BY <1>1 DEF FailInv, FailTypes, Queued, Died
  <1>3. Thread'
    BY <1>1, <1>2 DEF FailInv, Thread, Owes
  <1>4. ASSUME NEW c \in Conns
        PROVE  ConnInv(c)'
    <2>1. ConnInv(c)
      BY DEF FailInv
    <2> QED
      BY <1>1, <1>2, <2>1 DEF ConnInv, Told
  <1> QED
    BY <1>2, <1>3, <1>4 DEF FailInv

\* The exit of the process keeps the invariant: only a late drain cuts answers short.
LEMMA FailExit ==
    ASSUME BleedInv, FailInv, DrainEnds \/ ExitForRespawn
    PROVE  FailInv'
  <1> USE DEF FailInv, FailTypes, srvVars
  <1>1. PICK how \in {"stopped", "respawn"} :
           /\ Exit(how) /\ proc = "up"
           /\ how = "stopped" => Active = {} \/ late
           /\ how = "respawn" =>
                pc = "sleep" /\ \A c \in Conns : conn[c] = "awaiting" => reply[c] = "open"
    BY DEF DrainEnds, ExitForRespawn
  <1>2. /\ proc' = how /\ jobs' = <<>> /\ pc' = "gone" /\ cur' = None
        /\ conn' = [c \in Conns |-> "done"] /\ body' = [c \in Conns |-> <<>>]
        /\ bridge' = [pending |-> None, stream |-> None]
        /\ UNCHANGED <<mode, late, reply, ended>>
        /\ seen' = [c \in Conns |->
                 CASE conn[c] \in {"sending", "awaiting"} -> "reset"
                   [] conn[c] = "reading" -> "cut"
                   [] OTHER -> seen[c]]
    BY <1>1 DEF Exit
  <1>3. FailTypes'
    BY <1>2, SMTT(40) DEF ConnStates, Sights
  <1>4. Queued'
    BY <1>2, SMTT(40) DEF Queued
  <1>5. Thread'
    BY <1>2 DEF Thread, Died
  <1>6. ASSUME NEW c \in Conns
        PROVE  ConnInv(c)'
    <2>1. /\ conn'[c] = "done"
          /\ seen'[c] \in {seen[c], "reset", "cut"}
          /\ seen'[c] = "reset" => seen[c] = "reset" \/ conn[c] \in {"sending", "awaiting"}
      BY <1>2
    <2>2. ConnInv(c) /\ ~Died'
      BY <1>2 DEF Died
    <2>3. seen'[c] = "reset" =>
             late' \/ (proc' = "respawn" /\ ended'[c] = "no" /\ reply'[c] = "open")
      BY <1>1, <1>2, <2>1, <2>2 DEF ConnInv, Active, Died
    <2> QED
      BY <1>2, <2>1, <2>2, <2>3 DEF ConnInv
  <1> QED
    BY <1>3, <1>4, <1>5, <1>6

\* Booting keeps the invariant.
LEMMA FailBoot ==
    ASSUME BleedInv, FailInv, BootDone \/ BootDies
    PROVE  FailInv'
  <1>1. /\ pc = "boot" /\ pc' \in {"wait", "shutdown"} /\ cur' = cur
        /\ UNCHANGED <<proc, mode, late, conn, seen, jobs, reply, body, bridge, ended>>
    BY DEF BootDone, BootDies, phpStep, quiet, srvVars
  <1>2. /\ FailTypes' /\ Queued'
        /\ ~Died /\ ~Died'
    <2>1. FailTypes' /\ Queued'
      BY <1>1 DEF FailInv, FailTypes, Queued
    <2>2. cur = None
      BY <1>1 DEF FailInv, Thread
    <2> QED
      BY <1>1, <2>1, <2>2, Caps DEF Died
  <1>3. Thread'
    BY <1>1, <1>2 DEF FailInv, FailTypes, Thread
  <1>4. ASSUME NEW c \in Conns
        PROVE  ConnInv(c)'
    BY <1>1, <1>2 DEF FailInv, ConnInv, Told
  <1> QED
    BY <1>2, <1>3, <1>4 DEF FailInv

\* The next job leaves the queue, in either mode.
LEMMA FailTake ==
    ASSUME BleedInv, FailInv, TakeRequest \/ TakePlain
    PROVE  FailInv'
  <1> DEFINE c == Head(jobs)
  <1> USE DEF FailInv, FailTypes
  <1>1. /\ jobs \in Seq(Conns) /\ jobs # <<>> /\ c = jobs[1] /\ c \in Conns
        /\ jobs' = Tail(jobs) /\ cur' = c /\ pc = "wait" /\ ~Died
        /\ UNCHANGED <<proc, mode, late, conn, seen, reply, body, ended>>
    BY SMTT(40) DEF TakeRequest, TakePlain, phpStep, srvVars, BleedInv, Types, Died
  <1>2. /\ conn[c] \in {"awaiting", "done"} /\ ended[c] = "no" /\ reply[c] = "open"
        /\ seen[c] # "complete"
    BY <1>1, SMTT(40) DEF Queued, ConnInv
  <1>3. FailTypes'
    BY <1>1
  <1>4. Queued'
    <2>1. /\ Len(jobs') = Len(jobs) - 1 /\ Len(jobs) \in Nat \ {0}
          /\ \A i \in 1..Len(jobs') : jobs'[i] = jobs[i + 1]
      BY <1>1, SMTT(40)
    <2>2. \A i \in 1..Len(jobs') : i + 1 \in 1..Len(jobs) /\ i + 1 # 1
      BY <2>1, SMTT(40)
    <2>3. \A i \in 1..Len(jobs') : jobs'[i] # c
      BY <1>1, <2>1, <2>2, SMTT(40) DEF Queued
    <2>4. \A i, j \in 1..Len(jobs') : jobs'[i] = jobs'[j] => i = j
      <3> SUFFICES ASSUME NEW i \in 1..Len(jobs'), NEW j \in 1..Len(jobs'),
                          jobs'[i] = jobs'[j]
                   PROVE  i = j
        OBVIOUS
      <3>1. i + 1 = j + 1
        BY <2>1, <2>2 DEF Queued
      <3> QED
        BY <2>1, <3>1, SMTT(40)
    <2> QED
      BY <1>1, <2>1, <2>2, <2>3, <2>4, SMTT(40) DEF Queued
  <1>5. Thread'
    <2>1. CASE TakeRequest
      <3>1. /\ pc' = "handler" /\ mode = "worker"
            /\ bridge' = [pending |-> c, stream |-> None]
            /\ sapi'.status = "200" /\ sapi'.streaming = FALSE
        BY <2>1, TakeSapi DEF TakeRequest
      <3> QED
        BY <1>1, <1>2, <3>1 DEF Thread, Owes, Died
    <2>2. CASE TakePlain
      <3>1. pc' = "plain" /\ mode = "request" /\ bridge' = bridge
        BY <2>2 DEF TakePlain
      <3> QED
        BY <1>1, <1>2, <3>1 DEF Thread, Died
    <2> QED
      BY <2>1, <2>2
  <1>6. ASSUME NEW d \in Conns
        PROVE  ConnInv(d)'
    <2>1. ~Died'
      BY DEF TakeRequest, TakePlain, Died
    <2> QED
      BY <1>1, <1>2, <2>1 DEF ConnInv, Told
  <1> QED
    BY <1>3, <1>4, <1>5, <1>6

\* An operation of the handler keeps the invariant.
LEMMA FailWorks ==
    ASSUME BleedInv, FailInv, HandlerWorks
    PROVE  FailInv'
  <1>1. /\ UNCHANGED <<proc, mode, late, conn, seen, jobs, reply, body, bridge, ended, pc, cur>>
        /\ sapi'.status = sapi.status /\ sapi'.streaming = sapi.streaming
    BY WorksSapi DEF HandlerWorks, phpStep, quiet, srvVars
  <1>2. FailTypes' /\ Queued' /\ Died' = Died
    BY <1>1 DEF FailInv, FailTypes, Queued, Died
  <1>3. Thread'
    BY <1>1, <1>2 DEF FailInv, Thread, Owes
  <1>4. ASSUME NEW c \in Conns
        PROVE  ConnInv(c)'
    BY <1>1, <1>2 DEF FailInv, ConnInv, Told
  <1> QED
    BY <1>2, <1>3, <1>4 DEF FailInv

\* A step that may change the reply and the body channel of the running request only.
LEMMA FailRuns ==
    ASSUME BleedInv, FailInv, cur \in Conns, cur' = cur, jobs' = jobs,
           UNCHANGED <<proc, mode, late, conn, seen>>, FailTypes', Thread', ConnInv(cur)',
           \A c \in Conns \ {cur} :
             reply'[c] = reply[c] /\ body'[c] = body[c] /\ ended'[c] = ended[c]
    PROVE  FailInv'
  <1>1. Queued'
    <2>1. \A i \in 1..Len(jobs) : jobs[i] \in Conns \ {cur}
      <3>1. jobs \in Seq(Conns)
        BY DEF BleedInv, Types
      <3>2. \A i \in 1..Len(jobs) : jobs[i] # cur
        BY DEF FailInv, Queued
      <3> QED
        BY <3>1, <3>2, SMTT(40)
    <2> QED
      BY <2>1 DEF FailInv, Queued
  <1>2. ASSUME NEW c \in Conns, c # cur
        PROVE  ConnInv(c)'
    <2>1. ConnInv(c)
      BY DEF FailInv
    <2>2. reply'[c] = reply[c] /\ body'[c] = body[c] /\ ended'[c] = ended[c] /\ cur # c
      BY <1>2
    <2> QED
      BY <2>1, <2>2 DEF ConnInv, Told
  <1> QED
    BY <1>1, <1>2 DEF FailInv

\* After a flush the request streams, with the status it had.
LEMMA FlushSapi ==
    ASSUME BleedInv, NEW out, askr_flush(out)
    PROVE  sapi'.streaming = TRUE /\ sapi'.status = sapi.status
  BY DEF askr_flush, BleedInv, Types, Fields

\* askr_flush() keeps the invariant: the head goes out once, then data.
LEMMA FailFlush ==
    ASSUME BleedInv, FailInv, pc \in {"handler", "deferred", "shutdown"}, cur \in Conns,
           NEW out, askr_flush(out), phpStep, UNCHANGED <<jobs, pc, cur, ended>>
    PROVE  FailInv'
  <1> USE DEF FailInv, FailTypes
  <1>1. /\ sapi'.streaming = TRUE /\ sapi'.status = sapi.status /\ proc = "up"
        /\ UNCHANGED <<proc, mode, late, conn, seen>>
    BY FlushSapi DEF phpStep, srvVars
  <1>2. CASE pc = "handler" \/ Died
    <2>1. Owes
      BY <1>2 DEF Thread
    <2>2. /\ bridge'.pending = None /\ (conn[cur] # "done" => bridge'.stream = cur)
          /\ bridge'.stream \in {None, cur}
          /\ reply' = [reply EXCEPT ![cur] = "stream"]
          /\ body' = body \/ body' = [body EXCEPT ![cur] = Append(@, "data")]
      <3>1. CASE sapi.streaming
        <4>1. reply[cur] = "stream" /\ bridge.pending = None /\ bridge.stream \in {None, cur}
          BY <1>2, <2>1, <3>1 DEF Owes, BleedInv, OwnState, Died
        <4>2. reply = [reply EXCEPT ![cur] = "stream"]
          BY <4>1
        <4> QED
          BY <2>1, <3>1, <4>1, <4>2 DEF Owes, askr_flush, Fed, Hung
      <3>2. CASE ~sapi.streaming
        <4>1. reply[cur] = "open" /\ bridge.pending = cur /\ bridge.stream = None
          BY <2>1, <3>2 DEF Owes
        <4> QED
          BY <3>2, <4>1, Caps DEF askr_flush, Fed, Hung
      <3> QED
        BY <3>1, <3>2
    <2>3. FailTypes'
      BY <1>1, <2>2, BodyType DEF Replies
    <2>4. reply'[cur] = "stream"
      BY <2>2
    <2>5. Thread'
      BY <1>1, <1>2, <2>2, <2>4 DEF Thread, Owes, Died
    <2>6. ConnInv(cur)'
      <3>1. ConnInv(cur) /\ reply[cur] \in {"open", "stream"}
        BY <2>1 DEF Owes
      <3>2. Died' = Died
        BY DEF Died
      <3>3. ended[cur] = "fatal" => Died
        BY <1>2 DEF Thread
      <3> QED
        BY <1>1, <2>4, <3>1, <3>2, <3>3 DEF ConnInv
    <2> QED
      BY <1>1, <2>2, <2>3, <2>5, <2>6, FailRuns
  <1>3. CASE pc # "handler" /\ ~Died
    <2>1. bridge.pending = None /\ bridge.stream = None
      BY <1>3 DEF Thread
    <2>2. /\ bridge'.pending = None /\ bridge'.stream = None
          /\ reply' = reply /\ body' = body
      BY <2>1 DEF askr_flush, Fed
    <2>3. Thread' /\ ~Died'
      BY <1>1, <1>3, <2>2 DEF Thread, Died
    <2>4. ConnInv(cur)'
      BY <1>1, <1>3, <2>2, <2>3 DEF ConnInv, Told
    <2>5. FailTypes'
      BY <1>1, <2>2
    <2> QED
      BY <1>1, <2>2, <2>3, <2>4, <2>5, FailRuns
  <1> QED
    BY <1>2, <1>3

\* A flush of the handler keeps the invariant.
LEMMA FailFlushes ==
    ASSUME BleedInv, FailInv, HandlerFlushes \/ DeferredFlushes \/ ShutdownFlush
    PROVE  FailInv'
  <1>1. /\ pc \in {"handler", "deferred", "shutdown"} /\ cur \in Conns /\ phpStep
        /\ UNCHANGED <<jobs, pc, cur, ended>>
    BY DEF BleedInv, Types, OwnState, HandlerFlushes, DeferredFlushes, ShutdownFlush
  <1>2. PICK out : askr_flush(out)
    BY DEF HandlerFlushes, DeferredFlushes, ShutdownFlush
  <1> QED
    BY <1>1, <1>2, FailFlush

\* The end of the handler completes the answer, or marks it failed.
LEMMA FailEnds ==
    ASSUME BleedInv, FailInv, NEW how \in {"return", "exit", "throw"}, HandlerEnds(how)
    PROVE  FailInv'
  <1> USE DEF FailInv, FailTypes
  <1>1. /\ pc = "handler" /\ pc' \in {"wait", "deferred"} /\ cur \in Conns /\ cur' = cur
        /\ jobs' = jobs /\ ended' = [ended EXCEPT ![cur] = how] /\ proc = "up"
        /\ UNCHANGED <<proc, mode, late, conn, seen>>
    BY DEF HandlerEnds, phpStep, srvVars, BleedInv, OwnState
  <1>2. /\ sapi'.streaming = sapi.streaming /\ Deliver(sapi')
        /\ sapi'.status = IF how = "throw" THEN "500" ELSE "200"
    BY <1>1, EndsSapi DEF Thread
  <1>3. Owes /\ ended[cur] = "no" /\ seen[cur] # "complete" /\ mode = "worker"
    BY <1>1 DEF Thread
  <1>4. /\ bridge'.pending = None /\ bridge'.stream = None
        /\ \/ reply[cur] = "stream" /\ reply' = reply
           \/ reply[cur] = "open" /\ reply' = [reply EXCEPT ![cur] = sapi'.status]
        /\ body' = body \/ body' = [body EXCEPT ![cur] = Append(@, "data")]
    <2>1. DOMAIN bridge = {"pending", "stream"} /\ bridge.stream \in {None, cur}
      BY <1>1 DEF BleedInv, Types, OwnState
    <2>2. CASE sapi.streaming
      BY <1>2, <1>3, <2>1, <2>2 DEF Deliver, Owes, Fed
    <2>3. CASE ~sapi.streaming
      BY <1>2, <1>3, <2>1, <2>3 DEF Deliver, Owes
    <2> QED
      BY <2>2, <2>3
  <1>5. FailTypes'
    <2>1. reply' \in [Conns -> Replies] /\ ended' \in [Conns -> Endings]
      BY <1>1, <1>2, <1>4 DEF Replies, Endings
    <2> QED
      BY <1>1, <1>4, <2>1, BodyType
  <1>6. ended'[cur] = how
    BY <1>1
  <1>7. Thread' /\ ~Died'
    BY <1>1, <1>3, <1>4, <1>6 DEF Thread, Died
  <1>8. ConnInv(cur)'
    <2>1. ConnInv(cur)
      BY <1>1
    <2>2. CASE reply'[cur] = "stream" /\ reply[cur] = "stream"
      BY <1>1, <1>3, <1>6, <2>1, <2>2 DEF ConnInv
    <2>3. CASE reply'[cur] = sapi'.status /\ reply[cur] = "open"
      BY <1>1, <1>2, <1>3, <1>6, <2>1, <2>3 DEF ConnInv
    <2> QED
      BY <1>1, <1>4, <2>2, <2>3
  <1> QED
    BY <1>1, <1>4, <1>5, <1>7, <1>8, FailRuns

\* The end of a plain request completes the answer, or marks it failed.
LEMMA FailPlainEnds ==
    ASSUME BleedInv, FailInv, NEW how \in {"return", "fatal", "startup"}, PlainEnds(how)
    PROVE  FailInv'
  <1> USE DEF FailInv, FailTypes
  <1>1. /\ pc = "plain" /\ pc' = "wait" /\ cur \in Conns /\ cur' = cur /\ proc = "up"
        /\ jobs' = jobs /\ ended' = [ended EXCEPT ![cur] = how] /\ bridge' = bridge
        /\ UNCHANGED <<proc, mode, late, conn, seen, body>>
    BY DEF PlainEnds, phpStep, srvVars, BleedInv, OwnState
  <1>2. PICK status \in {"fail", "200", "500"} : reply' = [reply EXCEPT ![cur] = status]
    BY DEF PlainEnds
  <1>3. mode = "request" /\ reply[cur] = "open" /\ ended[cur] = "no"
    BY <1>1 DEF Thread
  <1>4. reply'[cur] = status /\ ended'[cur] = how
    BY <1>1, <1>2
  <1>5. FailTypes'
    BY <1>1, <1>2 DEF Replies, Endings
  <1>6. Thread' /\ ~Died'
    BY <1>1, <1>3 DEF Thread, Died
  <1>7. ConnInv(cur)'
    <2>1. ConnInv(cur)
      BY <1>1
    <2> QED
      BY <1>1, <1>3, <1>4, <2>1 DEF ConnInv
  <1> QED
    BY <1>1, <1>2, <1>5, <1>6, <1>7, FailRuns

\* The deferred callbacks add nothing to an answer.
LEMMA FailDeferred ==
    ASSUME BleedInv, FailInv, askr_run_deferred
    PROVE  FailInv'
  <1>1. /\ pc = "deferred" /\ pc' \in {"deferred", "wait"}
        /\ UNCHANGED <<proc, mode, late, conn, seen, jobs, reply, body, bridge, ended, cur>>
    BY DEF askr_run_deferred, phpStep, quiet, srvVars
  <1>2. FailTypes' /\ Queued' /\ ~Died /\ ~Died'
    BY <1>1 DEF FailInv, FailTypes, Queued, Died
  <1>3. Thread'
    BY <1>1, <1>2 DEF FailInv, Thread
  <1>4. ASSUME NEW c \in Conns
        PROVE  ConnInv(c)'
    BY <1>1, <1>2 DEF FailInv, ConnInv, Told
  <1> QED
    BY <1>2, <1>3, <1>4 DEF FailInv

\* A fatal error is visible to the client whose request it was.
LEMMA FailDies ==
    ASSUME BleedInv, FailInv, Fatal
    PROVE  FailInv'
  <1> USE DEF FailInv, FailTypes
  <1>1. /\ pc' = "shutdown" /\ cur \in Conns /\ cur' = cur /\ proc = "up" /\ ~Died
        /\ UNCHANGED <<proc, mode, late, conn, seen, jobs, reply, body, bridge, sapi>>
    BY DEF Fatal, phpStep, quiet, srvVars, BleedInv, OwnState, Died
  <1>2. CASE pc = "handler"
    <2>1. ended' = [ended EXCEPT ![cur] = "fatal"] /\ ended'[cur] = "fatal"
      BY <1>1, <1>2 DEF Fatal
    <2>2. FailTypes'
      BY <1>1, <2>1 DEF Endings
    <2>3. Owes /\ seen[cur] # "complete" /\ mode = "worker" /\ reply[cur] \in {"open", "stream"}
      BY <1>2 DEF Thread
    <2>4. Thread' /\ Died'
      BY <1>1, <2>1, <2>3 DEF Thread, Owes, Died
    <2>5. ConnInv(cur)'
      <3>1. ConnInv(cur)
        BY <1>1
      <3> QED
        BY <1>1, <2>1, <2>3, <2>4, <3>1 DEF ConnInv
    <2> QED
      BY <1>1, <2>1, <2>2, <2>4, <2>5, FailRuns
  <1>3. CASE pc = "deferred"
    <2>1. ended' = ended
      BY <1>3 DEF Fatal
    <2> QED
      <3>1. FailTypes' /\ Queued' /\ ~Died'
        BY <1>1, <1>3, <2>1 DEF Queued, Thread, Died
      <3>2. Thread'
        BY <1>1, <1>3, <2>1, <3>1 DEF Thread
      <3>3. ASSUME NEW c \in Conns
            PROVE  ConnInv(c)'
        <4>1. ConnInv(c)
          OBVIOUS
        <4> QED
          BY <1>1, <2>1, <3>1, <4>1 DEF ConnInv, Told
      <3> QED
        BY <3>1, <3>2, <3>3
  <1> QED
    BY <1>2, <1>3 DEF Fatal

\* spawn_worker() after the loop: whoever was left without an answer is given one.
LEMMA FailLoopEnded ==
    ASSUME BleedInv, FailInv, LoopEnded
    PROVE  FailInv'
  <1> DEFINE dropped == {c \in Conns : Draining /\ \E i \in 1..Len(jobs) : jobs[i] = c}
  <1> USE DEF FailInv, FailTypes
  <1>1. /\ pc = "shutdown" /\ pc' \in {"gone", "sleep"} /\ cur' = cur /\ proc = "up"
        /\ bridge' = [pending |-> None, stream |-> None]
        /\ jobs' = IF Draining THEN <<>> ELSE jobs
        /\ pc' = "gone" <=> Draining
        /\ UNCHANGED <<proc, mode, late, conn, seen, ended>>
    BY DEF LoopEnded, phpStep, srvVars
  <1>2. reply' = [c \in Conns |-> IF c = bridge.pending THEN "fail"
                                  ELSE IF c \in dropped THEN "dropped" ELSE reply[c]]
    <2>1. reply' = [c \in Conns |->
                      CASE c = bridge.pending -> "fail"
                        [] Draining /\ (\E i \in 1..Len(jobs) : jobs[i] = c) -> "dropped"
                        [] OTHER -> reply[c]]
      BY DEF LoopEnded
    <2>2. \A c \in Conns : c \in dropped <=> Draining /\ (\E i \in 1..Len(jobs) : jobs[i] = c)
      OBVIOUS
    <2>3. bridge.pending \notin dropped
      <3>1. bridge.pending \in {None, cur}
        BY <1>1 DEF BleedInv, OwnState
      <3>2. \A i \in 1..Len(jobs) : jobs[i] # cur
        BY DEF Queued
      <3> QED
        BY <3>1, <3>2, Caps
    <2> HIDE DEF dropped, FailInv, FailTypes
    <2>4. ASSUME NEW c \in Conns
          PROVE  (CASE c = bridge.pending -> "fail"
                    [] Draining /\ (\E i \in 1..Len(jobs) : jobs[i] = c) -> "dropped"
                    [] OTHER -> reply[c])
                 = IF c = bridge.pending THEN "fail"
                   ELSE IF c \in dropped THEN "dropped" ELSE reply[c]
      <3> DEFINE d == Draining /\ (\E i \in 1..Len(jobs) : jobs[i] = c)
      <3>1. d <=> c \in dropped
        BY <2>2
      <3>2. ~(c = bridge.pending /\ d)
        BY <2>3, <3>1
      <3> HIDE DEF d
      <3>3. (CASE c = bridge.pending -> "fail" [] d -> "dropped" [] OTHER -> reply[c])
            = IF c = bridge.pending THEN "fail" ELSE IF d THEN "dropped" ELSE reply[c]
        BY <3>2
      <3> QED
        BY <3>1, <3>3 DEF d
    <2> QED
      BY <2>1, <2>4
  <1>3. body' \in [Conns -> Seq({"data", "err"})]
    <2> HIDE DEF FailInv, dropped
    <2>1. bridge.stream = None \/ bridge.stream \in Conns
      BY <1>1 DEF BleedInv, Types, OwnState
    <2>2. \/ body' = body
          \/ bridge.stream # None /\ body' = [body EXCEPT ![bridge.stream] = Append(@, "err")]
      BY DEF LoopEnded
    <2> QED
      BY <2>1, <2>2, BodyType DEF FailInv
  <1>4. \A c \in dropped : /\ conn[c] \in {"awaiting", "done"} /\ ended[c] = "no"
                           /\ reply[c] = "open" /\ c # cur
    BY DEF Queued
  <1>5. \A i \in 1..Len(jobs') : jobs'[i] \notin dropped /\ jobs'[i] \in Conns
    BY <1>1, SMTT(40) DEF BleedInv, Types
  <1> HIDE DEF dropped
  <1>6. bridge.pending \in {None, cur} /\ bridge.stream \in {None, cur}
    BY <1>1 DEF BleedInv, OwnState
  <1>7. FailTypes'
    BY <1>1, <1>2, <1>3 DEF Replies
  <1>8. Queued'
    <2>1. CASE Draining
      BY <1>1, <2>1, SMTT(40) DEF Queued
    <2>2. CASE ~Draining
      <3>1. ASSUME NEW i \in 1..Len(jobs)
            PROVE  reply'[jobs[i]] = reply[jobs[i]]
        <4>1. jobs[i] \in Conns \ dropped
          BY <1>1, <1>5, <2>2
        <4>2. jobs[i] # cur
          BY DEF Queued
        <4> HIDE DEF FailInv, FailTypes
        <4>3. jobs[i] # bridge.pending
          BY <1>6, <4>1, <4>2, Caps
        <4> QED
          BY <1>2, <4>1, <4>3
      <3> QED
        BY <1>1, <2>2, <3>1 DEF Queued
    <2> QED
      BY <2>1, <2>2
  <1>9. Thread' /\ ~Died'
    BY <1>1 DEF Thread, Died
  <1>10. ASSUME NEW c \in Conns
         PROVE  ConnInv(c)'
    <2>1. ConnInv(c)
      OBVIOUS
    <2>2. CASE c \in dropped /\ c # bridge.pending
      BY <1>1, <1>2, <1>4, <2>1, <2>2 DEF ConnInv
    <2>3. CASE c = bridge.pending
      <3>1. Died /\ cur = c /\ Owes
        BY <1>1, <1>6, <2>3, Caps DEF Thread
      <3>2. reply[c] = "open" /\ reply'[c] = "fail" /\ ended[c] = "fatal"
        BY <1>2, <2>3, <3>1, Caps DEF Owes, Died
      <3> QED
        BY <1>1, <2>1, <3>1, <3>2 DEF ConnInv, Told
    <2>4. CASE c \notin dropped /\ c # bridge.pending
      <3>1. reply'[c] = reply[c]
        BY <1>2, <2>4
      <3>2. CASE Died /\ cur = c
        <4>1. Owes /\ reply[c] = "stream" /\ (conn[c] # "done" => bridge.stream = c)
          BY <2>4, <3>2 DEF Thread, Owes
        <4>2. conn[c] # "done" => body' = [body EXCEPT ![c] = Append(@, "err")]
          BY <4>1, Caps DEF LoopEnded, Hung
        <4>3. conn[c] # "done" => body'[c] # <<>> /\ body'[c][Len(body'[c])] = "err"
          BY <4>2, SMTT(40)
        <4> QED
          BY <1>1, <2>1, <3>1, <4>1, <4>3 DEF ConnInv, Told
      <3>3. CASE ~(Died /\ cur = c)
        <4>1. body'[c] = body[c] \/ bridge.stream = c
          BY DEF LoopEnded
        <4>2. bridge.stream # c
          BY <1>1, <1>6, <3>3, Caps DEF Thread
        <4> QED
          BY <1>1, <2>1, <3>1, <3>3, <4>1, <4>2 DEF ConnInv, Told
      <3> QED
        BY <3>2, <3>3
    <2> QED
      BY <2>2, <2>3, <2>4
  <1> QED
    BY <1>7, <1>8, <1>9, <1>10

\* Every step keeps the invariant.
LEMMA FailNext == BleedInv /\ FailInv /\ [Next]_vars => FailInv'
  <1> SUFFICES ASSUME BleedInv, FailInv, [Next]_vars
               PROVE  FailInv'
    OBVIOUS
  <1>1. ASSUME NEW c \in Conns,
               \/ Accept(c) \/ ReadRequest(c) \/ CloseIdle(c) \/ ClientGone(c) \/ ConnStep(c)
        PROVE  FailInv'
    BY <1>1, FailTask, FailFrame, FailSendJob DEF ConnStep
  <1>2. CASE AcceptFails \/ BackoffEnds \/ Sigterm \/ StartDrain \/ DrainDeadline
             \/ UNCHANGED vars
    <2>1. UNCHANGED <<proc, mode, phpVars, ended, conn, jobs, reply, body, seen>>
      BY <1>2 DEF AcceptFails, BackoffEnds, Sigterm, StartDrain, DrainDeadline, serverStep,
                  vars
    <2>2. late' = late \/ late' = TRUE
      BY <1>2 DEF AcceptFails, BackoffEnds, Sigterm, StartDrain, DrainDeadline, vars, srvVars
    <2> QED
      BY <2>1, <2>2, FailAccepts, SMTT(40)
  <1>3. CASE DrainEnds \/ ExitForRespawn
    BY <1>3, FailExit
  <1>4. CASE BootDone \/ BootDies
    BY <1>4, FailBoot
  <1>5. CASE TakeRequest \/ TakePlain
    BY <1>5, FailTake
  <1>6. CASE HandlerWorks
    BY <1>6, FailWorks
  <1>7. CASE HandlerFlushes \/ DeferredFlushes \/ ShutdownFlush
    BY <1>7, FailFlushes
  <1>8. CASE Ends
    BY <1>8, FailEnds, FailPlainEnds DEF Ends
  <1>9. CASE askr_run_deferred \/ Fatal \/ LoopEnded
    BY <1>9, FailDeferred, FailDies, FailLoopEnded
  <1> QED
    BY <1>1, <1>2, <1>3, <1>4, <1>5, <1>6, <1>7, <1>8, <1>9 DEF Next, Serve, Php

\* After a PHP fatal no client is given a 200 or a stream that ends cleanly, after an
\* uncaught exception none is given a 200, and a connection is reset without an answer
\* only by a drain that ran out of time or a respawn before the request reached PHP
\* (spawn_worker(), askr_handle_request(), PhpStreamBody), for any number of
\* connections, any scripts and any capacities.
THEOREM FailuresShow == Spec => []FailuresAreVisible
  <1>1. FailInv => FailuresAreVisible
    BY DEF FailInv, FailTypes, ConnInv, FailuresAreVisible, DeathsAreVisible, ResetsAreExplained
  <1> QED
    BY <1>1, BleedInit, BleedNext, FailInit, FailNext, PTL DEF Spec

=============================================================================
