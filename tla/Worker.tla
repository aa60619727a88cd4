------------------------------- MODULE Worker -------------------------------
(***************************************************************************)
(* One worker process.  tokio owns the sockets (server/mod.rs: the accept  *)
(* loop, one task per connection, the drain); one thread owns PHP (php.rs, *)
(* csrc/shim.c).  They meet in the job channel, in each job's one-shot     *)
(* reply channel and, when PHP flushes, in a bounded body channel.         *)
(*                                                                         *)
(* What a response is made of is abstracted to the set of requests whose   *)
(* code produced it.  A connection carries one request, an upload.         *)
(***************************************************************************)
EXTENDS Naturals, Sequences, FiniteSets

CONSTANTS
    Conns,          \* connections, each with one request
    None,           \* no request
    Scripts,        \* what handlers do, in order: see Does
    Modes,          \* modes to start in: "worker", "request" (per-request)
    Tls,            \* are connections TLS-terminated?
    JobCap,         \* the job channel (1024 in php.rs)
    BodyCap,        \* a stream's body channel (16 in php.rs)
    DeferCap,       \* ASKR_MAX_DEFER (256 in shim.c)
    MaxConnections, \* connections served at once (8192 in server/mod.rs)
    RecycleAfter    \* responses before the worker recycles, 0 = never

ASSUME Caps == /\ {JobCap, BodyCap, DeferCap, MaxConnections} \subseteq Nat \ {0}
               /\ RecycleAfter \in Nat
               /\ Modes \subseteq {"worker", "request"}
               /\ None \notin Conns
               /\ Scripts \subseteq Seq({"echo", "buffer", "header", "read", "defer", "flush"})

VARIABLES
    proc,     \* "up", or how the process ended: "stopped", "respawn" (exit 75)
    mode,     \* worker mode or per-request mode
    srv,      \* the accept loop: "accepting", "backoff" or "draining"
    termed,   \* a SIGTERM byte is in the worker's own pipe
    permit,   \* the recycle Notify holds its permit
    late,     \* the drain's ten seconds are over
    served,   \* responses counted towards recycling
    conn,     \* each connection's task
    jobs,     \* the job channel
    reply,    \* each request's one-shot reply channel
    body,     \* each stream's body channel
    pc, cur,  \* the PHP thread, and the request it runs
    code,     \* what the handler has still to do
    bridge,   \* the WorkerBridge: pending and stream, a request or None
    sapi,     \* the shim's and the engine's per-request state
    seen,     \* history: what each client was given
    ended,    \* history: how each request's PHP code ended
    mixed,    \* history: the requests whose output or headers reached this client
    got       \* history: whose body each request got when it first read php://input

srvVars == <<srv, termed, permit, late, served>>
phpVars == <<pc, cur, code, bridge, sapi>>
vars == <<proc, mode, srvVars, conn, jobs, reply, body, phpVars,
          seen, ended, mixed, got>>

Draining == srv = "draining"

\* The connections whose task has not returned: what `active` counts.
Active == {c \in Conns : conn[c] \notin {"off", "done"}}

Fresh == [out |-> {}, ob |-> {}, hdr |-> {}, status |-> "200", streaming |-> FALSE,
          uploads |-> {}, deferred |-> <<>>, ran |-> 0,
          slot |-> None, unread |-> 0, ns |-> None]

Init ==
    /\ proc = "up" /\ mode \in Modes /\ srv = "accepting"
    /\ termed = FALSE /\ permit = FALSE /\ late = FALSE /\ served = 0
    /\ conn = [c \in Conns |-> "off"]
    /\ jobs = <<>>
    /\ reply = [c \in Conns |-> "open"]
    /\ body = [c \in Conns |-> <<>>]
    /\ pc = (IF mode = "worker" THEN "boot" ELSE "wait") /\ cur = None /\ code = <<>>
    /\ bridge = [pending |-> None, stream |-> None]
    /\ sapi = Fresh
    /\ seen = [c \in Conns |-> "nothing"]
    /\ ended = [c \in Conns |-> "no"]
    /\ mixed = [c \in Conns |-> {}]
    /\ got = [c \in Conns |-> {}]

-----------------------------------------------------------------------------
(***************************************************************************)
(* The accept loop and the connections' tasks.                             *)
(***************************************************************************)

serverStep == proc = "up" /\ UNCHANGED <<proc, mode, phpVars, ended, mixed, got>>

Goes(c, to) == conn' = [conn EXCEPT ![c] = to]
Sees(c, what) == seen' = [seen EXCEPT ![c] = what]

\* run(): a connection past the cap is dropped, any other counted and served.
Accept(c) ==
    /\ serverStep /\ srv = "accepting" /\ conn[c] = "off"
    /\ IF Cardinality(Active) >= MaxConnections
       THEN Goes(c, "done") /\ Sees(c, "closed")
       ELSE Goes(c, IF Tls THEN "handshake" ELSE "idle") /\ UNCHANGED seen
    /\ UNCHANGED <<srvVars, jobs, reply, body>>

\* A failed accept() never ends the worker; out of descriptors, it sleeps in the
\* arm of the select, so neither a recycle nor a SIGTERM is looked at meanwhile.
AcceptFails ==
    /\ serverStep /\ srv = "accepting"
    /\ srv' = "backoff"
    /\ UNCHANGED <<termed, permit, late, served, conn, jobs, reply, body, seen>>

BackoffEnds ==
    /\ serverStep /\ srv = "backoff"
    /\ srv' = "accepting"
    /\ UNCHANGED <<termed, permit, late, served, conn, jobs, reply, body, seen>>

\* serve_conn(): the handshake succeeds, fails, times out, or the worker drains.
Handshake(c) ==
    /\ serverStep /\ conn[c] = "handshake"
    /\ \/ ~Draining /\ Goes(c, "idle") /\ UNCHANGED seen
       \/ Goes(c, "done") /\ Sees(c, "closed")
    /\ UNCHANGED <<srvVars, jobs, reply, body>>

\* serve_io(): the request's head (and body) arrived; handle() reaches php.handle().
ReadRequest(c) ==
    /\ serverStep /\ conn[c] = "idle" /\ ~Draining
    /\ Goes(c, "sending")
    /\ UNCHANGED <<srvVars, jobs, reply, body, seen>>

\* An idle connection ends: the client closes it, its head does not come in time, or
\* the worker drains and graceful_shutdown() closes it.
CloseIdle(c) ==
    /\ serverStep /\ conn[c] \in {"idle", "kept"}
    /\ Goes(c, "done")
    /\ IF conn[c] = "idle" THEN Sees(c, "closed") ELSE UNCHANGED seen
    /\ UNCHANGED <<srvVars, jobs, reply, body>>

\* Php::handle(): queue the job, waiting while the channel is full.
SendJob(c) ==
    /\ serverStep /\ conn[c] = "sending" /\ pc # "gone" /\ Len(jobs) < JobCap
    /\ jobs' = Append(jobs, c)
    /\ Goes(c, "awaiting")
    /\ UNCHANGED <<srvVars, reply, body, seen>>

\* finish(): count the response; the one that reaches the limit stores a permit.
finish ==
    /\ served' = IF RecycleAfter = 0 THEN served ELSE served + 1
    /\ permit' = (permit \/ (RecycleAfter > 0 /\ served' = RecycleAfter))

\* Php::handle(): "php worker unavailable", the receiver is gone.
Unavailable(c) ==
    /\ serverStep /\ conn[c] = "sending" /\ pc = "gone"
    /\ Goes(c, "kept") /\ Sees(c, "502") /\ finish
    /\ UNCHANGED <<srv, termed, late, jobs, reply, body>>

\* The reply arrives: a buffered response, a stream, an error (502), or a sender
\* dropped unused (502, "php worker dropped reply").
Answered(c) ==
    /\ serverStep /\ conn[c] = "awaiting" /\ reply[c] # "open"
    /\ finish
    /\ IF reply[c] = "stream"
       THEN Goes(c, "reading") /\ UNCHANGED seen
       ELSE /\ Goes(c, "kept")
            /\ Sees(c, IF reply[c] \in {"fail", "dropped"} THEN "502" ELSE reply[c])
    /\ UNCHANGED <<srv, termed, late, jobs, reply, body>>

\* PhpStreamBody: a chunk is sent on, an Err fails the transfer, and a closed and
\* empty channel ends the response as complete.
poll_frame(c) ==
    /\ serverStep /\ conn[c] = "reading"
    /\ \/ /\ body[c] # <<>>
          /\ body' = [body EXCEPT ![c] = Tail(@)]
          /\ IF Head(body[c]) = "data"
             THEN UNCHANGED <<conn, seen>>
             ELSE Goes(c, "done") /\ Sees(c, "cut")
       \/ /\ body[c] = <<>> /\ bridge.stream # c
          /\ Goes(c, "kept") /\ Sees(c, "complete") /\ UNCHANGED body
    /\ UNCHANGED <<srvVars, jobs, reply>>

\* The client hangs up: hyper drops the handler's future, or the body and its channel.
ClientGone(c) ==
    /\ serverStep /\ conn[c] \in {"sending", "awaiting", "reading"}
    /\ Goes(c, "done") /\ Sees(c, "closed")
    /\ body' = [body EXCEPT ![c] = <<>>]
    /\ UNCHANGED <<srvVars, jobs, reply>>

Sigterm ==
    /\ serverStep /\ ~termed /\ termed' = TRUE
    /\ UNCHANGED <<srv, permit, late, served, conn, jobs, reply, body, seen>>

\* The select's other two arms.
StartDrain ==
    /\ serverStep /\ srv = "accepting" /\ (permit \/ termed)
    /\ srv' = "draining"
    /\ UNCHANGED <<termed, permit, late, served, conn, jobs, reply, body, seen>>

DrainDeadline ==
    /\ serverStep /\ Draining /\ ~late /\ late' = TRUE
    /\ UNCHANGED <<srv, termed, permit, served, conn, jobs, reply, body, seen>>

\* The process ends under its connections: a request without an answer is reset, a
\* stream cut; its memory is gone.
Exit(how) ==
    /\ proc' = how
    /\ seen' = [c \in Conns |->
                 CASE conn[c] \in {"sending", "awaiting"} -> "reset"
                   [] conn[c] = "reading" -> "cut"
                   [] OTHER -> seen[c]]
    /\ conn' = [c \in Conns |-> "done"]
    /\ jobs' = <<>> /\ body' = [c \in Conns |-> <<>>]
    /\ pc' = "gone" /\ cur' = None /\ code' = <<>>
    /\ bridge' = [pending |-> None, stream |-> None] /\ sapi' = Fresh
    /\ UNCHANGED <<mode, srvVars, reply, ended, mixed, got>>

DrainEnds ==
    /\ proc = "up" /\ Draining /\ (Active = {} \/ late)
    /\ Exit("stopped")

-----------------------------------------------------------------------------
(***************************************************************************)
(* The PHP thread, worker mode.                                            *)
(***************************************************************************)

phpStep == proc = "up" /\ UNCHANGED <<proc, mode, srvVars, conn, seen>>
quiet == UNCHANGED <<jobs, reply, body, bridge, mixed>>

\* worker_reset_response(): closing the output layer writes what is left in it to the
\* capture buffer, which is emptied after that.  Uploads, deferred closures and the
\* request's slots are not its business.
\* Fault: the buffers are emptied before the output layer is closed.
ResetBeforeFlush(s) ==
    [s EXCEPT !.out = s.ob, !.ob = {}, !.hdr = {}, !.status = "200", !.streaming = FALSE]

worker_reset_response(s) ==
    [s EXCEPT !.out = {}, !.ob = {}, !.hdr = {}, !.status = "200", !.streaming = FALSE]

\* askr_req_reset() and the setters: the slots hold this request, its body unread.
askr_req_set(s, c) == [s EXCEPT !.slot = c, !.unread = 1]

\* wait(): the namespace first, then the request.
load_request(s, c) == askr_req_set([s EXCEPT !.ns = c], c)

\* askr_uploads_begin() and askr_uploads_end(): the table move_uploaded_file() reads.
askr_uploads_begin(s) == [s EXCEPT !.uploads = @ \cup {s.slot}]
askr_uploads_end(s) == [s EXCEPT !.uploads = {}]

\* The engine is up and the worker script boots the app, to its first wait or not.
BootDone == phpStep /\ pc = "boot" /\ pc' = "wait" /\ quiet
            /\ UNCHANGED <<cur, code, sapi, ended, got>>

BootDies == phpStep /\ pc = "boot" /\ pc' = "shutdown" /\ quiet
            /\ UNCHANGED <<cur, code, sapi, ended, got>>

\* askr_handle_request() up to the call of the handler.
TakeRequest ==
    /\ phpStep /\ pc = "wait" /\ mode = "worker" /\ jobs # <<>>
    /\ LET c == Head(jobs) IN
       /\ cur' = c /\ jobs' = Tail(jobs) /\ pc' = "handler" /\ code' \in Scripts
       /\ bridge' = [pending |-> c, stream |-> None]
       /\ sapi' = askr_uploads_begin(worker_reset_response(load_request(sapi, c)))
    /\ UNCHANGED <<reply, body, ended, mixed, got>>

\* The app's code: it writes, directly or into an output buffer it opened; sets a
\* header; reads php://input; defers a closure, up to the cap; or flushes (below).
askr_ub_write(s) == [s EXCEPT !.out = @ \cup {cur}]
askr_send_header(s) == [s EXCEPT !.hdr = @ \cup {cur}]
askr_read_post(s) == [s EXCEPT !.unread = 0]
askr_defer(s) == IF Len(s.deferred) < DeferCap
                 THEN [s EXCEPT !.deferred = Append(@, cur)] ELSE s

Does(op, s) ==
    CASE op = "echo" -> askr_ub_write(s)
      [] op = "buffer" -> [s EXCEPT !.ob = @ \cup {cur}]
      [] op = "header" -> askr_send_header(s)
      [] op = "read" -> askr_read_post(s)
      [] op = "defer" -> askr_defer(s)

HandlerWorks ==
    /\ phpStep /\ pc = "handler" /\ code # <<>> /\ Head(code) # "flush" /\ quiet
    /\ sapi' = Does(Head(code), sapi)
    /\ got' = IF Head(code) # "read" \/ got[cur] # {} THEN got
              ELSE [got EXCEPT ![cur] = {IF sapi.unread > 0 THEN sapi.slot ELSE None}]
    /\ code' = Tail(code)
    /\ UNCHANGED <<pc, cur, ended>>

\* What stream_chunk() does with a non-empty capture buffer: hand it to the client's
\* channel, waiting while that is full, and stop streaming if the client hung up.
Hung(t) == conn[t] = "done"
Room(t, out) == (t # None /\ out # {}) => (Hung(t) \/ Len(body[t]) < BodyCap)
Fed(t, out) == IF t = None \/ out = {} \/ Hung(t) THEN body
               ELSE [body EXCEPT ![t] = Append(@, "data")]
Reaches(t, what) == IF t = None \/ Hung(t) THEN mixed
                    ELSE [mixed EXCEPT ![t] = @ \cup what]

\* askr_flush(): the first flush of a request hands Rust its status and headers
\* (stream_begin() takes the pending reply); every flush drains the buffer.
askr_flush(out) ==
    LET first == ~sapi.streaming /\ bridge.pending # None
        t == IF first THEN bridge.pending ELSE bridge.stream
    IN  /\ Room(t, out)
        /\ bridge' = [pending |-> IF first THEN None ELSE bridge.pending,
                      stream |-> IF t # None /\ out # {} /\ Hung(t) THEN None ELSE t]
        /\ reply' = IF first THEN [reply EXCEPT ![t] = "stream"] ELSE reply
        /\ body' = Fed(t, out)
        /\ mixed' = Reaches(t, out \cup (IF first THEN sapi.hdr ELSE {}))
        /\ sapi' = [sapi EXCEPT !.streaming = TRUE, !.out = {}]

HandlerFlushes ==
    /\ phpStep /\ pc = "handler" /\ code # <<>> /\ Head(code) = "flush"
    /\ askr_flush(sapi.out)
    /\ code' = Tail(code)
    /\ UNCHANGED <<jobs, pc, cur, ended, got>>

\* The handler is over: it returned, called exit()/die(), or an exception escaped it
\* (status 500, the output dropped).  Then the trailing chunk and the end of the
\* stream, or the whole response; then the deferred closures.
Failed(how) ==
    IF how = "throw" THEN [sapi EXCEPT !.status = "500", !.out = {}] ELSE sapi

\* Fault: the stream is not closed.
StreamLeftOpen(s) ==
    LET t == IF s.streaming THEN bridge.stream ELSE bridge.pending IN
    IF s.streaming
    THEN /\ Room(t, s.out)
         /\ body' = Fed(t, s.out) /\ mixed' = Reaches(t, s.out)
         /\ UNCHANGED <<bridge, reply>>
    ELSE /\ reply' = [reply EXCEPT ![t] = s.status]
         /\ mixed' = Reaches(t, s.out \cup s.hdr)
         /\ bridge' = [bridge EXCEPT !.pending = None]
         /\ UNCHANGED body

Deliver(s) ==
    LET t == IF s.streaming THEN bridge.stream ELSE bridge.pending IN
    IF s.streaming
    THEN /\ Room(t, s.out)
         /\ body' = Fed(t, s.out) /\ mixed' = Reaches(t, s.out)
         /\ bridge' = [bridge EXCEPT !.stream = None]
         /\ UNCHANGED reply
    ELSE /\ reply' = [reply EXCEPT ![t] = s.status]
         /\ mixed' = Reaches(t, s.out \cup s.hdr)
         /\ bridge' = [bridge EXCEPT !.pending = None]
         /\ UNCHANGED body

HandlerEnds(how) ==
    /\ phpStep /\ pc = "handler"
    /\ LET s == askr_uploads_end(Failed(how)) IN
       /\ Deliver(s)
       /\ sapi' = s
    /\ ended' = [ended EXCEPT ![cur] = how]
    /\ pc' = IF sapi.deferred = <<>> THEN "wait" ELSE "deferred"
    /\ code' = <<>>
    /\ UNCHANGED <<jobs, cur, got>>

\* askr_run_deferred(): one closure after the other (each prints something, and may
\* flush), exceptions cleared; the queue is empty at the end.
askr_run_deferred ==
    /\ phpStep /\ pc = "deferred" /\ quiet
    /\ IF sapi.ran < Len(sapi.deferred)
       THEN sapi' = [sapi EXCEPT !.ran = @ + 1, !.out = @ \cup {cur}] /\ UNCHANGED pc
       ELSE sapi' = [sapi EXCEPT !.ran = 0, !.deferred = <<>>] /\ pc' = "wait"
    /\ UNCHANGED <<cur, code, ended, got>>

DeferredFlushes ==
    /\ phpStep /\ pc = "deferred" /\ cur \in sapi.out
    /\ askr_flush(sapi.out)
    /\ UNCHANGED <<jobs, pc, cur, code, ended, got>>

\* A PHP fatal: zend_bailout leaves the handler, the deferred queue and the script.
Fatal ==
    /\ phpStep /\ pc \in {"handler", "deferred"} /\ quiet
    /\ pc' = "shutdown" /\ code' = <<>>
    /\ ended' = IF pc = "handler" THEN [ended EXCEPT ![cur] = "fatal"] ELSE ended
    /\ UNCHANGED <<cur, sapi, got>>

\* php_request_shutdown(): the app's shutdown functions may print an error page, and
\* flush it.
ShutdownFlush ==
    /\ phpStep /\ pc = "shutdown" /\ cur # None /\ ~sapi.streaming
    /\ askr_flush(sapi.out \cup sapi.ob \cup {cur})
    /\ UNCHANGED <<jobs, pc, cur, code, ended, got>>

\* spawn_worker() after the loop: an unanswered request is failed, an open stream
\* aborted.  Draining, the thread ends and drops the job channel with it; otherwise
\* the process exits for a respawn, 150 ms later.
\* Fault: the reply and the stream are dropped, not failed and aborted.
LoopEndsCleanly ==
    /\ phpStep /\ pc = "shutdown"
    /\ reply' = [c \in Conns |-> IF c = bridge.pending THEN sapi.status
                                 ELSE reply[c]]
    /\ bridge' = [pending |-> None, stream |-> None]
    /\ jobs' = IF Draining THEN <<>> ELSE jobs
    /\ pc' = IF Draining THEN "gone" ELSE "sleep"
    /\ UNCHANGED <<cur, code, sapi, body, ended, mixed, got>>

LoopEnded ==
    /\ phpStep /\ pc = "shutdown"
    /\ LET t == bridge.stream IN
       /\ t # None => (Hung(t) \/ Len(body[t]) < BodyCap)
       /\ body' = IF t = None \/ Hung(t) THEN body
                  ELSE [body EXCEPT ![t] = Append(@, "err")]
    /\ reply' = [c \in Conns |->
                   CASE c = bridge.pending -> "fail"
                     [] Draining /\ (\E i \in 1..Len(jobs) : jobs[i] = c) -> "dropped"
                     [] OTHER -> reply[c]]
    /\ bridge' = [pending |-> None, stream |-> None]
    /\ jobs' = IF Draining THEN <<>> ELSE jobs
    /\ pc' = IF Draining THEN "gone" ELSE "sleep"
    /\ UNCHANGED <<cur, code, sapi, ended, mixed, got>>

\* exit(75).  The window is taken to be enough for a reply already delivered to be
\* written to its socket.
ExitForRespawn ==
    /\ proc = "up" /\ pc = "sleep"
    /\ \A c \in Conns : conn[c] = "awaiting" => reply[c] = "open"
    /\ Exit("respawn")

-----------------------------------------------------------------------------
(***************************************************************************)
(* The PHP thread, per-request mode: Php::spawn() and askr_php_handle().   *)
(* The stream callbacks are not registered, so nothing streams, and        *)
(* php_request_shutdown() writes what is buffered before the copy is taken.*)
(***************************************************************************)

TakePlain ==
    /\ phpStep /\ pc = "wait" /\ mode = "request" /\ jobs # <<>>
    /\ cur' = Head(jobs) /\ jobs' = Tail(jobs) /\ pc' = "plain"
    /\ sapi' = [load_request(Fresh, Head(jobs)) EXCEPT !.out = {cur'}, !.hdr = {cur'}]
    /\ UNCHANGED <<code, reply, body, bridge, ended, mixed, got>>

\* The status of a script that died is PHP's choice: 500 unless output was sent.
\* "startup": php_request_startup() failed, and the request is a 502.
PlainEnds(how) ==
    /\ phpStep /\ pc = "plain"
    /\ ended' = [ended EXCEPT ![cur] = how]
    /\ \E status \in CASE how = "startup" -> {"fail"}
                       [] how = "fatal" -> {"200", "500"}
                       [] OTHER -> {"200"} :
          reply' = [reply EXCEPT ![cur] = status]
    /\ mixed' = Reaches(cur, sapi.out \cup sapi.hdr)
    /\ pc' = "wait"
    /\ UNCHANGED <<jobs, body, cur, code, bridge, sapi, got>>

-----------------------------------------------------------------------------
ConnStep(c) ==
    \/ Handshake(c) \/ SendJob(c) \/ Unavailable(c) \/ Answered(c) \/ poll_frame(c)

Serve ==
    \/ \E c \in Conns : \/ Accept(c) \/ ReadRequest(c) \/ CloseIdle(c)
                        \/ ClientGone(c) \/ ConnStep(c)
    \/ AcceptFails \/ BackoffEnds
    \/ Sigterm \/ StartDrain \/ DrainDeadline \/ DrainEnds

Ends == \/ \E how \in {"return", "exit", "throw"} : HandlerEnds(how)
        \/ \E how \in {"return", "fatal", "startup"} : PlainEnds(how)

Php ==
    \/ BootDone \/ BootDies \/ TakeRequest \/ TakePlain
    \/ HandlerWorks \/ HandlerFlushes
    \/ Ends \/ askr_run_deferred \/ DeferredFlushes \/ Fatal \/ ShutdownFlush \/ LoopEnded
    \/ ExitForRespawn

Next == Serve \/ Php

\* A connection's task, the accept loop's timers and the PHP thread, when they can go on.
TaskRuns(c) == ConnStep(c) \/ (Draining /\ CloseIdle(c))
TimerFires == BackoffEnds \/ DrainDeadline \/ DrainEnds
PhpRuns == \/ BootDone \/ TakeRequest \/ TakePlain \/ HandlerWorks \/ HandlerFlushes
           \/ Ends \/ askr_run_deferred \/ LoopEnded \/ ExitForRespawn

\* The tokio runtime runs every ready task, clients read what they are sent, time
\* passes, and every PHP function returns.  select! polls its arms in a random order, so
\* an accept that keeps failing does not starve the drain (SF).
Fairness ==
    /\ \A c \in Conns : WF_vars(TaskRuns(c))
    /\ WF_vars(TimerFires) /\ SF_vars(StartDrain) /\ WF_vars(PhpRuns)

Spec == Init /\ [][Next]_vars /\ Fairness

-----------------------------------------------------------------------------
(***************************************************************************)
(* Properties                                                              *)
(***************************************************************************)

\* One PHP request that never ends serves them all, so everything per-request is reset
\* by hand: no client is ever sent a byte or a header another request produced, in
\* whatever way that one ended; the handler's namespace, upload table and deferred
\* closures are its own; and php://input is its own body, from the first byte.
RequestsDoNotBleed ==
    /\ \A c \in Conns : mixed[c] \subseteq {c} /\ got[c] \subseteq {c}
    /\ pc = "handler" => sapi.uploads = {cur}
    /\ pc \in {"handler", "deferred"} =>
         /\ sapi.ns = cur
         /\ \A i \in 1..Len(sapi.deferred) : sapi.deferred[i] = cur
    /\ pc \in {"deferred", "wait"} => sapi.uploads = {}

\* A request whose PHP code died is never answered as if it had not: after a fatal the
\* client has a 502 or a transfer that failed (never a 200, never a stream that ends
\* cleanly), and after an uncaught exception a 500 unless the stream had begun.
DeathsAreVisible ==
    mode = "worker" =>
      \A c \in Conns :
        /\ ended[c] = "fatal" => seen[c] \notin {"200", "complete"}
        /\ ended[c] = "throw" => seen[c] # "200"

\* A connection reset without an answer is the last resort: a client sees one only
\* when the drain's deadline passed, or when the interpreter died outside a drain and
\* its request had not reached PHP.
ResetsAreExplained ==
    \A c \in Conns : seen[c] = "reset" =>
        late \/ (proc = "respawn" /\ ended[c] = "no" /\ reply[c] = "open")

\* A client can tell a request that failed, and one that did not is not cut off.
FailuresAreVisible == DeathsAreVisible /\ ResetsAreExplained

\* Every request that is handed over gets an end its client can see, and a worker asked
\* to stop, by SIGTERM or because it has served its share, does stop, whatever its
\* connections, its clients and its accept loop are doing.  A request comes once and a
\* stop is asked for once, so that to settle is not to wait from some time on.
EveryRequestSettles ==
    <>[](/\ \A c \in Conns : conn[c] \in {"sending", "awaiting", "reading"} => seen[c] # "nothing"
         /\ (termed \/ (RecycleAfter > 0 /\ served >= RecycleAfter)) => proc # "up")

=============================================================================
