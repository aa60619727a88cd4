------------------------------- MODULE Events -------------------------------
(***************************************************************************)
(* Live events to clients: the bus of module Broadcast, the hub of         *)
(* server-sent events (server/sse.rs), the hub of Pusher WebSockets        *)
(* (pusher.rs), and the clients of one worker.                             *)
(*                                                                         *)
(* A client's queue is its mpsc channel; its `reg` is the sender the hub   *)
(* holds.  What a frame looks like is left out: a frame is the event it    *)
(* was made from.                                                          *)
(***************************************************************************)
EXTENDS Broadcast

CONSTANTS
    SseClients, WsClients,
    Present,        \* bound: per backend, the clients that take part
    Private,        \* the channels named private-... or presence-...
    Signed,         \* is a Pusher secret configured?
    QueueCap,       \* 128 for SSE, 256 for WebSockets
    MAX_SUBSCRIPTIONS

Clients == SseClients \cup WsClients

VARIABLES
    client,    \* per client: "off", "open" or "gone", its channels and its queue
    reg,       \* the clients whose sender a hub holds
    draining,  \* the worker drains
    got,       \* history: the events each client was sent
    first      \* history: per client and channel, the number it last subscribed from

hubVars == <<client, reg, draining, got, first>>
vars == <<busVars, hubVars>>

Comment == [chan |-> None, payload |-> 0]   \* ": connected", ": ping"
Never == MaxSeq + 1

Init ==
    /\ BusInit
    /\ client = [c \in Clients |-> [st |-> IF c \in Present[backend] THEN "off" ELSE "gone",
                                    subs |-> {}, q |-> <<>>]]
    /\ reg = {}
    /\ draining = FALSE
    /\ got = [c \in Clients |-> <<>>]
    /\ first = [c \in Clients |-> [ch \in Channels |-> Never]]

\* The last number the tailer is done with: delivered, or passed over.
Position == IF tail.pc = "starting" THEN 0
            ELSE IF batch # <<>> THEN Head(batch).payload - 1
            ELSE IF tail.pc = "sleep" THEN tail.last ELSE tail.s - 1

Joins(c, ch) == first' = [first EXCEPT ![c][ch] = Position]

\* try_send to every client of S: one that went away, or whose queue is full, is dropped.
\* Fault: a full queue loses the event and the client stays.
SendOrSkip(S, item) ==
    /\ reg' = reg \ {c \in S : client[c].st = "gone"}
    /\ client' = [c \in Clients |->
                    IF c \in S /\ client[c].st # "gone" /\ Len(client[c].q) < QueueCap
                    THEN [client[c] EXCEPT !.q = Append(@, item)] ELSE client[c]]

try_send(S, item) ==
    LET takes == {c \in S : client[c].st # "gone" /\ Len(client[c].q) < QueueCap}
    IN /\ reg' = reg \ (S \ takes)
       /\ client' = [c \in Clients |-> IF c \in takes
                                       THEN [client[c] EXCEPT !.q = Append(@, item)]
                                       ELSE client[c]]

-----------------------------------------------------------------------------
\* The tailer hands the next event to both hubs: to the subscribers of its channel, and
\* to every WebSocket connection.
deliver ==
    /\ tail.pc = "sleep" /\ batch # <<>>
    /\ LET item == Head(batch)
       IN try_send({c \in reg : \/ c \in WsClients
                                \/ c \in SseClients /\ item.chan \in client[c].subs}, item)
    /\ batch' = Tail(batch)
    /\ UNCHANGED <<backend, write_seq, slots, pub, tail, sent, lapped, unseen, clash,
                   draining, got, first>>

\* Every 300 rounds: ping() on one hub, prune() on the other.
ping ==
    /\ tail.pc = "sleep" /\ batch = <<>> /\ reg # {}
    /\ LET S == reg \cap SseClients
           takes == {c \in S : client[c].st # "gone" /\ Len(client[c].q) < QueueCap}
       IN /\ reg' = takes \cup {c \in reg \cap WsClients : client[c].st # "gone"}
          /\ client' = [c \in Clients |-> IF c \in takes
                                          THEN [client[c] EXCEPT !.q = Append(@, Comment)]
                                          ELSE client[c]]
    /\ UNCHANGED <<busVars, draining, got, first>>

\* sse_response and subscribe: private channels are refused here.
subscribe(c, ch) ==
    /\ c \in SseClients /\ client[c].st = "off"
    /\ IF ch \in Private
       THEN client' = [client EXCEPT ![c].st = "gone"] /\ UNCHANGED <<reg, first>>
       ELSE /\ client' = [client EXCEPT ![c] = [st |-> "open", subs |-> {ch},
                                                q |-> <<Comment>>]]
            /\ reg' = reg \cup {c}
            /\ Joins(c, ch)
    /\ UNCHANGED <<busVars, draining, got>>

\* close_all: the hub forgets every stream when the worker drains.
close_all ==
    /\ ~draining
    /\ draining' = TRUE
    /\ reg' = reg \ SseClients
    /\ UNCHANGED <<busVars, client, got, first>>

\* serve: a WebSocket is registered before the client hears of its connection.
register(c) ==
    /\ c \in WsClients /\ client[c].st = "off"
    /\ client' = [client EXCEPT ![c].st = "open"]
    /\ reg' = reg \cup {c}
    /\ UNCHANGED <<busVars, draining, got, first>>

\* handle_client_message.  The select is biased: a message is read only when no event
\* is queued.
ClientMessage(c) ==
    /\ c \in WsClients /\ client[c].st = "open" /\ client[c].q = <<>> /\ c \in reg
    /\ \/ \E ch \in Channels \ client[c].subs, auth \in {"good", "bad"} :
            /\ Cardinality(client[c].subs) < MAX_SUBSCRIPTIONS
            /\ ch \in Private /\ Signed => auth = "good"
            /\ client' = [client EXCEPT ![c].subs = @ \cup {ch}]
            /\ Joins(c, ch)
       \/ \E ch \in client[c].subs :
            /\ client' = [client EXCEPT ![c].subs = @ \ {ch}]
            /\ UNCHANGED first
    /\ UNCHANGED <<busVars, reg, draining, got>>

\* poll_frame of a stream, rx.recv() of a WebSocket, which writes what is subscribed to.
Recv(c) ==
    /\ client[c].st = "open" /\ client[c].q # <<>>
    /\ LET item == Head(client[c].q)
       IN got' = IF item.chan \in client[c].subs THEN [got EXCEPT ![c] = Append(@, item)]
                 ELSE got
    /\ client' = [client EXCEPT ![c].q = Tail(@)]
    /\ UNCHANGED <<busVars, reg, draining, first>>

\* The stream of a client the hub has dropped ends after what is queued; or the client
\* goes away.
Leaves(c) ==
    /\ client[c].st = "open"
    /\ client' = [client EXCEPT ![c] = [st |-> "gone", subs |-> {}, q |-> <<>>]]
    /\ UNCHANGED <<busVars, reg, draining, got, first>>

HubNext ==
    \/ deliver \/ ping \/ close_all
    \/ \E c \in Clients :
         register(c) \/ ClientMessage(c) \/ Recv(c) \/ Leaves(c)
         \/ \E ch \in Channels : subscribe(c, ch)

Next == (BusNext /\ UNCHANGED hubVars) \/ HubNext

Spec == Init /\ [][Next]_vars

-----------------------------------------------------------------------------
\* A client is sent only events of channels it subscribed to, each as one publisher
\* made it and never mixed from two, and a private channel's only over a WebSocket
\* (the slot's marker is read before and after the copy).  Two publishers inside one
\* slot, a whole ring apart, are the exception: the markers do not tell them apart.
EventsAreWhole ==
    \A c \in Clients : \A k \in DOMAIN got[c] :
        LET e == got[c][k]
        IN /\ clash \/ sent[e.payload] = e.chan
           /\ first[c][e.chan] # Never
           /\ e.chan \in Private => c \in WsClients

\* A client is sent events in the order of their numbers, and none twice: read_from
\* starts after the last number it returned.
EventsComeInOrder ==
    clash \/ \A c \in Clients : \A j, k \in DOMAIN got[c] :
                 j < k => got[c][j].payload < got[c][k].payload

\* A client that is still registered was sent, or has queued, every event of its
\* channels that the tailer is done with: a client that cannot keep up is disconnected,
\* never skipped.  What the tailer itself passed over is the exception: events
\* overwritten since, and events whose publisher had not committed yet.
NoSilentLoss ==
    clash \/ \A c \in reg : client[c].st = "open" =>
        \A ch \in client[c].subs : \A s \in 1..Position :
            sent[s] = ch /\ s > first[c][ch] /\ s > tail.from =>
                \/ s \in lapped \cup unseen
                \/ [chan |-> ch, payload |-> s] \in
                     {got[c][k] : k \in DOMAIN got[c]}
                     \cup {client[c].q[k] : k \in DOMAIN client[c].q}

\* A client gets the events of its channels: whole, in order, once, and all of them as
\* long as it keeps up.
EventsAreDelivered == EventsAreWhole /\ EventsComeInOrder /\ NoSilentLoss

=============================================================================
