-------------------------------- MODULE SSEHub --------------------------------
(***************************************************************************)
(* internal/queue/ssehub.go: the in-memory fan-out between producers       *)
(* (workers, request handlers, broadcasters) and the SSE handlers of the   *)
(* connected tabs.  The hub's RWMutex guards the maps; a channel is sent   *)
(* to after the lock that found it was released (Send, SendBlocking) or    *)
(* under the read lock (the broadcasts), so a call is several steps.       *)
(*                                                                         *)
(* A stream is one SSE request: features/todo/handlers/todo_sse.go and     *)
(* features/whiteboard/handler.go make a channel, Register it, loop        *)
(* reading it, and UnregisterIfCurrent when they return.                   *)
(***************************************************************************)
EXTENDS Naturals, Sequences, FiniteSets

CONSTANTS
    Clients,    \* client IDs
    Streams,    \* SSE requests, each with a channel of its own
    Users,      \* non-empty user IDs
    NoUser,     \* the empty user ID, with which the whiteboard registers
    Producers,  \* goroutines that call the hub's send methods
    None,       \* absent stream or client
    QueueCap,   \* capacity of a stream's channel (DefaultClientQueueSize)
    MaxBuffer,  \* length of a replay ring (DefaultReplayBufferSize; 0 disables)
    MaxEvents   \* bound: events issued in a behaviour

ASSUME HubAssumption ==
    /\ None \notin Streams
    /\ None \notin Clients
    /\ None \notin Users \union {NoUser}
    /\ NoUser \notin Users
    /\ QueueCap \in Nat \ {0}
    /\ MaxBuffer \in Nat
    /\ MaxEvents \in Nat

VARIABLES
    clients,    \* SSEHub.clients: the stream whose channel is registered
    userOf,     \* SSEHub.userOf, None where there is no entry
    buffer,     \* SSEHub.buffer: the replay ring of each client ID
    chan,       \* what each stream's channel holds
    phase,      \* where each stream's handler is
    client,     \* the client ID a stream registered with
    user,       \* the user ID a stream registered with
    delivered,  \* what each stream's handler has written to its browser
    call,       \* what each producer is executing
    issued      \* how many events were issued; numbers the events

hubVars == <<clients, userOf, buffer>>
streamVars == <<phase, client, user>>
vars == <<clients, userOf, buffer, chan, phase, client, user, delivered, call, issued>>

Phases == {"new", "open", "closing", "closed"}
UserIDs == Users \union {NoUser}
Targets == Clients \union {None}

\* An event: its number, the producer that issued it, the one client it is
\* sent to (None for a broadcast), the user a broadcast is limited to (None
\* for no limit) and the client it leaves out (None for nobody).
Events == [id : 1..MaxEvents, by : Producers, to : Targets,
           owner : UserIDs \union {None}, except : Targets]

\* Idle and the four places a call can be suspended at: about to offer the
\* event to the channel it looked up, blocked on that channel, about to take
\* the write lock in bufferEvent, or iterating over h.clients.
Idle == [pc |-> "idle"]
Calls ==
    {Idle}
        \union [pc : {"offer", "wait"}, ev : Events, ch : Streams]
        \union [pc : {"buffer"}, ev : Events]
        \union [pc : {"iterate"}, ev : Events, left : SUBSET Clients]

TypeOK ==
    /\ clients \in [Clients -> Streams \union {None}]
    /\ userOf \in [Clients -> UserIDs \union {None}]
    /\ buffer \in [Clients -> Seq(Events)]
    /\ \A c \in Clients : Len(buffer[c]) <= MaxBuffer
    /\ chan \in [Streams -> Seq(Events)]
    /\ \A s \in Streams : Len(chan[s]) <= QueueCap
    /\ phase \in [Streams -> Phases]
    /\ client \in [Streams -> Targets]
    /\ user \in [Streams -> UserIDs \union {None}]
    /\ delivered \in [Streams -> Seq(Events)]
    /\ call \in [Producers -> Calls]
    /\ issued \in 0..MaxEvents

Init ==
    /\ clients = [c \in Clients |-> None]
    /\ userOf = [c \in Clients |-> None]
    /\ buffer = [c \in Clients |-> <<>>]
    /\ chan = [s \in Streams |-> <<>>]
    /\ phase = [s \in Streams |-> "new"]
    /\ client = [s \in Streams |-> None]
    /\ user = [s \in Streams |-> None]
    /\ delivered = [s \in Streams |-> <<>>]
    /\ call = [p \in Producers |-> Idle]
    /\ issued = 0

-------------------------------------------------------------------------------
(* The lock and the two bounded queues. *)

\* The write lock can be taken when no broadcast holds the read lock.  (A
\* lookup's read lock is released within the step that takes it.)
WriteLockFree == \A p \in Producers : call[p].pc # "iterate"

HasRoom(s) == Len(chan[s]) < QueueCap

\* VARIANT: compares with > instead of >=, so that the ring outgrows its length.
RingPush_OffByOne(ring, ev) ==
    Append(IF Len(ring) > MaxBuffer THEN Tail(ring) ELSE ring, ev)

\* VARIANT: prepends, so that the ring is replayed newest first.
RingPush_Prepend(ring, ev) ==
    <<ev>> \o (IF Len(ring) >= MaxBuffer THEN Tail(ring) ELSE ring)

\* bufferEvent's ring: the oldest event makes room for the new one.
RingPush(ring, ev) ==
    Append(IF Len(ring) >= MaxBuffer THEN Tail(ring) ELSE ring, ev)

\* What the channel of a newly registered stream holds after the replay: the
\* oldest events of the ring, as many as fit; the others are dropped.
Replay(ring) ==
    SubSeq(ring, 1, IF Len(ring) <= QueueCap THEN Len(ring) ELSE QueueCap)

-------------------------------------------------------------------------------
(* The stream handlers. *)

\* Stream s of client c and user u becomes open, with the ring replayed into
\* its channel, leaving these entries in the hub's maps.
Attach(s, c, u, holder, owner, ring) ==
    /\ phase[s] = "new"
    /\ WriteLockFree
    /\ clients' = [clients EXCEPT ![c] = holder]
    /\ userOf' = [userOf EXCEPT ![c] = owner]
    /\ buffer' = [buffer EXCEPT ![c] = ring]
    /\ chan' = [chan EXCEPT ![s] = Replay(buffer[c])]
    /\ phase' = [phase EXCEPT ![s] = "open"]
    /\ client' = [client EXCEPT ![s] = c]
    /\ user' = [user EXCEPT ![s] = u]
    /\ UNCHANGED <<delivered, call, issued>>

\* VARIANT: the replayed events stay in the ring.
Register_KeepsRing(s, c, u) == Attach(s, c, u, s, u, buffer[c])

\* VARIANT: a reconnecting client keeps the user of its first connection.
Register_KeepsUser(s, c, u) ==
    Attach(s, c, u, s, IF userOf[c] = None THEN u ELSE userOf[c], <<>>)

\* VARIANT: the first registration of a client wins.
Register_FirstWins(s, c, u) ==
    Attach(s, c, u, IF clients[c] = None THEN s ELSE clients[c], u, <<>>)

\* Register: the stream's channel replaces the client's registration and the
\* replay ring is drained into it and deleted, all under the write lock.
Register(s, c, u) == Attach(s, c, u, s, u, <<>>)

\* The handler's loop takes the next event from its channel and writes it.
Receive(s) ==
    /\ phase[s] = "open"
    /\ chan[s] # <<>>
    /\ delivered' = [delivered EXCEPT ![s] = Append(@, Head(chan[s]))]
    /\ chan' = [chan EXCEPT ![s] = Tail(@)]
    /\ UNCHANGED <<hubVars, streamVars, call, issued>>

\* The loop ends: the request context is done, or a heartbeat write failed.
Disconnect(s) ==
    /\ phase[s] = "open"
    /\ phase' = [phase EXCEPT ![s] = "closing"]
    /\ UNCHANGED <<hubVars, chan, client, user, delivered, call, issued>>

\* VARIANT: Unregister, which the handlers deferred before the reconnect race
\* was found: it removes whatever is registered under the client ID.
Unregister(s) ==
    /\ phase[s] = "closing"
    /\ WriteLockFree
    /\ clients' = [clients EXCEPT ![client[s]] = None]
    /\ buffer' = [buffer EXCEPT ![client[s]] = <<>>]
    /\ userOf' = [userOf EXCEPT ![client[s]] = None]
    /\ phase' = [phase EXCEPT ![s] = "closed"]
    /\ UNCHANGED <<chan, client, user, delivered, call, issued>>

\* UnregisterIfCurrent, the handlers' deferred cleanup: it removes the
\* client's entries only while they are those of this stream's channel.
UnregisterIfCurrent(s) ==
    /\ phase[s] = "closing"
    /\ WriteLockFree
    /\ IF clients[client[s]] = s
       THEN /\ clients' = [clients EXCEPT ![client[s]] = None]
            /\ buffer' = [buffer EXCEPT ![client[s]] = <<>>]
            /\ userOf' = [userOf EXCEPT ![client[s]] = None]
       ELSE UNCHANGED hubVars
    /\ phase' = [phase EXCEPT ![s] = "closed"]
    /\ UNCHANGED <<chan, client, user, delivered, call, issued>>

-------------------------------------------------------------------------------
(* The producers.  A call begins when its event is issued; the events are   *)
(* numbered in that order.                                                  *)

Issue(p) ==
    /\ call[p].pc = "idle"
    /\ issued < MaxEvents
    /\ issued' = issued + 1
    /\ UNCHANGED <<hubVars, chan, streamVars, delivered>>

Directed(p, c) ==
    [id |-> issued + 1, by |-> p, to |-> c, owner |-> None, except |-> None]

\* Send and SendCtx (whose context is not done): look the channel up under
\* the read lock and let the lock go.
Send(p, c) ==
    /\ Issue(p)
    /\ call' = [call EXCEPT ![p] =
           IF clients[c] = None
           THEN [pc |-> "buffer", ev |-> Directed(p, c)]
           ELSE [pc |-> "offer", ev |-> Directed(p, c), ch |-> clients[c]]]

\* SendBlocking looks up the same way, but will wait for room.
SendBlocking(p, c) ==
    /\ Issue(p)
    /\ call' = [call EXCEPT ![p] =
           IF clients[c] = None
           THEN [pc |-> "buffer", ev |-> Directed(p, c)]
           ELSE [pc |-> "wait", ev |-> Directed(p, c), ch |-> clients[c]]]

\* VARIANT: Send waits for room in a slow client's channel.
Offer_Blocks(p) ==
    /\ call[p].pc = "offer"
    /\ HasRoom(call[p].ch)
    /\ chan' = [chan EXCEPT ![call[p].ch] = Append(@, call[p].ev)]
    /\ call' = [call EXCEPT ![p] = Idle]
    /\ UNCHANGED <<hubVars, streamVars, delivered, issued>>

\* Send's select: the channel that was looked up takes the event, or it is
\* full and the event goes to the replay ring.
Offer(p) ==
    /\ call[p].pc = "offer"
    /\ \/ /\ HasRoom(call[p].ch)
          /\ chan' = [chan EXCEPT ![call[p].ch] = Append(@, call[p].ev)]
          /\ call' = [call EXCEPT ![p] = Idle]
       \/ /\ ~HasRoom(call[p].ch)
          /\ call' = [call EXCEPT ![p] = [pc |-> "buffer", ev |-> call[p].ev]]
          /\ UNCHANGED chan
    /\ UNCHANGED <<hubVars, streamVars, delivered, issued>>

\* bufferEvent, called without the lock: a disabled replay drops the event.
BufferEvent(p) ==
    /\ call[p].pc = "buffer"
    /\ IF MaxBuffer = 0
       THEN UNCHANGED buffer
       ELSE /\ WriteLockFree
            /\ buffer' = [buffer EXCEPT ![call[p].ev.to] = RingPush(@, call[p].ev)]
    /\ call' = [call EXCEPT ![p] = Idle]
    /\ UNCHANGED <<clients, userOf, chan, streamVars, delivered, issued>>

\* SendBlocking's select, when the channel accepts the event ...
Accept(p) ==
    /\ call[p].pc = "wait"
    /\ HasRoom(call[p].ch)
    /\ chan' = [chan EXCEPT ![call[p].ch] = Append(@, call[p].ev)]
    /\ call' = [call EXCEPT ![p] = Idle]
    /\ UNCHANGED <<hubVars, streamVars, delivered, issued>>

\* ... and when the caller's context is done first: the event is dropped.
Cancel(p) ==
    /\ call[p].pc = "wait"
    /\ call' = [call EXCEPT ![p] = Idle]
    /\ UNCHANGED <<hubVars, chan, streamVars, delivered, issued>>

\* The clients a broadcast iterates over.
Addressed(ev) ==
    {c \in Clients : /\ clients[c] # None
                     /\ c # ev.except
                     /\ ev.owner # None => userOf[c] = ev.owner}

\* The three broadcasts take the read lock and keep it while they iterate.
StartBroadcast(p, ev) ==
    /\ Issue(p)
    /\ call' = [call EXCEPT ![p] =
           IF Addressed(ev) = {} THEN Idle
           ELSE [pc |-> "iterate", ev |-> ev, left |-> Addressed(ev)]]

Broadcast(p) ==
    StartBroadcast(p, [id |-> issued + 1, by |-> p, to |-> None,
                       owner |-> None, except |-> None])

BroadcastExcept(p, x) ==
    StartBroadcast(p, [id |-> issued + 1, by |-> p, to |-> None,
                       owner |-> None, except |-> x])

BroadcastToUser(p, u, x) ==
    StartBroadcast(p, [id |-> issued + 1, by |-> p, to |-> None,
                       owner |-> u, except |-> x])

\* VARIANT: a broadcast waits for a slow client, holding the read lock.
BroadcastTo_Blocks(p, c) ==
    /\ call[p].pc = "iterate"
    /\ c \in call[p].left
    /\ HasRoom(clients[c])
    /\ chan' = [chan EXCEPT ![clients[c]] = Append(@, call[p].ev)]
    /\ call' = [call EXCEPT ![p] =
           IF call[p].left = {c} THEN Idle
           ELSE [pc |-> "iterate", ev |-> call[p].ev, left |-> call[p].left \ {c}]]
    /\ UNCHANGED <<hubVars, streamVars, delivered, issued>>

\* One turn of the loop over h.clients, in map order (any order): offer the
\* event and drop it for this client if its channel is full.  The last turn
\* releases the read lock.
BroadcastTo(p, c) ==
    /\ call[p].pc = "iterate"
    /\ c \in call[p].left
    /\ chan' = IF HasRoom(clients[c])
               THEN [chan EXCEPT ![clients[c]] = Append(@, call[p].ev)]
               ELSE chan
    /\ call' = [call EXCEPT ![p] =
           IF call[p].left = {c} THEN Idle
           ELSE [pc |-> "iterate", ev |-> call[p].ev, left |-> call[p].left \ {c}]]
    /\ UNCHANGED <<hubVars, streamVars, delivered, issued>>

-------------------------------------------------------------------------------
\* A producer begins a call.
Begin(p) ==
    \/ \E c \in Clients : Send(p, c) \/ SendBlocking(p, c)
    \/ Broadcast(p)
    \/ \E x \in Clients : BroadcastExcept(p, x)
    \/ \E u \in UserIDs, x \in Targets : BroadcastToUser(p, u, x)

\* A producer continues a call on its own, whatever the readers do.
Continue(p) ==
    \/ Offer(p)
    \/ BufferEvent(p)
    \/ \E c \in Clients : BroadcastTo(p, c)

ProducerNext(p) == Begin(p) \/ Continue(p) \/ Accept(p) \/ Cancel(p)

StreamNext(s) ==
    \/ \E c \in Clients, u \in UserIDs : Register(s, c, u)
    \/ Receive(s)
    \/ Disconnect(s)
    \/ UnregisterIfCurrent(s)

Next ==
    \/ \E p \in Producers : ProducerNext(p)
    \/ \E s \in Streams : StreamNext(s)

\* The Go scheduler runs every goroutine that can run, and an RWMutex lets no
\* new reader in while a writer waits, so a writer that asks again and again
\* gets the lock (strong fairness).  Only steps that wait for nobody outside
\* the hub are fair: browsers that read, come and go, and contexts that are
\* cancelled are the environment's.
Fairness ==
    /\ \A p \in Producers : SF_vars(Continue(p))
    /\ \A s \in Streams : SF_vars(UnregisterIfCurrent(s))

Spec == Init /\ [][Next]_vars /\ Fairness

-------------------------------------------------------------------------------
(* What the hub is for. *)

\* Everything that reached stream s, oldest first.
Stream(s) == delivered[s] \o chan[s]

\* A client that holds a live stream's registration is never left without
\* one: a late cleanup of an earlier stream of the same client removes
\* nothing (the reconnect race UnregisterIfCurrent was written for).
LiveClientStaysRegistered ==
    [][\A c \in Clients :
          (clients[c] # None /\ phase[clients[c]] = "open") => clients'[c] # None]_vars

\* A tab receives what is meant for it: an event sent to a client reaches
\* only streams of that client, a mutation broadcast to a user reaches only
\* streams registered by that user, and the excluded tab gets no echo, even
\* when tabs reconnect under another user while a call is under way.
Audience(s, ev) ==
    /\ ev.to # None => client[s] = ev.to
    /\ ev.owner # None => user[s] = ev.owner
    /\ client[s] # ev.except

RightAudience ==
    \A s \in Streams : \A i \in DOMAIN Stream(s) : Audience(s, Stream(s)[i])

\* The places that hold event n for client c.
InStreams(c, n) ==
    {x \in Streams \X (1..MaxEvents) :
        client[x[1]] = c /\ x[2] \in DOMAIN Stream(x[1]) /\ Stream(x[1])[x[2]].id = n}
InRing(c, n) == {i \in DOMAIN buffer[c] : buffer[c][i].id = n}
InCalls(c, n) ==
    {p \in Producers : call[p].pc # "idle" /\ call[p].ev.id = n
                       /\ \/ call[p].ev.to = c
                          \/ call[p].pc = "iterate" /\ c \in call[p].left}

\* No event reaches a client twice: over all of a client's streams, its ring
\* and the calls under way there is at most one copy, so a reconnect that
\* drains the ring repeats nothing.
AtMostOnce ==
    \A c \in Clients, n \in 1..MaxEvents :
        Cardinality(InStreams(c, n)) + Cardinality(InRing(c, n))
            + Cardinality(InCalls(c, n)) <= 1

\* What one producer issues arrives on a stream in the order it was issued,
\* the replayed events included.
ProducerOrder ==
    \A s \in Streams : \A i, j \in DOMAIN Stream(s) :
        (i < j /\ Stream(s)[i].by = Stream(s)[j].by)
            => Stream(s)[i].id < Stream(s)[j].id

\* Registrations are taken over by newer streams and emptied by their holder
\* only: the hub implements the abstract registry.
R == INSTANCE Registry WITH clients <- clients, phase <- phase
RegistrySpec == R!RegistrySpec

\* Backpressure: a Send or a broadcast returns even if no tab ever reads.
ProducersNeverBlock ==
    \A p \in Producers :
        call[p].pc \in {"offer", "buffer", "iterate"} ~> call[p].pc = "idle"

\* A handler that returns gets rid of its registration, even if no tab ever
\* reads: nobody holds the hub's lock while waiting for a browser.
CleanupCompletes ==
    \A s \in Streams : phase[s] = "closing" ~> phase[s] = "closed"
===============================================================================
