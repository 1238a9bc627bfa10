---------------------------- MODULE WhiteboardPeers ----------------------------
(***************************************************************************)
(* features/whiteboard/handler.go: who is online on a board.  The handler  *)
(* of a board's SSE stream (handleStream) registers with the hub, adds its *)
(* client to the board's peer set, announces it, broadcasts the whole set  *)
(* as the count and reads its channel until the browser is gone; its       *)
(* deferred cleanup undoes that, unless the client has reconnected.        *)
(*                                                                         *)
(* The hub is the registry SSEHub implements, with a channel per stream.   *)
(* peersMu guards the peer sets and the hub's lock the registry; nothing   *)
(* guards the two together, and many handlers run at once.  A page is what *)
(* whiteboard.js keeps of the messages; a page mints its client ID, so a   *)
(* client ID belongs to one board.                                         *)
(***************************************************************************)
EXTENDS Registry, Naturals, Sequences

CONSTANTS
    Docs,       \* boards
    DocOf,      \* the board a client's page shows
    QueueCap    \* capacity of a stream's channel (DefaultClientQueueSize)

ASSUME PeersAssumption ==
    /\ DocOf \in [Clients -> Docs]
    /\ None \notin Clients
    /\ QueueCap \in Nat \ {0}

VARIABLES
    peers,      \* Handler.peers: the clients on each board
    client,     \* the client of each stream
    step,       \* what the stream's handler does next
    call,       \* the broadcast the handler is iterating, or None
    counted,    \* the peer set peerList returned to the handler
    chan,       \* what each stream's channel holds
    shown,      \* the peers each client's page shows
    calm        \* history: no handler started or ended its work while
                \* another was under way, and no channel was ever full

hub == <<clients, phase>>
vars == <<clients, phase, peers, client, step, call, counted, chan, shown, calm>>

Steps == {"idle", "join", "announce", "list", "count", "loop",
          "unregister", "check", "remove", "farewell", "done"}

Messages == [type : {"join", "leave", "count"}, user : Clients \union {None},
             peers : SUBSET Clients]
Calls == [msg : Messages, left : SUBSET Clients]

ASSUME CallAssumption == None \notin Calls

TypeOK ==
    /\ RegistryTypeOK
    /\ peers \in [Docs -> SUBSET Clients]
    /\ client \in [Streams -> Clients \union {None}]
    /\ step \in [Streams -> Steps]
    /\ call \in [Streams -> Calls \union {None}]
    /\ counted \in [Streams -> SUBSET Clients]
    /\ chan \in [Streams -> Seq(Messages)]
    /\ \A s \in Streams : Len(chan[s]) <= QueueCap
    /\ shown \in [Clients -> SUBSET Clients]
    /\ calm \in BOOLEAN

Init ==
    /\ RegistryInit
    /\ peers = [d \in Docs |-> {}]
    /\ client = [s \in Streams |-> None]
    /\ step = [s \in Streams |-> "idle"]
    /\ call = [s \in Streams |-> None]
    /\ counted = [s \in Streams |-> {}]
    /\ chan = [s \in Streams |-> <<>>]
    /\ shown = [c \in Clients |-> {}]
    /\ calm = TRUE

-------------------------------------------------------------------------------
Doc(s) == DocOf[client[s]]

\* A handler between the registration and the loop, or in its cleanup.
Busy(s) == step[s] \notin {"idle", "loop", "done"} \/ call[s] # None

\* No broadcast holds the hub's read lock.
WriteLockFree == \A s \in Streams : call[s] = None

\* Handler s is at step a, not iterating, and goes on to step b.
Goes(s, a, b) ==
    /\ step[s] = a
    /\ call[s] = None
    /\ step' = [step EXCEPT ![s] = b]

StillCalm(s) == calm' = (calm /\ \A t \in Streams \ {s} : ~Busy(t))

-------------------------------------------------------------------------------
(* handleStream up to its loop. *)

\* The stream's channel takes the client's registration over.
Register(s, c) ==
    /\ WriteLockFree
    /\ Take(s, c)
    /\ Goes(s, "idle", "join")
    /\ client' = [client EXCEPT ![s] = c]
    /\ StillCalm(s)
    /\ UNCHANGED <<peers, call, counted, chan, shown>>

\* The client joins the board.  What peerJoin returns is written to the new
\* page as a snapshot that carries the page's own ID, and whiteboard.js
\* ignores messages of its own ID: the snapshot changes nothing.
PeerJoin(s) ==
    /\ Goes(s, "join", "announce")
    /\ peers' = [peers EXCEPT ![Doc(s)] = @ \union {client[s]}]
    /\ UNCHANGED <<hub, client, call, counted, chan, shown, calm>>

\* Handler s broadcasts m to every registered client but x.
StartBroadcast(s, m, x) ==
    LET targets == {c \in Clients : clients[c] # None} \ {x}
    IN  call' = [call EXCEPT ![s] =
                    IF targets = {} THEN None ELSE [msg |-> m, left |-> targets]]

Announce(s) ==
    /\ Goes(s, "announce", "list")
    /\ StartBroadcast(s, [type |-> "join", user |-> client[s], peers |-> {}], client[s])
    /\ UNCHANGED <<hub, peers, client, counted, chan, shown, calm>>

\* broadcastPeerCount reads the set and lets peersMu go ...
PeerList(s) ==
    /\ Goes(s, "list", "count")
    /\ counted' = [counted EXCEPT ![s] = peers[Doc(s)]]
    /\ UNCHANGED <<hub, peers, client, call, chan, shown, calm>>

\* ... and broadcasts it, the last thing a handler does before its loop, and
\* the last thing in its cleanup.
BroadcastCount(s) ==
    /\ Goes(s, "count", IF phase[s] = "open" THEN "loop" ELSE "done")
    /\ StartBroadcast(s, [type |-> "count", user |-> None, peers |-> counted[s]], None)
    /\ counted' = [counted EXCEPT ![s] = {}]
    /\ UNCHANGED <<hub, peers, client, chan, shown, calm>>

\* VARIANT: the message is queued however slow the page is.
BroadcastTo_Unbounded(s, c) ==
    /\ call[s] # None
    /\ c \in call[s].left
    /\ chan' = [chan EXCEPT ![clients[c]] = Append(@, call[s].msg)]
    /\ call' = [call EXCEPT ![s] =
           IF @.left = {c} THEN None ELSE [msg |-> @.msg, left |-> @.left \ {c}]]
    /\ UNCHANGED <<hub, peers, client, step, counted, shown, calm>>

\* One turn of a broadcast's loop, under the read lock: a full channel drops
\* the message.
BroadcastTo(s, c) ==
    /\ call[s] # None
    /\ c \in call[s].left
    /\ IF Len(chan[clients[c]]) < QueueCap
       THEN chan' = [chan EXCEPT ![clients[c]] = Append(@, call[s].msg)] /\ UNCHANGED calm
       ELSE calm' = FALSE /\ UNCHANGED chan
    /\ call' = [call EXCEPT ![s] =
           IF @.left = {c} THEN None ELSE [msg |-> @.msg, left |-> @.left \ {c}]]
    /\ UNCHANGED <<hub, peers, client, step, counted, shown>>

-------------------------------------------------------------------------------
(* The loop and the page that reads the stream. *)

\* whiteboard.js handlePresence, which looks at no message's board: the peers
\* page c shows after message m.
Show(c, m) ==
    IF m.user = c THEN shown[c]
    ELSE CASE m.type = "count" -> m.peers \ {c}
           [] m.type = "join" -> shown[c] \union {m.user}
           [] m.type = "leave" -> shown[c] \ {m.user}

\* The loop writes the next message.  The page reads the connection it made
\* last, which is the one that holds the registration.
Receive(s) ==
    /\ step[s] = "loop"
    /\ call[s] = None
    /\ chan[s] # <<>>
    /\ chan' = [chan EXCEPT ![s] = Tail(@)]
    /\ shown' = IF clients[client[s]] = s
                THEN [shown EXCEPT ![client[s]] = Show(client[s], Head(chan[s]))]
                ELSE shown
    /\ UNCHANGED <<hub, peers, client, step, call, counted, calm>>

\* The request context is done or a heartbeat cannot be written.
Disconnect(s) ==
    /\ Goes(s, "loop", "unregister")
    /\ Drop(s)
    /\ StillCalm(s)
    /\ UNCHANGED <<peers, client, call, counted, chan, shown>>

-------------------------------------------------------------------------------
(* The deferred cleanup: UnregisterIfCurrent, then peerLeave. *)

\* VARIANT: the two deferred calls in the other order, so that peerLeave finds
\* the handler's own registration.
UnregisterIfCurrent_Last(s) ==
    /\ WriteLockFree
    /\ Goes(s, "unregister", IF clients[client[s]] # None THEN "done" ELSE "remove")
    /\ Leave(s)
    /\ chan' = [chan EXCEPT ![s] = <<>>]
    /\ UNCHANGED <<peers, client, call, counted, shown, calm>>

\* The handler is the only reader of its channel: what is left in it is gone.
UnregisterIfCurrent(s) ==
    /\ WriteLockFree
    /\ Goes(s, "unregister", "check")
    /\ Leave(s)
    /\ chan' = [chan EXCEPT ![s] = <<>>]
    /\ UNCHANGED <<peers, client, call, counted, shown, calm>>

\* VARIANT: peerLeave before the guard against reconnects was added.
CheckRegistered_Skipped(s) ==
    /\ Goes(s, "check", "remove")
    /\ UNCHANGED <<hub, peers, client, call, counted, chan, shown, calm>>

\* peerLeave's guard: a client that has a registration has reconnected, and
\* its new handler looks after the peer set.
CheckRegistered(s) ==
    /\ Goes(s, "check", IF clients[client[s]] # None THEN "done" ELSE "remove")
    /\ UNCHANGED <<hub, peers, client, call, counted, chan, shown, calm>>

\* The client leaves the board (under peersMu, the hub's lock long released).
Remove(s) ==
    /\ Goes(s, "remove", "farewell")
    /\ peers' = [peers EXCEPT ![Doc(s)] = @ \ {client[s]}]
    /\ UNCHANGED <<hub, client, call, counted, chan, shown, calm>>

Farewell(s) ==
    /\ Goes(s, "farewell", "list")
    /\ StartBroadcast(s, [type |-> "leave", user |-> client[s], peers |-> {}], client[s])
    /\ UNCHANGED <<hub, peers, client, counted, chan, shown, calm>>

-------------------------------------------------------------------------------
Handler(s) ==
    \/ PeerJoin(s)
    \/ Announce(s)
    \/ PeerList(s)
    \/ BroadcastCount(s)
    \/ \E c \in Clients : BroadcastTo(s, c)
    \/ UnregisterIfCurrent(s)
    \/ CheckRegistered(s)
    \/ Remove(s)
    \/ Farewell(s)

Next ==
    \E s \in Streams :
        \/ \E c \in Clients : Register(s, c)
        \/ Handler(s)
        \/ Receive(s)
        \/ Disconnect(s)

Spec == Init /\ [][Next]_vars

-------------------------------------------------------------------------------
\* Stream s is connected, or its cleanup has not settled its client's membership.
Responsible(s) ==
    \/ phase[s] \in {"open", "closing"}
    \/ phase[s] = "closed" /\ step[s] \in {"check", "remove"}

\* Nobody stays online for ever: a client in a board's peer set has a stream
\* on that board whose handler will still take it out or leave that to a
\* younger stream, however the handlers of its reconnects interleave.
NoGhosts ==
    \A d \in Docs : \A c \in peers[d] :
        /\ DocOf[c] = d
        /\ \E s \in Streams : client[s] = c /\ Responsible(s)

\* Every handler is in its loop or over, and every open page is up to date.
Quiet ==
    \A s \in Streams :
        ~Busy(s) /\ (step[s] = "loop" /\ clients[client[s]] = s => chan[s] = <<>>)

\* The pages that are connected to board d.
Online(d) == {c \in Clients : DocOf[c] = d /\ clients[c] # None}

\* When connections come and go one at a time, reconnects that overtake the
\* end of the old stream included, every page ends up with exactly the others
\* on its board: no missed leave, no peer dropped by a late cleanup.
CalmPagesAgree ==
    (calm /\ Quiet) =>
        \A c \in Clients : clients[c] # None => shown[c] = Online(DocOf[c]) \ {c}
===============================================================================
