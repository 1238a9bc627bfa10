------------------------- MODULE WhiteboardPeers_proofs -------------------------
(***************************************************************************)
(* No ghosts on a board, for any number of pages, boards and connections.  *)
(* NoGhosts is not inductive by itself: that a late cleanup may leave its  *)
(* client to "the younger stream" needs the younger stream to be the       *)
(* client's and not to be over, which is what the registry guarantees      *)
(* (HolderIsLive) and what the order of the deferred calls gives           *)
(* (StepsFollowPhases: a handler that checks has given its registration    *)
(* back, so the registration it finds is another stream's).                *)
(* CalmPagesAgree follows, for one board, from what has yet to reach each  *)
(* page (PagesInv).                                                        *)
(***************************************************************************)
EXTENDS WhiteboardPeers, TLAPS

\* A registration belongs to a stream of its client that is not over.
HolderIsLive ==
    \A c \in Clients : clients[c] # None =>
        /\ client[clients[c]] = c
        /\ phase[clients[c]] \in {"open", "closing"}

\* Where a handler is and which phase its stream is in.
StepsFollowPhases ==
    \A s \in Streams :
        /\ phase[s] # "new" => client[s] \in Clients
        /\ step[s] # "idle" => phase[s] # "new"
        /\ step[s] = "join" => phase[s] = "open"
        /\ step[s] \in {"check", "remove"} => phase[s] = "closed"

\* The part of the type invariant the argument uses.
PeersTypeOK ==
    /\ RegistryTypeOK
    /\ peers \in [Docs -> SUBSET Clients]
    /\ client \in [Streams -> Clients \union {None}]
    /\ step \in [Streams -> Steps]

PeersInv == PeersTypeOK /\ HolderIsLive /\ StepsFollowPhases /\ NoGhosts

USE RegistryAssumption, PeersAssumption

LEMMA PeersInitially == Init => PeersInv
BY DEF Init, PeersInv, PeersTypeOK, HolderIsLive, StepsFollowPhases, NoGhosts,
       RegistryInit, RegistryTypeOK, Phases, Steps

\* A step that changes nothing but channels, pages and calls.
LEMMA PeersStutter ==
    ASSUME PeersInv, UNCHANGED <<clients, phase, peers, client, step>>
    PROVE  PeersInv'
BY DEF PeersInv, PeersTypeOK, HolderIsLive, StepsFollowPhases, NoGhosts,
       RegistryTypeOK, Responsible

\* A handler goes on inside one phase, and nobody's membership changes.
LEMMA PeersGoOn ==
    ASSUME PeersInv, NEW s \in Streams, NEW a, NEW b \in Steps,
           Goes(s, a, b), a \notin {"idle", "check", "remove"}, b \notin {"join", "check", "remove"},
           UNCHANGED <<clients, phase, peers, client>>
    PROVE  PeersInv'
<1>1. step' = [step EXCEPT ![s] = b] /\ step[s] = a
  BY DEF Goes
<1>2. PeersTypeOK'
  BY <1>1 DEF PeersInv, PeersTypeOK, RegistryTypeOK
<1>3. HolderIsLive'
  BY DEF PeersInv, HolderIsLive
<1>4. StepsFollowPhases'
  BY <1>1 DEF PeersInv, PeersTypeOK, StepsFollowPhases
<1>5. \A t \in Streams : Responsible(t) => Responsible(t)'
  BY <1>1 DEF PeersInv, PeersTypeOK, Responsible
<1>6. NoGhosts'
  BY <1>5 DEF PeersInv, NoGhosts
<1>. QED
  BY <1>2, <1>3, <1>4, <1>6 DEF PeersInv

LEMMA PeersStep == PeersInv /\ [Next]_vars => PeersInv'
<1> SUFFICES ASSUME PeersInv, [Next]_vars
             PROVE  PeersInv'
  OBVIOUS
<1> USE DEF PeersInv
<1>1. ASSUME NEW s \in Streams, NEW c \in Clients, Register(s, c)
      PROVE  PeersInv'
  <2>1. /\ phase[s] = "new" /\ phase' = [phase EXCEPT ![s] = "open"]
        /\ clients' = [clients EXCEPT ![c] = s]
        /\ client' = [client EXCEPT ![s] = c]
        /\ step' = [step EXCEPT ![s] = "join"]
        /\ peers' = peers
    BY <1>1 DEF Register, Take, Goes
  <2>2. PeersTypeOK'
    BY <2>1 DEF PeersTypeOK, RegistryTypeOK, Phases, Steps
  <2>3. HolderIsLive'
    BY <2>1 DEF PeersTypeOK, RegistryTypeOK, HolderIsLive
  <2>4. StepsFollowPhases'
    BY <2>1 DEF PeersTypeOK, RegistryTypeOK, StepsFollowPhases
  <2>5. \A t \in Streams : Responsible(t) => t # s /\ Responsible(t)' /\ client'[t] = client[t]
    BY <2>1 DEF PeersTypeOK, RegistryTypeOK, Responsible
  <2>6. NoGhosts'
    BY <2>1, <2>5 DEF NoGhosts
  <2>. QED
    BY <2>2, <2>3, <2>4, <2>6
<1>2. ASSUME NEW s \in Streams, PeerJoin(s)
      PROVE  PeersInv'
  <2>1. /\ step[s] = "join" /\ step' = [step EXCEPT ![s] = "announce"]
        /\ peers' = [peers EXCEPT ![DocOf[client[s]]] = @ \union {client[s]}]
        /\ UNCHANGED <<clients, phase, client>>
    BY <1>2 DEF PeerJoin, Goes, Doc, hub
  <2>2. client[s] \in Clients /\ DocOf[client[s]] \in Docs /\ Responsible(s)
    BY <2>1 DEF StepsFollowPhases, Responsible, PeersTypeOK, RegistryTypeOK, Phases
  <2>3. PeersTypeOK'
    BY <2>1, <2>2 DEF PeersTypeOK, RegistryTypeOK, Steps
  <2>4. HolderIsLive'
    BY <2>1 DEF HolderIsLive
  <2>5. StepsFollowPhases'
    BY <2>1 DEF PeersTypeOK, StepsFollowPhases
  <2>6. \A t \in Streams : Responsible(t) => Responsible(t)'
    BY <2>1 DEF PeersTypeOK, Responsible
  <2>7. NoGhosts'
    <3> SUFFICES ASSUME NEW d \in Docs, NEW c \in peers'[d]
                 PROVE  /\ DocOf[c] = d
                        /\ \E t \in Streams : client'[t] = c /\ Responsible(t)'
      BY DEF NoGhosts
    <3>1. CASE c \in peers[d]
      BY <2>1, <2>6, <3>1 DEF NoGhosts
    <3>2. CASE c \notin peers[d]
      <4>1. c = client[s] /\ d = DocOf[client[s]]
        BY <2>1, <2>2, <3>2 DEF PeersTypeOK
      <4>. QED
        BY <2>1, <2>2, <2>6, <4>1
    <3>. QED
      BY <3>1, <3>2
  <2>. QED
    BY <2>3, <2>4, <2>5, <2>7
<1>3. ASSUME NEW s \in Streams, Announce(s) \/ PeerList(s) \/ BroadcastCount(s) \/ Farewell(s)
      PROVE  PeersInv'
  <2>1. CASE Announce(s)
    BY <2>1, PeersGoOn DEF Announce, hub, Steps
  <2>2. CASE PeerList(s)
    BY <2>2, PeersGoOn DEF PeerList, hub, Steps
  <2>3. CASE BroadcastCount(s)
    <3>1. CASE phase[s] = "open"
      BY <2>3, <3>1, PeersGoOn DEF BroadcastCount, hub, Steps
    <3>2. CASE phase[s] # "open"
      BY <2>3, <3>2, PeersGoOn DEF BroadcastCount, hub, Steps
    <3>. QED
      BY <3>1, <3>2
  <2>4. CASE Farewell(s)
    BY <2>4, PeersGoOn DEF Farewell, hub, Steps
  <2>. QED
    BY <1>3, <2>1, <2>2, <2>3, <2>4
<1>4. ASSUME NEW s \in Streams, NEW c \in Clients, BroadcastTo(s, c)
      PROVE  PeersInv'
  BY <1>4, PeersStutter DEF BroadcastTo, hub
<1>5. ASSUME NEW s \in Streams, Receive(s)
      PROVE  PeersInv'
  BY <1>5, PeersStutter DEF Receive, hub
<1>6. ASSUME NEW s \in Streams, Disconnect(s)
      PROVE  PeersInv'
  <2>1. /\ phase[s] = "open" /\ phase' = [phase EXCEPT ![s] = "closing"]
        /\ step[s] = "loop" /\ step' = [step EXCEPT ![s] = "unregister"]
        /\ UNCHANGED <<clients, peers, client>>
    BY <1>6 DEF Disconnect, Drop, Goes
  <2>2. PeersTypeOK'
    BY <2>1 DEF PeersTypeOK, RegistryTypeOK, Phases, Steps
  <2>3. HolderIsLive'
    BY <2>1 DEF PeersTypeOK, RegistryTypeOK, HolderIsLive
  <2>4. StepsFollowPhases'
    BY <2>1 DEF PeersTypeOK, RegistryTypeOK, StepsFollowPhases
  <2>5. \A t \in Streams : Responsible(t) => Responsible(t)'
    BY <2>1 DEF PeersTypeOK, RegistryTypeOK, Responsible
  <2>6. NoGhosts'
    BY <2>1, <2>5 DEF NoGhosts
  <2>. QED
    BY <2>2, <2>3, <2>4, <2>6
<1>7. ASSUME NEW s \in Streams, UnregisterIfCurrent(s)
      PROVE  PeersInv'
  <2>1. /\ phase[s] = "closing" /\ phase' = [phase EXCEPT ![s] = "closed"]
        /\ clients' = [c \in Clients |-> IF clients[c] = s THEN None ELSE clients[c]]
        /\ step[s] = "unregister" /\ step' = [step EXCEPT ![s] = "check"]
        /\ UNCHANGED <<peers, client>>
    BY <1>7 DEF UnregisterIfCurrent, Leave, Goes
  <2>2. PeersTypeOK'
    BY <2>1 DEF PeersTypeOK, RegistryTypeOK, Phases, Steps
  <2>3. HolderIsLive'
    BY <2>1 DEF PeersTypeOK, RegistryTypeOK, HolderIsLive
  <2>4. StepsFollowPhases'
    BY <2>1 DEF PeersTypeOK, RegistryTypeOK, StepsFollowPhases
  <2>5. \A t \in Streams : Responsible(t) => Responsible(t)'
    BY <2>1 DEF PeersTypeOK, RegistryTypeOK, Responsible
  <2>6. NoGhosts'
    BY <2>1, <2>5 DEF NoGhosts
  <2>. QED
    BY <2>2, <2>3, <2>4, <2>6
<1>8. ASSUME NEW s \in Streams, CheckRegistered(s)
      PROVE  PeersInv'
  <2> DEFINE c == client[s]
             b == IF clients[c] # None THEN "done" ELSE "remove"
  <2>1. /\ step[s] = "check" /\ step' = [step EXCEPT ![s] = b]
        /\ UNCHANGED <<clients, phase, peers, client>>
    BY <1>8 DEF CheckRegistered, Goes, hub
  <2>2. phase[s] = "closed" /\ c \in Clients
    BY <2>1 DEF StepsFollowPhases
  <2>3. PeersTypeOK' /\ HolderIsLive' /\ StepsFollowPhases'
    BY <2>1, <2>2 DEF PeersTypeOK, RegistryTypeOK, Steps, HolderIsLive, StepsFollowPhases
  <2>4. \A t \in Streams \ {s} : Responsible(t) => Responsible(t)'
    BY <2>1 DEF PeersTypeOK, Responsible
  \* Either the handler will remove the client or a live stream holds its slot.
  <2>5. \E t \in Streams : client[t] = c /\ Responsible(t)'
    <3>1. CASE clients[c] = None
      BY <2>1, <2>2, <3>1 DEF PeersTypeOK, Responsible
    <3>2. CASE clients[c] # None
      <4>1. /\ clients[c] \in Streams /\ client[clients[c]] = c
            /\ phase[clients[c]] \in {"open", "closing"}
        BY <2>2, <3>2 DEF HolderIsLive, PeersTypeOK, RegistryTypeOK
      <4>. QED
        BY <2>1, <4>1 DEF Responsible
    <3>. QED
      BY <3>1, <3>2
  <2>6. NoGhosts'
    BY <2>1, <2>4, <2>5 DEF NoGhosts
  <2>. QED
    BY <2>3, <2>6
<1>9. ASSUME NEW s \in Streams, Remove(s)
      PROVE  PeersInv'
  <2>1. /\ step[s] = "remove" /\ step' = [step EXCEPT ![s] = "farewell"]
        /\ peers' = [peers EXCEPT ![DocOf[client[s]]] = @ \ {client[s]}]
        /\ UNCHANGED <<clients, phase, client>>
    BY <1>9 DEF Remove, Goes, Doc, hub
  <2>2. client[s] \in Clients /\ DocOf[client[s]] \in Docs
    BY <2>1 DEF StepsFollowPhases
  <2>3. PeersTypeOK' /\ HolderIsLive' /\ StepsFollowPhases'
    BY <2>1, <2>2 DEF PeersTypeOK, RegistryTypeOK, Steps, HolderIsLive, StepsFollowPhases
  <2>4. \A t \in Streams \ {s} : Responsible(t) => Responsible(t)'
    BY <2>1 DEF PeersTypeOK, Responsible
  <2>5. NoGhosts'
    <3> SUFFICES ASSUME NEW d \in Docs, NEW c \in peers'[d]
                 PROVE  /\ DocOf[c] = d
                        /\ \E t \in Streams : client'[t] = c /\ Responsible(t)'
      BY DEF NoGhosts
    <3>1. c \in peers[d] /\ DocOf[c] = d
      BY <2>1, <2>2 DEF PeersTypeOK, NoGhosts
    <3>2. c # client[s]
      BY <2>1, <2>2, <3>1 DEF PeersTypeOK
    <3>. QED
      BY <2>1, <2>4, <3>1, <3>2 DEF NoGhosts
  <2>. QED
    BY <2>3, <2>5
<1>10. CASE UNCHANGED vars
  BY <1>10, PeersStutter DEF vars
<1>. QED
  BY <1>1, <1>2, <1>3, <1>4, <1>5, <1>6, <1>7, <1>8, <1>9, <1>10 DEF Next, Handler

\* A client stays in a board's peer set only while one of its streams is
\* connected or about to settle its membership.
THEOREM NoGhostsCorrect == Spec => []NoGhosts
<1>1. PeersInv => NoGhosts
  BY DEF PeersInv
<1>. QED
  BY <1>1, PeersInitially, PeersStep, PTL DEF Spec

-------------------------------------------------------------------------------
(* Type correctness.  A page adds the user of a join message to its peers,  *)
(* so that such messages have to name one.                                  *)

Named == {m \in Messages : m.type = "join" => m.user \in Clients}
NamedCalls == [msg : Named, left : SUBSET Clients]

\* What TypeOK says beyond PeersTypeOK, with messages that are named.
MessagesOK ==
    /\ call \in [Streams -> NamedCalls \union {None}]
    /\ counted \in [Streams -> SUBSET Clients]
    /\ chan \in [Streams -> Seq(Named)]
    /\ \A s \in Streams : Len(chan[s]) <= QueueCap
    /\ shown \in [Clients -> SUBSET Clients]
    /\ calm \in BOOLEAN

\* A broadcast's call holds a named message and clients.
LEMMA StartBroadcastType ==
    ASSUME MessagesOK, NEW s \in Streams, NEW m \in Named, NEW x, StartBroadcast(s, m, x)
    PROVE  call' \in [Streams -> NamedCalls \union {None}]
BY DEF MessagesOK, StartBroadcast, NamedCalls

\* A handler's broadcast, or nothing, beside steps that concern no message.
LEMMA MessagesGoOn ==
    ASSUME MessagesOK, UNCHANGED <<chan, shown>>,
           call' \in [Streams -> NamedCalls \union {None}],
           counted' \in [Streams -> SUBSET Clients], calm' \in BOOLEAN
    PROVE  MessagesOK'
BY DEF MessagesOK

\* A page shows clients whatever message it is given.
LEMMA ShowType ==
    ASSUME MessagesOK, NEW c \in Clients, NEW m \in Named
    PROVE  Show(c, m) \subseteq Clients
<1>1. m \in Messages /\ m.type \in {"join", "leave", "count"} /\ m.peers \subseteq Clients
      /\ (m.type = "join" => m.user \in Clients)
  BY DEF Named, Messages
<1>2. shown[c] \subseteq Clients
  BY DEF MessagesOK
<1>3. CASE m.type = "count"
  BY <1>1, <1>2, <1>3 DEF Show
<1>4. CASE m.type = "join"
  BY <1>1, <1>2, <1>4 DEF Show
<1>5. CASE m.type = "leave"
  BY <1>1, <1>2, <1>5 DEF Show
<1>. QED
  BY <1>1, <1>3, <1>4, <1>5

LEMMA MessagesInitially == Init => MessagesOK
BY DEF Init, MessagesOK

LEMMA MessagesStep == PeersInv /\ MessagesOK /\ [Next]_vars => MessagesOK'
<1> SUFFICES ASSUME PeersInv, MessagesOK, [Next]_vars
             PROVE  MessagesOK'
  OBVIOUS
<1>1. ASSUME NEW s \in Streams, NEW c \in Clients, Register(s, c)
      PROVE  MessagesOK'
  BY <1>1, MessagesGoOn DEF Register, StillCalm, MessagesOK
<1>2. ASSUME NEW s \in Streams, PeerJoin(s) \/ CheckRegistered(s) \/ Remove(s)
      PROVE  MessagesOK'
  BY <1>2, MessagesGoOn DEF PeerJoin, CheckRegistered, Remove, MessagesOK
<1>3. ASSUME NEW s \in Streams, Announce(s)
      PROVE  MessagesOK'
  <2>1. client[s] \in Clients
    BY <1>3 DEF PeersInv, StepsFollowPhases, Announce, Goes
  <2>2. [type |-> "join", user |-> client[s], peers |-> {}] \in Named
    BY <2>1 DEF Named, Messages
  <2>3. call' \in [Streams -> NamedCalls \union {None}]
    BY <1>3, <2>2, StartBroadcastType DEF Announce
  <2>. QED
    BY <1>3, <2>3, MessagesGoOn DEF Announce, MessagesOK
<1>4. ASSUME NEW s \in Streams, PeerList(s)
      PROVE  MessagesOK'
  <2>1. client[s] \in Clients
    BY <1>4 DEF PeersInv, StepsFollowPhases, PeerList, Goes
  <2>2. peers[Doc(s)] \subseteq Clients
    BY <2>1 DEF PeersInv, PeersTypeOK, Doc
  <2>3. counted' \in [Streams -> SUBSET Clients]
    BY <1>4, <2>2 DEF PeerList, MessagesOK
  <2>. QED
    BY <1>4, <2>3, MessagesGoOn DEF PeerList, MessagesOK
<1>5. ASSUME NEW s \in Streams, BroadcastCount(s)
      PROVE  MessagesOK'
  <2>1. [type |-> "count", user |-> None, peers |-> counted[s]] \in Named
    BY DEF Named, Messages, MessagesOK
  <2>2. call' \in [Streams -> NamedCalls \union {None}]
    BY <1>5, <2>1, StartBroadcastType DEF BroadcastCount
  <2>3. counted' \in [Streams -> SUBSET Clients]
    BY <1>5 DEF BroadcastCount, MessagesOK
  <2>. QED
    BY <1>5, <2>2, <2>3, MessagesGoOn DEF BroadcastCount, MessagesOK
<1>6. ASSUME NEW s \in Streams, Farewell(s)
      PROVE  MessagesOK'
  <2>1. client[s] \in Clients
    BY <1>6 DEF PeersInv, StepsFollowPhases, Farewell, Goes
  <2>2. [type |-> "leave", user |-> client[s], peers |-> {}] \in Named
    BY <2>1 DEF Named, Messages
  <2>3. call' \in [Streams -> NamedCalls \union {None}]
    BY <1>6, <2>2, StartBroadcastType DEF Farewell
  <2>. QED
    BY <1>6, <2>3, MessagesGoOn DEF Farewell, MessagesOK
<1>7. ASSUME NEW s \in Streams, NEW c \in Clients, BroadcastTo(s, c)
      PROVE  MessagesOK'
  <2>1. call[s] \in NamedCalls
    BY <1>7 DEF BroadcastTo, MessagesOK
  <2>2. call[s].msg \in Named /\ call[s].left \subseteq Clients
    BY <2>1 DEF NamedCalls
  <2>3. call' \in [Streams -> NamedCalls \union {None}]
    BY <1>7, <2>2 DEF BroadcastTo, MessagesOK, NamedCalls
  <2>4. clients[c] \in Streams \union {None}
    BY DEF PeersInv, PeersTypeOK, RegistryTypeOK
  <2>5. CASE chan' = chan
    BY <1>7, <2>3, <2>5 DEF BroadcastTo, MessagesOK
  <2>6. CASE chan' # chan
    <3>1. /\ Len(chan[clients[c]]) < QueueCap /\ calm' = calm
          /\ chan' = [chan EXCEPT ![clients[c]] = Append(chan[clients[c]], call[s].msg)]
      BY <1>7, <2>6 DEF BroadcastTo
    <3>2. clients[c] \in Streams
      BY <2>4, <2>6, <3>1 DEF MessagesOK
    <3>3. chan[clients[c]] \in Seq(Named)
      BY <3>2 DEF MessagesOK
    <3>4. /\ Append(chan[clients[c]], call[s].msg) \in Seq(Named)
          /\ Len(Append(chan[clients[c]], call[s].msg)) <= QueueCap
      BY <2>2, <3>1, <3>3
    <3>5. chan' \in [Streams -> Seq(Named)] /\ \A t \in Streams : Len(chan'[t]) <= QueueCap
      BY <3>1, <3>2, <3>4 DEF MessagesOK
    <3>. QED
      BY <1>7, <2>3, <3>1, <3>5 DEF BroadcastTo, MessagesOK
  <2>. QED
    BY <2>5, <2>6
<1>8. ASSUME NEW s \in Streams, Receive(s)
      PROVE  MessagesOK'
  <2>1. chan[s] \in Seq(Named) /\ chan[s] # <<>> /\ Len(chan[s]) <= QueueCap
    BY <1>8 DEF Receive, MessagesOK
  <2>2. /\ Tail(chan[s]) \in Seq(Named) /\ Len(Tail(chan[s])) <= QueueCap
        /\ Head(chan[s]) \in Named
    BY <2>1
  <2>3. chan' \in [Streams -> Seq(Named)] /\ \A t \in Streams : Len(chan'[t]) <= QueueCap
    BY <1>8, <2>2 DEF Receive, MessagesOK
  <2>4. client[s] \in Clients
    BY <1>8 DEF PeersInv, StepsFollowPhases, Receive
  <2>5. Show(client[s], Head(chan[s])) \subseteq Clients
    BY <2>2, <2>4, ShowType
  <2>6. shown' \in [Clients -> SUBSET Clients]
    BY <1>8, <2>5 DEF Receive, MessagesOK
  <2>. QED
    BY <1>8, <2>3, <2>6 DEF Receive, MessagesOK
<1>9. ASSUME NEW s \in Streams, Disconnect(s)
      PROVE  MessagesOK'
  BY <1>9, MessagesGoOn DEF Disconnect, StillCalm, MessagesOK
<1>10. ASSUME NEW s \in Streams, UnregisterIfCurrent(s)
       PROVE  MessagesOK'
  <2>1. <<>> \in Seq(Named) /\ Len(<<>>) <= QueueCap
    OBVIOUS
  <2>2. chan' \in [Streams -> Seq(Named)] /\ \A t \in Streams : Len(chan'[t]) <= QueueCap
    BY <1>10, <2>1 DEF UnregisterIfCurrent, MessagesOK
  <2>. QED
    BY <1>10, <2>2 DEF UnregisterIfCurrent, MessagesOK
<1>11. CASE UNCHANGED vars
  BY <1>11 DEF vars, MessagesOK
<1>. QED
  BY <1>1, <1>2, <1>3, <1>4, <1>5, <1>6, <1>7, <1>8, <1>9, <1>10, <1>11 DEF Next, Handler

\* The state of handlers, channels and pages stays well typed; in particular no
\* channel outgrows its capacity, and pages show clients and nothing else.
THEOREM TypeCorrect == Spec => []TypeOK
<1>1. PeersInv /\ MessagesOK => TypeOK
  <2> SUFFICES ASSUME PeersInv, MessagesOK PROVE TypeOK
    OBVIOUS
  <2>1. Named \subseteq Messages
    BY DEF Named
  <2>2. chan \in [Streams -> Seq(Messages)]
    <3>1. Seq(Named) \subseteq Seq(Messages)
      BY <2>1
    <3>. QED
      BY <3>1 DEF MessagesOK
  <2>3. call \in [Streams -> Calls \union {None}]
    BY <2>1 DEF MessagesOK, NamedCalls, Calls
  <2>. QED
    BY <2>2, <2>3 DEF PeersInv, PeersTypeOK, MessagesOK, TypeOK
<1>2. PeersInv /\ MessagesOK /\ [Next]_vars => PeersInv' /\ MessagesOK'
  BY PeersStep, MessagesStep
<1>. QED
  BY <1>1, <1>2, PeersInitially, MessagesInitially, PTL DEF Spec

-------------------------------------------------------------------------------
(* Pages that agree.  With one board and one handler at work at a time, the  *)
(* peer set is the set of registered clients except between the two steps    *)
(* that change the one and the other, and every page has the whole set, or   *)
(* a count that carries it is the last message queued for it.                *)

OneBoard == \A c, d \in Clients : DocOf[c] = DocOf[d]

Registered == {c \in Clients : clients[c] # None}
PeersAre(S) == \A c \in Clients : peers[DocOf[c]] = S
Count == [type |-> "count", user |-> None, peers |-> Registered]

\* Page c shows the others, or will once it has read its channel.
UpToDate(c) ==
    LET q == chan[clients[c]]
    IN  IF q = <<>> THEN shown[c] = Registered \ {c} ELSE q[Len(q)] = Count

Agreed == PeersAre(Registered) /\ \A c \in Registered : UpToDate(c)

\* What holds while handler s is the one at work.
Stage(s) ==
    /\ step[s] = "join" =>
          client[s] \in Registered
          /\ \A c \in Clients : peers[DocOf[c]] \union {client[s]} = Registered
    /\ step[s] \in {"announce", "list", "count", "farewell"} => PeersAre(Registered)
    /\ step[s] = "count" => counted[s] = Registered
    /\ step[s] \in {"loop", "done"} =>
          /\ PeersAre(Registered)
          /\ call[s].msg = Count
          /\ \A c \in Registered : c \in call[s].left \/ UpToDate(c)
    /\ step[s] = "unregister" => Agreed
    /\ step[s] = "check" /\ client[s] \in Registered => Agreed
    /\ step[s] \in {"check", "remove"} /\ client[s] \notin Registered =>
          \A c \in Clients : peers[DocOf[c]] \ {client[s]} = Registered
    /\ step[s] = "remove" => client[s] \notin Registered

PagesInv ==
    calm =>
        /\ \A s, t \in Streams : Busy(s) /\ Busy(t) => s = t
        /\ (\A s \in Streams : ~Busy(s)) => Agreed
        /\ \A s \in Streams : Busy(s) => Stage(s)

\* Which steps a stream's handler takes in which phase, and in which steps a
\* broadcast is under way, to registered clients.
HandlersInv ==
    \A s \in Streams :
        /\ step[s] = "idle" <=> phase[s] = "new"
        /\ step[s] \in {"join", "announce", "loop"} => phase[s] = "open"
        /\ step[s] = "unregister" => phase[s] = "closing"
        /\ step[s] \in {"check", "remove", "farewell", "done"} => phase[s] = "closed"
        /\ step[s] \in {"list", "count"} => phase[s] \in {"open", "closed"}
        /\ call[s] # None =>
              /\ step[s] \in {"list", "loop", "done"}
              /\ call[s].left \subseteq Registered

-------------------------------------------------------------------------------
(* Handlers. *)

LEMMA HandlersInitially == Init => HandlersInv
BY DEF Init, HandlersInv, RegistryInit

\* A broadcast starts with registered clients left, if it starts at all.
LEMMA StartedCall ==
    ASSUME MessagesOK, NEW s \in Streams, NEW m, NEW x, StartBroadcast(s, m, x)
    PROVE  /\ call'[s] = IF Registered \ {x} = {} THEN None
                         ELSE [msg |-> m, left |-> Registered \ {x}]
           /\ call'[s] # None => call'[s].left \subseteq Registered
           /\ \A t \in Streams \ {s} : call'[t] = call[t]
BY DEF MessagesOK, StartBroadcast, Registered

\* Handler s moves on, the registry stays as it is and no other handler moves.
LEMMA HandlersGoOn ==
    ASSUME PeersInv, MessagesOK, HandlersInv, NEW s \in Streams, NEW a, NEW b \in Steps,
           Goes(s, a, b), UNCHANGED <<clients, phase>>, a \notin {"idle"}, b \notin {"idle"},
           b \in {"join", "announce", "loop"} => phase[s] = "open",
           b = "unregister" => phase[s] = "closing",
           b \in {"check", "remove", "farewell", "done"} => phase[s] = "closed",
           b \in {"list", "count"} => phase[s] \in {"open", "closed"},
           \A t \in Streams \ {s} : call'[t] = call[t],
           call'[s] # None => b \in {"list", "loop", "done"} /\ call'[s].left \subseteq Registered
    PROVE  HandlersInv'
<1>1. step'[s] = b /\ step[s] = a /\ \A t \in Streams \ {s} : step'[t] = step[t]
  BY DEF Goes, PeersInv, PeersTypeOK
<1>2. Registered' = Registered
  BY DEF Registered
<1>3. phase[s] # "new"
  BY <1>1 DEF HandlersInv
<1> QED
  BY <1>1, <1>2, <1>3 DEF HandlersInv

LEMMA HandlersStep ==
    PeersInv /\ MessagesOK /\ HandlersInv /\ [Next]_vars => HandlersInv'
<1> SUFFICES ASSUME PeersInv, MessagesOK, HandlersInv, [Next]_vars
             PROVE  HandlersInv'
  OBVIOUS
<1>1. ASSUME NEW s \in Streams, NEW c \in Clients, Register(s, c)
      PROVE  HandlersInv'
  <2>1. /\ step'[s] = "join" /\ phase'[s] = "open"
        /\ \A t \in Streams \ {s} : step'[t] = step[t] /\ phase'[t] = phase[t]
        /\ \A t \in Streams : call'[t] = None
    BY <1>1 DEF Register, Take, Goes, WriteLockFree, PeersInv, PeersTypeOK, RegistryTypeOK
  <2> QED
    BY <2>1 DEF HandlersInv
<1>2. ASSUME NEW s \in Streams, PeerJoin(s)
      PROVE  HandlersInv'
  <2>1. /\ Goes(s, "join", "announce") /\ UNCHANGED <<clients, phase>> /\ call' = call
        /\ phase[s] = "open" /\ call[s] = None /\ "announce" \in Steps
    BY <1>2 DEF PeerJoin, Goes, hub, HandlersInv, Steps
  <2> QED
    BY <2>1, HandlersGoOn
<1>3. ASSUME NEW s \in Streams, Announce(s)
      PROVE  HandlersInv'
  <2>1. /\ Goes(s, "announce", "list") /\ UNCHANGED <<clients, phase>>
        /\ phase[s] = "open" /\ "list" \in Steps
    BY <1>3 DEF Announce, Goes, hub, HandlersInv, Steps
  <2>2. /\ \A t \in Streams \ {s} : call'[t] = call[t]
        /\ call'[s] # None => call'[s].left \subseteq Registered
    <3>1. PICK m, x : StartBroadcast(s, m, x)
      BY Zenon, <1>3 DEF Announce
    <3> QED
      BY <3>1, StartedCall
  <2> QED
    BY <2>1, <2>2, HandlersGoOn
<1>4. ASSUME NEW s \in Streams, PeerList(s)
      PROVE  HandlersInv'
  <2>1. /\ Goes(s, "list", "count") /\ UNCHANGED <<clients, phase>> /\ call' = call
        /\ phase[s] \in {"open", "closed"} /\ call[s] = None /\ "count" \in Steps
    BY <1>4 DEF PeerList, Goes, hub, HandlersInv, Steps
  <2> QED
    BY <2>1, HandlersGoOn
<1>5. ASSUME NEW s \in Streams, BroadcastCount(s)
      PROVE  HandlersInv'
  <2>1. UNCHANGED <<clients, phase>> /\ phase[s] \in {"open", "closed"}
        /\ "loop" \in Steps /\ "done" \in Steps
    BY <1>5 DEF BroadcastCount, Goes, hub, HandlersInv, Steps
  <2>2. /\ \A t \in Streams \ {s} : call'[t] = call[t]
        /\ call'[s] # None => call'[s].left \subseteq Registered
    <3>1. PICK m, x : StartBroadcast(s, m, x)
      BY Zenon, <1>5 DEF BroadcastCount
    <3> QED
      BY <3>1, StartedCall
  <2>3. CASE phase[s] = "open"
    <3>1. Goes(s, "count", "loop")
      BY <1>5, <2>3 DEF BroadcastCount
    <3> QED
      BY <2>1, <2>2, <2>3, <3>1, HandlersGoOn
  <2>4. CASE phase[s] = "closed"
    <3>1. Goes(s, "count", "done")
      BY <1>5, <2>4 DEF BroadcastCount
    <3> QED
      BY <2>1, <2>2, <2>4, <3>1, HandlersGoOn
  <2> QED
    BY <2>1, <2>3, <2>4
<1>6. ASSUME NEW s \in Streams, NEW c \in Clients, BroadcastTo(s, c)
      PROVE  HandlersInv'
  <2>1. /\ UNCHANGED <<clients, phase, step>>
        /\ \A t \in Streams \ {s} : call'[t] = call[t]
        /\ call[s] # None
        /\ call'[s] # None => call'[s] = [msg |-> call[s].msg, left |-> call[s].left \ {c}]
    BY <1>6 DEF BroadcastTo, hub, MessagesOK
  <2>2. call'[s] # None => call'[s].left = call[s].left \ {c}
    BY <2>1
  <2>3. Registered' = Registered
    BY <2>1 DEF Registered
  <2> QED
    BY <2>1, <2>2, <2>3 DEF HandlersInv
<1>7. ASSUME NEW s \in Streams, Receive(s)
      PROVE  HandlersInv'
  <2>1. UNCHANGED <<clients, phase, step, call>> /\ Registered' = Registered
    BY <1>7 DEF Receive, hub, Registered
  <2> QED
    BY <2>1 DEF HandlersInv
<1>8. ASSUME NEW s \in Streams, Disconnect(s)
      PROVE  HandlersInv'
  <2>1. /\ step'[s] = "unregister" /\ phase'[s] = "closing" /\ call[s] = None
        /\ \A t \in Streams \ {s} : step'[t] = step[t] /\ phase'[t] = phase[t]
        /\ call' = call /\ clients' = clients
    BY <1>8 DEF Disconnect, Drop, Goes, PeersInv, PeersTypeOK, RegistryTypeOK
  <2>2. Registered' = Registered
    BY <2>1 DEF Registered
  <2> QED
    BY <2>1, <2>2 DEF HandlersInv
<1>9. ASSUME NEW s \in Streams, UnregisterIfCurrent(s)
      PROVE  HandlersInv'
  <2>1. /\ step'[s] = "check" /\ phase'[s] = "closed"
        /\ \A t \in Streams \ {s} : step'[t] = step[t] /\ phase'[t] = phase[t]
        /\ \A t \in Streams : call'[t] = None
    BY <1>9 DEF UnregisterIfCurrent, Leave, Goes, WriteLockFree, PeersInv, PeersTypeOK,
                RegistryTypeOK
  <2> QED
    BY <2>1 DEF HandlersInv
<1>10. ASSUME NEW s \in Streams, CheckRegistered(s)
       PROVE  HandlersInv'
  <2>1. /\ UNCHANGED <<clients, phase>> /\ call' = call
        /\ phase[s] = "closed" /\ call[s] = None /\ "done" \in Steps /\ "remove" \in Steps
        /\ Goes(s, "check", "done") \/ Goes(s, "check", "remove")
    BY <1>10 DEF CheckRegistered, Goes, hub, HandlersInv, Steps
  <2> QED
    BY <2>1, HandlersGoOn
<1>11. ASSUME NEW s \in Streams, Remove(s)
       PROVE  HandlersInv'
  <2>1. /\ Goes(s, "remove", "farewell") /\ UNCHANGED <<clients, phase>> /\ call' = call
        /\ phase[s] = "closed" /\ call[s] = None /\ "farewell" \in Steps
    BY <1>11 DEF Remove, Goes, hub, HandlersInv, Steps
  <2> QED
    BY <2>1, HandlersGoOn
<1>12. ASSUME NEW s \in Streams, Farewell(s)
       PROVE  HandlersInv'
  <2>1. /\ Goes(s, "farewell", "list") /\ UNCHANGED <<clients, phase>>
        /\ phase[s] = "closed" /\ "list" \in Steps
    BY <1>12 DEF Farewell, Goes, hub, HandlersInv, Steps
  <2>2. /\ \A t \in Streams \ {s} : call'[t] = call[t]
        /\ call'[s] # None => call'[s].left \subseteq Registered
    <3>1. PICK m, x : StartBroadcast(s, m, x)
      BY Zenon, <1>12 DEF Farewell
    <3> QED
      BY <3>1, StartedCall
  <2> QED
    BY <2>1, <2>2, HandlersGoOn
<1>13. CASE UNCHANGED vars
  <2>1. UNCHANGED <<clients, phase, step, call>> /\ Registered' = Registered
    BY <1>13 DEF vars, Registered
  <2> QED
    BY <2>1 DEF HandlersInv
<1> QED
  BY <1>1, <1>2, <1>3, <1>4, <1>5, <1>6, <1>7, <1>8, <1>9, <1>10, <1>11, <1>12, <1>13
     DEF Next, Handler

-------------------------------------------------------------------------------
(* Pages. *)

\* What every step starts from.
BeforeStep == OneBoard /\ PeersInv /\ MessagesOK /\ HandlersInv /\ PagesInv

\* A registration is a stream of its client, and no two clients share one.
LEMMA Holders ==
    ASSUME PeersInv
    PROVE  /\ \A c \in Registered : clients[c] \in Streams /\ client[clients[c]] = c
                                    /\ phase[clients[c]] \in {"open", "closing"}
           /\ \A c, d \in Registered : clients[c] = clients[d] => c = d
BY DEF PeersInv, PeersTypeOK, RegistryTypeOK, HolderIsLive, Registered

\* While handler s is at work, it is the only one.
LEMMA AtWork ==
    ASSUME PagesInv, calm, NEW s \in Streams, Busy(s)
    PROVE  Stage(s) /\ \A t \in Streams \ {s} : ~Busy(t)
BY DEF PagesInv

\* It is enough to look at the handler that moves.
LEMMA OneAtWork ==
    ASSUME NEW s \in Streams,
           \A t \in Streams \ {s} : ~Busy(t) /\ step'[t] = step[t] /\ call'[t] = call[t],
           Busy(s)' => Stage(s)', ~Busy(s)' => Agreed'
    PROVE  PagesInv'
<1>1. \A t \in Streams \ {s} : ~Busy(t)'
  BY DEF Busy
<1> QED
  BY <1>1 DEF PagesInv

\* A page whose channel and peers do not change is as up to date as it was.
LEMMA UpToDateKept ==
    ASSUME NEW c, clients'[c] = clients[c], chan'[clients[c]] = chan[clients[c]],
           shown'[c] = shown[c], Registered' = Registered, UpToDate(c)
    PROVE  UpToDate(c)'
BY DEF UpToDate, Count

LEMMA AgreedKept ==
    ASSUME Agreed, UNCHANGED <<clients, peers, chan, shown>>
    PROVE  Agreed'
<1>1. Registered' = Registered
  BY DEF Registered
<1> QED
  BY <1>1, UpToDateKept DEF Agreed, PeersAre

\* A handler that moves leaves the others where they are.
LEMMA OthersStay ==
    ASSUME PeersInv, NEW s \in Streams, NEW a, NEW b, Goes(s, a, b)
    PROVE  /\ step[s] = a /\ step'[s] = b /\ call[s] = None
           /\ \A t \in Streams \ {s} : step'[t] = step[t]
BY DEF Goes, PeersInv, PeersTypeOK

LEMMA PagesRegister ==
    ASSUME BeforeStep, NEW s \in Streams, NEW c \in Clients, Register(s, c), calm'
    PROVE  PagesInv'
<1> USE DEF BeforeStep
<1>1. /\ calm /\ \A t \in Streams \ {s} : ~Busy(t)
      /\ step[s] = "idle" /\ step'[s] = "join" /\ call[s] = None
      /\ \A t \in Streams \ {s} : step'[t] = step[t] /\ call'[t] = call[t]
  BY OthersStay DEF Register, StillCalm
<1>2. ~Busy(s)
  BY <1>1 DEF Busy
<1>3. Agreed
  BY <1>1, <1>2 DEF PagesInv
<1>4. Registered' = Registered \union {c} /\ client'[s] = c /\ peers' = peers
  BY DEF Registered, Register, Take, PeersInv, PeersTypeOK, RegistryTypeOK
<1>5. \A d \in Clients : peers'[DocOf[d]] \union {client'[s]} = Registered'
  BY <1>3, <1>4 DEF Agreed, PeersAre
<1>6. Busy(s)' /\ Stage(s)'
  BY <1>1, <1>4, <1>5 DEF Busy, Stage
<1> QED
  BY <1>1, <1>6, OneAtWork

LEMMA PagesJoin ==
    ASSUME BeforeStep, NEW s \in Streams, PeerJoin(s), calm'
    PROVE  PagesInv'
<1> USE DEF BeforeStep
<1>1. /\ calm /\ step[s] = "join" /\ step'[s] = "announce"
      /\ \A t \in Streams \ {s} : step'[t] = step[t]
      /\ UNCHANGED <<clients, client, call>>
  BY OthersStay DEF PeerJoin, hub
<1>2. Busy(s) /\ Busy(s)'
  BY <1>1 DEF Busy
<1>3. Stage(s) /\ \A t \in Streams \ {s} : ~Busy(t)
  BY <1>1, <1>2, AtWork
<1>4. client[s] \in Clients /\ \A c \in Clients : DocOf[c] = DocOf[client[s]]
  BY <1>1 DEF PeersInv, StepsFollowPhases, OneBoard
<1>5. \A c \in Clients : peers'[DocOf[c]] = peers[DocOf[c]] \union {client[s]}
  BY <1>4 DEF PeerJoin, Doc, PeersInv, PeersTypeOK
<1>6. PeersAre(Registered)'
  BY <1>1, <1>3, <1>5 DEF Stage, PeersAre, Registered
<1>7. Stage(s)'
  BY <1>1, <1>6 DEF Stage
<1> QED
  BY <1>1, <1>2, <1>3, <1>7, OneAtWork

\* The join or leave message, which the count that follows makes good.
LEMMA PagesAnnounce ==
    ASSUME BeforeStep, NEW s \in Streams, Announce(s) \/ Farewell(s), calm'
    PROVE  PagesInv'
<1> USE DEF BeforeStep
<1>1. /\ calm /\ step[s] \in {"announce", "farewell"} /\ step'[s] = "list"
      /\ \A t \in Streams \ {s} : step'[t] = step[t]
      /\ UNCHANGED <<clients, peers, client>>
  BY OthersStay DEF Announce, Farewell, hub
<1>2. Busy(s) /\ Busy(s)'
  BY <1>1 DEF Busy
<1>3. Stage(s) /\ \A t \in Streams \ {s} : ~Busy(t)
  BY <1>1, <1>2, AtWork
<1>4. \A t \in Streams \ {s} : call'[t] = call[t]
  <2>1. PICK m, x : StartBroadcast(s, m, x)
    BY Zenon DEF Announce, Farewell
  <2> QED
    BY <2>1, StartedCall
<1>5. PeersAre(Registered)'
  BY <1>1, <1>3 DEF Stage, PeersAre, Registered
<1>6. Stage(s)'
  BY <1>1, <1>5 DEF Stage
<1> QED
  BY <1>1, <1>2, <1>3, <1>4, <1>6, OneAtWork

LEMMA PagesList ==
    ASSUME BeforeStep, NEW s \in Streams, PeerList(s), calm'
    PROVE  PagesInv'
<1> USE DEF BeforeStep
<1>1. /\ calm /\ step[s] = "list" /\ step'[s] = "count"
      /\ \A t \in Streams \ {s} : step'[t] = step[t]
      /\ UNCHANGED <<clients, peers, client, call>>
  BY OthersStay DEF PeerList, hub
<1>2. Busy(s) /\ Busy(s)'
  BY <1>1 DEF Busy
<1>3. Stage(s) /\ \A t \in Streams \ {s} : ~Busy(t)
  BY <1>1, <1>2, AtWork
<1>4. client[s] \in Clients
  BY <1>1 DEF PeersInv, StepsFollowPhases
<1>5. PeersAre(Registered) /\ Registered' = Registered
  BY <1>1, <1>3 DEF Stage, Registered
<1>6. counted'[s] = Registered
  BY <1>4, <1>5 DEF PeerList, MessagesOK, Doc, PeersAre
<1>7. Stage(s)'
  BY <1>1, <1>5, <1>6 DEF Stage, PeersAre
<1> QED
  BY <1>1, <1>2, <1>3, <1>7, OneAtWork

\* The count goes to every registered page.
LEMMA PagesCount ==
    ASSUME BeforeStep, NEW s \in Streams, BroadcastCount(s), calm'
    PROVE  PagesInv'
<1> USE DEF BeforeStep
<1>1. /\ calm /\ step[s] = "count" /\ step'[s] \in {"loop", "done"}
      /\ \A t \in Streams \ {s} : step'[t] = step[t]
      /\ UNCHANGED <<clients, peers, client>>
  BY OthersStay DEF BroadcastCount, hub
<1>2. Busy(s)
  BY <1>1 DEF Busy
<1>3. Stage(s) /\ \A t \in Streams \ {s} : ~Busy(t)
  BY <1>1, <1>2, AtWork
<1>4. PeersAre(Registered) /\ counted[s] = Registered /\ Registered' = Registered
  BY <1>1, <1>3 DEF Stage, Registered
<1>5. PICK m : m = [type |-> "count", user |-> None, peers |-> counted[s]]
  OBVIOUS
<1>6. StartBroadcast(s, m, None)
  BY <1>5 DEF BroadcastCount
<1>7. /\ call'[s] = IF Registered \ {None} = {} THEN None
                    ELSE [msg |-> m, left |-> Registered \ {None}]
      /\ \A t \in Streams \ {s} : call'[t] = call[t]
  BY <1>6, StartedCall
<1>8. Registered \ {None} = Registered
  BY DEF Registered
<1>9. m = Count'
  BY <1>4, <1>5 DEF Count
<1>10. Busy(s)' => Stage(s)'
  <2> SUFFICES ASSUME Busy(s)' PROVE Stage(s)'
    OBVIOUS
  <2>1. call'[s] # None
    BY <1>1 DEF Busy
  <2>2. call'[s] = [msg |-> m, left |-> Registered]
    BY <1>7, <1>8, <2>1
  <2>3. call'[s].msg = Count' /\ call'[s].left = Registered'
    BY <1>4, <1>9, <2>2
  <2>4. PeersAre(Registered)'
    BY <1>1, <1>4 DEF PeersAre
  <2> QED
    BY <1>1, <2>3, <2>4 DEF Stage
<1>11. ~Busy(s)' => Agreed'
  <2> SUFFICES ASSUME ~Busy(s)' PROVE Agreed'
    OBVIOUS
  <2>1. call'[s] = None
    BY DEF Busy
  <2>2. Registered = {}
    <3> SUFFICES ASSUME Registered # {} PROVE FALSE
      OBVIOUS
    <3>1. call'[s] = [msg |-> m, left |-> Registered]
      BY <1>7, <1>8
    <3>2. m \in Messages /\ Registered \in SUBSET Clients
      BY <1>4, <1>5 DEF Messages, Registered
    <3>3. call'[s] \in Calls
      BY <3>1, <3>2 DEF Calls
    <3> QED
      BY <2>1, <3>3, CallAssumption
  <2> QED
    BY <1>1, <1>4, <2>2 DEF Agreed, PeersAre
<1> QED
  BY <1>1, <1>3, <1>7, <1>10, <1>11, OneAtWork

\* One turn of a broadcast.
LEMMA PagesBroadcast ==
    ASSUME BeforeStep, NEW s \in Streams, NEW c \in Clients, BroadcastTo(s, c), calm'
    PROVE  PagesInv'
<1> USE DEF BeforeStep
<1>1. /\ call[s] # None /\ c \in call[s].left
      /\ UNCHANGED <<clients, peers, client, step, shown>>
      /\ \A t \in Streams \ {s} : call'[t] = call[t]
      /\ call'[s] = IF call[s].left = {c} THEN None
                    ELSE [msg |-> call[s].msg, left |-> call[s].left \ {c}]
  BY DEF BroadcastTo, hub, MessagesOK
<1>2. calm /\ chan' = [chan EXCEPT ![clients[c]] = Append(@, call[s].msg)]
  BY DEF BroadcastTo
<1>3. Busy(s) /\ step[s] \in {"list", "loop", "done"} /\ c \in Registered
  BY <1>1 DEF Busy, HandlersInv
<1>4. Stage(s) /\ \A t \in Streams \ {s} : ~Busy(t)
  BY <1>2, <1>3, AtWork
<1>5. Registered' = Registered /\ PeersAre(Registered)'
  BY <1>1, <1>3, <1>4 DEF Registered, Stage, PeersAre
<1>6. CASE step[s] = "list"
  BY <1>1, <1>4, <1>5, <1>6, OneAtWork DEF Busy, Stage
<1>7. CASE step[s] \in {"loop", "done"}
  <2>1. call[s].msg = Count /\ \A d \in Registered : d \in call[s].left \/ UpToDate(d)
    BY <1>4, <1>7 DEF Stage
  <2>2. UpToDate(c)'
    <3>1. clients[c] \in Streams
      BY <1>3, Holders
    <3>2. chan[clients[c]] \in Seq(Named) /\ call[s].msg \in Named
      BY <1>1, <3>1 DEF MessagesOK, NamedCalls
    <3>3. chan'[clients[c]] = Append(chan[clients[c]], call[s].msg)
      BY <1>2, <3>1 DEF MessagesOK
    <3>4. chan'[clients[c]] # <<>> /\ chan'[clients[c]][Len(chan'[clients[c]])] = call[s].msg
      BY <3>2, <3>3
    <3>5. Count' = call[s].msg
      BY <1>5, <2>1 DEF Count
    <3> QED
      BY <1>1, <3>4, <3>5 DEF UpToDate
  <2>3. ASSUME NEW d \in Registered, UpToDate(d) PROVE UpToDate(d)'
    <3>1. CASE d = c
      BY <2>2, <3>1
    <3>2. CASE d # c
      <4>1. clients[d] # clients[c]
        BY <1>3, <3>2, Holders
      <4>2. chan'[clients[d]] = chan[clients[d]]
        BY <1>2, <2>3, <4>1, Holders DEF MessagesOK
      <4> QED
        BY <1>1, <1>5, <2>3, <4>2, UpToDateKept
    <3> QED
      BY <3>1, <3>2
  <2>4. CASE call[s].left = {c}
    <3>1. \A d \in Registered : UpToDate(d)'
      BY <2>1, <2>2, <2>3, <2>4
    <3>2. Agreed'
      BY <1>5, <3>1 DEF Agreed
    <3>3. ~Busy(s)'
      BY <1>1, <1>7, <2>4 DEF Busy
    <3> QED
      BY <1>1, <1>4, <3>2, <3>3, OneAtWork
  <2>5. CASE call[s].left # {c}
    <3>1. call'[s].msg = call[s].msg /\ call'[s].left = call[s].left \ {c}
      BY <1>1, <2>5
    <3>2. call'[s].msg = Count'
      BY <1>5, <2>1, <3>1 DEF Count
    <3>3. \A d \in Registered : d \in call'[s].left \/ UpToDate(d)'
      BY <2>1, <2>2, <2>3, <3>1
    <3>4. Stage(s)'
      BY <1>1, <1>5, <1>7, <3>2, <3>3 DEF Stage
    <3>5. call'[s] # None
      <4>1. call[s].msg \in Messages /\ call[s].left \in SUBSET Clients
        BY <1>1 DEF MessagesOK, NamedCalls, Named
      <4>2. call'[s] = [msg |-> call[s].msg, left |-> call[s].left \ {c}]
        BY <1>1, <2>5
      <4>3. call'[s] \in Calls
        BY <4>1, <4>2 DEF Calls
      <4> QED
        BY <4>3, CallAssumption
    <3>6. Busy(s)'
      BY <3>5 DEF Busy
    <3> QED
      BY <1>1, <1>4, <3>4, <3>6, OneAtWork
  <2> QED
    BY <2>4, <2>5
<1> QED
  BY <1>3, <1>6, <1>7

LEMMA EmptyHasNoLength == ASSUME NEW S, NEW q \in Seq(S) PROVE q = <<>> <=> Len(q) = 0
OBVIOUS

\* What is left of a channel keeps its last message.
LEMMA LastLeft ==
    ASSUME NEW S, NEW q \in Seq(S), q # <<>>
    PROVE  /\ Head(q) = q[1]
           /\ Len(q) = 1 => Tail(q) = <<>>
           /\ Len(q) # 1 => Tail(q) # <<>> /\ Tail(q)[Len(Tail(q))] = q[Len(q)]
<1>1. Len(q) \in Nat /\ Len(q) >= 1 /\ Len(Tail(q)) = Len(q) - 1 /\ Tail(q) \in Seq(S)
  OBVIOUS
<1>2. Tail(q) = <<>> <=> Len(Tail(q)) = 0
  BY <1>1, EmptyHasNoLength
<1>3. \A i \in 1..(Len(q) - 1) : Tail(q)[i] = q[i + 1]
  OBVIOUS
<1>4. ASSUME Len(q) # 1 PROVE Tail(q)[Len(Tail(q))] = q[Len(q)]
  <2>1. Len(q) - 1 \in 1..(Len(q) - 1) /\ (Len(q) - 1) + 1 = Len(q)
    BY <1>1, <1>4
  <2>2. Tail(q)[Len(q) - 1] = q[(Len(q) - 1) + 1]
    BY <1>3, <2>1
  <2> QED
    BY <1>1, <2>1, <2>2
<1>5. Head(q) = q[1]
  OBVIOUS
<1> QED
  BY <1>1, <1>2, <1>4, <1>5

\* A page takes the next message: the count that is last shows it the others.
LEMMA PagesReceive ==
    ASSUME BeforeStep, NEW s \in Streams, Receive(s), calm'
    PROVE  PagesInv'
<1> USE DEF BeforeStep
<1>1. /\ step[s] = "loop" /\ call[s] = None /\ chan[s] # <<>> /\ calm' = calm
      /\ chan' = [chan EXCEPT ![s] = Tail(@)]
      /\ UNCHANGED <<clients, peers, client, step, call, counted>>
  BY DEF Receive, hub
<1>2. Registered' = Registered /\ Count' = Count
  BY <1>1 DEF Registered, Count
<1>3. \A t \in Streams : Busy(t)' <=> Busy(t)
  BY <1>1 DEF Busy
<1>4. client[s] \in Clients
  BY <1>1 DEF PeersInv, StepsFollowPhases
<1>5. chan[s] \in Seq(Named) /\ chan'[s] = Tail(chan[s])
  BY <1>1 DEF MessagesOK
<1>6. ASSUME NEW c \in Registered, UpToDate(c) PROVE UpToDate(c)'
  <2>1. clients[c] \in Streams /\ client[clients[c]] = c /\ c \in Clients
    BY Holders DEF Registered
  <2>2. CASE clients[c] # s
    <3>1. chan'[clients[c]] = chan[clients[c]]
      BY <1>1, <2>1, <2>2 DEF MessagesOK
    <3>2. shown'[c] = shown[c]
      <4>1. CASE shown' = shown
        BY <4>1
      <4>2. CASE shown' # shown
        <5>1. /\ clients[client[s]] = s
              /\ shown' = [shown EXCEPT ![client[s]] = Show(client[s], Head(chan[s]))]
          BY <4>2 DEF Receive
        <5>2. client[s] # c
          BY <2>2, <5>1
        <5> QED
          BY <2>1, <5>1, <5>2 DEF MessagesOK
      <4> QED
        BY <4>1, <4>2
    <3> QED
      BY <1>1, <1>2, <1>6, <3>1, <3>2, UpToDateKept
  <2>3. CASE clients[c] = s
    <3>1. client[s] = c /\ clients[client[s]] = s
      BY <2>1, <2>3
    <3>2. /\ Len(chan[s]) \in Nat /\ Len(chan[s]) >= 1
          /\ chan[s][Len(chan[s])] = Count
      BY <1>1, <1>5, <1>6, <2>3 DEF UpToDate
    <3>3. CASE Len(chan[s]) = 1
      <4>1. Head(chan[s]) = Count /\ chan'[s] = <<>>
        BY Zenon, <1>1, <1>5, <3>2, <3>3, LastLeft
      <4>2. shown' = [shown EXCEPT ![c] = Show(c, Count)]
        BY <3>1, <4>1 DEF Receive
      <4>3. Show(c, Count) = Registered \ {c}
        BY <2>1 DEF Show, Count
      <4>4. shown'[c] = Registered' \ {c}
        BY <1>2, <2>1, <4>2, <4>3 DEF MessagesOK
      <4> QED
        BY <1>1, <2>3, <4>1, <4>4 DEF UpToDate
    <3>4. CASE Len(chan[s]) # 1
      <4>1. chan'[s] # <<>> /\ chan'[s][Len(chan'[s])] = chan[s][Len(chan[s])]
        BY Zenon, <1>1, <1>5, <3>4, LastLeft
      <4> QED
        BY <1>1, <1>2, <2>3, <3>2, <4>1 DEF UpToDate
    <3> QED
      BY <3>3, <3>4
  <2> QED
    BY <2>2, <2>3
<1>7. Agreed => Agreed'
  BY <1>1, <1>2, <1>6 DEF Agreed, PeersAre
<1>8. ASSUME NEW t \in Streams, Stage(t) PROVE Stage(t)'
  <2>1. PeersAre(Registered) => PeersAre(Registered)'
    BY <1>1, <1>2 DEF PeersAre
  <2> QED
    BY <1>1, <1>2, <1>6, <1>7, <1>8, <2>1 DEF Stage
<1> QED
  BY <1>1, <1>3, <1>7, <1>8 DEF PagesInv

LEMMA PagesDisconnect ==
    ASSUME BeforeStep, NEW s \in Streams, Disconnect(s), calm'
    PROVE  PagesInv'
<1> USE DEF BeforeStep
<1>1. /\ calm /\ \A t \in Streams \ {s} : ~Busy(t)
      /\ step[s] = "loop" /\ step'[s] = "unregister" /\ call[s] = None
      /\ \A t \in Streams \ {s} : step'[t] = step[t]
      /\ UNCHANGED <<clients, peers, client, call, chan, shown>>
  BY OthersStay DEF Disconnect, Drop, StillCalm
<1>2. ~Busy(s)
  BY <1>1 DEF Busy
<1>3. Agreed'
  BY <1>1, <1>2, AgreedKept DEF PagesInv
<1>4. Stage(s)'
  BY <1>1, <1>3 DEF Stage
<1> QED
  BY <1>1, <1>3, <1>4, OneAtWork

\* The end of a stream gives its registration back, or finds the client's next
\* stream in its place, and then no page need learn anything.
LEMMA PagesUnregister ==
    ASSUME BeforeStep, NEW s \in Streams, UnregisterIfCurrent(s), calm'
    PROVE  PagesInv'
<1> USE DEF BeforeStep
<1>1. /\ calm /\ step[s] = "unregister" /\ step'[s] = "check"
      /\ \A t \in Streams \ {s} : step'[t] = step[t]
      /\ UNCHANGED <<peers, client, call, shown>>
      /\ clients' = [c \in Clients |-> IF clients[c] = s THEN None ELSE clients[c]]
      /\ chan' = [chan EXCEPT ![s] = <<>>]
  BY OthersStay DEF UnregisterIfCurrent, Leave
<1>2. Busy(s) /\ Busy(s)'
  BY <1>1 DEF Busy
<1>3. Stage(s) /\ \A t \in Streams \ {s} : ~Busy(t)
  BY <1>1, <1>2, AtWork
<1>4. Agreed
  BY <1>1, <1>3 DEF Stage
<1>5. client[s] \in Clients
  BY <1>1 DEF PeersInv, StepsFollowPhases
<1>6. Registered' = IF clients[client[s]] = s THEN Registered \ {client[s]} ELSE Registered
  <2>1. \A c \in Clients : clients[c] = s => c = client[s]
    BY Holders DEF Registered
  <2> QED
    BY <1>1, <1>5, <2>1 DEF Registered
<1>7. ASSUME client[s] \in Registered' PROVE Agreed'
  <2>1. clients[client[s]] # s /\ Registered' = Registered
    BY <1>6, <1>7
  <2>2. \A c \in Registered : clients[c] \in Streams \ {s} /\ clients'[c] = clients[c]
    BY <1>1, <2>1, Holders DEF Registered
  <2>3. \A c \in Registered : chan'[clients[c]] = chan[clients[c]]
    BY <1>1, <2>2 DEF MessagesOK
  <2>4. \A c \in Registered : UpToDate(c)'
    BY <1>1, <1>4, <2>1, <2>2, <2>3, UpToDateKept DEF Agreed
  <2> QED
    BY <1>1, <1>4, <2>1, <2>4 DEF Agreed, PeersAre
<1>8. client[s] \notin Registered' =>
         \A c \in Clients : peers'[DocOf[c]] \ {client[s]} = Registered'
  BY <1>1, <1>4, <1>6 DEF Agreed, PeersAre
<1>9. Stage(s)'
  BY <1>1, <1>7, <1>8 DEF Stage
<1> QED
  BY <1>1, <1>2, <1>3, <1>9, OneAtWork

LEMMA PagesCheck ==
    ASSUME BeforeStep, NEW s \in Streams, CheckRegistered(s), calm'
    PROVE  PagesInv'
<1> USE DEF BeforeStep
<1>1. /\ calm /\ step[s] = "check"
      /\ step'[s] = IF clients[client[s]] # None THEN "done" ELSE "remove"
      /\ \A t \in Streams \ {s} : step'[t] = step[t]
      /\ call[s] = None
      /\ UNCHANGED <<clients, peers, client, call, chan, shown>>
  BY OthersStay DEF CheckRegistered, hub
<1>2. Busy(s)
  BY <1>1 DEF Busy
<1>3. Stage(s) /\ \A t \in Streams \ {s} : ~Busy(t)
  BY <1>1, <1>2, AtWork
<1>4. client[s] \in Clients
  BY <1>1 DEF PeersInv, StepsFollowPhases
<1>5. CASE client[s] \in Registered
  <2>1. step'[s] = "done" /\ ~Busy(s)'
    BY <1>1, <1>5 DEF Registered, Busy
  <2>2. Agreed'
    BY <1>1, <1>3, <1>5, AgreedKept DEF Stage
  <2> QED
    BY <1>1, <1>3, <2>1, <2>2, OneAtWork
<1>6. CASE client[s] \notin Registered
  <2>1. step'[s] = "remove" /\ Busy(s)' /\ Registered' = Registered
    BY <1>1, <1>4, <1>6 DEF Registered, Busy
  <2>2. Stage(s)'
    BY <1>1, <1>3, <1>6, <2>1 DEF Stage
  <2> QED
    BY <1>1, <1>3, <2>1, <2>2, OneAtWork
<1> QED
  BY <1>5, <1>6

LEMMA PagesRemove ==
    ASSUME BeforeStep, NEW s \in Streams, Remove(s), calm'
    PROVE  PagesInv'
<1> USE DEF BeforeStep
<1>1. /\ calm /\ step[s] = "remove" /\ step'[s] = "farewell"
      /\ \A t \in Streams \ {s} : step'[t] = step[t]
      /\ UNCHANGED <<clients, client, call>>
  BY OthersStay DEF Remove, hub
<1>2. Busy(s) /\ Busy(s)'
  BY <1>1 DEF Busy
<1>3. Stage(s) /\ \A t \in Streams \ {s} : ~Busy(t)
  BY <1>1, <1>2, AtWork
<1>4. client[s] \in Clients /\ \A c \in Clients : DocOf[c] = DocOf[client[s]]
  BY <1>1 DEF PeersInv, StepsFollowPhases, OneBoard
<1>5. \A c \in Clients : peers'[DocOf[c]] = peers[DocOf[c]] \ {client[s]}
  BY <1>4 DEF Remove, Doc, PeersInv, PeersTypeOK
<1>6. PeersAre(Registered)'
  BY <1>1, <1>3, <1>5 DEF Stage, PeersAre, Registered
<1>7. Stage(s)'
  BY <1>1, <1>6 DEF Stage
<1> QED
  BY <1>1, <1>2, <1>3, <1>7, OneAtWork

LEMMA PagesStep == BeforeStep /\ [Next]_vars => PagesInv'
<1> SUFFICES ASSUME BeforeStep, [Next]_vars, calm' PROVE PagesInv'
  BY DEF PagesInv
<1>1. CASE UNCHANGED vars
  BY <1>1 DEF vars, BeforeStep, PagesInv, Stage, Agreed, PeersAre, UpToDate, Count,
              Registered, Busy
<1> QED
  BY <1>1, PagesRegister, PagesJoin, PagesAnnounce, PagesList, PagesCount, PagesBroadcast,
     PagesReceive, PagesDisconnect, PagesUnregister, PagesCheck, PagesRemove
     DEF Next, Handler

LEMMA PagesInitially == Init => PagesInv
<1> SUFFICES ASSUME Init PROVE PagesInv
  OBVIOUS
<1>1. Registered = {} /\ \A s \in Streams : ~Busy(s)
  BY DEF Init, RegistryInit, Registered, Busy
<1>2. Agreed
  BY <1>1 DEF Init, Agreed, PeersAre
<1> QED
  BY <1>1, <1>2 DEF PagesInv

\* When the server serves one board, and handlers start and end one at a time
\* without overflowing a channel, every page that is connected shows exactly
\* the other connected pages once the channels are read: for any number of
\* pages, of reconnects and of streams that outlive the next one of their page.
THEOREM PagesAgree == OneBoard /\ Spec => []CalmPagesAgree
<1> SUFFICES ASSUME OneBoard PROVE Spec => []CalmPagesAgree
  OBVIOUS
<1>1. PeersInv /\ MessagesOK /\ HandlersInv /\ PagesInv => CalmPagesAgree
  <2> SUFFICES ASSUME PeersInv, MessagesOK, HandlersInv, PagesInv, calm, Quiet,
                      NEW c \in Clients, clients[c] # None
               PROVE  shown[c] = Online(DocOf[c]) \ {c}
    BY DEF CalmPagesAgree
  <2>1. \A s \in Streams : ~Busy(s)
    BY DEF Quiet
  <2>2. c \in Registered /\ UpToDate(c)
    BY <2>1 DEF PagesInv, Agreed, Registered
  <2>3. clients[c] \in Streams /\ client[clients[c]] = c
        /\ phase[clients[c]] \in {"open", "closing"}
    BY <2>2, Holders
  <2>4. step[clients[c]] = "loop"
    <3>1. step[clients[c]] \in {"idle", "loop", "done"}
      BY <2>1, <2>3 DEF Busy
    <3> QED
      BY <2>3, <3>1 DEF HandlersInv
  <2>5. chan[clients[c]] = <<>>
    BY <2>3, <2>4 DEF Quiet
  <2>6. shown[c] = Registered \ {c}
    BY <2>2, <2>5 DEF UpToDate
  <2>7. Registered = Online(DocOf[c])
    BY DEF Registered, Online, OneBoard
  <2> QED
    BY <2>6, <2>7
<1>2. (PeersInv /\ MessagesOK /\ HandlersInv /\ PagesInv) /\ [Next]_vars
        => (PeersInv /\ MessagesOK /\ HandlersInv /\ PagesInv)'
  BY PeersStep, MessagesStep, HandlersStep, PagesStep DEF BeforeStep
<1> QED
  BY <1>1, <1>2, PeersInitially, MessagesInitially, HandlersInitially, PagesInitially, PTL
     DEF Spec
===============================================================================
