---------------------------- MODULE SSEHub_proofs ----------------------------
(***************************************************************************)
(* What holds of SSEHub for every set of clients, streams, users and       *)
(* producers and every capacity.                                           *)
(***************************************************************************)
EXTENDS SSEHub, SequenceTheorems, FiniteSetTheorems, TLAPS

USE HubAssumption

LEMMA AppendType ==
    ASSUME NEW S, NEW q \in Seq(S), NEW e \in S
    PROVE  /\ Append(q, e) \in Seq(S)
           /\ Len(Append(q, e)) = Len(q) + 1
  BY AppendProperties

LEMMA TailType ==
    ASSUME NEW S, NEW q \in Seq(S), q # <<>>
    PROVE  /\ Tail(q) \in Seq(S)
           /\ Len(Tail(q)) = Len(q) - 1
           /\ Head(q) \in S
  BY HeadTailProperties

\* The ring never grows beyond its length.
LEMMA RingPushType ==
    ASSUME NEW q \in Seq(Events), Len(q) <= MaxBuffer, MaxBuffer # 0, NEW ev \in Events
    PROVE  /\ RingPush(q, ev) \in Seq(Events)
           /\ Len(RingPush(q, ev)) <= MaxBuffer
<1>1. CASE Len(q) >= MaxBuffer
  <2>1. q # <<>>
    BY <1>1
  <2>2. /\ Tail(q) \in Seq(Events)
        /\ Len(Tail(q)) = Len(q) - 1
    BY <2>1, TailType
  <2>. QED
    BY <1>1, <2>2, AppendType DEF RingPush
<1>2. CASE ~(Len(q) >= MaxBuffer)
  BY <1>2, AppendType DEF RingPush
<1>. QED
  BY <1>1, <1>2

\* A replay fits into the channel.
LEMMA ReplayType ==
    ASSUME NEW q \in Seq(Events)
    PROVE  /\ Replay(q) \in Seq(Events)
           /\ Len(Replay(q)) <= QueueCap
           /\ \A i \in 1..Len(Replay(q)) : i \in 1..Len(q) /\ Replay(q)[i] = q[i]
<1> DEFINE n == IF Len(q) <= QueueCap THEN Len(q) ELSE QueueCap
<1>1. n \in 0..Len(q) /\ n <= QueueCap
  BY LenProperties
<1>2. /\ SubSeq(q, 1, n) \in Seq(Events)
      /\ Len(SubSeq(q, 1, n)) = n
      /\ \A i \in 1..n : SubSeq(q, 1, n)[i] = q[i]
  <2>1. \A i \in 1..n : q[i] \in Events
    BY <1>1, ElementOfSeq
  <2>. QED
    BY <1>1, <2>1, SubSeqProperties
<1>. QED
  BY <1>1, <1>2 DEF Replay

\* The bounds of the two kinds of queue.
ChanOK(q) == q \in [Streams -> Seq(Events)] /\ \A s \in Streams : Len(q[s]) <= QueueCap
RingOK(b) == b \in [Clients -> Seq(Events)] /\ \A c \in Clients : Len(b[c]) <= MaxBuffer

LEMMA QueuesOK == TypeOK => ChanOK(chan) /\ RingOK(buffer)
  BY DEF TypeOK, ChanOK, RingOK

\* A ring emptied, or pushed to, is still a ring.
LEMMA RingUpdate ==
    ASSUME TypeOK, NEW c, NEW q \in Seq(Events), Len(q) <= MaxBuffer
    PROVE  RingOK([buffer EXCEPT ![c] = q])
  BY DEF TypeOK, RingOK

\* What a call's record holds, by the place the call is suspended at.
LEMMA CallType ==
    ASSUME TypeOK, NEW p \in Producers
    PROVE  /\ call[p].pc \in {"idle", "offer", "wait", "buffer", "iterate"}
           /\ call[p].pc # "idle" => call[p].ev \in Events
           /\ call[p].pc \in {"offer", "wait"} => call[p].ch \in Streams
           /\ call[p].pc = "iterate" => call[p].left \in SUBSET Clients
  BY DEF TypeOK, Calls, Idle

\* Every value a call can be given is a call.
LEMMA CallIn ==
    /\ Idle \in Calls
    /\ \A e \in Events, s \in Streams :
          /\ [pc |-> "offer", ev |-> e, ch |-> s] \in Calls
          /\ [pc |-> "wait", ev |-> e, ch |-> s] \in Calls
    /\ \A e \in Events : [pc |-> "buffer", ev |-> e] \in Calls
    /\ \A e \in Events, L \in SUBSET Clients :
          [pc |-> "iterate", ev |-> e, left |-> L] \in Calls
  BY DEF Calls, Idle

\* The event a call issues is an event.
LEMMA EventIn ==
    ASSUME TypeOK, issued < MaxEvents, NEW p \in Producers, NEW t \in Targets,
           NEW o \in UserIDs \union {None}, NEW x \in Targets
    PROVE  [id |-> issued + 1, by |-> p, to |-> t, owner |-> o, except |-> x] \in Events
  BY DEF TypeOK, Events

\* Appending to one channel that has room keeps every channel within its bounds.
LEMMA ChanAppend ==
    ASSUME TypeOK, NEW s \in Streams, HasRoom(s), NEW e \in Events
    PROVE  ChanOK([chan EXCEPT ![s] = Append(chan[s], e)])
<1>1. /\ Append(chan[s], e) \in Seq(Events)
      /\ Len(Append(chan[s], e)) = Len(chan[s]) + 1
      /\ Len(chan[s]) \in Nat
  BY AppendType, LenProperties DEF TypeOK
<1>2. Len(chan[s]) + 1 <= QueueCap
  BY <1>1 DEF HasRoom
<1>. QED
  BY <1>1, <1>2 DEF TypeOK, ChanOK

\* Types are preserved by every step.
LEMMA TypeStep == TypeOK /\ [Next]_vars => TypeOK'
<1> SUFFICES ASSUME TypeOK, [Next]_vars
             PROVE  TypeOK'
  OBVIOUS
<1>1. ASSUME NEW s \in Streams, NEW c \in Clients, NEW u \in UserIDs, Register(s, c, u)
      PROVE  TypeOK'
  <2>1. /\ Replay(buffer[c]) \in Seq(Events)
        /\ Len(Replay(buffer[c])) <= QueueCap
    BY ReplayType DEF TypeOK
  <2>2. <<>> \in Seq(Events) /\ Len(<<>>) <= MaxBuffer /\ Len(<<>>) <= QueueCap
    BY EmptySeq
  <2>3. RingOK(buffer')
    BY <1>1, <2>2, RingUpdate DEF Register, Attach
  <2>4. ChanOK(chan')
    BY <1>1, <2>1 DEF TypeOK, Register, Attach, ChanOK
  <2>. QED
    BY <1>1, <2>3, <2>4 DEF TypeOK, Register, Attach, Phases, Targets, ChanOK, RingOK
<1>2. ASSUME NEW s \in Streams, Receive(s)
      PROVE  TypeOK'
  <2>1. /\ Tail(chan[s]) \in Seq(Events)
        /\ Len(Tail(chan[s])) = Len(chan[s]) - 1
        /\ Head(chan[s]) \in Events
        /\ Len(chan[s]) \in Nat
    BY <1>2, TailType, LenProperties DEF TypeOK, Receive
  <2>2. Append(delivered[s], Head(chan[s])) \in Seq(Events)
    BY <2>1, AppendType DEF TypeOK
  <2>. QED
    BY <1>2, <2>1, <2>2 DEF TypeOK, Receive, hubVars, streamVars
<1>3. ASSUME NEW s \in Streams, Disconnect(s)
      PROVE  TypeOK'
  BY <1>3 DEF TypeOK, Disconnect, hubVars, Phases
<1>4. ASSUME NEW s \in Streams, UnregisterIfCurrent(s)
      PROVE  TypeOK'
  <2>1. <<>> \in Seq(Events) /\ Len(<<>>) <= MaxBuffer /\ Len(<<>>) <= QueueCap
    BY EmptySeq
  <2>2. CASE clients[client[s]] = s
    <3>1. buffer' = [buffer EXCEPT ![client[s]] = <<>>]
      BY <1>4, <2>2 DEF UnregisterIfCurrent
    <3>2. RingOK(buffer')
      BY <2>1, <3>1, RingUpdate
    <3>. QED
      BY <1>4, <2>2, <3>2 DEF TypeOK, UnregisterIfCurrent, Phases, RingOK
  <2>3. CASE clients[client[s]] # s
    BY <1>4, <2>3 DEF TypeOK, UnregisterIfCurrent, hubVars, Phases
  <2>. QED
    BY <2>2, <2>3
<1>5. ASSUME NEW p \in Producers, NEW c \in Clients, Send(p, c) \/ SendBlocking(p, c)
      PROVE  TypeOK'
  <2>1. Directed(p, c) \in Events
    BY <1>5, EventIn DEF Directed, Send, SendBlocking, Issue, Targets
  <2>2. clients[c] # None => clients[c] \in Streams
    BY DEF TypeOK
  <2>3. \E k \in Calls : call' = [call EXCEPT ![p] = k]
    BY <1>5, <2>1, <2>2, CallIn DEF Send, SendBlocking
  <2>4. call' \in [Producers -> Calls]
    BY <2>3 DEF TypeOK
  <2>. QED
    BY <1>5, <2>4 DEF TypeOK, Send, SendBlocking, Issue, hubVars, streamVars
<1>6. ASSUME NEW p \in Producers, NEW o \in UserIDs \union {None}, NEW x \in Targets,
             StartBroadcast(p, [id |-> issued + 1, by |-> p, to |-> None,
                                owner |-> o, except |-> x])
      PROVE  TypeOK'
  <2> DEFINE ev == [id |-> issued + 1, by |-> p, to |-> None, owner |-> o, except |-> x]
  <2>1. ev \in Events
    BY <1>6, EventIn DEF StartBroadcast, Issue, Targets
  <2>2. Addressed(ev) \in SUBSET Clients
    BY DEF Addressed
  <2>3. call' \in [Producers -> Calls]
    BY <1>6, <2>1, <2>2, CallIn DEF TypeOK, StartBroadcast
  <2>. QED
    BY <1>6, <2>3 DEF TypeOK, StartBroadcast, Issue, hubVars, streamVars
<1>7. ASSUME NEW p \in Producers, Offer(p)
      PROVE  TypeOK'
  <2>1. call[p].ev \in Events /\ call[p].ch \in Streams
    BY <1>7, CallType DEF Offer
  <2>2. ChanOK(chan')
    BY <1>7, <2>1, ChanAppend, QueuesOK DEF Offer
  <2>3. \E k \in Calls : call' = [call EXCEPT ![p] = k]
    BY <1>7, <2>1, CallIn DEF Offer
  <2>4. call' \in [Producers -> Calls]
    BY <2>3 DEF TypeOK
  <2>. QED
    BY <1>7, <2>2, <2>4 DEF TypeOK, Offer, hubVars, streamVars, ChanOK
<1>8. ASSUME NEW p \in Producers, BufferEvent(p)
      PROVE  TypeOK'
  <2>1. call[p].ev \in Events
    BY <1>8, CallType DEF BufferEvent
  <2> DEFINE q(c) == RingPush(buffer[c], call[p].ev)
  <2>2. ASSUME MaxBuffer # 0, NEW c
        PROVE  RingOK([buffer EXCEPT ![c] = q(c)])
    <3>1. CASE c \in Clients
      BY <2>1, <2>2, <3>1, RingPushType, RingUpdate DEF TypeOK
    <3>2. CASE c \notin Clients
      BY <3>2, QueuesOK DEF TypeOK, RingOK
    <3>. QED
      BY <3>1, <3>2
  <2>3. RingOK(buffer')
    BY <1>8, <2>2, RingUpdate, QueuesOK DEF BufferEvent
  <2>4. call' \in [Producers -> Calls]
    BY <1>8, CallIn DEF TypeOK, BufferEvent
  <2>. QED
    BY <1>8, <2>3, <2>4 DEF TypeOK, BufferEvent, streamVars, RingOK
<1>9. ASSUME NEW p \in Producers, Accept(p) \/ Cancel(p)
      PROVE  TypeOK'
  <2>1. call[p].ev \in Events /\ call[p].ch \in Streams
    BY <1>9, CallType DEF Accept, Cancel
  <2>2. ChanOK(chan')
    BY <1>9, <2>1, ChanAppend, QueuesOK DEF Accept, Cancel
  <2>3. call' \in [Producers -> Calls]
    BY <1>9, CallIn DEF TypeOK, Accept, Cancel
  <2>. QED
    BY <1>9, <2>2, <2>3 DEF TypeOK, Accept, Cancel, hubVars, streamVars, ChanOK
<1>10. ASSUME NEW p \in Producers, NEW c \in Clients, BroadcastTo(p, c)
       PROVE  TypeOK'
  <2>1. call[p].ev \in Events /\ call[p].left \in SUBSET Clients
    BY <1>10, CallType DEF BroadcastTo
  <2>2. CASE HasRoom(clients[c]) /\ clients[c] \in Streams
    <3>1. ChanOK(chan')
      BY <1>10, <2>1, <2>2, ChanAppend DEF BroadcastTo
    <3>2. call' \in [Producers -> Calls]
      BY <1>10, <2>1, CallIn DEF TypeOK, BroadcastTo
    <3>. QED
      BY <1>10, <3>1, <3>2 DEF TypeOK, BroadcastTo, hubVars, streamVars, ChanOK
  <2>3. CASE ~(HasRoom(clients[c]) /\ clients[c] \in Streams)
    <3>1. chan' = chan
      BY <1>10, <2>3 DEF TypeOK, BroadcastTo
    <3>2. call' \in [Producers -> Calls]
      BY <1>10, <2>1, CallIn DEF TypeOK, BroadcastTo
    <3>. QED
      BY <1>10, <3>1, <3>2 DEF TypeOK, BroadcastTo, hubVars, streamVars
  <2>. QED
    BY <2>2, <2>3
<1>11. CASE UNCHANGED vars
  BY <1>11 DEF TypeOK, vars, hubVars, streamVars
<1>12. ASSUME NEW p \in Producers, Begin(p)
       PROVE  TypeOK'
  BY <1>5, <1>6, <1>12 DEF Begin, Broadcast, BroadcastExcept, BroadcastToUser, Targets
<1>. QED
  BY <1>1, <1>2, <1>3, <1>4, <1>7, <1>8, <1>9, <1>10, <1>11, <1>12
     DEF Next, ProducerNext, StreamNext, Continue

\* Everything has its type and the bounded queues stay within their bounds:
\* bufferEvent's ring never exceeds maxBuffer, whatever is sent.
THEOREM TypeCorrect == Spec => []TypeOK
<1>1. Init => TypeOK
  <2>. SUFFICES ASSUME Init PROVE TypeOK
    OBVIOUS
  <2>1. <<>> \in Seq(Events) /\ Len(<<>>) <= MaxBuffer /\ Len(<<>>) <= QueueCap
    BY EmptySeq
  <2>. QED
    BY <2>1, CallIn DEF Init, TypeOK, Phases, Targets
<1>. QED
  BY <1>1, TypeStep, PTL DEF Spec

-------------------------------------------------------------------------------
(* Registrations. *)

\* A stream that was never opened is blank, an opened one has a client and a
\* user, and what is registered under a client is a stream of that client
\* which has not been cleaned up, with the user it registered.
HubInv ==
    /\ \A s \in Streams :
          IF phase[s] = "new"
          THEN client[s] = None /\ chan[s] = <<>> /\ delivered[s] = <<>>
          ELSE client[s] \in Clients /\ user[s] \in UserIDs
    /\ \A c \in Clients :
          clients[c] # None =>
             /\ phase[clients[c]] \in {"open", "closing"}
             /\ client[clients[c]] = c
             /\ user[clients[c]] = userOf[c]

\* No producer touches a stream that was never opened.
CallInv ==
    \A p \in Producers :
        call[p].pc \in {"offer", "wait"} =>
            phase[call[p].ch] # "new" /\ client[call[p].ch] = call[p].ev.to

\* What a channel append leaves alone: channels of blank streams.
LEMMA HubStep == TypeOK /\ HubInv /\ CallInv /\ [Next]_vars => HubInv' /\ CallInv'
<1> SUFFICES ASSUME TypeOK, HubInv, CallInv, [Next]_vars
             PROVE  HubInv' /\ CallInv'
  OBVIOUS
<1> USE DEF HubInv, CallInv
<1>1. ASSUME NEW s \in Streams, NEW c \in Clients, NEW u \in UserIDs, Register(s, c, u)
      PROVE  HubInv' /\ CallInv'
  BY <1>1, CallType DEF TypeOK, Register, Attach, UserIDs
<1>2. ASSUME NEW s \in Streams, Receive(s)
      PROVE  HubInv' /\ CallInv'
  BY <1>2 DEF TypeOK, Receive, hubVars, streamVars
<1>3. ASSUME NEW s \in Streams, Disconnect(s)
      PROVE  HubInv' /\ CallInv'
  BY <1>3, CallType DEF TypeOK, Disconnect, hubVars
<1>4. ASSUME NEW s \in Streams, UnregisterIfCurrent(s)
      PROVE  HubInv' /\ CallInv'
  <2>1. client[s] \in Clients
    BY <1>4 DEF UnregisterIfCurrent
  <2>2. CASE clients[client[s]] = s
    <3>1. \A d \in Clients : clients'[d] # None => clients'[d] = clients[d] /\ userOf'[d] = userOf[d] /\ clients[d] # s
      BY <1>4, <2>1, <2>2 DEF UnregisterIfCurrent, TypeOK
    <3>. QED
      BY <1>4, <3>1, CallType DEF UnregisterIfCurrent, TypeOK
  <2>3. CASE clients[client[s]] # s
    <3>1. ASSUME NEW d \in Clients, clients[d] = s
          PROVE  FALSE
      <4>1. client[s] = d
        BY <3>1
      <4>. QED
        BY <2>3, <3>1, <4>1
    <3>. QED
      BY <1>4, <2>3, <3>1, CallType DEF UnregisterIfCurrent, TypeOK, hubVars
  <2>. QED
    BY <2>2, <2>3
<1>5. ASSUME NEW p \in Producers, Begin(p)
      PROVE  HubInv' /\ CallInv'
  <2>1. UNCHANGED <<hubVars, chan, streamVars, delivered>>
    BY <1>5 DEF Begin, Send, SendBlocking, Broadcast, BroadcastExcept, BroadcastToUser,
                StartBroadcast, Issue
  <2>2. HubInv'
    BY <2>1 DEF hubVars, streamVars
  <2>3. \A q \in Producers : q # p => call'[q] = call[q]
    <3>1. \E k : call' = [call EXCEPT ![p] = k]
      BY <1>5, Zenon DEF Begin, Send, SendBlocking, Broadcast, BroadcastExcept,
                         BroadcastToUser, StartBroadcast
    <3>. QED
      BY <3>1 DEF TypeOK
  <2>4. ASSUME NEW c \in Clients, Send(p, c) \/ SendBlocking(p, c),
               call'[p].pc \in {"offer", "wait"}
        PROVE  /\ call'[p].ev.to = c
               /\ call'[p].ch = clients[c]
               /\ clients[c] # None
    BY <2>4 DEF TypeOK, Send, SendBlocking, Directed
  <2>5. ASSUME ~\E c \in Clients : Send(p, c) \/ SendBlocking(p, c)
        PROVE  call'[p].pc \notin {"offer", "wait"}
    <3>1. \E ev : StartBroadcast(p, ev)
      BY <1>5, <2>5 DEF Begin, Broadcast, BroadcastExcept, BroadcastToUser
    <3>2. PICK ev : StartBroadcast(p, ev)
      BY <3>1
    <3>3. CASE Addressed(ev) = {}
      BY <3>2, <3>3 DEF TypeOK, StartBroadcast, Idle
    <3>4. CASE Addressed(ev) # {}
      BY <3>2, <3>4 DEF TypeOK, StartBroadcast
    <3>. QED
      BY <3>3, <3>4
  <2>6. call'[p].pc \in {"offer", "wait"} =>
            phase[call'[p].ch] # "new" /\ client[call'[p].ch] = call'[p].ev.to
    BY <2>4, <2>5
  <2>7. CallInv'
    BY <2>1, <2>3, <2>6 DEF streamVars
  <2>. QED
    BY <2>2, <2>7
<1>6. ASSUME NEW p \in Producers, NEW c \in Clients, BroadcastTo(p, c)
      PROVE  HubInv' /\ CallInv'
  <2>1. UNCHANGED <<clients, userOf, streamVars, delivered>>
    BY <1>6 DEF BroadcastTo, hubVars
  <2>2. ASSUME NEW s \in Streams, phase[s] = "new"
        PROVE  chan'[s] = chan[s]
    <3>1. clients[c] # s
      BY <2>2
    <3>. QED
      BY <1>6, <2>2, <3>1 DEF TypeOK, BroadcastTo
  <2>3. HubInv'
    BY <2>1, <2>2 DEF streamVars, TypeOK
  <2>4. /\ \A q \in Producers : q # p => call'[q] = call[q]
        /\ call'[p].pc \notin {"offer", "wait"}
    BY <1>6 DEF TypeOK, BroadcastTo, Idle
  <2>5. CallInv'
    BY <2>1, <2>4 DEF streamVars
  <2>. QED
    BY <2>3, <2>5
<1>7. CASE UNCHANGED vars
  BY <1>7 DEF vars, hubVars, streamVars
<1>8. ASSUME NEW p \in Producers, Offer(p) \/ BufferEvent(p) \/ Accept(p) \/ Cancel(p)
      PROVE  HubInv' /\ CallInv'
  <2>1. UNCHANGED <<clients, userOf, streamVars, delivered>>
    BY <1>8 DEF Offer, BufferEvent, Accept, Cancel, hubVars
  <2>2. \A s \in Streams : phase[s] = "new" => chan'[s] = chan[s]
    BY <1>8 DEF TypeOK, Offer, BufferEvent, Accept, Cancel
  <2>3. HubInv'
    BY <2>1, <2>2 DEF streamVars, TypeOK
  <2>4. /\ \A q \in Producers : q # p => call'[q] = call[q]
        /\ call'[p].pc \notin {"offer", "wait"}
    BY <1>8 DEF TypeOK, Offer, BufferEvent, Accept, Cancel, Idle
  <2>5. CallInv'
    BY <2>1, <2>4 DEF streamVars
  <2>. QED
    BY <2>3, <2>5
<1>. QED
  BY <1>1, <1>2, <1>3, <1>4, <1>5, <1>6, <1>7, <1>8 DEF Next, ProducerNext, StreamNext, Continue

\* The three together, for every reachable state.
LEMMA HubCorrect == Spec => [](TypeOK /\ HubInv /\ CallInv)
<1>1. Init => HubInv /\ CallInv
  BY DEF Init, HubInv, CallInv, Idle
<1>. QED
  BY <1>1, HubStep, TypeCorrect, PTL DEF Spec

\* UnregisterIfCurrent of an earlier stream never leaves a client with a live
\* stream unregistered.
THEOREM ReconnectIsSafe == Spec => LiveClientStaysRegistered
<1>1. ASSUME TypeOK, [Next]_vars, NEW c \in Clients,
             clients[c] # None, phase[clients[c]] = "open"
      PROVE  clients'[c] # None
  <2>1. ASSUME NEW s \in Streams, UnregisterIfCurrent(s)
        PROVE  clients'[c] # None
    BY <1>1, <2>1 DEF TypeOK, UnregisterIfCurrent, hubVars
  <2>2. ASSUME NEW s \in Streams, NEW d \in Clients, NEW u \in UserIDs, Register(s, d, u)
        PROVE  clients'[c] # None
    BY <1>1, <2>2 DEF TypeOK, Register, Attach
  <2>3. ASSUME NEW s \in Streams, Receive(s) \/ Disconnect(s)
        PROVE  clients'[c] # None
    BY <1>1, <2>3 DEF Receive, Disconnect, hubVars
  <2>4. ASSUME NEW p \in Producers, ProducerNext(p)
        PROVE  clients'[c] # None
    BY <1>1, <2>4 DEF ProducerNext, Begin, Continue, Send, SendBlocking, Broadcast,
                      BroadcastExcept, BroadcastToUser, StartBroadcast, Issue, Offer,
                      BufferEvent, Accept, Cancel, BroadcastTo, hubVars
  <2>5. CASE UNCHANGED vars
    BY <1>1, <2>5 DEF vars
  <2>. QED
    BY <1>1, <2>1, <2>2, <2>3, <2>4, <2>5 DEF Next, StreamNext
<1>2. TypeOK /\ [Next]_vars =>
        [\A c \in Clients :
            (clients[c] # None /\ phase[clients[c]] = "open") => clients'[c] # None]_vars
  BY <1>1
<1>. QED
  BY <1>2, TypeCorrect, PTL DEF Spec, LiveClientStaysRegistered

\* The hub implements the abstract registry: its maps and its conditional
\* cleanup amount to one slot per client that only its holder empties.
THEOREM ImplementsRegistry == Spec => RegistrySpec
<1>1. Init => R!RegistryInit
  BY DEF Init, R!RegistryInit
<1>2. ASSUME TypeOK, HubInv, [Next]_vars
      PROVE  [R!RegistryNext]_<<clients, phase>>
  <2>1. ASSUME NEW s \in Streams, NEW c \in Clients, NEW u \in UserIDs, Register(s, c, u)
        PROVE  R!Take(s, c)
    BY <2>1 DEF Register, Attach, R!Take
  <2>2. ASSUME NEW s \in Streams, Disconnect(s)
        PROVE  R!Drop(s)
    BY <2>2 DEF Disconnect, hubVars, R!Drop
  <2>3. ASSUME NEW s \in Streams, UnregisterIfCurrent(s)
        PROVE  R!Leave(s)
    <3>1. client[s] \in Clients
      BY <1>2, <2>3 DEF UnregisterIfCurrent, HubInv
    <3>2. \A c \in Clients : clients[c] = s => c = client[s]
      BY <1>2, HubAssumption DEF HubInv
    <3>3. clients' = [c \in Clients |-> IF clients[c] = s THEN None ELSE clients[c]]
      BY <1>2, <2>3, <3>1, <3>2 DEF TypeOK, UnregisterIfCurrent, hubVars
    <3>. QED
      BY <2>3, <3>3 DEF UnregisterIfCurrent, R!Leave
  <2>4. ASSUME NEW s \in Streams, Receive(s)
        PROVE  UNCHANGED <<clients, phase>>
    BY <2>4 DEF Receive, hubVars, streamVars
  <2>5. ASSUME NEW p \in Producers, ProducerNext(p)
        PROVE  UNCHANGED <<clients, phase>>
    BY <2>5 DEF ProducerNext, Begin, Continue, Send, SendBlocking, Broadcast,
                BroadcastExcept, BroadcastToUser, StartBroadcast, Issue, Offer,
                BufferEvent, Accept, Cancel, BroadcastTo, hubVars, streamVars
  <2>6. CASE UNCHANGED vars
    BY <2>6 DEF vars
  <2>. QED
    BY <1>2, <2>1, <2>2, <2>3, <2>4, <2>5, <2>6 DEF Next, StreamNext, R!RegistryNext
<1>. QED
  BY <1>1, <1>2, HubCorrect, PTL DEF Spec, RegistrySpec, R!RegistrySpec

-------------------------------------------------------------------------------
(* Who receives what. *)

Elems(q) == {q[i] : i \in 1..Len(q)}

LEMMA ElemsOfAppend ==
    ASSUME NEW S, NEW q \in Seq(S), NEW e \in S
    PROVE  Elems(Append(q, e)) \subseteq Elems(q) \union {e}
  BY AppendProperties, LenProperties DEF Elems

LEMMA ElemsOfTail ==
    ASSUME NEW S, NEW q \in Seq(S), q # <<>>
    PROVE  /\ Elems(Tail(q)) \subseteq Elems(q)
           /\ Head(q) \in Elems(q)
<1>1. /\ Len(q) \in Nat /\ Len(q) >= 1
      /\ Len(Tail(q)) = Len(q) - 1
      /\ \A i \in 1..Len(Tail(q)) : Tail(q)[i] = q[i + 1]
      /\ Head(q) = q[1]
  BY HeadTailProperties, LenProperties, EmptySeq
<1>2. \A i \in 1..Len(Tail(q)) : i + 1 \in 1..Len(q)
  BY <1>1
<1>. QED
  BY <1>1, <1>2 DEF Elems

LEMMA ElemsOfReplay ==
    ASSUME NEW q \in Seq(Events)
    PROVE  Elems(Replay(q)) \subseteq Elems(q)
  BY ReplayType DEF Elems

LEMMA ElemsOfRingPush ==
    ASSUME NEW q \in Seq(Events), MaxBuffer # 0, NEW ev \in Events
    PROVE  Elems(RingPush(q, ev)) \subseteq Elems(q) \union {ev}
<1>1. CASE Len(q) >= MaxBuffer
  <2>1. Len(q) > 0
    BY <1>1, HubAssumption, LenProperties
  <2>2. q # <<>>
    BY <2>1
  <2>3. Tail(q) \in Seq(Events)
    BY <2>2, TailType
  <2>. QED
    BY <1>1, <2>2, <2>3, ElemsOfTail, ElemsOfAppend DEF RingPush
<1>2. CASE ~(Len(q) >= MaxBuffer)
  BY <1>2, ElemsOfAppend DEF RingPush
<1>. QED
  BY <1>1, <1>2

\* An event sent to client c alone.
Plain(ev, c) == ev.to = c /\ ev.owner = None /\ ev.except = None

\* A directed call holds an event for its client only, and a broadcast in
\* progress has only clients it addresses left.
MsgCall(p) ==
    /\ call[p].pc \in {"offer", "wait", "buffer"} =>
          call[p].ev.to \in Clients /\ Plain(call[p].ev, call[p].ev.to)
    /\ call[p].pc = "iterate" =>
          call[p].ev.to = None /\ call[p].left \subseteq Addressed(call[p].ev)

\* A ring holds events sent to its client only.
MsgRing(c) == \A ev \in Elems(buffer[c]) : Plain(ev, c)

\* What is in a stream is meant for it.
MsgStream(s) == \A ev \in Elems(chan[s]) \union Elems(delivered[s]) : Audience(s, ev)

MsgInv ==
    /\ \A p \in Producers : MsgCall(p)
    /\ \A c \in Clients : MsgRing(c)
    /\ \A s \in Streams : MsgStream(s)

\* The three parts are preserved by what does not touch their state.
LEMMA SameCall ==
    ASSUME NEW p, MsgCall(p), UNCHANGED <<clients, userOf>>, call'[p] = call[p]
    PROVE  MsgCall(p)'
<1>1. \A ev : Addressed(ev)' = Addressed(ev)
  BY DEF Addressed
<1>. QED
  BY <1>1 DEF MsgCall, Plain

LEMMA QuietCall ==
    ASSUME NEW p, MsgCall(p), call'[p] = call[p], call[p].pc # "iterate"
    PROVE  MsgCall(p)'
  BY DEF MsgCall, Plain

LEMMA SameRing ==
    ASSUME NEW c, MsgRing(c), Elems(buffer'[c]) \subseteq Elems(buffer[c])
    PROVE  MsgRing(c)'
  BY DEF MsgRing, Plain

LEMMA SameStream ==
    ASSUME NEW s, MsgStream(s), client'[s] = client[s], user'[s] = user[s],
           Elems(chan'[s]) \union Elems(delivered'[s])
               \subseteq Elems(chan[s]) \union Elems(delivered[s])
    PROVE  MsgStream(s)'
<1>1. \A ev : Audience(s, ev)' <=> Audience(s, ev)
  BY DEF Audience
<1>. QED
  BY <1>1 DEF MsgStream

\* A stream that gets one more event, which is meant for it.
LEMMA GrownStream ==
    ASSUME NEW s, NEW ev, MsgStream(s), Audience(s, ev),
           client'[s] = client[s], user'[s] = user[s], delivered'[s] = delivered[s],
           Elems(chan'[s]) \subseteq Elems(chan[s]) \union {ev}
    PROVE  MsgStream(s)'
<1>1. \A e : Audience(s, e)' <=> Audience(s, e)
  BY DEF Audience
<1>2. Elems(delivered[s])' = Elems(delivered[s])
  BY DEF Elems
<1>. QED
  BY <1>1, <1>2 DEF MsgStream

\* Streams and rings are not touched.
LEMMA QuietStreams ==
    ASSUME MsgInv, UNCHANGED <<buffer, chan, client, user, delivered>>
    PROVE  /\ \A c \in Clients : MsgRing(c)'
           /\ \A s \in Streams : MsgStream(s)'
<1>1. ASSUME NEW c \in Clients PROVE MsgRing(c)'
  BY SameRing DEF MsgInv
<1>2. ASSUME NEW s \in Streams PROVE MsgStream(s)'
  BY SameStream DEF MsgInv
<1>. QED
  BY <1>1, <1>2

\* One producer moves on, to a call that is in order again.
LEMMA OneCall ==
    ASSUME MsgInv, NEW p \in Producers, UNCHANGED <<clients, userOf>>,
           \A q \in Producers : q # p => call'[q] = call[q],
           MsgCall(p)'
    PROVE  \A q \in Producers : MsgCall(q)'
<1>1. ASSUME NEW q \in Producers, q # p PROVE MsgCall(q)'
  BY <1>1, SameCall DEF MsgInv
<1>. QED
  BY <1>1

LEMMA MsgStep ==
    TypeOK /\ HubInv /\ CallInv /\ MsgInv /\ [Next]_vars => MsgInv'
<1> SUFFICES ASSUME TypeOK, HubInv, CallInv, MsgInv, [Next]_vars
             PROVE  MsgInv'
  OBVIOUS
<1>1. ASSUME NEW s \in Streams, NEW c \in Clients, NEW u \in UserIDs, Register(s, c, u)
      PROVE  MsgInv'
  <2>1. ASSUME NEW p \in Producers PROVE MsgCall(p)'
    <3>1. call[p].pc # "iterate"
      BY <1>1 DEF Register, Attach, WriteLockFree
    <3>2. call'[p] = call[p]
      BY <1>1 DEF Register, Attach
    <3>. QED
      BY <3>1, <3>2, QuietCall DEF MsgInv
  <2>2. ASSUME NEW d \in Clients PROVE MsgRing(d)'
    <3>1. Elems(buffer'[d]) \subseteq Elems(buffer[d])
      BY <1>1 DEF TypeOK, Register, Attach, Elems
    <3>. QED
      BY <3>1, SameRing DEF MsgInv
  <2>3. ASSUME NEW t \in Streams PROVE MsgStream(t)'
    <3>1. CASE t = s
      <4>1. delivered'[s] = <<>> /\ Elems(<<>>) = {}
        BY <1>1 DEF Register, Attach, HubInv, Elems
      <4>2. chan'[s] = Replay(buffer[c]) /\ client'[s] = c
        BY <1>1 DEF TypeOK, Register, Attach
      <4>3. Elems(chan'[s]) \subseteq Elems(buffer[c])
        BY <4>2, ElemsOfReplay DEF TypeOK
      <4>4. \A ev \in Elems(buffer[c]) : Plain(ev, c)
        BY DEF MsgInv, MsgRing
      <4>5. \A ev : Plain(ev, c) => Audience(s, ev)'
        BY <4>2, HubAssumption DEF Audience, Plain
      <4>. QED
        BY <3>1, <4>1, <4>3, <4>4, <4>5 DEF MsgStream
    <3>2. CASE t # s
      <4>1. UNCHANGED <<chan[t], delivered[t], client[t], user[t]>>
        BY <1>1, <3>2 DEF TypeOK, Register, Attach
      <4>. QED
        BY <4>1, SameStream DEF MsgInv
    <3>. QED
      BY <3>1, <3>2
  <2>. QED
    BY <2>1, <2>2, <2>3 DEF MsgInv
<1>2. ASSUME NEW s \in Streams, Receive(s)
      PROVE  MsgInv'
  <2>1. UNCHANGED <<clients, userOf, buffer, client, user, call>>
    BY <1>2 DEF Receive, hubVars, streamVars
  <2>2. \A t \in Streams : Elems(chan'[t]) \union Elems(delivered'[t])
                               \subseteq Elems(chan[t]) \union Elems(delivered[t])
    <3>1. /\ Elems(Tail(chan[s])) \subseteq Elems(chan[s])
          /\ Head(chan[s]) \in Elems(chan[s])
          /\ Head(chan[s]) \in Events
      BY <1>2, ElemsOfTail, TailType DEF TypeOK, Receive
    <3>2. Elems(Append(delivered[s], Head(chan[s]))) \subseteq Elems(delivered[s]) \union {Head(chan[s])}
      BY <3>1, ElemsOfAppend DEF TypeOK
    <3>. QED
      BY <1>2, <3>1, <3>2 DEF TypeOK, Receive
  <2>3. ASSUME NEW p \in Producers PROVE MsgCall(p)'
    BY <2>1, SameCall DEF MsgInv
  <2>4. ASSUME NEW c \in Clients PROVE MsgRing(c)'
    BY <2>1, SameRing DEF MsgInv
  <2>5. ASSUME NEW t \in Streams PROVE MsgStream(t)'
    BY <2>1, <2>2, SameStream DEF MsgInv
  <2>. QED
    BY <2>3, <2>4, <2>5 DEF MsgInv
<1>3. ASSUME NEW s \in Streams, Disconnect(s)
      PROVE  MsgInv'
  <2>1. UNCHANGED <<clients, userOf, buffer, chan, client, user, delivered, call>>
    BY <1>3 DEF Disconnect, hubVars
  <2>2. ASSUME NEW p \in Producers PROVE MsgCall(p)'
    BY <2>1, SameCall DEF MsgInv
  <2>. QED
    BY <2>1, <2>2, QuietStreams DEF MsgInv
<1>4. ASSUME NEW s \in Streams, UnregisterIfCurrent(s)
      PROVE  MsgInv'
  <2>1. UNCHANGED <<chan, client, user, delivered, call>>
    BY <1>4 DEF UnregisterIfCurrent
  <2>2. ASSUME NEW p \in Producers PROVE MsgCall(p)'
    <3>1. call[p].pc # "iterate"
      BY <1>4 DEF UnregisterIfCurrent, WriteLockFree
    <3>. QED
      BY <2>1, <3>1, QuietCall DEF MsgInv
  <2>3. ASSUME NEW d \in Clients PROVE MsgRing(d)'
    <3>1. Elems(buffer'[d]) \subseteq Elems(buffer[d])
      <4>1. CASE clients[client[s]] = s
        BY <1>4, <4>1 DEF TypeOK, UnregisterIfCurrent, Elems
      <4>2. CASE clients[client[s]] # s
        BY <1>4, <4>2 DEF UnregisterIfCurrent, hubVars
      <4>. QED
        BY <4>1, <4>2
    <3>. QED
      BY <3>1, SameRing DEF MsgInv
  <2>4. ASSUME NEW t \in Streams PROVE MsgStream(t)'
    BY <2>1, SameStream DEF MsgInv
  <2>. QED
    BY <2>2, <2>3, <2>4 DEF MsgInv
<1>5. ASSUME NEW p \in Producers, NEW c \in Clients, Send(p, c) \/ SendBlocking(p, c)
      PROVE  MsgInv'
  <2>1. UNCHANGED <<clients, userOf, buffer, chan, client, user, delivered>>
    BY <1>5 DEF Send, SendBlocking, Issue, hubVars, streamVars
  <2>2. \A q \in Producers : q # p => call'[q] = call[q]
    BY <1>5 DEF TypeOK, Send, SendBlocking
  <2>3. call'[p].ev = Directed(p, c) /\ call'[p].pc # "iterate"
    BY <1>5 DEF TypeOK, Send, SendBlocking
  <2>4. Plain(Directed(p, c), c) /\ Directed(p, c).to = c
    BY DEF Plain, Directed
  <2>5. MsgCall(p)'
    BY <2>3, <2>4 DEF MsgCall, Plain
  <2>. QED
    BY <2>1, <2>2, <2>5, OneCall, QuietStreams DEF MsgInv
<1>6. ASSUME NEW p \in Producers, NEW ev, ev.to = None, StartBroadcast(p, ev)
      PROVE  MsgInv'
  <2>1. UNCHANGED <<clients, userOf, buffer, chan, client, user, delivered>>
    BY <1>6 DEF StartBroadcast, Issue, hubVars, streamVars
  <2>2. \A q \in Producers : q # p => call'[q] = call[q]
    BY <1>6 DEF TypeOK, StartBroadcast
  <2>3. MsgCall(p)'
    <3>1. CASE Addressed(ev) = {}
      <4>1. call'[p].pc = "idle"
        BY <1>6, <3>1 DEF TypeOK, StartBroadcast, Idle
      <4>. QED
        BY <4>1 DEF MsgCall
    <3>2. CASE Addressed(ev) # {}
      <4>1. call'[p] = [pc |-> "iterate", ev |-> ev, left |-> Addressed(ev)]
        BY <1>6, <3>2 DEF TypeOK, StartBroadcast
      <4>2. call'[p].pc = "iterate" /\ call'[p].ev = ev /\ call'[p].left = Addressed(ev)
        BY <4>1
      <4>3. Addressed(ev)' = Addressed(ev)
        BY <2>1 DEF Addressed
      <4>. QED
        BY <1>6, <4>2, <4>3 DEF MsgCall
    <3>. QED
      BY <3>1, <3>2
  <2>. QED
    BY <2>1, <2>2, <2>3, OneCall, QuietStreams DEF MsgInv
<1>7. ASSUME NEW p \in Producers, Offer(p) \/ Accept(p)
      PROVE  MsgInv'
  <2> DEFINE s == call[p].ch
             ev == call[p].ev
  <2>0. MsgCall(p)
    BY DEF MsgInv
  <2>1. s \in Streams /\ ev \in Events /\ Plain(ev, ev.to) /\ ev.to \in Clients
    BY <1>7, <2>0, CallType DEF Offer, Accept, MsgCall
  <2>2. client[s] = ev.to /\ client[s] \in Clients
    BY <1>7, <2>1 DEF Offer, Accept, CallInv
  <2>3. Audience(s, ev)
    BY <2>1, <2>2, HubAssumption DEF Audience, Plain
  <2>4. Elems(Append(chan[s], ev)) \subseteq Elems(chan[s]) \union {ev}
    BY <2>1, ElemsOfAppend DEF TypeOK
  <2>5. \A t \in Streams : \/ chan'[t] = chan[t]
                           \/ t = s /\ chan'[t] = Append(chan[s], ev)
    BY <1>7, <2>1 DEF TypeOK, Offer, Accept
  <2>6. UNCHANGED <<clients, userOf, buffer, client, user, delivered>>
    BY <1>7 DEF Offer, Accept, hubVars, streamVars
  <2>7. call' = [call EXCEPT ![p] = Idle] \/ call' = [call EXCEPT ![p] = [pc |-> "buffer", ev |-> ev]]
    BY <1>7 DEF Offer, Accept
  <2>8. /\ \A q \in Producers : q # p => call'[q] = call[q]
        /\ call'[p].pc \in {"idle", "buffer"}
        /\ call'[p].pc = "buffer" => call'[p].ev = ev
    BY <2>7 DEF TypeOK, Idle
  <2>9. MsgCall(p)'
    BY <2>1, <2>8 DEF MsgCall, Plain
  <2>10. ASSUME NEW t \in Streams PROVE MsgStream(t)'
    <3>1. CASE chan'[t] = chan[t]
      BY <2>6, <3>1, SameStream DEF MsgInv
    <3>2. CASE t = s /\ chan'[t] = Append(chan[s], ev)
      BY <2>3, <2>4, <2>6, <3>2, GrownStream DEF MsgInv
    <3>. QED
      BY <2>5, <3>1, <3>2
  <2>11. ASSUME NEW c \in Clients PROVE MsgRing(c)'
    BY <2>6, SameRing DEF MsgInv
  <2>. QED
    BY <2>6, <2>8, <2>9, <2>10, <2>11, OneCall DEF MsgInv
<1>8. ASSUME NEW p \in Producers, BufferEvent(p)
      PROVE  MsgInv'
  <2> DEFINE ev == call[p].ev
  <2>0. MsgCall(p)
    BY DEF MsgInv
  <2>1. ev \in Events /\ Plain(ev, ev.to) /\ ev.to \in Clients
    BY <1>8, <2>0, CallType DEF BufferEvent, MsgCall
  <2>2. UNCHANGED <<clients, userOf, chan, client, user, delivered>>
    BY <1>8 DEF BufferEvent, streamVars
  <2>3. /\ \A q \in Producers : q # p => call'[q] = call[q]
        /\ call'[p].pc = "idle"
    BY <1>8 DEF TypeOK, BufferEvent, Idle
  <2>4. MsgCall(p)'
    BY <2>3 DEF MsgCall
  <2>5. ASSUME NEW c \in Clients PROVE MsgRing(c)'
    <3>1. CASE buffer'[c] = buffer[c]
      BY <3>1, SameRing DEF MsgInv
    <3>2. CASE buffer'[c] # buffer[c]
      <4>1. MaxBuffer # 0 /\ c = ev.to /\ buffer'[c] = RingPush(buffer[c], ev)
        BY <1>8, <2>1, <3>2 DEF TypeOK, BufferEvent
      <4>2. Elems(RingPush(buffer[c], ev)) \subseteq Elems(buffer[c]) \union {ev}
        BY <2>1, <4>1, ElemsOfRingPush DEF TypeOK
      <4>3. MsgRing(c) /\ Plain(ev, c)
        BY <2>1, <4>1 DEF MsgInv
      <4>. QED
        BY <4>1, <4>2, <4>3 DEF MsgRing, Plain
    <3>. QED
      BY <3>1, <3>2
  <2>6. ASSUME NEW s \in Streams PROVE MsgStream(s)'
    BY <2>2, SameStream DEF MsgInv
  <2>. QED
    BY <2>2, <2>3, <2>4, <2>5, <2>6, OneCall DEF MsgInv
<1>9. ASSUME NEW p \in Producers, Cancel(p)
      PROVE  MsgInv'
  <2>1. /\ \A q \in Producers : q # p => call'[q] = call[q]
        /\ call'[p].pc = "idle"
    BY <1>9 DEF TypeOK, Cancel, Idle
  <2>2. UNCHANGED <<clients, userOf, buffer, chan, client, user, delivered>>
    BY <1>9 DEF Cancel, hubVars, streamVars
  <2>3. MsgCall(p)'
    BY <2>1 DEF MsgCall
  <2>. QED
    BY <2>1, <2>2, <2>3, OneCall, QuietStreams DEF MsgInv
<1>10. ASSUME NEW p \in Producers, NEW c \in Clients, BroadcastTo(p, c)
       PROVE  MsgInv'
  <2> DEFINE s == clients[c]
             ev == call[p].ev
  <2>0. MsgCall(p)
    BY DEF MsgInv
  <2>1. ev \in Events /\ ev.to = None /\ call[p].left \subseteq Addressed(ev) /\ c \in Addressed(ev)
    BY <1>10, <2>0, CallType DEF BroadcastTo, MsgCall
  <2>2. s \in Streams /\ client[s] = c /\ user[s] = userOf[c]
    BY <2>1 DEF Addressed, TypeOK, HubInv
  <2>3. Audience(s, ev)
    BY <2>1, <2>2 DEF Audience, Addressed
  <2>4. Elems(Append(chan[s], ev)) \subseteq Elems(chan[s]) \union {ev}
    BY <2>1, <2>2, ElemsOfAppend DEF TypeOK
  <2>5. \A t \in Streams : \/ chan'[t] = chan[t]
                           \/ t = s /\ chan'[t] = Append(chan[s], ev)
    BY <1>10, <2>2 DEF TypeOK, BroadcastTo
  <2>6. UNCHANGED <<clients, userOf, buffer, client, user, delivered>>
    BY <1>10 DEF BroadcastTo, hubVars, streamVars
  <2>7. /\ \A q \in Producers : q # p => call'[q] = call[q]
        /\ call'[p].pc \in {"idle", "iterate"}
        /\ call'[p].pc = "iterate" => call'[p].ev = ev /\ call'[p].left \subseteq call[p].left
    BY <1>10 DEF TypeOK, BroadcastTo, Idle
  <2>8. \A e : Addressed(e)' = Addressed(e)
    BY <2>6 DEF Addressed
  <2>9. MsgCall(p)'
    BY <2>1, <2>7, <2>8 DEF MsgCall
  <2>10. ASSUME NEW t \in Streams PROVE MsgStream(t)'
    <3>1. CASE chan'[t] = chan[t]
      BY <2>6, <3>1, SameStream DEF MsgInv
    <3>2. CASE t = s /\ chan'[t] = Append(chan[s], ev)
      BY <2>3, <2>4, <2>6, <3>2, GrownStream DEF MsgInv
    <3>. QED
      BY <2>5, <3>1, <3>2
  <2>11. ASSUME NEW d \in Clients PROVE MsgRing(d)'
    BY <2>6, SameRing DEF MsgInv
  <2>. QED
    BY <2>6, <2>7, <2>9, <2>10, <2>11, OneCall DEF MsgInv
<1>11. CASE UNCHANGED vars
  <2>1. UNCHANGED <<clients, userOf, buffer, chan, client, user, delivered, call>>
    BY <1>11 DEF vars
  <2>2. ASSUME NEW p \in Producers PROVE MsgCall(p)'
    BY <2>1, SameCall DEF MsgInv
  <2>. QED
    BY <2>1, <2>2, QuietStreams DEF MsgInv
<1>12. ASSUME NEW p \in Producers, Begin(p)
       PROVE  MsgInv'
  BY <1>5, <1>6, <1>12 DEF Begin, Broadcast, BroadcastExcept, BroadcastToUser
<1>. QED
  BY <1>1, <1>2, <1>3, <1>4, <1>7, <1>8, <1>9, <1>10, <1>11, <1>12
     DEF Next, ProducerNext, StreamNext, Continue

\* A tab receives only what is meant for it: events sent to its client ID,
\* and broadcasts limited to the user its stream registered with, never to the
\* excluded client, whatever the interleaving of reconnects and calls.
THEOREM AudienceCorrect == Spec => []RightAudience
<1>1. Init => MsgInv
  BY DEF Init, MsgInv, MsgCall, MsgRing, MsgStream, Idle, Elems
<1>2. TypeOK /\ MsgInv => RightAudience
  <2> SUFFICES ASSUME TypeOK, MsgInv, NEW s \in Streams, NEW i \in DOMAIN Stream(s)
               PROVE  Audience(s, Stream(s)[i])
    BY DEF RightAudience
  <2> DEFINE d == delivered[s]
             w == chan[s]
  <2>1. d \in Seq(Events) /\ w \in Seq(Events)
    BY DEF TypeOK
  <2> HIDE DEF d, w
  <2>2. /\ Len(d) \in Nat /\ Len(w) \in Nat
        /\ DOMAIN d = 1..Len(d) /\ DOMAIN w = 1..Len(w)
    BY <2>1, LenProperties
  <2>3. /\ d \o w \in Seq(Events)
        /\ Len(d \o w) = Len(d) + Len(w)
        /\ \A k \in 1..(Len(d) + Len(w)) :
              (d \o w)[k] = IF k <= Len(d) THEN d[k] ELSE w[k - Len(d)]
    BY <2>1, ConcatProperties
  <2>4. DOMAIN (d \o w) = 1..(Len(d) + Len(w))
    BY <2>3, LenProperties
  <2>5. i \in 1..(Len(d) + Len(w))
    BY <2>4 DEF Stream, d, w
  <2>6. CASE i <= Len(d)
    <3>1. i \in DOMAIN d
      BY <2>2, <2>5, <2>6
    <3>2. Stream(s)[i] = d[i]
      BY <2>3, <2>5, <2>6 DEF Stream, d, w
    <3>3. Stream(s)[i] \in Elems(d)
      BY <2>2, <3>1, <3>2 DEF Elems
    <3>. QED
      BY <3>3 DEF MsgInv, MsgStream, d
  <2>7. CASE ~(i <= Len(d))
    <3>1. \A m, n \in Nat : \A k \in 1..(m + n) : ~(k <= m) => k - m \in 1..n
      OBVIOUS
    <3>2. i - Len(d) \in DOMAIN w
      BY <2>2, <2>5, <2>7, <3>1
    <3>3. Stream(s)[i] = w[i - Len(d)]
      BY <2>3, <2>5, <2>7 DEF Stream, d, w
    <3>4. Stream(s)[i] \in Elems(w)
      BY <2>2, <3>2, <3>3 DEF Elems
    <3>. QED
      BY <3>4 DEF MsgInv, MsgStream, w
  <2>. QED
    BY <2>6, <2>7
<1>. QED
  BY <1>1, <1>2, HubCorrect, MsgStep, PTL DEF Spec

-------------------------------------------------------------------------------
(* Order and duplicates. *)

\* The events of each producer are in the order they were issued in.
Ordered(q) ==
    \A i, j \in DOMAIN q : (i < j /\ q[i].by = q[j].by) => q[i].id < q[j].id

LEMMA OrderedAppend ==
    ASSUME NEW q \in Seq(Events), NEW e \in Events, Ordered(q),
           \A f \in Elems(q) : f.by = e.by => f.id < e.id
    PROVE  Ordered(Append(q, e))
<1>1. /\ Append(q, e) \in Seq(Events) /\ Len(Append(q, e)) = Len(q) + 1
      /\ \A i \in 1..Len(q) : Append(q, e)[i] = q[i]
      /\ Append(q, e)[Len(q) + 1] = e
      /\ Len(q) \in Nat /\ DOMAIN q = 1..Len(q)
      /\ DOMAIN Append(q, e) = 1..(Len(q) + 1)
  BY AppendProperties, LenProperties
<1> DEFINE a == Append(q, e)
<1> SUFFICES ASSUME NEW i \in DOMAIN a, NEW j \in DOMAIN a, i < j, a[i].by = a[j].by
             PROVE  a[i].id < a[j].id
  BY DEF Ordered
<1>2. i \in 1..Len(q) /\ a[i] = q[i]
  BY <1>1
<1>3. CASE j \in 1..Len(q)
  BY <1>1, <1>2, <1>3 DEF Ordered
<1>4. CASE j = Len(q) + 1
  BY <1>1, <1>2, <1>4 DEF Elems
<1>. QED
  BY <1>1, <1>3, <1>4

LEMMA OrderedTail ==
    ASSUME NEW q \in Seq(Events), q # <<>>, Ordered(q)
    PROVE  Ordered(Tail(q))
<1>1. /\ Len(q) \in Nat /\ DOMAIN q = 1..Len(q)
      /\ DOMAIN Tail(q) = 1..(Len(q) - 1)
      /\ \A i \in 1..(Len(q) - 1) : Tail(q)[i] = q[i + 1]
  BY HeadTailProperties, LenProperties
<1> SUFFICES ASSUME NEW i \in DOMAIN Tail(q), NEW j \in DOMAIN Tail(q), i < j,
                    Tail(q)[i].by = Tail(q)[j].by
             PROVE  Tail(q)[i].id < Tail(q)[j].id
  BY DEF Ordered
<1>2. i + 1 \in DOMAIN q /\ j + 1 \in DOMAIN q /\ i + 1 < j + 1
  BY <1>1
<1>. QED
  BY <1>1, <1>2 DEF Ordered

LEMMA OrderedReplay ==
    ASSUME NEW q \in Seq(Events), Ordered(q)
    PROVE  Ordered(Replay(q))
<1>1. /\ DOMAIN Replay(q) = 1..Len(Replay(q)) /\ DOMAIN q = 1..Len(q)
      /\ \A i \in 1..Len(Replay(q)) : i \in 1..Len(q) /\ Replay(q)[i] = q[i]
  BY ReplayType, LenProperties
<1>. QED
  BY <1>1 DEF Ordered

LEMMA OrderedRingPush ==
    ASSUME NEW q \in Seq(Events), NEW e \in Events, MaxBuffer # 0, Ordered(q),
           \A f \in Elems(q) : f.by = e.by => f.id < e.id
    PROVE  Ordered(RingPush(q, e))
<1>1. CASE Len(q) >= MaxBuffer
  <2>1. Len(q) > 0
    BY <1>1, HubAssumption, LenProperties
  <2>2. q # <<>>
    BY <2>1
  <2>3. Tail(q) \in Seq(Events) /\ Ordered(Tail(q)) /\ Elems(Tail(q)) \subseteq Elems(q)
    BY <2>2, TailType, OrderedTail, ElemsOfTail
  <2>4. Ordered(Append(Tail(q), e))
    BY <2>3, OrderedAppend
  <2>. QED
    BY <1>1, <2>4 DEF RingPush
<1>2. CASE ~(Len(q) >= MaxBuffer)
  BY <1>2, OrderedAppend DEF RingPush
<1>. QED
  BY <1>1, <1>2

\* What reached a stream grows when its channel does, and stays when its
\* handler reads.
LEMMA ConcatAppend ==
    ASSUME NEW d \in Seq(Events), NEW w \in Seq(Events), NEW e \in Events
    PROVE  d \o Append(w, e) = Append(d \o w, e)
<1>1. <<e>> \in Seq(Events) /\ d \o w \in Seq(Events)
  BY ConcatProperties
<1>2. d \o (w \o <<e>>) = (d \o w) \o <<e>>
  BY <1>1, ConcatAssociative
<1>. QED
  BY <1>1, <1>2, AppendIsConcat

LEMMA ConcatShift ==
    ASSUME NEW d \in Seq(Events), NEW w \in Seq(Events), w # <<>>
    PROVE  Append(d, Head(w)) \o Tail(w) = d \o w
<1>1. /\ Head(w) \in Events /\ Tail(w) \in Seq(Events) /\ <<Head(w)>> \in Seq(Events)
  BY HeadTailProperties
<1>2. w = <<Head(w)>> \o Tail(w)
  <2>1. /\ Len(w) \in Nat \ {0} /\ Len(Tail(w)) = Len(w) - 1
        /\ \A i \in 1..Len(Tail(w)) : Tail(w)[i] = w[i + 1]
    BY HeadTailProperties, EmptySeq
  <2> DEFINE v == <<Head(w)>> \o Tail(w)
  <2>2. /\ v \in Seq(Events) /\ Len(v) = Len(w)
        /\ \A i \in 1..Len(w) : v[i] = IF i <= 1 THEN Head(w) ELSE Tail(w)[i - 1]
    <3>1. Len(<<Head(w)>>) = 1 /\ <<Head(w)>>[1] = Head(w)
      OBVIOUS
    <3>. QED
      BY <1>1, <2>1, <3>1, ConcatProperties
  <2>3. \A i \in 1..Len(w) : v[i] = w[i]
    <3> TAKE i \in 1..Len(w)
    <3>1. CASE i = 1
      BY <2>1, <2>2, <3>1
    <3>2. CASE i # 1
      <4>1. i - 1 \in 1..Len(Tail(w)) /\ ~(i <= 1)
        BY <2>1, <3>2
      <4>2. Tail(w)[i - 1] = w[(i - 1) + 1]
        BY <2>1, <4>1
      <4>. QED
        BY <2>1, <2>2, <4>1, <4>2
    <3>. QED
      BY <3>1, <3>2
  <2> HIDE DEF v
  <2>4. v = w
    BY <2>2, <2>3, SeqEqual
  <2>. QED
    BY <2>4 DEF v
<1>3. d \o (<<Head(w)>> \o Tail(w)) = (d \o <<Head(w)>>) \o Tail(w)
  BY <1>1, ConcatAssociative
<1>4. Append(d, Head(w)) = d \o <<Head(w)>>
  BY <1>1, AppendIsConcat
<1>. QED
  BY <1>2, <1>3, <1>4

LEMMA StreamType == TypeOK => \A s \in Streams : Stream(s) \in Seq(Events)
BY ConcatProperties DEF TypeOK, Stream

\* What each stream was sent and what each ring holds.
Got == [s \in Streams |-> Elems(Stream(s))]
Kept == [c \in Clients |-> Elems(buffer[c])]

\* The events that streams and rings hold, and those with the calls as well.
Placed == (UNION {Got[s] : s \in Streams}) \union (UNION {Kept[c] : c \in Clients})
Busy == {p \in Producers : call[p].pc # "idle"}
Held == Placed \union {call[p].ev : p \in Busy}

\* Numbers are used once, and in order.
Numbered ==
    /\ \A e \in Held : e.id <= issued
    /\ \A e, f \in Held : e.id = f.id => e = f
    /\ \A p \in Busy : call[p].ev.by = p

AllOrdered ==
    /\ \A s \in Streams : Ordered(Stream(s))
    /\ \A c \in Clients : Ordered(buffer[c])

\* The event of a call that is under way is younger than whatever else its
\* producer has placed where the event can still go.
Pending(p) ==
    /\ call[p].pc \in {"offer", "wait", "buffer"} =>
          \A e \in Placed : e.by = p => e.id < call[p].ev.id
    /\ call[p].pc = "iterate" =>
          \A s \in Streams : client[s] \in call[p].left =>
              \A e \in Got[s] : e.by = p => e.id < call[p].ev.id

\* What reached one stream of a client neither reached another stream of it
\* nor waits in its ring.
Apart ==
    /\ \A s, t \in Streams :
          s # t /\ client[s] = client[t] /\ client[s] # None => Got[s] \intersect Got[t] = {}
    /\ \A s \in Streams, c \in Clients : client[s] = c => Got[s] \intersect Kept[c] = {}

FlowInv == Numbered /\ AllOrdered /\ (\A p \in Producers : Pending(p)) /\ Apart

LEMMA PlacedIn ==
    \A e : e \in Placed <=> \/ \E s \in Streams : e \in Got[s]
                            \/ \E c \in Clients : e \in Kept[c]
  BY DEF Placed

LEMMA PlacedNext ==
    \A e : e \in Placed' <=> \/ \E s \in Streams : e \in Got'[s]
                             \/ \E c \in Clients : e \in Kept'[c]
  BY DEF Placed

LEMMA HeldType == TypeOK => Held \subseteq Events
<1> SUFFICES ASSUME TypeOK PROVE Held \subseteq Events
  OBVIOUS
<1>1. \A q \in Seq(Events) : Elems(q) \subseteq Events
  BY ElementOfSeq DEF Elems
<1>2. \A s \in Streams : Got[s] \subseteq Events
  BY <1>1, StreamType DEF Got
<1>3. \A c \in Clients : Kept[c] \subseteq Events
  BY <1>1 DEF Kept, TypeOK
<1>4. Placed \subseteq Events
  BY <1>2, <1>3, PlacedIn
<1>. QED
  BY <1>4, CallType DEF Held, Busy

\* A call goes on with its event, or returns.
Settles(q) ==
    \/ call'[q].pc = "idle"
    \/ /\ call[q].pc \in {"offer", "wait", "buffer"}
       /\ call'[q].pc \in {"offer", "wait", "buffer"}
       /\ call'[q].ev = call[q].ev
    \/ /\ call[q].pc = "iterate" /\ call'[q].pc = "iterate"
       /\ call'[q].ev = call[q].ev
       /\ call'[q].left \subseteq call[q].left

LEMMA SameSettles ==
    ASSUME TypeOK, NEW q \in Producers, call'[q] = call[q]
    PROVE  Settles(q)
  BY CallType DEF Settles

LEMMA NumberedKept ==
    ASSUME Numbered, issued' = issued, \A q \in Producers : Settles(q), Placed' \subseteq Held
    PROVE  Numbered'
<1>1. \A q \in Busy' : q \in Busy /\ q \in Producers /\ call'[q].ev = call[q].ev
  BY DEF Busy, Settles
<1>2. Held' \subseteq Held
  BY <1>1 DEF Held
<1>3. \A q \in Busy' : call'[q].ev.by = q
  BY <1>1 DEF Numbered
<1>. QED
  BY <1>2, <1>3 DEF Numbered

\* Others place these events of their own only, or move events that are placed.
OnlyOthers(q, new) ==
    /\ \A e \in new : e.by # q
    /\ Placed' \subseteq Placed \union new
    /\ call'[q].pc = "iterate" =>
          \A s \in Streams : client'[s] \in call'[q].left =>
              client'[s] = client[s] /\ Got'[s] \subseteq Got[s] \union new

\* Then a call stays in order.
LEMMA PendingKept ==
    ASSUME NEW q \in Producers, Pending(q), Settles(q), NEW new, OnlyOthers(q, new)
    PROVE  Pending(q)'
<1>1. ASSUME call'[q].pc \in {"offer", "wait", "buffer"}, NEW e \in Placed', e.by = q
      PROVE  e.id < call'[q].ev.id
  <2>1. call[q].pc \in {"offer", "wait", "buffer"} /\ call'[q].ev = call[q].ev
    BY <1>1 DEF Settles
  <2>2. e \in Placed
    BY <1>1 DEF OnlyOthers
  <2>. QED
    BY <1>1, <2>1, <2>2 DEF Pending
<1>2. ASSUME call'[q].pc = "iterate", NEW s \in Streams, client'[s] \in call'[q].left,
             NEW e \in Got'[s], e.by = q
      PROVE  e.id < call'[q].ev.id
  <2>1. call[q].pc = "iterate" /\ call'[q].ev = call[q].ev /\ client[s] \in call[q].left
    BY <1>2 DEF Settles, OnlyOthers
  <2>2. e \in Got[s]
    BY <1>2 DEF OnlyOthers
  <2>. QED
    BY <1>2, <2>1, <2>2 DEF Pending
<1>. QED
  BY <1>1, <1>2 DEF Pending

\* What is placed does not grow and no stream changes hands.
LEMMA FlowShrinks ==
    ASSUME FlowInv, issued' = issued, client' = client,
           \A q \in Producers : Settles(q),
           \A s \in Streams : Stream(s)' = Stream(s),
           \A c \in Clients : buffer'[c] = buffer[c] \/ buffer'[c] = <<>>
    PROVE  FlowInv'
<1>1. \A s \in Streams : Got'[s] = Got[s]
  BY DEF Got
<1>2. \A c \in Clients : Kept'[c] \subseteq Kept[c]
  BY DEF Kept, Elems
<1>3. Placed' \subseteq Placed
  BY <1>1, <1>2, PlacedIn, PlacedNext
<1>4. Numbered'
  BY <1>3, NumberedKept DEF FlowInv, Held
<1>5. ASSUME NEW q \in Producers PROVE Pending(q)'
  <2>1. Pending(q) /\ Settles(q)
    BY DEF FlowInv
  <2>2. OnlyOthers(q, {})
    BY <1>1, <1>3 DEF OnlyOthers
  <2>. QED
    BY <2>1, <2>2, PendingKept
<1>6. Apart'
  BY <1>1, <1>2 DEF FlowInv, Apart
<1>7. \A s \in Streams : Ordered(Stream(s))'
  BY DEF FlowInv, AllOrdered, Ordered
<1>8. \A c \in Clients : Ordered(buffer[c])'
  BY DEF FlowInv, AllOrdered, Ordered
<1>. QED
  BY <1>4, <1>5, <1>6, <1>7, <1>8 DEF FlowInv, AllOrdered

LEMMA StreamGrows ==
    ASSUME TypeOK, NEW s \in Streams, NEW e \in Events,
           chan'[s] = Append(chan[s], e), delivered'[s] = delivered[s]
    PROVE  Stream(s)' = Append(Stream(s), e)
<1>1. delivered[s] \o Append(chan[s], e) = Append(delivered[s] \o chan[s], e)
  BY ConcatAppend DEF TypeOK
<1>. QED
  BY <1>1 DEF Stream

\* The event of p's call is new to the client of stream s.
Fresh(p, s) ==
    /\ \A t \in Streams : client[t] = client[s] =>
          \A e \in Got[t] : e.by = p => e.id < call[p].ev.id
    /\ \A c \in Clients : client[s] = c => call[p].ev \notin Kept[c]

\* Stream s takes the event of p's call.
Takes(p, s) ==
    /\ Stream(s)' = Append(Stream(s), call[p].ev)
    /\ \A t \in Streams : t # s => Stream(t)' = Stream(t)
    /\ issued' = issued /\ client' = client /\ buffer' = buffer

\* One stream takes the event of a call, which then returns or goes on without
\* that stream.
LEMMA FlowGrows ==
    ASSUME TypeOK, FlowInv, NEW p \in Producers, p \in Busy, NEW s \in Streams,
           client[s] # None, Fresh(p, s), Takes(p, s),
           \A q \in Producers : Settles(q), Pending(p)'
    PROVE  FlowInv'
<1> USE DEF Fresh, Takes
<1> DEFINE ev == call[p].ev
<1>0. ev \in Events /\ ev \in Held /\ ev.by = p
  BY CallType DEF Busy, Held, FlowInv, Numbered
<1>1. Stream(s) \in Seq(Events)
  BY StreamType
<1>2. Got'[s] \subseteq Got[s] \union {ev}
  <2>1. Elems(Append(Stream(s), ev)) \subseteq Elems(Stream(s)) \union {ev}
    BY <1>0, <1>1, ElemsOfAppend
  <2>2. Elems(Stream(s))' = Elems(Append(Stream(s), ev))
    BY DEF Elems
  <2>. QED
    BY <2>1, <2>2 DEF Got
<1>3. \A t \in Streams : t # s => Got'[t] = Got[t]
  BY DEF Got
<1>4. \A c \in Clients : Kept'[c] = Kept[c]
  BY DEF Kept
<1>5. Placed' \subseteq Placed \union {ev}
  BY <1>2, <1>3, <1>4, PlacedIn, PlacedNext
<1>6. Numbered'
  <2>1. Placed' \subseteq Held
    BY <1>0, <1>5 DEF Held
  <2>. QED
    BY <2>1, NumberedKept DEF FlowInv
<1>7. ASSUME NEW q \in Producers, q # p PROVE Pending(q)'
  <2>1. Pending(q) /\ Settles(q)
    BY DEF FlowInv
  <2>2. \A e \in {ev} : e.by # q
    BY <1>0, <1>7
  <2>3. OnlyOthers(q, {ev})
    BY <1>2, <1>3, <1>5, <2>2 DEF OnlyOthers
  <2>. QED
    BY <2>1, <2>3, PendingKept
<1>8. \A t \in Streams : client[t] = client[s] => ev \notin Got[t]
  <2>1. \A e \in Events : ~(e.id < e.id)
    BY HubAssumption DEF Events
  <2>. QED
    BY <1>0, <2>1
<1>9. Apart'
  <2>1. ASSUME NEW t \in Streams, NEW r \in Streams, t # r, client[t] = client[r],
               client[t] # None, NEW e, e \in Got'[t], e \in Got'[r]
        PROVE  FALSE
    <3>1. Got[t] \intersect Got[r] = {}
      BY <2>1 DEF FlowInv, Apart
    <3>2. CASE t = s
      BY <1>2, <1>3, <1>8, <2>1, <3>1, <3>2
    <3>3. CASE r = s
      BY <1>2, <1>3, <1>8, <2>1, <3>1, <3>3
    <3>4. CASE t # s /\ r # s
      BY <1>3, <2>1, <3>1, <3>4
    <3>. QED
      BY <3>2, <3>3, <3>4
  <2>2. ASSUME NEW t \in Streams, NEW c \in Clients, client[t] = c,
               NEW e, e \in Got'[t], e \in Kept'[c]
        PROVE  FALSE
    <3>1. Got[t] \intersect Kept[c] = {}
      BY <2>2 DEF FlowInv, Apart
    <3>. QED
      BY <1>2, <1>3, <1>4, <2>2, <3>1
  <2>. QED
    BY <2>1, <2>2 DEF Apart
<1>10. ASSUME NEW t \in Streams PROVE Ordered(Stream(t))'
  <2>1. CASE t = s
    <3>1. Ordered(Stream(s)) /\ \A f \in Elems(Stream(s)) : f.by = ev.by => f.id < ev.id
      BY <1>0 DEF FlowInv, AllOrdered, Got
    <3>2. Ordered(Append(Stream(s), ev))
      BY <1>0, <1>1, <3>1, OrderedAppend
    <3>. QED
      BY <2>1, <3>2 DEF Ordered
  <2>2. CASE t # s
    BY <2>2 DEF FlowInv, AllOrdered, Ordered
  <2>. QED
    BY <2>1, <2>2
<1>11. ASSUME NEW c \in Clients PROVE Ordered(buffer[c])'
  BY DEF FlowInv, AllOrdered, Ordered
<1>. QED
  BY <1>6, <1>7, <1>9, <1>10, <1>11 DEF FlowInv, AllOrdered

\* A blank stream is given to a client, with what the client's ring held.
LEMMA FlowReplays ==
    ASSUME TypeOK, FlowInv, issued' = issued, call' = call,
           NEW s \in Streams, NEW c \in Clients,
           Stream(s)' = Replay(buffer[c]), client' = [client EXCEPT ![s] = c],
           \A t \in Streams : t # s => Stream(t)' = Stream(t),
           buffer' = [buffer EXCEPT ![c] = <<>>],
           \A q \in Producers : call[q].pc # "iterate"
    PROVE  FlowInv'
<1>1. buffer[c] \in Seq(Events)
  BY DEF TypeOK
<1>2. Got'[s] \subseteq Kept[c]
  BY <1>1, ElemsOfReplay DEF Got, Kept
<1>3. \A t \in Streams : t # s => Got'[t] = Got[t]
  BY DEF Got
<1>4. /\ \A d \in Clients : d # c => Kept'[d] = Kept[d]
      /\ Kept'[c] = {}
  BY EmptySeq DEF Kept, TypeOK, Elems
<1>5. Placed' \subseteq Placed
  BY <1>2, <1>3, <1>4, PlacedIn, PlacedNext
<1>6. \A q \in Producers : Settles(q)
  BY SameSettles
<1>7. Numbered'
  BY <1>5, <1>6, NumberedKept DEF FlowInv, Held
<1>8. ASSUME NEW q \in Producers PROVE Pending(q)'
  <2>1. Pending(q) /\ Settles(q)
    BY <1>6 DEF FlowInv
  <2>2. OnlyOthers(q, {})
    BY <1>5 DEF OnlyOthers
  <2>. QED
    BY <2>1, <2>2, PendingKept
<1>9. client'[s] = c /\ \A t \in Streams : t # s => client'[t] = client[t]
  BY DEF TypeOK
<1>10. \A t \in Streams : client[t] = c => Got[t] \intersect Kept[c] = {}
  BY DEF FlowInv, Apart
<1>11. Apart'
  <2>1. ASSUME NEW t \in Streams, NEW r \in Streams, t # r, client'[t] = client'[r],
               client'[t] # None
        PROVE  Got'[t] \intersect Got'[r] = {}
    <3>1. CASE t = s
      BY <1>2, <1>3, <1>9, <1>10, <2>1, <3>1
    <3>2. CASE r = s
      BY <1>2, <1>3, <1>9, <1>10, <2>1, <3>2
    <3>3. CASE t # s /\ r # s
      BY <1>3, <1>9, <2>1, <3>3 DEF FlowInv, Apart
    <3>. QED
      BY <3>1, <3>2, <3>3
  <2>2. ASSUME NEW t \in Streams, NEW d \in Clients, client'[t] = d
        PROVE  Got'[t] \intersect Kept'[d] = {}
    <3>1. CASE d = c
      BY <1>4, <3>1
    <3>2. CASE d # c
      BY <1>3, <1>4, <1>9, <2>2, <3>2 DEF FlowInv, Apart
    <3>. QED
      BY <3>1, <3>2
  <2>. QED
    BY <2>1, <2>2 DEF Apart
<1>12. ASSUME NEW t \in Streams PROVE Ordered(Stream(t))'
  <2>1. CASE t = s
    <3>1. Ordered(Replay(buffer[c]))
      BY <1>1, OrderedReplay DEF FlowInv, AllOrdered
    <3>. QED
      BY <2>1, <3>1 DEF Ordered
  <2>2. CASE t # s
    BY <2>2 DEF FlowInv, AllOrdered, Ordered
  <2>. QED
    BY <2>1, <2>2
<1>13. ASSUME NEW d \in Clients PROVE Ordered(buffer[d])'
  <2>1. buffer'[d] = buffer[d] \/ buffer'[d] = <<>>
    BY DEF TypeOK
  <2>. QED
    BY <2>1 DEF FlowInv, AllOrdered, Ordered
<1>. QED
  BY <1>7, <1>8, <1>11, <1>12, <1>13 DEF FlowInv, AllOrdered

\* A ring takes the event of a call, which then returns.
LEMMA FlowBuffers ==
    ASSUME TypeOK, FlowInv, issued' = issued, client' = client, MaxBuffer # 0,
           NEW p \in Producers, call[p].pc = "buffer", call'[p].pc = "idle",
           NEW c \in Clients, buffer' = [buffer EXCEPT ![c] = RingPush(@, call[p].ev)],
           \A t \in Streams : Stream(t)' = Stream(t),
           \A q \in Producers : Settles(q)
    PROVE  FlowInv'
<1> DEFINE ev == call[p].ev
<1>0. ev \in Events /\ ev \in Held /\ ev.by = p
  BY CallType DEF Busy, Held, FlowInv, Numbered
<1>1. buffer[c] \in Seq(Events)
  BY DEF TypeOK
<1>2. /\ buffer'[c] = RingPush(buffer[c], ev)
      /\ \A d \in Clients : d # c => buffer'[d] = buffer[d]
  BY DEF TypeOK
<1>3. \A t \in Streams : Got'[t] = Got[t]
  BY DEF Got
<1>4. /\ Kept'[c] \subseteq Kept[c] \union {ev}
      /\ \A d \in Clients : d # c => Kept'[d] = Kept[d]
  BY <1>0, <1>1, <1>2, ElemsOfRingPush DEF Kept
<1>5. Placed' \subseteq Placed \union {ev}
  BY <1>3, <1>4, PlacedIn, PlacedNext
<1>6. Numbered'
  <2>1. Placed' \subseteq Held
    BY <1>0, <1>5 DEF Held
  <2>. QED
    BY <2>1, NumberedKept DEF FlowInv
<1>7. ASSUME NEW q \in Producers PROVE Pending(q)'
  <2>1. CASE q = p
    BY <2>1 DEF Pending
  <2>2. CASE q # p
    <3>1. Pending(q) /\ Settles(q)
      BY DEF FlowInv
    <3>2. \A e \in {ev} : e.by # q
      BY <1>0, <2>2
    <3>3. OnlyOthers(q, {ev})
      BY <1>3, <1>5, <3>2 DEF OnlyOthers
    <3>. QED
      BY <3>1, <3>3, PendingKept
  <2>. QED
    BY <2>1, <2>2
<1>8. \A e \in Placed : e.by = p => e.id < ev.id
  BY DEF FlowInv, Pending
<1>9. ev \notin Placed
  <2>1. \A e \in Events : ~(e.id < e.id)
    BY HubAssumption DEF Events
  <2>. QED
    BY <1>0, <1>8, <2>1
<1>10. Apart'
  BY <1>3, <1>4, <1>9, PlacedIn DEF FlowInv, Apart
<1>11. ASSUME NEW t \in Streams PROVE Ordered(Stream(t))'
  BY DEF FlowInv, AllOrdered, Ordered
<1>12. ASSUME NEW d \in Clients PROVE Ordered(buffer[d])'
  <2>1. CASE d = c
    <3>1. \A f \in Elems(buffer[c]) : f.by = ev.by => f.id < ev.id
      BY <1>0, <1>8, PlacedIn DEF Kept
    <3>2. Ordered(RingPush(buffer[c], ev))
      BY <1>0, <1>1, <3>1, OrderedRingPush DEF FlowInv, AllOrdered
    <3>. QED
      BY <1>2, <2>1, <3>2 DEF Ordered
  <2>2. CASE d # c
    BY <1>2, <2>2 DEF FlowInv, AllOrdered, Ordered
  <2>. QED
    BY <2>1, <2>2
<1>. QED
  BY <1>6, <1>7, <1>10, <1>11, <1>12 DEF FlowInv, AllOrdered

\* A call begins, with an event that has the next number.
LEMMA FlowBegins ==
    ASSUME TypeOK, FlowInv, issued' = issued + 1, client' = client, buffer' = buffer,
           NEW p \in Producers, call[p].pc = "idle",
           \A q \in Producers : q # p => call'[q] = call[q],
           call'[p].pc # "idle" => call'[p].ev.id = issued + 1 /\ call'[p].ev.by = p,
           \A t \in Streams : Stream(t)' = Stream(t)
    PROVE  FlowInv'
<1>1. \A t \in Streams : Got'[t] = Got[t]
  BY DEF Got
<1>2. \A c \in Clients : Kept'[c] = Kept[c]
  BY DEF Kept
<1>3. Placed' = Placed
  <2>1. \A e : e \in Placed' <=> e \in Placed
    BY <1>1, <1>2, PlacedIn, PlacedNext
  <2>. QED
    BY <2>1
<1>4. issued \in Nat /\ \A e \in Held : e.id \in Nat /\ e.id <= issued
  <2>1. \A e \in Events : e.id \in Nat
    BY DEF Events
  <2>. QED
    BY <2>1, HeldType DEF TypeOK, FlowInv, Numbered
<1>5. Held' \subseteq Held \union {call'[p].ev}
  BY <1>3 DEF Held, Busy
<1>6. Held' \subseteq Held \/ call'[p].pc # "idle"
  BY <1>3 DEF Held, Busy
<1>7. Numbered'
  <2>1. \A e \in Held' : e.id <= issued'
    BY <1>4, <1>5, <1>6
  <2>2. \A e, f \in Held' : e.id = f.id => e = f
    BY <1>4, <1>5, <1>6 DEF FlowInv, Numbered
  <2>3. \A q \in Busy' : call'[q].ev.by = q
    BY DEF FlowInv, Numbered, Busy
  <2>. QED
    BY <2>1, <2>2, <2>3 DEF Numbered
<1>8. ASSUME NEW q \in Producers PROVE Pending(q)'
  <2>1. CASE q = p
    <3>1. ASSUME call'[p].pc # "idle", NEW e \in Placed'
          PROVE  e.id < call'[p].ev.id
      BY <1>3, <1>4, <3>1 DEF Held
    <3>2. \A t \in Streams : Got'[t] \subseteq Placed'
      BY PlacedNext
    <3>. QED
      BY <2>1, <3>1, <3>2 DEF Pending
  <2>2. CASE q # p
    <3>1. Pending(q) /\ Settles(q)
      BY <2>2, SameSettles DEF FlowInv
    <3>2. OnlyOthers(q, {})
      BY <1>1, <1>3 DEF OnlyOthers
    <3>. QED
      BY <3>1, <3>2, PendingKept
  <2>. QED
    BY <2>1, <2>2
<1>9. Apart'
  BY <1>1, <1>2 DEF FlowInv, Apart
<1>10. ASSUME NEW t \in Streams PROVE Ordered(Stream(t))'
  BY DEF FlowInv, AllOrdered, Ordered
<1>11. ASSUME NEW c \in Clients PROVE Ordered(buffer[c])'
  BY DEF FlowInv, AllOrdered, Ordered
<1>. QED
  BY <1>7, <1>8, <1>9, <1>10, <1>11 DEF FlowInv, AllOrdered

\* Every step keeps numbers, order and separation.
LEMMA FlowStep == TypeOK /\ HubInv /\ CallInv /\ MsgInv /\ FlowInv /\ [Next]_vars => FlowInv'
<1> SUFFICES ASSUME TypeOK, HubInv, CallInv, MsgInv, FlowInv, [Next]_vars
             PROVE  FlowInv'
  OBVIOUS
<1>0. /\ \A s \in Streams : delivered[s] \in Seq(Events) /\ chan[s] \in Seq(Events)
      /\ \A c \in Clients : buffer[c] \in Seq(Events)
  BY DEF TypeOK
<1>1. ASSUME NEW s \in Streams, NEW c \in Clients, NEW u \in UserIDs, Register(s, c, u)
      PROVE  FlowInv'
  <2>1. delivered'[s] = <<>> /\ chan'[s] = Replay(buffer[c])
    BY <1>1 DEF HubInv, TypeOK, Register, Attach
  <2>2. Stream(s)' = Replay(buffer[c])
    BY <1>0, <2>1, ReplayType, ConcatEmptySeq DEF Stream
  <2>3. \A t \in Streams : t # s => Stream(t)' = Stream(t)
    BY <1>1 DEF TypeOK, Register, Attach, Stream
  <2>. QED
    BY <1>1, <2>2, <2>3, FlowReplays DEF Register, Attach, WriteLockFree
<1>2. ASSUME NEW s \in Streams, Receive(s)
      PROVE  FlowInv'
  <2>1. Stream(s)' = Stream(s)
    <3>1. delivered'[s] = Append(delivered[s], Head(chan[s])) /\ chan'[s] = Tail(chan[s])
      BY <1>2 DEF TypeOK, Receive
    <3>. QED
      BY <1>0, <1>2, <3>1, ConcatShift DEF Receive, Stream
  <2>2. \A t \in Streams : Stream(t)' = Stream(t)
    BY <1>2, <2>1 DEF TypeOK, Receive, Stream
  <2>3. \A q \in Producers : Settles(q)
    BY <1>2, SameSettles DEF Receive
  <2>. QED
    BY <1>2, <2>2, <2>3, FlowShrinks DEF Receive, hubVars, streamVars
<1>3. ASSUME NEW s \in Streams, Disconnect(s)
      PROVE  FlowInv'
  <2>1. \A t \in Streams : Stream(t)' = Stream(t)
    BY <1>3 DEF Disconnect, Stream
  <2>2. \A q \in Producers : Settles(q)
    BY <1>3, SameSettles DEF Disconnect
  <2>. QED
    BY <1>3, <2>1, <2>2, FlowShrinks DEF Disconnect, hubVars
<1>4. ASSUME NEW s \in Streams, UnregisterIfCurrent(s)
      PROVE  FlowInv'
  <2>1. \A t \in Streams : Stream(t)' = Stream(t)
    BY <1>4 DEF UnregisterIfCurrent, Stream
  <2>2. \A q \in Producers : Settles(q)
    BY <1>4, SameSettles DEF UnregisterIfCurrent
  <2>3. \A c \in Clients : buffer'[c] = buffer[c] \/ buffer'[c] = <<>>
    BY <1>4 DEF TypeOK, UnregisterIfCurrent, hubVars
  <2>. QED
    BY <1>4, <2>1, <2>2, <2>3, FlowShrinks DEF UnregisterIfCurrent
<1>5. ASSUME NEW p \in Producers, Begin(p)
      PROVE  FlowInv'
  <2>1. Issue(p)
    BY <1>5 DEF Begin, Send, SendBlocking, Broadcast, BroadcastExcept, BroadcastToUser,
                StartBroadcast
  <2>2. \A t \in Streams : Stream(t)' = Stream(t)
    BY <2>1 DEF Issue, Stream
  <2>3. \A q \in Producers : q # p => call'[q] = call[q]
    <3>1. \E k : call' = [call EXCEPT ![p] = k]
      BY <1>5, Zenon DEF Begin, Send, SendBlocking, Broadcast, BroadcastExcept,
                         BroadcastToUser, StartBroadcast
    <3>. QED
      BY <3>1 DEF TypeOK
  <2>4. call'[p].pc # "idle" => call'[p].ev.id = issued + 1 /\ call'[p].ev.by = p
    <3>1. ASSUME NEW c \in Clients, Send(p, c) \/ SendBlocking(p, c)
          PROVE  call'[p].ev.id = issued + 1 /\ call'[p].ev.by = p
      <4>1. call'[p].ev = Directed(p, c)
        BY <3>1 DEF TypeOK, Send, SendBlocking
      <4>. QED
        BY <4>1 DEF Directed
    <3>2. ASSUME NEW o, NEW x, call'[p].pc # "idle",
                 StartBroadcast(p, [id |-> issued + 1, by |-> p, to |-> None,
                                    owner |-> o, except |-> x])
          PROVE  call'[p].ev.id = issued + 1 /\ call'[p].ev.by = p
      <4> DEFINE ev == [id |-> issued + 1, by |-> p, to |-> None, owner |-> o, except |-> x]
      <4>1. ev.id = issued + 1 /\ ev.by = p
        OBVIOUS
      <4>2. StartBroadcast(p, ev)
        BY <3>2
      <4> HIDE DEF ev
      <4>3. call'[p].ev = ev
        BY <3>2, <4>2 DEF TypeOK, StartBroadcast, Idle
      <4>. QED
        BY <4>1, <4>3
    <3>. QED
      BY <1>5, <3>1, <3>2 DEF Begin, Broadcast, BroadcastExcept, BroadcastToUser
  <2>. QED
    BY <2>1, <2>2, <2>3, <2>4, FlowBegins DEF Issue, hubVars, streamVars
<1>6. ASSUME NEW p \in Producers, call[p].pc \in {"offer", "wait"}, HasRoom(call[p].ch),
             chan' = [chan EXCEPT ![call[p].ch] = Append(@, call[p].ev)],
             call' = [call EXCEPT ![p] = Idle],
             UNCHANGED <<hubVars, streamVars, delivered, issued>>
      PROVE  FlowInv'
  <2>0. PICK s \in Streams, ev \in Events : s = call[p].ch /\ ev = call[p].ev
    BY <1>6, CallType
  <2>1. /\ p \in Busy /\ HasRoom(s)
        /\ chan' = [chan EXCEPT ![s] = Append(@, ev)]
    BY <1>6, <2>0 DEF Busy
  <2>2. client[s] # None
    BY <1>6, <2>0 DEF CallInv, MsgInv, MsgCall
  <2>3. Stream(s)' = Append(Stream(s), ev)
    <3>1. chan'[s] = Append(chan[s], ev) /\ delivered'[s] = delivered[s]
      BY <1>6, <2>1 DEF TypeOK
    <3>. QED
      BY <2>1, <3>1, StreamGrows
  <2>4. \A t \in Streams : t # s => Stream(t)' = Stream(t)
    BY <1>6, <2>1 DEF TypeOK, Stream
  <2>5. (\A q \in Producers : q # p => call'[q] = call[q]) /\ call'[p].pc = "idle"
    BY <1>6 DEF TypeOK, Idle
  <2>6. \A q \in Producers : Settles(q)
    BY <2>5, SameSettles DEF Settles
  <2>7. \A e \in Placed : e.by = p => e.id < ev.id
    BY <1>6, <2>0 DEF FlowInv, Pending
  <2>8. \A t \in Streams : \A e \in Got[t] : e.by = p => e.id < ev.id
    BY <2>7, PlacedIn
  <2>9. ev \notin Placed
    <3>1. \A e \in Events : ~(e.id < e.id)
      BY HubAssumption DEF Events
    <3>. QED
      BY <2>0, <2>1, <2>7, <3>1 DEF FlowInv, Numbered
  <2>10. \A c \in Clients : ev \notin Kept[c]
    BY <2>9, PlacedIn
  <2>11. Pending(p)'
    BY <2>5 DEF Pending
  <2>12. UNCHANGED <<issued, client, buffer>>
    BY <1>6 DEF hubVars, streamVars
  <2>13. Fresh(p, s) /\ Takes(p, s)
    BY <2>0, <2>3, <2>4, <2>8, <2>10, <2>12 DEF Fresh, Takes
  <2>. QED
    BY <2>1, <2>2, <2>6, <2>11, <2>13, FlowGrows
<1>7. ASSUME NEW p \in Producers, Offer(p)
      PROVE  FlowInv'
  <2>1. CASE HasRoom(call[p].ch)
    BY <1>6, <1>7, <2>1 DEF Offer
  <2>2. CASE ~HasRoom(call[p].ch)
    <3>1. \A t \in Streams : Stream(t)' = Stream(t)
      BY <1>7, <2>2 DEF Offer, Stream
    <3>2. /\ \A q \in Producers : q # p => call'[q] = call[q]
          /\ call'[p].pc = "buffer" /\ call'[p].ev = call[p].ev
      BY <1>7, <2>2 DEF TypeOK, Offer
    <3>3. \A q \in Producers : Settles(q)
      BY <1>7, <3>2, SameSettles DEF Settles, Offer
    <3>. QED
      BY <1>7, <3>1, <3>3, FlowShrinks DEF Offer, hubVars, streamVars
  <2>. QED
    BY <2>1, <2>2
<1>8. ASSUME NEW p \in Producers, Accept(p)
      PROVE  FlowInv'
  BY <1>6, <1>8 DEF Accept
<1>9. ASSUME NEW p \in Producers, BufferEvent(p)
      PROVE  FlowInv'
  <2>1. (\A q \in Producers : q # p => call'[q] = call[q]) /\ call'[p].pc = "idle"
    BY <1>9 DEF TypeOK, BufferEvent, Idle
  <2>2. \A q \in Producers : Settles(q)
    BY <2>1, SameSettles DEF Settles
  <2>3. \A t \in Streams : Stream(t)' = Stream(t)
    BY <1>9 DEF BufferEvent, Stream
  <2>4. CASE MaxBuffer = 0
    BY <1>9, <2>2, <2>3, <2>4, FlowShrinks DEF BufferEvent, streamVars
  <2>5. CASE MaxBuffer # 0
    <3>1. call[p].ev.to \in Clients
      BY <1>9 DEF BufferEvent, MsgInv, MsgCall
    <3>. QED
      BY <1>9, <2>1, <2>2, <2>3, <2>5, <3>1, FlowBuffers DEF BufferEvent, streamVars
  <2>. QED
    BY <2>4, <2>5
<1>10. ASSUME NEW p \in Producers, Cancel(p)
       PROVE  FlowInv'
  <2>1. (\A q \in Producers : q # p => call'[q] = call[q]) /\ call'[p].pc = "idle"
    BY <1>10 DEF TypeOK, Cancel, Idle
  <2>2. \A q \in Producers : Settles(q)
    BY <2>1, SameSettles DEF Settles
  <2>3. \A t \in Streams : Stream(t)' = Stream(t)
    BY <1>10 DEF Cancel, Stream
  <2>. QED
    BY <1>10, <2>2, <2>3, FlowShrinks DEF Cancel, hubVars, streamVars
<1>11. ASSUME NEW p \in Producers, NEW c \in Clients, BroadcastTo(p, c)
       PROVE  FlowInv'
  <2>0. PICK ev \in Events : ev = call[p].ev
    BY <1>11, CallType DEF BroadcastTo
  <2>1. /\ call[p].pc = "iterate" /\ p \in Busy
        /\ ev.to = None /\ c \in call[p].left /\ c \in Addressed(ev)
    BY <1>11, <2>0 DEF BroadcastTo, Busy, MsgInv, MsgCall
  <2>2. PICK s \in Streams : s = clients[c] /\ client[s] = c
    BY <2>1 DEF Addressed, TypeOK, HubInv
  <2>3. /\ \A q \in Producers : q # p => call'[q] = call[q]
        /\ \/ call'[p].pc = "idle"
           \/ call'[p].pc = "iterate" /\ call'[p].ev = ev /\ call'[p].left = call[p].left \ {c}
    BY <1>11, <2>0 DEF TypeOK, BroadcastTo, Idle
  <2>4. \A q \in Producers : Settles(q)
    BY <2>0, <2>1, <2>3, SameSettles DEF Settles
  <2>5. UNCHANGED <<issued, client, buffer, delivered>>
    BY <1>11 DEF BroadcastTo, hubVars, streamVars
  <2>6. CASE ~HasRoom(s)
    <3>1. \A t \in Streams : Stream(t)' = Stream(t)
      BY <1>11, <2>2, <2>6 DEF BroadcastTo, Stream
    <3>. QED
      BY <2>4, <2>5, <3>1, FlowShrinks
  <2>7. CASE HasRoom(s)
    <3>1. chan' = [chan EXCEPT ![s] = Append(chan[s], ev)]
      BY <1>11, <2>0, <2>2, <2>7 DEF BroadcastTo
    <3>2. Stream(s)' = Append(Stream(s), ev)
      <4>1. chan'[s] = Append(chan[s], ev) /\ delivered'[s] = delivered[s]
        BY <2>2, <2>5, <3>1 DEF TypeOK
      <4>. QED
        BY <2>1, <2>2, <4>1, StreamGrows
    <3>3. \A t \in Streams : t # s => Stream(t)' = Stream(t)
      BY <2>2, <2>5, <3>1 DEF TypeOK, Stream
    <3>4. \A t \in Streams : client[t] \in call[p].left =>
              \A e \in Got[t] : e.by = p => e.id < ev.id
      BY <2>0, <2>1 DEF FlowInv, Pending
    <3>5. \A d \in Clients : client[s] = d => ev \notin Kept[d]
      BY <2>1, <2>2 DEF MsgInv, MsgRing, Plain, Kept
    <3>6. Pending(p)'
      <4>1. \A t \in Streams : t # s => Got'[t] = Got[t]
        BY <3>3 DEF Got
      <4>2. ASSUME call'[p].pc = "iterate", NEW t \in Streams, client[t] \in call'[p].left
            PROVE  t # s /\ client[t] \in call[p].left /\ call'[p].ev = ev
        BY <2>2, <2>3, <4>2
      <4>. QED
        BY <2>3, <2>5, <3>4, <4>1, <4>2 DEF Pending
    <3>7. client[s] # None
      BY <2>2
    <3>8. \A t \in Streams : client[t] = client[s] =>
              \A e \in Got[t] : e.by = p => e.id < ev.id
      BY <2>1, <2>2, <3>4
    <3>9. Fresh(p, s) /\ Takes(p, s)
      BY <2>0, <2>5, <3>2, <3>3, <3>5, <3>8 DEF Fresh, Takes
    <3>. QED
      BY <2>1, <2>2, <2>4, <3>6, <3>7, <3>9, FlowGrows
  <2>. QED
    BY <2>6, <2>7
<1>12. CASE UNCHANGED vars
  <2>1. \A t \in Streams : Stream(t)' = Stream(t)
    BY <1>12 DEF vars, Stream
  <2>2. \A q \in Producers : Settles(q)
    BY <1>12, SameSettles DEF vars
  <2>. QED
    BY <1>12, <2>1, <2>2, FlowShrinks DEF vars
<1>. QED
  BY <1>1, <1>2, <1>3, <1>4, <1>5, <1>7, <1>8, <1>9, <1>10, <1>11, <1>12
     DEF Next, ProducerNext, StreamNext, Continue

LEMMA FlowInit == Init => FlowInv
<1> SUFFICES ASSUME Init PROVE FlowInv
  OBVIOUS
<1>1. <<>> \in Seq(Events) /\ Len(<<>>) = 0 /\ Elems(<<>>) = {} /\ Ordered(<<>>)
  BY EmptySeq DEF Elems, Ordered
<1>2. \A s \in Streams : Stream(s) = <<>>
  <2>1. <<>> \o <<>> = <<>>
    BY <1>1, ConcatEmptySeq
  <2>. QED
    BY <2>1 DEF Init, Stream
<1>3. \A c \in Clients : buffer[c] = <<>>
  BY DEF Init
<1>4. (\A s \in Streams : Got[s] = {}) /\ (\A c \in Clients : Kept[c] = {})
  BY <1>1, <1>2, <1>3 DEF Got, Kept
<1>5. \A p \in Producers : call[p].pc = "idle"
  BY DEF Init, Idle
<1>6. Held = {}
  BY <1>4, <1>5, PlacedIn DEF Held, Busy
<1>. QED
  BY <1>1, <1>2, <1>3, <1>4, <1>5, <1>6
     DEF FlowInv, Numbered, AllOrdered, Pending, Apart, Busy

\* What one producer issues reaches a stream in the order it was issued, for
\* every interleaving of sends, replays and reconnects.
THEOREM OrderKept == Spec => []ProducerOrder
<1>1. FlowInv => ProducerOrder
  BY DEF FlowInv, AllOrdered, Ordered, ProducerOrder
<1>2. Init => MsgInv
  BY DEF Init, MsgInv, MsgCall, MsgRing, MsgStream, Idle, Elems
<1>. QED
  BY <1>1, <1>2, FlowInit, HubCorrect, MsgStep, FlowStep, PTL DEF Spec

\* A set without two different members has at most one.
LEMMA AtMostOneMember ==
    ASSUME NEW S, \A x, y \in S : x = y
    PROVE  Cardinality(S) \in {0, 1} /\ (Cardinality(S) = 0 <=> S = {})
<1>1. CASE S = {}
  BY <1>1, FS_EmptySet
<1>2. CASE S # {}
  <2>1. PICK x : x \in S
    BY <1>2
  <2>2. S = {x}
    BY <2>1
  <2>. QED
    BY <1>2, <2>2, FS_Singleton
<1>. QED
  BY <1>1, <1>2

\* Of three such sets only one has a member.
LEMMA OnePlace ==
    ASSUME NEW A, NEW B, NEW C,
           \A x, y \in A : x = y, \A x, y \in B : x = y, \A x, y \in C : x = y,
           A = {} \/ B = {}, A = {} \/ C = {}, B = {} \/ C = {}
    PROVE  Cardinality(A) + Cardinality(B) + Cardinality(C) <= 1
<1>1. Cardinality(A) \in {0, 1} /\ (Cardinality(A) = 0 <=> A = {})
  BY AtMostOneMember
<1>2. Cardinality(B) \in {0, 1} /\ (Cardinality(B) = 0 <=> B = {})
  BY AtMostOneMember
<1>3. Cardinality(C) \in {0, 1} /\ (Cardinality(C) = 0 <=> C = {})
  BY AtMostOneMember
<1>. QED
  BY <1>1, <1>2, <1>3

LEMMA OnceFlow == TypeOK /\ HubInv /\ MsgInv /\ FlowInv => AtMostOnce
<1> SUFFICES ASSUME TypeOK, HubInv, MsgInv, FlowInv, NEW c \in Clients, NEW n \in 1..MaxEvents
             PROVE  Cardinality(InStreams(c, n)) + Cardinality(InRing(c, n))
                        + Cardinality(InCalls(c, n)) <= 1
  BY DEF AtMostOnce
<1> DEFINE A == InStreams(c, n)
           B == InRing(c, n)
           C == InCalls(c, n)
<1>0. \A e, f \in Held : e.id = f.id => e = f
  BY DEF FlowInv, Numbered
<1>1. \A e \in Held : e.id \in Nat
  <2>1. \A e \in Events : e.id \in Nat
    BY DEF Events
  <2>. QED
    BY <2>1, HeldType
<1>2. ASSUME NEW x \in A
      PROVE  /\ x[1] \in Streams /\ client[x[1]] = c /\ x[2] \in DOMAIN Stream(x[1])
             /\ Stream(x[1])[x[2]] \in Got[x[1]] /\ Stream(x[1])[x[2]] \in Placed
             /\ Stream(x[1])[x[2]].id = n
             /\ x = <<x[1], x[2]>>
  <2>1. /\ x[1] \in Streams /\ client[x[1]] = c /\ x[2] \in DOMAIN Stream(x[1])
        /\ Stream(x[1])[x[2]].id = n /\ x = <<x[1], x[2]>>
    BY DEF InStreams
  <2>2. Stream(x[1])[x[2]] \in Elems(Stream(x[1]))
    BY <2>1, StreamType, LenProperties DEF Elems
  <2>3. Stream(x[1])[x[2]] \in Got[x[1]]
    BY <2>1, <2>2 DEF Got
  <2>. QED
    BY <2>1, <2>3, PlacedIn
<1>3. ASSUME NEW i \in B
      PROVE  /\ i \in DOMAIN buffer[c] /\ buffer[c][i] \in Kept[c]
             /\ buffer[c][i] \in Placed /\ buffer[c][i].id = n
             /\ buffer[c][i].to = c
  <2>1. i \in DOMAIN buffer[c] /\ buffer[c][i].id = n
    BY DEF InRing
  <2>2. buffer[c][i] \in Elems(buffer[c])
    BY <2>1, LenProperties DEF TypeOK, Elems
  <2>3. buffer[c][i] \in Kept[c] /\ buffer[c][i].to = c
    BY <2>2 DEF Kept, MsgInv, MsgRing, Plain
  <2>. QED
    BY <2>1, <2>3, PlacedIn
<1>4. ASSUME NEW p \in C
      PROVE  /\ p \in Producers /\ p \in Busy /\ call[p].ev \in Held
             /\ call[p].ev.id = n /\ call[p].ev.by = p
             /\ \/ /\ call[p].pc \in {"offer", "wait", "buffer"}
                \/ /\ call[p].pc = "iterate" /\ c \in call[p].left
                   /\ call[p].ev.to = None
  <2>1. /\ p \in Producers /\ p \in Busy /\ call[p].ev.id = n
        /\ call[p].ev.to = c \/ (call[p].pc = "iterate" /\ c \in call[p].left)
    BY DEF InCalls, Busy
  <2>2. call[p].ev \in Held /\ call[p].ev.by = p
    BY <2>1 DEF Held, FlowInv, Numbered
  <2>. QED
    BY <2>1, <2>2, CallType DEF MsgInv, MsgCall, Busy
<1>5. Placed \subseteq Held
  BY DEF Held
<1>6. ASSUME NEW x \in A, NEW y \in A PROVE x = y
  <2>1. Stream(x[1])[x[2]] = Stream(y[1])[y[2]]
    BY <1>0, <1>2, <1>5
  <2>2. x[1] = y[1]
    BY <1>2, <2>1 DEF FlowInv, Apart
  <2>3. x[2] \in Nat /\ y[2] \in Nat
    BY <1>2, StreamType, LenProperties
  <2>4. ~(x[2] < y[2]) /\ ~(y[2] < x[2])
    BY <1>1, <1>2, <1>5, <2>1, <2>2 DEF FlowInv, AllOrdered, Ordered
  <2>. QED
    BY <1>2, <2>2, <2>3, <2>4
<1>7. ASSUME NEW i \in B, NEW j \in B PROVE i = j
  <2>1. buffer[c][i] = buffer[c][j]
    BY <1>0, <1>3, <1>5
  <2>2. i \in Nat /\ j \in Nat
    BY <1>3, LenProperties DEF TypeOK
  <2>3. ~(i < j) /\ ~(j < i)
    BY <1>1, <1>3, <1>5, <2>1 DEF FlowInv, AllOrdered, Ordered
  <2>. QED
    BY <2>2, <2>3
<1>8. ASSUME NEW p \in C, NEW q \in C PROVE p = q
  BY <1>0, <1>4
<1>9. A = {} \/ B = {}
  <2> SUFFICES ASSUME NEW x \in A, NEW i \in B PROVE FALSE
    OBVIOUS
  <2>1. Stream(x[1])[x[2]] = buffer[c][i]
    BY <1>0, <1>2, <1>3, <1>5
  <2>. QED
    BY <1>2, <1>3, <2>1 DEF FlowInv, Apart
<1>10. A = {} \/ C = {}
  <2> SUFFICES ASSUME NEW x \in A, NEW p \in C PROVE FALSE
    OBVIOUS
  <2>1. Stream(x[1])[x[2]] = call[p].ev
    BY <1>0, <1>2, <1>4, <1>5
  <2>2. call[p].ev.id < call[p].ev.id
    BY <1>2, <1>4, <2>1 DEF FlowInv, Pending
  <2>. QED
    BY <1>1, <1>4, <2>2
<1>11. B = {} \/ C = {}
  <2> SUFFICES ASSUME NEW i \in B, NEW p \in C PROVE FALSE
    OBVIOUS
  <2>1. buffer[c][i] = call[p].ev
    BY <1>0, <1>3, <1>4, <1>5
  <2>2. call[p].pc \in {"offer", "wait", "buffer"}
    BY <1>3, <1>4, <2>1
  <2>3. call[p].ev.id < call[p].ev.id
    BY <1>3, <1>4, <2>1, <2>2 DEF FlowInv, Pending
  <2>. QED
    BY <1>1, <1>4, <2>3
<1> HIDE DEF A, B, C
<1>12. Cardinality(A) + Cardinality(B) + Cardinality(C) <= 1
  BY <1>6, <1>7, <1>8, <1>9, <1>10, <1>11, OnePlace
<1>. QED
  BY <1>12 DEF A, B, C

\* No event reaches a client twice: over its streams, its ring and the calls
\* under way there is one copy at most, however often it reconnects.
THEOREM DeliveredOnce == Spec => []AtMostOnce
<1>1. Init => MsgInv
  BY DEF Init, MsgInv, MsgCall, MsgRing, MsgStream, Idle, Elems
<1>. QED
  BY <1>1, OnceFlow, FlowInit, HubCorrect, MsgStep, FlowStep, PTL DEF Spec
==============================================================================
