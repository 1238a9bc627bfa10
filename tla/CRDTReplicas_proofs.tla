-------------------------- MODULE CRDTReplicas_proofs --------------------------
(***************************************************************************)
(* Proof about CRDTReplicas: messages that were dropped or not imported    *)
(* are made up for by later ones, for any number of servers, todos,        *)
(* operations and restarts.                                                *)
(***************************************************************************)
EXTENDS CRDTReplicas, TLAPS

Elems(q) == {q[i] : i \in DOMAIN q}

\* q is a sequence (of whatever is in it).
IsSeq(q) == \E S : q \in Seq(S)

LEMMA AppendFacts ==
    ASSUME NEW q, IsSeq(q), NEW m
    PROVE  IsSeq(Append(q, m)) /\ Elems(Append(q, m)) = Elems(q) \union {m}
<1> PICK S : q \in Seq(S)
  BY DEF IsSeq
<1>1. /\ Append(q, m) \in Seq(S \union {m})
      /\ DOMAIN q = 1..Len(q) /\ Len(q) \in Nat
      /\ DOMAIN Append(q, m) = 1..(Len(q) + 1)
  OBVIOUS
<1>2. /\ \A i \in DOMAIN q : Append(q, m)[i] = q[i]
      /\ Append(q, m)[Len(q) + 1] = m
  BY <1>1
<1>3. Elems(Append(q, m)) = Elems(q) \union {m}
  <2>1. Elems(Append(q, m)) \subseteq Elems(q) \union {m}
    BY <1>1, <1>2 DEF Elems
  <2>2. Elems(q) \union {m} \subseteq Elems(Append(q, m))
    <3>1. m \in Elems(Append(q, m))
      <4>1. Len(q) + 1 \in DOMAIN Append(q, m)
        BY <1>1
      <4> QED BY <4>1, <1>2 DEF Elems
    <3>2. \A i \in DOMAIN q : q[i] \in Elems(Append(q, m))
      <4>1. \A i \in DOMAIN q : i \in DOMAIN Append(q, m)
        BY <1>1
      <4> QED BY <4>1, <1>2 DEF Elems
    <3> QED BY <3>1, <3>2 DEF Elems
  <2> QED BY <2>1, <2>2
<1> QED BY <1>1, <1>3 DEF IsSeq

LEMMA TailFacts ==
    ASSUME NEW q, IsSeq(q), q # <<>>
    PROVE  /\ IsSeq(Tail(q))
           /\ Elems(q) = {Head(q)} \union Elems(Tail(q))
<1> PICK S : q \in Seq(S)
  BY DEF IsSeq
<1>1. /\ DOMAIN q = 1..Len(q) /\ Len(q) \in Nat \ {0}
      /\ DOMAIN Tail(q) = 1..(Len(q) - 1)
      /\ Len(Tail(q)) = Len(q) - 1
      /\ Head(q) = q[1]
  OBVIOUS
<1>2. \A i \in 1..(Len(q) - 1) : Tail(q)[i] = q[i + 1]
  BY <1>1
<1>3. Tail(q) \in Seq(S)
  OBVIOUS
<1>4. Elems(q) \subseteq {Head(q)} \union Elems(Tail(q))
  <2> SUFFICES ASSUME NEW i \in DOMAIN q
               PROVE  q[i] \in {Head(q)} \union Elems(Tail(q))
    BY DEF Elems
  <2>1. CASE i = 1
    BY <2>1, <1>1
  <2>2. CASE i # 1
    <3>1. i - 1 \in DOMAIN Tail(q) /\ Tail(q)[i - 1] = q[i]
      BY <2>2, <1>1, <1>2
    <3> QED BY <3>1 DEF Elems
  <2> QED BY <2>1, <2>2
<1>5. {Head(q)} \union Elems(Tail(q)) \subseteq Elems(q)
  <2>1. 1 \in DOMAIN q
    BY <1>1
  <2>2. \A i \in DOMAIN Tail(q) : i + 1 \in DOMAIN q /\ Tail(q)[i] = q[i + 1]
    BY <1>1, <1>2
  <2> QED BY <2>1, <2>2, <1>1 DEF Elems
<1> QED BY <1>3, <1>4, <1>5 DEF IsSeq

-------------------------------------------------------------------------------
(* The invariant. *)

\* The message with the last document of r that the stream accepted has yet to
\* be delivered to s.
OnTheWay(r, s) ==
    \E m \in Elems(inbox[s]) : m.from = r /\ m.updates = shipped[r]

Shape ==
    /\ far = [s \in Servers |-> far[s]]
    /\ inbox = [s \in Servers |-> inbox[s]]
    /\ shipped = [s \in Servers |-> shipped[s]]
    /\ \A s \in Servers : IsSeq(inbox[s])

\* What the stream accepted last from a server, every other has, or is about to
\* be given, or has skipped.
ShippedArrives ==
    \A s, r \in Servers : s # r =>
        \/ <<r, s>> \in skipped
        \/ shipped[r] \subseteq far[s]
        \/ OnTheWay(r, s)

IInv == Shape /\ ShippedArrives

LEMMA EmptyIsSeq == IsSeq(<<>>)
<1>1. <<>> \in Seq({})
  OBVIOUS
<1> QED BY <1>1 DEF IsSeq

LEMMA InitHolds == Init => IInv
BY EmptyIsSeq DEF Init, IInv, Shape, ShippedArrives

LEMMA SendStep ==
    ASSUME IInv, NEW s \in Servers, NEW id, NEW d, far' = far, Send(s, id, d)
    PROVE  IInv'
<1> USE DEF IInv, Shape
<1>1. CASE UNCHANGED <<inbox, window, shipped, skipped>>
  BY <1>1 DEF ShippedArrives, OnTheWay
<1>2. CASE /\ inbox' = [r \in Servers |->
                 Append(inbox[r], [from |-> s, by |-> peer[s], updates |-> d])]
           /\ shipped' = [shipped EXCEPT ![s] = d]
           /\ skipped' = skipped \ ({s} \X Servers)
  <2> DEFINE m == [from |-> s, by |-> peer[s], updates |-> d]
  <2>1. \A r \in Servers : IsSeq(inbox'[r]) /\ Elems(inbox'[r]) = Elems(inbox[r]) \union {m}
    BY <1>2, AppendFacts
  <2>2. /\ shipped'[s] = d
        /\ \A r \in Servers \ {s} : shipped'[r] = shipped[r]
    BY <1>2
  <2>3. m.from = s /\ m.updates = d
    OBVIOUS
  <2> HIDE DEF m
  <2>4. ShippedArrives'
    <3> SUFFICES ASSUME NEW q \in Servers, NEW r \in Servers, q # r
                 PROVE  \/ <<r, q>> \in skipped'
                        \/ shipped'[r] \subseteq far'[q]
                        \/ OnTheWay(r, q)'
      BY DEF ShippedArrives
    <3>1. CASE r = s
      BY <3>1, <2>1, <2>2, <2>3 DEF OnTheWay
    <3>2. CASE r # s
      <4>1. <<r, q>> \in skipped => <<r, q>> \in skipped'
        BY <3>2, <1>2
      <4>2. OnTheWay(r, q) => OnTheWay(r, q)'
        BY <3>2, <2>1, <2>2 DEF OnTheWay
      <4> QED BY <4>1, <4>2, <3>2, <2>2 DEF ShippedArrives
    <3> QED BY <3>1, <3>2
  <2> QED BY <2>1, <2>4, <1>2
<1> QED BY <1>1, <1>2 DEF Send

\* A local operation touches what others know of it only by sending.
LEMMA LocalStep ==
    ASSUME IInv, NEW s \in Servers, NEW id, NEW new, Perform(s, new, id)
    PROVE  IInv'
<1>1. far' = far /\ Send(s, id, doc'[s])
  BY DEF Perform, Send
<1> QED BY <1>1, SendStep

\* A message that leaves an inbox is imported or skipped, unless it is the
\* server's own.
LEMMA DeliverStep ==
    ASSUME IInv, NEW s \in Servers, Deliver(s)
    PROVE  IInv'
<1> USE DEF IInv, Shape
<1> DEFINE m == Head(inbox[s])
           last == IF m.updates = shipped[m.from] THEN {<<m.from, s>>} ELSE {}
<1>1. /\ inbox[s] # <<>>
      /\ inbox'[s] = Tail(inbox[s])
      /\ \A r \in Servers \ {s} : inbox'[r] = inbox[r]
      /\ inbox' = [r \in Servers |-> inbox'[r]]
      /\ shipped' = shipped
  BY DEF Deliver
<1>2. \/ m.from = s /\ UNCHANGED <<far, skipped>>
      \/ far' = [far EXCEPT ![s] = @ \union m.updates] /\ skipped' = skipped \ last
      \/ far' = far /\ skipped' = skipped \union last
  BY DEF Deliver
<1>3. /\ IsSeq(inbox'[s])
      /\ Elems(inbox[s]) = {m} \union Elems(inbox'[s])
  BY <1>1, TailFacts
<1>4. far' = [r \in Servers |-> far'[r]] /\ \A r \in Servers : far[r] \subseteq far'[r]
  BY <1>2
<1> HIDE DEF m
<1>5. ShippedArrives'
  <2> SUFFICES ASSUME NEW q \in Servers, NEW r \in Servers, q # r
               PROVE  \/ <<r, q>> \in skipped'
                      \/ shipped'[r] \subseteq far'[q]
                      \/ OnTheWay(r, q)'
    BY DEF ShippedArrives
  <2>1. CASE q # s
    <3>1. <<r, q>> \in skipped => <<r, q>> \in skipped'
      BY <2>1, <1>2
    <3>2. OnTheWay(r, q) => OnTheWay(r, q)'
      BY <2>1, <1>1 DEF OnTheWay
    <3> QED BY <3>1, <3>2, <1>1, <1>4 DEF ShippedArrives
  <2>2. CASE q = s /\ m.from = r /\ m.updates = shipped[r]
    <3>1. CASE far' = [far EXCEPT ![s] = @ \union m.updates]
      BY <3>1, <2>2, <1>1
    <3>2. CASE skipped' = skipped \union last
      BY <3>2, <2>2
    <3> QED BY <3>1, <3>2, <2>2, <1>2
  <2>3. CASE q = s /\ ~(m.from = r /\ m.updates = shipped[r])
    <3>1. <<r, q>> \notin last
      BY <2>3
    <3>2. <<r, q>> \in skipped => <<r, q>> \in skipped'
      BY <3>1, <1>2
    <3>3. OnTheWay(r, q) => OnTheWay(r, q)'
      BY <2>3, <1>1, <1>3 DEF OnTheWay
    <3> QED BY <3>2, <3>3, <1>1, <1>4 DEF ShippedArrives
  <2> QED BY <2>1, <2>2, <2>3
<1>6. \A r \in Servers : IsSeq(inbox'[r])
  BY <1>1, <1>3
<1> QED BY <1>1, <1>4, <1>5, <1>6

\* A restart empties the document of ">" and counts as having skipped all.
LEMMA RestartStep ==
    ASSUME IInv, NEW s \in Servers, Restart(s)
    PROVE  IInv'
<1> USE DEF IInv, Shape
<1>1. /\ shipped' = shipped
      /\ far' = [far EXCEPT ![s] = {}]
      /\ skipped' = skipped \union (Servers \X {s})
  BY DEF Restart
<1>2. PICK q \in {inbox[r] : r \in Servers} \union {<<>>} :
          inbox' = [inbox EXCEPT ![s] = q]
  BY DEF Restart
<1>3. IsSeq(q)
  BY EmptyIsSeq
<1>4. \A r \in Servers : IsSeq(inbox'[r])
  BY <1>2, <1>3
<1>5. \A r \in Servers \ {s} : inbox'[r] = inbox[r] /\ far'[r] = far[r]
  BY <1>1, <1>2
<1>6. ShippedArrives'
  BY <1>1, <1>5 DEF ShippedArrives, OnTheWay
<1> QED BY <1>1, <1>2, <1>4, <1>6

LEMMA NextKeeps ==
    ASSUME IInv, [Next]_vars
    PROVE  IInv'
<1>1. ASSUME NEW s \in Servers, NEW t \in Todos, Create(s, t)
      PROVE  IInv'
  BY <1>1, LocalStep DEF Create
<1>2. ASSUME NEW s \in Servers, NEW t \in Todos, Delete(s, t)
      PROVE  IInv'
  BY <1>2, LocalStep DEF Delete
<1>3. ASSUME NEW s \in Servers, NEW t \in Todos, NEW v, Update(s, t, v)
      PROVE  IInv'
  BY <1>3, LocalStep DEF Update
<1>4. ASSUME NEW s \in Servers, ClearCompleted(s)
      PROVE  IInv'
  BY <1>4, LocalStep DEF ClearCompleted
<1>5. ASSUME NEW s \in Servers, Deliver(s) PROVE IInv'
  BY <1>5, DeliverStep
<1>6. ASSUME NEW s \in Servers, Restart(s) PROVE IInv'
  BY <1>6, RestartStep
<1>7. ASSUME UNCHANGED <<far, inbox, shipped, skipped>> PROVE IInv'
  BY <1>7 DEF IInv, Shape, ShippedArrives, OnTheWay
<1> QED
  BY <1>1, <1>2, <1>3, <1>4, <1>5, <1>6, <1>7 DEF Next, Expire, OtherOwnerClears, vars

\* Once everything is delivered, a server has got the whole of what the stream
\* last accepted from another, whatever the stream dropped as a duplicate, lost
\* or was never given and whatever failed to be imported before: unless the
\* server failed to import that last document itself, or has lost it since in a
\* restart.
THEOREM DropsAreHealed == Spec => []DropsHeal
<1>1. IInv => DropsHeal
  <2> SUFFICES ASSUME IInv, Delivered, NEW s \in Servers, NEW r \in Servers,
                      s # r, <<r, s>> \notin skipped
               PROVE  shipped[r] \subseteq far[s]
    BY DEF DropsHeal
  <2>1. Elems(inbox[s]) = {}
    BY DEF Delivered, Elems
  <2> QED BY <2>1 DEF IInv, ShippedArrives, OnTheWay
<1>2. IInv /\ [Next]_vars => IInv'
  BY NextKeeps
<1> QED BY InitHolds, <1>1, <1>2, PTL DEF Spec
===============================================================================
