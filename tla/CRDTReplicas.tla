------------------------------ MODULE CRDTReplicas ------------------------------
(***************************************************************************)
(* features/store/crdtstore/transport.go with the operations of            *)
(* crdtstore.go, wired as internal/server/crdtstore_wire.go does: one      *)
(* owner's todo document on several servers, the JetStream stream that     *)
(* carries it, and on each server the document of the "owner" that the     *)
(* subscription names, ">", into which everything received goes.  Loro is  *)
(* external: a document is the set of operations it has seen, importing is *)
(* union, and of two writes the one with the later Lamport time, then the  *)
(* greater peer ID, counts.  CRDTStore has the steps of a projection; here *)
(* a projection either gets through or leaves each record old or new.      *)
(* Other owners' todos, which go to ">" too, have other IDs and are left   *)
(* out.                                                                    *)
(***************************************************************************)
EXTENDS Naturals, Sequences, FiniteSets

CONSTANTS
    Servers,
    Todos,       \* todo IDs
    PeerIDs,     \* Loro peer IDs; a new document draws one
    FirstPeers,  \* the ones the servers' first documents drew
    MaxOps,      \* bound: operations requested in a behaviour
    MaxRestarts  \* bound: restarts in a behaviour

ASSUME ReplicasAssumption ==
    /\ PeerIDs \subseteq Nat
    /\ FirstPeers \in [Servers -> PeerIDs]
    /\ \A s, r \in Servers : s # r => FirstPeers[s] # FirstPeers[r]
    /\ MaxOps \in Nat
    /\ MaxRestarts \in Nat

VARIABLES
    doc,        \* the owner's document on each server
    far,        \* the document of ">" on each server
    peer,       \* the peer ID of each server's document
    records,    \* the todos on record on each server
    inbox,      \* the stream's messages not yet delivered to each server
    window,     \* the message IDs in JetStream's duplicate window
    shipped,    \* the last document of each server that the stream accepted
    skipped,    \* history: <<r, s>> when s failed to import what it was last
                \* sent by r, or has lost it in a restart
    ops,        \* operations requested so far
    restarts    \* restarts so far

vars == <<doc, far, peer, records, inbox, window, shipped, skipped, ops, restarts>>

Gone == "gone"
Values == {"active", "completed", Gone}

\* An operation on the items map or on the fields of one entry.  An insert
\* makes a container, which is named by its stamp; set writes in one.
Stamps == Nat \X PeerIDs
Operations ==
    [kind : {"insert", "set"}, todo : Todos, at : Stamps, home : Stamps,
     val : Values \ {Gone}]
        \union [kind : {"delete"}, todo : Todos, at : Stamps]

MessageIDs == ({"create", "update", "delete"} \X Todos) \union {<<"clear">>}

\* A process draws its publisher ID anew, as it does its documents' peer IDs:
\* the peer ID stands for both.
Messages == [from : Servers, by : PeerIDs, updates : SUBSET Operations]

TypeOK ==
    /\ doc \in [Servers -> SUBSET Operations]
    /\ far \in [Servers -> SUBSET Operations]
    /\ peer \in [Servers -> PeerIDs]
    /\ records \in [Servers -> [Todos -> Values]]
    /\ inbox \in [Servers -> Seq(Messages)]
    /\ window \subseteq MessageIDs
    /\ shipped \in [Servers -> SUBSET Operations]
    /\ skipped \subseteq Servers \X Servers
    /\ ops \in 0..MaxOps
    /\ restarts \in 0..MaxRestarts

Init ==
    /\ doc = [s \in Servers |-> {}]
    /\ far = [s \in Servers |-> {}]
    /\ peer = FirstPeers
    /\ records = [s \in Servers |-> [t \in Todos |-> Gone]]
    /\ inbox = [s \in Servers |-> <<>>]
    /\ window = {}
    /\ shipped = [s \in Servers |-> {}]
    /\ skipped = {}
    /\ ops = 0
    /\ restarts = 0

-------------------------------------------------------------------------------
(* The document (Loro). *)

Later(x, y) == x[1] > y[1] \/ (x[1] = y[1] /\ x[2] > y[2])

\* The latest of some operations.
Latest(S) == CHOOSE o \in S : \A p \in S : p = o \/ Later(o.at, p.at)

Entries(d, t) == {o \in d : o.todo = t /\ o.kind # "set"}

\* What the document shows for todo t: nothing without an entry or when the
\* latest entry is a deletion, else the latest value in its container.
View(d, t) ==
    IF Entries(d, t) = {} \/ Latest(Entries(d, t)).kind = "delete"
    THEN Gone
    ELSE Latest({o \in d : o.kind # "delete" /\ o.home = Latest(Entries(d, t)).at}).val

Shown(d) == [t \in Todos |-> View(d, t)]

\* The Lamport time of the next operation on d.
Tick(d) ==
    IF d = {} THEN 1 ELSE (CHOOSE o \in d : \A p \in d : p.at[1] <= o.at[1]).at[1] + 1

Insert(t, at, v) == [kind |-> "insert", todo |-> t, at |-> at, home |-> at, val |-> v]
Set(d, t, at, v) ==
    [kind |-> "set", todo |-> t, at |-> at, home |-> Latest(Entries(d, t)).at, val |-> v]
Remove(t, at) == [kind |-> "delete", todo |-> t, at |-> at]

\* The ways to write the todos of S one after the other, from clock on.
Orders(S, clock) ==
    {f \in [S -> clock..(clock + Cardinality(S) - 1)] :
        \A t, u \in S : t # u => f[t] # f[u]}

-------------------------------------------------------------------------------
(* The transport. *)

\* VARIANT: the message holds what is new since the server's last message.
Send_Delta(s, id, d) ==
    \/ /\ id \notin window
       /\ window' = window \union {id}
       /\ inbox' = [r \in Servers |->
             Append(inbox[r], [from |-> s, by |-> peer[s], updates |-> d \ doc[s]])]
       /\ shipped' = [shipped EXCEPT ![s] = d]
       /\ skipped' = skipped \ ({s} \X Servers)
    \/ UNCHANGED <<inbox, window, shipped, skipped>>

\* Publish of the exported document under a message ID: the stream drops it
\* when the ID is in its duplicate window, which is no error, and an export or
\* a publish that fails is logged.  Every subscriber gets what is accepted,
\* the publishing server included.
Send(s, id, d) ==
    \/ /\ id \notin window
       /\ window' = window \union {id}
       /\ inbox' = [r \in Servers |->
             Append(inbox[r], [from |-> s, by |-> peer[s], updates |-> d])]
       /\ shipped' = [shipped EXCEPT ![s] = d]
       /\ skipped' = skipped \ ({s} \X Servers)
    \/ UNCHANGED <<inbox, window, shipped, skipped>>

\* The records after a projection of d: complete, or as far as it got.
Projected(s) == Shown(doc'[s])
PartlyProjected(s) ==
    {r \in [Todos -> Values] : \A t \in Todos : r[t] \in {records[s][t], View(doc'[s], t)}}

\* A local operation: the document is changed, projected, and published if
\* the projection got through.
Perform(s, new, id) ==
    /\ ops < MaxOps
    /\ ops' = ops + 1
    /\ doc' = [doc EXCEPT ![s] = @ \union new]
    /\ \/ /\ records' = [records EXCEPT ![s] = Projected(s)]
          /\ Send(s, id, doc'[s])
       \/ /\ \E r \in PartlyProjected(s) : records' = [records EXCEPT ![s] = r]
          /\ UNCHANGED <<inbox, window, shipped, skipped>>
    /\ UNCHANGED <<far, peer, restarts>>

Create(s, t) ==
    /\ View(doc[s], t) = Gone
    /\ Perform(s, {Insert(t, <<Tick(doc[s]), peer[s]>>, "active")}, <<"create", t>>)

Update(s, t, v) ==
    /\ View(doc[s], t) # Gone
    /\ Perform(s, {Set(doc[s], t, <<Tick(doc[s]), peer[s]>>, v)}, <<"update", t>>)

Delete(s, t) ==
    /\ View(doc[s], t) # Gone
    /\ Perform(s, {Remove(t, <<Tick(doc[s]), peer[s]>>)}, <<"delete", t>>)

ClearCompleted(s) ==
    LET done == {t \in Todos : View(doc[s], t) = "completed"}
    IN /\ done # {}
       /\ \E f \in Orders(done, Tick(doc[s])) :
             Perform(s, {Remove(t, <<f[t], peer[s]>>) : t \in done}, <<"clear">>)

\* The subscription's handler drops what its process published and imports the
\* rest into the document of ">", whose todos no record can hold: an owner is a
\* user.  If that document cannot be loaded or the import fails, nothing is
\* imported.  Either error, like the projection's, is logged and the message
\* acknowledged all the same.
Deliver(s) ==
    LET m == Head(inbox[s])
        last == IF m.updates = shipped[m.from] THEN {<<m.from, s>>} ELSE {}
    IN /\ inbox[s] # <<>>
       /\ inbox' = [inbox EXCEPT ![s] = Tail(@)]
       /\ \/ /\ m.from = s /\ m.by = peer[s]
             /\ UNCHANGED <<far, skipped>>
          \/ /\ ~(m.from = s /\ m.by = peer[s])
             /\ far' = [far EXCEPT ![s] = @ \union m.updates]
             /\ skipped' = skipped \ last
          \/ /\ ~(m.from = s /\ m.by = peer[s])
             /\ skipped' = skipped \union last
             /\ UNCHANGED far
       /\ UNCHANGED <<doc, peer, records, window, shipped, ops, restarts>>

\* A message ID leaves the duplicate window after two minutes.
Expire(id) ==
    /\ window' = window \ {id}
    /\ id \in window
    /\ UNCHANGED <<doc, far, peer, records, inbox, shipped, skipped, ops, restarts>>

\* Another owner clears: the message ID names no owner.
OtherOwnerClears ==
    /\ window' = window \union {<<"clear">>}
    /\ UNCHANGED <<doc, far, peer, records, inbox, shipped, skipped, ops, restarts>>

\* The server goes down and comes up: doc() rebuilds the document from the
\* records, in some order, with a new peer ID and the clock at its beginning;
\* ">" has no records.  Its new subscription starts with what some server has
\* yet to acknowledge, or with nothing.
Restart(s) ==
    /\ restarts < MaxRestarts
    /\ restarts' = restarts + 1
    /\ \E p \in PeerIDs \ {peer[r] : r \in Servers} :
          LET kept == {t \in Todos : records[s][t] # Gone}
          IN /\ peer' = [peer EXCEPT ![s] = p]
             /\ \E f \in Orders(kept, 1) :
                   doc' = [doc EXCEPT ![s] =
                       {Insert(t, <<f[t], p>>, records[s][t]) : t \in kept}]
    /\ far' = [far EXCEPT ![s] = {}]
    /\ skipped' = skipped \union (Servers \X {s})
    /\ \E q \in {inbox[r] : r \in Servers} \union {<<>>} :
          inbox' = [inbox EXCEPT ![s] = q]
    /\ UNCHANGED <<records, window, shipped, ops>>

Next ==
    \/ \E s \in Servers :
          \/ \E t \in Todos : Create(s, t) \/ Delete(s, t)
          \/ \E t \in Todos, v \in Values \ {Gone} : Update(s, t, v)
          \/ ClearCompleted(s)
          \/ Deliver(s)
          \/ Restart(s)
    \/ \E id \in MessageIDs : Expire(id)
    \/ OtherOwnerClears

Spec == Init /\ [][Next]_vars

-------------------------------------------------------------------------------
Delivered == \A s \in Servers : inbox[s] = <<>>

\* Once everything is delivered, a server has got the whole of what the stream
\* last accepted from another, although messages before it were dropped as
\* duplicates, lost, never sent because a save failed, or not imported: every
\* message holds the whole document and makes up for those before it.  Nothing
\* makes up for the last one: the exception is a server that failed to import
\* that one, or has restarted since it was accepted.
DropsHeal ==
    Delivered => \A s, r \in Servers :
        s # r /\ <<r, s>> \notin skipped => shipped[r] \subseteq far[s]

\* What the comments of transport.go say of the subscription to ">": every
\* replica converges.  Claimed here only of servers that have had everything
\* they did accepted, delivered and imported.
ReplicasConverge ==
    (Delivered /\ skipped = {} /\ \A s \in Servers : doc[s] = shipped[s]) =>
        \A s, r \in Servers : Shown(doc[s]) = Shown(doc[r])
===============================================================================
