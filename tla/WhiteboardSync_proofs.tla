------------------------- MODULE WhiteboardSync_proofs -------------------------
(***************************************************************************)
(* Type correctness of WhiteboardSync; NoWriteUndone: no step takes a      *)
(* write back that a living server's document has seen; Convergence; and   *)
(* CalmAddsSurvive.                                                        *)
(*                                                                         *)
(* A merge cannot undo a write, for it keeps the newer one.  A local op    *)
(* writes at the clock's next tick, which is newer than what it overwrites *)
(* only if no write in the document is ahead of the document's clock.      *)
(* That has to hold of every document a merge may bring in as well: those  *)
(* on disk, in flight and in a writer's hands.                             *)
(***************************************************************************)
EXTENDS WhiteboardSync, TLAPS

\* No write of document d is ahead of d's clock.
Sound(d) == \A x \in Shapes : d.shape[x].at <= d.clock

DocsSound == \A s \in Servers : Sound(doc[s])
DisksSound == \A s \in Servers : Sound(disk[s])
SnapsSound == \A w \in Writers : Sound(snap[w])
NetSound == \A t, s \in Servers : \A i \in DOMAIN net[t][s] : Sound(net[t][s][i])

\* A request that is being handled has its server.
Handled == \A r \in Requests : Active(r) => srv[r] \in Servers

SyncInv ==
    /\ TypeOK
    /\ Handled
    /\ DocsSound
    /\ DisksSound
    /\ SnapsSound
    /\ NetSound

-------------------------------------------------------------------------------
(* The document. *)

\* The empty document of a new DocStore is sound.
LEMMA EmptyIsSound == Empty \in Documents /\ Sound(Empty)
BY DEF Empty, Documents, Entries, Sound

\* Doc.ApplyUpdate (Import) of a sound document into a sound one: the result
\* is sound and no write of the old document is replaced by an older one.
LEMMA MergeKeeps ==
    ASSUME NEW d \in Documents, NEW e \in Documents, Sound(d), Sound(e)
    PROVE  /\ Merge(d, e) \in Documents
           /\ Sound(Merge(d, e))
           /\ \A x \in Shapes : ~Newer(d.shape[x], Merge(d, e).shape[x])
<1>1. Merge(d, e) \in Documents
  BY DEF Merge, Documents, Entries, Later
<1>2. Sound(Merge(d, e))
  BY DEF Merge, Documents, Entries, Later, Sound
<1>3. \A x \in Shapes : ~Newer(d.shape[x], Merge(d, e).shape[x])
  BY DEF Merge, Documents, Entries, Newer
<1> QED BY <1>1, <1>2, <1>3

\* Doc.ApplyShapeOp on a sound document: likewise.
LEMMA ApplyKeeps ==
    ASSUME NEW d \in Documents, Sound(d), NEW me \in Nat, NEW o
    PROVE  /\ ApplyShapeOp(d, me, o) \in Documents
           /\ Sound(ApplyShapeOp(d, me, o))
           /\ \A x \in Shapes : ~Newer(d.shape[x], ApplyShapeOp(d, me, o).shape[x])
<1> DEFINE written == IF o = "clear" THEN Visible(d) ELSE {o} \ Visible(d)
           write == [at |-> d.clock + 1, by |-> me, live |-> o # "clear"]
           f == [x \in Shapes |-> IF x \in written THEN write ELSE d.shape[x]]
<1>1. ApplyShapeOp(d, me, o) = [clock |-> d.clock + 1, shape |-> f]
  BY DEF ApplyShapeOp
<1>2. write \in Entries /\ write.at = d.clock + 1 /\ d.clock + 1 \in Nat
  BY DEF Documents, Entries
<1>3. /\ d.clock \in Nat
      /\ \A x \in Shapes : d.shape[x] \in Entries /\ d.shape[x].at \in Nat
                           /\ d.shape[x].by \in Nat /\ d.shape[x].at <= d.clock
  BY DEF Documents, Entries, Sound
<1>4. \A x \in Shapes : f[x] = write \/ f[x] = d.shape[x]
  OBVIOUS
<1>5. f \in [Shapes -> Entries]
  BY <1>2, <1>3
<1> HIDE DEF written, write, f
<1>6. ApplyShapeOp(d, me, o) \in Documents
  BY <1>1, <1>2, <1>5 DEF Documents
<1>7. \A x \in Shapes : f[x].at <= d.clock + 1
  BY <1>2, <1>3, <1>4
<1>8. Sound(ApplyShapeOp(d, me, o))
  BY <1>1, <1>7 DEF Sound
<1>9. \A x \in Shapes : ~Newer(d.shape[x], f[x])
  BY <1>2, <1>3, <1>4 DEF Newer
<1> QED BY <1>1, <1>6, <1>8, <1>9

-------------------------------------------------------------------------------
(* The invariant. *)

LEMMA SyncInitially == Init => SyncInv
<1> SUFFICES ASSUME Init PROVE SyncInv
  OBVIOUS
<1> USE EmptyIsSound
<1>1. TypeOK
  <2>1. /\ doc \in [Servers -> Documents] /\ disk \in [Servers -> Documents]
        /\ snap \in [Writers -> Documents] /\ peerID \in [Servers -> PeerIDs]
    BY DEF Init
  <2>2. net \in [Servers -> [Servers -> Seq(Documents)]]
    BY DEF Init
  <2>3. /\ pc \in [Writers -> {"idle", "encode", "save", "broadcast", "publish", "done"}]
        /\ \A s \in Servers : pc[s] \in {"idle", "encode", "save"}
    BY DEF Init, Writers
  <2>4. /\ shown \in [Servers -> SUBSET Shapes] /\ acked \in [Servers -> SUBSET Shapes]
        /\ srv \in [Requests -> Servers \union {None}] /\ op \in [Requests -> Ops]
        /\ list \in [Requests -> SUBSET Shapes]
    BY DEF Init, Ops
  <2>5. /\ cleared \in BOOLEAN /\ calm \in BOOLEAN /\ loaded \subseteq Servers
        /\ missed \subseteq Servers \X Servers
    BY DEF Init
  <2>6. crashes \in 0..MaxCrashes
    BY SyncAssumption DEF Init
  <2> QED BY <2>1, <2>2, <2>3, <2>4, <2>5, <2>6 DEF TypeOK
<1>2. Handled
  BY DEF Init, Handled, Active, Writers
<1>3. DocsSound /\ DisksSound /\ SnapsSound /\ NetSound
  BY DEF Init, DocsSound, DisksSound, SnapsSound, NetSound
<1> QED BY <1>1, <1>2, <1>3 DEF SyncInv

LEMMA SyncStutters == SyncInv /\ UNCHANGED vars => SyncInv'
BY DEF SyncInv, vars, memory, request, history, TypeOK, Handled, Active, DocsSound,
       DisksSound, SnapsSound, NetSound

\* An active writer of a server has that server.
LEMMA WritersHaveHomes ==
    ASSUME SyncInv, NEW w \in Writers, Active(w)
    PROVE  Home(w) \in Servers
BY DEF SyncInv, Handled, Home, Writers
-------------------------------------------------------------------------------
(* The steps.  Each lemma also says that the documents of living servers    *)
(* lose no write.                                                           *)

Kept == \A s \in Servers, x \in Shapes :
            peerID'[s] = peerID[s] => ~Newer(doc[s].shape[x], doc'[s].shape[x])

\* No write is newer than itself.
LEMMA NotNewerThanItself ==
    TypeOK => \A s \in Servers, x \in Shapes : ~Newer(doc[s].shape[x], doc[s].shape[x])
BY DEF TypeOK, Documents, Entries, Newer

\* A step that changes no document keeps its writes.
LEMMA SameDocsKept == SyncInv /\ UNCHANGED doc => Kept
BY NotNewerThanItself DEF SyncInv, Kept

\* A request applies its op to its server's document.
LEMMA PostStep ==
    ASSUME SyncInv, NEW r \in Requests, NEW s \in Servers, NEW o \in Ops, Post(r, s, o)
    PROVE  SyncInv' /\ Kept
<1> DEFINE d == ApplyShapeOp(doc[s], peerID[s], o)
<1> USE DEF SyncInv
<1>1. doc[s] \in Documents /\ Sound(doc[s]) /\ peerID[s] \in Nat
  BY SyncAssumption DEF TypeOK, DocsSound
<1>2. /\ d \in Documents /\ Sound(d)
      /\ \A x \in Shapes : ~Newer(doc[s].shape[x], d.shape[x])
  BY <1>1, ApplyKeeps
<1>3. doc' = [doc EXCEPT ![s] = d]
  BY DEF Post
<1>4. \A t \in Servers : doc'[t] = IF t = s THEN d ELSE doc[t]
  BY <1>3 DEF TypeOK
<1>5. \A t \in Servers, x \in Shapes : ~Newer(doc[t].shape[x], doc[t].shape[x])
  BY NotNewerThanItself
<1>6. Visible(d) \subseteq Shapes
  BY DEF Visible
<1> HIDE DEF d
<1>7. Kept
  BY <1>2, <1>4, <1>5 DEF Kept
<1>8. TypeOK'
  <2>1. doc' \in [Servers -> Documents]
    BY <1>2, <1>3 DEF TypeOK
  <2>2. list' \in [Requests -> SUBSET Shapes]
    BY <1>6 DEF TypeOK, Post, d
  <2>3. /\ pc' \in [Writers -> {"idle", "encode", "save", "broadcast", "publish", "done"}]
        /\ \A t \in Servers : pc'[t] \in {"idle", "encode", "save"}
    BY SyncAssumption DEF TypeOK, Post, Writers
  <2>4. srv' \in [Requests -> Servers \union {None}] /\ op' \in [Requests -> Ops]
    BY DEF TypeOK, Post
  <2>5. cleared' \in BOOLEAN /\ calm' \in BOOLEAN
    BY DEF TypeOK, Post, StillCalm
  <2> QED BY <2>1, <2>2, <2>3, <2>4, <2>5 DEF TypeOK, Post
<1>9. Handled'
  BY SyncAssumption DEF TypeOK, Handled, Active, Writers, Post
<1>10. DocsSound'
  BY <1>2, <1>4 DEF DocsSound
<1>11. DisksSound' /\ SnapsSound' /\ NetSound'
  BY DEF DisksSound, SnapsSound, NetSound, Post
<1> QED BY <1>7, <1>8, <1>9, <1>10, <1>11

\* A SyncWorker merges an update.
LEMMA ImportStep ==
    ASSUME SyncInv, NEW s \in Servers, NEW t \in Servers, Import(s, t)
    PROVE  SyncInv' /\ Kept
<1> DEFINE d == Merge(doc[s], Head(net[t][s]))
<1> USE DEF SyncInv
<1>1. net[t][s] \in Seq(Documents) /\ net[t][s] # <<>>
  BY DEF TypeOK, Import
<1>2. Head(net[t][s]) \in Documents /\ Sound(Head(net[t][s]))
  BY <1>1 DEF NetSound
<1>3. doc[s] \in Documents /\ Sound(doc[s])
  BY DEF TypeOK, DocsSound
<1>4. /\ d \in Documents /\ Sound(d)
      /\ \A x \in Shapes : ~Newer(doc[s].shape[x], d.shape[x])
  BY <1>2, <1>3, MergeKeeps
<1>5. doc' = [doc EXCEPT ![s] = d]
  BY DEF Import
<1> HIDE DEF d
<1>6. \A u \in Servers : doc'[u] = IF u = s THEN d ELSE doc[u]
  BY <1>5 DEF TypeOK
<1>7. \A u \in Servers, x \in Shapes : ~Newer(doc[u].shape[x], doc[u].shape[x])
  BY NotNewerThanItself
<1>8. Kept
  BY <1>4, <1>6, <1>7 DEF Kept
<1>9. /\ Tail(net[t][s]) \in Seq(Documents)
      /\ \A i \in DOMAIN Tail(net[t][s]) : Sound(Tail(net[t][s])[i])
  BY <1>1 DEF NetSound
<1>10. \A u, v \in Servers :
          net'[u][v] = IF u = t /\ v = s THEN Tail(net[t][s]) ELSE net[u][v]
  BY DEF TypeOK, Import
<1>11. TypeOK'
  <2>1. doc' \in [Servers -> Documents]
    BY <1>4, <1>5 DEF TypeOK
  <2>2. net' \in [Servers -> [Servers -> Seq(Documents)]]
    BY <1>9 DEF TypeOK, Import
  <2>3. /\ pc' \in [Writers -> {"idle", "encode", "save", "broadcast", "publish", "done"}]
        /\ \A u \in Servers : pc'[u] \in {"idle", "encode", "save"}
    BY DEF TypeOK, Import, Writers
  <2>4. calm' \in BOOLEAN
    BY DEF TypeOK, Import, StillCalm
  <2> QED BY <2>1, <2>2, <2>3, <2>4 DEF TypeOK, Import, request
<1>12. Handled'
  BY SyncAssumption DEF TypeOK, Handled, Active, Writers, Import, request
<1>13. DocsSound'
  BY <1>4, <1>6 DEF DocsSound
<1>14. DisksSound' /\ SnapsSound'
  BY DEF DisksSound, SnapsSound, Import
<1>15. NetSound'
  BY <1>9, <1>10 DEF NetSound
<1> QED BY <1>8, <1>11, <1>12, <1>13, <1>14, <1>15

\* A writer encodes its server's document.
LEMMA EncodeStep ==
    ASSUME SyncInv, NEW w \in Writers, Encode(w)
    PROVE  SyncInv' /\ Kept
<1> USE DEF SyncInv
<1>1. Home(w) \in Servers
  BY WritersHaveHomes DEF Encode, Active
<1>2. doc[Home(w)] \in Documents /\ Sound(doc[Home(w)])
  BY <1>1 DEF TypeOK, DocsSound
<1>3. TypeOK'
  <2>1. snap' \in [Writers -> Documents]
    BY <1>2 DEF TypeOK, Encode
  <2>2. /\ pc' \in [Writers -> {"idle", "encode", "save", "broadcast", "publish", "done"}]
        /\ \A s \in Servers : pc'[s] \in {"idle", "encode", "save"}
    BY DEF TypeOK, Encode, Writers
  <2> QED BY <2>1, <2>2 DEF TypeOK, Encode, memory, request, history
<1>4. Handled'
  BY DEF TypeOK, Handled, Active, Writers, Encode, request
<1>5. SnapsSound'
  BY <1>2 DEF TypeOK, SnapsSound, Encode
<1>6. DocsSound' /\ DisksSound' /\ NetSound' /\ Kept
  BY SameDocsKept DEF DocsSound, DisksSound, NetSound, Encode, memory
<1> QED BY <1>3, <1>4, <1>5, <1>6

\* A writer's snapshot replaces the saved one, or is lost.
LEMMA SaveStep ==
    ASSUME SyncInv, NEW w \in Writers, Save(w)
    PROVE  SyncInv' /\ Kept
<1> USE DEF SyncInv
<1>1. snap[w] \in Documents /\ Sound(snap[w])
  BY DEF TypeOK, SnapsSound
<1>2. TypeOK'
  <2>1. disk' \in [Servers -> Documents] /\ snap' \in [Writers -> Documents]
    BY <1>1, EmptyIsSound DEF TypeOK, Save, AfterSave
  <2>2. /\ pc' \in [Writers -> {"idle", "encode", "save", "broadcast", "publish", "done"}]
        /\ \A s \in Servers : pc'[s] \in {"idle", "encode", "save"}
    BY DEF TypeOK, Save, AfterSave, Writers
  <2>3. calm' \in BOOLEAN
    BY DEF TypeOK, Save
  <2> QED BY <2>1, <2>2, <2>3 DEF TypeOK, Save, memory, request
<1>3. Handled'
  BY DEF TypeOK, Handled, Active, Writers, Save, AfterSave, request
<1>4. DisksSound'
  BY <1>1 DEF TypeOK, DisksSound, Save
<1>5. SnapsSound'
  BY EmptyIsSound DEF TypeOK, SnapsSound, Save, AfterSave
<1>6. DocsSound' /\ NetSound' /\ Kept
  BY SameDocsKept DEF DocsSound, NetSound, Save, memory
<1> QED BY <1>2, <1>3, <1>4, <1>5, <1>6

LEMMA BroadcastStep ==
    ASSUME SyncInv, NEW r \in Requests, Broadcast(r)
    PROVE  SyncInv' /\ Kept
<1> USE DEF SyncInv
<1>1. TypeOK'
  <2>1. shown' \in [Servers -> SUBSET Shapes] /\ list' \in [Requests -> SUBSET Shapes]
    BY DEF TypeOK, Broadcast
  <2>2. /\ pc' \in [Writers -> {"idle", "encode", "save", "broadcast", "publish", "done"}]
        /\ \A s \in Servers : pc'[s] \in {"idle", "encode", "save"}
    BY SyncAssumption DEF TypeOK, Broadcast, Writers
  <2> QED BY <2>1, <2>2 DEF TypeOK, Broadcast, memory, history
<1>2. Handled'
  BY SyncAssumption DEF TypeOK, Handled, Active, Writers, Broadcast
<1>3. DocsSound' /\ DisksSound' /\ SnapsSound' /\ NetSound' /\ Kept
  BY SameDocsKept DEF DocsSound, DisksSound, SnapsSound, NetSound, Broadcast, memory
<1> QED BY <1>1, <1>2, <1>3

\* A request publishes its server's document, and some servers get it.
LEMMA PublishReaches ==
    ASSUME SyncInv, NEW r \in Requests, Publish(r)
    PROVE  /\ srv[r] \in Servers
           /\ \E reached \in SUBSET Servers :
                 /\ \A u, v \in Servers :
                       net'[u][v] = IF u = srv[r] /\ v \in reached
                                    THEN Append(net[u][v], doc[u]) ELSE net[u][v]
                 /\ net' = [net EXCEPT ![srv[r]] =
                              [v \in Servers |-> IF v \in reached
                                                 THEN Append(net[srv[r]][v], doc[srv[r]])
                                                 ELSE net[srv[r]][v]]]
                 /\ missed' = (missed \ ({srv[r]} \X reached))
                                \union ({srv[r]} \X (Servers \ reached))
<1> USE DEF SyncInv
<1>1. srv[r] \in Servers
  BY DEF Handled, Active, Publish
<1>2. PICK reached \in SUBSET Servers :
        /\ net' = [net EXCEPT ![srv[r]] =
                     [s \in Servers |-> IF s \in reached THEN Append(@[s], doc[srv[r]])
                                        ELSE @[s]]]
        /\ missed' = (missed \ ({srv[r]} \X reached))
                       \union ({srv[r]} \X (Servers \ reached))
  BY DEF Publish
<1>3. net' = [net EXCEPT ![srv[r]] =
                 [v \in Servers |-> IF v \in reached
                                    THEN Append(net[srv[r]][v], doc[srv[r]])
                                    ELSE net[srv[r]][v]]]
  BY <1>1, <1>2 DEF TypeOK
<1>4. \A u, v \in Servers :
         net'[u][v] = IF u = srv[r] /\ v \in reached
                      THEN Append(net[u][v], doc[u]) ELSE net[u][v]
  BY <1>1, <1>3 DEF TypeOK
<1> QED BY <1>1, <1>2, <1>3, <1>4

LEMMA PublishStep ==
    ASSUME SyncInv, NEW r \in Requests, Publish(r)
    PROVE  SyncInv' /\ Kept
<1> USE DEF SyncInv
<1> DEFINE h == srv[r]
<1>1. h \in Servers
  BY DEF Handled, Active, Publish
<1>2. doc[h] \in Documents /\ Sound(doc[h])
  BY <1>1 DEF TypeOK, DocsSound
<1> HIDE DEF h
<1>3. PICK reached \in SUBSET Servers :
        /\ \A u, v \in Servers :
              net'[u][v] = IF u = h /\ v \in reached
                           THEN Append(net[u][v], doc[u]) ELSE net[u][v]
        /\ net' = [net EXCEPT ![h] =
                     [v \in Servers |-> IF v \in reached THEN Append(net[h][v], doc[h])
                                        ELSE net[h][v]]]
        /\ missed' = (missed \ ({h} \X reached)) \union ({h} \X (Servers \ reached))
  BY PublishReaches DEF h
<1>5. \A v \in Servers : net[h][v] \in Seq(Documents)
  BY <1>1 DEF TypeOK
<1>6. \A v \in Servers : Append(net[h][v], doc[h]) \in Seq(Documents)
  BY <1>2, <1>5
<1>7. \A v \in Servers : \A i \in DOMAIN Append(net[h][v], doc[h]) :
         Sound(Append(net[h][v], doc[h])[i])
  <2> TAKE v \in Servers
  <2> DEFINE q == net[h][v]
             p == Append(q, doc[h])
  <2>1. q \in Seq(Documents) /\ \A i \in DOMAIN q : Sound(q[i])
    BY <1>1, <1>5 DEF NetSound
  <2>2. /\ DOMAIN q = 1..Len(q) /\ Len(q) \in Nat /\ DOMAIN p = 1..(Len(q) + 1)
        /\ p[Len(q) + 1] = doc[h] /\ \A i \in DOMAIN q : p[i] = q[i]
    BY <2>1
  <2>3. Sound(doc[h])
    BY <1>1, <1>2
  <2> HIDE DEF p, q
  <2>4. \A i \in DOMAIN p : Sound(p[i])
    <3> TAKE i \in DOMAIN p
    <3>1. i \in DOMAIN q \/ i = Len(q) + 1
      BY <2>2
    <3> QED BY <2>1, <2>2, <2>3, <3>1
  <2> QED BY <2>4 DEF p, q
<1>8. TypeOK'
  <2>1. net' \in [Servers -> [Servers -> Seq(Documents)]]
    BY <1>1, <1>3, <1>5, <1>6 DEF TypeOK
  <2>5. missed' \subseteq Servers \X Servers
    BY <1>1, <1>3 DEF TypeOK
  <2>2. acked' \in [Servers -> SUBSET Shapes]
    BY <1>1 DEF TypeOK, Publish, Ops, h
  <2>3. /\ pc' \in [Writers -> {"idle", "encode", "save", "broadcast", "publish", "done"}]
        /\ \A s \in Servers : pc'[s] \in {"idle", "encode", "save"}
    BY SyncAssumption DEF TypeOK, Publish, Writers
  <2>4. srv' \in [Requests -> Servers \union {None}]
    BY DEF TypeOK, Publish
  <2> QED BY <2>1, <2>2, <2>3, <2>4, <2>5 DEF TypeOK, Publish, memory
<1>9. Handled'
  BY SyncAssumption DEF TypeOK, Handled, Active, Writers, Publish
<1>10. NetSound'
  BY <1>3, <1>7 DEF NetSound
<1>11. DocsSound' /\ DisksSound' /\ SnapsSound' /\ Kept
  BY SameDocsKept DEF DocsSound, DisksSound, SnapsSound, Publish, memory
<1> QED BY <1>8, <1>9, <1>10, <1>11

\* A server that opens a board merges its own snapshot.
LEMMA OpenStep ==
    ASSUME SyncInv, NEW s \in Servers, Open(s)
    PROVE  SyncInv' /\ Kept
<1> DEFINE d == Merge(doc[s], disk[s])
<1> USE DEF SyncInv
<1>1. /\ doc[s] \in Documents /\ Sound(doc[s])
      /\ disk[s] \in Documents /\ Sound(disk[s])
  BY DEF TypeOK, DocsSound, DisksSound
<1>2. /\ d \in Documents /\ Sound(d)
      /\ \A x \in Shapes : ~Newer(doc[s].shape[x], d.shape[x])
  BY <1>1, MergeKeeps
<1>3. doc' = [doc EXCEPT ![s] = d]
  BY DEF Open
<1> HIDE DEF d
<1>4. \A u \in Servers : doc'[u] = IF u = s THEN d ELSE doc[u]
  BY <1>3 DEF TypeOK
<1>5. \A u \in Servers, x \in Shapes : ~Newer(doc[u].shape[x], doc[u].shape[x])
  BY NotNewerThanItself
<1>6. Kept
  BY <1>2, <1>4, <1>5 DEF Kept
<1>7. TypeOK'
  <2>1. doc' \in [Servers -> Documents] /\ loaded' \subseteq Servers
    BY <1>2, <1>3 DEF TypeOK, Open
  <2> QED BY <2>1 DEF TypeOK, Open, request
<1>8. Handled'
  BY DEF Handled, Active, Open, request
<1>9. DocsSound'
  BY <1>2, <1>4 DEF DocsSound
<1>10. DisksSound' /\ SnapsSound' /\ NetSound'
  BY DEF DisksSound, SnapsSound, NetSound, Open
<1> QED BY <1>6, <1>7, <1>8, <1>9, <1>10

\* A crash empties a server's document; the new one has a new peer ID.
LEMMA CrashStep ==
    ASSUME SyncInv, NEW s \in Servers, Crash(s)
    PROVE  SyncInv' /\ Kept
<1> USE DEF SyncInv
<1> USE EmptyIsSound
<1>1. PICK p \in PeerIDs :
         /\ \A t \in Servers : peerID[t] # p
         /\ peerID' = [peerID EXCEPT ![s] = p]
  BY DEF Crash
<1>2. peerID'[s] # peerID[s]
  BY <1>1 DEF TypeOK
<1>3. \A u \in Servers : doc'[u] = IF u = s THEN Empty ELSE doc[u]
  BY DEF TypeOK, Crash
<1>4. \A u \in Servers, x \in Shapes : ~Newer(doc[u].shape[x], doc[u].shape[x])
  BY NotNewerThanItself
<1>5. Kept
  BY <1>2, <1>3, <1>4 DEF Kept
<1>6. \A u, v \in Servers : net'[u][v] = IF v = s THEN <<>> ELSE net[u][v]
  BY DEF TypeOK, Crash
<1>7. TypeOK'
  <2>1. doc' \in [Servers -> Documents] /\ peerID' \in [Servers -> PeerIDs]
    BY <1>1 DEF TypeOK, Crash
  <2>2. net' \in [Servers -> [Servers -> Seq(Documents)]]
    BY DEF TypeOK, Crash
  <2>3. /\ pc' \in [Writers -> {"idle", "encode", "save", "broadcast", "publish", "done"}]
        /\ \A u \in Servers : pc'[u] \in {"idle", "encode", "save"}
    BY DEF TypeOK, Crash, Writers
  <2>4. /\ srv' \in [Requests -> Servers \union {None}]
        /\ list' \in [Requests -> SUBSET Shapes]
        /\ snap' \in [Writers -> Documents]
    BY DEF TypeOK, Crash
  <2>5. loaded' \subseteq Servers
    BY DEF TypeOK, Crash
  <2>6. crashes' \in 0..MaxCrashes
    BY SyncAssumption DEF TypeOK, Crash
  <2> QED BY <2>1, <2>2, <2>3, <2>4, <2>5, <2>6 DEF TypeOK, Crash
<1>8. Handled'
  BY SyncAssumption DEF TypeOK, Handled, Active, Writers, Home, Crash
<1>9. DocsSound'
  BY <1>3 DEF DocsSound
<1>10. NetSound'
  BY <1>6 DEF NetSound
<1>11. DisksSound' /\ SnapsSound'
  BY DEF DisksSound, SnapsSound, Crash
<1> QED BY <1>5, <1>7, <1>8, <1>9, <1>10, <1>11

LEMMA SyncStep == SyncInv /\ [Next]_vars => SyncInv' /\ Kept
<1> SUFFICES ASSUME SyncInv, [Next]_vars PROVE SyncInv' /\ Kept
  OBVIOUS
<1>1. ASSUME NEW r \in Requests, NEW s \in Servers, NEW o \in Ops, Post(r, s, o)
      PROVE  SyncInv' /\ Kept
  BY <1>1, PostStep
<1>2. ASSUME NEW w \in Writers, Encode(w) PROVE SyncInv' /\ Kept
  BY <1>2, EncodeStep
<1>3. ASSUME NEW w \in Writers, Save(w) PROVE SyncInv' /\ Kept
  BY <1>3, SaveStep
<1>4. ASSUME NEW r \in Requests, Broadcast(r) PROVE SyncInv' /\ Kept
  BY <1>4, BroadcastStep
<1>5. ASSUME NEW r \in Requests, Publish(r) PROVE SyncInv' /\ Kept
  BY <1>5, PublishStep
<1>6. ASSUME NEW s \in Servers, NEW t \in Servers, Import(s, t) PROVE SyncInv' /\ Kept
  BY <1>6, ImportStep
<1>7. ASSUME NEW s \in Servers, Open(s) PROVE SyncInv' /\ Kept
  BY <1>7, OpenStep
<1>8. ASSUME NEW s \in Servers, Crash(s) PROVE SyncInv' /\ Kept
  BY <1>8, CrashStep
<1>9. CASE UNCHANGED vars
  BY <1>9, SyncStutters, SameDocsKept DEF vars, memory
<1> QED BY <1>1, <1>2, <1>3, <1>4, <1>5, <1>6, <1>7, <1>8, <1>9 DEF Next

-------------------------------------------------------------------------------
\* Every reachable state is well typed, however many servers, shapes and
\* requests there are and whenever servers crash.
THEOREM SyncTypeCorrect == Spec => []TypeOK
<1>1. SyncInv => TypeOK
  BY DEF SyncInv
<1>2. SyncInv /\ [Next]_vars => SyncInv'
  BY SyncStep
<1> QED BY <1>1, <1>2, SyncInitially, PTL DEF Spec

\* While a server lives, neither an op, nor an import, nor opening the board
\* replaces a write its document has seen by an older one.
THEOREM NoWriteIsUndone == Spec => NoWriteUndone
<1> DEFINE K == \A s \in Servers, x \in Shapes :
                   peerID'[s] = peerID[s] => ~Newer(doc[s].shape[x], doc'[s].shape[x])
<1>1. SyncInv /\ [Next]_vars => SyncInv' /\ [K]_vars
  BY SyncStep DEF Kept
<1> QED BY <1>1, SyncInitially, PTL DEF Spec, NoWriteUndone

-------------------------------------------------------------------------------
(* Convergence.  Until a server crashes, a write and a clock value that are *)
(* known anywhere have an origin: a server that has them, or newer ones, in *)
(* its document, and that has sent, or will send, them to every server that *)
(* lacks them, or missed the origin's last publication.                     *)

Elems(q) == {q[i] : i \in DOMAIN q}

\* The documents there are, in memory, on disk, in hand and on the way.
Known ==
    {Empty} \union {doc[s] : s \in Servers} \union {disk[s] : s \in Servers}
            \union {snap[w] : w \in Writers}
            \union UNION {Elems(net[v[1]][v[2]]) : v \in Servers \X Servers}

Writes(x) == {d.shape[x] : d \in Known}
Clocks == {d.clock : d \in Known}

\* Server u handles a request that has yet to publish u's document.
Publishes(u) == \E r \in Requests : Active(r) /\ srv[r] = u

WriteArrives(e, x) ==
    \E u \in Servers :
        /\ ~Newer(e, doc[u].shape[x])
        /\ \A s \in Servers :
              \/ ~Newer(e, doc[s].shape[x])
              \/ Publishes(u)
              \/ \E m \in Elems(net[u][s]) : ~Newer(e, m.shape[x])
              \/ <<u, s>> \in missed

ClockArrives(c) ==
    \E u \in Servers :
        /\ c <= doc[u].clock
        /\ \A s \in Servers :
              \/ c <= doc[s].clock
              \/ Publishes(u)
              \/ \E m \in Elems(net[u][s]) : c <= m.clock
              \/ <<u, s>> \in missed

\* A stamp names one write: its server's clock is not behind it, so that the
\* next write there gets another stamp.
StampsUnique ==
    \A x \in Shapes : \A e, f \in Writes(x) : e.at = f.at /\ e.by = f.by => e = f
OwnClock ==
    \A x \in Shapes : \A e \in Writes(x) : \A u \in Servers :
        e.by = peerID[u] => e.at <= doc[u].clock
PeersApart == \A s, t \in Servers : s # t => peerID[s] # peerID[t]

WritesArrive == \A x \in Shapes : \A e \in Writes(x) : WriteArrives(e, x)
ClocksArrive == \A c \in Clocks : ClockArrives(c)

Arriving == StampsUnique /\ OwnClock /\ PeersApart /\ WritesArrive /\ ClocksArrive

ConvInv == SyncInv /\ (crashes = 0 /\ Servers # {} => Arriving)

LEMMA KnownTyped == SyncInv => Known \subseteq Documents
<1> SUFFICES ASSUME SyncInv PROVE Known \subseteq Documents
  OBVIOUS
<1>1. \A v \in Servers \X Servers : Elems(net[v[1]][v[2]]) \subseteq Documents
  <2> TAKE v \in Servers \X Servers
  <2>1. net[v[1]][v[2]] \in Seq(Documents)
    BY DEF SyncInv, TypeOK
  <2> QED BY <2>1 DEF Elems
<1> QED BY <1>1, EmptyIsSound DEF SyncInv, TypeOK, Known

LEMMA WritesTyped ==
    SyncInv => Clocks \subseteq Nat /\ \A x \in Shapes : Writes(x) \subseteq Entries
BY KnownTyped DEF Documents, Writes, Clocks

LEMMA NotNewerTransitive ==
    ASSUME NEW e \in Entries, NEW f \in Entries, NEW g \in Entries,
           ~Newer(e, f), ~Newer(f, g)
    PROVE  ~Newer(e, g)
BY DEF Entries, Newer

\* What a step may do to documents, announced publications and messages.
Flows ==
    /\ \A s \in Servers : doc[s].clock <= doc'[s].clock
    /\ \A s \in Servers, x \in Shapes : ~Newer(doc[s].shape[x], doc'[s].shape[x])
    /\ \A u \in Servers : Publishes(u) =>
          \/ Publishes(u)'
          \/ \A s \in Servers : doc[u] \in Elems(net'[u][s]) \/ <<u, s>> \in missed'
    /\ \A u, s \in Servers : <<u, s>> \in missed =>
          doc[u] \in Elems(net'[u][s]) \/ <<u, s>> \in missed'
    /\ \A u, s \in Servers : \A m \in Elems(net[u][s]) :
          \/ m \in Elems(net'[u][s])
          \/ /\ m.clock <= doc'[s].clock
             /\ \A x \in Shapes : ~Newer(m.shape[x], doc'[s].shape[x])

LEMMA NetTyped ==
    SyncInv => \A u, s \in Servers : Elems(net[u][s]) \subseteq Documents
<1> SUFFICES ASSUME SyncInv, NEW u \in Servers, NEW s \in Servers
             PROVE  Elems(net[u][s]) \subseteq Documents
  OBVIOUS
<1>1. net[u][s] \in Seq(Documents)
  BY DEF SyncInv, TypeOK
<1> QED BY <1>1 DEF Elems

\* What arrives goes on arriving.
LEMMA WritesGoOn ==
    ASSUME SyncInv, SyncInv', Flows, NEW x \in Shapes, NEW e \in Entries,
           WriteArrives(e, x)
    PROVE  WriteArrives(e, x)'
<1>1. PICK u \in Servers :
        /\ ~Newer(e, doc[u].shape[x])
        /\ \A s \in Servers :
              \/ ~Newer(e, doc[s].shape[x])
              \/ Publishes(u)
              \/ \E m \in Elems(net[u][s]) : ~Newer(e, m.shape[x])
              \/ <<u, s>> \in missed
  BY DEF WriteArrives
<1>2. \A s \in Servers : doc[s].shape[x] \in Entries /\ doc'[s].shape[x] \in Entries
  BY SMTT(30) DEF SyncInv, TypeOK, Documents
<1>3. \A s \in Servers : ~Newer(e, doc[s].shape[x]) => ~Newer(e, doc'[s].shape[x])
  BY <1>2, NotNewerTransitive DEF Flows
<1>4. ASSUME NEW s \in Servers
      PROVE  \/ ~Newer(e, doc'[s].shape[x])
             \/ Publishes(u)'
             \/ \E m \in Elems(net'[u][s]) : ~Newer(e, m.shape[x])
             \/ <<u, s>> \in missed'
  <2>1. CASE ~Newer(e, doc[s].shape[x])
    BY <2>1, <1>3
  <2>2. CASE Publishes(u)
    BY <2>2, <1>1 DEF Flows
  <2>3. ASSUME NEW m \in Elems(net[u][s]), ~Newer(e, m.shape[x])
        PROVE  \/ ~Newer(e, doc'[s].shape[x])
               \/ \E n \in Elems(net'[u][s]) : ~Newer(e, n.shape[x])
    <3>1. m.shape[x] \in Entries
      BY NetTyped DEF Documents
    <3> QED BY <2>3, <3>1, <1>2, NotNewerTransitive DEF Flows
  <2>4. CASE <<u, s>> \in missed
    BY <2>4, <1>1 DEF Flows
  <2> QED BY <2>1, <2>2, <2>3, <2>4, <1>1
<1>5. ~Newer(e, doc'[u].shape[x])
  BY <1>1, <1>3
<1> QED BY <1>4, <1>5 DEF WriteArrives

LEMMA ClocksGoOn ==
    ASSUME SyncInv, SyncInv', Flows, NEW c \in Nat, ClockArrives(c)
    PROVE  ClockArrives(c)'
<1>1. PICK u \in Servers :
        /\ c <= doc[u].clock
        /\ \A s \in Servers :
              \/ c <= doc[s].clock
              \/ Publishes(u)
              \/ \E m \in Elems(net[u][s]) : c <= m.clock
              \/ <<u, s>> \in missed
  BY DEF ClockArrives
<1>2. \A s \in Servers : doc[s].clock \in Nat /\ doc'[s].clock \in Nat
  BY DEF SyncInv, TypeOK, Documents
<1>3. \A s \in Servers : c <= doc[s].clock => c <= doc'[s].clock
  BY <1>2 DEF Flows
<1>4. ASSUME NEW s \in Servers
      PROVE  \/ c <= doc'[s].clock
             \/ Publishes(u)'
             \/ \E m \in Elems(net'[u][s]) : c <= m.clock
             \/ <<u, s>> \in missed'
  <2>1. CASE c <= doc[s].clock
    BY <2>1, <1>3
  <2>2. CASE Publishes(u)
    BY <2>2, <1>1 DEF Flows
  <2>3. ASSUME NEW m \in Elems(net[u][s]), c <= m.clock
        PROVE  \/ c <= doc'[s].clock
               \/ \E n \in Elems(net'[u][s]) : c <= n.clock
    <3>1. m.clock \in Nat
      BY NetTyped DEF Documents
    <3> QED BY <2>3, <3>1, <1>2 DEF Flows
  <2>4. CASE <<u, s>> \in missed
    BY <2>4, <1>1 DEF Flows
  <2> QED BY <2>1, <2>2, <2>3, <2>4, <1>1
<1> QED BY <1>1, <1>3, <1>4 DEF ClockArrives

\* A step that writes nothing new.
LEMMA OldWritesArrive ==
    ASSUME SyncInv, SyncInv', Arriving, Flows, peerID' = peerID,
           Clocks' \subseteq Clocks, \A x \in Shapes : Writes(x)' \subseteq Writes(x)
    PROVE  Arriving'
<1> USE DEF Arriving
<1>1. StampsUnique' /\ PeersApart'
  BY DEF StampsUnique, PeersApart
<1>2. OwnClock'
  <2> SUFFICES ASSUME NEW x \in Shapes, NEW e \in Writes(x)', NEW u \in Servers,
                      e.by = peerID[u]
               PROVE  e.at <= doc'[u].clock
    BY DEF OwnClock
  <2>1. e.at <= doc[u].clock /\ e \in Entries
    BY WritesTyped DEF OwnClock
  <2>2. doc[u] \in Documents /\ doc'[u] \in Documents
    BY DEF SyncInv, TypeOK
  <2>3. doc[u].clock \in Nat /\ doc'[u].clock \in Nat /\ doc[u].clock <= doc'[u].clock
    BY <2>2 DEF Flows, Documents
  <2>4. e.at \in Nat
    BY <2>1 DEF Entries
  <2> QED BY <2>1, <2>3, <2>4
<1>3. WritesArrive'
  BY WritesGoOn, WritesTyped DEF WritesArrive
<1>4. ClocksArrive'
  BY ClocksGoOn, WritesTyped DEF ClocksArrive
<1> QED BY <1>1, <1>2, <1>3, <1>4

\* A step that makes one document d of those there were.
Blend(d, a, b) ==
    /\ d.clock \in {a.clock, b.clock}
    /\ \A x \in Shapes : d.shape[x] \in {a.shape[x], b.shape[x]}

LEMMA BlendWritesNothing ==
    ASSUME NEW d, NEW a \in Known, NEW b \in Known, Blend(d, a, b),
           Known' \subseteq Known \union {d}
    PROVE  Clocks' \subseteq Clocks /\ \A x \in Shapes : Writes(x)' \subseteq Writes(x)
BY DEF Blend, Clocks, Writes

LEMMA MergeBlends ==
    ASSUME NEW a, NEW b
    PROVE  Blend(Merge(a, b), a, b)
BY DEF Merge, Blend, Later

\* A step that leaves documents, requests and messages alone.
LEMMA NothingFlows ==
    ASSUME SyncInv, UNCHANGED <<doc, net, missed>>,
           \A u \in Servers : Publishes(u) => Publishes(u)'
    PROVE  Flows
<1>1. \A s \in Servers : doc[s].clock <= doc'[s].clock
  BY DEF SyncInv, TypeOK, Documents
<1>2. \A s \in Servers, x \in Shapes : ~Newer(doc[s].shape[x], doc'[s].shape[x])
  BY NotNewerThanItself DEF SyncInv
<1> QED BY <1>1, <1>2 DEF Flows

LEMMA PostFlows ==
    ASSUME SyncInv, SyncInv', NEW r \in Requests, NEW s \in Servers, NEW o \in Ops, Post(r, s, o)
    PROVE  /\ Flows
           /\ Publishes(s)'
           /\ doc'[s] = ApplyShapeOp(doc[s], peerID[s], o)
           /\ doc'[s].clock = doc[s].clock + 1
           /\ Known' \subseteq Known \union {doc'[s]}
           /\ \A x \in Shapes :
                 doc'[s].shape[x] \in
                    {doc[s].shape[x],
                     [at |-> doc[s].clock + 1, by |-> peerID[s], live |-> o # "clear"]}
<1> DEFINE d == ApplyShapeOp(doc[s], peerID[s], o)
<1> USE DEF SyncInv
<1>1. /\ doc' = [doc EXCEPT ![s] = d] /\ doc'[s] = d
      /\ \A t \in Servers : doc'[t] = IF t = s THEN d ELSE doc[t]
  BY DEF Post, TypeOK
<1>2. d.clock = doc[s].clock + 1
  BY DEF ApplyShapeOp
<1>3. \A x \in Shapes :
         d.shape[x] \in {doc[s].shape[x],
                         [at |-> doc[s].clock + 1, by |-> peerID[s], live |-> o # "clear"]}
  BY DEF ApplyShapeOp
<1> HIDE DEF d
<1>4. \A t \in Servers : doc[t].clock \in Nat
  BY DEF TypeOK, Documents
<1>5. \A t \in Servers : doc[t].clock <= doc'[t].clock
  BY <1>1, <1>2, <1>4
<1>6. \A t \in Servers, x \in Shapes : ~Newer(doc[t].shape[x], doc'[t].shape[x])
  <2>1. Kept /\ peerID' = peerID
    BY PostStep DEF Post
  <2> QED BY <2>1 DEF Kept
<1>7. /\ Publishes(s)'
      /\ \A u \in Servers : Publishes(u) => Publishes(u)'
  <2>1. /\ \A q \in Requests : pc'[q] = IF q = r THEN "encode" ELSE pc[q]
        /\ \A q \in Requests : srv'[q] = IF q = r THEN s ELSE srv[q]
        /\ pc[r] = "idle"
    BY DEF Post, TypeOK, Writers
  <2> QED BY <2>1 DEF Publishes, Active
<1>8. Flows
  <2>1. net' = net /\ missed' = missed
    BY DEF Post
  <2> QED BY <1>5, <1>6, <1>7, <2>1 DEF Flows
<1>9. Known' \subseteq Known \union {d}
  <2>1. UNCHANGED <<disk, snap, net>>
    BY DEF Post
  <2> QED BY <1>1, <2>1 DEF Known
<1> QED BY <1>1, <1>2, <1>3, <1>7, <1>8, <1>9 DEF d

\* A new write gets a stamp of its own, and its server will publish it.
LEMMA PostArrives ==
    ASSUME SyncInv, SyncInv', Arriving,
           NEW r \in Requests, NEW s \in Servers, NEW o \in Ops, Post(r, s, o)
    PROVE  Arriving'
<1> DEFINE new == [at |-> doc[s].clock + 1, by |-> peerID[s], live |-> o # "clear"]
<1>1. /\ Flows /\ Publishes(s)' /\ peerID' = peerID
      /\ doc'[s].clock = doc[s].clock + 1
      /\ Known' \subseteq Known \union {doc'[s]}
      /\ \A x \in Shapes : doc'[s].shape[x] \in {doc[s].shape[x], new}
  <2>1. peerID' = peerID
    BY DEF Post
  <2>2. /\ Flows /\ Publishes(s)'
        /\ doc'[s].clock = doc[s].clock + 1
        /\ Known' \subseteq Known \union {doc'[s]}
        /\ \A x \in Shapes : doc'[s].shape[x] \in {doc[s].shape[x], new}
    BY PostFlows
  <2> QED BY <2>1, <2>2
<1>2. /\ \A t \in Servers : doc[t].clock \in Nat /\ doc'[t].clock \in Nat
      /\ \A t \in Servers, x \in Shapes : doc'[t].shape[x] \in Entries
      /\ \A t \in Servers : peerID[t] \in Nat
  <2>1. doc \in [Servers -> Documents] /\ doc' \in [Servers -> Documents]
    BY DEF SyncInv, TypeOK
  <2>2. \A t \in Servers : peerID[t] \in Nat
    BY SyncAssumption DEF SyncInv, TypeOK
  <2> QED BY <2>1, <2>2 DEF Documents
<1>3. /\ new \in Entries /\ new.at = doc[s].clock + 1 /\ new.by = peerID[s]
  BY <1>2 DEF Entries
<1> HIDE DEF new
<1>4. doc[s] \in Known
  BY DEF Known
<1>5. \A x \in Shapes : Writes(x)' \subseteq Writes(x) \union {new}
  BY <1>1, <1>4 DEF Writes
<1>6. \A x \in Shapes : \A e \in Writes(x)' \ Writes(x) : e = new /\ e = doc'[s].shape[x]
  BY <1>1, <1>4 DEF Writes
<1>7. Clocks' \subseteq Clocks \union {doc'[s].clock}
  BY <1>1 DEF Clocks
<1>8. \A x \in Shapes : \A e \in Writes(x) : e.by = new.by => e.at < new.at
  <2> TAKE x \in Shapes
  <2> TAKE e \in Writes(x)
  <2>1. e.by = peerID[s] => e.at <= doc[s].clock
    BY DEF Arriving, OwnClock
  <2>2. e.at \in Nat
    BY WritesTyped DEF Entries
  <2> QED BY <2>1, <2>2, <1>2, <1>3
<1>9. StampsUnique'
  <2> SUFFICES ASSUME NEW x \in Shapes, NEW e \in Writes(x)', NEW f \in Writes(x)',
                      e.at = f.at, e.by = f.by
               PROVE  e = f
    BY DEF StampsUnique
  <2>1. CASE e \in Writes(x) /\ f \in Writes(x)
    BY <2>1 DEF Arriving, StampsUnique
  <2>2. \A g \in Writes(x) : g.at \in Nat
    BY WritesTyped DEF Entries
  <2>3. CASE ~(e \in Writes(x) /\ f \in Writes(x))
    BY <2>2, <2>3, <1>2, <1>3, <1>5, <1>8
  <2> QED BY <2>1, <2>3
<1>10. OwnClock'
  <2> SUFFICES ASSUME NEW x \in Shapes, NEW e \in Writes(x)', NEW u \in Servers,
                      e.by = peerID[u]
               PROVE  e.at <= doc'[u].clock
    BY <1>1 DEF OwnClock
  <2>1. CASE e \in Writes(x)
    <3>1. e.at <= doc[u].clock /\ e.at \in Nat
      BY <2>1, WritesTyped DEF Arriving, OwnClock, Entries
    <3> QED BY <3>1, <1>1, <1>2 DEF Flows
  <2>2. CASE e = new
    <3>1. u = s
      BY <2>2, <1>3 DEF Arriving, PeersApart
    <3> QED BY <3>1, <2>2, <1>1, <1>2, <1>3
  <2> QED BY <2>1, <2>2, <1>5
<1>11. PeersApart'
  BY <1>1 DEF Arriving, PeersApart
<1>12. WritesArrive'
  <2> SUFFICES ASSUME NEW x \in Shapes, NEW e \in Writes(x)'
               PROVE  WriteArrives(e, x)'
    BY DEF WritesArrive
  <2>1. CASE e \in Writes(x)
    BY <2>1, <1>1, WritesGoOn, WritesTyped DEF Arriving, WritesArrive
  <2>2. CASE e \notin Writes(x)
    <3>1. e = doc'[s].shape[x] /\ e \in Entries
      BY <2>2, <1>2, <1>6
    <3>2. ~Newer(e, doc'[s].shape[x])
      BY <3>1 DEF Newer, Entries
    <3> QED BY <3>2, <1>1 DEF WriteArrives
  <2> QED BY <2>1, <2>2
<1>13. ClocksArrive'
  <2> SUFFICES ASSUME NEW c \in Clocks'
               PROVE  ClockArrives(c)'
    BY DEF ClocksArrive
  <2>1. CASE c \in Clocks
    BY <2>1, <1>1, ClocksGoOn, WritesTyped DEF Arriving, ClocksArrive
  <2>2. CASE c = doc'[s].clock
    <3>1. c <= doc'[s].clock
      BY <2>2, <1>2
    <3> QED BY <3>1, <1>1 DEF ClockArrives
  <2> QED BY <2>1, <2>2, <1>7
<1> QED BY <1>9, <1>10, <1>11, <1>12, <1>13 DEF Arriving

\* An imported message has arrived.
LEMMA ImportArrives ==
    ASSUME SyncInv, SyncInv', Arriving, NEW s \in Servers, NEW t \in Servers, Import(s, t)
    PROVE  Arriving'
<1> USE DEF SyncInv
<1> DEFINE m == Head(net[t][s])
           d == Merge(doc[s], m)
<1>1. /\ net[t][s] \in Seq(Documents) /\ net[t][s] # <<>>
      /\ doc[s] \in Documents /\ Sound(doc[s])
  BY DEF TypeOK, Import, DocsSound
<1>2. /\ m \in Documents /\ Sound(m) /\ m \in Elems(net[t][s])
      /\ \A n \in Elems(net[t][s]) : n = m \/ n \in Elems(Tail(net[t][s]))
      /\ Elems(Tail(net[t][s])) \subseteq Elems(net[t][s])
  <2>1. m \in Documents /\ Sound(m) /\ m \in Elems(net[t][s])
    BY <1>1 DEF NetSound, Elems
  <2>2. /\ DOMAIN net[t][s] = 1..Len(net[t][s])
        /\ DOMAIN Tail(net[t][s]) = 1..(Len(net[t][s]) - 1)
        /\ \A i \in 1..(Len(net[t][s]) - 1) : Tail(net[t][s])[i] = net[t][s][i + 1]
        /\ Len(net[t][s]) \in Nat /\ m = net[t][s][1]
    BY <1>1
  <2>3. ASSUME NEW i \in DOMAIN net[t][s], i # 1
        PROVE  i - 1 \in DOMAIN Tail(net[t][s]) /\ Tail(net[t][s])[i - 1] = net[t][s][i]
    BY <2>2, <2>3
  <2>4. \A n \in Elems(net[t][s]) : n = m \/ n \in Elems(Tail(net[t][s]))
    BY <2>2, <2>3 DEF Elems
  <2>5. ASSUME NEW i \in DOMAIN Tail(net[t][s])
        PROVE  i + 1 \in DOMAIN net[t][s] /\ net[t][s][i + 1] = Tail(net[t][s])[i]
    BY <2>2
  <2>6. Elems(Tail(net[t][s])) \subseteq Elems(net[t][s])
    BY <2>5 DEF Elems
  <2> QED BY <2>1, <2>4, <2>6
<1>3. /\ doc' = [doc EXCEPT ![s] = d] /\ peerID' = peerID
      /\ \A u \in Servers : doc'[u] = IF u = s THEN d ELSE doc[u]
  BY DEF Import, TypeOK
<1>4. \A u, v \in Servers :
         net'[u][v] = IF u = t /\ v = s THEN Tail(net[t][s]) ELSE net[u][v]
  BY SMTT(30) DEF TypeOK, Import
<1>5. /\ m.clock <= d.clock /\ doc[s].clock <= d.clock
      /\ \A x \in Shapes : ~Newer(m.shape[x], d.shape[x])
  <2>1. m \in Documents /\ doc[s] \in Documents
    BY <1>1, <1>2
  <2> HIDE DEF m
  <2>2. m.clock \in Nat /\ doc[s].clock \in Nat /\ d.clock = Later(m.clock, doc[s].clock)
    BY <2>1 DEF Documents, Merge
  <2>3. m.clock <= d.clock /\ doc[s].clock <= d.clock
    BY <2>2 DEF Later
  <2>4. ASSUME NEW x \in Shapes
        PROVE  ~Newer(m.shape[x], d.shape[x])
    <3>1. m.shape[x] \in Entries /\ doc[s].shape[x] \in Entries
      BY <2>1 DEF Documents
    <3>2. d.shape[x] = IF Newer(m.shape[x], doc[s].shape[x])
                       THEN m.shape[x] ELSE doc[s].shape[x]
      BY DEF Merge
    <3>3. m.shape[x].at \in Nat /\ m.shape[x].by \in Nat
      BY <3>1 DEF Entries
    <3> QED BY <3>2, <3>3 DEF Newer
  <2> QED BY <2>3, <2>4
<1>6. Blend(d, doc[s], m)
  BY MergeBlends
<1> HIDE DEF m, d
<1>7. Flows
  <2>1. \A u \in Servers : doc[u].clock <= doc'[u].clock
    <3>1. \A u \in Servers : doc[u].clock \in Nat
      BY DEF TypeOK, Documents
    <3> QED BY <1>3, <1>5, <3>1
  <2>2. \A u \in Servers, x \in Shapes : ~Newer(doc[u].shape[x], doc'[u].shape[x])
    BY <1>3, ImportStep DEF Kept
  <2>3. \A u \in Servers : Publishes(u) => Publishes(u)'
    BY SyncAssumption DEF Publishes, Active, Import, TypeOK, Writers, request
  <2>4. \A u, v \in Servers : \A n \in Elems(net[u][v]) :
           \/ n \in Elems(net'[u][v])
           \/ /\ n.clock <= doc'[v].clock
              /\ \A x \in Shapes : ~Newer(n.shape[x], doc'[v].shape[x])
    <3> TAKE u \in Servers, v \in Servers
    <3> TAKE n \in Elems(net[u][v])
    <3>1. CASE u = t /\ v = s
      <4>1. n = m \/ n \in Elems(net'[u][v])
        BY <1>2, <1>4, <3>1
      <4>2. doc'[v] = d
        BY <1>3, <3>1
      <4> QED BY <1>5, <4>1, <4>2
    <3>2. CASE ~(u = t /\ v = s)
      BY <1>4, <3>2
    <3> QED BY <3>1, <3>2
  <2>5. missed' = missed
    BY DEF Import
  <2> QED BY <2>1, <2>2, <2>3, <2>4, <2>5 DEF Flows
<1>8. Known' \subseteq Known \union {d}
  <2>1. UNCHANGED <<disk, snap>>
    BY DEF Import
  <2>2. \A u, v \in Servers : Elems(net'[u][v]) \subseteq Elems(net[u][v])
    BY <1>2, <1>4
  <2> QED BY <1>3, <2>1, <2>2 DEF Known
<1>9. doc[s] \in Known /\ m \in Known
  <2>1. m \in Elems(net[<<t, s>>[1]][<<t, s>>[2]])
    BY <1>2
  <2> QED BY <2>1 DEF Known
<1> QED BY <1>3, <1>6, <1>7, <1>8, <1>9, BlendWritesNothing, OldWritesArrive

\* A published document is on its way to those that did not miss it.
LEMMA PublishArrives ==
    ASSUME SyncInv, SyncInv', Arriving, NEW r \in Requests, Publish(r)
    PROVE  Arriving'
<1> USE DEF SyncInv
<1> DEFINE h == srv[r]
<1>1. h \in Servers /\ doc' = doc /\ peerID' = peerID /\ UNCHANGED <<disk, snap>>
  BY DEF Handled, Active, Publish, memory
<1>2. \A v \in Servers : net[h][v] \in Seq(Documents)
  BY <1>1 DEF TypeOK
<1>3. PICK reached \in SUBSET Servers :
        /\ \A u, v \in Servers :
              net'[u][v] = IF u = h /\ v \in reached
                           THEN Append(net[u][v], doc[u]) ELSE net[u][v]
        /\ missed' = (missed \ ({h} \X reached)) \union ({h} \X (Servers \ reached))
  BY PublishReaches
<1>4. \A v \in Servers :
         /\ Elems(net[h][v]) \subseteq Elems(Append(net[h][v], doc[h]))
         /\ doc[h] \in Elems(Append(net[h][v], doc[h]))
         /\ Elems(Append(net[h][v], doc[h])) \subseteq Elems(net[h][v]) \union {doc[h]}
  <2> TAKE v \in Servers
  <2> DEFINE q == net[h][v]
             p == Append(q, doc[h])
  <2>1. q \in Seq(Documents)
    BY <1>2
  <2>2. /\ DOMAIN q = 1..Len(q) /\ Len(q) \in Nat /\ DOMAIN p = 1..(Len(q) + 1)
        /\ p[Len(q) + 1] = doc[h] /\ \A i \in DOMAIN q : p[i] = q[i]
    BY SMTT(30), <2>1
  <2> HIDE DEF p, q
  <2>3. Len(q) + 1 \in DOMAIN p /\ \A i \in DOMAIN q : i \in DOMAIN p
    BY <2>2
  <2>4. \A i \in DOMAIN p : i \in DOMAIN q \/ i = Len(q) + 1
    BY <2>2
  <2>5. /\ Elems(q) \subseteq Elems(p) /\ doc[h] \in Elems(p)
        /\ Elems(p) \subseteq Elems(q) \union {doc[h]}
    BY <2>2, <2>3, <2>4 DEF Elems
  <2> QED BY <2>5 DEF p, q
<1>5. \A u \in Servers \ {h} : Publishes(u) => Publishes(u)'
  <2>1. \A q \in Requests \ {r} : srv'[q] = srv[q] /\ pc'[q] = pc[q]
    BY DEF Publish, TypeOK, Writers
  <2> QED BY <2>1 DEF Publishes, Active
<1>6. Known' \subseteq Known
  <2>1. \A u, v \in Servers : Elems(net'[u][v]) \subseteq Elems(net[u][v]) \union {doc[h]}
    BY <1>3, <1>4
  <2> QED BY <1>1, <2>1 DEF Known
<1> HIDE DEF h
<1>7. Flows
  <2>1. \A u \in Servers : doc[u].clock <= doc'[u].clock
    BY <1>1 DEF TypeOK, Documents
  <2>2. \A u \in Servers, x \in Shapes : ~Newer(doc[u].shape[x], doc'[u].shape[x])
    BY <1>1, NotNewerThanItself
  <2>3. \A s \in Servers : doc[h] \in Elems(net'[h][s]) \/ <<h, s>> \in missed'
    BY <1>1, <1>3, <1>4
  <2>4. \A u, s \in Servers : <<u, s>> \in missed =>
           doc[u] \in Elems(net'[u][s]) \/ <<u, s>> \in missed'
    BY <1>1, <1>3, <1>4
  <2>5. \A u, s \in Servers : Elems(net[u][s]) \subseteq Elems(net'[u][s])
    BY <1>1, <1>3, <1>4
  <2> QED BY <1>1, <1>5, <2>1, <2>2, <2>3, <2>4, <2>5 DEF Flows
<1>8. Clocks' \subseteq Clocks /\ \A x \in Shapes : Writes(x)' \subseteq Writes(x)
  BY <1>6 DEF Clocks, Writes
<1> QED BY <1>1, <1>7, <1>8, OldWritesArrive

\* Opening a board brings back what was known.
LEMMA OpenArrives ==
    ASSUME SyncInv, SyncInv', Arriving, NEW s \in Servers, Open(s)
    PROVE  Arriving'
<1> USE DEF SyncInv
<1> DEFINE d == Merge(doc[s], disk[s])
<1>1. /\ doc' = [doc EXCEPT ![s] = d] /\ peerID' = peerID
      /\ \A u \in Servers : doc'[u] = IF u = s THEN d ELSE doc[u]
      /\ UNCHANGED <<disk, snap, net, pc, srv, missed>>
  BY DEF Open, TypeOK, request
<1>2. doc[s].clock <= d.clock
  BY DEF Merge, Later, TypeOK, Documents
<1>3. Blend(d, doc[s], disk[s])
  BY MergeBlends
<1> HIDE DEF d
<1>4. Flows
  <2>1. \A u \in Servers : doc[u].clock <= doc'[u].clock
    BY <1>1, <1>2 DEF TypeOK, Documents
  <2>2. \A u \in Servers, x \in Shapes : ~Newer(doc[u].shape[x], doc'[u].shape[x])
    BY <1>1, OpenStep DEF Kept
  <2>3. \A u \in Servers : Publishes(u) => Publishes(u)'
    BY <1>1 DEF Publishes, Active
  <2> QED BY <1>1, <2>1, <2>2, <2>3 DEF Flows
<1>5. Known' \subseteq Known \union {d} /\ doc[s] \in Known /\ disk[s] \in Known
  BY <1>1 DEF Known
<1> QED BY <1>1, <1>3, <1>4, <1>5, BlendWritesNothing, OldWritesArrive

\* A step that moves known documents about between hands and disks.
LEMMA MovesArrive ==
    ASSUME SyncInv, SyncInv', Arriving, UNCHANGED <<doc, peerID, net, missed>>,
           \A s \in Servers : disk'[s] \in Known,
           \A w \in Writers : snap'[w] \in Known,
           \A u \in Servers : Publishes(u) => Publishes(u)'
    PROVE  Arriving'
<1>1. Known' \subseteq Known
  BY DEF Known
<1>2. Clocks' \subseteq Clocks /\ \A x \in Shapes : Writes(x)' \subseteq Writes(x)
  BY <1>1 DEF Clocks, Writes
<1> QED BY <1>2, NothingFlows, OldWritesArrive

\* A request that is not about to publish goes on.
LEMMA RequestsGoOn ==
    ASSUME SyncInv, srv' = srv, NEW w \in Writers, NEW p, pc' = [pc EXCEPT ![w] = p],
           p \notin {"idle", "done"} \/ w \in Servers
    PROVE  \A u \in Servers : Publishes(u) => Publishes(u)'
<1>1. \A r \in Requests : r \in Writers
  BY DEF Writers
<1>2. \A r \in Requests : Active(r) => Active(r)'
  BY <1>1, SyncAssumption DEF SyncInv, TypeOK, Active
<1> QED BY <1>2 DEF Publishes

LEMMA KnownDocs ==
    /\ Empty \in Known /\ \A s \in Servers : doc[s] \in Known /\ disk[s] \in Known
    /\ \A w \in Writers : snap[w] \in Known
BY DEF Known

LEMMA EncodeArrives ==
    ASSUME SyncInv, SyncInv', Arriving, NEW w \in Writers, Encode(w)
    PROVE  Arriving'
<1>1. Home(w) \in Servers
  BY WritersHaveHomes DEF Encode, Active
<1>2. /\ UNCHANGED <<doc, peerID, net, missed, disk, srv>>
      /\ pc' = [pc EXCEPT ![w] = "save"]
      /\ snap' = [snap EXCEPT ![w] = doc[Home(w)]]
  BY DEF Encode, memory, request, history
<1>3. \A v \in Writers : snap'[v] \in Known
  BY <1>1, <1>2, KnownDocs DEF SyncInv, TypeOK
<1>4. \A u \in Servers : Publishes(u) => Publishes(u)'
  BY <1>2, RequestsGoOn
<1> QED BY <1>2, <1>3, <1>4, KnownDocs, MovesArrive

LEMMA SaveArrives ==
    ASSUME SyncInv, SyncInv', Arriving, NEW w \in Writers, Save(w)
    PROVE  Arriving'
<1>1. /\ UNCHANGED <<doc, peerID, net, missed, srv>>
      /\ pc' = [pc EXCEPT ![w] = IF w \in Servers THEN "idle" ELSE "broadcast"]
      /\ snap' = [snap EXCEPT ![w] = Empty]
      /\ disk' = disk \/ disk' = [disk EXCEPT ![Home(w)] = snap[w]]
  BY DEF Save, AfterSave, memory, request
<1>2. \A v \in Writers : snap'[v] \in Known
  BY <1>1, KnownDocs DEF SyncInv, TypeOK
<1>3. \A s \in Servers : disk'[s] \in Known
  BY <1>1, KnownDocs DEF SyncInv, TypeOK
<1>4. \A u \in Servers : Publishes(u) => Publishes(u)'
  <2> DEFINE p == IF w \in Servers THEN "idle" ELSE "broadcast"
  <2>1. p \notin {"idle", "done"} \/ w \in Servers
    OBVIOUS
  <2> HIDE DEF p
  <2>2. pc' = [pc EXCEPT ![w] = p]
    BY <1>1 DEF p
  <2> QED BY <1>1, <2>1, <2>2, RequestsGoOn
<1> QED BY <1>1, <1>2, <1>3, <1>4, MovesArrive

LEMMA BroadcastArrives ==
    ASSUME SyncInv, SyncInv', Arriving, NEW r \in Requests, Broadcast(r)
    PROVE  Arriving'
<1>1. /\ UNCHANGED <<doc, peerID, net, missed, srv, disk, snap>>
      /\ pc' = [pc EXCEPT ![r] = "publish"]
  BY DEF Broadcast, memory, history
<1>2. \A u \in Servers : Publishes(u) => Publishes(u)'
  BY <1>1, RequestsGoOn DEF Writers
<1> QED BY <1>1, <1>2, KnownDocs, MovesArrive

LEMMA ConvInitially == Init => ConvInv
<1> SUFFICES ASSUME Init PROVE ConvInv
  OBVIOUS
<1>1. SyncInv
  BY SyncInitially
<1>2. Known \subseteq {Empty}
  BY DEF Init, Known, Elems
<1>3. /\ Clocks \subseteq {0}
      /\ \A x \in Shapes : \A e \in Writes(x) : e = [at |-> 0, by |-> 0, live |-> FALSE]
  BY <1>2 DEF Writes, Clocks, Empty
<1>4. StampsUnique
  BY <1>3 DEF StampsUnique
<1>5. OwnClock
  BY <1>3, SyncAssumption DEF OwnClock, Init
<1>6. PeersApart
  BY DEF Init, PeersApart
<1>7. ASSUME Servers # {} PROVE WritesArrive /\ ClocksArrive
  <2>1. PICK u \in Servers : TRUE
    BY <1>7
  <2>2. \A s \in Servers : doc[s] = Empty
    BY DEF Init
  <2>3. \A s \in Servers, x \in Shapes :
           doc[s].shape[x] = [at |-> 0, by |-> 0, live |-> FALSE]
    <3>1. \A x \in Shapes : Empty.shape[x] = [at |-> 0, by |-> 0, live |-> FALSE]
      BY DEF Empty
    <3> QED BY <2>2, <3>1
  <2>4. WritesArrive
    <3> SUFFICES ASSUME NEW x \in Shapes, NEW e \in Writes(x)
                 PROVE  WriteArrives(e, x)
      BY DEF WritesArrive
    <3>1. \A s \in Servers : ~Newer(e, doc[s].shape[x])
      BY <1>3, <2>3 DEF Newer
    <3> QED BY <2>1, <3>1 DEF WriteArrives
  <2>5. ClocksArrive
    <3>1. \A s \in Servers : doc[s].clock = 0
      BY <2>2 DEF Empty
    <3> SUFFICES ASSUME NEW c \in Clocks
                 PROVE  ClockArrives(c)
      BY DEF ClocksArrive
    <3>2. \A s \in Servers : c <= doc[s].clock
      BY <1>3, <3>1
    <3> QED BY <2>1, <3>2 DEF ClockArrives
  <2> QED BY <2>4, <2>5
<1> QED BY <1>1, <1>4, <1>5, <1>6, <1>7 DEF ConvInv, Arriving

\* A step that leaves documents, messages and requests alone.
LEMMA StutterArrives == SyncInv /\ SyncInv' /\ Arriving /\ UNCHANGED vars => Arriving'
<1> SUFFICES ASSUME SyncInv, SyncInv', Arriving, UNCHANGED vars PROVE Arriving'
  OBVIOUS
<1>1. \A u \in Servers : Publishes(u) => Publishes(u)'
  BY DEF Publishes, Active, vars, request
<1> QED BY <1>1, KnownDocs, MovesArrive DEF vars, memory, history

LEMMA ConvStep == ConvInv /\ [Next]_vars => ConvInv'
<1> SUFFICES ASSUME ConvInv, [Next]_vars, crashes' = 0, Servers # {} PROVE Arriving'
  BY SyncStep DEF ConvInv
<1>1. SyncInv /\ SyncInv'
  BY SyncStep DEF ConvInv
<1>2. \A s \in Servers : ~Crash(s)
  BY <1>1 DEF Crash, SyncInv, TypeOK
<1>3. Arriving
  <2>1. crashes = 0
    BY <1>2 DEF ConvInv, Next, vars, history, Post, Encode, Save, Broadcast, Publish,
                Import, Open
  <2> QED BY <2>1 DEF ConvInv
<1>4. ASSUME NEW r \in Requests, NEW s \in Servers, NEW o \in Ops, Post(r, s, o)
      PROVE  Arriving'
  BY <1>1, <1>3, <1>4, PostArrives
<1>5. ASSUME NEW w \in Writers, Encode(w) PROVE Arriving'
  BY <1>1, <1>3, <1>5, EncodeArrives
<1>6. ASSUME NEW w \in Writers, Save(w) PROVE Arriving'
  BY <1>1, <1>3, <1>6, SaveArrives
<1>7. ASSUME NEW r \in Requests, Broadcast(r) PROVE Arriving'
  BY <1>1, <1>3, <1>7, BroadcastArrives
<1>8. ASSUME NEW r \in Requests, Publish(r) PROVE Arriving'
  BY <1>1, <1>3, <1>8, PublishArrives
<1>9. ASSUME NEW s \in Servers, NEW t \in Servers, Import(s, t) PROVE Arriving'
  BY <1>1, <1>3, <1>9, ImportArrives
<1>10. ASSUME NEW s \in Servers, Open(s) PROVE Arriving'
  BY <1>1, <1>3, <1>10, OpenArrives
<1> QED BY <1>1, <1>2, <1>3, <1>4, <1>5, <1>6, <1>7, <1>8, <1>9, <1>10, StutterArrives DEF Next

\* When nothing is under way, what arrives is at every server that did not
\* miss it, and equal stamps mean equal writes.
LEMMA ConvergedWhenQuiet == ConvInv => Convergence
<1> SUFFICES ASSUME ConvInv, Quiet, crashes = 0, NEW s \in Servers, NEW t \in Servers,
                    CaughtUp(t)
             PROVE  /\ Merge(doc[t], doc[s]) = doc[t]
                    /\ CaughtUp(s) => doc[s] = doc[t]
  BY DEF Convergence
<1>1. SyncInv /\ Arriving
  BY DEF ConvInv
<1>2. /\ \A u \in Servers : ~Publishes(u)
      /\ \A u, v \in Servers : Elems(net[u][v]) = {}
  BY DEF Quiet, Publishes, Writers, Elems
<1>3. /\ doc[s] \in Documents /\ doc[s] \in Known
      /\ doc[t] \in Documents /\ doc[t] \in Known
  BY <1>1, KnownDocs DEF SyncInv, TypeOK
<1>4. ASSUME NEW v \in Servers, CaughtUp(v)
      PROVE  \A c \in Clocks : c <= doc[v].clock
  <2> TAKE c \in Clocks
  <2>1. ClockArrives(c)
    BY <1>1 DEF Arriving, ClocksArrive
  <2> QED BY <2>1, <1>2, <1>4 DEF ClockArrives, CaughtUp
<1>5. ASSUME NEW v \in Servers, CaughtUp(v), NEW x \in Shapes
      PROVE  \A e \in Writes(x) : ~Newer(e, doc[v].shape[x])
  <2> TAKE e \in Writes(x)
  <2>1. WriteArrives(e, x)
    BY <1>1 DEF Arriving, WritesArrive
  <2> QED BY <2>1, <1>2, <1>5 DEF WriteArrives, CaughtUp
<1>6. /\ doc[s].clock \in Clocks /\ doc[t].clock \in Clocks
      /\ \A x \in Shapes : doc[s].shape[x] \in Writes(x) /\ doc[t].shape[x] \in Writes(x)
  BY <1>3 DEF Clocks, Writes
<1>7. Merge(doc[t], doc[s]) = doc[t]
  <2>1. Later(doc[s].clock, doc[t].clock) = doc[t].clock
    <3>1. doc[s].clock <= doc[t].clock
      BY <1>4, <1>6
    <3> QED BY <1>3, <3>1 DEF Documents, Later
  <2>2. \A x \in Shapes : ~Newer(doc[s].shape[x], doc[t].shape[x])
    BY <1>5, <1>6
  <2>3. Merge(doc[t], doc[s]) = [clock |-> doc[t].clock,
                                 shape |-> [x \in Shapes |-> doc[t].shape[x]]]
    BY <2>1, <2>2 DEF Merge
  <2> QED BY <1>3, <2>3 DEF Documents
<1>8. ASSUME CaughtUp(s) PROVE doc[s] = doc[t]
  <2>1. doc[s].clock = doc[t].clock
    <3>1. doc[s].clock <= doc[t].clock /\ doc[t].clock <= doc[s].clock
      BY <1>4, <1>6, <1>8
    <3> QED BY <1>3, <3>1 DEF Documents
  <2>2. \A x \in Shapes : doc[s].shape[x] = doc[t].shape[x]
    <3> TAKE x \in Shapes
    <3>1. /\ ~Newer(doc[s].shape[x], doc[t].shape[x])
          /\ ~Newer(doc[t].shape[x], doc[s].shape[x])
      BY <1>5, <1>6, <1>8
    <3>2. doc[s].shape[x] \in Entries /\ doc[t].shape[x] \in Entries
      BY <1>3 DEF Documents
    <3>3. /\ doc[s].shape[x].at = doc[t].shape[x].at
          /\ doc[s].shape[x].by = doc[t].shape[x].by
      BY <3>1, <3>2 DEF Newer, Entries
    <3> QED BY <1>1, <1>6, <3>3 DEF Arriving, StampsUnique
  <2> QED BY <1>3, <2>1, <2>2 DEF Documents
<1> QED BY <1>7, <1>8

\* Until a server crashes, and whatever publications are lost: with nothing under
\* way, the servers that everybody's last publication got to have all that any
\* server has, and the same document, for any number of servers, shapes and
\* overlapping requests.
THEOREM ServersConverge == Spec => []Convergence
<1> QED BY ConvInitially, ConvStep, ConvergedWhenQuiet, PTL DEF Spec

-------------------------------------------------------------------------------
(* Calm adds.  Until a board is cleared no document holds a deletion, so    *)
(* that a merge shows the shapes of both documents; and while a server has  *)
(* one writer at a time, what the writer saves holds all that was answered. *)

\* Document d was only ever added to: an entry is a write or untouched.
Additive(d) ==
    \A x \in Shapes : IF d.shape[x].live THEN d.shape[x].at > 0
                                         ELSE d.shape[x].at = 0 /\ d.shape[x].by = 0

AllAdditive ==
    /\ \A s \in Servers : Additive(doc[s]) /\ Additive(disk[s])
    /\ \A w \in Writers : Additive(snap[w])
    /\ \A t, s \in Servers : \A i \in DOMAIN net[t][s] : Additive(net[t][s][i])

\* A writer has its server to itself, and the board there was opened.
OneWriter ==
    /\ \A w \in Writers : Active(w) => Home(w) \in loaded
    /\ \A v, w \in Writers : (Active(v) /\ Active(w) /\ Home(v) = Home(w)) => v = w

\* The answered adds of each server are in its snapshot, in its document once
\* the board is opened, and in whatever is about to replace the snapshot.
AnsweredKept ==
    /\ \A s \in Servers : acked[s] \subseteq Visible(disk[s])
    /\ \A s \in loaded : acked[s] \subseteq Visible(doc[s])
    /\ \A w \in Writers : pc[w] = "save" => acked[Home(w)] \subseteq Visible(snap[w])

\* The add of a request on its way to the answer: in the document, then in the
\* encoded snapshot, then on disk.
AddOnItsWay(r) ==
    /\ Active(r) => op[r] \in Visible(doc[srv[r]])
    /\ pc[r] = "save" => op[r] \in Visible(snap[r])
    /\ pc[r] \in {"broadcast", "publish"} => op[r] \in Visible(disk[srv[r]])

CalmCore ==
    /\ AllAdditive
    /\ OneWriter
    /\ AnsweredKept
    /\ \A r \in Requests : AddOnItsWay(r)

CalmInv == (calm /\ ~cleared) => CalmCore

\* A merge shows all that one of the two documents shows.
LEMMA MergeAdds ==
    ASSUME NEW d \in Documents, NEW e \in Documents, Additive(d), Additive(e)
    PROVE  /\ Additive(Merge(d, e))
           /\ Visible(d) \subseteq Visible(Merge(d, e))
           /\ Visible(e) \subseteq Visible(Merge(d, e))
<1>1. \A x \in Shapes : Merge(d, e).shape[x] = IF Newer(e.shape[x], d.shape[x])
                                               THEN e.shape[x] ELSE d.shape[x]
  BY DEF Merge
<1>2. \A x \in Shapes : d.shape[x] \in Entries /\ e.shape[x] \in Entries
  BY DEF Documents
<1>3. Additive(Merge(d, e))
  BY Zenon, <1>1 DEF Additive
<1>4. ASSUME NEW x \in Shapes, d.shape[x].live \/ e.shape[x].live
      PROVE  Merge(d, e).shape[x].live
  <2>1. CASE Newer(e.shape[x], d.shape[x])
    BY <1>1, <1>2, <1>4, <2>1 DEF Newer, Additive, Entries
  <2>2. CASE ~Newer(e.shape[x], d.shape[x])
    BY <1>1, <1>2, <1>4, <2>2 DEF Newer, Additive, Entries
  <2> QED
    BY <2>1, <2>2
<1> QED
  BY <1>3, <1>4 DEF Visible

\* An add shows the added shape and all that was there.
LEMMA AddAdds ==
    ASSUME NEW d \in Documents, Additive(d), NEW me \in Nat, NEW o \in Shapes, o # "clear"
    PROVE  /\ Additive(ApplyShapeOp(d, me, o))
           /\ Visible(d) \subseteq Visible(ApplyShapeOp(d, me, o))
           /\ o \in Visible(ApplyShapeOp(d, me, o))
<1> DEFINE e == ApplyShapeOp(d, me, o)
           write == [at |-> d.clock + 1, by |-> me, live |-> TRUE]
<1>1. \A x \in Shapes : e.shape[x] = IF x \in {o} \ Visible(d) THEN write ELSE d.shape[x]
  BY DEF ApplyShapeOp
<1>2. write.live /\ write.at > 0
  BY DEF Documents
<1> HIDE DEF e, write
<1>3. Additive(e)
  BY Zenon, <1>1, <1>2 DEF Additive
<1>4. \A x \in Shapes : (d.shape[x].live \/ x = o) => e.shape[x].live
  BY Zenon, <1>1, <1>2 DEF Visible
<1>5. Visible(d) \subseteq Visible(e) /\ o \in Visible(e)
  BY Zenon, <1>4 DEF Visible
<1> QED
  BY <1>3, <1>5 DEF e

LEMMA HomeIs ==
    /\ \A r \in Requests : Home(r) = srv[r] /\ r \notin Servers
    /\ \A s \in Servers : Home(s) = s /\ s \notin Requests
BY SyncAssumption DEF Home

\* Documents that grow, while the rest stays as it is, lose nothing.
Grows ==
    /\ \A s \in Servers : Visible(doc[s]) \subseteq Visible(doc'[s])
    /\ \A s \in Servers : Additive(doc[s]) => Additive(doc'[s])

LEMMA CalmPost ==
    ASSUME SyncInv, CalmInv, NEW r \in Requests, NEW s \in Servers, NEW o \in Ops,
           Post(r, s, o), calm', ~cleared'
    PROVE  CalmCore'
<1> USE DEF SyncInv
<1>1. /\ calm /\ ~cleared /\ o # "clear" /\ o \in Shapes
      /\ s \in loaded /\ \A w \in Writers : Home(w) = s => ~Active(w)
      /\ CalmCore
  BY DEF Post, StillCalm, CalmInv, Ops, TypeOK
<1>2. PICK d : d = ApplyShapeOp(doc[s], peerID[s], o)
  OBVIOUS
<1>3. /\ \A t \in Servers : doc'[t] = IF t = s THEN d ELSE doc[t]
      /\ disk' = disk /\ snap' = snap /\ net' = net /\ acked' = acked /\ loaded' = loaded
  BY <1>2 DEF Post, TypeOK
<1>4. Additive(d) /\ Visible(doc[s]) \subseteq Visible(d) /\ o \in Visible(d)
  <2>1. doc[s] \in Documents /\ peerID[s] \in Nat /\ Additive(doc[s])
    BY <1>1, SyncAssumption DEF TypeOK, CalmCore, AllAdditive
  <2> QED
    BY <1>1, <1>2, <2>1, AddAdds
<1>5. Grows
  BY <1>3, <1>4 DEF Grows
<1>6. /\ \A w \in Writers : w # r => pc'[w] = pc[w]
      /\ pc'[r] = "encode" /\ srv'[r] = s /\ op'[r] = o
      /\ \A q \in Requests : q # r => srv'[q] = srv[q] /\ op'[q] = op[q]
  BY DEF Post, TypeOK, Writers
<1>7. /\ \A w \in Writers : w # r => Home(w)' = Home(w) /\ (Active(w)' <=> Active(w))
      /\ Home(r)' = s /\ pc'[r] # "save" /\ r \in Writers
  BY <1>6, SyncAssumption DEF Home, Active, Writers
<1>8. AllAdditive'
  BY <1>1, <1>3, <1>5 DEF CalmCore, AllAdditive, Grows
<1>9. OneWriter'
  BY Zenon, <1>1, <1>3, <1>7 DEF CalmCore, OneWriter
<1>10. AnsweredKept'
  <2>1. \A t \in loaded : t \in Servers
    BY DEF TypeOK
  <2> QED
    BY <1>1, <1>3, <1>5, <1>6, <1>7, <2>1 DEF CalmCore, AnsweredKept, Grows
<1>11. ASSUME NEW q \in Requests PROVE AddOnItsWay(q)'
  <2>1. CASE q = r
    BY <1>3, <1>4, <1>6, <2>1 DEF AddOnItsWay
  <2>2. CASE q # r
    <3>1. AddOnItsWay(q) /\ (Active(q) => srv[q] \in Servers)
      BY <1>1 DEF CalmCore, Handled
    <3>2. pc'[q] = pc[q] /\ srv'[q] = srv[q] /\ op'[q] = op[q] /\ (Active(q)' <=> Active(q))
      BY <1>6, <2>2 DEF Active, Writers
    <3>3. Active(q) => op[q] \in Visible(doc'[srv[q]])
      BY <1>5, <3>1 DEF AddOnItsWay, Grows
    <3> QED
      BY <1>3, <3>1, <3>2, <3>3 DEF AddOnItsWay
  <2> QED
    BY <2>1, <2>2
<1> QED
  BY <1>8, <1>9, <1>10, <1>11 DEF CalmCore

LEMMA CalmImport ==
    ASSUME SyncInv, CalmInv, NEW s \in Servers, NEW t \in Servers, Import(s, t),
           calm', ~cleared'
    PROVE  CalmCore'
<1> USE DEF SyncInv
<1>1. /\ calm /\ ~cleared /\ s \in loaded
      /\ \A w \in Writers : Home(w) = s => ~Active(w)
      /\ CalmCore
  BY DEF Import, StillCalm, CalmInv, TypeOK
<1>2. PICK e : e = Head(net[t][s])
  OBVIOUS
<1>3. PICK d : d = Merge(doc[s], e)
  OBVIOUS
<1>4. /\ \A u \in Servers : doc'[u] = IF u = s THEN d ELSE doc[u]
      /\ disk' = disk /\ snap' = snap /\ acked' = acked /\ loaded' = loaded
      /\ srv' = srv /\ op' = op
  BY <1>2, <1>3 DEF Import, TypeOK, request
<1>5. net[t][s] \in Seq(Documents) /\ net[t][s] # <<>>
  BY DEF TypeOK, Import
<1>6. Additive(d) /\ Visible(doc[s]) \subseteq Visible(d)
  <2>1. doc[s] \in Documents /\ Additive(doc[s])
    BY <1>1 DEF TypeOK, CalmCore, AllAdditive
  <2>2. e \in Documents /\ Additive(e)
    <3>1. e = net[t][s][1] /\ 1 \in DOMAIN net[t][s] /\ net[t][s][1] \in Documents
      BY <1>2, <1>5
    <3> QED
      BY <1>1, <3>1 DEF CalmCore, AllAdditive
  <2> QED
    BY <1>3, <2>1, <2>2, MergeAdds
<1>7. Grows
  BY <1>4, <1>6 DEF Grows
<1>8. /\ \A w \in Writers : w # s => pc'[w] = pc[w]
      /\ pc'[s] = "encode" /\ s \in Writers
  BY DEF Import, TypeOK, Writers
<1>9. /\ \A w \in Writers : Home(w)' = Home(w)
      /\ \A w \in Writers : w # s => (Active(w)' <=> Active(w))
      /\ Home(s) = s
  BY <1>4, <1>8 DEF Home, Active
<1>10. AllAdditive'
  <2>1. \A u, v \in Servers : \A i \in DOMAIN net'[u][v] : Additive(net'[u][v][i])
    <3>1. \A i \in DOMAIN Tail(net[t][s]) : Additive(Tail(net[t][s])[i])
      BY <1>1, <1>5 DEF CalmCore, AllAdditive
    <3>2. \A u, v \in Servers :
             net'[u][v] = IF u = t /\ v = s THEN Tail(net[t][s]) ELSE net[u][v]
      BY DEF TypeOK, Import
    <3> SUFFICES ASSUME NEW u \in Servers, NEW v \in Servers
                 PROVE  \A i \in DOMAIN net'[u][v] : Additive(net'[u][v][i])
      OBVIOUS
    <3>3. CASE u = t /\ v = s
      BY Zenon, <3>1, <3>2, <3>3
    <3>4. CASE ~(u = t /\ v = s)
      <4>1. net'[u][v] = net[u][v]
        BY Zenon, <3>2, <3>4
      <4> QED
        BY Zenon, <1>1, <4>1 DEF CalmCore, AllAdditive
    <3> QED
      BY <3>3, <3>4
  <2> QED
    BY <1>1, <1>4, <1>7, <2>1 DEF CalmCore, AllAdditive, Grows
<1>11. OneWriter'
  BY Zenon, <1>1, <1>4, <1>8, <1>9 DEF CalmCore, OneWriter
<1>12. AnsweredKept'
  <2>1. \A u \in loaded : u \in Servers
    BY DEF TypeOK
  <2>2. \A w \in Writers : pc'[w] = "save" => pc[w] = "save"
    BY <1>8
  <2> QED
    BY <1>1, <1>4, <1>7, <1>9, <2>1, <2>2 DEF CalmCore, AnsweredKept, Grows
<1>13. ASSUME NEW q \in Requests PROVE AddOnItsWay(q)'
  <2>1. AddOnItsWay(q) /\ (Active(q) => srv[q] \in Servers)
    BY <1>1 DEF CalmCore, Handled
  <2>2. pc'[q] = pc[q] /\ (Active(q)' <=> Active(q))
    BY <1>8, SyncAssumption DEF Active, Writers
  <2>3. Active(q) => op[q] \in Visible(doc'[srv[q]])
    BY <1>7, <2>1 DEF AddOnItsWay, Grows
  <2> QED
    BY <1>4, <2>1, <2>2, <2>3 DEF AddOnItsWay
<1> QED
  BY <1>10, <1>11, <1>12, <1>13 DEF CalmCore

\* A writer encodes the document, with every answered add and its own in it.
LEMMA CalmEncode ==
    ASSUME SyncInv, CalmCore, NEW w \in Writers, Encode(w) PROVE CalmCore'
<1> USE DEF SyncInv
<1>1. Active(w) /\ Home(w) \in Servers /\ Home(w) \in loaded
  BY WritersHaveHomes DEF Encode, Active, CalmCore, OneWriter
<1>2. /\ doc' = doc /\ disk' = disk /\ net' = net /\ acked' = acked /\ loaded' = loaded
      /\ srv' = srv /\ op' = op
  BY DEF Encode, memory, request, history
<1>3. \A v \in Writers : snap'[v] = IF v = w THEN doc[Home(w)] ELSE snap[v]
  BY DEF Encode, TypeOK
<1>4. \A v \in Writers : pc'[v] = IF v = w THEN "save" ELSE pc[v]
  BY DEF Encode, TypeOK
<1>5. \A v \in Writers : Home(v)' = Home(v) /\ (Active(v)' <=> Active(v))
  BY <1>1, <1>2, <1>4 DEF Home, Active
<1>6. AllAdditive'
  BY <1>1, <1>2, <1>3 DEF CalmCore, AllAdditive
<1>7. OneWriter'
  BY Zenon, <1>2, <1>5 DEF CalmCore, OneWriter
<1>8. AnsweredKept'
  BY <1>1, <1>2, <1>3, <1>4, <1>5 DEF CalmCore, AnsweredKept
<1>9. ASSUME NEW q \in Requests PROVE AddOnItsWay(q)'
  <2>1. AddOnItsWay(q) /\ q \in Writers /\ Home(q) = srv[q]
    BY HomeIs DEF CalmCore, Writers
  <2>2. pc'[q] = "save" => op[q] \in Visible(snap'[q])
    BY <1>1, <1>3, <1>4, <2>1 DEF AddOnItsWay
  <2> QED
    BY <1>2, <1>4, <1>5, <2>1, <2>2 DEF AddOnItsWay
<1> QED
  BY <1>6, <1>7, <1>8, <1>9 DEF CalmCore

LEMMA CalmSave ==
    ASSUME SyncInv, CalmCore, NEW w \in Writers, Save(w), calm' PROVE CalmCore'
<1> USE DEF SyncInv
<1>1. Active(w) /\ Home(w) \in Servers /\ pc[w] = "save"
  BY WritersHaveHomes DEF Save, Active
<1>2. /\ doc' = doc /\ net' = net /\ acked' = acked /\ loaded' = loaded
      /\ srv' = srv /\ op' = op
  BY DEF Save, memory, request
<1>3. \A s \in Servers : disk'[s] = IF s = Home(w) THEN snap[w] ELSE disk[s]
  BY DEF Save, TypeOK
<1>4. /\ \A v \in Writers : v # w => pc'[v] = pc[v] /\ snap'[v] = snap[v]
      /\ snap'[w] = Empty
      /\ pc'[w] = IF w \in Servers THEN "idle" ELSE "broadcast"
  BY DEF Save, AfterSave, TypeOK
<1>5. \A v \in Writers : Home(v)' = Home(v) /\ (Active(v)' => Active(v))
  BY <1>1, <1>2, <1>4 DEF Home, Active
<1>6. AllAdditive'
  <2>1. Additive(Empty)
    BY DEF Additive, Empty
  <2>2. \A s \in Servers : Additive(disk'[s])
    BY <1>3 DEF CalmCore, AllAdditive
  <2>3. \A v \in Writers : Additive(snap'[v])
    BY <1>4, <2>1 DEF CalmCore, AllAdditive
  <2> QED
    BY <1>2, <2>2, <2>3 DEF CalmCore, AllAdditive
<1>7. OneWriter'
  BY Zenon, <1>2, <1>5 DEF CalmCore, OneWriter
<1>8. AnsweredKept'
  <2>1. acked[Home(w)] \subseteq Visible(snap[w])
    BY <1>1 DEF CalmCore, AnsweredKept
  <2>2. \A s \in Servers : acked[s] \subseteq Visible(disk'[s])
    BY <1>3, <2>1 DEF CalmCore, AnsweredKept
  <2>3. \A v \in Writers : pc'[v] = "save" => pc[v] = "save" /\ snap'[v] = snap[v]
    BY <1>4
  <2> QED
    BY <1>2, <1>5, <2>2, <2>3 DEF CalmCore, AnsweredKept
<1>9. ASSUME NEW q \in Requests PROVE AddOnItsWay(q)'
  <2>1. AddOnItsWay(q) /\ q \in Writers /\ Home(q) = srv[q] /\ (Active(q) => srv[q] \in Servers)
    BY HomeIs DEF CalmCore, Writers, Handled
  <2>2. CASE q = w
    BY <1>1, <1>2, <1>3, <1>4, <1>5, <2>1, <2>2 DEF AddOnItsWay
  <2>3. CASE q # w
    <3>1. pc'[q] = pc[q] /\ snap'[q] = snap[q] /\ (Active(q)' <=> Active(q))
      BY <1>4, <2>1, <2>3 DEF Active
    <3>2. ASSUME Active(q) PROVE disk'[srv[q]] = disk[srv[q]]
      BY <1>1, <1>3, <2>1, <2>3, <3>2 DEF CalmCore, OneWriter
    <3>3. pc[q] \in {"broadcast", "publish"} => Active(q)
      BY DEF Active
    <3> QED
      BY <1>2, <2>1, <3>1, <3>2, <3>3 DEF AddOnItsWay
  <2> QED
    BY <2>2, <2>3
<1> QED
  BY <1>6, <1>7, <1>8, <1>9 DEF CalmCore

LEMMA CalmBroadcast ==
    ASSUME SyncInv, CalmCore, NEW r \in Requests, Broadcast(r) PROVE CalmCore'
<1> USE DEF SyncInv
<1>1. /\ doc' = doc /\ disk' = disk /\ net' = net /\ acked' = acked /\ loaded' = loaded
      /\ srv' = srv /\ op' = op /\ snap' = snap
  BY DEF Broadcast, memory, history
<1>2. /\ \A v \in Writers : v # r => pc'[v] = pc[v]
      /\ pc[r] = "broadcast" /\ pc'[r] = "publish" /\ r \in Writers
  BY DEF Broadcast, TypeOK, Writers
<1>3. \A v \in Writers : Home(v)' = Home(v) /\ (Active(v)' <=> Active(v))
  BY <1>1, <1>2 DEF Home, Active
<1>4. AllAdditive'
  BY <1>1 DEF CalmCore, AllAdditive
<1>5. OneWriter'
  BY Zenon, <1>1, <1>3 DEF CalmCore, OneWriter
<1>6. AnsweredKept'
  BY <1>1, <1>2, <1>3 DEF CalmCore, AnsweredKept
<1>7. ASSUME NEW q \in Requests PROVE AddOnItsWay(q)'
  BY <1>1, <1>2, <1>3 DEF CalmCore, AddOnItsWay, Writers
<1> QED
  BY <1>4, <1>5, <1>6, <1>7 DEF CalmCore

\* The answer: what it promises is on disk and in the document, and no other
\* writer of the server holds a snapshot without it.
LEMMA CalmPublish ==
    ASSUME SyncInv, CalmCore, NEW r \in Requests, Publish(r) PROVE CalmCore'
<1>0. \A u, v \in Servers :
         net'[u][v] = net[u][v] \/ (u = srv[r] /\ net'[u][v] = Append(net[u][v], doc[u]))
  <2>1. PICK reached \in SUBSET Servers :
          /\ \A u, v \in Servers :
                net'[u][v] = IF u = srv[r] /\ v \in reached
                             THEN Append(net[u][v], doc[u]) ELSE net[u][v]
          /\ missed' = (missed \ ({srv[r]} \X reached))
                         \union ({srv[r]} \X (Servers \ reached))
    BY PublishReaches
  <2> QED BY <2>1
<1> USE DEF SyncInv
<1>1. PICK h \in Servers : h = srv[r]
  BY DEF Handled, Active, Publish
<1>2. /\ doc' = doc /\ disk' = disk /\ snap' = snap /\ op' = op /\ loaded' = loaded
  BY DEF Publish, memory
<1>3. /\ \A v \in Writers : v # r => pc'[v] = pc[v]
      /\ pc[r] = "publish" /\ pc'[r] = "done" /\ r \in Writers /\ Active(r) /\ Home(r) = h
      /\ \A q \in Requests : q # r => srv'[q] = srv[q]
  BY <1>1, HomeIs DEF Publish, TypeOK, Writers, Active
<1>4. \A v \in Writers : v # r => Home(v)' = Home(v) /\ (Active(v)' <=> Active(v))
  BY <1>3 DEF Home, Active, Writers
<1>5. ~Active(r)'
  BY <1>3 DEF Active
<1>6. \A s \in Servers : acked'[s] = IF s = h THEN acked[s] \union ({op[r]} \ {"clear"})
                                              ELSE acked[s]
  BY <1>1 DEF Publish, TypeOK
<1>7. AllAdditive'
  <2>1. \A u, v \in Servers : net'[u][v] \in {net[u][v], Append(net[u][v], doc[h])}
    BY <1>0, <1>1
  <2>2. ASSUME NEW u \in Servers, NEW v \in Servers, NEW i \in DOMAIN net'[u][v]
        PROVE  Additive(net'[u][v][i])
    <3>1. /\ net[u][v] \in Seq(Documents) /\ doc[h] \in Documents /\ Additive(doc[h])
          /\ \A j \in DOMAIN net[u][v] : Additive(net[u][v][j])
      BY DEF TypeOK, CalmCore, AllAdditive
    <3>2. \A j \in DOMAIN Append(net[u][v], doc[h]) :
             Append(net[u][v], doc[h])[j] = doc[h]
             \/ (j \in DOMAIN net[u][v] /\ Append(net[u][v], doc[h])[j] = net[u][v][j])
      BY <3>1
    <3> QED
      BY <2>1, <2>2, <3>1, <3>2
  <2> QED
    BY <1>2, <2>2 DEF CalmCore, AllAdditive
<1>8. OneWriter'
  BY Zenon, <1>2, <1>4, <1>5 DEF CalmCore, OneWriter
<1>9. op[r] \in Visible(doc[h]) /\ op[r] \in Visible(disk[h])
  BY <1>1, <1>3 DEF CalmCore, AddOnItsWay
<1>10. AnsweredKept'
  <2>1. \A s \in Servers : acked'[s] \subseteq Visible(disk[s])
    BY <1>6, <1>9 DEF CalmCore, AnsweredKept
  <2>2. \A s \in loaded : acked'[s] \subseteq Visible(doc[s])
    BY <1>6, <1>9 DEF CalmCore, AnsweredKept, TypeOK
  <2>3. ASSUME NEW v \in Writers, pc'[v] = "save"
        PROVE  acked'[Home(v)'] \subseteq Visible(snap[v])
    <3>1. v # r /\ pc[v] = "save" /\ Active(v) /\ Home(v)' = Home(v)
      BY <1>3, <1>4, <2>3 DEF Active
    <3>2. Home(v) \in Servers /\ Home(v) # h
      BY <1>3, <3>1, WritersHaveHomes DEF CalmCore, OneWriter
    <3> QED
      BY <1>6, <3>1, <3>2 DEF CalmCore, AnsweredKept
  <2> QED
    BY <1>2, <2>1, <2>2, <2>3 DEF AnsweredKept
<1>11. ASSUME NEW q \in Requests PROVE AddOnItsWay(q)'
  <2>1. CASE q = r
    BY <1>3, <1>5, <2>1 DEF AddOnItsWay
  <2>2. CASE q # r
    <3>1. pc'[q] = pc[q] /\ srv'[q] = srv[q] /\ (Active(q)' <=> Active(q)) /\ AddOnItsWay(q)
      BY <1>3, <1>4, <2>2 DEF CalmCore, Writers
    <3> QED
      BY <1>2, <3>1 DEF AddOnItsWay
  <2> QED
    BY <2>1, <2>2
<1> QED
  BY <1>7, <1>8, <1>10, <1>11 DEF CalmCore

\* Opening a board brings the answered adds of the snapshot into the document.
LEMMA CalmOpen ==
    ASSUME SyncInv, CalmCore, NEW s \in Servers, Open(s) PROVE CalmCore'
<1> USE DEF SyncInv
<1>1. PICK d : d = Merge(doc[s], disk[s])
  OBVIOUS
<1>2. /\ \A t \in Servers : doc'[t] = IF t = s THEN d ELSE doc[t]
      /\ disk' = disk /\ snap' = snap /\ net' = net /\ acked' = acked /\ pc' = pc
      /\ srv' = srv /\ op' = op /\ loaded' = loaded \union {s}
  BY <1>1 DEF Open, TypeOK, request
<1>3. Additive(d) /\ Visible(doc[s]) \subseteq Visible(d) /\ Visible(disk[s]) \subseteq Visible(d)
  <2>1. doc[s] \in Documents /\ disk[s] \in Documents /\ Additive(doc[s]) /\ Additive(disk[s])
    BY DEF TypeOK, CalmCore, AllAdditive
  <2> QED
    BY <1>1, <2>1, MergeAdds
<1>4. Grows
  BY <1>2, <1>3 DEF Grows
<1>5. \A v \in Writers : Home(v)' = Home(v) /\ (Active(v)' <=> Active(v))
  BY <1>2 DEF Home, Active
<1>6. AllAdditive'
  BY <1>2, <1>4 DEF CalmCore, AllAdditive, Grows
<1>7. OneWriter'
  BY Zenon, <1>2, <1>5 DEF CalmCore, OneWriter
<1>8. AnsweredKept'
  <2>1. \A t \in loaded' : t \in Servers /\ acked[t] \subseteq Visible(doc'[t])
    BY <1>2, <1>3, <1>4 DEF CalmCore, AnsweredKept, Grows, TypeOK
  <2> QED
    BY <1>2, <1>5, <2>1 DEF CalmCore, AnsweredKept
<1>9. ASSUME NEW q \in Requests PROVE AddOnItsWay(q)'
  <2>1. AddOnItsWay(q) /\ (Active(q) => srv[q] \in Servers)
    BY DEF CalmCore, Handled
  <2>2. Active(q) => op[q] \in Visible(doc'[srv[q]])
    BY <1>4, <2>1 DEF AddOnItsWay, Grows
  <2> QED
    BY <1>2, <2>1, <2>2 DEF AddOnItsWay, Active
<1> QED
  BY <1>6, <1>7, <1>8, <1>9 DEF CalmCore

\* A crash takes the document and the writers away and leaves the snapshot.
LEMMA CalmCrash ==
    ASSUME SyncInv, CalmCore, NEW s \in Servers, Crash(s) PROVE CalmCore'
<1> USE DEF SyncInv
<1>1. /\ \A t \in Servers : doc'[t] = IF t = s THEN Empty ELSE doc[t]
      /\ disk' = disk /\ acked' = acked /\ op' = op /\ loaded' = loaded \ {s}
  BY DEF Crash, TypeOK
<1>2. Additive(Empty)
  BY DEF Additive, Empty
<1>3. \A v \in Writers :
         /\ Home(v) = s => ~Active(v)' /\ snap'[v] = Empty /\ pc'[v] # "save"
         /\ Home(v) # s => /\ pc'[v] = pc[v] /\ snap'[v] = snap[v] /\ Home(v)' = Home(v)
                           /\ (Active(v)' <=> Active(v))
  BY DEF Crash, Writers, Home, Active
<1>4. AllAdditive'
  <2>1. \A u, v \in Servers : net'[u][v] = IF v = s THEN <<>> ELSE net[u][v]
    BY DEF Crash, TypeOK
  <2>2. \A u, v \in Servers : \A i \in DOMAIN net'[u][v] : Additive(net'[u][v][i])
    BY <2>1 DEF CalmCore, AllAdditive
  <2>3. \A v \in Writers : Additive(snap'[v])
    BY <1>2, <1>3 DEF CalmCore, AllAdditive
  <2> QED
    BY <1>1, <1>2, <2>2, <2>3 DEF CalmCore, AllAdditive
<1>5. OneWriter'
  BY Zenon, <1>1, <1>3 DEF CalmCore, OneWriter
<1>6. AnsweredKept'
  <2>1. \A t \in loaded' : acked[t] \subseteq Visible(doc'[t])
    BY <1>1 DEF CalmCore, AnsweredKept, TypeOK
  <2> QED
    BY <1>1, <1>3, <2>1 DEF CalmCore, AnsweredKept
<1>7. ASSUME NEW q \in Requests PROVE AddOnItsWay(q)'
  <2>1. q \in Writers /\ Home(q) = srv[q] /\ AddOnItsWay(q) /\ (Active(q) => srv[q] \in Servers)
    BY HomeIs DEF CalmCore, Writers, Handled
  <2>2. CASE srv[q] = s
    <3>1. ~Active(q)'
      BY <1>3, <2>1, <2>2
    <3> QED
      BY <3>1 DEF AddOnItsWay, Active
  <2>3. CASE srv[q] # s
    <3>1. srv'[q] = srv[q] /\ pc'[q] = pc[q] /\ snap'[q] = snap[q] /\ (Active(q)' <=> Active(q))
      BY <1>3, <2>1, <2>3 DEF Crash
    <3>2. Active(q) => doc'[srv[q]] = doc[srv[q]]
      BY <1>1, <2>1, <2>3
    <3> QED
      BY <1>1, <2>1, <3>1, <3>2 DEF AddOnItsWay
  <2> QED
    BY <2>2, <2>3
<1> QED
  BY <1>4, <1>5, <1>6, <1>7 DEF CalmCore

LEMMA CalmStep == SyncInv /\ CalmInv /\ [Next]_vars => CalmInv'
<1> SUFFICES ASSUME SyncInv, CalmInv, [Next]_vars, calm', ~cleared' PROVE CalmCore'
  BY DEF CalmInv
<1>1. ASSUME NEW r \in Requests, NEW s \in Servers, NEW o \in Ops, Post(r, s, o)
      PROVE  CalmCore'
  BY <1>1, CalmPost
<1>2. ASSUME NEW s \in Servers, NEW t \in Servers, Import(s, t) PROVE CalmCore'
  BY <1>2, CalmImport
<1>3. ASSUME NEW w \in Writers, Encode(w) PROVE CalmCore'
  <2>1. CalmCore
    BY <1>3 DEF Encode, history, CalmInv
  <2> QED BY <1>3, <2>1, CalmEncode
<1>4. ASSUME NEW w \in Writers, Save(w) PROVE CalmCore'
  <2>1. CalmCore
    BY <1>4 DEF Save, CalmInv
  <2> QED BY <1>4, <2>1, CalmSave
<1>5. ASSUME NEW r \in Requests, Broadcast(r) PROVE CalmCore'
  <2>1. CalmCore
    BY <1>5 DEF Broadcast, history, CalmInv
  <2> QED BY <1>5, <2>1, CalmBroadcast
<1>6. ASSUME NEW r \in Requests, Publish(r) PROVE CalmCore'
  <2>1. CalmCore
    BY <1>6 DEF Publish, CalmInv
  <2> QED BY <1>6, <2>1, CalmPublish
<1>7. ASSUME NEW s \in Servers, Open(s) PROVE CalmCore'
  <2>1. CalmCore
    BY <1>7 DEF Open, CalmInv
  <2> QED BY <1>7, <2>1, CalmOpen
<1>8. ASSUME NEW s \in Servers, Crash(s) PROVE CalmCore'
  <2>1. CalmCore
    BY <1>8 DEF Crash, CalmInv
  <2> QED BY <1>8, <2>1, CalmCrash
<1>9. CASE UNCHANGED vars
  <2>1. CalmCore
    BY <1>9 DEF vars, history, CalmInv
  <2> QED
    BY <1>9, <2>1 DEF vars, memory, request, history, CalmCore, AllAdditive, OneWriter,
       AnsweredKept, AddOnItsWay, Active, Home
<1> QED
  BY <1>1, <1>2, <1>3, <1>4, <1>5, <1>6, <1>7, <1>8, <1>9 DEF Next

LEMMA CalmInitially == Init => CalmInv
<1> SUFFICES ASSUME Init PROVE CalmCore
  BY DEF CalmInv
<1>1. Additive(Empty)
  BY DEF Additive, Empty
<1>2. \A w \in Writers : ~Active(w) /\ pc[w] # "save"
  BY DEF Init, Active
<1>3. AllAdditive
  BY <1>1 DEF Init, AllAdditive
<1>4. OneWriter
  BY <1>2 DEF OneWriter
<1>5. AnsweredKept
  BY <1>2 DEF AnsweredKept, Init
<1>6. \A r \in Requests : AddOnItsWay(r)
  BY <1>2 DEF AddOnItsWay, Active, Writers
<1> QED
  BY <1>3, <1>4, <1>5, <1>6 DEF CalmCore

\* On a server whose writers do not overlap, an add that was answered with 200
\* stays until some board is cleared: across any number of crashes, edits and
\* updates of other servers it is in the document or, while the board has not
\* been opened since the crash, in the snapshot that opening it merges.
THEOREM CalmAddsAreKept == Spec => []CalmAddsSurvive
<1>1. SyncInv /\ CalmInv => CalmAddsSurvive
  BY DEF CalmInv, CalmCore, AnsweredKept, CalmAddsSurvive
<1>2. Spec => []SyncInv
  <2>1. SyncInv /\ [Next]_vars => SyncInv'
    BY SyncStep
  <2> QED BY <2>1, SyncInitially, PTL DEF Spec
<1> QED BY <1>1, <1>2, CalmInitially, CalmStep, PTL DEF Spec

===============================================================================
