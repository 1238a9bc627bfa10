---------------------------- MODULE WhiteboardSync ----------------------------
(***************************************************************************)
(* internal/collab: one board's document on several servers.  A browser    *)
(* posts shape ops; WebSyncWorker.ApplyOp merges each into the server's    *)
(* in-memory Doc, saves a snapshot, broadcasts the shapes to the server's  *)
(* pages and publishes the document on NATS, where every server's          *)
(* SyncWorker, the publisher's own included, merges and saves it.          *)
(*                                                                         *)
(* Doc's mutex makes each use of the document atomic, and nothing else:    *)
(* the handlers and the SyncWorker of a server interleave between the      *)
(* merge, the encoding, the save, the broadcast and the publication.       *)
(*                                                                         *)
(* The Loro map of shapes is modelled from its use: for each shape ID the  *)
(* last write in the order of Lamport time, then peer ID.  A document gets *)
(* a new peer ID whenever it is created, that is after every restart.      *)
(*                                                                         *)
(* A publication may get to any of the servers or to none: an error is     *)
(* logged and the POST answered all the same, and core NATS keeps nothing  *)
(* for a subscriber that is away.                                          *)
(***************************************************************************)
EXTENDS Integers, Sequences, FiniteSets

CONSTANTS
    Servers,    \* processes, each with a database of its own
    Shapes,     \* shape IDs
    Requests,   \* POSTs of a shape op
    PeerIDs,    \* Loro peer IDs: positive numbers
    None,       \* no server
    MaxCrashes  \* bound: crashes in a behaviour

ASSUME SyncAssumption ==
    /\ PeerIDs \subseteq Nat \ {0}
    /\ None \notin Servers
    /\ Servers \intersect Requests = {}
    /\ MaxCrashes \in Nat

VARIABLES
    doc,        \* each server's in-memory document
    peerID,     \* the document's Loro peer ID
    disk,       \* the snapshot in each server's whiteboards record
    shown,      \* the shapes last broadcast to each server's pages
    net,        \* NATS: net[t][s] is under way from t to s
    pc,         \* where each writer (request or SyncWorker) is
    srv,        \* the server that handles each request
    op,         \* the op of each request: a shape to add, or "clear"
    list,       \* the shapes ApplyShapeOp returned to the request
    snap,       \* the snapshot each writer has encoded
    acked,      \* history: the adds that each server answered with 200
    cleared,    \* history: a clear was applied somewhere
    loaded,     \* history: the servers whose board was opened since they started
    calm,       \* history: no two writers of a server overlapped, no save
                \* failed, and no server wrote before its board was opened
    missed,     \* history: <<u, s>> if u's last publication did not get to s
    crashes     \* crashes so far

memory == <<doc, peerID>>
request == <<srv, op, list>>
history == <<acked, cleared, loaded, calm, missed, crashes>>
vars == <<memory, disk, shown, net, pc, request, snap, history>>

Writers == Requests \union Servers
Ops == Shapes \union {"clear"}

\* A document: its Lamport clock, and for each shape the last write.
Entries == [at : Nat, by : Nat, live : BOOLEAN]
Documents == [clock : Nat, shape : [Shapes -> Entries]]
Empty == [clock |-> 0, shape |-> [x \in Shapes |-> [at |-> 0, by |-> 0, live |-> FALSE]]]

TypeOK ==
    /\ doc \in [Servers -> Documents]
    /\ peerID \in [Servers -> PeerIDs]
    /\ disk \in [Servers -> Documents]
    /\ shown \in [Servers -> SUBSET Shapes]
    /\ net \in [Servers -> [Servers -> Seq(Documents)]]
    /\ pc \in [Writers -> {"idle", "encode", "save", "broadcast", "publish", "done"}]
    /\ \A s \in Servers : pc[s] \in {"idle", "encode", "save"}
    /\ srv \in [Requests -> Servers \union {None}]
    /\ op \in [Requests -> Ops]
    /\ list \in [Requests -> SUBSET Shapes]
    /\ snap \in [Writers -> Documents]
    /\ acked \in [Servers -> SUBSET Shapes]
    /\ cleared \in BOOLEAN /\ calm \in BOOLEAN
    /\ loaded \subseteq Servers
    /\ missed \subseteq Servers \X Servers
    /\ crashes \in 0..MaxCrashes

Init ==
    /\ doc = [s \in Servers |-> Empty]
    /\ peerID \in [Servers -> PeerIDs]
    /\ \A s, t \in Servers : s # t => peerID[s] # peerID[t]
    /\ disk = [s \in Servers |-> Empty]
    /\ shown = [s \in Servers |-> {}]
    /\ net = [t \in Servers |-> [s \in Servers |-> <<>>]]
    /\ pc = [w \in Writers |-> "idle"]
    /\ srv = [r \in Requests |-> None]
    /\ op = [r \in Requests |-> "clear"]
    /\ list = [r \in Requests |-> {}]
    /\ snap = [w \in Writers |-> Empty]
    /\ acked = [s \in Servers |-> {}]
    /\ cleared = FALSE /\ calm = TRUE
    /\ loaded = Servers
    /\ missed = {}
    /\ crashes = 0

-------------------------------------------------------------------------------
(* The document. *)

Newer(e, f) == e.at > f.at \/ (e.at = f.at /\ e.by > f.by)

Later(m, n) == IF m > n THEN m ELSE n

\* VARIANT: concurrent writes of the same Lamport time are not ordered.
Merge_NoTieBreak(d, e) ==
    [clock |-> Later(e.clock, d.clock),
     shape |-> [x \in Shapes |-> IF e.shape[x].at >= d.shape[x].at
                                 THEN e.shape[x] ELSE d.shape[x]]]

\* Doc.ApplyUpdate: Import.
Merge(d, e) ==
    [clock |-> Later(e.clock, d.clock),
     shape |-> [x \in Shapes |-> IF Newer(e.shape[x], d.shape[x])
                                 THEN e.shape[x] ELSE d.shape[x]]]

\* Doc.Shapes.
Visible(d) == {x \in Shapes : d.shape[x].live}

\* Doc.ApplyShapeOp: a clear deletes the shapes that are there, an add inserts
\* a shape that is not there (of one that is, it rewrites the fields).
ApplyShapeOp(d, me, o) ==
    LET written == IF o = "clear" THEN Visible(d) ELSE {o} \ Visible(d)
        write == [at |-> d.clock + 1, by |-> me, live |-> o # "clear"]
    IN  [clock |-> d.clock + 1,
         shape |-> [x \in Shapes |-> IF x \in written THEN write ELSE d.shape[x]]]

-------------------------------------------------------------------------------
(* The writers of a server. *)

Home(w) == IF w \in Servers THEN w ELSE srv[w]
Active(w) == pc[w] \notin {"idle", "done"}

\* A new writer of s leaves the server calm if it is the only one and the
\* board was opened.
StillCalm(s) ==
    calm' = (calm /\ s \in loaded /\ \A w \in Writers : Home(w) = s => ~Active(w))

\* handleUpdate: ApplyOp merges the op and keeps the resolved shapes.
Post(r, s, o) ==
    /\ pc[r] = "idle"
    /\ r \in Requests
    /\ LET d == ApplyShapeOp(doc[s], peerID[s], o)
       IN  /\ doc' = [doc EXCEPT ![s] = d]
           /\ list' = [list EXCEPT ![r] = Visible(d)]
    /\ srv' = [srv EXCEPT ![r] = s]
    /\ op' = [op EXCEPT ![r] = o]
    /\ pc' = [pc EXCEPT ![r] = "encode"]
    /\ cleared' = (cleared \/ o = "clear")
    /\ StillCalm(s)
    /\ UNCHANGED <<peerID, disk, shown, net, snap, acked, loaded, missed, crashes>>

\* SyncWorker's subscription merges the next update; malformed ones, which no
\* server publishes, are skipped.
Import(s, t) ==
    /\ pc[s] = "idle"
    /\ net[t][s] # <<>>
    /\ doc' = [doc EXCEPT ![s] = Merge(@, Head(net[t][s]))]
    /\ net' = [net EXCEPT ![t][s] = Tail(@)]
    /\ pc' = [pc EXCEPT ![s] = "encode"]
    /\ StillCalm(s)
    /\ UNCHANGED <<peerID, disk, shown, request, snap, acked, cleared, loaded, missed,
                   crashes>>

\* Doc.EncodeSnapshot, of the document as it is by now.
Encode(w) ==
    /\ pc[w] = "encode"
    /\ snap' = [snap EXCEPT ![w] = doc[Home(w)]]
    /\ pc' = [pc EXCEPT ![w] = "save"]
    /\ UNCHANGED <<memory, disk, shown, net, request, history>>

\* VARIANT: the SyncWorker goes on to broadcast, as ApplyOp does.
AfterSave_Broadcasts(w) ==
    /\ pc' = [pc EXCEPT ![w] = "broadcast"]
    /\ snap' = [snap EXCEPT ![w] = Empty]

\* What follows the save: ApplyOp broadcasts, the SyncWorker is done.
AfterSave(w) ==
    /\ pc' = [pc EXCEPT ![w] = IF w \in Servers THEN "idle" ELSE "broadcast"]
    /\ snap' = [snap EXCEPT ![w] = Empty]

\* VARIANT: the snapshot is not saved while the board's pages see the shapes.
Save_Skipped(w) ==
    /\ pc[w] = "save"
    /\ AfterSave(w)
    /\ UNCHANGED <<memory, disk, shown, net, request, history>>

\* SaveSnapshot overwrites the record's snapshot, whatever it holds; an error
\* is logged (ApplyOp) or ignored (SyncWorker).
Save(w) ==
    /\ pc[w] = "save"
    /\ AfterSave(w)
    /\ \/ disk' = [disk EXCEPT ![Home(w)] = snap[w]] /\ UNCHANGED calm
       \/ calm' = FALSE /\ UNCHANGED disk
    /\ UNCHANGED <<memory, shown, net, request, acked, cleared, loaded, missed, crashes>>

\* The shapes ApplyShapeOp returned go to the server's pages (the one that
\* posted shows its shape already).
Broadcast(r) ==
    /\ pc[r] = "broadcast"
    /\ shown' = [shown EXCEPT ![srv[r]] = list[r]]
    /\ list' = [list EXCEPT ![r] = {}]
    /\ pc' = [pc EXCEPT ![r] = "publish"]
    /\ UNCHANGED <<memory, disk, net, srv, op, snap, history>>

\* VARIANT: the update of the op alone is published.
Publish_Delta(r) ==
    /\ pc[r] = "publish"
    /\ LET d == [doc[srv[r]] EXCEPT !.shape = [x \in Shapes |->
                     IF op[r] \in {x, "clear"} THEN @[x] ELSE Empty.shape[x]]]
       IN  \E reached \in SUBSET Servers :
              /\ net' = [net EXCEPT ![srv[r]] = [s \in Servers |->
                            IF s \in reached THEN Append(@[s], d) ELSE @[s]]]
              /\ missed' = (missed \ ({srv[r]} \X reached)) \union ({srv[r]} \X (Servers \ reached))
    /\ acked' = [acked EXCEPT ![srv[r]] = @ \union ({op[r]} \ {"clear"})]
    /\ pc' = [pc EXCEPT ![r] = "done"]
    /\ srv' = [srv EXCEPT ![r] = None]
    /\ UNCHANGED <<memory, disk, shown, op, list, snap, cleared, loaded, calm, crashes>>

\* The document as it is by now is published and gets to some of the servers,
\* or, without a connection or with an error, to none; the POST is answered.
Publish(r) ==
    /\ pc[r] = "publish"
    /\ \E reached \in SUBSET Servers :
          /\ net' = [net EXCEPT ![srv[r]] =
                        [s \in Servers |-> IF s \in reached THEN Append(@[s], doc[srv[r]])
                                           ELSE @[s]]]
          /\ missed' = (missed \ ({srv[r]} \X reached)) \union ({srv[r]} \X (Servers \ reached))
    /\ acked' = [acked EXCEPT ![srv[r]] = @ \union ({op[r]} \ {"clear"})]
    /\ pc' = [pc EXCEPT ![r] = "done"]
    /\ srv' = [srv EXCEPT ![r] = None]
    /\ UNCHANGED <<memory, disk, shown, op, list, snap, cleared, loaded, calm, crashes>>

-------------------------------------------------------------------------------
\* VARIANT: opening a board installs the saved snapshot as the document.
Open_Installs(s) ==
    /\ doc' = [doc EXCEPT ![s] = disk[s]]
    /\ loaded' = loaded \union {s}
    /\ UNCHANGED <<peerID, disk, shown, net, pc, request, snap, acked, cleared, calm, missed,
                   crashes>>

\* handleBoard: LoadSnapshot merges the saved snapshot into the document.
Open(s) ==
    /\ doc' = [doc EXCEPT ![s] = Merge(@, disk[s])]
    /\ loaded' = loaded \union {s}
    /\ UNCHANGED <<peerID, disk, shown, net, pc, request, snap, acked, cleared, calm, missed,
                   crashes>>

\* Server s crashes and restarts with an empty DocStore: its requests fail,
\* what was under way to it is lost, its pages show nothing new.
Crash(s) ==
    /\ crashes < MaxCrashes
    /\ crashes' = crashes + 1
    /\ \E p \in PeerIDs :
          /\ \A t \in Servers : peerID[t] # p
          /\ \A t \in Servers, x \in Shapes : doc[t].shape[x].by # p
          /\ peerID' = [peerID EXCEPT ![s] = p]
    /\ doc' = [doc EXCEPT ![s] = Empty]
    /\ loaded' = loaded \ {s}
    /\ net' = [t \in Servers |-> [net[t] EXCEPT ![s] = <<>>]]
    /\ pc' = [w \in Writers |-> IF Home(w) # s THEN pc[w]
                                ELSE IF w \in Servers THEN "idle" ELSE "done"]
    /\ srv' = [r \in Requests |-> IF srv[r] = s THEN None ELSE srv[r]]
    /\ list' = [r \in Requests |-> IF srv[r] = s THEN {} ELSE list[r]]
    /\ snap' = [w \in Writers |-> IF Home(w) = s THEN Empty ELSE snap[w]]
    /\ UNCHANGED <<disk, shown, op, acked, cleared, calm, missed>>

-------------------------------------------------------------------------------
Next ==
    \/ \E r \in Requests, s \in Servers, o \in Ops : Post(r, s, o)
    \/ \E w \in Writers : Encode(w) \/ Save(w)
    \/ \E r \in Requests : Broadcast(r) \/ Publish(r)
    \/ \E s, t \in Servers : Import(s, t)
    \/ \E s \in Servers : Open(s) \/ Crash(s)

Spec == Init /\ [][Next]_vars

-------------------------------------------------------------------------------
\* Nothing is under way.
Quiet ==
    /\ \A w \in Writers : ~Active(w)
    /\ \A s, t \in Servers : net[t][s] = <<>>

\* The last publication of every other server got to s.
CaughtUp(s) == \A u \in Servers \ {s} : <<u, s>> \notin missed

\* Concurrent edits on different servers converge.  A publication is the whole
\* document, so it makes up for those of its server that were lost before: as
\* long as no server has crashed, a server that everybody's last publication
\* got to has all that any server has, whatever happened to the earlier ones,
\* and two such servers have the same document.
Convergence ==
    (Quiet /\ crashes = 0) =>
        \A s, t \in Servers :
            CaughtUp(t) => /\ Merge(doc[t], doc[s]) = doc[t]
                           /\ CaughtUp(s) => doc[s] = doc[t]

\* While a server lives, nothing takes its document back: opening a board in
\* the middle of an edit, or importing an update encoded earlier, undoes none
\* of the writes the document has seen.
NoWriteUndone ==
    [][\A s \in Servers, x \in Shapes :
          peerID'[s] = peerID[s] => ~Newer(doc[s].shape[x], doc'[s].shape[x])]_vars

\* What an answered add can rely on when writers do not overlap: until some
\* board is cleared, the shape is in the document or, after a crash, in the
\* snapshot the next opening of the board merges.
CalmAddsSurvive ==
    (calm /\ ~cleared) =>
        \A s \in Servers : \A x \in acked[s] :
            \/ x \in Visible(doc[s])
            \/ s \notin loaded /\ x \in Visible(disk[s])
===============================================================================
