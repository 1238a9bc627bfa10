---------------------------- MODULE CRDTStore_proofs ----------------------------
(***************************************************************************)
(* Proofs about CRDTStore, for every number of todos, watchers and owners, *)
(* every channel capacity and every limit of a query: the types, that what *)
(* was saved is the document, that a watcher which missed nothing gets the *)
(* latest version and, for an owner within the limit, that no record goes  *)
(* away unasked and that the store implements WriteBack.                   *)
(***************************************************************************)
EXTENDS CRDTStore, FiniteSetTheorems, TLAPS

-------------------------------------------------------------------------------
(* Types. *)

\* Nothing was sent to a watcher whose goroutine has not begun.
FeedInv ==
    /\ FeedTypeOK
    /\ \A w \in Watchers : stage[w] \in {"none", "started"} => out[w] = <<>>

LEMMA BumpTyped == ASSUME FeedInv, NEW o \in Owners, Bump(o) PROVE FeedInv'
<1> USE FeedAssumption DEF FeedInv, FeedTypeOK, Bump
<1>1. version[o] + 1 \in 1..MaxVersion
  OBVIOUS
<1>2. version' \in [Owners -> 0..MaxVersion]
  BY <1>1
<1>3. \A w \in Watchers :
        inner'[w] \in Seq(Owners \X (1..MaxVersion)) /\ Len(inner'[w]) <= InnerCap
  <2> SUFFICES ASSUME NEW w \in Watchers
               PROVE  inner'[w] \in Seq(Owners \X (1..MaxVersion)) /\ Len(inner'[w]) <= InnerCap
    OBVIOUS
  <2>1. CASE inner'[w] = inner[w]
    BY <2>1
  <2>2. CASE Len(inner[w]) < InnerCap /\ inner'[w] = Append(inner[w], <<o, version[o] + 1>>)
    BY <1>1, <2>2
  <2> QED
    BY <2>1, <2>2
<1>4. inner' \in [Watchers -> Seq(Owners \X (1..MaxVersion))]
  BY <1>3
<1> QED
  BY <1>2, <1>3, <1>4

LEMMA FeedTyped == ASSUME FeedInv, NEW w \in Watchers, FeedStep(w) PROVE FeedInv'
<1> USE FeedAssumption DEF FeedInv, FeedTypeOK, Stages
<1>1. CASE Watch(w)
  BY <1>1 DEF Watch
<1>2. CASE SendCurrent(w)
  <2>1. out[w] = <<>> /\ version[owner[w]] \in 0..MaxVersion
    BY <1>2 DEF SendCurrent
  <2>2. out' = [out EXCEPT ![w] = <<version[owner[w]]>>]
    BY <1>2, <2>1 DEF SendCurrent
  <2> QED
    BY <1>2, <2>1, <2>2 DEF SendCurrent
<1>3. CASE Forward(w)
  <2>1. Head(inner[w])[2] \in 0..MaxVersion /\ Tail(inner[w]) \in Seq(Owners \X (1..MaxVersion))
        /\ Len(Tail(inner[w])) <= InnerCap
    <3>1. inner[w] \in Seq(Owners \X (1..MaxVersion)) /\ inner[w] # <<>> /\ Len(inner[w]) <= InnerCap
      BY <1>3 DEF Forward
    <3> HIDE DEF FeedInv, FeedTypeOK
    <3>2. Head(inner[w]) \in Owners \X (1..MaxVersion)
      BY <3>1
    <3>3. Tail(inner[w]) \in Seq(Owners \X (1..MaxVersion)) /\ Len(Tail(inner[w])) <= InnerCap
      BY <3>1
    <3> QED
      BY <3>2, <3>3
  <2>2. inner' \in [Watchers -> Seq(Owners \X (1..MaxVersion))]
        /\ \A v \in Watchers : Len(inner'[v]) <= InnerCap
    BY <1>3, <2>1 DEF Forward
  <2>3. out' = out \/ (Len(out[w]) < OutCap
                       /\ out' = [out EXCEPT ![w] = Append(@, Head(inner[w])[2])])
    BY <1>3 DEF Forward
  <2>4. out' \in [Watchers -> Seq(0..MaxVersion)] /\ \A v \in Watchers : Len(out'[v]) <= OutCap
    <3>1. CASE out' = out
      BY <3>1
    <3>2. CASE Len(out[w]) < OutCap /\ out' = [out EXCEPT ![w] = Append(@, Head(inner[w])[2])]
      <4>1. Append(out[w], Head(inner[w])[2]) \in Seq(0..MaxVersion)
            /\ Len(Append(out[w], Head(inner[w])[2])) <= OutCap
        BY <2>1, <3>2
      <4> QED
        BY <3>2, <4>1
    <3> QED
      BY <2>3, <3>1, <3>2
  <2>5. missed' \subseteq Watchers
    BY <1>3 DEF Forward
  <2>6. \A v \in Watchers : stage'[v] \in {"none", "started"} => out'[v] = <<>>
    BY <1>3, <2>3 DEF Forward
  <2> QED
    BY <1>3, <2>2, <2>4, <2>5, <2>6 DEF Forward
<1>4. CASE EndFeed(w)
  BY <1>4 DEF EndFeed
<1>5. CASE CancelWatch(w)
  BY <1>5 DEF CancelWatch
<1>6. CASE ReadVersion(w)
  <2>1. /\ out' = [out EXCEPT ![w] = Tail(@)] /\ seen' = [seen EXCEPT ![w] = Head(out[w])]
        /\ out[w] \in Seq(0..MaxVersion) /\ out[w] # <<>> /\ Len(out[w]) <= OutCap
        /\ UNCHANGED <<version, listed, inner, stage, owner, cancelled, missed>>
    BY <1>6 DEF ReadVersion
  <2>2. /\ Tail(out[w]) \in Seq(0..MaxVersion) /\ Len(Tail(out[w])) <= OutCap
        /\ Head(out[w]) \in 0..MaxVersion
    BY <2>1
  <2>3. /\ out' \in [Watchers -> Seq(0..MaxVersion)] /\ \A v \in Watchers : Len(out'[v]) <= OutCap
        /\ seen' \in [Watchers -> 0..MaxVersion]
    BY <2>1, <2>2
  <2>4. \A v \in Watchers : stage'[v] \in {"none", "started"} => out'[v] = <<>>
    BY <2>1
  <2> QED
    BY <2>1, <2>3, <2>4
<1> QED
  BY <1>1, <1>2, <1>3, <1>4, <1>5, <1>6 DEF FeedStep

LEMMA FeedRestarted == ASSUME FeedInv, FeedRestart PROVE FeedInv'
BY FeedAssumption DEF FeedInv, FeedTypeOK, FeedRestart, Stages

LEMMA FeedStutters == ASSUME FeedInv, UNCHANGED feedVars PROVE FeedInv'
BY DEF FeedInv, FeedTypeOK, feedVars

\* The store's own variables.
StoreTypeOK ==
    /\ records \in [Todos -> Values]
    /\ loaded \in BOOLEAN
    /\ doc \in [Todos -> Values]
    /\ job \in Jobs
    /\ synced \in BOOLEAN
    /\ removed \subseteq Todos
    /\ restarts \in 0..MaxRestarts

LEMMA OpenedTyped == ASSUME StoreTypeOK PROVE Opened \subseteq [Todos -> Values]
BY DEF StoreTypeOK, Opened, Values

\* A request's new document, and the step that begins its projection.
Begins(d, list) == \E remote \in BOOLEAN : Begin(d, list, remote)

\* Every request that is not a look-up begins a projection of some document.
LEMMA RequestCases ==
    ASSUME StoreTypeOK, Request, ~LookUp
    PROVE  \E d \in Opened, list \in [Todos -> Values] : Begins(d, list)
<1> USE DEF Begins
<1>1. ASSUME NEW t \in Todos, Create(t)
      PROVE  \E d \in Opened, list \in [Todos -> Values] : Begins(d, list)
  <2>1. PICK d \in Opened : Begin(d, [d EXCEPT ![t] = "active"], FALSE)
    BY <1>1 DEF Create
  <2>2. [d EXCEPT ![t] = "active"] \in [Todos -> Values]
    BY OpenedTyped DEF Values
  <2> QED
    BY <2>1, <2>2
<1>2. ASSUME NEW t \in Todos, NEW v \in Values \ {Gone}, Update(t, v)
      PROVE  \E d \in Opened, list \in [Todos -> Values] : Begins(d, list)
  <2>1. PICK d \in Opened : Begin(d, [d EXCEPT ![t] = v], FALSE)
    BY <1>2 DEF Update
  <2>2. [d EXCEPT ![t] = v] \in [Todos -> Values]
    BY OpenedTyped
  <2> QED
    BY <2>1, <2>2
<1>3. ASSUME NEW t \in Todos, Delete(t)
      PROVE  \E d \in Opened, list \in [Todos -> Values] : Begins(d, list)
  <2>1. PICK d \in Opened : Begin(d, [d EXCEPT ![t] = Gone], FALSE)
    BY <1>3 DEF Delete
  <2>2. [d EXCEPT ![t] = Gone] \in [Todos -> Values]
    BY OpenedTyped DEF Values
  <2> QED
    BY <2>1, <2>2
<1>4. ASSUME ClearCompleted
      PROVE  \E d \in Opened, list \in [Todos -> Values] : Begins(d, list)
  <2>1. PICK d \in Opened :
           Begin(d, [t \in Todos |-> IF d[t] = "completed" THEN Gone ELSE d[t]], FALSE)
    BY <1>4 DEF ClearCompleted
  <2>2. [t \in Todos |-> IF d[t] = "completed" THEN Gone ELSE d[t]] \in [Todos -> Values]
    BY OpenedTyped DEF Values
  <2> QED
    BY <2>1, <2>2
<1>5. ASSUME NEW list \in [Todos -> Values], ApplyRemoteOp(list)
      PROVE  \E d \in Opened, l \in [Todos -> Values] : Begins(d, l)
  BY <1>5 DEF ApplyRemoteOp
<1> QED
  BY <1>1, <1>2, <1>3, <1>4, <1>5 DEF Request

LEMMA BeginTyped ==
    ASSUME StoreTypeOK, FeedInv, NEW d, NEW list \in [Todos -> Values], Begins(d, list)
    PROVE  StoreTypeOK' /\ FeedInv'
<1> PICK remote \in BOOLEAN : Begin(d, list, remote)
  BY DEF Begins
<1>1. FeedInv'
  BY BumpTyped, StoreAssumption DEF Begin
<1>2. job' \in Jobs
  BY DEF Begin, Jobs, Present
<1> QED
  BY <1>1, <1>2 DEF StoreTypeOK, Begin

LEMMA NextTyped == ASSUME StoreTypeOK, FeedInv, [Next]_vars PROVE StoreTypeOK' /\ FeedInv'
<1>1. CASE LookUp
  BY <1>1, OpenedTyped, FeedStutters DEF LookUp, StoreTypeOK
<1>2. CASE Request /\ ~LookUp
  BY <1>2, RequestCases, BeginTyped
<1>3. ASSUME NEW t \in Todos, Upsert(t) PROVE StoreTypeOK' /\ FeedInv'
  BY <1>3, FeedStutters DEF Upsert, StoreTypeOK, Jobs, Idle
<1>4. ASSUME NEW t \in Todos, DeleteRow(t) PROVE StoreTypeOK' /\ FeedInv'
  BY <1>4, FeedStutters DEF DeleteRow, StoreTypeOK, Jobs, Idle, Values
<1>5. CASE UpsertsDone
  BY <1>5, FeedStutters DEF UpsertsDone, StoreTypeOK, Jobs, Idle
<1>6. CASE ListRows
  <2>1. PICK p \in Page(Present(records)) :
           job' = [pc |-> "delete", left |-> {t \in p : doc[t] = Gone}, remote |-> job.remote]
    BY <1>6 DEF ListRows
  <2>2. p \subseteq Todos
    BY DEF Page, Present
  <2>3. job.remote \in BOOLEAN
    BY <1>6 DEF ListRows, StoreTypeOK, Jobs, Idle
  <2>4. {t \in p : doc[t] = Gone} \in SUBSET Todos
    BY <2>2
  <2>5. job' \in Jobs
    BY <2>1, <2>3, <2>4 DEF Jobs
  <2> QED
    BY <1>6, <2>5, FeedStutters DEF ListRows, StoreTypeOK
<1>7. CASE Finish
  BY <1>7, FeedStutters, BumpTyped, StoreAssumption DEF Finish, StoreTypeOK, Jobs
<1>8. CASE Fail
  BY <1>8, FeedStutters DEF Fail, StoreTypeOK, Jobs
<1>9. CASE Restart
  <2>1. restarts + 1 \in 0..MaxRestarts
    BY <1>9, StoreAssumption DEF Restart, StoreTypeOK
  <2> QED
    BY <1>9, <2>1, FeedRestarted DEF Restart, StoreTypeOK, Jobs, Values
<1>10. CASE FeedNext
  BY <1>10, FeedTyped, BumpTyped DEF FeedNext, StoreTypeOK, storeVars
<1>11. CASE UNCHANGED vars
  BY <1>11, FeedStutters DEF vars, StoreTypeOK
<1> QED
  BY <1>1, <1>2, <1>3, <1>4, <1>5, <1>6, <1>7, <1>8, <1>9, <1>10, <1>11
     DEF Next, Project

LEMMA Typed == Spec => [](StoreTypeOK /\ FeedInv)
<1>1. Init => FeedInv
  BY FeedAssumption DEF Init, FeedInit, FeedInv, FeedTypeOK, Stages
<1>2. Init => StoreTypeOK
  <2>1. Idle \in Jobs /\ 0 \in 0..MaxRestarts
    BY StoreAssumption DEF Jobs
  <2>2. [t \in Todos |-> Gone] \in [Todos -> Values]
    BY DEF Values
  <2> QED
    BY <2>1, <2>2 DEF Init, StoreTypeOK
<1>3. (StoreTypeOK /\ FeedInv) /\ [Next]_vars => (StoreTypeOK /\ FeedInv)'
  BY NextTyped
<1> QED
  BY <1>1, <1>2, <1>3, PTL DEF Spec

\* Types, with the channels of every watcher within their capacities.
THEOREM TypeCorrect == Spec => []TypeOK
<1>1. StoreTypeOK /\ FeedInv => TypeOK
  BY DEF StoreTypeOK, FeedInv, TypeOK
<1> QED
  BY <1>1, Typed, PTL

-------------------------------------------------------------------------------
(* What is on record. *)

\* A projection holds the mutex on a loaded document.  Every turn leaves one
\* todo less whose record may differ from it, and then it deletes only rows
\* of todos that are not in it.
ProjectionInv ==
    /\ job # Idle => loaded /\ ~synced
    /\ job.pc = "upsert" =>
          /\ job.left \subseteq Present(doc)
          /\ \A t \in Present(doc) \ job.left : records[t] = doc[t]
    /\ job.pc \in {"list", "delete"} => \A t \in Present(doc) : records[t] = doc[t]
    /\ job.pc = "delete" => \A t \in job.left : doc[t] = Gone

RecordInv == ProjectionInv /\ NothingMissing

LEMMA RecordStep ==
    ASSUME StoreTypeOK, RecordInv, [Next]_vars PROVE RecordInv'
<1> USE DEF RecordInv, ProjectionInv, NothingMissing, Present
<1>1. CASE LookUp
  <2>1. job = Idle /\ job' = Idle /\ loaded' /\ records' = records /\ synced' = synced
    BY <1>1 DEF LookUp
  <2>2. CASE loaded
    <3>1. doc' = doc
      BY <1>1, <2>2 DEF LookUp, Opened
    <3> QED
      BY <2>1, <2>2, <3>1 DEF Idle
  <2>3. CASE ~loaded
    <3>1. PICK p \in Page(Present(records)) :
             doc' = [t \in Todos |-> IF t \in p THEN records[t] ELSE Gone]
      BY <1>1, <2>3 DEF LookUp, Opened
    <3>2. \A t \in Todos : doc'[t] # Gone => records[t] = doc'[t]
      BY <3>1
    <3> QED
      BY <2>1, <3>2 DEF Idle
  <2> QED
    BY <2>2, <2>3
<1>2. CASE Request /\ ~LookUp
  <2>1. PICK d \in Opened, list \in [Todos -> Values], remote \in BOOLEAN :
           Begin(d, list, remote)
    BY <1>2, RequestCases DEF Begins
  <2> QED
    BY <2>1 DEF Begin
<1>3. ASSUME NEW t \in Todos, Upsert(t) PROVE RecordInv'
  <2>1. records' = [records EXCEPT ![t] = doc[t]] /\ records'[t] = doc[t]
    BY <1>3 DEF Upsert, StoreTypeOK
  <2>2. job' = [job EXCEPT !.left = @ \ {t}] /\ job.pc = "upsert" /\ t \in job.left
    BY <1>3 DEF Upsert
  <2>3. job'.pc = "upsert" /\ job'.left = job.left \ {t}
    BY <2>2 DEF StoreTypeOK, Jobs, Idle
  <2>4. loaded' = loaded /\ doc' = doc /\ synced' = synced
    BY <1>3 DEF Upsert
  <2>5. loaded /\ ~synced
    BY <2>2 DEF Idle
  <2>6. \A u \in Todos : u # t => records'[u] = records[u]
    BY <2>1 DEF StoreTypeOK
  <2> QED
    BY <2>1, <2>2, <2>3, <2>4, <2>5, <2>6
<1>4. ASSUME NEW t \in Todos, DeleteRow(t) PROVE RecordInv'
  <2>1. job' = [job EXCEPT !.left = @ \ {t}] /\ job.pc = "delete" /\ t \in job.left
    BY <1>4 DEF DeleteRow
  <2>2. job'.pc = "delete" /\ job'.left = job.left \ {t}
    BY <2>1 DEF StoreTypeOK, Jobs, Idle
  <2>3. loaded' = loaded /\ doc' = doc /\ synced' = synced /\ loaded /\ ~synced
    BY <1>4, <2>1 DEF DeleteRow, Idle
  <2>4. \A u \in Todos : u # t => records'[u] = records[u]
    BY <1>4 DEF DeleteRow, StoreTypeOK
  <2> QED
    BY <2>1, <2>2, <2>3, <2>4
<1>5. CASE UpsertsDone
  BY <1>5 DEF UpsertsDone, Idle
<1>6. CASE ListRows
  BY <1>6 DEF ListRows, Idle
<1>7. CASE Finish
  BY <1>7 DEF Finish, Idle
<1>8. CASE Fail
  BY <1>8 DEF Fail, Idle
<1>9. CASE Restart
  BY <1>9 DEF Restart, Idle
<1>10. CASE FeedNext
  BY <1>10 DEF FeedNext, storeVars
<1>11. CASE UNCHANGED vars
  BY <1>11 DEF vars
<1> QED
  BY <1>1, <1>2, <1>3, <1>4, <1>5, <1>6, <1>7, <1>8, <1>9, <1>10, <1>11
     DEF Next, Project

\* An operation that changed the document and was answered with success left
\* every todo of the document on record, whatever failed, was interrupted or
\* stayed unread before it, for any number of todos and any limit.
LEMMA NeverMissing == Spec => []NothingMissing
<1>1. Init => RecordInv
  BY DEF Init, RecordInv, ProjectionInv, NothingMissing, Idle
<1>2. StoreTypeOK /\ RecordInv /\ [Next]_vars => RecordInv'
  BY RecordStep
<1>3. RecordInv => NothingMissing
  BY DEF RecordInv
<1> QED
  BY <1>1, <1>2, <1>3, Typed, PTL DEF Spec

-------------------------------------------------------------------------------
(* An owner within the limit of the queries. *)

WithinLimit == Cardinality(Todos) <= Limit

\* A query returns all of the owner's rows.
LEMMA WholePage ==
    ASSUME WithinLimit, NEW rows \in SUBSET Todos PROVE Page(rows) = {rows}
<1>1. IsFiniteSet(rows) /\ Cardinality(rows) <= Cardinality(Todos)
  BY FS_Subset, StoreAssumption
<1>2. Cardinality(rows) \in Nat /\ Cardinality(Todos) \in Nat
  BY <1>1, FS_CardinalityType, StoreAssumption
<1>3. Cardinality(rows) <= Limit
  BY <1>1, <1>2, StoreAssumption DEF WithinLimit
<1> QED
  BY <1>3 DEF Page

\* The document that is opened is the list that requests see.
LEMMA OpenedIsShown == ASSUME WithinLimit, StoreTypeOK PROVE Opened = {Shown}
<1>1. CASE loaded
  BY <1>1 DEF Opened, Shown
<1>2. CASE ~loaded
  <2>1. Page(Present(records)) = {Present(records)}
    BY WholePage DEF Present
  <2>2. [t \in Todos |-> IF t \in Present(records) THEN records[t] ELSE Gone] = records
    BY DEF StoreTypeOK, Present
  <2> QED
    BY <1>2, <2>1, <2>2 DEF Opened, Shown
<1> QED
  BY <1>1, <1>2

\* A record without a todo in the document is one that the owner removed, and
\* the projection under way has it on its list of rows to delete.
StaleInv ==
    /\ loaded => \A t \in Todos : (records[t] # Gone /\ doc[t] = Gone) => t \in removed
    /\ job.pc = "delete" =>
          \A t \in Todos : (records[t] # Gone /\ doc[t] = Gone) => t \in job.left
    /\ (loaded /\ synced) => Present(records) \subseteq Present(doc)

LEMMA StaleStep ==
    ASSUME WithinLimit, StoreTypeOK, RecordInv, StaleInv, [Next]_vars PROVE StaleInv'
<1> USE DEF StaleInv, Present
<1>1. CASE LookUp
  <2>1. doc' = Shown /\ records' = records /\ job = Idle /\ job' = Idle
        /\ synced' = synced /\ removed' = removed
    BY <1>1, OpenedIsShown DEF LookUp
  <2> QED
    BY <2>1 DEF Shown, Idle
<1>2. CASE Request /\ ~LookUp
  <2>1. PICK list \in [Todos -> Values], remote \in BOOLEAN : Begin(Shown, list, remote)
    BY <1>2, RequestCases, OpenedIsShown DEF Begins
  <2>2. doc' = list /\ records' = records /\ ~synced' /\ job'.pc = "upsert"
        /\ removed' = {t \in Todos : list[t] = Gone /\ (t \in removed \/ Shown[t] # Gone)}
    BY <2>1 DEF Begin
  <2>3. \A t \in Todos : records[t] # Gone => t \in removed \/ Shown[t] # Gone
    BY DEF Shown
  <2> QED
    BY <2>2, <2>3
<1>3. ASSUME NEW t \in Todos, Upsert(t) PROVE StaleInv'
  <2>1. records'[t] = doc[t] /\ \A u \in Todos : u # t => records'[u] = records[u]
    BY <1>3 DEF Upsert, StoreTypeOK
  <2>2. job'.pc = "upsert" /\ loaded /\ ~synced
    BY <1>3 DEF Upsert, StoreTypeOK, Jobs, Idle, RecordInv, ProjectionInv
  <2> QED
    BY <1>3, <2>1, <2>2 DEF Upsert
<1>4. ASSUME NEW t \in Todos, DeleteRow(t) PROVE StaleInv'
  <2>1. records'[t] = Gone /\ \A u \in Todos : u # t => records'[u] = records[u]
    BY <1>4 DEF DeleteRow, StoreTypeOK
  <2>2. job'.left = job.left \ {t} /\ job.pc = "delete" /\ loaded /\ ~synced
    BY <1>4 DEF DeleteRow, StoreTypeOK, Jobs, Idle, RecordInv, ProjectionInv
  <2> QED
    BY <1>4, <2>1, <2>2 DEF DeleteRow
<1>5. CASE UpsertsDone
  BY <1>5 DEF UpsertsDone
<1>6. CASE ListRows
  <2>1. job' = [pc |-> "delete", left |-> {t \in Present(records) : doc[t] = Gone},
                remote |-> job.remote]
    BY <1>6, WholePage DEF ListRows
  <2> QED
    BY <1>6, <2>1 DEF ListRows
<1>7. CASE Finish
  BY <1>7 DEF Finish, Idle
<1>8. CASE Fail
  BY <1>8 DEF Fail, Idle
<1>9. CASE Restart
  BY <1>9 DEF Restart, Idle
<1>10. CASE FeedNext
  BY <1>10 DEF FeedNext, storeVars
<1>11. CASE UNCHANGED vars
  BY <1>11 DEF vars
<1> QED
  BY <1>1, <1>2, <1>3, <1>4, <1>5, <1>6, <1>7, <1>8, <1>9, <1>10, <1>11
     DEF Next, Project

LEMMA StoreCorrect == WithinLimit /\ Spec => [](StoreTypeOK /\ RecordInv /\ StaleInv)
<1> SUFFICES ASSUME WithinLimit PROVE Spec => [](StoreTypeOK /\ RecordInv /\ StaleInv)
  OBVIOUS
<1>1. Init => RecordInv /\ StaleInv
  BY DEF Init, RecordInv, ProjectionInv, NothingMissing, StaleInv, Present, Idle
<1>2. StoreTypeOK /\ (RecordInv /\ StaleInv) /\ [Next]_vars => (RecordInv /\ StaleInv)'
  BY RecordStep, StaleStep
<1> QED
  BY <1>1, <1>2, Typed, PTL DEF Spec

\* For an owner within the limit there is no record of anything else either.
LEMMA NeverStale == Spec => []NothingStale
<1>1. CASE WithinLimit
  <2>1. StaleInv => NothingStale
    BY DEF StaleInv, NothingStale
  <2> QED
    BY <1>1, <2>1, StoreCorrect, PTL
<1>2. CASE ~WithinLimit
  <2>1. NothingStale
    BY <1>2 DEF NothingStale, WithinLimit
  <2> QED
    BY <2>1, PTL
<1> QED
  BY <1>1, <1>2

\* After every operation that changed the document and was answered with success
\* the records are the document: the two halves together.  (A Create of a todo
\* that is there changes nothing, and its success says nothing of the records.)
THEOREM SavedIsOnRecord == Spec => []RecordsAgree
<1>1. NothingMissing /\ NothingStale => RecordsAgree
  BY DEF RecordsAgree
<1> QED
  BY <1>1, NeverMissing, NeverStale, PTL

\* Only DeleteRow removes a record, and only that of a todo the owner removed.
LEMMA RemovalStep ==
    ASSUME StoreTypeOK, RecordInv, StaleInv, [Next]_vars
    PROVE  \A t \in Todos : (records[t] # Gone /\ records'[t] = Gone) => t \in removed
<1> SUFFICES ASSUME NEW t \in Todos, records[t] # Gone, records'[t] = Gone
             PROVE  t \in removed
  OBVIOUS
<1>1. ASSUME NEW u \in Todos, Upsert(u) PROVE t \in removed
  <2>1. doc[u] # Gone /\ records' = [records EXCEPT ![u] = doc[u]]
    BY <1>1 DEF Upsert, RecordInv, ProjectionInv, Present
  <2> QED
    BY <2>1 DEF StoreTypeOK
<1>2. ASSUME NEW u \in Todos, DeleteRow(u) PROVE t \in removed
  <2>1. t = u /\ doc[t] = Gone /\ loaded
    BY <1>2 DEF DeleteRow, StoreTypeOK, RecordInv, ProjectionInv, Idle
  <2> QED
    BY <2>1 DEF StaleInv
<1>3. CASE UNCHANGED records
  BY <1>3
<1>4. CASE Request \/ UpsertsDone \/ ListRows \/ Finish \/ Fail \/ Restart \/ FeedNext
  <2>1. Request => UNCHANGED records
    BY RequestCases DEF LookUp, Begins, Begin
  <2>2. UNCHANGED records
    BY <1>4, <2>1 DEF UpsertsDone, ListRows, Finish, Fail, Restart, FeedNext, storeVars
  <2> QED
    BY <1>3, <2>2
<1>5. CASE UNCHANGED vars
  BY <1>3, <1>5 DEF vars
<1> QED
  BY <1>1, <1>2, <1>4, <1>5 DEF Next, Project

\* For an owner within the limit a record goes away only when the owner removed
\* that todo.
THEOREM OnlyAskedRemoved == WithinLimit /\ Spec => OnlyAskedRemovals
<1> SUFFICES ASSUME WithinLimit PROVE Spec => OnlyAskedRemovals
  OBVIOUS
<1>1. StoreTypeOK /\ RecordInv /\ StaleInv /\ [Next]_vars
        => [\A t \in Todos : (records[t] # Gone /\ records'[t] = Gone) => t \in removed]_vars
  BY RemovalStep
<1> QED
  BY <1>1, StoreCorrect, PTL DEF Spec, OnlyAskedRemovals

-------------------------------------------------------------------------------
(* Watchers. *)

\* A listed watcher for which nothing was dropped has its owner's last bump
\* queued, or no bump of it at all; in the second case the first version is
\* still to be sent, or what was sent last is the current one.
CatchUpInv ==
    /\ \A w \in Watchers : stage[w] = "none" => inner[w] = <<>> /\ w \notin listed
    /\ \A w \in listed \ missed :
          Queued(w) \/ (NoneQueued(w) /\ (stage[w] = "running" => Delivered(w)))

LEMMA NothingQueued == ASSUME NEW S, NEW s \in Seq(S) PROVE s = <<>> <=> Len(s) = 0
OBVIOUS

\* What is last in a channel after a send and after a receive.
LEMMA Sent ==
    ASSUME NEW S, NEW s \in Seq(S), NEW e \in S
    PROVE  /\ Append(s, e) # <<>>
           /\ Len(s) \in Nat /\ DOMAIN s = 1..Len(s)
           /\ Len(Append(s, e)) = Len(s) + 1
           /\ DOMAIN Append(s, e) = 1..(Len(s) + 1)
           /\ Append(s, e)[Len(s) + 1] = e
           /\ \A i \in 1..Len(s) : Append(s, e)[i] = s[i]
OBVIOUS

LEMMA Received ==
    ASSUME NEW S, NEW s \in Seq(S), s # <<>>
    PROVE  /\ Len(s) \in Nat /\ Len(s) >= 1 /\ DOMAIN s = 1..Len(s)
           /\ Head(s) = s[1]
           /\ Len(Tail(s)) = Len(s) - 1
           /\ DOMAIN Tail(s) = 1..(Len(s) - 1)
           /\ \A i \in 1..(Len(s) - 1) : Tail(s)[i] = s[i + 1]
           /\ Tail(s) = <<>> <=> Len(s) = 1
<1>1. Len(s) \in Nat /\ Len(s) >= 1 /\ DOMAIN s = 1..Len(s)
  OBVIOUS
<1>2. Head(s) = s[1] /\ Len(Tail(s)) = Len(s) - 1 /\ DOMAIN Tail(s) = 1..(Len(s) - 1)
  OBVIOUS
<1>3. \A i \in 1..(Len(s) - 1) : Tail(s)[i] = s[i + 1]
  OBVIOUS
<1>4. Tail(s) \in Seq(S)
  OBVIOUS
<1>5. Tail(s) = <<>> <=> Len(Tail(s)) = 0
  BY <1>4, NothingQueued
<1>6. Tail(s) = <<>> <=> Len(s) = 1
  BY <1>1, <1>2, <1>5
<1> QED
  BY <1>1, <1>2, <1>3, <1>6

\* A step that leaves a watcher's channels and its owner's version alone.
LEMMA Untouched ==
    ASSUME NEW w, owner' = owner, version'[owner[w]] = version[owner[w]],
           inner'[w] = inner[w], out'[w] = out[w], seen'[w] = seen[w]
    PROVE  /\ Queued(w) => Queued(w)'
           /\ NoneQueued(w) => NoneQueued(w)'
           /\ Delivered(w) => Delivered(w)'
<1>1. Queued(w) => Queued(w)'
  BY Zenon DEF Queued
<1>2. NoneQueued(w) => NoneQueued(w)'
  BY Zenon DEF NoneQueued
<1>3. Delivered(w) => Delivered(w)'
  BY Zenon DEF Delivered
<1> QED
  BY <1>1, <1>2, <1>3

\* A current version just sent is the last one sent.
LEMMA SentIsDelivered ==
    ASSUME NEW w, version' = version, owner' = owner,
           out[w] \in Seq(0..MaxVersion), version[owner[w]] \in 0..MaxVersion,
           out'[w] = Append(out[w], version[owner[w]])
    PROVE  Delivered(w)'
<1>1. \A S : \A q \in Seq(S), v \in S :
        Append(q, v) # <<>> /\ Append(q, v)[Len(Append(q, v))] = v
  BY Sent
<1>2. Append(out[w], version[owner[w]]) # <<>>
      /\ Append(out[w], version[owner[w]])[Len(Append(out[w], version[owner[w]]))]
         = version[owner[w]]
  BY Zenon, <1>1
<1>3. out'[w] # <<>> /\ out'[w][Len(out'[w])] = version[owner[w]]
  BY Zenon, <1>2
<1> QED
  BY Zenon, <1>3 DEF Delivered

\* Bump's offer to one watcher.
LEMMA CatchUpBump ==
    ASSUME FeedInv, CatchUpInv, NEW o \in Owners, Bump(o) PROVE CatchUpInv'
<1> USE FeedAssumption DEF FeedInv, FeedTypeOK
<1>1. listed' = listed /\ stage' = stage /\ owner' = owner /\ out' = out /\ seen' = seen
      /\ missed \subseteq missed'
  BY DEF Bump
<1>2. ASSUME NEW w \in Watchers, stage'[w] = "none" PROVE inner'[w] = <<>> /\ w \notin listed'
  BY <1>1, <1>2 DEF CatchUpInv, Bump
<1>3. ASSUME NEW w \in listed' \ missed'
      PROVE  (Queued(w) \/ (NoneQueued(w) /\ (stage[w] = "running" => Delivered(w))))'
  <2>1. w \in Watchers /\ w \in listed \ missed
        /\ (Queued(w) \/ (NoneQueued(w) /\ (stage[w] = "running" => Delivered(w))))
    BY <1>1, <1>3 DEF CatchUpInv
  <2>2. inner[w] \in Seq(Owners \X (1..MaxVersion)) /\ Len(inner[w]) \in Nat
    BY <2>1
  <2>3. CASE owner[w] = o
    <3>1. Len(inner[w]) < InnerCap
      BY <1>3, <2>1, <2>2, <2>3 DEF Bump
    <3>2. inner'[w] = Append(inner[w], <<o, version[o] + 1>>) /\ version'[o] = version[o] + 1
      BY <2>1, <3>1 DEF Bump
    <3>3. <<o, version[o] + 1>> \in Owners \X (1..MaxVersion)
      BY DEF Bump
    <3>4. <<o, version[o] + 1>> = inner'[w][Len(inner[w]) + 1]
          /\ DOMAIN inner'[w] = 1..(Len(inner[w]) + 1)
      BY <2>2, <3>2, <3>3, Sent
    <3>5. \A j \in DOMAIN inner'[w] : ~(j > Len(inner[w]) + 1)
      BY <2>2, <3>4
    <3>6. inner'[w][Len(inner[w]) + 1] = <<owner'[w], version'[owner'[w]]>>
      BY <1>1, <2>3, <3>2, <3>4
    <3>7. Len(inner[w]) + 1 \in DOMAIN inner'[w]
      BY <2>2, <3>4
    <3>8. Queued(w)'
      BY <3>5, <3>6, <3>7 DEF Queued
    <3> QED
      BY <3>8
  <2>4. CASE owner[w] # o
    <3>1. version'[owner[w]] = version[owner[w]]
      BY <2>1, <2>4 DEF Bump
    <3>2. CASE inner'[w] = inner[w]
      BY <1>1, <2>1, <3>1, <3>2, Untouched
    <3>3. CASE inner'[w] = Append(inner[w], <<o, version[o] + 1>>)
      <4>1. /\ DOMAIN inner'[w] = 1..(Len(inner[w]) + 1)
            /\ inner'[w][Len(inner[w]) + 1][1] = o
            /\ \A i \in DOMAIN inner[w] : i \in DOMAIN inner'[w] /\ inner'[w][i] = inner[w][i]
            /\ \A i \in DOMAIN inner'[w] : i \in DOMAIN inner[w] \/ i = Len(inner[w]) + 1
        <5>1. <<o, version[o] + 1>> \in Owners \X (1..MaxVersion)
          BY DEF Bump
        <5>2. /\ DOMAIN inner'[w] = 1..(Len(inner[w]) + 1) /\ DOMAIN inner[w] = 1..Len(inner[w])
              /\ inner'[w][Len(inner[w]) + 1] = <<o, version[o] + 1>>
              /\ \A i \in 1..Len(inner[w]) : inner'[w][i] = inner[w][i]
          BY <2>2, <3>3, <5>1, Sent
        <5>3. inner'[w][Len(inner[w]) + 1][1] = o
          BY <5>2
        <5>4. \A i \in DOMAIN inner'[w] : i \in DOMAIN inner[w] \/ i = Len(inner[w]) + 1
          BY <2>2, <5>2
        <5>5. 1..Len(inner[w]) \subseteq 1..(Len(inner[w]) + 1)
          BY <2>2
        <5>6. \A i \in DOMAIN inner[w] : i \in DOMAIN inner'[w] /\ inner'[w][i] = inner[w][i]
          BY Zenon, <5>2, <5>5
        <5> QED
          BY <5>2, <5>3, <5>4, <5>6
      <4>2. NoneQueued(w) => NoneQueued(w)'
        BY <1>1, <2>4, <4>1 DEF NoneQueued
      <4>3. Queued(w) => Queued(w)'
        <5> SUFFICES ASSUME Queued(w) PROVE Queued(w)'
          OBVIOUS
        <5>1. PICK i \in DOMAIN inner[w] :
                 /\ inner[w][i] = <<owner[w], version[owner[w]]>>
                 /\ \A j \in DOMAIN inner[w] : j > i => inner[w][j][1] # owner[w]
          BY DEF Queued
        <5>2. i \in DOMAIN inner'[w] /\ inner'[w][i] = <<owner'[w], version'[owner'[w]]>>
          BY <1>1, <3>1, <4>1, <5>1
        <5>3. \A j \in DOMAIN inner'[w] : j > i => inner'[w][j][1] # owner'[w]
          BY <1>1, <2>4, <4>1, <5>1
        <5> QED
          BY <5>2, <5>3 DEF Queued
      <4>4. Delivered(w) => Delivered(w)'
        BY <1>1, <3>1 DEF Delivered
      <4> QED
        BY <1>1, <2>1, <4>2, <4>3, <4>4
    <3> QED
      BY <2>1, <3>2, <3>3 DEF Bump
  <2> QED
    BY <2>3, <2>4
<1> QED
  BY <1>2, <1>3 DEF CatchUpInv

\* What Forward takes from the internal channel of a watcher that has missed
\* nothing: the last bump goes out, and another event takes nothing away.
LEMMA CatchUpForward ==
    ASSUME FeedInv, NEW w \in Watchers, Forward(w), w \notin missed',
           Queued(w) \/ (NoneQueued(w) /\ Delivered(w))
    PROVE  (Queued(w) \/ (NoneQueued(w) /\ Delivered(w)))'
<1> USE FeedAssumption DEF FeedInv, FeedTypeOK
<1>1. inner[w] # <<>> /\ inner'[w] = Tail(inner[w])
      /\ version' = version /\ owner' = owner /\ seen' = seen
  BY DEF Forward
<1>2. inner[w] \in Seq(Owners \X (1..MaxVersion)) /\ Len(inner[w]) \in Nat /\ Len(inner[w]) >= 1
  BY <1>1
<1>3. /\ DOMAIN inner'[w] = 1..(Len(inner[w]) - 1)
      /\ \A i \in DOMAIN inner'[w] : i + 1 \in DOMAIN inner[w] /\ inner'[w][i] = inner[w][i + 1]
      /\ \A i \in DOMAIN inner[w] : i = 1 \/ i - 1 \in DOMAIN inner'[w]
      /\ Head(inner[w]) = inner[w][1]
  <2>1. /\ DOMAIN inner[w] = 1..Len(inner[w]) /\ DOMAIN inner'[w] = 1..(Len(inner[w]) - 1)
        /\ \A i \in 1..(Len(inner[w]) - 1) : inner'[w][i] = inner[w][i + 1]
        /\ Head(inner[w]) = inner[w][1]
    BY <1>1, <1>2, Received
  <2>2. \A i \in DOMAIN inner'[w] : i + 1 \in DOMAIN inner[w] /\ inner'[w][i] = inner[w][i + 1]
    <3>1. \A i \in 1..(Len(inner[w]) - 1) : i + 1 \in 1..Len(inner[w])
      BY <1>2
    <3> QED
      BY Zenon, <2>1, <3>1
  <2>3. \A i \in DOMAIN inner[w] : i = 1 \/ i - 1 \in DOMAIN inner'[w]
    BY <1>2, <2>1
  <2> QED
    BY <2>1, <2>2, <2>3
<1>4. NoneQueued(w) => NoneQueued(w)'
  BY <1>1, <1>3 DEF NoneQueued
<1>5. CASE NoneQueued(w)
  <2>1. Head(inner[w])[1] # owner[w]
    BY <1>2, <1>3, <1>5 DEF NoneQueued
  <2>2. out' = out
    BY <2>1 DEF Forward
  <2>3. Delivered(w) => Delivered(w)'
    BY <1>1, <2>2 DEF Delivered
  <2>4. ~Queued(w)
    BY <1>5 DEF Queued, NoneQueued
  <2> QED
    BY <1>4, <1>5, <2>3, <2>4
<1>6. CASE Queued(w)
  <2>1. PICK i \in DOMAIN inner[w] :
           /\ inner[w][i] = <<owner[w], version[owner[w]]>>
           /\ \A j \in DOMAIN inner[w] : j > i => inner[w][j][1] # owner[w]
    BY <1>6 DEF Queued
  <2>2. CASE i = 1
    <3>1. Head(inner[w]) = <<owner[w], version[owner[w]]>>
      BY <1>3, <2>1, <2>2
    <3>2. Head(inner[w])[1] = owner[w] /\ Head(inner[w])[2] = version[owner[w]]
      BY <3>1
    <3>3. Len(out[w]) < OutCap /\ out' = [out EXCEPT ![w] = Append(@, version[owner[w]])]
      BY <3>2 DEF Forward
    <3>4. out[w] \in Seq(0..MaxVersion) /\ version[owner[w]] \in 0..MaxVersion
          /\ out'[w] = Append(out[w], version[owner[w]])
      BY <3>3
    <3>5. Delivered(w)'
      BY Zenon, <1>1, <3>4, SentIsDelivered
    <3>6. NoneQueued(w)'
      <4> SUFFICES ASSUME NEW j \in DOMAIN inner'[w] PROVE inner'[w][j][1] # owner[w]
        BY <1>1 DEF NoneQueued
      <4>1. j + 1 > 1 /\ j + 1 \in DOMAIN inner[w] /\ inner'[w][j] = inner[w][j + 1]
        BY <1>2, <1>3
      <4> QED
        BY <2>1, <2>2, <4>1
    <3> QED
      BY <3>5, <3>6
  <2>3. CASE i # 1
    <3>1. i \in 1..Len(inner[w]) /\ i - 1 \in DOMAIN inner'[w]
      <4>1. DOMAIN inner[w] = 1..Len(inner[w])
        BY <1>2
      <4> QED
        BY <1>3, <2>3, <4>1
    <3>2. inner'[w][i - 1] = inner[w][i]
      <4>1. inner'[w][i - 1] = inner[w][(i - 1) + 1] /\ (i - 1) + 1 = i
        BY <1>3, <3>1
      <4> QED
        BY <4>1
    <3>3. \A j \in DOMAIN inner'[w] : j > i - 1 => inner'[w][j][1] # owner[w]
      <4> SUFFICES ASSUME NEW j \in DOMAIN inner'[w], j > i - 1 PROVE inner'[w][j][1] # owner[w]
        OBVIOUS
      <4>1. j + 1 > i /\ j + 1 \in DOMAIN inner[w] /\ inner'[w][j] = inner[w][j + 1]
        BY <1>2, <1>3, <3>1
      <4> QED
        BY <2>1, <4>1
    <3>4. Queued(w)'
      BY <1>1, <2>1, <3>1, <3>2, <3>3 DEF Queued
    <3> QED
      BY <3>4
  <2> QED
    BY <2>2, <2>3
<1> QED
  BY <1>5, <1>6

LEMMA CatchUpFeed ==
    ASSUME FeedInv, CatchUpInv, NEW w \in Watchers, FeedStep(w) PROVE CatchUpInv'
<1> USE FeedAssumption DEF FeedInv, FeedTypeOK
<1> DEFINE Up(v) == Queued(v) \/ (NoneQueued(v) /\ (stage[v] = "running" => Delivered(v)))
<1>1. \A v \in listed \ missed : v \in Watchers /\ Up(v)
  BY DEF CatchUpInv
<1>2. CASE Watch(w)
  <2>1. inner[w] = <<>> /\ stage'[w] = "started" /\ inner' = inner
    BY <1>2 DEF Watch, CatchUpInv
  <2>2. NoneQueued(w)'
    BY <2>1 DEF NoneQueued
  <2>3. \A v \in Watchers \ {w} : Up(v) => Up(v)'
    BY <1>2 DEF Watch, Queued, NoneQueued, Delivered
  <2>4. \A v \in listed' \ missed' : Up(v)'
    BY <1>1, <1>2, <2>1, <2>2, <2>3 DEF Watch
  <2>5. \A v \in Watchers : stage'[v] = "none" => inner'[v] = <<>> /\ v \notin listed'
    BY <1>2 DEF Watch, CatchUpInv
  <2> QED
    BY <2>4, <2>5 DEF CatchUpInv
<1>3. CASE SendCurrent(w)
  <2>1. version[owner[w]] \in 0..MaxVersion /\ out'[w] = Append(out[w], version[owner[w]])
        /\ version' = version /\ owner' = owner
    BY <1>3 DEF SendCurrent
  <2>2. out[w] \in Seq(0..MaxVersion)
    OBVIOUS
  <2>3. Delivered(w)'
    BY Zenon, <2>1, <2>2, SentIsDelivered
  <2>4. Up(w) => Up(w)'
    BY <1>3, <2>3 DEF SendCurrent, Queued, NoneQueued
  <2>5. \A v \in Watchers \ {w} : Up(v) => Up(v)'
    BY <1>3 DEF SendCurrent, Queued, NoneQueued, Delivered
  <2>6. \A v \in listed' \ missed' : Up(v)'
    BY <1>1, <1>3, <2>4, <2>5 DEF SendCurrent
  <2>7. \A v \in Watchers : stage'[v] = "none" => inner'[v] = <<>> /\ v \notin listed'
    BY <1>3 DEF SendCurrent, CatchUpInv
  <2> QED
    BY <2>6, <2>7 DEF CatchUpInv
<1>4. CASE Forward(w)
  <2>1. w \notin missed' => (Up(w) => Up(w)')
    BY <1>4, CatchUpForward DEF Forward
  <2>2. \A v \in Watchers \ {w} : Up(v) => Up(v)'
    <3>1. \A v \in Watchers \ {w} : inner'[v] = inner[v] /\ out'[v] = out[v]
      <4>1. inner' = [inner EXCEPT ![w] = Tail(@)]
        BY <1>4 DEF Forward
      <4>2. out' = out \/ out' = [out EXCEPT ![w] = Append(@, Head(inner[w])[2])]
        BY <1>4 DEF Forward
      <4>3. inner \in [Watchers -> Seq(Owners \X (1..MaxVersion))]
            /\ out \in [Watchers -> Seq(0..MaxVersion)]
        OBVIOUS
      <4> HIDE DEF FeedInv, FeedTypeOK
      <4> QED
        BY <4>1, <4>2, <4>3
    <3>2. owner' = owner /\ version' = version /\ seen' = seen /\ stage' = stage
      BY <1>4 DEF Forward
    <3> HIDE DEF FeedInv, FeedTypeOK, Up
    <3>3. ASSUME NEW v \in Watchers \ {w}
          PROVE  Queued(v)' = Queued(v) /\ NoneQueued(v)' = NoneQueued(v) /\ Delivered(v)' = Delivered(v)
      BY <3>1, <3>2 DEF Queued, NoneQueued, Delivered
    <3> QED
      BY <3>2, <3>3 DEF Up
  <2>3. \A v \in listed' \ missed' : Up(v)'
    BY <1>1, <1>4, <2>1, <2>2 DEF Forward
  <2>4. \A v \in Watchers : stage'[v] = "none" => inner'[v] = <<>> /\ v \notin listed'
    BY <1>4 DEF Forward, CatchUpInv
  <2> QED
    BY <2>3, <2>4 DEF CatchUpInv
<1>5. CASE EndFeed(w) \/ CancelWatch(w)
  <2>1. owner' = owner /\ version' = version /\ inner' = inner /\ out' = out /\ seen' = seen
        /\ listed' \subseteq listed /\ missed' = missed
    BY <1>5 DEF EndFeed, CancelWatch
  <2>2. \A v \in Watchers : (Queued(v) => Queued(v)') /\ (NoneQueued(v) => NoneQueued(v)')
                            /\ (Delivered(v) => Delivered(v)')
    BY <2>1, Untouched
  <2>3. \A v \in Watchers : (stage'[v] = "running" => stage[v] = "running")
                            /\ (stage'[v] = "none" => stage[v] = "none")
    BY <1>5 DEF EndFeed, CancelWatch
  <2>4. \A v \in listed' \ missed' : Up(v)'
    BY <1>1, <2>1, <2>2, <2>3
  <2>5. \A v \in Watchers : stage'[v] = "none" => inner'[v] = <<>> /\ v \notin listed'
    BY <2>1, <2>3 DEF CatchUpInv
  <2> QED
    BY <2>4, <2>5 DEF CatchUpInv
<1>6. CASE ReadVersion(w)
  <2>1. out[w] # <<>> /\ out[w] \in Seq(0..MaxVersion) /\ out'[w] = Tail(out[w])
        /\ seen'[w] = Head(out[w]) /\ version' = version /\ owner' = owner
    BY <1>6 DEF ReadVersion
  <2>2. IF out'[w] = <<>> THEN seen'[w] = out[w][Len(out[w])]
                          ELSE out'[w][Len(out'[w])] = out[w][Len(out[w])]
    <3>1. /\ Len(out[w]) \in Nat /\ Len(out[w]) >= 1 /\ Head(out[w]) = out[w][1]
          /\ Len(Tail(out[w])) = Len(out[w]) - 1
          /\ \A i \in 1..(Len(out[w]) - 1) : Tail(out[w])[i] = out[w][i + 1]
          /\ Tail(out[w]) = <<>> <=> Len(out[w]) = 1
      BY <2>1, Received
    <3>2. CASE Len(out[w]) = 1
      BY <2>1, <3>1, <3>2
    <3>3. CASE Len(out[w]) # 1
      <4>1. out'[w] # <<>> /\ Len(out'[w]) = Len(out[w]) - 1
        BY <2>1, <3>1, <3>3
      <4>2. Len(out'[w]) \in 1..(Len(out[w]) - 1) /\ Len(out'[w]) + 1 = Len(out[w])
        BY <3>1, <3>3, <4>1
      <4>3. out'[w][Len(out'[w])] = out[w][Len(out'[w]) + 1]
        BY <2>1, <3>1, <4>2
      <4> QED
        BY <4>1, <4>2, <4>3
    <3> QED
      BY <3>2, <3>3
  <2>3. Delivered(w) => Delivered(w)'
    BY <2>1, <2>2 DEF Delivered
  <2>4. Up(w) => Up(w)'
    BY <1>6, <2>3 DEF ReadVersion, Queued, NoneQueued
  <2>5. \A v \in Watchers \ {w} : Up(v) => Up(v)'
    BY <1>6 DEF ReadVersion, Queued, NoneQueued, Delivered
  <2>6. \A v \in listed' \ missed' : Up(v)'
    BY <1>1, <1>6, <2>4, <2>5 DEF ReadVersion
  <2>7. \A v \in Watchers : stage'[v] = "none" => inner'[v] = <<>> /\ v \notin listed'
    BY <1>6 DEF ReadVersion, CatchUpInv
  <2> QED
    BY <2>6, <2>7 DEF CatchUpInv
<1> QED
  BY <1>2, <1>3, <1>4, <1>5, <1>6 DEF FeedStep

LEMMA CatchUpStutters == ASSUME CatchUpInv, UNCHANGED feedVars PROVE CatchUpInv'
<1>1. owner' = owner /\ version' = version /\ inner' = inner /\ out' = out /\ seen' = seen
      /\ listed' = listed /\ missed' = missed /\ stage' = stage
  BY DEF feedVars
<1>2. \A w : (Queued(w) => Queued(w)') /\ (NoneQueued(w) => NoneQueued(w)')
             /\ (Delivered(w) => Delivered(w)')
  BY <1>1, Untouched
<1> QED
  BY <1>1, <1>2 DEF CatchUpInv

LEMMA CatchUpStep ==
    ASSUME StoreTypeOK, FeedInv, CatchUpInv, [Next]_vars PROVE CatchUpInv'
<1>1. CASE Request
  <2>1. UNCHANGED feedVars \/ Bump(Me)
    BY <1>1, RequestCases DEF LookUp, Begins, Begin
  <2> QED
    BY <2>1, CatchUpBump, CatchUpStutters, StoreAssumption
<1>2. CASE Project
  <2>1. UNCHANGED feedVars \/ Bump(Me)
    BY <1>2 DEF Project, Upsert, DeleteRow, UpsertsDone, ListRows, Finish, Fail
  <2> QED
    BY <2>1, CatchUpBump, CatchUpStutters, StoreAssumption
<1>3. CASE Restart
  BY <1>3 DEF Restart, FeedRestart, CatchUpInv
<1>4. CASE FeedNext
  BY <1>4, CatchUpFeed, CatchUpBump DEF FeedNext
<1>5. CASE UNCHANGED vars
  BY <1>5, CatchUpStutters DEF vars, feedVars
<1> QED
  BY <1>1, <1>2, <1>3, <1>4, <1>5 DEF Next

\* A watcher for which nothing was dropped has the current version of its
\* owner's document last on its channels, or has read it: for any number of
\* watchers and owners and any capacity of the two channels.
THEOREM LatestVersionArrives == Spec => []WatcherCatchesUp
<1>1. Init => CatchUpInv
  BY DEF Init, FeedInit, CatchUpInv
<1>2. (StoreTypeOK /\ FeedInv) /\ CatchUpInv /\ [Next]_vars => CatchUpInv'
  BY CatchUpStep
<1>3. CatchUpInv => WatcherCatchesUp
  BY DEF CatchUpInv, WatcherCatchesUp
<1> QED
  BY <1>1, <1>2, <1>3, Typed, PTL DEF Spec

-------------------------------------------------------------------------------
(* The refinement. *)

LEMMA WriteBackStep ==
    ASSUME WithinLimit, StoreTypeOK, RecordInv, StoreTypeOK', [Next]_vars
    PROVE  [W!WriteBackNext]_<<Shown, records>>
<1>1. CASE LookUp
  BY <1>1, OpenedIsShown DEF LookUp, Shown
<1>2. CASE Request /\ ~LookUp
  <2>1. PICK list \in [Todos -> Values], remote \in BOOLEAN : Begin(Shown, list, remote)
    BY <1>2, RequestCases, OpenedIsShown DEF Begins
  <2>2. Shown' = list /\ records' = records
    BY <2>1 DEF Begin, Shown
  <2> QED
    BY <2>2 DEF W!WriteBackNext, W!Change
<1>3. ASSUME NEW t \in Todos, Upsert(t) PROVE W!Flush(t)
  <2>1. loaded
    BY <1>3 DEF Upsert, RecordInv, ProjectionInv, Idle
  <2> QED
    BY <1>3, <2>1 DEF Upsert, W!Flush, Shown
<1>4. ASSUME NEW t \in Todos, DeleteRow(t) PROVE W!Flush(t)
  <2>1. loaded /\ doc[t] = Gone
    BY <1>4 DEF DeleteRow, RecordInv, ProjectionInv, Idle
  <2> QED
    BY <1>4, <2>1 DEF DeleteRow, W!Flush, Shown
<1>5. CASE UpsertsDone \/ ListRows \/ Finish \/ Fail \/ FeedNext
  BY <1>5 DEF UpsertsDone, ListRows, Finish, Fail, FeedNext, storeVars, Shown
<1>6. CASE Restart
  BY <1>6 DEF Restart, W!WriteBackNext, W!Forget, Shown
<1>7. CASE UNCHANGED vars
  BY <1>7 DEF vars, Shown
<1> QED
  BY <1>1, <1>2, <1>3, <1>4, <1>5, <1>6, <1>7 DEF Next, Project, W!WriteBackNext

\* For an owner within the limit the store implements the write-back list:
\* requests, restarts and saves of single todos, failed or not, are all there is.
THEOREM StoreIsWriteBack == WithinLimit /\ Spec => ImplementsWriteBack
<1> SUFFICES ASSUME WithinLimit PROVE Spec => ImplementsWriteBack
  OBVIOUS
<1>1. Init => W!WriteBackInit
  BY DEF Init, W!WriteBackInit, Shown, Values
<1>2. (StoreTypeOK /\ RecordInv /\ StaleInv) /\ StoreTypeOK' /\ [Next]_vars
        => [W!WriteBackNext]_<<Shown, records>>
  BY WriteBackStep
<1> QED
  BY <1>1, <1>2, StoreCorrect, PTL DEF Spec, ImplementsWriteBack, W!WriteBackSpec
===============================================================================
