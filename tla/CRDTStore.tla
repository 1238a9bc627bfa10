------------------------------- MODULE CRDTStore -------------------------------
(***************************************************************************)
(* features/store/crdtstore/crdtstore.go: the CRDT store of one owner on   *)
(* one server.  Every operation holds the store's mutex from beginning to  *)
(* end: it loads the document from the records if it is not in memory,     *)
(* changes it, bumps the version, and projects the document into the       *)
(* records one statement at a time.  Any statement can fail, and the       *)
(* process can go down between two of them.  How documents of several      *)
(* servers merge is in CRDTReplicas; here a remote op is any new document. *)
(***************************************************************************)
EXTENDS VersionFeed, FiniteSets

CONSTANTS
    Todos,       \* todo IDs
    Me,          \* the owner
    Limit,       \* how many records doc() and persistRecords read at most
    MaxRestarts  \* bound: restarts in a behaviour

ASSUME StoreAssumption ==
    /\ Me \in Owners
    /\ IsFiniteSet(Todos)
    /\ Limit \in Nat \ {0}
    /\ MaxRestarts \in Nat

VARIABLES
    records,    \* the owner's rows of the todos collection
    loaded,     \* whether CRDTStore.docs has the owner's document
    doc,        \* the document, while it is loaded
    job,        \* the operation that holds the mutex
    synced,     \* history: the last operation that began to change the document
                \* completed its projection (requests that change nothing do not count)
    removed,    \* the todos the owner removed and did not add again
    restarts    \* how many restarts there were

storeVars == <<records, loaded, doc, job, synced, removed, restarts>>
vars == <<records, loaded, doc, job, synced, removed, restarts, feedVars>>

Gone == "gone"
Values == {"active", "completed", Gone}
Present(list) == {t \in Todos : list[t] # Gone}

Idle == [pc |-> "idle"]
Jobs ==
    {Idle}
        \union [pc : {"upsert", "delete"}, left : SUBSET Todos, remote : BOOLEAN]
        \union [pc : {"list"}, remote : BOOLEAN]

TypeOK ==
    /\ FeedTypeOK
    /\ records \in [Todos -> Values]
    /\ loaded \in BOOLEAN
    /\ doc \in [Todos -> Values]
    /\ job \in Jobs
    /\ synced \in BOOLEAN
    /\ removed \subseteq Todos
    /\ restarts \in 0..MaxRestarts

Init ==
    /\ FeedInit
    /\ records = [t \in Todos |-> Gone]
    /\ loaded = FALSE
    /\ doc = [t \in Todos |-> Gone]
    /\ job = Idle
    /\ synced = TRUE
    /\ removed = {}
    /\ restarts = 0

-------------------------------------------------------------------------------
\* What a query for at most Limit of these rows can return.  (doc() asks for
\* the newest by a creation time that comes from the clients, persistRecords
\* in no order.)
Page(rows) ==
    {p \in SUBSET rows : IF Cardinality(rows) <= Limit
                         THEN p = rows
                         ELSE Cardinality(p) = Limit}

\* doc(): the document in memory, or one rebuilt from a page of the records.
Opened ==
    IF loaded THEN {doc}
    ELSE {[t \in Todos |-> IF t \in p THEN records[t] ELSE Gone] : p \in Page(Present(records))}

\* A request that only reads (Get, List, Count), or finds nothing to do:
\* Update and Delete of a todo that is not there, ClearCompleted with none
\* completed, and Create of a todo that is there.  That one is answered with
\* success and saves nothing, also after a failed Create that left the todo in
\* the document and not on record.  (A document that cannot be loaded is not
\* kept, so that such a request changes nothing.)
LookUp ==
    /\ job = Idle
    /\ doc' \in Opened
    /\ loaded' = TRUE
    /\ UNCHANGED <<records, job, synced, removed, restarts, feedVars>>

\* The document becomes list, and persistRecords begins: it bumps the version
\* and collects the todos to upsert.
Begin(opened, list, remote) ==
    /\ job = Idle
    /\ loaded' = TRUE
    /\ doc' = list
    /\ synced' = FALSE
    /\ removed' = {t \in Todos : list[t] = Gone /\ (t \in removed \/ opened[t] # Gone)}
    /\ job' = [pc |-> "upsert", left |-> Present(list), remote |-> remote]
    /\ Bump(Me)
    /\ UNCHANGED <<records, restarts>>

Create(t) ==
    \E d \in Opened :
        /\ d[t] = Gone
        /\ Begin(d, [d EXCEPT ![t] = "active"], FALSE)

Update(t, v) ==
    \E d \in Opened :
        /\ d[t] # Gone
        /\ Begin(d, [d EXCEPT ![t] = v], FALSE)

Delete(t) ==
    \E d \in Opened :
        /\ d[t] # Gone
        /\ Begin(d, [d EXCEPT ![t] = Gone], FALSE)

ClearCompleted ==
    \E d \in Opened :
        /\ \E t \in Todos : d[t] = "completed"
        /\ Begin(d, [t \in Todos |-> IF d[t] = "completed" THEN Gone ELSE d[t]], FALSE)

\* ApplyRemoteOp: the import makes any document of the one in memory.
ApplyRemoteOp(list) == \E d \in Opened : Begin(d, list, TRUE)

-------------------------------------------------------------------------------
(* persistRecords and upsertTodoRecord, one statement at a time. *)

\* One turn of the loop over the document's todos, in map order (any order).
Upsert(t) ==
    /\ job.pc = "upsert"
    /\ t \in job.left
    /\ records' = [records EXCEPT ![t] = doc[t]]
    /\ job' = [job EXCEPT !.left = @ \ {t}]
    /\ UNCHANGED <<loaded, doc, synced, removed, restarts, feedVars>>

UpsertsDone ==
    /\ job.pc = "upsert"
    /\ job.left = {}
    /\ job' = [pc |-> "list", remote |-> job.remote]
    /\ UNCHANGED <<records, loaded, doc, synced, removed, restarts, feedVars>>

\* VARIANT: rows are compared with the document by their record ID, which is
\* never a todo ID, so that all of them look stale.
ListRows_ByRecordID ==
    /\ job.pc = "list"
    /\ \E p \in Page(Present(records)) :
          job' = [pc |-> "delete", left |-> p, remote |-> job.remote]
    /\ UNCHANGED <<records, loaded, doc, synced, removed, restarts, feedVars>>

\* VARIANT: the page is read before the upserts and nothing is deleted.
ListRows_None ==
    /\ job.pc = "list"
    /\ job' = [pc |-> "delete", left |-> {}, remote |-> job.remote]
    /\ UNCHANGED <<records, loaded, doc, synced, removed, restarts, feedVars>>

\* A page of the owner's rows: those that are not in the document are stale.
ListRows ==
    /\ job.pc = "list"
    /\ \E p \in Page(Present(records)) :
          job' = [pc |-> "delete", left |-> {t \in p : doc[t] = Gone}, remote |-> job.remote]
    /\ UNCHANGED <<records, loaded, doc, synced, removed, restarts, feedVars>>

DeleteRow(t) ==
    /\ job.pc = "delete"
    /\ t \in job.left
    /\ records' = [records EXCEPT ![t] = Gone]
    /\ job' = [job EXCEPT !.left = @ \ {t}]
    /\ UNCHANGED <<loaded, doc, synced, removed, restarts, feedVars>>

\* The projection is complete.  ApplyRemoteOp bumps the version once more.
Finish ==
    /\ job.pc = "delete"
    /\ job.left = {}
    /\ job' = Idle
    /\ synced' = TRUE
    /\ IF job.remote THEN Bump(Me) ELSE UNCHANGED feedVars
    /\ UNCHANGED <<records, loaded, doc, removed, restarts>>

\* VARIANT: a failed statement is taken for the end of the projection.
Fail_Ignored ==
    /\ job # Idle
    /\ job' = Idle
    /\ synced' = TRUE
    /\ UNCHANGED <<records, loaded, doc, removed, restarts, feedVars>>

\* A statement fails: the operation returns its error and keeps the document.
Fail ==
    /\ job # Idle
    /\ job' = Idle
    /\ UNCHANGED <<records, loaded, doc, synced, removed, restarts, feedVars>>

\* VARIANT: an empty document is taken for a loaded one after a restart.
Restart_Empty ==
    /\ restarts < MaxRestarts
    /\ restarts' = restarts + 1
    /\ loaded' = TRUE
    /\ doc' = [t \in Todos |-> Gone]
    /\ job' = Idle
    /\ synced' = TRUE
    /\ removed' = {}
    /\ FeedRestart
    /\ UNCHANGED records

\* The process goes down, in the middle of an operation or not, and comes up
\* with no document, version or watcher in memory.
Restart ==
    /\ restarts < MaxRestarts
    /\ restarts' = restarts + 1
    /\ loaded' = FALSE
    /\ doc' = [t \in Todos |-> Gone]
    /\ job' = Idle
    /\ synced' = TRUE
    /\ removed' = {}
    /\ FeedRestart
    /\ UNCHANGED records

\* Steps of the feed that leave the store alone: watchers, and the bumps of
\* the other owners, whose documents are not modelled.
FeedNext ==
    /\ \/ \E w \in Watchers : FeedStep(w)
       \/ \E o \in Owners \ {Me} : Bump(o)
    /\ UNCHANGED storeVars

Request ==
    \/ LookUp
    \/ \E t \in Todos : Create(t) \/ Delete(t)
    \/ \E t \in Todos, v \in Values \ {Gone} : Update(t, v)
    \/ ClearCompleted
    \/ \E list \in [Todos -> Values] : ApplyRemoteOp(list)

Project ==
    \/ \E t \in Todos : Upsert(t) \/ DeleteRow(t)
    \/ UpsertsDone
    \/ ListRows
    \/ Finish
    \/ Fail

Next == Request \/ Project \/ Restart \/ FeedNext

\* A watcher's goroutine runs when it can.
Fairness ==
    \A w \in Watchers :
        WF_vars((SendCurrent(w) \/ Forward(w) \/ EndFeed(w)) /\ UNCHANGED storeVars)

Spec == Init /\ [][Next]_vars /\ Fairness

-------------------------------------------------------------------------------
\* An operation that changed the document and was answered with success left
\* every todo of the document on record as it is, its own and those of earlier
\* operations that failed or were interrupted.
NothingMissing ==
    (loaded /\ synced) => \A t \in Present(doc) : records[t] = doc[t]

\* ... and, for an owner within the limit, no other record.
NothingStale ==
    (loaded /\ synced /\ Cardinality(Todos) <= Limit) => Present(records) \subseteq Present(doc)

\* crdtstore.go:265-272 ("Called after every mutating op"): once an operation that
\* changes the document succeeds, what is on record is the document, no todo less
\* and none more, so that it makes up for the failed ones before it.  Nothing is
\* claimed of a repeated Create, whose success means nothing (LookUp).
RecordsAgree == NothingMissing /\ NothingStale

\* A record goes away only when the owner, here or on another server, removed
\* that todo: never by a restart, a failed save or a later save of another
\* todo (persistRecords deletes every row it does not find in the document).
OnlyAskedRemovals ==
    [][\A t \in Todos : (records[t] # Gone /\ records'[t] = Gone) => t \in removed]_vars

\* What a request would see.
Shown == IF loaded THEN doc ELSE records

\* The store is a write-back list: what requests see changes by requests and
\* by restarts that fall back to the records, and what is on record moves
\* toward it, one todo at a time.
W == INSTANCE WriteBack WITH shown <- Shown, saved <- records
ImplementsWriteBack == W!WriteBackSpec
===============================================================================
