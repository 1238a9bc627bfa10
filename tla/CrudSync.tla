------------------------------- MODULE CrudSync -------------------------------
(***************************************************************************)
(* internal/nats/crudproxy.go with the handlers of                         *)
(* features/todo/handlers/todo_crud.go: every site writes a mutation to    *)
(* its own records, then publishes it; the consumer of every site, the     *)
(* publishing one included, applies the stream to the site's records.      *)
(* JetStream is external: one stream, delivered in order to a consumer of  *)
(* each site, and again as long as a message is not acknowledged.  The     *)
(* todos are those of one owner.  Publisher and consumer are only wired    *)
(* with OFFLINE_SYNC_ENABLED, so that requests may also be replays of the  *)
(* service worker, and (idem_key, owner) has its unique index.             *)
(***************************************************************************)
EXTENDS Naturals, Sequences

CONSTANTS
    Sites,       \* instances: desktop edges and the server
    Todos,       \* record IDs
    MaxOps,      \* bound: mutations requested
    MaxRejoins   \* bound: restarts of a site

ASSUME CrudAssumption ==
    /\ MaxOps \in Nat
    /\ MaxRejoins \in Nat

VARIABLES
    records,    \* the todos collection of every site
    jobs,       \* requests between their local write and the end of the handler
    log,        \* the APP_CRUD stream
    at,         \* how far each site's consumer got
    unacked,    \* the messages each site handled without acknowledging them
    used,       \* the record IDs ever created
    ops,        \* mutations requested so far
    rejoins,    \* restarts so far
    local,      \* the todos with a mutation that was never published
    troubled    \* <<s, t>>: since its consumer started, site s failed to apply a
                \* message about t, or got one out of turn

crudVars == <<records, jobs, log, at, unacked, used, ops, rejoins, local, troubled>>

\* A record: its state, and whether it has the empty idem_key of one that a
\* consumer created.
None == [pc |-> "none"]
RecordValues == {None} \union [pc : {"there"}, completed : BOOLEAN, keyless : BOOLEAN]
Record(completed, keyless) == [pc |-> "there", completed |-> completed, keyless |-> keyless]

Messages ==
    [op : {"create", "delete"}, todo : Todos]
        \union [op : {"toggle"}, todo : Todos, val : BOOLEAN]
        \union [op : {"clear_completed"}]

Jobs ==
    [n : 1..MaxOps, site : Sites, pc : {"read", "publish"}, replay : BOOLEAN, msg : Messages]

CrudTypeOK ==
    /\ records \in [Sites -> [Todos -> RecordValues]]
    /\ jobs \subseteq Jobs
    /\ \A i, j \in jobs : i.n = j.n => i = j
    /\ log \in Seq(Messages)
    /\ at \in [Sites -> 0..Len(log)]
    /\ unacked \in [Sites -> SUBSET Nat]
    /\ \A s \in Sites : unacked[s] \subseteq 1..at[s]
    /\ used \subseteq Todos
    /\ ops \in 0..MaxOps
    /\ rejoins \in 0..MaxRejoins
    /\ local \subseteq Todos
    /\ troubled \subseteq Sites \X Todos

CrudInit ==
    /\ records = [s \in Sites |-> [t \in Todos |-> None]]
    /\ jobs = {}
    /\ log = <<>>
    /\ at = [s \in Sites |-> 0]
    /\ unacked = [s \in Sites |-> {}]
    /\ used = {}
    /\ ops = 0
    /\ rejoins = 0
    /\ local = {}
    /\ troubled = {}

-------------------------------------------------------------------------------
(* The handlers. *)

Request(s, pc, replay, msg) ==
    /\ ops < MaxOps
    /\ ops' = ops + 1
    /\ jobs' = jobs \union {[n |-> ops + 1, site |-> s, pc |-> pc, replay |-> replay, msg |-> msg]}

\* handleCreate: PocketBase draws a new record ID.
Create(s, t, replay) ==
    /\ t \notin used
    /\ Request(s, "publish", replay, [op |-> "create", todo |-> t])
    /\ used' = used \union {t}
    /\ records' = [records EXCEPT ![s][t] = Record(FALSE, FALSE)]
    /\ UNCHANGED <<log, at, unacked, rejoins, local, troubled>>

\* handleToggle reads the todo ...
ToggleRead(s, t, replay) ==
    /\ records[s][t] # None
    /\ Request(s, "read", replay, [op |-> "toggle", todo |-> t, val |-> ~records[s][t].completed])
    /\ UNCHANGED <<records, log, at, unacked, used, rejoins, local, troubled>>

\* ... and writes the negation, unless the todo is gone by then.
ToggleWrite(j) ==
    /\ j \in jobs /\ j.pc = "read"
    /\ IF records[j.site][j.msg.todo] = None
       THEN /\ jobs' = jobs \ {j}
            /\ UNCHANGED records
       ELSE /\ jobs' = (jobs \ {j}) \union {[j EXCEPT !.pc = "publish"]}
            /\ records' = [records EXCEPT ![j.site][j.msg.todo].completed = j.msg.val]
    /\ UNCHANGED <<log, at, unacked, used, ops, rejoins, local, troubled>>

\* handleDelete reads the todo.  The store reads it again and deletes it, or, as
\* it is gone or cannot be read, does not, which the handler takes for done.
Delete(s, t, replay) ==
    /\ records[s][t] # None
    /\ Request(s, "publish", replay, [op |-> "delete", todo |-> t])
    /\ \/ records' = [records EXCEPT ![s][t] = None]
       \/ UNCHANGED records
    /\ UNCHANGED <<log, at, unacked, used, rejoins, local, troubled>>

Cleared(list) ==
    [t \in Todos |-> IF list[t] # None /\ list[t].completed THEN None ELSE list[t]]

ClearCompleted(s, replay) ==
    /\ Request(s, "publish", replay, [op |-> "clear_completed"])
    /\ records' = [records EXCEPT ![s] = Cleared(@)]
    /\ UNCHANGED <<log, at, unacked, used, rejoins, local, troubled>>

\* The todos that a message may be about.
About(m) == IF m.op = "clear_completed" THEN Todos ELSE {m.todo}

\* A replayed toggle, delete or clear returns before it would publish.
ReturnsEarly(j) == j.replay /\ j.msg.op # "create"

\* The end of the handler.
Publish(j) ==
    /\ j \in jobs /\ j.pc = "publish" /\ ~ReturnsEarly(j)
    /\ jobs' = jobs \ {j}
    /\ log' = Append(log, j.msg)
    /\ UNCHANGED <<records, at, unacked, used, ops, rejoins, local, troubled>>

\* The handler returns early, the list query before the publish fails, the
\* publish fails, or the site goes down: the mutation stays local.
Unpublished(j) ==
    /\ j \in jobs
    /\ jobs' = jobs \ {j}
    /\ local' = local \union About(j.msg)
    /\ UNCHANGED <<records, log, at, unacked, used, ops, rejoins, troubled>>

-------------------------------------------------------------------------------
(* The consumer. *)

\* VARIANT: a toggle is applied by negating what is on record.
Applied_Negates(list, m) ==
    CASE m.op = "create" -> IF list[m.todo] # None THEN list
                            ELSE [list EXCEPT ![m.todo] = Record(FALSE, TRUE)]
      [] m.op = "toggle" -> IF list[m.todo] = None THEN list
                            ELSE [list EXCEPT ![m.todo].completed = ~@]
      [] m.op = "delete" -> [list EXCEPT ![m.todo] = None]
      [] m.op = "clear_completed" -> Cleared(list)

\* The save of a create is refused when the record exists, and when another
\* record of the owner has no idem_key either.
Refused(list, t) ==
    list[t] # None \/ \E u \in Todos : list[u] # None /\ list[u].keyless

\* handleCreate, handleToggle, handleDelete and handleClearCompleted.
Applied(list, m) ==
    CASE m.op = "create" -> IF Refused(list, m.todo) THEN list
                            ELSE [list EXCEPT ![m.todo] = Record(FALSE, TRUE)]
      [] m.op = "toggle" -> IF list[m.todo] = None THEN list
                            ELSE [list EXCEPT ![m.todo].completed = m.val]
      [] m.op = "delete" -> [list EXCEPT ![m.todo] = None]
      [] m.op = "clear_completed" -> Cleared(list)

\* The todo that a create does not put on record.
KeptOut(list, m) ==
    IF m.op = "create" /\ Applied(list, m)[m.todo] = None THEN {m.todo} ELSE {}

\* Message p is handled.  A save that fails is logged, and the message is
\* acknowledged all the same; an acknowledgement can get lost.
Consume(s, p) ==
    /\ p \in (unacked[s] \union {at[s] + 1}) \intersect (1..Len(log))
    /\ at' = [at EXCEPT ![s] = IF p > @ THEN p ELSE @]
    /\ \/ /\ records' = [records EXCEPT ![s] = Applied(@, log[p])]
          /\ troubled' = troubled \union ({s} \X KeptOut(records[s], log[p]))
       \/ /\ troubled' = troubled \union ({s} \X About(log[p]))
          /\ UNCHANGED records
    /\ unacked' = [unacked EXCEPT ![s] = @ \ {p}]
    /\ UNCHANGED <<jobs, log, used, ops, rejoins, local>>

\* The same, and the acknowledgement is lost: the message comes again.
ConsumeUnacked(s, p) ==
    /\ p \in (unacked[s] \union {at[s] + 1}) \intersect (1..Len(log))
    /\ at' = [at EXCEPT ![s] = IF p > @ THEN p ELSE @]
    /\ records' = [records EXCEPT ![s] = Applied(@, log[p])]
    /\ unacked' = [unacked EXCEPT ![s] = @ \union {p}]
    /\ troubled' = troubled \union ({s} \X About(log[p]))
    /\ UNCHANGED <<jobs, log, used, ops, rejoins, local>>

\* Run ends with Unsubscribe, which deletes the consumer it had created: the
\* next Run gets the whole stream again.
Rejoin(s) ==
    /\ rejoins < MaxRejoins
    /\ rejoins' = rejoins + 1
    /\ at' = [at EXCEPT ![s] = 0]
    /\ unacked' = [unacked EXCEPT ![s] = {}]
    /\ troubled' = troubled \ ({s} \X Todos)
    /\ UNCHANGED <<records, jobs, log, used, ops, local>>

CrudNext ==
    \/ \E s \in Sites, replay \in BOOLEAN :
          \/ \E t \in Todos : Create(s, t, replay) \/ ToggleRead(s, t, replay) \/ Delete(s, t, replay)
          \/ ClearCompleted(s, replay)
    \/ \E j \in jobs : ToggleWrite(j) \/ Publish(j) \/ Unpublished(j)
    \/ \E s \in Sites :
          \/ \E p \in 1..Len(log) : Consume(s, p) \/ ConsumeUnacked(s, p)
          \/ Rejoin(s)

CrudSpec == CrudInit /\ [][CrudNext]_crudVars

-------------------------------------------------------------------------------
\* The positions of the operations of a kind on todo t in the stream.
Positions(op, t) == {i \in DOMAIN log : log[i].op = op /\ log[i].todo = t}

\* What the stream says of t: present if created and not deleted after that,
\* completed if the last toggle says so.
Says(t) ==
    IF ~\E i \in Positions("create", t) : \A j \in Positions("delete", t) : j < i
    THEN "none"
    ELSE IF \E i \in Positions("toggle", t) :
                log[i].val /\ \A j \in Positions("toggle", t) : j <= i
         THEN "completed" ELSE "active"

Has(s, t) ==
    IF records[s][t] = None THEN "none"
    ELSE IF records[s][t].completed THEN "completed" ELSE "active"

\* Two handlers may publish in the other order than they wrote: of the
\* operations on a todo the creation comes first.
InOrder(t) ==
    \A i \in Positions("create", t), j \in Positions("toggle", t) : i < j

\* No handler runs on s, and its consumer is at the end of the stream.
Quiet(s) ==
    /\ \A j \in jobs : j.site # s
    /\ at[s] = Len(log)
    /\ unacked[s] = {}

\* A site ends up with what the stream says of a todo, although its writes
\* overtake the stream and it gets its own operations again.  Left out are the
\* todos with a mutation that the stream was never given, by a replayed request
\* for one, and on each site those of which a message was not applied, came
\* twice, or was a create that the unique index refused: until the consumer
\* starts anew and the whole stream, applied to today's records, puts right
\* what it can.  (Clears are left out: they delete what is completed on the
\* site when they get there.)
SitesFollowStream ==
    (\A i \in DOMAIN log : log[i].op # "clear_completed") =>
        \A s \in Sites : Quiet(s) =>
            \A t \in Todos \ local :
                <<s, t>> \notin troubled /\ InOrder(t) => Has(s, t) = Says(t)
===============================================================================
