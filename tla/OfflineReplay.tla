----------------------------- MODULE OfflineReplay -----------------------------
(***************************************************************************)
(* web/resources/static/sw.js with the todo handlers it talks to           *)
(* (features/todo/handlers/todo_crud.go on features/store/pbstore): one    *)
(* user's mutations go to the server first; when no answer comes back the  *)
(* service worker stores them in IndexedDB and later replays them one      *)
(* after the other.  A request whose answer got lost may have been run     *)
(* already, may still be running, or may never have arrived.               *)
(***************************************************************************)
EXTENDS Naturals, Sequences, FiniteSets

CONSTANTS
    Rows,        \* PocketBase record IDs
    Unused, Deleted,
    MaxRequests, \* bound: mutations the user makes
    MaxKills,    \* bound: how often the service worker is stopped
    MaxAbandoned \* bound: calls the server still runs that nobody waits for

ASSUME ReplayAssumption ==
    /\ Unused # Deleted
    /\ MaxRequests \in Nat
    /\ MaxKills \in Nat
    /\ MaxAbandoned \in Nat

VARIABLES
    request,    \* the mutations made so far, numbered
    pending,    \* the IndexedDB store, by request number
    calls,      \* the HTTP requests under way
    replay,     \* replayQueue: where it is and what it has left
    rows,       \* the todos collection
    queued,     \* the requests that were ever in pending
    settled,    \* the requests that ran, or whose row was gone
    misread,    \* the requests a replay of which was answered 404 because the
                \* read of its row failed
    kills       \* how often the service worker was stopped

vars == <<request, pending, calls, replay, rows, queued, settled, misread, kills>>

Numbers == 1..Len(request)
Elems(s) == {s[i] : i \in DOMAIN s}

\* A row: the idem_key it was created with (its request's number) and its state.
RowValues == [key : 1..MaxRequests, completed : BOOLEAN]
Live(r) == rows[r] \notin {Unused, Deleted}

Requests ==
    [op : {"create", "clear"}] \union [op : {"toggle", "delete"}, row : Rows]

\* heard: whether somebody still waits for the answer.
Calls ==
    [n : 1..MaxRequests, by : {"page", "replay"}, heard : BOOLEAN,
     pc : {"sent", "read", "ok", "missing", "failed"}, was : BOOLEAN]

Resting == [pc |-> "rest", left |-> <<>>, refused |-> {}]

TypeOK ==
    /\ request \in Seq(Requests) /\ Len(request) <= MaxRequests
    /\ pending \in Seq(Numbers)
    /\ \A i, j \in DOMAIN pending : pending[i] = pending[j] => i = j
    /\ calls \subseteq Calls /\ \A c \in calls : c.n \in Numbers
    /\ replay \in [pc : {"rest", "send", "wait", "remove"}, left : Seq(Numbers),
                   refused : SUBSET Numbers]
    /\ rows \in [Rows -> RowValues \union {Unused, Deleted}]
    /\ settled \subseteq Numbers
    /\ misread \subseteq Numbers
    /\ queued \subseteq Numbers
    /\ kills \in 0..MaxKills

Init ==
    /\ request = <<>>
    /\ pending = <<>>
    /\ calls = {}
    /\ replay = Resting
    /\ rows = [r \in Rows |-> Unused]
    /\ queued = {}
    /\ settled = {}
    /\ misread = {}
    /\ kills = 0

-------------------------------------------------------------------------------
(* The service worker: networkFirstWithQueue. *)

Call(n, by) == [n |-> n, by |-> by, heard |-> TRUE, pc |-> "sent", was |-> FALSE]

\* The user makes a mutation.  The row of a toggle or a deletion is one the
\* page has shown, and may be gone by now.
Mutate(r) ==
    /\ Len(request) < MaxRequests
    /\ "row" \in DOMAIN r => rows[r.row] # Unused
    /\ request' = Append(request, r)
    /\ calls' = calls \union {Call(Len(request) + 1, "page")}
    /\ UNCHANGED <<pending, replay, rows, queued, settled, misread, kills>>

Finished(c) == c.pc \in {"ok", "missing", "failed"}

\* The page gets the server's answer, whatever it is.
PageAnswer(c) ==
    /\ c \in calls /\ c.by = "page" /\ Finished(c)
    /\ calls' = calls \ {c}
    /\ UNCHANGED <<request, pending, replay, rows, queued, settled, misread, kills>>

\* What becomes of a call nobody waits for any more: it never arrived, or the
\* server goes on with it.
Unheard == {c \in calls : ~c.heard}
Abandon(c) ==
    \/ calls' = calls \ {c}
    \/ /\ ~Finished(c)
       /\ Cardinality(Unheard) < MaxAbandoned
       /\ calls' = (calls \ {c}) \union {[c EXCEPT !.heard = FALSE]}

\* No answer comes: the request is put at the end of the queue and the page
\* gets an optimistic answer, also when IndexedDB refuses it.
PageLoss(c) ==
    /\ c \in calls /\ c.by = "page" /\ c.heard
    /\ Abandon(c)
    /\ \/ /\ pending' = Append(pending, c.n)
          /\ queued' = queued \union {c.n}
       \/ UNCHANGED <<pending, queued>>
    /\ UNCHANGED <<request, replay, rows, settled, misread, kills>>

-------------------------------------------------------------------------------
(* requestReplay and replayQueue: triggers are serialised by replayPromise. *)

\* A sync event or a page's replay-queue message.
StartReplay ==
    /\ replay.pc = "rest"
    /\ pending # <<>>
    /\ replay' = [pc |-> "send", left |-> pending, refused |-> {}]
    /\ UNCHANGED <<request, pending, calls, rows, queued, settled, misread, kills>>

Onward(left, refused) ==
    IF left = <<>> THEN Resting ELSE [pc |-> "send", left |-> left, refused |-> refused]

SendNext ==
    /\ replay.pc = "send"
    /\ calls' = calls \union {Call(Head(replay.left), "replay")}
    /\ replay' = [replay EXCEPT !.pc = "wait"]
    /\ UNCHANGED <<request, pending, rows, queued, settled, misread, kills>>

\* VARIANT: whatever the server answers, the item is done with.
ReplayAnswer_AnyStatus(c) ==
    /\ c \in calls /\ c.by = "replay" /\ Finished(c)
    /\ calls' = calls \ {c}
    /\ replay' = [replay EXCEPT !.pc = "remove"]
    /\ UNCHANGED <<request, pending, rows, queued, settled, misread, kills>>

\* VARIANT: the replay stops at an item the server refuses.
ReplayAnswer_StopsOnRefusal(c) ==
    /\ c \in calls /\ c.by = "replay" /\ Finished(c)
    /\ calls' = calls \ {c}
    /\ replay' = IF c.pc \in {"ok", "missing"} THEN [replay EXCEPT !.pc = "remove"]
                 ELSE Resting
    /\ UNCHANGED <<request, pending, rows, queued, settled, misread, kills>>

\* An item that was run, or whose row is gone, is removed; one that the server
\* refuses stays in the queue, and the replay goes on with the next.
ReplayAnswer(c) ==
    /\ c \in calls /\ c.by = "replay" /\ Finished(c)
    /\ calls' = calls \ {c}
    /\ replay' = IF c.pc \in {"ok", "missing"} THEN [replay EXCEPT !.pc = "remove"]
                 ELSE Onward(Tail(replay.left), replay.refused \union {c.n})
    /\ UNCHANGED <<request, pending, rows, queued, settled, misread, kills>>

\* VARIANT: the replay goes on after an item that got no answer.
ReplayLoss_GoesOn(c) ==
    /\ c \in calls /\ c.by = "replay" /\ c.heard
    /\ Abandon(c)
    /\ replay' = Onward(Tail(replay.left), replay.refused)
    /\ UNCHANGED <<request, pending, rows, queued, settled, misread, kills>>

\* VARIANT: the item is put in the queue again.
ReplayLoss_Requeues(c) ==
    /\ c \in calls /\ c.by = "replay" /\ c.heard
    /\ Abandon(c)
    /\ pending' = Append(pending, c.n)
    /\ replay' = Resting
    /\ UNCHANGED <<request, rows, queued, settled, misread, kills>>

\* No answer comes: the replay stops.
ReplayLoss(c) ==
    /\ c \in calls /\ c.by = "replay" /\ c.heard
    /\ Abandon(c)
    /\ replay' = Resting
    /\ UNCHANGED <<request, pending, rows, queued, settled, misread, kills>>

Without(s, i) == [j \in 1..(Len(s) - 1) |-> IF j < i THEN s[j] ELSE s[j + 1]]

\* deletePending.  When it fails the replay stops.
RemovePending ==
    /\ replay.pc = "remove"
    /\ \/ /\ \E i \in DOMAIN pending :
                pending[i] = Head(replay.left) /\ pending' = Without(pending, i)
          /\ replay' = Onward(Tail(replay.left), replay.refused)
       \/ /\ replay' = Resting
          /\ UNCHANGED pending
    /\ UNCHANGED <<request, calls, rows, queued, settled, misread, kills>>

\* The browser stops the service worker: what it waited for is lost, and so is
\* a page's request that was not in the queue yet.
Kill ==
    /\ kills < MaxKills
    /\ kills' = kills + 1
    /\ replay' = Resting
    /\ \E S \in SUBSET {c \in calls : c.heard /\ ~Finished(c)} :
          /\ Cardinality(Unheard \union S) <= MaxAbandoned
          /\ calls' = Unheard \union {[c EXCEPT !.heard = FALSE] : c \in S}
    /\ UNCHANGED <<request, pending, rows, queued, settled, misread>>

-------------------------------------------------------------------------------
(* The server. *)

Answer(c, status) ==
    calls' = (calls \ {c}) \union (IF c.heard THEN {[c EXCEPT !.pc = status]} ELSE {})

ServerStep(c, op) == c \in calls /\ c.pc = "sent" /\ request[c.n].op = op

\* The call of a replay for request n that the service worker waits for.
Replayed(n) == {c \in calls : c.n = n /\ c.by = "replay" /\ c.heard}

Settle(c) == settled' = settled \union {c.n} /\ UNCHANGED misread

\* Any write can fail, and is answered 500.
ServerFails(c) ==
    /\ c \in calls /\ c.pc \in {"sent", "read"}
    /\ Answer(c, "failed")
    /\ UNCHANGED <<request, pending, replay, rows, queued, settled, misread, kills>>

\* VARIANT: no unique index on (idem_key, owner).
KeyTaken_Never(n) == FALSE

\* The unique index on (idem_key, owner).
KeyTaken(n) == \E r \in Rows : Live(r) /\ rows[r].key = n

\* handleCreate: a save that the index refuses is a failed one, as any other
\* (ServerFails): the hook that would answer with the existing record is only
\* called by PocketBase's own API.
ServeCreate(c) ==
    /\ ServerStep(c, "create")
    /\ ~KeyTaken(c.n)
    /\ \E r \in Rows :
          /\ rows[r] = Unused
          /\ rows' = [rows EXCEPT ![r] = [key |-> c.n, completed |-> FALSE]]
    /\ Answer(c, "ok")
    /\ Settle(c)
    /\ UNCHANGED <<request, pending, replay, queued, kills>>

\* Get of a toggle or a deletion: a row that is gone is a 404, and so is a read
\* that fails.  (If it is the read of the store's own Delete, the answer is a
\* 200, which the service worker treats alike.)
ServeMissing(c) ==
    /\ c \in calls /\ c.pc = "sent" /\ "row" \in DOMAIN request[c.n]
    /\ Answer(c, "missing")
    /\ \/ ~Live(request[c.n].row) /\ Settle(c)
       \/ /\ Live(request[c.n].row)
          /\ misread' = misread \union (IF c \in Replayed(c.n) THEN {c.n} ELSE {})
          /\ UNCHANGED settled
    /\ UNCHANGED <<request, pending, replay, rows, queued, kills>>

\* handleToggle reads the row ...
ServeToggleRead(c) ==
    /\ ServerStep(c, "toggle")
    /\ Live(request[c.n].row)
    /\ calls' = (calls \ {c}) \union
           {[c EXCEPT !.pc = "read", !.was = rows[request[c.n].row].completed]}
    /\ UNCHANGED <<request, pending, replay, rows, queued, settled, misread, kills>>

\* ... and writes the negation of what it read.  A row that went away in the
\* meantime is answered 500 (ServerFails).
ServeToggleWrite(c) ==
    /\ c \in calls /\ c.pc = "read"
    /\ Live(request[c.n].row)
    /\ rows' = [rows EXCEPT ![request[c.n].row].completed = ~c.was]
    /\ Answer(c, "ok")
    /\ Settle(c)
    /\ UNCHANGED <<request, pending, replay, queued, kills>>

ServeDelete(c) ==
    /\ ServerStep(c, "delete")
    /\ Live(request[c.n].row)
    /\ rows' = [rows EXCEPT ![request[c.n].row] = Deleted]
    /\ Answer(c, "ok")
    /\ Settle(c)
    /\ UNCHANGED <<request, pending, replay, queued, kills>>

Done == {r \in Rows : Live(r) /\ rows[r].completed}

\* ClearCompleted: one deletion after the other; it stops at one that fails.
ServeClear(c) ==
    /\ ServerStep(c, "clear")
    /\ \E S \in SUBSET Done :
          /\ rows' = [r \in Rows |-> IF r \in S THEN Deleted ELSE rows[r]]
          /\ IF S = Done THEN Answer(c, "ok") /\ Settle(c)
             ELSE Answer(c, "failed") /\ UNCHANGED <<settled, misread>>
    /\ UNCHANGED <<request, pending, replay, queued, kills>>

Serve(c) ==
    \/ ServeCreate(c) \/ ServeMissing(c) \/ ServeToggleRead(c)
    \/ ServeToggleWrite(c) \/ ServeDelete(c) \/ ServeClear(c)

Next ==
    \/ \E r \in Requests : Mutate(r)
    \/ StartReplay \/ SendNext \/ RemovePending \/ Kill
    \/ \E c \in calls :
          \/ PageAnswer(c) \/ PageLoss(c) \/ ReplayAnswer(c) \/ ReplayLoss(c)
          \/ ServerFails(c) \/ Serve(c)

Spec == Init /\ [][Next]_vars

\* The pages ask for a replay again and again, a replay goes on, and no
\* request fails for ever where it could succeed.
FairSpec ==
    /\ Spec
    /\ WF_vars(StartReplay)
    /\ WF_vars(SendNext)
    /\ SF_vars(RemovePending /\ pending' # pending)
    /\ \A n \in 1..MaxRequests :
          /\ SF_vars(\E c \in Replayed(n) : ReplayAnswer(c))
          /\ SF_vars(\E c \in Replayed(n) : Serve(c) \/ ServerFails(c))
          /\ SF_vars(\E c \in Replayed(n) : ServeToggleRead(c))
          /\ SF_vars(\E c \in Replayed(n) : Serve(c) /\ n \in settled')

-------------------------------------------------------------------------------
\* However often a create is sent, there is at most one todo of it.
NoDuplicateRow ==
    \A r, s \in Rows : (Live(r) /\ Live(s) /\ rows[r].key = rows[s].key) => r = s

\* A mutation that reached the queue leaves it only after the server ran it or
\* found its todo gone, whatever calls were lost, stopped or refused in between.
\* The exception is a toggle or a deletion that a replay sent while the store
\* could not read the todo: the service worker takes that 404 for a deletion
\* ("safe to remove") and drops it.
NothingQueuedIsLost == queued \subseteq settled \union misread \union Elems(pending)

\* Replays keep the order of the queue, but for items the server refused: an
\* item that got no answer holds up those behind it.
ReplayInOrder ==
    replay.pc \in {"send", "wait"} =>
        \A i, j \in DOMAIN pending :
            (i < j /\ pending[j] = Head(replay.left)) => pending[i] \in replay.refused

\* A queued mutation is run in the end: an item that the server refuses for
\* ever (a create that was run before its answer was lost) blocks no other.
\* Here too a toggle or a deletion is lost to a failed read.
EveryQueuedRequestRuns ==
    \A n \in 1..MaxRequests : n \in queued ~> n \in settled \union misread
===============================================================================
