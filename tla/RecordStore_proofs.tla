--------------------------- MODULE RecordStore_proofs ---------------------------
(***************************************************************************)
(* Proofs about what surrounds the record todo store.                      *)
(*                                                                         *)
(* OfflineReplay, for any number of requests, rows, stops of the service   *)
(* worker and calls nobody waits for: no create makes two rows, no queued  *)
(* mutation is lost but to a failed read of its row, and replays keep the  *)
(* order of the queue.                                                     *)
(*                                                                         *)
(* CrudSync, for any number of sites, todos, mutations, replays and        *)
(* restarts: a site whose consumer has seen the whole stream holds what    *)
(* the stream says of the todos whose messages it applied.                 *)
(***************************************************************************)
EXTENDS OfflineReplay, CrudSync, TLAPS

-------------------------------------------------------------------------------
(* The calls.  Every step but Mutate and SendNext only takes calls away or  *)
(* moves one on.                                                            *)

\* d is what became of call c.
Becomes(c, d) ==
    /\ d \in Calls
    /\ d.n = c.n /\ d.by = c.by
    /\ d.heard => c.heard
    /\ Finished(d) => d.heard

\* c is taken away, or moved on.
Moved(c) ==
    \/ calls' = calls \ {c}
    \/ \E d \in Calls : Becomes(c, d) /\ calls' = (calls \ {c}) \union {d}

LEMMA AbandonMoves ==
    ASSUME calls \subseteq Calls, NEW c \in calls, Abandon(c)
    PROVE  \/ calls' = calls \ {c}
           \/ /\ ~Finished(c)
              /\ calls' = (calls \ {c}) \union {[c EXCEPT !.heard = FALSE]}
              /\ Becomes(c, [c EXCEPT !.heard = FALSE])
BY DEF Abandon, Calls, Becomes, Finished

LEMMA AnswerMoves ==
    ASSUME calls \subseteq Calls, NEW c \in calls, NEW status \in {"ok", "missing", "failed"},
           Answer(c, status)
    PROVE  \/ calls' = calls \ {c}
           \/ /\ c.heard
              /\ calls' = (calls \ {c}) \union {[c EXCEPT !.pc = status]}
              /\ Becomes(c, [c EXCEPT !.pc = status])
BY DEF Answer, Calls, Becomes, Finished

\* What the server does to the calls and to the settled requests.
Served(c) ==
    /\ Moved(c)
    /\ \A d \in calls' \ calls : (d.by = "replay" /\ d.pc \in {"ok", "missing"}) => d.n \in settled' \union misread'
    /\ settled \subseteq settled' /\ settled' \subseteq settled \union {c.n}
    /\ misread \subseteq misread' /\ misread' \subseteq misread \union {c.n}
    /\ UNCHANGED <<request, pending, replay, queued, kills>>

LEMMA ServerMoves ==
    ASSUME TypeOK, NEW c \in calls, Serve(c) \/ ServerFails(c)
    PROVE  Served(c)
<1>0. calls \subseteq Calls /\ c \in Calls
  BY DEF TypeOK
<1> USE <1>0
<1>1. ASSUME NEW status \in {"ok", "missing", "failed"}, Answer(c, status),
             (c.by = "replay" /\ status \in {"ok", "missing"}) => c.n \in settled' \union misread',
             settled \subseteq settled', settled' \subseteq settled \union {c.n},
             misread \subseteq misread', misread' \subseteq misread \union {c.n},
             UNCHANGED <<request, pending, replay, queued, kills>>
      PROVE  Served(c)
  <2>1. [c EXCEPT !.pc = status].pc = status /\ [c EXCEPT !.pc = status].n = c.n
       /\ [c EXCEPT !.pc = status].by = c.by
    BY DEF Calls
  <2>2. \/ calls' = calls \ {c}
        \/ /\ Becomes(c, [c EXCEPT !.pc = status])
           /\ calls' = (calls \ {c}) \union {[c EXCEPT !.pc = status]}
    BY <1>1, AnswerMoves
  <2>3. Moved(c)
    BY <2>2 DEF Moved, Becomes
  <2>4. \A d \in calls' \ calls : d = [c EXCEPT !.pc = status]
    BY <2>2
  <2>5. \A d \in calls' \ calls : (d.by = "replay" /\ d.pc \in {"ok", "missing"}) => d.n \in settled' \union misread'
    BY <1>1, <2>1, <2>4
  <2> QED
    BY <1>1, <2>3, <2>5 DEF Served
<1>2. CASE ServerFails(c)
  BY <1>1, <1>2 DEF ServerFails
<1>3. CASE ServeCreate(c)
  BY <1>1, <1>3 DEF ServeCreate, Settle
<1>4. CASE ServeMissing(c)
  <2>1. CASE Live(request[c.n].row)
    <3>1. /\ Answer(c, "missing") /\ UNCHANGED <<request, pending, replay, queued, kills, settled>>
          /\ misread' = misread \union (IF c \in Replayed(c.n) THEN {c.n} ELSE {})
      BY <1>4, <2>1 DEF ServeMissing
    <3>2. CASE c.heard
      BY <1>1, <3>1, <3>2 DEF Replayed
    <3>3. CASE ~c.heard
      BY <1>1, <3>1, <3>3 DEF Answer, Served, Moved
    <3> QED
      BY <3>2, <3>3
  <2>2. CASE ~Live(request[c.n].row)
    BY <1>1, <1>4, <2>2 DEF ServeMissing, Settle
  <2> QED
    BY <2>1, <2>2
<1>5. CASE ServeToggleRead(c)
  <2> DEFINE d == [c EXCEPT !.pc = "read", !.was = rows[request[c.n].row].completed]
  <2>1. rows[request[c.n].row] \in RowValues
    <3>1. c.n \in DOMAIN request /\ request[c.n] \in Requests
      BY DEF TypeOK, Numbers
    <3>2. request[c.n].op = "toggle"
      BY <1>5 DEF ServeToggleRead, ServerStep
    <3>3. request[c.n].row \in Rows
      BY <3>1, <3>2 DEF Requests
    <3> QED
      BY <1>5, <3>3 DEF ServeToggleRead, Live, TypeOK
  <2>2. d \in Calls /\ d.n = c.n /\ d.by = c.by /\ d.heard = c.heard /\ d.pc = "read"
    BY <2>1 DEF Calls, RowValues
  <2>3. calls' = (calls \ {c}) \union {d} /\ UNCHANGED <<request, pending, replay, queued, kills>>
        /\ settled' = settled /\ misread' = misread
    BY <1>5 DEF ServeToggleRead
  <2>4. Becomes(c, d)
    BY <2>2 DEF Becomes, Finished
  <2> HIDE DEF d
  <2> QED
    BY <2>2, <2>3, <2>4 DEF Served, Moved
<1>6. CASE ServeToggleWrite(c)
  BY <1>1, <1>6 DEF ServeToggleWrite, Settle
<1>7. CASE ServeDelete(c)
  BY <1>1, <1>7 DEF ServeDelete, Settle
<1>8. CASE ServeClear(c)
  <2>1. PICK S \in SUBSET Done :
           IF S = Done THEN Answer(c, "ok") /\ Settle(c)
           ELSE Answer(c, "failed") /\ UNCHANGED <<settled, misread>>
    BY <1>8 DEF ServeClear
  <2>2. UNCHANGED <<request, pending, replay, queued, kills>>
    BY <1>8 DEF ServeClear
  <2> QED
    BY <1>1, <2>1, <2>2 DEF Settle
<1> QED
  BY <1>2, <1>3, <1>4, <1>5, <1>6, <1>7, <1>8 DEF Serve

-------------------------------------------------------------------------------
(* Types, and who is in the queue. *)

\* One call is waited for in a replay, and it is that of the item in turn; the
\* requests that pages still wait for are not in the queue yet.
CallInv ==
    /\ \A c \in calls : Finished(c) => c.heard
    /\ \A c \in calls : (c.by = "replay" /\ c.heard) =>
          replay.pc = "wait" /\ c.n = Head(replay.left)
    /\ \A c \in calls : (c.by = "page" /\ c.heard) => c.n \notin queued
    /\ \A c, d \in calls : (c.by = d.by /\ c.heard /\ d.heard /\ c.n = d.n) => c = d
    /\ replay.pc # "rest" => replay.left # <<>>
    /\ Elems(pending) \subseteq queued
    /\ Elems(replay.left) \subseteq queued

IInv == TypeOK /\ CallInv

\* A step that moves one call on and touches nothing else but the replay, which
\* does not wait for another call than before.
LEMMA MovedKeeps ==
    ASSUME CallInv, calls \subseteq Calls, NEW c \in calls, Moved(c),
           UNCHANGED <<pending, queued>>,
           replay' = replay \/ (c.by = "replay" /\ c.heard /\ \A d \in calls' : d.by = "replay" => ~d.heard),
           replay'.pc # "rest" => replay'.left # <<>>,
           Elems(replay'.left) \subseteq queued
    PROVE  CallInv'
<1>1. \A d \in calls' : d \in calls \/ Becomes(c, d)
  BY DEF Moved
<1>2. \A d \in calls' : Finished(d) => d.heard
  BY <1>1 DEF Becomes, CallInv, Finished
<1>3. \A d \in calls' : (d.by = "replay" /\ d.heard) =>
          replay'.pc = "wait" /\ d.n = Head(replay'.left)
  BY <1>1 DEF Becomes, CallInv
<1>4. \A d \in calls' : (d.by = "page" /\ d.heard) => d.n \notin queued'
  BY <1>1 DEF Becomes, CallInv
<1>5. ASSUME NEW d \in calls', NEW e \in calls',
             d.by = e.by, d.heard, e.heard, d.n = e.n
      PROVE  d = e
  BY <1>5 DEF Becomes, CallInv, Moved
<1> QED
  BY <1>2, <1>3, <1>4, <1>5 DEF CallInv, Finished

\* Only the call of the item in turn is heard in a replay.
LEMMA ReplayCall ==
    ASSUME IInv, NEW c \in calls, c.by = "replay", c.heard
    PROVE  /\ replay.pc = "wait" /\ c.n = Head(replay.left) /\ replay.left # <<>>
           /\ Tail(replay.left) \in Seq(Numbers)
           /\ Elems(Tail(replay.left)) \subseteq Elems(replay.left)
<1>1. replay.pc = "wait" /\ c.n = Head(replay.left) /\ replay.left # <<>>
  BY DEF IInv, CallInv
<1>2. replay.left \in Seq(Numbers)
  BY DEF IInv, TypeOK
<1>3. Tail(replay.left) \in Seq(Numbers)
      /\ \A i \in DOMAIN Tail(replay.left) :
            i + 1 \in DOMAIN replay.left /\ Tail(replay.left)[i] = replay.left[i + 1]
  BY <1>1, <1>2
<1> QED
  BY <1>1, <1>3 DEF Elems

\* The answer to it, or its loss, leaves nobody to wait for in the replay.
LEMMA ReplayCallMoves ==
    ASSUME IInv, NEW c \in calls, c.by = "replay", c.heard,
           \/ calls' = calls \ {c}
           \/ \E d \in Calls : Becomes(c, d) /\ ~d.heard /\ calls' = (calls \ {c}) \union {d}
    PROVE  Moved(c) /\ \A d \in calls' : d.by = "replay" => ~d.heard
<1>1. \A d \in calls : (d.by = "replay" /\ d.heard) => d = c
  BY DEF IInv, CallInv
<1> QED
  BY <1>1 DEF Moved, Becomes

LEMMA OnwardTyped ==
    ASSUME NEW N, NEW left \in Seq(N), NEW refused \in SUBSET N
    PROVE  /\ Onward(left, refused) \in
                 [pc : {"rest", "send", "wait", "remove"}, left : Seq(N), refused : SUBSET N]
           /\ Onward(left, refused).pc # "rest" => Onward(left, refused).left # <<>>
           /\ Onward(left, refused).left = left
           /\ Onward(left, refused).pc \in {"rest", "send"}
           /\ Onward(left, refused).left # <<>> => Onward(left, refused).refused = refused
BY DEF Onward, Resting

LEMMA RestingTyped ==
    ASSUME NEW N
    PROVE  /\ Resting \in
                 [pc : {"rest", "send", "wait", "remove"}, left : Seq(N), refused : SUBSET N]
           /\ Resting.pc = "rest" /\ Resting.left = <<>> /\ Elems(Resting.left) = {}
BY DEF Resting, Elems

\* The queue with item i taken out.
LEMMA WithoutItem ==
    ASSUME NEW N, NEW s \in Seq(N), NEW i \in DOMAIN s
    PROVE  /\ Without(s, i) \in Seq(N)
           /\ \A j \in DOMAIN Without(s, i) :
                 /\ j < i => j \in DOMAIN s /\ Without(s, i)[j] = s[j]
                 /\ j >= i => j + 1 \in DOMAIN s /\ Without(s, i)[j] = s[j + 1]
           /\ Elems(s) \subseteq Elems(Without(s, i)) \union {s[i]}
<1>1. Len(s) \in Nat \ {0} /\ i \in 1..Len(s)
  OBVIOUS
<1>2. DOMAIN Without(s, i) = 1..(Len(s) - 1)
  BY DEF Without
<1>3. Without(s, i) \in Seq(N)
  <2>1. Without(s, i) \in [1..(Len(s) - 1) -> N]
    BY <1>1 DEF Without
  <2> QED
    BY <1>1, <2>1
<1>4. \A j \in DOMAIN Without(s, i) :
         /\ j < i => j \in DOMAIN s /\ Without(s, i)[j] = s[j]
         /\ j >= i => j + 1 \in DOMAIN s /\ Without(s, i)[j] = s[j + 1]
  BY <1>1, <1>2 DEF Without
<1>5. ASSUME NEW j \in DOMAIN s, j # i PROVE s[j] \in Elems(Without(s, i))
  <2>1. CASE j < i
    BY <1>1, <1>2, <1>4, <2>1 DEF Elems
  <2>2. CASE j > i
    <3>1. j - 1 \in DOMAIN Without(s, i) /\ Without(s, i)[j - 1] = s[j]
      BY <1>1, <1>2, <1>4, <2>2
    <3> QED
      BY <3>1 DEF Elems
  <2> QED
    BY <1>1, <1>5, <2>1, <2>2
<1> QED
  BY <1>3, <1>4, <1>5 DEF Elems

LEMMA CallTyped ==
    ASSUME NEW n \in 1..MaxRequests, NEW by \in {"page", "replay"}
    PROVE  /\ Call(n, by) \in Calls /\ Call(n, by).n = n /\ Call(n, by).by = by
           /\ Call(n, by).heard /\ ~Finished(Call(n, by))
BY DEF Call, Calls, Finished

\* A moved call stays a call with the number of a request.
LEMMA MovedTyped ==
    ASSUME TypeOK, NEW c \in calls, Moved(c), request' = request
    PROVE  calls' \subseteq Calls /\ \A d \in calls' : d.n \in Numbers'
BY DEF TypeOK, Moved, Becomes, Numbers

-------------------------------------------------------------------------------
(* Every step keeps the types and CallInv. *)

LEMMA MutateStep == ASSUME IInv, NEW r \in Requests, Mutate(r) PROVE IInv'
<1> DEFINE n == Len(request) + 1
<1>1. n \in 1..MaxRequests /\ n \notin Numbers /\ request \in Seq(Requests)
  BY ReplayAssumption DEF IInv, TypeOK, Mutate, Numbers
<1>2. request' \in Seq(Requests) /\ Len(request') = n /\ Numbers \subseteq Numbers' /\ n \in Numbers'
  BY <1>1 DEF Mutate, Numbers
<1>3. calls' = calls \union {Call(n, "page")} /\ UNCHANGED <<pending, replay, rows, queued, settled, misread, kills>>
  BY DEF Mutate
<1>4. /\ Call(n, "page") \in Calls /\ Call(n, "page").n = n /\ Call(n, "page").by = "page"
      /\ Call(n, "page").heard /\ ~Finished(Call(n, "page"))
  BY <1>1, CallTyped
<1> HIDE DEF n
<1>5. TypeOK'
  <2>1. calls' \subseteq Calls /\ \A c \in calls' : c.n \in Numbers'
    BY <1>2, <1>3, <1>4 DEF IInv, TypeOK
  <2>2. Len(request') <= MaxRequests
    BY <1>1, <1>2
  <2> QED
    BY <1>2, <1>3, <2>1, <2>2 DEF IInv, TypeOK
<1>6. CallInv'
  <2>1. \A c \in calls : c.n # n
    BY <1>1 DEF IInv, TypeOK
  <2>2. n \notin queued
    BY <1>1 DEF IInv, TypeOK
  <2>3. \A c \in calls' : Finished(c) => c.heard
    BY <1>3, <1>4 DEF IInv, CallInv
  <2>4. \A c \in calls' : (c.by = "replay" /\ c.heard) =>
          replay'.pc = "wait" /\ c.n = Head(replay'.left)
    BY <1>3, <1>4 DEF IInv, CallInv
  <2>5. \A c \in calls' : (c.by = "page" /\ c.heard) => c.n \notin queued'
    BY <1>3, <1>4, <2>2 DEF IInv, CallInv
  <2>6. \A c, d \in calls' : (c.by = d.by /\ c.heard /\ d.heard /\ c.n = d.n) => c = d
    BY <1>3, <1>4, <2>1 DEF IInv, CallInv
  <2> QED
    BY <1>3, <2>3, <2>4, <2>5, <2>6 DEF IInv, CallInv, Finished
<1> QED
  BY <1>5, <1>6 DEF IInv

LEMMA PageAnswerStep == ASSUME IInv, NEW c \in calls, PageAnswer(c) PROVE IInv'
<1>1. Moved(c) /\ UNCHANGED <<request, pending, replay, rows, queued, settled, misread, kills>>
  BY DEF PageAnswer, Moved
<1>2. TypeOK'
  BY <1>1, MovedTyped DEF IInv, TypeOK, Numbers
<1>3. CallInv'
  BY <1>1, MovedKeeps DEF IInv, CallInv, TypeOK
<1> QED
  BY <1>2, <1>3 DEF IInv

LEMMA PageLossStep == ASSUME IInv, NEW c \in calls, PageLoss(c) PROVE IInv'
<1>0. calls \subseteq Calls /\ c.by = "page" /\ c.heard /\ c.n \notin queued
      /\ UNCHANGED <<request, replay, rows, settled, misread, kills>>
  BY DEF PageLoss, IInv, TypeOK, CallInv
<1>1. Moved(c) /\ \A d \in calls' : d.by = "page" /\ d.heard => d \in calls /\ d.n # c.n
  <2>1. \/ calls' = calls \ {c}
        \/ \E d \in Calls : Becomes(c, d) /\ ~d.heard /\ calls' = (calls \ {c}) \union {d}
    <3>1. [c EXCEPT !.heard = FALSE].heard = FALSE
      BY <1>0 DEF Calls
    <3> QED
      BY <1>0, <3>1, AbandonMoves DEF PageLoss, Becomes
  <2> QED
    BY <1>0, <2>1 DEF Moved, IInv, CallInv
<1>2. calls' \subseteq Calls /\ \A d \in calls' : d.n \in Numbers'
  BY <1>0, <1>1, MovedTyped DEF IInv
<1>3. CASE UNCHANGED <<pending, queued>>
  <2>1. TypeOK'
    BY <1>0, <1>2, <1>3 DEF IInv, TypeOK, Numbers
  <2>2. CallInv'
    BY <1>0, <1>1, <1>3, MovedKeeps DEF IInv, CallInv
  <2> QED
    BY <2>1, <2>2 DEF IInv
<1>4. CASE pending' = Append(pending, c.n) /\ queued' = queued \union {c.n}
  <2>1. pending \in Seq(Numbers) /\ c.n \in Numbers
    BY DEF IInv, TypeOK
  <2>2. \A i \in DOMAIN pending : pending[i] # c.n
    BY <1>0 DEF IInv, CallInv, Elems
  <2>3. /\ pending' \in Seq(Numbers)
        /\ \A i \in DOMAIN pending' :
              \/ i \in DOMAIN pending /\ pending'[i] = pending[i]
              \/ i = Len(pending) + 1 /\ pending'[i] = c.n
    BY <1>4, <2>1
  <2>4. \A i, j \in DOMAIN pending' : pending'[i] = pending'[j] => i = j
    BY <2>2, <2>3 DEF IInv, TypeOK
  <2>5. TypeOK'
    BY <1>0, <1>2, <1>4, <2>1, <2>3, <2>4 DEF IInv, TypeOK, Numbers
  <2>6. Elems(pending') \subseteq queued' /\ queued \subseteq queued'
    BY <1>4, <2>3 DEF Elems, IInv, CallInv
  <2>7. \A d \in calls' : d \in calls \/ Becomes(c, d)
    BY <1>1 DEF Moved
  <2>8. \A d \in calls' : Finished(d) => d.heard
    BY <2>7 DEF Becomes, IInv, CallInv
  <2>9. \A d \in calls' : (d.by = "replay" /\ d.heard) => d \in calls
    BY <1>0, <2>7 DEF Becomes
  <2>10. \A d \in calls' : (d.by = "replay" /\ d.heard) =>
          replay'.pc = "wait" /\ d.n = Head(replay'.left)
    BY <1>0, <2>9 DEF IInv, CallInv
  <2>11. \A d \in calls' : (d.by = "page" /\ d.heard) => d.n \notin queued'
    BY <1>1, <1>4 DEF IInv, CallInv
  <2>12. \A d, e \in calls' : (d.by = e.by /\ d.heard /\ e.heard /\ d.n = e.n) => d = e
    <3>1. \A d \in calls' : d.heard => d \in calls
      BY <1>0, <1>1, <2>7, <2>9 DEF Becomes
    <3> QED
      BY <3>1 DEF IInv, CallInv
  <2>13. replay'.pc # "rest" => replay'.left # <<>>
    BY <1>0 DEF IInv, CallInv
  <2>14. Elems(replay'.left) \subseteq queued'
    BY <1>0, <2>6 DEF IInv, CallInv
  <2>15. CallInv'
    BY <2>6, <2>8, <2>10, <2>11, <2>12, <2>13, <2>14 DEF CallInv, Finished
  <2> QED
    BY <2>5, <2>15 DEF IInv
<1> QED
  BY <1>3, <1>4 DEF PageLoss

LEMMA ServerStepKeeps ==
    ASSUME IInv, NEW c \in calls, Serve(c) \/ ServerFails(c),
           rows' \in [Rows -> RowValues \union {Unused, Deleted}]
    PROVE  IInv'
<1>1. Served(c)
  BY ServerMoves DEF IInv
<1>2. c.n \in Numbers
  BY DEF IInv, TypeOK
<1>3. TypeOK'
  BY <1>1, <1>2, MovedTyped DEF Served, IInv, TypeOK, Numbers
<1>4. CallInv'
  BY <1>1, MovedKeeps DEF Served, IInv, CallInv, TypeOK
<1> QED
  BY <1>3, <1>4 DEF IInv

LEMMA RowsTyped ==
    ASSUME TypeOK, NEW c \in calls, Serve(c) \/ ServerFails(c)
    PROVE  rows' \in [Rows -> RowValues \union {Unused, Deleted}]
<1>0. c \in Calls /\ rows \in [Rows -> RowValues \union {Unused, Deleted}]
  BY DEF TypeOK
<1>1. CASE ServeCreate(c)
  <2>1. [key |-> c.n, completed |-> FALSE] \in RowValues
    BY <1>0 DEF Calls, RowValues
  <2> QED
    BY <1>0, <1>1, <2>1 DEF ServeCreate
<1>2. CASE ServeToggleWrite(c)
  <2>1. c.was \in BOOLEAN
    BY <1>0 DEF Calls
  <2> DEFINE r == request[c.n].row
  <2>2. CASE r \in Rows
    <3>1. [rows[r] EXCEPT !.completed = ~c.was] \in RowValues
      BY <1>0, <1>2, <2>1, <2>2 DEF ServeToggleWrite, Live, RowValues
    <3>2. rows' = [rows EXCEPT ![r] = [rows[r] EXCEPT !.completed = ~c.was]]
      BY <1>2 DEF ServeToggleWrite
    <3> HIDE DEF r
    <3> QED
      BY <1>0, <3>1, <3>2
  <2>3. CASE r \notin Rows
    BY <1>0, <1>2, <2>3 DEF ServeToggleWrite
  <2> QED
    BY <2>2, <2>3
<1>3. CASE ServeDelete(c)
  BY <1>0, <1>3 DEF ServeDelete
<1>4. CASE ServeClear(c)
  BY <1>0, <1>4 DEF ServeClear
<1>5. CASE ServeMissing(c) \/ ServeToggleRead(c) \/ ServerFails(c)
  BY <1>0, <1>5 DEF ServeMissing, ServeToggleRead, ServerFails
<1> QED
  BY <1>1, <1>2, <1>3, <1>4, <1>5 DEF Serve

LEMMA StartReplayStep == ASSUME IInv, StartReplay PROVE IInv'
<1>1. replay' \in [pc : {"rest", "send", "wait", "remove"}, left : Seq(Numbers),
                   refused : SUBSET Numbers]
  BY DEF StartReplay, IInv, TypeOK
<1>2. TypeOK'
  BY <1>1 DEF StartReplay, IInv, TypeOK, Numbers
<1>3. CallInv'
  BY DEF StartReplay, IInv, CallInv, Finished
<1> QED
  BY <1>2, <1>3 DEF IInv

LEMMA SendNextStep == ASSUME IInv, SendNext PROVE IInv'
<1> DEFINE n == Head(replay.left)
<1>1. replay.left \in Seq(Numbers) /\ replay.left # <<>>
  BY DEF SendNext, IInv, TypeOK, CallInv
<1>2. n \in Numbers /\ n \in 1..MaxRequests
  BY <1>1, ReplayAssumption DEF IInv, TypeOK, Numbers
<1>3. /\ Call(n, "replay") \in Calls /\ Call(n, "replay").n = n /\ Call(n, "replay").by = "replay"
      /\ Call(n, "replay").heard /\ ~Finished(Call(n, "replay"))
  BY <1>2, CallTyped
<1>4. calls' = calls \union {Call(n, "replay")}
      /\ UNCHANGED <<request, pending, rows, queued, settled, misread, kills>>
  BY DEF SendNext
<1>5. /\ replay' \in [pc : {"rest", "send", "wait", "remove"}, left : Seq(Numbers),
                      refused : SUBSET Numbers]
      /\ replay'.pc = "wait" /\ replay'.left = replay.left
  BY DEF SendNext, IInv, TypeOK
<1>6. \A c \in calls : ~(c.by = "replay" /\ c.heard)
  BY DEF SendNext, IInv, CallInv
<1>7. TypeOK'
  BY <1>2, <1>3, <1>4, <1>5 DEF IInv, TypeOK, Numbers
<1>8. CallInv'
  <2>1. \A c \in calls' : Finished(c) => c.heard
    BY <1>3, <1>4 DEF IInv, CallInv
  <2>2. \A c \in calls' : (c.by = "replay" /\ c.heard) => c.n = n
    BY <1>3, <1>4, <1>6
  <2>3. \A c, d \in calls' : (c.by = d.by /\ c.heard /\ d.heard /\ c.n = d.n) => c = d
    BY <1>3, <1>4, <1>6 DEF IInv, CallInv
  <2>4. \A c \in calls' : (c.by = "page" /\ c.heard) => c.n \notin queued'
    BY <1>3, <1>4 DEF IInv, CallInv
  <2> QED
    BY <1>1, <1>4, <1>5, <2>1, <2>2, <2>3, <2>4 DEF IInv, CallInv, Finished
<1> QED
  BY <1>7, <1>8 DEF IInv

LEMMA ReplayAnswerStep == ASSUME IInv, NEW c \in calls, ReplayAnswer(c) PROVE IInv'
<1>1. c.by = "replay" /\ c.heard /\ calls' = calls \ {c}
      /\ UNCHANGED <<request, pending, rows, queued, settled, misread, kills>>
  BY DEF ReplayAnswer, IInv, CallInv
<1>2. Moved(c) /\ \A d \in calls' : d.by = "replay" => ~d.heard
  BY <1>1, ReplayCallMoves
<1>3. /\ replay' \in [pc : {"rest", "send", "wait", "remove"}, left : Seq(Numbers),
                      refused : SUBSET Numbers]
      /\ replay'.pc # "rest" => replay'.left # <<>>
      /\ Elems(replay'.left) \subseteq Elems(replay.left)
  <2>1. CASE replay' = [replay EXCEPT !.pc = "remove"]
    BY <1>1, <2>1, ReplayCall DEF IInv, TypeOK
  <2>2. CASE replay' = Onward(Tail(replay.left), replay.refused \union {c.n})
    <3> DEFINE left == Tail(replay.left)
               refused == replay.refused \union {c.n}
    <3>1. refused \in SUBSET Numbers
      BY DEF IInv, TypeOK
    <3>2. left \in Seq(Numbers) /\ Elems(left) \subseteq Elems(replay.left)
      BY <1>1, ReplayCall
    <3>3. replay' = Onward(left, refused)
      BY <2>2
    <3> HIDE DEF left, refused
    <3> QED
      BY <3>1, <3>2, <3>3, OnwardTyped
  <2> QED
    BY <2>1, <2>2 DEF ReplayAnswer
<1>4. TypeOK'
  BY <1>1, <1>2, <1>3, MovedTyped DEF IInv, TypeOK, Numbers
<1>5. CallInv'
  BY <1>1, <1>2, <1>3, MovedKeeps DEF IInv, TypeOK, CallInv
<1> QED
  BY <1>4, <1>5 DEF IInv

LEMMA ReplayLossStep == ASSUME IInv, NEW c \in calls, ReplayLoss(c) PROVE IInv'
<1>1. c.by = "replay" /\ c.heard /\ Abandon(c) /\ replay' = Resting
      /\ UNCHANGED <<request, pending, rows, queued, settled, misread, kills>>
  BY DEF ReplayLoss
<1>2. Moved(c) /\ \A d \in calls' : d.by = "replay" => ~d.heard
  <2>1. c \in Calls /\ calls \subseteq Calls
    BY DEF IInv, TypeOK
  <2>2. [c EXCEPT !.heard = FALSE].heard = FALSE
    BY <2>1 DEF Calls
  <2> QED
    BY <1>1, <2>1, <2>2, AbandonMoves, ReplayCallMoves DEF Becomes
<1>3. TypeOK'
  BY <1>1, <1>2, MovedTyped, RestingTyped DEF IInv, TypeOK, Numbers
<1>4. CallInv'
  BY <1>1, <1>2, MovedKeeps, RestingTyped DEF IInv, TypeOK
<1> QED
  BY <1>3, <1>4 DEF IInv

LEMMA RemovePendingStep == ASSUME IInv, RemovePending PROVE IInv'
<1>0. UNCHANGED <<request, calls, rows, queued, settled, misread, kills>>
  BY DEF RemovePending
<1>1. \A c \in calls : ~(c.by = "replay" /\ c.heard)
  BY DEF RemovePending, IInv, CallInv
<1>2. replay.left \in Seq(Numbers) /\ replay.left # <<>>
  BY DEF RemovePending, IInv, TypeOK, CallInv
<1>3. /\ Tail(replay.left) \in Seq(Numbers)
      /\ Elems(Tail(replay.left)) \subseteq Elems(replay.left)
  <2>1. Tail(replay.left) \in Seq(Numbers)
        /\ \A i \in DOMAIN Tail(replay.left) :
              i + 1 \in DOMAIN replay.left /\ Tail(replay.left)[i] = replay.left[i + 1]
    BY <1>2
  <2> QED
    BY <2>1 DEF Elems
<1>4. /\ replay' \in [pc : {"rest", "send", "wait", "remove"}, left : Seq(Numbers),
                      refused : SUBSET Numbers]
      /\ replay'.pc # "rest" => replay'.left # <<>>
      /\ Elems(replay'.left) \subseteq Elems(replay.left)
  <2>1. CASE replay' = Resting
    BY <2>1, RestingTyped
  <2>2. CASE replay' = Onward(Tail(replay.left), replay.refused)
    <3> DEFINE left == Tail(replay.left)
    <3>1. replay.refused \in SUBSET Numbers
      BY DEF IInv, TypeOK
    <3>2. left \in Seq(Numbers) /\ Elems(left) \subseteq Elems(replay.left)
      BY <1>3
    <3>3. replay' = Onward(left, replay.refused)
      BY <2>2
    <3> HIDE DEF left
    <3> QED
      BY <3>1, <3>2, <3>3, OnwardTyped
  <2> QED
    BY <2>1, <2>2 DEF RemovePending
<1>5. /\ pending' \in Seq(Numbers)
      /\ \A i, j \in DOMAIN pending' : pending'[i] = pending'[j] => i = j
      /\ Elems(pending') \subseteq Elems(pending)
  <2>1. CASE pending' = pending
    BY <2>1 DEF IInv, TypeOK
  <2>2. CASE \E i \in DOMAIN pending : pending' = Without(pending, i)
    <3>1. PICK i \in DOMAIN pending : pending' = Without(pending, i)
      BY <2>2
    <3>2. pending \in Seq(Numbers) /\ i \in Nat
      BY DEF IInv, TypeOK
    <3>3. /\ pending' \in Seq(Numbers)
          /\ \A j \in DOMAIN pending' :
                /\ j \in Nat
                /\ j < i => j \in DOMAIN pending /\ pending'[j] = pending[j]
                /\ j >= i => j + 1 \in DOMAIN pending /\ pending'[j] = pending[j + 1]
      BY <3>1, <3>2, WithoutItem
    <3>4. \A j, k \in DOMAIN pending' : pending'[j] = pending'[k] => j = k
      <4>1. ASSUME NEW j \in DOMAIN pending', NEW k \in DOMAIN pending',
                   pending'[j] = pending'[k]
            PROVE  j = k
        <5>1. \A m, n \in DOMAIN pending : pending[m] = pending[n] => m = n
          BY DEF IInv, TypeOK
        <5>2. j \in Nat /\ k \in Nat
          BY <3>3
        <5>3. CASE j < i /\ k < i
          BY <3>3, <4>1, <5>1, <5>3
        <5>4. CASE j < i /\ k >= i
          <6>1. j = k + 1
            BY <3>3, <4>1, <5>1, <5>4
          <6> QED
            BY <3>2, <5>2, <5>4, <6>1
        <5>5. CASE j >= i /\ k < i
          <6>1. j + 1 = k
            BY <3>3, <4>1, <5>1, <5>5
          <6> QED
            BY <3>2, <5>2, <5>5, <6>1
        <5>6. CASE j >= i /\ k >= i
          <6>1. j + 1 = k + 1
            BY <3>3, <4>1, <5>1, <5>6
          <6> QED
            BY <5>2, <6>1
        <5> QED
          BY <3>2, <5>2, <5>3, <5>4, <5>5, <5>6
      <4> QED
        BY <4>1
    <3>5. \A j \in DOMAIN pending' : pending'[j] \in Elems(pending)
      BY <3>2, <3>3 DEF Elems
    <3> QED
      BY <3>3, <3>4, <3>5 DEF Elems
  <2> QED
    BY <2>1, <2>2 DEF RemovePending
<1>6. TypeOK'
  BY <1>0, <1>4, <1>5 DEF IInv, TypeOK, Numbers
<1>7. CallInv'
  BY <1>0, <1>1, <1>4, <1>5 DEF IInv, CallInv, Finished
<1> QED
  BY <1>6, <1>7 DEF IInv

LEMMA KillStep == ASSUME IInv, Kill PROVE IInv'
<1>1. /\ UNCHANGED <<request, pending, rows, queued, settled, misread>>
      /\ replay' = Resting
      /\ kills' \in 0..MaxKills
  BY ReplayAssumption DEF Kill, IInv, TypeOK
<1>2. \A d \in calls' : d \in Calls /\ ~d.heard /\ d.n \in Numbers /\ ~Finished(d)
  <2>1. PICK S \in SUBSET {c \in calls : c.heard /\ ~Finished(c)} :
           calls' = Unheard \union {[c EXCEPT !.heard = FALSE] : c \in S}
    BY DEF Kill
  <2>2. \A c \in Unheard : c \in Calls /\ ~c.heard /\ c.n \in Numbers /\ ~Finished(c)
    BY DEF Unheard, IInv, TypeOK, CallInv
  <2>3. ASSUME NEW c \in S
        PROVE  /\ [c EXCEPT !.heard = FALSE] \in Calls /\ ~[c EXCEPT !.heard = FALSE].heard
               /\ [c EXCEPT !.heard = FALSE].n \in Numbers /\ ~Finished([c EXCEPT !.heard = FALSE])
    <3>1. c \in Calls /\ c.n \in Numbers /\ ~Finished(c)
      BY DEF IInv, TypeOK
    <3> QED
      BY <3>1 DEF Calls, Finished
  <2> QED
    BY <2>1, <2>2, <2>3
<1>3. TypeOK'
  BY <1>1, <1>2, RestingTyped DEF IInv, TypeOK, Numbers
<1>4. CallInv'
  BY <1>1, <1>2, RestingTyped DEF IInv, CallInv, Finished
<1> QED
  BY <1>3, <1>4 DEF IInv

LEMMA IStep == ASSUME IInv, [Next]_vars PROVE IInv'
<1>1. CASE UNCHANGED vars
  BY <1>1 DEF vars, IInv, TypeOK, CallInv, Numbers, Finished
<1>2. ASSUME NEW c \in calls, Serve(c) \/ ServerFails(c) PROVE IInv'
  BY <1>2, ServerStepKeeps, RowsTyped DEF IInv
<1> QED
  BY <1>1, <1>2, MutateStep, PageAnswerStep, PageLossStep, StartReplayStep, SendNextStep,
     ReplayAnswerStep, ReplayLossStep, RemovePendingStep, KillStep DEF Next

LEMMA IInit == ASSUME Init PROVE IInv
<1>1. TypeOK
  BY ReplayAssumption, RestingTyped DEF Init, TypeOK, Numbers
<1>2. CallInv
  BY RestingTyped DEF Init, CallInv, Elems
<1> QED
  BY <1>1, <1>2 DEF IInv

LEMMA ICorrect == Spec => []IInv
BY IInit, IStep, PTL DEF Spec

\* Types; the queue never has the same mutation twice.
THEOREM TypeCorrect == Spec => []TypeOK
<1>1. IInv => TypeOK
  BY DEF IInv
<1> QED
  BY <1>1, ICorrect, PTL

-------------------------------------------------------------------------------
(* One todo of a create. *)

\* A step leaves a row, marks it as deleted, changes what it says under the same
\* key, or writes an unused one under a key no row has.
LEMMA RowStep ==
    ASSUME IInv, NoDuplicateRow, [Next]_vars PROVE NoDuplicateRow'
<1>0. rows \in [Rows -> RowValues \union {Unused, Deleted}] /\ calls \subseteq Calls
  BY DEF IInv, TypeOK
<1>1. CASE UNCHANGED rows
  BY <1>1 DEF NoDuplicateRow, Live
<1>2. ASSUME NEW c \in calls, ServeCreate(c) PROVE NoDuplicateRow'
  <2>1. PICK r \in Rows : rows' = [rows EXCEPT ![r] = [key |-> c.n, completed |-> FALSE]]
    BY <1>2 DEF ServeCreate
  <2>2. \A s \in Rows : (s # r /\ Live(s)') => Live(s) /\ rows'[s] = rows[s] /\ rows'[s].key # c.n
    BY <1>0, <1>2, <2>1 DEF ServeCreate, KeyTaken, Live
  <2>3. rows'[r].key = c.n
    BY <1>0, <2>1
  <2> QED
    BY <2>2, <2>3 DEF NoDuplicateRow
<1>3. ASSUME NEW c \in calls, ServeToggleWrite(c) PROVE NoDuplicateRow'
  <2> DEFINE t == request[c.n].row
  <2>1. rows' = [rows EXCEPT ![t].completed = ~c.was] /\ Live(t)
    BY <1>3 DEF ServeToggleWrite
  <2>2. ASSUME NEW s \in Rows, Live(s)' PROVE Live(s) /\ rows'[s].key = rows[s].key
    <3>1. CASE s = t
      <4>1. rows[t] \in RowValues
        BY <1>0, <2>1, <3>1 DEF Live
      <4>2. rows'[t] = [rows[t] EXCEPT !.completed = ~c.was]
        BY <1>0, <2>1, <3>1
      <4> QED
        BY <2>1, <3>1, <4>1, <4>2 DEF RowValues
    <3>2. CASE s # t
      BY <1>0, <2>1, <2>2, <3>2 DEF Live
    <3> QED
      BY <3>1, <3>2
  <2> QED
    BY <2>2 DEF NoDuplicateRow
<1>4. ASSUME \A r \in Rows : rows'[r] = rows[r] \/ rows'[r] = Deleted PROVE NoDuplicateRow'
  BY <1>4 DEF NoDuplicateRow, Live
<1>5. ASSUME NEW c \in calls, ServeDelete(c) \/ ServeClear(c) PROVE NoDuplicateRow'
  BY <1>0, <1>4, <1>5 DEF ServeDelete, ServeClear
<1>6. ASSUME NEW c \in calls, ServeMissing(c) \/ ServeToggleRead(c) \/ ServerFails(c)
      PROVE  NoDuplicateRow'
  BY <1>1, <1>6 DEF ServeMissing, ServeToggleRead, ServerFails
<1>7. ASSUME \/ \E r \in Requests : Mutate(r)
             \/ StartReplay \/ SendNext \/ RemovePending \/ Kill
             \/ \E c \in calls :
                   PageAnswer(c) \/ PageLoss(c) \/ ReplayAnswer(c) \/ ReplayLoss(c)
             \/ UNCHANGED vars
      PROVE  NoDuplicateRow'
  BY <1>1, <1>7 DEF Mutate, StartReplay, SendNext, RemovePending, Kill, PageAnswer, PageLoss,
     ReplayAnswer, ReplayLoss, vars
<1> QED
  BY <1>2, <1>3, <1>5, <1>6, <1>7 DEF Next, Serve

\* However often a create is sent (page, replays, calls nobody waits for any
\* more), at most one todo of it is there: the unique index on the key.
THEOREM OneRowPerCreate == Spec => []NoDuplicateRow
<1>1. Init => NoDuplicateRow
  BY DEF Init, NoDuplicateRow, Live
<1>2. IInv /\ NoDuplicateRow /\ [Next]_vars => NoDuplicateRow'
  BY RowStep
<1> QED
  BY <1>1, <1>2, ICorrect, PTL DEF Spec

-------------------------------------------------------------------------------
(* What left the queue is settled, or was misread. *)

SettledInv ==
    /\ \A c \in calls :
          (c.by = "replay" /\ c.pc \in {"ok", "missing"}) => c.n \in settled \union misread
    /\ replay.pc = "remove" => Head(replay.left) \in settled \union misread
    /\ NothingQueuedIsLost

LEMMA SettledStep ==
    ASSUME IInv, SettledInv, [Next]_vars PROVE SettledInv'
<1>0. calls \subseteq Calls /\ pending \in Seq(Numbers)
  BY DEF IInv, TypeOK
<1>1. CASE UNCHANGED vars
  BY <1>1 DEF SettledInv, NothingQueuedIsLost, vars
<1>2. ASSUME NEW r \in Requests, Mutate(r) PROVE SettledInv'
  BY <1>2 DEF Mutate, Call, SettledInv, NothingQueuedIsLost
<1>3. CASE StartReplay
  BY <1>3 DEF StartReplay, SettledInv, NothingQueuedIsLost
<1>4. CASE SendNext
  <2>1. replay'.pc = "wait"
    BY <1>4 DEF SendNext, IInv, TypeOK
  <2> QED
    BY <1>4, <2>1 DEF SendNext, Call, SettledInv, NothingQueuedIsLost
<1>5. CASE RemovePending
  <2>1. replay'.pc # "remove"
    BY <1>5 DEF RemovePending, Onward, Resting
  <2>2. queued \subseteq settled \union misread \union Elems(pending')
    <3>1. CASE pending' = pending
      BY <3>1 DEF SettledInv, NothingQueuedIsLost
    <3>2. ASSUME NEW i \in DOMAIN pending, pending[i] = Head(replay.left),
                 pending' = Without(pending, i)
          PROVE  queued \subseteq settled \union misread \union Elems(pending')
      <4>1. Elems(pending) \subseteq Elems(pending') \union {pending[i]}
        BY <1>0, <3>2, WithoutItem
      <4> QED
        BY <1>5, <3>2, <4>1 DEF RemovePending, SettledInv, NothingQueuedIsLost
    <3> QED
      BY <1>5, <3>1, <3>2 DEF RemovePending
  <2> QED
    BY <1>5, <2>1, <2>2 DEF RemovePending, SettledInv, NothingQueuedIsLost
<1>6. CASE Kill
  <2>1. replay'.pc # "remove"
    BY <1>6 DEF Kill, Resting
  <2>2. ASSUME NEW d \in calls' PROVE d.pc \notin {"ok", "missing"}
    <3>1. PICK S \in SUBSET {c \in calls : c.heard /\ ~Finished(c)} :
             calls' = Unheard \union {[c EXCEPT !.heard = FALSE] : c \in S}
      BY <1>6 DEF Kill
    <3>2. CASE d \in Unheard
      BY <3>2 DEF Unheard, IInv, CallInv, Finished
    <3>3. CASE \E c \in S : d = [c EXCEPT !.heard = FALSE]
      <4>1. PICK c \in S : d = [c EXCEPT !.heard = FALSE]
        BY <3>3
      <4>2. c \in Calls /\ ~Finished(c)
        BY <1>0
      <4> QED
        BY <4>1, <4>2 DEF Calls, Finished
    <3> QED
      BY <3>1, <3>2, <3>3
  <2> QED
    BY <1>6, <2>1, <2>2 DEF Kill, SettledInv, NothingQueuedIsLost
<1>7. ASSUME NEW c \in calls, PageAnswer(c) PROVE SettledInv'
  BY <1>7 DEF PageAnswer, SettledInv, NothingQueuedIsLost
<1>8. ASSUME NEW c \in calls, Abandon(c), UNCHANGED <<settled, misread>>
      PROVE  \A d \in calls' :
                (d.by = "replay" /\ d.pc \in {"ok", "missing"}) => d.n \in settled' \union misread'
  <2>1. c \in Calls
    BY <1>0
  <2>2. CASE calls' = calls \ {c}
    BY <1>8, <2>2 DEF SettledInv
  <2>3. CASE ~Finished(c) /\ calls' = (calls \ {c}) \union {[c EXCEPT !.heard = FALSE]}
    <3>1. /\ [c EXCEPT !.heard = FALSE].pc = c.pc /\ [c EXCEPT !.heard = FALSE].n = c.n
          /\ [c EXCEPT !.heard = FALSE].by = c.by
      BY <2>1 DEF Calls
    <3> QED
      BY <1>8, <2>3, <3>1 DEF SettledInv, Finished
  <2> QED
    BY <1>8, <2>2, <2>3 DEF Abandon
<1>9. ASSUME NEW c \in calls, PageLoss(c) PROVE SettledInv'
  <2>1. queued' \subseteq settled' \union misread' \union Elems(pending')
    <3>1. CASE UNCHANGED <<pending, queued>>
      BY <1>9, <3>1 DEF PageLoss, SettledInv, NothingQueuedIsLost
    <3>2. CASE pending' = Append(pending, c.n) /\ queued' = queued \union {c.n}
      <4>1. c.n \in Numbers
        BY DEF IInv, TypeOK
      <4>2. /\ \A i \in DOMAIN pending : i \in DOMAIN pending' /\ pending'[i] = pending[i]
            /\ Len(pending) + 1 \in DOMAIN pending' /\ pending'[Len(pending) + 1] = c.n
        BY <1>0, <3>2, <4>1
      <4>3. Elems(pending) \union {c.n} \subseteq Elems(pending')
        BY <4>2 DEF Elems
      <4> QED
        BY <1>9, <3>2, <4>3 DEF PageLoss, SettledInv, NothingQueuedIsLost
    <3> QED
      BY <1>9, <3>1, <3>2 DEF PageLoss
  <2> QED
    BY <1>8, <1>9, <2>1 DEF PageLoss, SettledInv, NothingQueuedIsLost
<1>10. ASSUME NEW c \in calls, ReplayAnswer(c) PROVE SettledInv'
  <2>1. replay'.pc = "remove" => Head(replay'.left) \in settled \union misread
    <3>1. CASE c.pc \in {"ok", "missing"}
      <4>1. c.n = Head(replay.left) /\ replay'.left = replay.left
        BY <1>10, <3>1 DEF ReplayAnswer, IInv, TypeOK, CallInv
      <4> QED
        BY <1>10, <3>1, <4>1 DEF ReplayAnswer, SettledInv
    <3>2. CASE c.pc \notin {"ok", "missing"}
      BY <1>10, <3>2 DEF ReplayAnswer, Onward, Resting
    <3> QED
      BY <3>1, <3>2
  <2> QED
    BY <1>10, <2>1 DEF ReplayAnswer, SettledInv, NothingQueuedIsLost
<1>11. ASSUME NEW c \in calls, ReplayLoss(c) PROVE SettledInv'
  BY <1>8, <1>11 DEF ReplayLoss, Resting, SettledInv, NothingQueuedIsLost
<1>12. ASSUME NEW c \in calls, Serve(c) \/ ServerFails(c) PROVE SettledInv'
  <2>1. Served(c)
    BY <1>12, ServerMoves DEF IInv
  <2> QED
    BY <2>1 DEF Served, SettledInv, NothingQueuedIsLost
<1> QED
  BY <1>1, <1>2, <1>3, <1>4, <1>5, <1>6, <1>7, <1>9, <1>10, <1>11, <1>12 DEF Next

\* A queued mutation leaves the queue only after the server ran it or found its
\* todo gone, or a replay's failed read of the todo was taken for that.
THEOREM QueuedIsKept == Spec => []NothingQueuedIsLost
<1>1. Init => SettledInv
  BY RestingTyped DEF Init, SettledInv, NothingQueuedIsLost
<1>2. IInv /\ SettledInv /\ [Next]_vars => SettledInv'
  BY SettledStep
<1>3. SettledInv => NothingQueuedIsLost
  BY DEF SettledInv
<1> QED
  BY <1>1, <1>2, <1>3, ICorrect, PTL DEF Spec

-------------------------------------------------------------------------------
(* Replays follow the queue. *)

\* What stands in the queue before an item that the replay still has to send was
\* refused in this replay, or is still to be sent before it.
OrderInv ==
    \A i, j \in DOMAIN pending, b \in DOMAIN replay.left :
        (i < j /\ pending[j] = replay.left[b]) =>
            \/ pending[i] \in replay.refused
            \/ \E a \in DOMAIN replay.left : a < b /\ replay.left[a] = pending[i]

LEMMA OrderGivesHead == ASSUME IInv, OrderInv PROVE ReplayInOrder
<1> SUFFICES ASSUME replay.pc \in {"send", "wait"},
                    NEW i \in DOMAIN pending, NEW j \in DOMAIN pending,
                    i < j, pending[j] = Head(replay.left)
             PROVE  pending[i] \in replay.refused
  BY DEF ReplayInOrder
<1>1. replay.left \in Seq(Numbers) /\ replay.left # <<>>
  BY DEF IInv, TypeOK, CallInv
<1>2. 1 \in DOMAIN replay.left /\ replay.left[1] = Head(replay.left)
  BY <1>1
<1>3. \A a \in DOMAIN replay.left : ~(a < 1)
  BY <1>1
<1> QED
  BY <1>2, <1>3 DEF OrderInv

\* A replay that goes on to the next item keeps the order: the item in turn was
\* refused, or is not in the queue any more.
LEMMA OnwardKeepsOrder ==
    ASSUME IInv, OrderInv, replay.left # <<>>, NEW refused \in SUBSET Numbers,
           replay.refused \subseteq refused,
           \A i \in DOMAIN pending : pending[i] = Head(replay.left) => pending[i] \in refused,
           UNCHANGED pending, replay' = Onward(Tail(replay.left), refused)
    PROVE  OrderInv'
<1> DEFINE left == Tail(replay.left)
<1>1. replay.left \in Seq(Numbers)
  BY DEF IInv, TypeOK
<1>2. left \in Seq(Numbers) /\ Head(replay.left) = replay.left[1]
      /\ \A b \in DOMAIN left : b \in Nat /\ b + 1 \in DOMAIN replay.left /\ left[b] = replay.left[b + 1]
  BY <1>1
<1>3. \A a \in DOMAIN replay.left :
         a \in Nat /\ (a = 1 \/ (a - 1 \in DOMAIN left /\ left[a - 1] = replay.left[a]))
  BY <1>1
<1>4. replay'.left = left /\ (left # <<>> => replay'.refused = refused)
  BY DEF Onward, Resting
<1> HIDE DEF left
<1> SUFFICES ASSUME NEW i \in DOMAIN pending, NEW j \in DOMAIN pending, NEW b \in DOMAIN left,
                    i < j, pending[j] = left[b]
             PROVE  \/ pending[i] \in refused
                    \/ \E a \in DOMAIN left : a < b /\ left[a] = pending[i]
  BY <1>2, <1>4 DEF OrderInv
<1>5. CASE pending[i] \in replay.refused
  BY <1>5
<1>6. ASSUME NEW a \in DOMAIN replay.left, a < b + 1, replay.left[a] = pending[i]
      PROVE  \/ pending[i] \in refused
             \/ \E d \in DOMAIN left : d < b /\ left[d] = pending[i]
  <2>1. CASE a = 1
    BY <1>2, <1>6, <2>1
  <2>2. CASE a # 1
    <3>1. a - 1 \in DOMAIN left /\ left[a - 1] = pending[i] /\ a - 1 < b
      BY <1>2, <1>3, <1>6, <2>2
    <3> QED
      BY <3>1
  <2> QED
    BY <2>1, <2>2
<1>7. b + 1 \in DOMAIN replay.left /\ pending[j] = replay.left[b + 1]
  BY <1>2
<1> QED
  BY <1>5, <1>6, <1>7 DEF OrderInv

\* The replay that takes its item out of the queue and goes on.
LEMMA RemoveKeepsOrder ==
    ASSUME IInv, OrderInv, replay.left # <<>>,
           NEW k \in DOMAIN pending, pending[k] = Head(replay.left),
           pending' = Without(pending, k),
           replay' = Onward(Tail(replay.left), replay.refused)
    PROVE  OrderInv'
<1> DEFINE left == Tail(replay.left)
           Old(i) == IF i < k THEN i ELSE i + 1
<1>1. replay.left \in Seq(Numbers) /\ pending \in Seq(Numbers) /\ replay.refused \in SUBSET Numbers
  BY DEF IInv, TypeOK
<1>2. left \in Seq(Numbers) /\ Head(replay.left) = replay.left[1]
      /\ \A b \in DOMAIN left : b \in Nat /\ b + 1 \in DOMAIN replay.left /\ left[b] = replay.left[b + 1]
  BY <1>1
<1>3. \A a \in DOMAIN replay.left :
         a \in Nat /\ (a = 1 \/ (a - 1 \in DOMAIN left /\ left[a - 1] = replay.left[a]))
  BY <1>1
<1>4. replay'.left = left /\ (left # <<>> => replay'.refused = replay.refused)
  BY DEF Onward, Resting
<1>5. pending' \in Seq(Numbers) /\ k \in Nat
  BY <1>1, WithoutItem
<1>6. \A i \in DOMAIN pending' :
         i \in Nat /\ Old(i) \in DOMAIN pending /\ Old(i) # k /\ pending'[i] = pending[Old(i)]
  <2>1. ASSUME NEW i \in DOMAIN pending' PROVE i \in Nat
    BY <1>5
  <2>2. ASSUME NEW i \in DOMAIN pending'
        PROVE  /\ i < k => i \in DOMAIN pending /\ pending'[i] = pending[i]
               /\ i >= k => i + 1 \in DOMAIN pending /\ pending'[i] = pending[i + 1]
    BY <1>1, WithoutItem
  <2> QED
    BY <1>5, <2>1, <2>2
<1>7. \A i, j \in DOMAIN pending' : i < j => Old(i) < Old(j)
  BY <1>5, <1>6
<1>8. \A i \in DOMAIN pending' : pending'[i] # Head(replay.left)
  BY <1>6 DEF IInv, TypeOK
<1> HIDE DEF left, Old
<1> SUFFICES ASSUME NEW i \in DOMAIN pending', NEW j \in DOMAIN pending', NEW b \in DOMAIN left,
                    i < j, pending'[j] = left[b]
             PROVE  \/ pending'[i] \in replay.refused
                    \/ \E a \in DOMAIN left : a < b /\ left[a] = pending'[i]
  BY <1>2, <1>4 DEF OrderInv
<1>9. \/ pending'[i] \in replay.refused
      \/ \E a \in DOMAIN replay.left : a < b + 1 /\ replay.left[a] = pending'[i]
  <2>1. b + 1 \in DOMAIN replay.left /\ pending[Old(j)] = replay.left[b + 1]
    BY <1>2, <1>6
  <2>2. Old(i) \in DOMAIN pending /\ Old(j) \in DOMAIN pending /\ Old(i) < Old(j)
        /\ pending'[i] = pending[Old(i)]
    BY <1>6, <1>7
  <2> QED
    BY <2>1, <2>2 DEF OrderInv
<1>10. ASSUME NEW a \in DOMAIN replay.left, a < b + 1, replay.left[a] = pending'[i]
       PROVE  \E d \in DOMAIN left : d < b /\ left[d] = pending'[i]
  <2>1. a # 1
    BY <1>2, <1>8, <1>10
  <2>2. a - 1 \in DOMAIN left /\ left[a - 1] = pending'[i] /\ a - 1 < b
    BY <1>2, <1>3, <1>10, <2>1
  <2> QED
    BY <2>2
<1> QED
  BY <1>9, <1>10

LEMMA OrderStep == ASSUME IInv, OrderInv, [Next]_vars PROVE OrderInv'
<1>0. pending \in Seq(Numbers) /\ replay.left \in Seq(Numbers)
  BY DEF IInv, TypeOK
<1>1. ASSUME UNCHANGED pending, replay'.left = replay.left, replay'.refused = replay.refused
      PROVE  OrderInv'
  BY <1>1 DEF OrderInv
<1>2. ASSUME replay' = Resting PROVE OrderInv'
  BY <1>2, RestingTyped DEF OrderInv
<1>3. CASE StartReplay
  <2>1. UNCHANGED pending /\ replay'.left = pending
    BY <1>3 DEF StartReplay
  <2>2. \A i, j \in DOMAIN pending : pending[i] = pending[j] => i = j
    BY DEF IInv, TypeOK
  <2> QED
    BY <2>1, <2>2 DEF OrderInv
<1>4. CASE SendNext
  BY <1>1, <1>4 DEF SendNext, IInv, TypeOK
<1>5. CASE RemovePending
  <2>1. replay.left # <<>>
    BY <1>5 DEF RemovePending, IInv, CallInv
  <2> QED
    BY <1>2, <1>5, <2>1, RemoveKeepsOrder DEF RemovePending
<1>6. ASSUME NEW c \in calls, PageLoss(c) PROVE OrderInv'
  <2>1. replay' = replay
    BY <1>6 DEF PageLoss
  <2>2. CASE UNCHANGED pending
    BY <1>1, <2>1, <2>2
  <2>3. CASE pending' = Append(pending, c.n)
    <3>1. c.n \in Numbers /\ \A b \in DOMAIN replay.left : replay.left[b] # c.n
      BY <1>6 DEF PageLoss, IInv, TypeOK, CallInv, Elems
    <3>2. \A i \in DOMAIN pending' :
             \/ i \in DOMAIN pending /\ pending'[i] = pending[i]
             \/ i = Len(pending) + 1 /\ pending'[i] = c.n
      BY <1>0, <2>3, <3>1
    <3>3. \A i \in DOMAIN pending : i \in Nat /\ i <= Len(pending)
      BY <1>0
    <3>4. ASSUME NEW i \in DOMAIN pending', NEW j \in DOMAIN pending', NEW b \in DOMAIN replay.left,
                 i < j, pending'[j] = replay.left[b]
          PROVE  i \in DOMAIN pending /\ j \in DOMAIN pending
                 /\ pending'[i] = pending[i] /\ pending'[j] = pending[j]
      <4>1. j \in DOMAIN pending /\ pending'[j] = pending[j]
        BY <3>1, <3>2, <3>4
      <4>2. Len(pending) \in Nat
        BY <1>0
      <4> QED
        BY <3>2, <3>3, <3>4, <4>1, <4>2
    <3> QED
      BY <2>1, <3>4 DEF OrderInv
  <2> QED
    BY <1>6, <2>2, <2>3 DEF PageLoss
<1>7. ASSUME NEW c \in calls, ReplayAnswer(c) PROVE OrderInv'
  <2>1. c.heard /\ c.by = "replay" /\ UNCHANGED pending
    BY <1>7 DEF ReplayAnswer, IInv, CallInv
  <2>2. c.n = Head(replay.left) /\ replay.left # <<>>
    BY <2>1, ReplayCall
  <2>3. CASE replay' = [replay EXCEPT !.pc = "remove"]
    BY <1>1, <2>1, <2>3 DEF IInv, TypeOK
  <2>4. CASE replay' = Onward(Tail(replay.left), replay.refused \union {c.n})
    <3>1. replay.refused \union {c.n} \in SUBSET Numbers
      BY DEF IInv, TypeOK
    <3> QED
      BY <2>1, <2>2, <2>4, <3>1, OnwardKeepsOrder
  <2> QED
    BY <1>7, <2>3, <2>4 DEF ReplayAnswer
<1>8. CASE Kill \/ \E c \in calls : ReplayLoss(c)
  BY <1>2, <1>8 DEF Kill, ReplayLoss
<1>9. CASE UNCHANGED <<pending, replay>>
  BY <1>1, <1>9
<1>10. ASSUME NEW c \in calls, Serve(c) \/ ServerFails(c) PROVE OrderInv'
  BY <1>9, <1>10, ServerMoves DEF IInv, Served
<1>11. CASE UNCHANGED vars \/ (\E r \in Requests : Mutate(r)) \/ (\E c \in calls : PageAnswer(c))
  BY <1>9, <1>11 DEF vars, Mutate, PageAnswer
<1> QED
  BY <1>3, <1>4, <1>5, <1>6, <1>7, <1>8, <1>10, <1>11 DEF Next

\* A replay never sends an item before another that stands before it in the
\* queue, unless the server refused that one in this replay.
THEOREM ReplaysFollowQueue == Spec => []ReplayInOrder
<1>1. Init => OrderInv
  BY DEF Init, OrderInv
<1>2. IInv /\ OrderInv /\ [Next]_vars => OrderInv'
  BY OrderStep
<1>3. IInv /\ OrderInv => ReplayInOrder
  BY OrderGivesHead
<1> QED
  BY <1>1, <1>2, <1>3, ICorrect, PTL DEF Spec

-------------------------------------------------------------------------------
(* Replication of the records.  What the stream and the handlers under way   *)
(* hold of a todo.                                                           *)

Creates(t) == Positions("create", t)
Deletes(t) == Positions("delete", t)
Toggles(t) == Positions("toggle", t)

NoClear == \A i \in DOMAIN log : log[i].op # "clear_completed"

\* A handler of s has written the operation, and is about to publish it.
Unsent(s, op, t) ==
    \E j \in jobs : j.site = s /\ j.pc = "publish" /\ j.msg.op = op /\ j.msg.todo = t

UnsentClear(s) == \E j \in jobs : j.site = s /\ j.msg.op = "clear_completed"

-------------------------------------------------------------------------------
(* The invariant. *)

\* Requests are numbered, and only toggles read before they write.
JobsInv ==
    \A j \in jobs :
        /\ j.n <= ops
        /\ j.pc = "read" => j.msg.op = "toggle"

\* Every todo named anywhere was created.
NamesUsed ==
    /\ \A i \in DOMAIN log : log[i].op # "clear_completed" => log[i].todo \in used
    /\ \A j \in jobs : j.msg.op # "clear_completed" => j.msg.todo \in used
    /\ \A s \in Sites, t \in Todos : records[s][t] # None => t \in used

\* A todo is created once.
CreatedOnce ==
    /\ \A t \in Todos : \A c, d \in Creates(t) : c = d
    /\ \A j \in jobs : j.msg.op = "create" =>
          /\ Creates(j.msg.todo) = {}
          /\ \A k \in jobs : k.msg.op = "create" /\ k.msg.todo = j.msg.todo => k = j

\* Only a message about todos that are troubled on the site comes again.
Smooth ==
    \A s \in Sites : \A p \in unacked[s] : \A t \in About(log[p]) : <<s, t>> \in troubled

\* A site has a record because the stream holds the creation, or its own
\* handler is about to publish it.
PresentIsCreated ==
    \A s \in Sites, t \in Todos \ local :
        records[s][t] # None => Creates(t) # {} \/ Unsent(s, "create", t)

\* A site that has passed the creation lacks the record because of a deletion:
\* one in the stream after it, or one that it is about to publish itself.
MissingIsDeleted ==
    NoClear => \A s \in Sites, t \in Todos \ local : <<s, t>> \notin troubled =>
        \A c \in Creates(t) : c <= at[s] /\ records[s][t] = None =>
            \/ Unsent(s, "delete", t) \/ UnsentClear(s)
            \/ \E d \in Deletes(t) : c < d

\* ... and a site that has passed such a deletion lacks it.
DeletedIsMissing ==
    \A s \in Sites, t \in Todos : <<s, t>> \notin troubled =>
        \A c \in Creates(t), d \in Deletes(t) : c < d /\ d <= at[s] => records[s][t] = None

\* What is completed was toggled, in the stream or by a handler of the site.
CompletedIsToggled ==
    \A s \in Sites, t \in Todos \ local :
        records[s][t] # None /\ records[s][t].completed = TRUE =>
            Toggles(t) # {} \/ Unsent(s, "toggle", t)

\* i is the last toggle of t in the stream.
LastToggle(t, i) == i \in Toggles(t) /\ \A j \in Toggles(t) : j <= i

\* Past the last toggle of a todo in the stream a site has what it says,
\* unless it has written a later one.
LastToggleCounts ==
    NoClear => \A s \in Sites, t \in Todos \ local : <<s, t>> \notin troubled =>
        (records[s][t] # None /\ InOrder(t) /\ ~Unsent(s, "toggle", t) =>
            \A i : LastToggle(t, i) /\ i <= at[s] => records[s][t].completed = log[i].val)

CrudInv ==
    /\ CrudTypeOK
    /\ JobsInv
    /\ NamesUsed
    /\ CreatedOnce
    /\ Smooth
    /\ PresentIsCreated
    /\ MissingIsDeleted
    /\ DeletedIsMissing
    /\ CompletedIsToggled
    /\ LastToggleCounts

-------------------------------------------------------------------------------
(* Messages, records and the stream. *)

LEMMA MessageFacts ==
    ASSUME NEW m \in Messages
    PROVE  /\ m.op \in {"create", "delete", "toggle", "clear_completed"}
           /\ m.op # "clear_completed" => m.todo \in Todos
           /\ m.op = "toggle" => m.val \in BOOLEAN
           /\ About(m) \subseteq Todos
           /\ \A list : KeptOut(list, m) \subseteq About(m)
BY DEF Messages, About, KeptOut

LEMMA RecordFacts ==
    /\ None \in RecordValues
    /\ \A b, k \in BOOLEAN :
          /\ Record(b, k) \in RecordValues
          /\ Record(b, k) # None
          /\ Record(b, k).completed = b
    /\ \A r \in RecordValues, b \in BOOLEAN : r # None =>
          /\ [r EXCEPT !.completed = b] \in RecordValues
          /\ [r EXCEPT !.completed = b] # None
          /\ [r EXCEPT !.completed = b].completed = b
          /\ r.completed \in BOOLEAN
BY DEF RecordValues, Record, None

LEMMA StreamFacts ==
    ASSUME CrudTypeOK
    PROVE  /\ Len(log) \in Nat
           /\ DOMAIN log = 1..Len(log)
           /\ \A i \in 1..Len(log) : log[i] \in Messages
           /\ \A s \in Sites : at[s] \in 0..Len(log)
BY DEF CrudTypeOK

LEMMA PositionFacts ==
    ASSUME CrudTypeOK, NEW op, NEW t
    PROVE  /\ Positions(op, t) \subseteq 1..Len(log)
           /\ \A i \in Positions(op, t) : log[i].op = op /\ log[i].todo = t
BY StreamFacts DEF Positions

\* What is clear of a step that leaves the stream alone.
LEMMA SameStream ==
    ASSUME UNCHANGED log
    PROVE  /\ \A op, t : Positions(op, t)' = Positions(op, t)
           /\ NoClear' = NoClear
           /\ \A t : InOrder(t)' = InOrder(t)
           /\ \A t, i : LastToggle(t, i)' = LastToggle(t, i)
           /\ \A t : Creates(t)' = Creates(t) /\ Deletes(t)' = Deletes(t) /\ Toggles(t)' = Toggles(t)
BY DEF Positions, NoClear, InOrder, LastToggle, Creates, Deletes, Toggles

\* What clearing does to a list.
LEMMA ClearedFacts ==
    ASSUME NEW list \in [Todos -> RecordValues]
    PROVE  /\ Cleared(list) \in [Todos -> RecordValues]
           /\ \A t \in Todos : Cleared(list)[t] # None => Cleared(list)[t] = list[t]
<1>1. \A t \in Todos : Cleared(list)[t] = IF list[t] # None /\ list[t].completed THEN None ELSE list[t]
  BY DEF Cleared
<1>2. Cleared(list) \in [Todos -> RecordValues]
  BY <1>1, RecordFacts DEF Cleared
<1> QED BY <1>1, <1>2

\* What message m makes of a record of t.
Effect(m, t, old, new) ==
    /\ m.op = "delete" /\ m.todo = t => new = None
    /\ old # None /\ new = None =>
           (m.op = "delete" /\ m.todo = t) \/ m.op = "clear_completed"
    /\ old = None /\ new # None =>
           m.op = "create" /\ m.todo = t /\ new.completed = FALSE
    /\ old # None /\ new # None =>
           IF m.op = "toggle" /\ m.todo = t THEN new.completed = m.val ELSE new = old

LEMMA AppliedFacts ==
    ASSUME NEW list \in [Todos -> RecordValues], NEW m \in Messages
    PROVE  /\ Applied(list, m) \in [Todos -> RecordValues]
           /\ \A t \in Todos : Effect(m, t, list[t], Applied(list, m)[t])
<1>1. CASE m.op = "create"
  <2>1. Applied(list, m) = IF Refused(list, m.todo) THEN list
                           ELSE [list EXCEPT ![m.todo] = Record(FALSE, TRUE)]
    BY <1>1 DEF Applied
  <2>2. m.todo \in Todos
    BY <1>1, MessageFacts
  <2>3. list[m.todo] # None => Refused(list, m.todo)
    BY DEF Refused
  <2>5. Record(FALSE, TRUE) \in RecordValues /\ Record(FALSE, TRUE) # None
        /\ Record(FALSE, TRUE).completed = FALSE
    BY RecordFacts
  <2>6. CASE Refused(list, m.todo)
    <3>1. Applied(list, m) = list
      BY <2>1, <2>6
    <3> QED BY <1>1, <3>1 DEF Effect
  <2>7. CASE ~Refused(list, m.todo)
    <3>1. Applied(list, m) = [list EXCEPT ![m.todo] = Record(FALSE, TRUE)]
      BY <2>1, <2>7
    <3>2. list[m.todo] = None
      BY <2>3, <2>7
    <3>3. \A t \in Todos : Applied(list, m)[t] = IF t = m.todo THEN Record(FALSE, TRUE) ELSE list[t]
      BY <2>2, <3>1
    <3>4. Applied(list, m) \in [Todos -> RecordValues]
      BY <2>5, <3>1
    <3> HIDE DEF Record
    <3> QED BY <1>1, <2>5, <3>2, <3>3, <3>4 DEF Effect
  <2> QED BY <2>6, <2>7
<1>2. CASE m.op = "toggle"
  <2>1. Applied(list, m) = IF list[m.todo] = None THEN list
                           ELSE [list EXCEPT ![m.todo].completed = m.val]
    BY <1>2 DEF Applied
  <2>2. m.todo \in Todos /\ m.val \in BOOLEAN
    BY <1>2, MessageFacts
  <2>3. CASE list[m.todo] = None
    <3>1. Applied(list, m) = list
      BY <2>1, <2>3
    <3> QED BY <1>2, <2>3, <3>1 DEF Effect
  <2>4. CASE list[m.todo] # None
    <3> DEFINE new == [list[m.todo] EXCEPT !.completed = m.val]
    <3>1. new \in RecordValues /\ new # None /\ new.completed = m.val
      BY <2>2, <2>4, RecordFacts
    <3>2. Applied(list, m) = [list EXCEPT ![m.todo] = new]
      BY <2>1, <2>4
    <3> HIDE DEF new
    <3>3. \A t \in Todos : Applied(list, m)[t] = IF t = m.todo THEN new ELSE list[t]
      BY <2>2, <3>2
    <3>4. Applied(list, m) \in [Todos -> RecordValues]
      BY <3>1, <3>2
    <3> QED BY <1>2, <2>4, <3>1, <3>3, <3>4 DEF Effect
  <2> QED BY <2>3, <2>4
<1>3. CASE m.op = "delete"
  <2>1. Applied(list, m) = [list EXCEPT ![m.todo] = None]
    BY <1>3 DEF Applied
  <2>2. m.todo \in Todos
    BY <1>3, MessageFacts
  <2>3. \A t \in Todos : Applied(list, m)[t] = IF t = m.todo THEN None ELSE list[t]
    BY <2>1, <2>2
  <2>4. None \in RecordValues
    BY RecordFacts
  <2>5. Applied(list, m) \in [Todos -> RecordValues]
    BY <2>1, <2>4
  <2> QED BY <1>3, <2>3, <2>5 DEF Effect
<1>4. CASE m.op = "clear_completed"
  <2>1. Applied(list, m) = Cleared(list)
    BY <1>4 DEF Applied
  <2> QED BY <1>4, <2>1, ClearedFacts DEF Effect
<1> QED BY <1>1, <1>2, <1>3, <1>4, MessageFacts

-------------------------------------------------------------------------------
(* Types. *)

LEMMA RequestTypes ==
    ASSUME CrudTypeOK, JobsInv, NEW s \in Sites, NEW pc \in {"read", "publish"},
           NEW redo \in BOOLEAN, NEW m \in Messages, Request(s, pc, redo, m)
    PROVE  /\ jobs' \subseteq Jobs
           /\ \A i, j \in jobs' : i.n = j.n => i = j
           /\ ops' \in 0..MaxOps
           /\ \A j \in jobs' : j.n <= ops'
<1> DEFINE new == [n |-> ops + 1, site |-> s, pc |-> pc, replay |-> redo, msg |-> m]
<1>1. /\ ops \in 0..MaxOps /\ ops < MaxOps /\ ops' = ops + 1
      /\ jobs' = jobs \union {new}
      /\ jobs \subseteq Jobs
      /\ \A i, j \in jobs : i.n = j.n => i = j
  BY DEF Request, CrudTypeOK
<1>2. new \in Jobs /\ new.n = ops + 1
  BY <1>1, CrudAssumption DEF Jobs
<1>3. \A j \in jobs : j.n \in Nat /\ j.n <= ops
  BY <1>1 DEF JobsInv, Jobs
<1> HIDE DEF new
<1>4. ops' \in 0..MaxOps
  BY <1>1, CrudAssumption
<1>5. \A i, j \in jobs' : i.n = j.n => i = j
  BY <1>1, <1>2, <1>3
<1>6. \A j \in jobs' : j.n <= ops'
  BY <1>1, <1>2, <1>3
<1> QED BY <1>1, <1>2, <1>4, <1>5, <1>6

LEMMA CrudTypesInitially ==
    CrudInit => CrudTypeOK /\ JobsInv
<1> SUFFICES ASSUME CrudInit PROVE CrudTypeOK /\ JobsInv
  OBVIOUS
<1>1. records \in [Sites -> [Todos -> RecordValues]]
  BY RecordFacts DEF CrudInit
<1>2. /\ jobs = {} /\ log = <<>> /\ at = [s \in Sites |-> 0]
      /\ unacked = [s \in Sites |-> {}]
      /\ used = {} /\ ops = 0 /\ rejoins = 0 /\ local = {} /\ troubled = {}
  BY DEF CrudInit
<1>3. log \in Seq(Messages) /\ at \in [Sites -> 0..Len(log)]
  BY <1>2
<1>4. ops \in 0..MaxOps /\ rejoins \in 0..MaxRejoins
  BY <1>2, CrudAssumption
<1>5. \A s \in Sites : unacked[s] \subseteq 1..at[s]
  BY <1>2
<1> QED BY <1>1, <1>2, <1>3, <1>4, <1>5 DEF CrudTypeOK, JobsInv

\* The local write of a handler, or its end: the stream and the consumers stay.
LEMMA LocalTypes ==
    ASSUME CrudTypeOK, JobsInv,
           records' \in [Sites -> [Todos -> RecordValues]],
           jobs' \subseteq Jobs,
           \A i, j \in jobs' : i.n = j.n => i = j,
           \A j \in jobs' : j.n <= ops',
           \A j \in jobs' : j.pc = "read" => j.msg.op = "toggle",
           used' \subseteq Todos, ops' \in 0..MaxOps, local' \subseteq Todos,
           UNCHANGED <<log, at, unacked, rejoins, troubled>>
    PROVE  CrudTypeOK' /\ JobsInv'
BY DEF CrudTypeOK, JobsInv

LEMMA CreateTypes ==
    ASSUME CrudTypeOK, JobsInv, NEW s \in Sites, NEW t \in Todos, NEW redo \in BOOLEAN,
           Create(s, t, redo)
    PROVE  CrudTypeOK' /\ JobsInv'
<1> DEFINE m == [op |-> "create", todo |-> t]
<1>1. m \in Messages
  BY DEF Messages
<1>2. Request(s, "publish", redo, m)
  BY DEF Create
<1> HIDE DEF m
<1>3. /\ jobs' \subseteq Jobs
      /\ \A i, j \in jobs' : i.n = j.n => i = j
      /\ ops' \in 0..MaxOps
      /\ \A j \in jobs' : j.n <= ops'
  BY <1>1, <1>2, RequestTypes
<1>4. \A j \in jobs' : j.pc = "read" => j.msg.op = "toggle"
  BY <1>2 DEF Request, JobsInv
<1>5. records' \in [Sites -> [Todos -> RecordValues]]
  <2>1. Record(FALSE, FALSE) \in RecordValues
    BY RecordFacts
  <2> QED BY <2>1 DEF Create, CrudTypeOK
<1>6. used' \subseteq Todos /\ local' \subseteq Todos
  BY DEF Create, CrudTypeOK
<1>7. UNCHANGED <<log, at, unacked, rejoins, troubled>>
  BY DEF Create
<1> QED BY <1>3, <1>4, <1>5, <1>6, <1>7, LocalTypes

LEMMA ToggleReadTypes ==
    ASSUME CrudTypeOK, JobsInv, NEW s \in Sites, NEW t \in Todos, NEW redo \in BOOLEAN,
           ToggleRead(s, t, redo)
    PROVE  CrudTypeOK' /\ JobsInv'
<1> DEFINE m == [op |-> "toggle", todo |-> t, val |-> ~records[s][t].completed]
<1>1. m \in Messages
  <2>1. records[s][t] # None /\ records[s][t] \in RecordValues
    BY DEF ToggleRead, CrudTypeOK
  <2>2. records[s][t].completed \in BOOLEAN
    BY <2>1, RecordFacts
  <2>3. \A b \in BOOLEAN : (~b) \in BOOLEAN
    OBVIOUS
  <2> QED BY <2>2, <2>3 DEF Messages
<1>2. Request(s, "read", redo, m)
  BY DEF ToggleRead
<1>3. m.op = "toggle"
  OBVIOUS
<1> HIDE DEF m
<1>4. /\ jobs' \subseteq Jobs
      /\ \A i, j \in jobs' : i.n = j.n => i = j
      /\ ops' \in 0..MaxOps
      /\ \A j \in jobs' : j.n <= ops'
  BY <1>1, <1>2, RequestTypes
<1>5. \A j \in jobs' : j.pc = "read" => j.msg.op = "toggle"
  BY <1>2, <1>3 DEF Request, JobsInv
<1>6. /\ records' \in [Sites -> [Todos -> RecordValues]]
      /\ used' \subseteq Todos /\ local' \subseteq Todos
  BY DEF ToggleRead, CrudTypeOK
<1>7. UNCHANGED <<log, at, unacked, rejoins, troubled>>
  BY DEF ToggleRead
<1> QED BY <1>4, <1>5, <1>6, <1>7, LocalTypes

LEMMA DeleteTypes ==
    ASSUME CrudTypeOK, JobsInv, NEW s \in Sites, NEW t \in Todos, NEW redo \in BOOLEAN,
           Delete(s, t, redo)
    PROVE  CrudTypeOK' /\ JobsInv'
<1> DEFINE m == [op |-> "delete", todo |-> t]
<1>1. m \in Messages
  BY DEF Messages
<1>2. Request(s, "publish", redo, m)
  BY DEF Delete
<1> HIDE DEF m
<1>3. /\ jobs' \subseteq Jobs
      /\ \A i, j \in jobs' : i.n = j.n => i = j
      /\ ops' \in 0..MaxOps
      /\ \A j \in jobs' : j.n <= ops'
  BY <1>1, <1>2, RequestTypes
<1>4. \A j \in jobs' : j.pc = "read" => j.msg.op = "toggle"
  BY <1>2 DEF Request, JobsInv
<1>5. records' \in [Sites -> [Todos -> RecordValues]]
  <2>1. None \in RecordValues
    BY RecordFacts
  <2>2. records \in [Sites -> [Todos -> RecordValues]]
    BY DEF CrudTypeOK
  <2>3. records' = [records EXCEPT ![s][t] = None] \/ records' = records
    BY DEF Delete
  <2> QED BY <2>1, <2>2, <2>3
<1>6. used' \subseteq Todos /\ local' \subseteq Todos
  BY DEF Delete, CrudTypeOK
<1>7. UNCHANGED <<log, at, unacked, rejoins, troubled>>
  BY DEF Delete
<1> QED BY <1>3, <1>4, <1>5, <1>6, <1>7, LocalTypes

LEMMA ClearTypes ==
    ASSUME CrudTypeOK, JobsInv, NEW s \in Sites, NEW redo \in BOOLEAN,
           ClearCompleted(s, redo)
    PROVE  CrudTypeOK' /\ JobsInv'
<1> DEFINE m == [op |-> "clear_completed"]
<1>1. m \in Messages
  BY DEF Messages
<1>2. Request(s, "publish", redo, m)
  BY DEF ClearCompleted
<1> HIDE DEF m
<1>3. /\ jobs' \subseteq Jobs
      /\ \A i, j \in jobs' : i.n = j.n => i = j
      /\ ops' \in 0..MaxOps
      /\ \A j \in jobs' : j.n <= ops'
  BY <1>1, <1>2, RequestTypes
<1>4. \A j \in jobs' : j.pc = "read" => j.msg.op = "toggle"
  BY <1>2 DEF Request, JobsInv
<1>5. records' \in [Sites -> [Todos -> RecordValues]]
  <2>1. Cleared(records[s]) \in [Todos -> RecordValues]
    BY ClearedFacts DEF CrudTypeOK
  <2> QED BY <2>1 DEF ClearCompleted, CrudTypeOK
<1>6. used' \subseteq Todos /\ local' \subseteq Todos
  BY DEF ClearCompleted, CrudTypeOK
<1>7. UNCHANGED <<log, at, unacked, rejoins, troubled>>
  BY DEF ClearCompleted
<1> QED BY <1>3, <1>4, <1>5, <1>6, <1>7, LocalTypes

\* ToggleWrite's new record.
LEMMA ToggleWriteRecords ==
    ASSUME CrudTypeOK, JobsInv, NEW j \in jobs, ToggleWrite(j),
           records[j.site][j.msg.todo] # None
    PROVE  /\ j \in Jobs /\ j.site \in Sites /\ j.msg.op = "toggle" /\ j.msg.todo \in Todos
           /\ j.msg.val \in BOOLEAN
           /\ records' \in [Sites -> [Todos -> RecordValues]]
           /\ \A s \in Sites, t \in Todos :
                 IF s = j.site /\ t = j.msg.todo
                 THEN records'[s][t] # None /\ records'[s][t].completed = j.msg.val
                 ELSE records'[s][t] = records[s][t]
           /\ jobs' = (jobs \ {j}) \union {[j EXCEPT !.pc = "publish"]}
<1>1. j \in Jobs /\ j.pc = "read" /\ j.msg.op = "toggle"
  BY DEF ToggleWrite, CrudTypeOK, JobsInv
<1>2. j.site \in Sites /\ j.msg \in Messages
  BY <1>1 DEF Jobs
<1>3. j.msg.todo \in Todos /\ j.msg.val \in BOOLEAN
  BY <1>1, <1>2, MessageFacts
<1>4. records \in [Sites -> [Todos -> RecordValues]]
  BY DEF CrudTypeOK
<1> DEFINE new == [records[j.site][j.msg.todo] EXCEPT !.completed = j.msg.val]
<1>5. new \in RecordValues /\ new # None /\ new.completed = j.msg.val
  BY <1>2, <1>3, <1>4, RecordFacts
<1>6. /\ records' = [records EXCEPT ![j.site] = [@ EXCEPT ![j.msg.todo] = new]]
      /\ jobs' = (jobs \ {j}) \union {[j EXCEPT !.pc = "publish"]}
  BY DEF ToggleWrite
<1> HIDE DEF new
<1>7. records' \in [Sites -> [Todos -> RecordValues]]
  BY <1>2, <1>3, <1>4, <1>5, <1>6
<1>8. \A s \in Sites, t \in Todos :
         records'[s][t] = IF s = j.site /\ t = j.msg.todo THEN new ELSE records[s][t]
  BY <1>2, <1>3, <1>4, <1>6
<1> QED BY <1>1, <1>2, <1>3, <1>5, <1>6, <1>7, <1>8

LEMMA ToggleWriteTypes ==
    ASSUME CrudTypeOK, JobsInv, NEW j \in jobs, ToggleWrite(j)
    PROVE  CrudTypeOK' /\ JobsInv'
<1> DEFINE sent == [j EXCEPT !.pc = "publish"]
<1>1. /\ jobs \subseteq Jobs /\ \A i, k \in jobs : i.n = k.n => i = k
      /\ \A i \in jobs : i.n <= ops /\ (i.pc = "read" => i.msg.op = "toggle")
  BY DEF CrudTypeOK, JobsInv
<1>2. sent \in Jobs /\ sent.n = j.n /\ sent.pc = "publish"
  BY <1>1 DEF Jobs
<1>3. jobs' = jobs \ {j} \/ jobs' = (jobs \ {j}) \union {sent}
  BY DEF ToggleWrite
<1>4. records' \in [Sites -> [Todos -> RecordValues]]
  <2>1. CASE records[j.site][j.msg.todo] = None
    BY <2>1 DEF ToggleWrite, CrudTypeOK
  <2>2. CASE records[j.site][j.msg.todo] # None
    BY <2>2, ToggleWriteRecords
  <2> QED BY <2>1, <2>2
<1>5. /\ used' \subseteq Todos /\ ops' \in 0..MaxOps /\ local' \subseteq Todos /\ ops' = ops
      /\ UNCHANGED <<log, at, unacked, rejoins, troubled>>
  BY DEF ToggleWrite, CrudTypeOK
<1> HIDE DEF sent
<1>6. /\ jobs' \subseteq Jobs
      /\ \A i, k \in jobs' : i.n = k.n => i = k
      /\ \A i \in jobs' : i.n <= ops'
      /\ \A i \in jobs' : i.pc = "read" => i.msg.op = "toggle"
  BY <1>1, <1>2, <1>3, <1>5
<1> QED BY <1>4, <1>5, <1>6, LocalTypes

LEMMA UnpublishedTypes ==
    ASSUME CrudTypeOK, JobsInv, NEW j \in jobs, Unpublished(j)
    PROVE  CrudTypeOK' /\ JobsInv'
<1>1. j.msg \in Messages
  BY DEF CrudTypeOK, Jobs
<1>2. local' \subseteq Todos
  BY <1>1, MessageFacts DEF Unpublished, CrudTypeOK
<1>3. jobs' \subseteq jobs
  BY DEF Unpublished
<1>4. UNCHANGED <<records, log, at, unacked, used, ops, rejoins, troubled>>
  BY DEF Unpublished
<1> QED BY <1>2, <1>3, <1>4 DEF CrudTypeOK, JobsInv

LEMMA AppendFacts ==
    ASSUME NEW S, NEW q \in Seq(S), NEW m \in S
    PROVE  /\ Append(q, m) \in Seq(S)
           /\ Len(Append(q, m)) = Len(q) + 1
           /\ Len(q) \in Nat
           /\ DOMAIN Append(q, m) = 1..(Len(q) + 1)
           /\ \A i \in 1..Len(q) : Append(q, m)[i] = q[i]
           /\ Append(q, m)[Len(q) + 1] = m
OBVIOUS

LEMMA PublishTypes ==
    ASSUME CrudTypeOK, JobsInv, NEW j \in jobs, Publish(j)
    PROVE  CrudTypeOK' /\ JobsInv'
<1>1. j.msg \in Messages
  BY DEF CrudTypeOK, Jobs
<1>2. log \in Seq(Messages)
  BY DEF CrudTypeOK
<1>3. log' = Append(log, j.msg)
  BY DEF Publish
<1>4. log' \in Seq(Messages) /\ Len(log) \in Nat /\ Len(log') \in Nat /\ Len(log) <= Len(log')
  BY <1>1, <1>2, <1>3, AppendFacts
<1>5. jobs' \subseteq jobs
  BY DEF Publish
<1>6. UNCHANGED <<records, at, unacked, used, ops, rejoins, local, troubled>>
  BY DEF Publish
<1>7. at' \in [Sites -> 0..Len(log')]
  BY <1>4, <1>6 DEF CrudTypeOK
<1> QED BY <1>4, <1>5, <1>6, <1>7 DEF CrudTypeOK, JobsInv

\* A message that a consumer handles moves it up to that message.
LEMMA ConsumerTypes ==
    ASSUME CrudTypeOK, NEW s \in Sites,
           NEW p \in (unacked[s] \union {at[s] + 1}) \intersect (1..Len(log)),
           at' = [at EXCEPT ![s] = IF p > @ THEN p ELSE @],
           unacked' = [unacked EXCEPT ![s] = @ \ {p}] \/ unacked' = [unacked EXCEPT ![s] = @ \union {p}],
           records' = records \/ records' = [records EXCEPT ![s] = Applied(@, log[p])],
           NEW S, S \subseteq About(log[p]), troubled' = troubled \union ({s} \X S),
           UNCHANGED <<jobs, log, used, ops, rejoins, local>>
    PROVE  CrudTypeOK'
<1>0. unacked \in [Sites -> SUBSET Nat] /\ p \in Nat
  BY DEF CrudTypeOK
<1>1. /\ at \in [Sites -> 0..Len(log)] /\ Len(log) \in Nat
      /\ records \in [Sites -> [Todos -> RecordValues]]
      /\ log[p] \in Messages
  BY StreamFacts DEF CrudTypeOK
<1>2. at' \in [Sites -> 0..Len(log)] /\ at[s] \in Nat /\ at'[s] \in Nat /\ p <= at'[s] /\ at[s] <= at'[s]
  BY <1>1
<1>3. \A r \in Sites : r # s => at'[r] = at[r]
  BY <1>1
<1>4. \A r \in Sites : unacked'[r] \subseteq 1..at'[r]
  <2>1. \A r \in Sites : unacked[r] \subseteq 1..at[r]
    BY DEF CrudTypeOK
  <2>2. \A r \in Sites : unacked'[r] \subseteq unacked[r] \union (IF r = s THEN {p} ELSE {})
    BY <1>0
  <2>3. unacked[s] \union {p} \subseteq 1..at'[s]
    BY <1>2, <2>1
  <2> QED BY <1>3, <2>1, <2>2, <2>3
<1>7. unacked' \in [Sites -> SUBSET Nat]
  BY <1>0
<1>5. records' \in [Sites -> [Todos -> RecordValues]]
  <2>1. Applied(records[s], log[p]) \in [Todos -> RecordValues]
    BY <1>1, AppliedFacts
  <2> QED BY <1>1, <2>1
<1>6. troubled' \subseteq Sites \X Todos
  <2>1. S \subseteq Todos
    BY <1>1, MessageFacts
  <2> QED BY <2>1 DEF CrudTypeOK
<1> QED BY <1>2, <1>4, <1>5, <1>6, <1>7 DEF CrudTypeOK

LEMMA RejoinTypes ==
    ASSUME CrudTypeOK, NEW s \in Sites, Rejoin(s)
    PROVE  CrudTypeOK'
<1>1. at' \in [Sites -> 0..Len(log)] /\ at' = [at EXCEPT ![s] = 0]
  BY StreamFacts DEF Rejoin, CrudTypeOK
<1>2. unacked' \in [Sites -> SUBSET Nat] /\ \A r \in Sites : unacked'[r] \subseteq 1..at'[r]
  BY <1>1 DEF Rejoin, CrudTypeOK
<1>3. rejoins' \in 0..MaxRejoins
  BY CrudAssumption DEF Rejoin, CrudTypeOK
<1>4. troubled' \subseteq Sites \X Todos
  BY DEF Rejoin, CrudTypeOK
<1>5. UNCHANGED <<records, jobs, log, used, ops, local>>
  BY DEF Rejoin
<1> QED BY <1>1, <1>2, <1>3, <1>4, <1>5 DEF CrudTypeOK

-------------------------------------------------------------------------------
(* The handlers. *)

LEMMA InvInitially ==
    CrudInit => CrudInv
<1> SUFFICES ASSUME CrudInit PROVE CrudInv
  OBVIOUS
<1>1. CrudTypeOK /\ JobsInv
  BY CrudTypesInitially
<1>2. /\ records = [s \in Sites |-> [t \in Todos |-> None]]
      /\ jobs = {} /\ log = <<>> /\ unacked = [s \in Sites |-> {}]
  BY DEF CrudInit
<1>3. DOMAIN log = {} /\ \A op, t : Positions(op, t) = {}
  BY <1>2 DEF Positions
<1>4. \A s \in Sites, t \in Todos : records[s][t] = None
  BY <1>2
<1>5. NamesUsed /\ CreatedOnce /\ Smooth
  BY <1>2, <1>3, <1>4 DEF NamesUsed, CreatedOnce, Creates, Smooth
<1>6. PresentIsCreated /\ CompletedIsToggled /\ LastToggleCounts
  BY <1>4 DEF PresentIsCreated, CompletedIsToggled, LastToggleCounts
<1>7. MissingIsDeleted /\ DeletedIsMissing
  BY <1>3 DEF MissingIsDeleted, DeletedIsMissing, Creates
<1> QED BY <1>1, <1>5, <1>6, <1>7 DEF CrudInv

\* What a step of a handler that does not publish may do to the record of t at
\* s: nothing, create it, remove it, or toggle it, and what it wrote is left
\* to publish.
LocalWrite(s, t) ==
    \/ records'[s][t] = records[s][t]
    \/ /\ t \notin used /\ Unsent(s, "create", t)'
       /\ records'[s][t].completed = FALSE
    \/ /\ records'[s][t] = None
       /\ Unsent(s, "delete", t)' \/ UnsentClear(s)'
    \/ records[s][t] # None /\ records'[s][t] # None /\ Unsent(s, "toggle", t)'

LEMMA LocalKeeps ==
    ASSUME CrudInv, UNCHANGED <<log, at, unacked, troubled>>, local \subseteq local',
           \A s \in Sites, t \in Todos \ local' :
               /\ LocalWrite(s, t)
               /\ \A op : Unsent(s, op, t) => Unsent(s, op, t)'
               /\ UnsentClear(s) => UnsentClear(s)',
           \A s \in Sites, t \in Todos : LocalWrite(s, t)
    PROVE  /\ Smooth' /\ PresentIsCreated' /\ MissingIsDeleted'
           /\ DeletedIsMissing' /\ CompletedIsToggled' /\ LastToggleCounts'
<1> DEFINE Same == /\ \A t : Creates(t)' = Creates(t) /\ Deletes(t)' = Deletes(t) /\ Toggles(t)' = Toggles(t)
                   /\ NoClear' = NoClear
                   /\ \A t : InOrder(t)' = InOrder(t)
                   /\ \A t, i : LastToggle(t, i)' = LastToggle(t, i)
                   /\ log' = log /\ at' = at /\ unacked' = unacked /\ troubled' = troubled
<1>1. Same
  BY SameStream
<1>2. \A t \in Todos : t \notin used => Creates(t) = {} /\ Toggles(t) = {}
  BY PositionFacts, StreamFacts DEF CrudInv, NamesUsed, Creates, Toggles, Positions
<1>3. Smooth'
  BY <1>1 DEF CrudInv, Smooth
<1>4. PresentIsCreated'
  <2> SUFFICES ASSUME NEW s \in Sites, NEW t \in Todos, t \notin local', records'[s][t] # None
               PROVE  Creates(t)' # {} \/ Unsent(s, "create", t)'
    BY DEF PresentIsCreated
  <2>1. LocalWrite(s, t) /\ (Unsent(s, "create", t) => Unsent(s, "create", t)') /\ t \notin local
    OBVIOUS
  <2>2. records[s][t] # None => Creates(t) # {} \/ Unsent(s, "create", t)
    BY <2>1 DEF CrudInv, PresentIsCreated
  <2> QED BY <1>1, <2>1, <2>2 DEF LocalWrite
<1>5. MissingIsDeleted'
  <2> SUFFICES ASSUME NoClear', NEW s \in Sites, NEW t \in Todos, <<s, t>> \notin troubled', t \notin local',
                      NEW c \in Creates(t)', c <= at'[s], records'[s][t] = None
               PROVE  \/ Unsent(s, "delete", t)' \/ UnsentClear(s)'
                      \/ \E d \in Deletes(t)' : c < d
    BY DEF MissingIsDeleted
  <2>1. /\ LocalWrite(s, t) /\ t \notin local
        /\ Unsent(s, "delete", t) => Unsent(s, "delete", t)'
        /\ UnsentClear(s) => UnsentClear(s)'
    OBVIOUS
  <2>2. records[s][t] = None =>
            \/ Unsent(s, "delete", t) \/ UnsentClear(s)
            \/ \E d \in Deletes(t) : c < d
    BY <1>1, <2>1 DEF CrudInv, MissingIsDeleted
  <2>3. t \in used
    BY <1>1, <1>2
  <2> QED BY <1>1, <2>1, <2>2, <2>3 DEF LocalWrite
<1>6. DeletedIsMissing'
  <2> SUFFICES ASSUME NEW s \in Sites, NEW t \in Todos, <<s, t>> \notin troubled',
                      NEW c \in Creates(t)', NEW d \in Deletes(t)', c < d, d <= at'[s]
               PROVE  records'[s][t] = None
    BY DEF DeletedIsMissing
  <2>1. records[s][t] = None
    BY <1>1 DEF CrudInv, DeletedIsMissing
  <2>2. t \in used
    BY <1>1, <1>2
  <2> QED BY <2>1, <2>2 DEF LocalWrite
<1>7. CompletedIsToggled'
  <2> SUFFICES ASSUME NEW s \in Sites, NEW t \in Todos, t \notin local',
                      records'[s][t] # None, records'[s][t].completed = TRUE
               PROVE  Toggles(t)' # {} \/ Unsent(s, "toggle", t)'
    BY DEF CompletedIsToggled
  <2>1. LocalWrite(s, t) /\ t \notin local /\ (Unsent(s, "toggle", t) => Unsent(s, "toggle", t)')
    OBVIOUS
  <2>2. records[s][t] # None /\ records[s][t].completed = TRUE => Toggles(t) # {} \/ Unsent(s, "toggle", t)
    BY <2>1 DEF CrudInv, CompletedIsToggled
  <2> QED BY <1>1, <2>1, <2>2 DEF LocalWrite
<1>8. LastToggleCounts'
  <2> SUFFICES ASSUME NoClear', NEW s \in Sites, NEW t \in Todos, <<s, t>> \notin troubled', t \notin local',
                      records'[s][t] # None, InOrder(t)', ~Unsent(s, "toggle", t)',
                      NEW i, LastToggle(t, i)', i <= at'[s]
               PROVE  records'[s][t].completed = log'[i].val
    BY DEF LastToggleCounts
  <2>1. LocalWrite(s, t) /\ t \notin local /\ ~Unsent(s, "toggle", t)
    OBVIOUS
  <2>2. i \in Toggles(t)
    BY <1>1 DEF LastToggle
  <2>3. t \in used
    BY <1>2, <2>2
  <2>4. records'[s][t] = records[s][t]
    BY <2>1, <2>3 DEF LocalWrite
  <2>5. records[s][t].completed = log[i].val
    BY <1>1, <2>1, <2>4 DEF CrudInv, LastToggleCounts
  <2> QED BY <1>1, <2>4, <2>5
<1> QED BY <1>3, <1>4, <1>5, <1>6, <1>7, <1>8

LEMMA RequestFacts ==
    ASSUME NEW s, NEW pc, NEW redo, NEW m, Request(s, pc, redo, m)
    PROVE  \E new : jobs' = jobs \union {new} /\ new.site = s /\ new.pc = pc /\ new.msg = m
<1> DEFINE new == [n |-> ops + 1, site |-> s, pc |-> pc, replay |-> redo, msg |-> m]
<1>1. jobs' = jobs \union {new} /\ new.site = s /\ new.pc = pc /\ new.msg = m
  BY DEF Request
<1> QED BY <1>1

LEMMA UnsentStays ==
    ASSUME jobs \subseteq jobs'
    PROVE  /\ \A s, op, t : Unsent(s, op, t) => Unsent(s, op, t)'
           /\ \A s : UnsentClear(s) => UnsentClear(s)'
BY DEF Unsent, UnsentClear

\* Writing without a creation leaves todos created once.
LEMMA NoNewNames ==
    ASSUME CrudInv, UNCHANGED <<log, used>>,
           \A j \in jobs' : j.msg.op # "clear_completed" => j.msg.todo \in used,
           \A j \in jobs' : j.msg.op = "create" => j \in jobs,
           \A s \in Sites, t \in Todos : records'[s][t] # None => records[s][t] # None
    PROVE  NamesUsed' /\ CreatedOnce'
<1>1. \A t : Creates(t)' = Creates(t)
  BY SameStream
<1>2. CreatedOnce'
  BY <1>1 DEF CrudInv, CreatedOnce
<1>3. NamesUsed'
  BY DEF CrudInv, NamesUsed
<1> QED BY <1>2, <1>3

LEMMA CreateKeeps ==
    ASSUME CrudInv, NEW s \in Sites, NEW t \in Todos, NEW redo \in BOOLEAN, Create(s, t, redo)
    PROVE  CrudInv'
<1> DEFINE m == [op |-> "create", todo |-> t]
<1>1. /\ t \notin used /\ used' = used \union {t}
      /\ Request(s, "publish", redo, m)
      /\ UNCHANGED <<log, at, unacked, rejoins, local, troubled>>
  BY DEF Create
<1>2. m.op = "create" /\ m.todo = t
  OBVIOUS
<1> HIDE DEF m
<1>3. PICK new : jobs' = jobs \union {new} /\ new.site = s /\ new.pc = "publish" /\ new.msg = m
  BY <1>1, RequestFacts
<1>4. CrudTypeOK' /\ JobsInv'
  BY CreateTypes DEF CrudInv
<1>5. \A r \in Sites, u \in Todos :
         records'[r][u] = IF r = s /\ u = t THEN Record(FALSE, FALSE) ELSE records[r][u]
  BY DEF Create, CrudInv, CrudTypeOK
<1>6. Unsent(s, "create", t)'
  BY <1>2, <1>3 DEF Unsent
<1>7. \A r \in Sites, u \in Todos : LocalWrite(r, u)
  <2>1. Record(FALSE, FALSE).completed = FALSE
    BY RecordFacts
  <2> QED BY <1>1, <1>5, <1>6, <2>1 DEF LocalWrite
<1>8. /\ Smooth' /\ PresentIsCreated' /\ MissingIsDeleted'
      /\ DeletedIsMissing' /\ CompletedIsToggled' /\ LastToggleCounts'
  BY <1>1, <1>3, <1>7, UnsentStays, LocalKeeps
<1>9. NamesUsed'
  <2>1. \A i \in DOMAIN log' : log'[i].op # "clear_completed" => log'[i].todo \in used'
    BY <1>1 DEF CrudInv, NamesUsed
  <2>2. \A j \in jobs' : j.msg.op # "clear_completed" => j.msg.todo \in used'
    BY <1>1, <1>2, <1>3 DEF CrudInv, NamesUsed
  <2>3. \A r \in Sites, u \in Todos : records'[r][u] # None => u \in used'
    BY <1>1, <1>5 DEF CrudInv, NamesUsed
  <2> QED BY <2>1, <2>2, <2>3 DEF NamesUsed
<1>10. CreatedOnce'
  <2>1. \A u : Creates(u)' = Creates(u)
    BY <1>1, SameStream
  <2>2. Creates(t) = {}
    BY <1>1, StreamFacts DEF CrudInv, NamesUsed, Creates, Positions
  <2>3. \A j \in jobs : j.msg.op = "create" => j.msg.todo # t
    BY <1>1 DEF CrudInv, NamesUsed
  <2>4. \A j \in jobs' : j = new \/ j \in jobs
    BY <1>3
  <2> QED BY <1>2, <1>3, <2>1, <2>2, <2>3, <2>4 DEF CrudInv, CreatedOnce
<1> QED BY <1>4, <1>8, <1>9, <1>10 DEF CrudInv

LEMMA ToggleReadKeeps ==
    ASSUME CrudInv, NEW s \in Sites, NEW t \in Todos, NEW redo \in BOOLEAN, ToggleRead(s, t, redo)
    PROVE  CrudInv'
<1> DEFINE m == [op |-> "toggle", todo |-> t, val |-> ~records[s][t].completed]
<1>1. /\ records[s][t] # None
      /\ Request(s, "read", redo, m)
      /\ UNCHANGED <<records, log, at, unacked, used, rejoins, local, troubled>>
  BY DEF ToggleRead
<1>2. m.op = "toggle" /\ m.todo = t
  OBVIOUS
<1> HIDE DEF m
<1>3. PICK new : jobs' = jobs \union {new} /\ new.msg = m
  BY <1>1, RequestFacts
<1>4. CrudTypeOK' /\ JobsInv'
  BY ToggleReadTypes DEF CrudInv
<1>5. /\ Smooth' /\ PresentIsCreated' /\ MissingIsDeleted'
      /\ DeletedIsMissing' /\ CompletedIsToggled' /\ LastToggleCounts'
  BY <1>1, <1>3, UnsentStays, LocalKeeps DEF LocalWrite
<1>6. t \in used
  BY <1>1 DEF CrudInv, NamesUsed
<1>7. /\ \A j \in jobs' : j.msg.op # "clear_completed" => j.msg.todo \in used
      /\ \A j \in jobs' : j.msg.op = "create" => j \in jobs
  BY <1>2, <1>3, <1>6 DEF CrudInv, NamesUsed
<1>8. NamesUsed' /\ CreatedOnce'
  BY <1>1, <1>7, NoNewNames
<1> QED BY <1>4, <1>5, <1>8 DEF CrudInv

LEMMA ToggleWriteKeeps ==
    ASSUME CrudInv, NEW j \in jobs, ToggleWrite(j)
    PROVE  CrudInv'
<1>1. CrudTypeOK' /\ JobsInv' /\ CrudTypeOK /\ JobsInv
  BY ToggleWriteTypes DEF CrudInv
<1>2. UNCHANGED <<log, at, unacked, used, local, troubled>> /\ j.pc = "read" /\ j.msg.op = "toggle"
  BY <1>1 DEF ToggleWrite, JobsInv
<1>3. /\ \A s, op, t : Unsent(s, op, t) => Unsent(s, op, t)'
      /\ \A s : UnsentClear(s) => UnsentClear(s)'
  <2>1. \A i \in jobs : i # j => i \in jobs'
    BY DEF ToggleWrite
  <2> QED BY <1>2, <2>1 DEF Unsent, UnsentClear
<1>4. CASE records[j.site][j.msg.todo] = None
  <2>1. jobs' \subseteq jobs /\ records' = records
    BY <1>4 DEF ToggleWrite
  <2>2. /\ Smooth' /\ PresentIsCreated' /\ MissingIsDeleted'
        /\ DeletedIsMissing' /\ CompletedIsToggled' /\ LastToggleCounts'
    BY <1>2, <1>3, <2>1, LocalKeeps DEF LocalWrite
  <2>3. NamesUsed' /\ CreatedOnce'
    <3>1. \A i \in jobs' : i.msg.op # "clear_completed" => i.msg.todo \in used
      BY <2>1 DEF CrudInv, NamesUsed
    <3> QED BY <1>2, <2>1, <3>1, NoNewNames
  <2> QED BY <1>1, <2>2, <2>3 DEF CrudInv
<1>5. CASE records[j.site][j.msg.todo] # None
  <2> DEFINE sent == [j EXCEPT !.pc = "publish"]
  <2>1. /\ j \in Jobs /\ j.site \in Sites /\ j.msg.todo \in Todos
        /\ \A s \in Sites, t \in Todos :
              IF s = j.site /\ t = j.msg.todo
              THEN records'[s][t] # None /\ records'[s][t].completed = j.msg.val
              ELSE records'[s][t] = records[s][t]
        /\ jobs' = (jobs \ {j}) \union {sent}
    BY <1>1, <1>5, ToggleWriteRecords
  <2>2. sent.site = j.site /\ sent.pc = "publish" /\ sent.msg = j.msg
    BY <2>1 DEF Jobs
  <2> HIDE DEF sent
  <2>3. Unsent(j.site, "toggle", j.msg.todo)'
    BY <1>2, <2>1, <2>2 DEF Unsent
  <2>4. \A s \in Sites, t \in Todos : LocalWrite(s, t)
    BY <1>5, <2>1, <2>3 DEF LocalWrite
  <2>5. /\ Smooth' /\ PresentIsCreated' /\ MissingIsDeleted'
        /\ DeletedIsMissing' /\ CompletedIsToggled' /\ LastToggleCounts'
    BY <1>2, <1>3, <2>4, LocalKeeps
  <2>6. NamesUsed' /\ CreatedOnce'
    <3>1. \A i \in jobs' : i = sent \/ i \in jobs
      BY <2>1
    <3>2. /\ \A i \in jobs' : i.msg.op # "clear_completed" => i.msg.todo \in used
          /\ \A i \in jobs' : i.msg.op = "create" => i \in jobs
      BY <1>2, <2>2, <3>1 DEF CrudInv, NamesUsed
    <3>3. \A s \in Sites, t \in Todos : records'[s][t] # None => records[s][t] # None
      BY <1>5, <2>1
    <3> QED BY <1>2, <3>2, <3>3, NoNewNames
  <2> QED BY <1>1, <2>5, <2>6 DEF CrudInv
<1> QED BY <1>4, <1>5

LEMMA DeleteKeeps ==
    ASSUME CrudInv, NEW s \in Sites, NEW t \in Todos, NEW redo \in BOOLEAN, Delete(s, t, redo)
    PROVE  CrudInv'
<1> DEFINE m == [op |-> "delete", todo |-> t]
<1>1. /\ records[s][t] # None
      /\ Request(s, "publish", redo, m)
      /\ UNCHANGED <<log, at, unacked, used, rejoins, local, troubled>>
  BY DEF Delete
<1>2. m.op = "delete" /\ m.todo = t
  OBVIOUS
<1> HIDE DEF m
<1>3. PICK new : jobs' = jobs \union {new} /\ new.site = s /\ new.pc = "publish" /\ new.msg = m
  BY <1>1, RequestFacts
<1>4. CrudTypeOK' /\ JobsInv'
  BY DeleteTypes DEF CrudInv
<1>5. \A r \in Sites, u \in Todos :
         records'[r][u] = records[r][u] \/ (r = s /\ u = t /\ records'[r][u] = None)
  BY DEF Delete, CrudInv, CrudTypeOK
<1>6. Unsent(s, "delete", t)'
  BY <1>2, <1>3 DEF Unsent
<1>7. \A r \in Sites, u \in Todos : LocalWrite(r, u)
  BY <1>5, <1>6 DEF LocalWrite
<1>8. /\ Smooth' /\ PresentIsCreated' /\ MissingIsDeleted'
      /\ DeletedIsMissing' /\ CompletedIsToggled' /\ LastToggleCounts'
  BY <1>1, <1>3, <1>7, UnsentStays, LocalKeeps
<1>9. t \in used
  BY <1>1 DEF CrudInv, NamesUsed
<1>10. /\ \A j \in jobs' : j.msg.op # "clear_completed" => j.msg.todo \in used
       /\ \A j \in jobs' : j.msg.op = "create" => j \in jobs
  BY <1>2, <1>3, <1>9 DEF CrudInv, NamesUsed
<1>11. NamesUsed' /\ CreatedOnce'
  BY <1>1, <1>5, <1>10, NoNewNames
<1> QED BY <1>4, <1>8, <1>11 DEF CrudInv

LEMMA ClearKeeps ==
    ASSUME CrudInv, NEW s \in Sites, NEW redo \in BOOLEAN, ClearCompleted(s, redo)
    PROVE  CrudInv'
<1> DEFINE m == [op |-> "clear_completed"]
<1>1. /\ Request(s, "publish", redo, m)
      /\ records' = [records EXCEPT ![s] = Cleared(@)]
      /\ UNCHANGED <<log, at, unacked, used, rejoins, local, troubled>>
  BY DEF ClearCompleted
<1>2. m.op = "clear_completed"
  OBVIOUS
<1> HIDE DEF m
<1>3. PICK new : jobs' = jobs \union {new} /\ new.site = s /\ new.pc = "publish" /\ new.msg = m
  BY <1>1, RequestFacts
<1>4. CrudTypeOK' /\ JobsInv'
  BY ClearTypes DEF CrudInv
<1>5. \A r \in Sites, u \in Todos :
         records'[r][u] = records[r][u] \/ (r = s /\ records'[r][u] = None)
  <2>1. records \in [Sites -> [Todos -> RecordValues]]
    BY DEF CrudInv, CrudTypeOK
  <2>2. \A u \in Todos : Cleared(records[s])[u] # None => Cleared(records[s])[u] = records[s][u]
    BY <2>1, ClearedFacts
  <2>3. \A r \in Sites : records'[r] = IF r = s THEN Cleared(records[s]) ELSE records[r]
    BY <1>1, <2>1
  <2> QED BY <2>2, <2>3
<1>6. UnsentClear(s)'
  BY <1>2, <1>3 DEF UnsentClear
<1>7. \A r \in Sites, u \in Todos : LocalWrite(r, u)
  BY <1>5, <1>6 DEF LocalWrite
<1>8. /\ Smooth' /\ PresentIsCreated' /\ MissingIsDeleted'
      /\ DeletedIsMissing' /\ CompletedIsToggled' /\ LastToggleCounts'
  BY <1>1, <1>3, <1>7, UnsentStays, LocalKeeps
<1>9. /\ \A j \in jobs' : j.msg.op # "clear_completed" => j.msg.todo \in used
      /\ \A j \in jobs' : j.msg.op = "create" => j \in jobs
  BY <1>2, <1>3 DEF CrudInv, NamesUsed
<1>10. NamesUsed' /\ CreatedOnce'
  BY <1>1, <1>5, <1>9, NoNewNames
<1> QED BY <1>4, <1>8, <1>10 DEF CrudInv

\* What is not published is counted as local.
LEMMA UnpublishedKeeps ==
    ASSUME CrudInv, NEW j \in jobs, Unpublished(j)
    PROVE  CrudInv'
<1>1. CrudTypeOK' /\ JobsInv' /\ CrudTypeOK
  BY UnpublishedTypes DEF CrudInv
<1>2. /\ UNCHANGED <<records, log, at, unacked, used, ops, rejoins, troubled>>
      /\ jobs' = jobs \ {j}
      /\ local' = local \union About(j.msg)
  BY DEF Unpublished
<1>3. \A s \in Sites, t \in Todos \ local' :
         /\ \A op : Unsent(s, op, t) => Unsent(s, op, t)'
         /\ UnsentClear(s) => UnsentClear(s)'
  <2> TAKE s \in Sites, t \in Todos \ local'
  <2>1. j.msg.op # "clear_completed" /\ j.msg.todo # t
    BY <1>2 DEF About
  <2> QED BY <1>2, <2>1 DEF Unsent, UnsentClear
<1>4. /\ Smooth' /\ PresentIsCreated' /\ MissingIsDeleted'
      /\ DeletedIsMissing' /\ CompletedIsToggled' /\ LastToggleCounts'
  BY <1>2, <1>3, LocalKeeps DEF LocalWrite
<1>5. \A i \in jobs' : i.msg.op # "clear_completed" => i.msg.todo \in used
  BY <1>2 DEF CrudInv, NamesUsed
<1>6. NamesUsed' /\ CreatedOnce'
  BY <1>2, <1>5, NoNewNames
<1> QED BY <1>1, <1>4, <1>6 DEF CrudInv

\* The stream after a publication.
LEMMA Published ==
    ASSUME CrudTypeOK, NEW m \in Messages, log' = Append(log, m)
    PROVE  /\ Len(log') = Len(log) + 1 /\ DOMAIN log' = 1..(Len(log) + 1)
           /\ \A i \in 1..Len(log) : log'[i] = log[i]
           /\ log'[Len(log) + 1] = m
           /\ \A op, t :
                 /\ Positions(op, t) \subseteq Positions(op, t)'
                 /\ \A i \in Positions(op, t)' :
                       i \in Positions(op, t) \/ (i = Len(log) + 1 /\ m.op = op /\ m.todo = t)
                 /\ m.op = op /\ m.todo = t => Len(log) + 1 \in Positions(op, t)'
           /\ NoClear' => NoClear /\ m.op # "clear_completed"
           /\ \A t : InOrder(t)' => InOrder(t)
<1>1. log \in Seq(Messages)
  BY DEF CrudTypeOK
<1>2. /\ Len(log') = Len(log) + 1 /\ Len(log) \in Nat /\ DOMAIN log = 1..Len(log)
      /\ DOMAIN log' = 1..(Len(log) + 1)
      /\ \A i \in 1..Len(log) : log'[i] = log[i]
      /\ log'[Len(log) + 1] = m
  BY <1>1, AppendFacts
<1>3. /\ \A i \in DOMAIN log : i \in DOMAIN log' /\ log'[i] = log[i]
      /\ \A i \in DOMAIN log' : i \in DOMAIN log \/ i = Len(log) + 1
      /\ Len(log) + 1 \in DOMAIN log'
  BY <1>2
<1>4. \A op, t :
         /\ Positions(op, t) \subseteq Positions(op, t)'
         /\ \A i \in Positions(op, t)' :
               i \in Positions(op, t) \/ (i = Len(log) + 1 /\ m.op = op /\ m.todo = t)
         /\ m.op = op /\ m.todo = t => Len(log) + 1 \in Positions(op, t)'
  BY <1>2, <1>3 DEF Positions
<1>5. NoClear' => NoClear /\ m.op # "clear_completed"
  BY <1>2, <1>3 DEF NoClear
<1>6. \A t : InOrder(t)' => InOrder(t)
  BY <1>4 DEF InOrder
<1> QED BY <1>2, <1>4, <1>5, <1>6

LEMMA PublishKeeps ==
    ASSUME CrudInv, NEW j \in jobs, Publish(j)
    PROVE  CrudInv'
<1>1. CrudTypeOK' /\ JobsInv' /\ CrudTypeOK
  BY PublishTypes DEF CrudInv
<1>2. /\ UNCHANGED <<records, at, unacked, used, ops, rejoins, local, troubled>>
      /\ jobs' = jobs \ {j}
      /\ j.msg \in Messages /\ log' = Append(log, j.msg)
  BY DEF Publish, CrudInv, JobsInv, CrudTypeOK, Jobs
<1> DEFINE m == j.msg
           end == Len(log) + 1
           Grown(op, t) ==
               /\ Positions(op, t) \subseteq Positions(op, t)'
               /\ \A i \in Positions(op, t)' :
                     i \in Positions(op, t) \/ (i = end /\ m.op = op /\ m.todo = t)
               /\ m.op = op /\ m.todo = t => end \in Positions(op, t)'
<1>3. /\ Len(log) \in Nat /\ Len(log') = end /\ DOMAIN log = 1..Len(log) /\ DOMAIN log' = 1..end
      /\ \A i \in 1..Len(log) : log'[i] = log[i]
      /\ log'[end] = m
      /\ \A op, t : Grown(op, t)
      /\ NoClear' => NoClear /\ m.op # "clear_completed"
      /\ \A t : InOrder(t)' => InOrder(t)
      /\ \A s \in Sites : at[s] \in Nat /\ at[s] < end
      /\ \A op, t : \A i \in Positions(op, t) : i \in Nat /\ i < end
  <2>1. \A op, t : Grown(op, t)
    BY <1>1, <1>2, Published
  <2>2. /\ Len(log) \in Nat /\ DOMAIN log = 1..Len(log)
        /\ \A s \in Sites : at[s] \in Nat /\ at[s] < end
    BY <1>1, StreamFacts
  <2>3. \A op, t : \A i \in Positions(op, t) : i \in Nat /\ i < end
    BY <1>1, <2>2, PositionFacts
  <2> HIDE DEF Grown
  <2> QED BY <1>1, <1>2, <2>1, <2>2, <2>3, Published
<1>4. \A s, op, t : Unsent(s, op, t) => Unsent(s, op, t)' \/ (m.op = op /\ m.todo = t)
  BY <1>2 DEF Unsent
<1>5. \A s : UnsentClear(s) => UnsentClear(s)' \/ m.op = "clear_completed"
  BY <1>2 DEF UnsentClear
<1>6. j \in jobs /\ CreatedOnce /\ NamesUsed
  BY DEF CrudInv
<1> HIDE DEF m, end
<1>7. Smooth'
  <2>1. \A s \in Sites : \A p \in unacked[s] : p \in 1..Len(log)
    BY <1>1, <1>3 DEF CrudTypeOK
  <2> QED BY <1>2, <1>3, <2>1 DEF CrudInv, Smooth
<1>8. NamesUsed'
  <2>1. m.op # "clear_completed" => m.todo \in used
    BY <1>6 DEF NamesUsed, m
  <2>2. \A i \in DOMAIN log' : log'[i].op # "clear_completed" => log'[i].todo \in used
    BY <1>3, <1>6, <2>1 DEF NamesUsed, end
  <2> QED BY <1>2, <1>6, <2>2 DEF NamesUsed
<1>9. CreatedOnce'
  <2>1. ASSUME NEW t \in Todos, NEW c \in Creates(t)', NEW d \in Creates(t)'
        PROVE  c = d
    <3>1. m.op = "create" /\ m.todo = t => Creates(t) = {}
      BY <1>6 DEF CreatedOnce, m
    <3>2. Grown("create", t)
      BY <1>3
    <3> QED BY <1>6, <2>1, <3>1, <3>2 DEF CreatedOnce, Creates
  <2>2. ASSUME NEW i \in jobs', i.msg.op = "create"
        PROVE  /\ Creates(i.msg.todo)' = {}
               /\ \A k \in jobs' : k.msg.op = "create" /\ k.msg.todo = i.msg.todo => k = i
    <3>1. i \in jobs /\ i # j /\ jobs' \subseteq jobs
      BY <1>2, <2>2
    <3>2. ~(m.op = "create" /\ m.todo = i.msg.todo)
      BY <1>6, <2>2, <3>1 DEF CreatedOnce, m
    <3>3. Grown("create", i.msg.todo)
      BY <1>3
    <3>4. /\ Creates(i.msg.todo) = {}
          /\ \A k \in jobs : k.msg.op = "create" /\ k.msg.todo = i.msg.todo => k = i
      BY <1>6, <2>2, <3>1 DEF CreatedOnce
    <3> QED BY <3>1, <3>2, <3>3, <3>4 DEF Creates
  <2> QED BY <2>1, <2>2 DEF CreatedOnce
<1>10. PresentIsCreated'
  <2> SUFFICES ASSUME NEW s \in Sites, NEW t \in Todos, t \notin local, records[s][t] # None
               PROVE  Creates(t)' # {} \/ Unsent(s, "create", t)'
    BY <1>2 DEF PresentIsCreated
  <2>1. Creates(t) # {} \/ Unsent(s, "create", t)
    BY DEF CrudInv, PresentIsCreated
  <2>2. Grown("create", t)
    BY <1>3
  <2> QED BY <1>4, <2>1, <2>2 DEF Creates
<1>11. MissingIsDeleted'
  <2> SUFFICES ASSUME NoClear', NEW s \in Sites, NEW t \in Todos, <<s, t>> \notin troubled, t \notin local,
                      NEW c \in Creates(t)', c <= at[s], records[s][t] = None
               PROVE  \/ Unsent(s, "delete", t)' \/ UnsentClear(s)'
                      \/ \E d \in Deletes(t)' : c < d
    BY <1>2 DEF MissingIsDeleted
  <2>1. Grown("create", t) /\ Grown("delete", t)
    BY <1>3
  <2>2. c \in Creates(t) /\ c \in Nat /\ c < end /\ end \in Nat
    <3>1. c # end
      BY <1>3 DEF end
    <3> QED BY <1>3, <2>1, <3>1 DEF Creates, end
  <2>3. \/ Unsent(s, "delete", t) \/ UnsentClear(s)
        \/ \E d \in Deletes(t) : c < d
    BY <1>3, <2>2 DEF CrudInv, MissingIsDeleted
  <2> QED BY <1>3, <1>4, <1>5, <2>1, <2>2, <2>3 DEF Deletes
<1>12. DeletedIsMissing'
  <2> SUFFICES ASSUME NEW s \in Sites, NEW t \in Todos, <<s, t>> \notin troubled,
                      NEW c \in Creates(t)', NEW d \in Deletes(t)', c < d, d <= at[s]
               PROVE  records[s][t] = None
    BY <1>2 DEF DeletedIsMissing
  <2>1. Grown("create", t) /\ Grown("delete", t) /\ end \in Nat
    BY <1>3 DEF end
  <2>2. d # end
    BY <1>3, <2>1
  <2>3. d \in Deletes(t) /\ d \in Nat /\ d < end
    BY <1>3, <2>1, <2>2 DEF Deletes
  <2>4. c \in Creates(t)
    BY <2>1, <2>3 DEF Creates
  <2> QED BY <2>3, <2>4 DEF CrudInv, DeletedIsMissing
<1>13. CompletedIsToggled'
  <2> SUFFICES ASSUME NEW s \in Sites, NEW t \in Todos, t \notin local,
                      records[s][t] # None, records[s][t].completed = TRUE
               PROVE  Toggles(t)' # {} \/ Unsent(s, "toggle", t)'
    BY <1>2 DEF CompletedIsToggled
  <2>1. Toggles(t) # {} \/ Unsent(s, "toggle", t)
    BY DEF CrudInv, CompletedIsToggled
  <2>2. Grown("toggle", t)
    BY <1>3
  <2> QED BY <1>4, <2>1, <2>2 DEF Toggles
<1>14. LastToggleCounts'
  <2> SUFFICES ASSUME NoClear', NEW s \in Sites, NEW t \in Todos, <<s, t>> \notin troubled', t \notin local',
                      records'[s][t] # None, InOrder(t)', ~Unsent(s, "toggle", t)',
                      NEW i, LastToggle(t, i)', i <= at'[s]
               PROVE  records'[s][t].completed = log'[i].val
    BY DEF LastToggleCounts
  <2>0. /\ <<s, t>> \notin troubled /\ t \notin local /\ i <= at[s]
        /\ records'[s][t] = records[s][t] /\ records[s][t] # None
    BY <1>2
  <2>1. Grown("toggle", t) /\ end \in Nat /\ i \in Toggles(t)' /\ \A k \in Toggles(t)' : k <= i
    BY <1>3 DEF end, LastToggle
  <2>2. i # end
    BY <1>3, <2>0, <2>1
  <2>3. i \in Toggles(t) /\ i \in 1..Len(log) /\ i < end
    BY <1>1, <1>3, <2>1, <2>2, PositionFacts DEF Toggles
  <2>4. ~(m.op = "toggle" /\ m.todo = t)
    BY <2>1, <2>3 DEF Toggles
  <2>5. ~Unsent(s, "toggle", t)
    BY <1>4, <2>4
  <2>6. LastToggle(t, i)
    BY <2>1, <2>3 DEF LastToggle, Toggles
  <2>7. records[s][t].completed = log[i].val
    BY <1>3, <2>0, <2>5, <2>6 DEF CrudInv, LastToggleCounts
  <2> QED BY <1>3, <2>0, <2>3, <2>7
<1> QED BY <1>1, <1>7, <1>8, <1>9, <1>10, <1>11, <1>12, <1>13, <1>14 DEF CrudInv

-------------------------------------------------------------------------------
(* The consumers. *)

\* Consumer s handles message p: its records stay or follow the message.  A
\* todo of the message that is not troubled after that follows it, is on record
\* after a create, and p was the next message.
LEMMA ConsumerKeeps ==
    ASSUME CrudInv, CrudTypeOK', NEW s \in Sites, NEW p \in 1..Len(log),
           records' = records \/ records' = [records EXCEPT ![s] = Applied(@, log[p])],
           troubled \subseteq troubled',
           at'[s] = at[s] \/ (p = at[s] + 1 /\ at'[s] = p),
           unacked'[s] \subseteq unacked[s] \union {p},
           \A r \in Sites : r # s => at'[r] = at[r] /\ unacked'[r] = unacked[r],
           \A t \in About(log[p]) : <<s, t>> \notin troubled' =>
               /\ p = at[s] + 1 /\ at'[s] = p /\ p \notin unacked'[s]
               /\ records'[s] = Applied(records[s], log[p])
               /\ log[p].op = "create" => records'[s][t] # None,
           UNCHANGED <<jobs, log, used, ops, rejoins, local>>
    PROVE  CrudInv'
<1>1. /\ CrudTypeOK /\ log[p] \in Messages /\ records \in [Sites -> [Todos -> RecordValues]]
      /\ at \in [Sites -> 0..Len(log)] /\ Len(log) \in Nat
      /\ NamesUsed
  BY StreamFacts DEF CrudInv, CrudTypeOK
<1> DEFINE m == log[p]
           new == Applied(records[s], m)
           Same == /\ \A op, t : Positions(op, t)' = Positions(op, t)
                   /\ NoClear' = NoClear
                   /\ \A t : InOrder(t)' = InOrder(t)
                   /\ \A t, i : LastToggle(t, i)' = LastToggle(t, i)
                   /\ \A t : Creates(t)' = Creates(t) /\ Deletes(t)' = Deletes(t) /\ Toggles(t)' = Toggles(t)
                   /\ \A r, op, t : Unsent(r, op, t)' = Unsent(r, op, t)
                   /\ \A r : UnsentClear(r)' = UnsentClear(r)
<1>2. Same
  BY SameStream DEF Unsent, UnsentClear
<1>3. \A r \in Sites : records'[r] = records[r] \/ (r = s /\ records'[r] = new)
  BY <1>1
<1>4. \A t \in Todos : Effect(m, t, records[s][t], new[t])
  <2>1. records[s] \in [Todos -> RecordValues] /\ m \in Messages
    BY <1>1
  <2> QED BY <2>1, AppliedFacts
<1>5. /\ \A op, t : m.op = op /\ m.todo = t => p \in Positions(op, t)
      /\ \A op, t : p \in Positions(op, t) => m.op = op /\ m.todo = t
      /\ \A op, t : \A i \in Positions(op, t) : i \in Nat
      /\ NoClear => m.op # "clear_completed"
  <2>1. p \in DOMAIN log
    BY <1>1, StreamFacts
  <2>2. \A op, t : \A i \in Positions(op, t) : i \in Nat
    BY <1>1, PositionFacts
  <2> QED BY <2>1, <2>2 DEF Positions, NoClear
<1>6. Smooth'
  <2> SUFFICES ASSUME NEW r \in Sites, NEW q \in unacked'[r], NEW t \in About(log[q])
               PROVE  <<r, t>> \in troubled'
    BY DEF Smooth
  <2>1. CASE q \in unacked[r]
    BY <2>1 DEF CrudInv, Smooth
  <2>2. CASE q \notin unacked[r]
    <3>1. r = s /\ q = p
      BY <2>2
    <3> QED BY <3>1
  <2> QED BY <2>1, <2>2
<1> HIDE DEF m, new
<1>7. NamesUsed'
  <2>1. \A r \in Sites, t \in Todos : records'[r][t] # None => t \in used
    <3> TAKE r \in Sites, t \in Todos
    <3>1. m.op = "create" /\ m.todo = t => t \in used
      BY <1>1, StreamFacts DEF NamesUsed, m
    <3> QED BY <1>1, <1>3, <1>4, <3>1 DEF NamesUsed, Effect
  <2> QED BY <1>1, <2>1 DEF NamesUsed
<1>8. CreatedOnce'
  BY <1>2 DEF CrudInv, CreatedOnce
<1>9. PresentIsCreated'
  <2> SUFFICES ASSUME NEW r \in Sites, NEW t \in Todos, t \notin local, records'[r][t] # None
               PROVE  Creates(t) # {} \/ Unsent(r, "create", t)
    BY <1>2 DEF PresentIsCreated
  <2>1. CASE records[r][t] # None
    BY <2>1 DEF CrudInv, PresentIsCreated
  <2>2. CASE records[r][t] = None
    <3>1. m.op = "create" /\ m.todo = t
      BY <1>3, <1>4, <2>2 DEF Effect
    <3> QED BY <1>5, <3>1 DEF Creates
  <2> QED BY <2>1, <2>2
<1>10. CompletedIsToggled'
  <2> SUFFICES ASSUME NEW r \in Sites, NEW t \in Todos, t \notin local,
                      records'[r][t] # None, records'[r][t].completed = TRUE
               PROVE  Toggles(t) # {} \/ Unsent(r, "toggle", t)
    BY <1>2 DEF CompletedIsToggled
  <2>1. CASE records[r][t] # None /\ records'[r][t] = records[r][t]
    BY <2>1 DEF CrudInv, CompletedIsToggled
  <2>2. CASE ~(records[r][t] # None /\ records'[r][t] = records[r][t])
    <3>1. r = s /\ records'[r][t] = new[t]
      BY <1>3, <2>2
    <3>2. new[t].completed # FALSE
      BY <3>1
    <3>3. records[s][t] # None
      BY <1>4, <3>1, <3>2 DEF Effect
    <3>4. m.op = "toggle" /\ m.todo = t
      BY <1>4, <2>2, <3>1, <3>3 DEF Effect
    <3> QED BY <1>5, <3>4 DEF Toggles
  <2> QED BY <2>1, <2>2
<1>11. ASSUME NEW r \in Sites, r # s
       PROVE  records'[r] = records[r] /\ at'[r] = at[r]
  BY <1>3, <1>11
<1>12. ASSUME NEW t \in Todos, <<s, t>> \notin troubled'
       PROVE  /\ <<s, t>> \notin troubled /\ at[s] \in Nat
              /\ Effect(m, t, records[s][t], records'[s][t])
              /\ m.op = "create" /\ m.todo = t => records'[s][t] # None
              /\ \/ at'[s] = at[s] /\ records'[s][t] = records[s][t]
                 \/ at'[s] = p /\ p = at[s] + 1
  <2>1. <<s, t>> \notin troubled /\ at[s] \in Nat
    BY <1>1, <1>12
  <2>2. CASE t \in About(m)
    <3>1. at'[s] = p /\ p = at[s] + 1 /\ records'[s] = new /\ (m.op = "create" => records'[s][t] # None)
      BY <1>12, <2>2 DEF m, new
    <3> QED BY <1>4, <2>1, <3>1
  <2>3. CASE t \notin About(m)
    <3>1. ~(m.op # "clear_completed" /\ m.todo = t) /\ m.op # "clear_completed"
      BY <2>3 DEF About
    <3>2. new[t] = records[s][t]
      BY <1>4, <3>1 DEF Effect
    <3>3. records'[s][t] = records[s][t]
      BY <1>3, <3>2
    <3>4. Effect(m, t, records[s][t], records[s][t])
      BY <3>1 DEF Effect
    <3> QED BY <2>1, <3>1, <3>3, <3>4
  <2> QED BY <2>2, <2>3
<1>13. MissingIsDeleted'
  <2> SUFFICES ASSUME NoClear', NEW r \in Sites, NEW t \in Todos, <<r, t>> \notin troubled', t \notin local',
                      NEW c \in Creates(t)', c <= at'[r], records'[r][t] = None
               PROVE  \/ Unsent(r, "delete", t)' \/ UnsentClear(r)'
                      \/ \E d \in Deletes(t)' : c < d
    BY DEF MissingIsDeleted
  <2>1. NoClear /\ c \in Creates(t) /\ c \in Nat /\ <<r, t>> \notin troubled /\ t \notin local
    BY <1>2, <1>5 DEF Creates
  <2>2. c <= at[r] /\ records[r][t] = None =>
            \/ Unsent(r, "delete", t) \/ UnsentClear(r)
            \/ \E d \in Deletes(t) : c < d
    BY <2>1 DEF CrudInv, MissingIsDeleted
  <2>3. CASE c <= at[r] /\ records[r][t] = None
    BY <1>2, <2>2, <2>3
  <2>4. CASE ~(c <= at[r] /\ records[r][t] = None)
    <3>1. r = s
      BY <1>11, <2>4
    <3>2. /\ records'[s][t] = None /\ c <= p /\ p = at[s] + 1 /\ at[s] \in Nat
          /\ Effect(m, t, records[s][t], None)
          /\ ~(m.op = "create" /\ m.todo = t)
      BY <1>12, <2>4, <3>1
    <3>4. c # p
      BY <1>5, <2>1, <3>2 DEF Creates
    <3>5. c < p /\ c <= at[s]
      BY <2>1, <3>2, <3>4
    <3>6. records[s][t] # None
      BY <2>4, <3>1, <3>5
    <3>7. m.op = "delete" /\ m.todo = t
      BY <1>5, <2>1, <3>2, <3>6 DEF Effect
    <3>8. p \in Deletes(t)
      BY <1>5, <3>7 DEF Deletes
    <3> QED BY <1>2, <3>5, <3>8
  <2> QED BY <2>3, <2>4
<1>14. DeletedIsMissing'
  <2> SUFFICES ASSUME NEW r \in Sites, NEW t \in Todos, <<r, t>> \notin troubled',
                      NEW c \in Creates(t)', NEW d \in Deletes(t)', c < d, d <= at'[r]
               PROVE  records'[r][t] = None
    BY DEF DeletedIsMissing
  <2>1. c \in Creates(t) /\ d \in Deletes(t) /\ c \in Nat /\ d \in Nat /\ <<r, t>> \notin troubled
    BY <1>2, <1>5 DEF Creates, Deletes
  <2>2. d <= at[r] => records[r][t] = None
    BY <2>1 DEF CrudInv, DeletedIsMissing
  <2>3. CASE r # s
    BY <1>11, <2>2, <2>3
  <2>4. CASE r = s
    <3>1. /\ Effect(m, t, records[s][t], records'[s][t]) /\ at[s] \in Nat
          /\ \/ at'[s] = at[s] /\ records'[s][t] = records[s][t]
             \/ at'[s] = p /\ p = at[s] + 1
      BY <1>12, <2>4
    <3>4. CASE at'[s] = at[s] /\ records'[s][t] = records[s][t]
      BY <2>2, <2>4, <3>4
    <3>5. CASE at'[s] = p /\ p = at[s] + 1 /\ d = p
      <4>1. m.op = "delete" /\ m.todo = t
        BY <1>5, <2>1, <3>5 DEF Deletes
      <4> QED BY <2>4, <3>1, <4>1 DEF Effect
    <3>6. CASE at'[s] = p /\ p = at[s] + 1 /\ d # p
      <4>1. d <= at[s] /\ records[s][t] = None
        BY <2>1, <2>2, <2>4, <3>1, <3>6
      <4>2. ~(m.op = "create" /\ m.todo = t)
        <5> SUFFICES ASSUME m.op = "create", m.todo = t PROVE FALSE
          OBVIOUS
        <5>1. p \in Creates(t)
          BY <1>5 DEF Creates
        <5>2. p = c
          BY <2>1, <5>1 DEF CrudInv, CreatedOnce
        <5> QED BY <2>1, <3>1, <3>6, <4>1, <5>2
      <4> QED BY <2>4, <3>1, <4>1, <4>2 DEF Effect
    <3> QED BY <3>1, <3>4, <3>5, <3>6
  <2> QED BY <2>3, <2>4
<1>15. LastToggleCounts'
  <2> SUFFICES ASSUME NoClear', NEW r \in Sites, NEW t \in Todos, <<r, t>> \notin troubled', t \notin local',
                      records'[r][t] # None, InOrder(t)', ~Unsent(r, "toggle", t)',
                      NEW i, LastToggle(t, i)', i <= at'[r]
               PROVE  records'[r][t].completed = log'[i].val
    BY DEF LastToggleCounts
  <2>1. /\ NoClear /\ <<r, t>> \notin troubled /\ t \notin local /\ InOrder(t)
        /\ ~Unsent(r, "toggle", t) /\ LastToggle(t, i) /\ log' = log
    BY <1>2
  <2>2. i \in Toggles(t) /\ i \in Nat /\ \A k \in Toggles(t) : k <= i
    BY <1>5, <2>1 DEF LastToggle, Toggles
  <2>3. records[r][t] # None /\ i <= at[r] => records[r][t].completed = log[i].val
    BY <2>1 DEF CrudInv, LastToggleCounts
  <2>4. CASE r # s
    BY <1>11, <2>1, <2>3, <2>4
  <2>5. CASE r = s
    <3>1. /\ Effect(m, t, records[s][t], records'[s][t]) /\ at[s] \in Nat
          /\ records'[s][t] # None
          /\ \/ at'[s] = at[s] /\ records'[s][t] = records[s][t]
             \/ at'[s] = p /\ p = at[s] + 1
      BY <1>12, <2>5
    <3>2. CASE at'[s] = at[s] /\ records'[s][t] = records[s][t]
      BY <2>1, <2>3, <2>5, <3>1, <3>2
    <3>3. CASE at'[s] = p /\ p = at[s] + 1
      <4>1. i <= p
        BY <2>5, <3>3
      <4>2. records[s][t] # None
        <5> SUFFICES ASSUME records[s][t] = None PROVE FALSE
          OBVIOUS
        <5>1. m.op = "create" /\ m.todo = t
          BY <3>1 DEF Effect
        <5>2. p \in Creates(t)
          BY <1>5, <5>1 DEF Creates
        <5>3. p < i
          BY <2>1, <2>2, <5>2 DEF InOrder, Creates, Toggles
        <5> QED BY <2>2, <3>1, <3>3, <4>1, <5>3
      <4>3. CASE m.op = "toggle" /\ m.todo = t
        <5>1. p \in Toggles(t)
          BY <1>5, <4>3 DEF Toggles
        <5>2. p = i
          BY <2>2, <3>1, <3>3, <4>1, <5>1
        <5> QED BY <2>1, <2>5, <3>1, <4>2, <4>3, <5>2 DEF m, Effect
      <4>4. CASE ~(m.op = "toggle" /\ m.todo = t)
        <5>1. i # p
          BY <1>5, <2>2, <4>4 DEF Toggles
        <5>2. i <= at[s]
          BY <2>2, <3>1, <3>3, <4>1, <5>1
        <5>3. records'[s][t] = records[s][t]
          BY <3>1, <4>2, <4>4 DEF Effect
        <5> QED BY <2>1, <2>3, <2>5, <3>1, <5>2, <5>3
      <4> QED BY <4>3, <4>4
    <3> QED BY <3>1, <3>2, <3>3
  <2> QED BY <2>4, <2>5
<1>16. JobsInv'
  BY DEF CrudInv, JobsInv
<1> QED BY <1>6, <1>7, <1>8, <1>9, <1>10, <1>13, <1>14, <1>15, <1>16 DEF CrudInv

LEMMA ConsumeKeeps ==
    ASSUME CrudInv, NEW s \in Sites, NEW p \in 1..Len(log), Consume(s, p)
    PROVE  CrudInv'
<1> DEFINE new == Applied(records[s], log[p])
           kept == KeptOut(records[s], log[p])
<1>1. /\ p \in (unacked[s] \union {at[s] + 1}) \intersect (1..Len(log))
      /\ at' = [at EXCEPT ![s] = IF p > @ THEN p ELSE @]
      /\ unacked' = [unacked EXCEPT ![s] = @ \ {p}]
      /\ UNCHANGED <<jobs, log, used, ops, rejoins, local>>
      /\ \/ records' = [records EXCEPT ![s] = Applied(@, log[p])] /\ troubled' = troubled \union ({s} \X kept)
         \/ records' = records /\ troubled' = troubled \union ({s} \X About(log[p]))
  BY DEF Consume
<1>2. /\ CrudTypeOK /\ at \in [Sites -> 0..Len(log)] /\ Len(log) \in Nat
      /\ unacked \in [Sites -> SUBSET Nat] /\ unacked[s] \subseteq 1..at[s]
      /\ records \in [Sites -> [Todos -> RecordValues]]
      /\ log[p] \in Messages
  BY StreamFacts DEF CrudInv, CrudTypeOK
<1>3. kept \subseteq About(log[p])
  BY <1>2, MessageFacts
<1>4. PICK S : S \subseteq About(log[p]) /\ troubled' = troubled \union ({s} \X S)
  BY <1>1, <1>3
<1>5. CrudTypeOK'
  BY <1>1, <1>2, <1>4, ConsumerTypes
<1>6. \A r \in Sites : r # s => at'[r] = at[r] /\ unacked'[r] = unacked[r]
  BY <1>1, <1>2
<1>7. /\ at'[s] = at[s] \/ (p = at[s] + 1 /\ at'[s] = p)
      /\ unacked'[s] \subseteq unacked[s] \union {p} /\ p \notin unacked'[s]
      /\ p \notin unacked[s] => p = at[s] + 1 /\ at'[s] = p
  BY <1>1, <1>2
<1>8. ASSUME NEW t \in About(log[p]), <<s, t>> \notin troubled'
      PROVE  /\ p = at[s] + 1 /\ at'[s] = p /\ p \notin unacked'[s]
             /\ records'[s] = new
             /\ log[p].op = "create" => records'[s][t] # None
  <2>1. <<s, t>> \notin troubled /\ t \notin kept /\ records'[s] = new
    BY <1>1, <1>2, <1>8
  <2>2. p \notin unacked[s]
    BY <1>8, <2>1 DEF CrudInv, Smooth
  <2>3. log[p].op = "create" => new[t] # None
    BY <1>8, <2>1 DEF KeptOut, About
  <2> QED BY <1>7, <2>1, <2>2, <2>3
<1> HIDE DEF kept
<1> QED BY <1>1, <1>4, <1>5, <1>6, <1>7, <1>8, ConsumerKeeps

LEMMA ConsumeUnackedKeeps ==
    ASSUME CrudInv, NEW s \in Sites, NEW p \in 1..Len(log), ConsumeUnacked(s, p)
    PROVE  CrudInv'
<1>1. /\ p \in (unacked[s] \union {at[s] + 1}) \intersect (1..Len(log))
      /\ at' = [at EXCEPT ![s] = IF p > @ THEN p ELSE @]
      /\ unacked' = [unacked EXCEPT ![s] = @ \union {p}]
      /\ UNCHANGED <<jobs, log, used, ops, rejoins, local>>
      /\ records' = [records EXCEPT ![s] = Applied(@, log[p])]
      /\ troubled' = troubled \union ({s} \X About(log[p]))
  BY DEF ConsumeUnacked
<1>2. /\ CrudTypeOK /\ at \in [Sites -> 0..Len(log)] /\ unacked \in [Sites -> SUBSET Nat]
      /\ unacked[s] \subseteq 1..at[s] /\ Len(log) \in Nat
  BY StreamFacts DEF CrudInv, CrudTypeOK
<1>3. CrudTypeOK'
  BY <1>1, <1>2, ConsumerTypes
<1>4. \A r \in Sites : r # s => at'[r] = at[r] /\ unacked'[r] = unacked[r]
  BY <1>1, <1>2
<1>5. \A t \in About(log[p]) : <<s, t>> \in troubled'
  BY <1>1
<1>6. /\ at'[s] = at[s] \/ (p = at[s] + 1 /\ at'[s] = p)
      /\ unacked'[s] \subseteq unacked[s] \union {p}
  BY <1>1, <1>2
<1>7. troubled \subseteq troubled'
  BY <1>1
<1> QED BY <1>1, <1>3, <1>4, <1>5, <1>6, <1>7, ConsumerKeeps

\* A consumer that starts anew has seen nothing of the stream.
LEMMA RejoinKeeps ==
    ASSUME CrudInv, NEW s \in Sites, Rejoin(s)
    PROVE  CrudInv'
<1>1. /\ CrudTypeOK /\ at \in [Sites -> 0..Len(log)] /\ unacked \in [Sites -> SUBSET Nat]
      /\ UNCHANGED <<records, jobs, log, used, ops, local>>
      /\ troubled' = troubled \ ({s} \X Todos)
  BY DEF Rejoin, CrudInv, CrudTypeOK
<1>2. /\ at'[s] = 0 /\ unacked'[s] = {}
      /\ \A r \in Sites : r # s => at'[r] = at[r] /\ unacked'[r] = unacked[r]
  BY <1>1 DEF Rejoin
<1>3. \A r \in Sites, t \in Todos : <<r, t>> \notin troubled' => r = s \/ <<r, t>> \notin troubled
  BY <1>1
<1>4. \A op, t : \A i \in Positions(op, t) : i \in Nat /\ i > 0
  BY <1>1, PositionFacts, StreamFacts
<1> DEFINE Same == /\ \A t : Creates(t)' = Creates(t) /\ Deletes(t)' = Deletes(t) /\ Toggles(t)' = Toggles(t)
                   /\ NoClear' = NoClear
                   /\ \A t : InOrder(t)' = InOrder(t)
                   /\ \A t, i : LastToggle(t, i)' = LastToggle(t, i)
                   /\ \A r, op, t : Unsent(r, op, t)' = Unsent(r, op, t)
                   /\ \A r : UnsentClear(r)' = UnsentClear(r)
<1>5. Same
  BY <1>1, SameStream DEF Unsent, UnsentClear
<1>6. CrudTypeOK' /\ JobsInv'
  BY <1>1, RejoinTypes DEF CrudInv, JobsInv
<1>7. NamesUsed' /\ Smooth'
  BY <1>1, <1>2, <1>3 DEF CrudInv, NamesUsed, Smooth
<1>8. CreatedOnce'
  BY <1>1, <1>5 DEF CrudInv, CreatedOnce
<1>9. PresentIsCreated' /\ CompletedIsToggled'
  BY <1>1, <1>5 DEF CrudInv, PresentIsCreated, CompletedIsToggled
<1>10. MissingIsDeleted'
  <2> SUFFICES ASSUME NoClear', NEW r \in Sites, NEW t \in Todos, <<r, t>> \notin troubled', t \notin local',
                      NEW c \in Creates(t)', c <= at'[r], records'[r][t] = None
               PROVE  \/ Unsent(r, "delete", t)' \/ UnsentClear(r)'
                      \/ \E d \in Deletes(t)' : c < d
    BY DEF MissingIsDeleted
  <2>1. c \in Creates(t) /\ c \in Nat /\ c > 0
    BY <1>4, <1>5 DEF Creates
  <2>2. r # s
    BY <1>2, <2>1
  <2>3. c <= at[r] /\ <<r, t>> \notin troubled /\ records[r][t] = None /\ NoClear /\ t \notin local
    BY <1>1, <1>2, <1>3, <1>5, <2>2
  <2> QED BY <1>5, <2>1, <2>3 DEF CrudInv, MissingIsDeleted
<1>11. DeletedIsMissing'
  <2> SUFFICES ASSUME NEW r \in Sites, NEW t \in Todos, <<r, t>> \notin troubled',
                      NEW c \in Creates(t)', NEW d \in Deletes(t)', c < d, d <= at'[r]
               PROVE  records'[r][t] = None
    BY DEF DeletedIsMissing
  <2>1. c \in Creates(t) /\ d \in Deletes(t) /\ d \in Nat /\ d > 0
    BY <1>4, <1>5 DEF Deletes
  <2>2. r # s
    BY <1>2, <2>1
  <2>3. d <= at[r] /\ <<r, t>> \notin troubled
    BY <1>2, <1>3, <2>2
  <2> QED BY <1>1, <2>1, <2>3 DEF CrudInv, DeletedIsMissing
<1>12. LastToggleCounts'
  <2> SUFFICES ASSUME NoClear', NEW r \in Sites, NEW t \in Todos, <<r, t>> \notin troubled', t \notin local',
                      records'[r][t] # None, InOrder(t)', ~Unsent(r, "toggle", t)',
                      NEW i, LastToggle(t, i)', i <= at'[r]
               PROVE  records'[r][t].completed = log'[i].val
    BY DEF LastToggleCounts
  <2>1. LastToggle(t, i) /\ i \in Nat /\ i > 0
    BY <1>4, <1>5 DEF LastToggle, Toggles
  <2>2. r # s
    BY <1>2, <2>1
  <2>3. /\ i <= at[r] /\ <<r, t>> \notin troubled /\ records[r][t] # None /\ NoClear /\ t \notin local
        /\ InOrder(t) /\ ~Unsent(r, "toggle", t)
    BY <1>1, <1>2, <1>3, <1>5, <2>2
  <2> QED BY <1>1, <2>1, <2>3 DEF CrudInv, LastToggleCounts
<1> QED BY <1>6, <1>7, <1>8, <1>9, <1>10, <1>11, <1>12 DEF CrudInv

-------------------------------------------------------------------------------
(* The theorems. *)

LEMMA CrudTypesKept ==
    ASSUME CrudTypeOK, JobsInv, [CrudNext]_crudVars
    PROVE  CrudTypeOK' /\ JobsInv'
<1>1. ASSUME NEW s \in Sites, NEW redo \in BOOLEAN, NEW t \in Todos,
             Create(s, t, redo) \/ ToggleRead(s, t, redo) \/ Delete(s, t, redo)
      PROVE  CrudTypeOK' /\ JobsInv'
  BY <1>1, CreateTypes, ToggleReadTypes, DeleteTypes
<1>2. ASSUME NEW s \in Sites, NEW redo \in BOOLEAN, ClearCompleted(s, redo)
      PROVE  CrudTypeOK' /\ JobsInv'
  BY <1>2, ClearTypes
<1>3. ASSUME NEW j \in jobs, ToggleWrite(j) \/ Publish(j) \/ Unpublished(j)
      PROVE  CrudTypeOK' /\ JobsInv'
  BY <1>3, ToggleWriteTypes, PublishTypes, UnpublishedTypes
<1>4. ASSUME NEW s \in Sites, NEW p \in 1..Len(log), Consume(s, p) \/ ConsumeUnacked(s, p)
      PROVE  CrudTypeOK' /\ JobsInv'
  <2>1. /\ p \in (unacked[s] \union {at[s] + 1}) \intersect (1..Len(log))
        /\ at' = [at EXCEPT ![s] = IF p > @ THEN p ELSE @]
        /\ unacked' = [unacked EXCEPT ![s] = @ \ {p}] \/ unacked' = [unacked EXCEPT ![s] = @ \union {p}]
        /\ records' = records \/ records' = [records EXCEPT ![s] = Applied(@, log[p])]
        /\ \/ troubled' = troubled \union ({s} \X KeptOut(records[s], log[p]))
           \/ troubled' = troubled \union ({s} \X About(log[p]))
        /\ UNCHANGED <<jobs, log, used, ops, rejoins, local>>
    BY <1>4 DEF Consume, ConsumeUnacked
  <2>2. log[p] \in Messages
    BY StreamFacts
  <2>3. PICK S : S \subseteq About(log[p]) /\ troubled' = troubled \union ({s} \X S)
    BY <2>1, <2>2, MessageFacts
  <2>4. CrudTypeOK'
    BY <2>1, <2>3, ConsumerTypes
  <2> QED BY <2>1, <2>4 DEF JobsInv
<1>5. ASSUME NEW s \in Sites, Rejoin(s)
      PROVE  CrudTypeOK' /\ JobsInv'
  BY <1>5, RejoinTypes DEF Rejoin, JobsInv
<1>6. CASE UNCHANGED crudVars
  BY <1>6 DEF crudVars, CrudTypeOK, JobsInv
<1> QED BY <1>1, <1>2, <1>3, <1>4, <1>5, <1>6 DEF CrudNext

\* The records, the stream, and the places of the consumers in it keep their
\* types, and no consumer is past the end of the stream.
THEOREM CrudTypeCorrect == CrudSpec => []CrudTypeOK
<1>1. CrudInit => CrudTypeOK /\ JobsInv
  BY CrudTypesInitially
<1>2. CrudTypeOK /\ JobsInv /\ [CrudNext]_crudVars => CrudTypeOK' /\ JobsInv'
  BY CrudTypesKept
<1> QED BY <1>1, <1>2, PTL DEF CrudSpec

LEMMA CrudInvKept ==
    ASSUME CrudInv, [CrudNext]_crudVars
    PROVE  CrudInv'
<1>1. ASSUME NEW s \in Sites, NEW redo \in BOOLEAN, NEW t \in Todos,
             Create(s, t, redo) \/ ToggleRead(s, t, redo) \/ Delete(s, t, redo)
      PROVE  CrudInv'
  BY <1>1, CreateKeeps, ToggleReadKeeps, DeleteKeeps
<1>2. ASSUME NEW s \in Sites, NEW redo \in BOOLEAN, ClearCompleted(s, redo)
      PROVE  CrudInv'
  BY <1>2, ClearKeeps
<1>3. ASSUME NEW j \in jobs, ToggleWrite(j) \/ Publish(j) \/ Unpublished(j)
      PROVE  CrudInv'
  BY <1>3, ToggleWriteKeeps, PublishKeeps, UnpublishedKeeps
<1>4. ASSUME NEW s \in Sites, NEW p \in 1..Len(log), Consume(s, p) \/ ConsumeUnacked(s, p)
      PROVE  CrudInv'
  BY <1>4, ConsumeKeeps, ConsumeUnackedKeeps
<1>5. ASSUME NEW s \in Sites, Rejoin(s)
      PROVE  CrudInv'
  BY <1>5, RejoinKeeps
<1>6. CASE UNCHANGED crudVars
  <2>1. UNCHANGED <<log, at, unacked, troubled>> /\ UNCHANGED <<records, jobs, used, ops, rejoins, local>>
    BY <1>6 DEF crudVars
  <2>2. CrudTypeOK' /\ JobsInv'
    BY <2>1 DEF CrudInv, CrudTypeOK, JobsInv
  <2>3. NamesUsed' /\ CreatedOnce'
    BY <2>1, SameStream DEF CrudInv, NamesUsed, CreatedOnce
  <2>4. /\ Smooth' /\ PresentIsCreated' /\ MissingIsDeleted'
        /\ DeletedIsMissing' /\ CompletedIsToggled' /\ LastToggleCounts'
    BY <2>1, UnsentStays, LocalKeeps DEF LocalWrite
  <2> QED BY <2>2, <2>3, <2>4 DEF CrudInv
<1> QED BY <1>1, <1>2, <1>3, <1>4, <1>5, <1>6 DEF CrudNext

\* Of the toggles in the stream one is the last.
ToggledLast == \A t : Toggles(t) # {} => \E i : LastToggle(t, i)

LEMMA StreamStep ==
    ASSUME CrudTypeOK, [CrudNext]_crudVars
    PROVE  log' = log \/ \E m \in Messages : log' = Append(log, m)
<1>1. ASSUME NEW j \in jobs, Publish(j)
      PROVE  log' = log \/ \E m \in Messages : log' = Append(log, m)
  BY <1>1 DEF Publish, CrudTypeOK, Jobs
<1>2. CASE ~\E j \in jobs : Publish(j)
  BY <1>2 DEF CrudNext, crudVars, Create, ToggleRead, ToggleWrite, Delete, ClearCompleted,
              Unpublished, Consume, ConsumeUnacked, Rejoin
<1> QED BY <1>1, <1>2

LEMMA ToggledLastKept ==
    ASSUME CrudTypeOK, ToggledLast, [CrudNext]_crudVars
    PROVE  ToggledLast'
<1>1. CASE log' = log
  BY <1>1, SameStream DEF ToggledLast
<1>2. ASSUME NEW m \in Messages, log' = Append(log, m)
      PROVE  ToggledLast'
  <2> PICK end : end = Len(log) + 1
    OBVIOUS
  <2>1. /\ Len(log) \in Nat
        /\ \A t : \A i \in Toggles(t) : i \in Nat /\ i < end
        /\ \A t : /\ Toggles(t) \subseteq Toggles(t)'
                  /\ \A i \in Toggles(t)' : i \in Toggles(t) \/ i = end
    BY <1>2, StreamFacts, PositionFacts, Published DEF Toggles
  <2> SUFFICES ASSUME NEW t, Toggles(t)' # {}
               PROVE  \E i : LastToggle(t, i)'
    BY DEF ToggledLast
  <2>2. CASE end \in Toggles(t)'
    <3>1. LastToggle(t, end)'
      BY <2>1, <2>2 DEF LastToggle
    <3> QED BY <3>1
  <2>3. CASE end \notin Toggles(t)'
    <3>1. Toggles(t)' = Toggles(t)
      BY <2>1, <2>3
    <3>2. PICK i : LastToggle(t, i)
      BY <3>1 DEF ToggledLast
    <3>3. LastToggle(t, i)'
      BY <3>1, <3>2 DEF LastToggle
    <3> QED BY <3>3
  <2> QED BY <2>2, <2>3
<1> QED BY <1>1, <1>2, StreamStep

\* A quiet site's consumer is at the end of the stream, so what the invariant
\* says up to its place is said of the whole stream.
LEMMA QuietFollows ==
    ASSUME CrudInv, ToggledLast
    PROVE  SitesFollowStream
<1> SUFFICES ASSUME NoClear, NEW s \in Sites, Quiet(s), NEW t \in Todos \ local,
                    <<s, t>> \notin troubled, InOrder(t)
             PROVE  Has(s, t) = Says(t)
  BY DEF SitesFollowStream, NoClear
<1>1. /\ at[s] = Len(log) /\ ~UnsentClear(s) /\ \A op : ~Unsent(s, op, t)
  BY DEF Quiet, Unsent, UnsentClear
<1>2. /\ Len(log) \in Nat
      /\ \A op : \A i \in Positions(op, t) : i \in Nat /\ i <= at[s] /\ i \in DOMAIN log /\ log[i].op = op
      /\ \A i \in Toggles(t) : log[i].val \in BOOLEAN
  <2>1. \A op : \A i \in Positions(op, t) : i \in 1..Len(log) /\ log[i].op = op /\ log[i] \in Messages
    BY StreamFacts, PositionFacts DEF CrudInv
  <2>2. \A i \in Toggles(t) : log[i].val \in BOOLEAN
    BY <2>1, MessageFacts DEF Toggles
  <2> QED BY <1>1, <2>1, <2>2, StreamFacts DEF CrudInv
<1>3. records[s][t] \in RecordValues
  BY DEF CrudInv, CrudTypeOK
<1>4. CASE records[s][t] = None
  <2>1. \A c \in Creates(t) : \E d \in Deletes(t) : c < d
    BY <1>1, <1>2, <1>4 DEF CrudInv, MissingIsDeleted, Creates
  <2>2. ~\E i \in Positions("create", t) : \A j \in Positions("delete", t) : j < i
    BY <1>2, <2>1 DEF Creates, Deletes
  <2> QED BY <1>4, <2>2 DEF Has, Says
<1>5. CASE records[s][t] # None
  <2>1. PICK c : c \in Creates(t)
    BY <1>1, <1>5 DEF CrudInv, PresentIsCreated
  <2>2. \A d \in Deletes(t) : d < c
    <3> TAKE d \in Deletes(t)
    <3>1. ~(c < d)
      BY <1>2, <1>5, <2>1 DEF CrudInv, DeletedIsMissing, Deletes
    <3>2. c # d
      <4>1. log[c].op = "create" /\ log[d].op = "delete"
        BY <1>2, <2>1 DEF Creates, Deletes
      <4> QED BY <4>1
    <3> QED BY <1>2, <2>1, <3>1, <3>2 DEF Creates, Deletes
  <2>3. \E i \in Positions("create", t) : \A j \in Positions("delete", t) : j < i
    BY <2>1, <2>2 DEF Creates, Deletes
  <2>4. records[s][t].completed \in BOOLEAN
    BY <1>3, <1>5, RecordFacts
  <2> DEFINE SaysCompleted == \E i \in Toggles(t) : log[i].val /\ \A j \in Toggles(t) : j <= i
  <2>5. /\ Has(s, t) = IF records[s][t].completed THEN "completed" ELSE "active"
        /\ Says(t) = IF SaysCompleted THEN "completed" ELSE "active"
    BY <1>5, <2>3 DEF Has, Says, Toggles
  <2>6. ASSUME NEW i \in Toggles(t), \A j \in Toggles(t) : j <= i
        PROVE  records[s][t].completed = log[i].val
    <3>1. LastToggle(t, i) /\ i <= at[s]
      BY <1>2, <2>6 DEF LastToggle, Toggles
    <3> QED BY <1>1, <1>5, <3>1 DEF CrudInv, LastToggleCounts
  <2>7. SaysCompleted => records[s][t].completed = TRUE
    BY <1>2, <2>6
  <2>8. records[s][t].completed = TRUE => SaysCompleted
    <3> SUFFICES ASSUME records[s][t].completed = TRUE PROVE SaysCompleted
      OBVIOUS
    <3>1. Toggles(t) # {}
      BY <1>1, <1>5 DEF CrudInv, CompletedIsToggled
    <3>2. PICK i \in Toggles(t) : \A j \in Toggles(t) : j <= i
      BY <3>1 DEF ToggledLast, LastToggle
    <3>3. log[i].val = TRUE
      BY <2>6, <3>2
    <3> QED BY <3>2, <3>3
  <2> HIDE DEF SaysCompleted
  <2>9. CASE records[s][t].completed = TRUE
    BY <2>5, <2>8, <2>9
  <2>10. CASE records[s][t].completed = FALSE
    BY <2>5, <2>7, <2>10
  <2> QED BY <2>4, <2>9, <2>10
<1> QED BY <1>4, <1>5

\* SitesFollowStream for any number of sites, todos, mutations, replays and
\* restarts: of a todo none of whose messages failed, came twice or was refused
\* since the consumer started, a site that has seen the whole stream holds what
\* the stream says, whatever its own writes overtook.
THEOREM SitesFollow == CrudSpec => []SitesFollowStream
<1>1. CrudInit => CrudInv /\ ToggledLast
  <2>1. CrudInit => \A t : Toggles(t) = {}
    BY DEF CrudInit, Toggles, Positions
  <2> QED BY <2>1, InvInitially DEF ToggledLast
<1>2. CrudInv /\ ToggledLast /\ [CrudNext]_crudVars => CrudInv' /\ ToggledLast'
  BY CrudInvKept, ToggledLastKept DEF CrudInv
<1>3. CrudInv /\ ToggledLast => SitesFollowStream
  BY QuietFollows
<1> QED BY <1>1, <1>2, <1>3, PTL DEF CrudSpec
===============================================================================
