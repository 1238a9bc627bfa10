------------------------------- MODULE JobQueue -------------------------------
(***************************************************************************)
(* internal/queue: the goqite table of jobs, the worker pool that drains   *)
(* it, the retry layer around each handler and, for the suggest jobs, the  *)
(* spinner of the tab that asked for one                                   *)
(* (features/todo/handlers/llm_suggest.go, todo_sse.go).                   *)
(*                                                                         *)
(* The table is in SQLite and survives the process; everything else is     *)
(* lost in a crash.  goqite is modelled from its use: Receive hides a      *)
(* message for a time that nobody extends and counts the deliveries, a     *)
(* message delivered MaxReceive times is not delivered again, Delete takes *)
(* its row out.  The hidden time (5 s) is shorter than a job's retries.    *)
(***************************************************************************)
EXTENDS Naturals, FiniteSets

CONSTANTS
    Jobs,         \* messages
    Garbage,      \* the ones whose body does not decode (mustJSON's nil)
    Workers,      \* the pool's goroutines
    Attempts,     \* RetryConfig.Attempts
    MaxReceive,   \* goqite: deliveries of one message
    NoJob,        \* no message
    MaxRestarts   \* bound: crashes and shutdowns in a behaviour

ASSUME JobQueueAssumption ==
    /\ Garbage \subseteq Jobs
    /\ NoJob \notin Jobs
    /\ Attempts \in Nat \ {0}
    /\ MaxReceive \in Nat \ {0}
    /\ MaxRestarts \in Nat

VARIABLES
    row,        \* each job's row: not there yet, stored, deleted
    received,   \* how often each job was delivered
    hidden,     \* the jobs whose visibility timeout is running
    mode,       \* the process: up, stopping (Stop), closed (Close), down
    pc,         \* where each worker is
    job,        \* the job each worker has in hand
    attempt,    \* RetryConfig.Do's attempt counter
    result,     \* what the handler returned in this attempt
    answered,   \* the jobs whose POST the browser has the answer of
    spinning,   \* the jobs whose tab shows the spinner (signal aiPending)
    ended,      \* history: the jobs some worker ran to the end
    runs,       \* history: how often each job's handler ran
    restarts    \* crashes and shutdowns so far

table == <<row, received, hidden>>
worker == <<pc, job, attempt, result>>
tab == <<answered, spinning>>
history == <<ended, runs, restarts>>
vars == <<table, mode, worker, tab, history>>

Pcs == {"top", "receive", "handle", "feedback", "backoff", "delete", "stopped"}
Results == {"none", "ok", "transient", "permanent"}

TypeOK ==
    /\ row \in [Jobs -> {"absent", "stored", "deleted"}]
    /\ received \in [Jobs -> 0..MaxReceive]
    /\ hidden \subseteq Jobs
    /\ mode \in {"up", "stopping", "closed", "down"}
    /\ pc \in [Workers -> Pcs]
    /\ job \in [Workers -> Jobs \union {NoJob}]
    /\ attempt \in [Workers -> 0..Attempts]
    /\ result \in [Workers -> Results]
    /\ answered \subseteq Jobs /\ spinning \subseteq Jobs
    /\ ended \subseteq Jobs
    /\ runs \in [Jobs -> Nat]
    /\ restarts \in 0..MaxRestarts

Init ==
    /\ row = [j \in Jobs |-> "absent"]
    /\ received = [j \in Jobs |-> 0]
    /\ hidden = {}
    /\ mode = "up"
    /\ pc = [w \in Workers |-> "top"]
    /\ job = [w \in Workers |-> NoJob]
    /\ attempt = [w \in Workers |-> 0]
    /\ result = [w \in Workers |-> "none"]
    /\ answered = {} /\ spinning = {}
    /\ ended = {}
    /\ runs = [j \in Jobs |-> 0]
    /\ restarts = 0

-------------------------------------------------------------------------------
(* The request that asks for a job, and the table. *)

\* enqueueSuggest stores the job ...
Enqueue(j) ==
    /\ mode \in {"up", "stopping"}
    /\ row[j] = "absent"
    /\ row' = [row EXCEPT ![j] = "stored"]
    /\ UNCHANGED <<received, hidden, mode, worker, tab, history>>

\* ... and answers the POST, which turns the tab's spinner on.
Answer(j) ==
    /\ row[j] # "absent" /\ j \notin answered
    /\ answered' = answered \union {j}
    /\ spinning' = spinning \union {j}
    /\ UNCHANGED <<table, mode, worker, history>>

\* The visibility timeout of a delivered job runs out.
Reappear(j) ==
    /\ j \in hidden
    /\ hidden' = hidden \ {j}
    /\ UNCHANGED <<row, received, mode, worker, tab, history>>

-------------------------------------------------------------------------------
(* A worker. *)

Works == mode # "down"
Moves(w, a, b) == Works /\ pc[w] = a /\ pc' = [pc EXCEPT ![w] = b]

\* The loop's first select: stop, or ask the queue for a message.
Top(w) ==
    /\ Moves(w, "top", IF mode = "stopping" THEN "stopped" ELSE "receive")
    /\ UNCHANGED <<table, mode, job, attempt, result, tab, history>>

\* VARIANT: ReceiveAndWait on the background context, which Stop cannot end.
Interrupted_Background(w) ==
    /\ mode = "closed"
    /\ Moves(w, "receive", "top")
    /\ UNCHANGED <<table, mode, job, attempt, result, tab, history>>

\* ReceiveAndWait returns an error: Stop cancelled its context, or Close has
\* closed the database, after which the worker sleeps and tries again.
Interrupted(w) ==
    /\ \/ mode = "stopping" /\ Moves(w, "receive", "stopped")
       \/ mode = "closed" /\ Moves(w, "receive", "top")
    /\ UNCHANGED <<table, mode, job, attempt, result, tab, history>>

Visible(j) == row[j] = "stored" /\ j \notin hidden /\ received[j] < MaxReceive

\* VARIANT: the message is deleted when it is received.
Receive_DeletesFirst(w, j) ==
    /\ mode \in {"up", "stopping"}
    /\ Visible(j)
    /\ Moves(w, "receive", IF j \in Garbage THEN "delete" ELSE "handle")
    /\ row' = [row EXCEPT ![j] = "deleted"]
    /\ received' = [received EXCEPT ![j] = @ + 1]
    /\ job' = [job EXCEPT ![w] = j]
    /\ attempt' = [attempt EXCEPT ![w] = 0]
    /\ result' = [result EXCEPT ![w] = "none"]
    /\ ended' = ended \union (IF j \in Garbage THEN {j} ELSE {})
    /\ UNCHANGED <<hidden, mode, tab, runs, restarts>>

\* ReceiveAndWait delivers a job.  A body that does not decode is dropped by
\* processMessage: the worker goes straight to the delete.
Receive(w, j) ==
    /\ mode \in {"up", "stopping"}
    /\ Visible(j)
    /\ Moves(w, "receive", IF j \in Garbage THEN "delete" ELSE "handle")
    /\ received' = [received EXCEPT ![j] = @ + 1]
    /\ hidden' = hidden \union {j}
    /\ job' = [job EXCEPT ![w] = j]
    /\ attempt' = [attempt EXCEPT ![w] = 0]
    /\ result' = [result EXCEPT ![w] = "none"]
    /\ ended' = ended \union (IF j \in Garbage THEN {j} ELSE {})
    /\ UNCHANGED <<row, mode, tab, runs, restarts>>

\* The handler runs and returns r.  handleSuggestJob sends suggest_result
\* before it returns, on failure too, and streamSuggestResult turns the
\* spinner off.
Handle(w, r) ==
    /\ Moves(w, "handle", "feedback")
    /\ result' = [result EXCEPT ![w] = r]
    /\ attempt' = [attempt EXCEPT ![w] = @ + 1]
    /\ runs' = [runs EXCEPT ![job[w]] = @ + 1]
    /\ spinning' = spinning \ {job[w]}
    /\ UNCHANGED <<table, mode, job, answered, ended, restarts>>

\* VARIANT: one attempt too many.
Again_OffByOne(w) ==
    result[w] = "transient" /\ attempt[w] <= Attempts

\* RetryIf and Attempts: a 4xx other than 429 is never tried again.
Again(w) == result[w] = "transient" /\ attempt[w] < Attempts

\* Do sends the attempt's "retry" event, whose signals (retrySignalFields)
\* turn the spinner off after a success and on after a failure, and tries
\* again or gives up.
Feedback(w) ==
    /\ Moves(w, "feedback", IF Again(w) THEN "backoff" ELSE "delete")
    /\ spinning' = IF result[w] = "ok" THEN spinning \ {job[w]}
                   ELSE spinning \union {job[w]}
    /\ ended' = IF Again(w) THEN ended ELSE ended \union {job[w]}
    /\ UNCHANGED <<table, mode, job, attempt, result, answered, runs, restarts>>

\* The wait between attempts runs on the background context: Stop and Close
\* do not cut it short.
Backoff(w) ==
    /\ Moves(w, "backoff", "handle")
    /\ UNCHANGED <<table, mode, job, attempt, result, tab, history>>

\* VARIANT: the worker returns after a message instead of going on.
Delete_Returns(w) ==
    /\ Moves(w, "delete", "stopped")
    /\ IF mode = "closed"
       THEN UNCHANGED <<row, hidden>>
       ELSE /\ row' = [row EXCEPT ![job[w]] = "deleted"]
            /\ hidden' = hidden \ {job[w]}
    /\ job' = [job EXCEPT ![w] = NoJob]
    /\ attempt' = [attempt EXCEPT ![w] = 0]
    /\ result' = [result EXCEPT ![w] = "none"]
    /\ UNCHANGED <<received, mode, tab, history>>

\* The message is deleted, whatever the handler returned; after Close the
\* delete fails, which is only logged.
Delete(w) ==
    /\ Moves(w, "delete", "top")
    /\ IF mode = "closed"
       THEN UNCHANGED <<row, hidden>>
       ELSE /\ row' = [row EXCEPT ![job[w]] = "deleted"]
            /\ hidden' = hidden \ {job[w]}
    /\ job' = [job EXCEPT ![w] = NoJob]
    /\ attempt' = [attempt EXCEPT ![w] = 0]
    /\ result' = [result EXCEPT ![w] = "none"]
    /\ UNCHANGED <<received, mode, tab, history>>

-------------------------------------------------------------------------------
(* The process. *)

\* WorkerPool.Stop cancels the workers' context and closes stopCh.
Stop ==
    /\ mode = "up" /\ restarts < MaxRestarts
    /\ mode' = "stopping"
    /\ UNCHANGED <<table, worker, tab, history>>

\* Queue.Close, the app's shutdown: the database is closed under the workers.
Close ==
    /\ mode = "up" /\ restarts < MaxRestarts
    /\ mode' = "closed"
    /\ UNCHANGED <<table, worker, tab, history>>

\* The process is gone, and with it everything but the table and the tabs.
GoDown ==
    /\ restarts < MaxRestarts
    /\ mode' = "down"
    /\ restarts' = restarts + 1
    /\ pc' = [w \in Workers |-> "stopped"]
    /\ job' = [w \in Workers |-> NoJob]
    /\ attempt' = [w \in Workers |-> 0]
    /\ result' = [w \in Workers |-> "none"]
    /\ UNCHANGED <<table, tab, ended, runs>>

Crash == mode # "down" /\ GoDown

\* The process ends after Close, or once Stop has returned (its wg.Wait has
\* seen every worker out).
Exit ==
    /\ \/ mode = "stopping" /\ \A w \in Workers : pc[w] = "stopped"
       \/ mode = "closed"
    /\ GoDown

\* queue.New finds the table as it was left; StartWorkers.
Restart ==
    /\ mode = "down"
    /\ mode' = "up"
    /\ pc' = [w \in Workers |-> "top"]
    /\ UNCHANGED <<table, job, attempt, result, tab, history>>

-------------------------------------------------------------------------------
WorkerNext(w) ==
    \/ Top(w)
    \/ Interrupted(w)
    \/ \E j \in Jobs : Receive(w, j)
    \/ \E r \in Results \ {"none"} : Handle(w, r)
    \/ Feedback(w)
    \/ Backoff(w)
    \/ Delete(w)

Next ==
    \/ \E j \in Jobs : Enqueue(j) \/ Answer(j) \/ Reappear(j)
    \/ \E w \in Workers : WorkerNext(w)
    \/ Stop \/ Close \/ Crash \/ Exit \/ Restart

\* Goroutines run, handlers return (every LLM call has a timeout), timeouts
\* run out, and a process that is done ends and is started again.  Requests,
\* the decision to stop and crashes are the environment's.
Fairness ==
    /\ \A w \in Workers : WF_vars(WorkerNext(w))
    /\ \A j \in Jobs : WF_vars(Reappear(j))
    /\ WF_vars(Exit)
    /\ WF_vars(Restart)

Spec == Init /\ [][Next]_vars /\ Fairness

-------------------------------------------------------------------------------
\* At-least-once: a stored job leaves the table only after some worker has run
\* it to the end (success, a failure that is not retried, the last attempt),
\* whatever crashes, shutdowns and redeliveries come between.
RunBeforeDelete == \A j \in Jobs : row[j] = "deleted" => j \in ended

\* A job that fails for ever costs a bounded number of handler runs, over all
\* workers, redeliveries and restarts together.
BoundedRuns == \A j \in Jobs : runs[j] <= received[j] * Attempts

\* No job is forgotten: a stored job is finished and deleted, or has used up
\* its deliveries.
JobSettles ==
    \A j \in Jobs : row[j] = "stored" ~> (row[j] = "deleted" \/ received[j] = MaxReceive)

\* Stop returns: busy workers end their job, idle ones are woken up.
StopReturns == mode = "stopping" ~> (\A w \in Workers : pc[w] = "stopped")

\* llm_suggest.go:104-108: a job that is over has released the client's
\* spinner, also when it failed, so that the tab never spins for ever.
SpinnerReleased ==
    [][\A w \in Workers :
          (pc[w] = "feedback" /\ pc'[w] = "delete") => job[w] \notin spinning']_vars
===============================================================================
