---------------------------- MODULE JobQueue_proofs ----------------------------
(***************************************************************************)
(* At-least-once for any number of jobs, workers, attempts, deliveries and *)
(* restarts.  RunBeforeDelete is made inductive by saying what a worker    *)
(* that has reached its delete has behind it (DeleteMeansEnded), and the   *)
(* type invariant by saying what a worker with a job in hand holds         *)
(* (InHand): the two are lost together in a crash, which is why a crash    *)
(* between the end of a job and its delete repeats it and never loses it.  *)
(***************************************************************************)
EXTENDS JobQueue, FiniteSetTheorems, TLAPS

\* A worker that handles a job has one, and an attempt left to make.
InHand ==
    \A w \in Workers :
        /\ pc[w] \in {"handle", "feedback", "backoff", "delete"} => job[w] \in Jobs
        /\ pc[w] \in {"handle", "backoff"} => attempt[w] < Attempts

DeleteMeansEnded == \A w \in Workers : pc[w] = "delete" => job[w] \in ended

JobInv == TypeOK /\ InHand /\ DeleteMeansEnded /\ RunBeforeDelete

USE JobQueueAssumption

LEMMA JobInitially == Init => JobInv
BY DEF Init, JobInv, TypeOK, InHand, DeleteMeansEnded, RunBeforeDelete, Pcs, Results

\* Every step keeps the invariant, one case per action.
LEMMA JobStep == JobInv /\ [Next]_vars => JobInv'
<1> SUFFICES ASSUME JobInv, [Next]_vars
             PROVE  JobInv'
  OBVIOUS
<1> USE DEF JobInv
<1>1. ASSUME NEW j \in Jobs, Enqueue(j) \/ Answer(j) \/ Reappear(j)
      PROVE  JobInv'
  <2>1. UNCHANGED <<received, mode, worker, history>>
        /\ row' \in [Jobs -> {"absent", "stored", "deleted"}]
        /\ hidden' \subseteq Jobs /\ answered' \subseteq Jobs /\ spinning' \subseteq Jobs
        /\ \A k \in Jobs : row'[k] = "deleted" => row[k] = "deleted"
    BY <1>1 DEF Enqueue, Answer, Reappear, table, tab, TypeOK
  <2>. QED
    BY <2>1 DEF TypeOK, InHand, DeleteMeansEnded, RunBeforeDelete, worker, history
<1>2. ASSUME NEW w \in Workers, Top(w) \/ Interrupted(w)
      PROVE  JobInv'
  <2>1. PICK b \in {"top", "receive", "stopped"} :
           pc' = [pc EXCEPT ![w] = b] /\ UNCHANGED <<table, mode, job, attempt, result, tab, history>>
    BY <1>2 DEF Top, Interrupted, Moves
  <2>. QED
    BY <2>1 DEF TypeOK, InHand, DeleteMeansEnded, RunBeforeDelete, table, tab, history, Pcs
<1>3. ASSUME NEW w \in Workers, NEW j \in Jobs, Receive(w, j)
      PROVE  JobInv'
  <2>1. TypeOK'
    BY <1>3 DEF Receive, Visible, Moves, TypeOK, Pcs, Results, tab
  <2>2. InHand'
    BY <1>3 DEF Receive, Moves, TypeOK, InHand
  <2>3. DeleteMeansEnded'
    BY <1>3 DEF Receive, Moves, TypeOK, DeleteMeansEnded
  <2>4. RunBeforeDelete'
    BY <1>3 DEF Receive, RunBeforeDelete
  <2>. QED
    BY <2>1, <2>2, <2>3, <2>4
<1>4. ASSUME NEW w \in Workers, NEW r \in Results \ {"none"}, Handle(w, r)
      PROVE  JobInv'
  <2>1. job[w] \in Jobs /\ attempt[w] < Attempts
    BY <1>4 DEF Handle, Moves, InHand
  <2>2. TypeOK'
    BY <1>4, <2>1 DEF Handle, Moves, TypeOK, Pcs, table
  <2>3. InHand' /\ DeleteMeansEnded' /\ RunBeforeDelete'
    BY <1>4, <2>1 DEF Handle, Moves, TypeOK, table, InHand, DeleteMeansEnded, RunBeforeDelete
  <2>. QED
    BY <2>2, <2>3
<1>5. ASSUME NEW w \in Workers, Feedback(w)
      PROVE  JobInv'
  <2>1. job[w] \in Jobs
    BY <1>5 DEF Feedback, Moves, InHand
  <2>2. TypeOK'
    BY <1>5, <2>1 DEF Feedback, Moves, TypeOK, Pcs, table
  <2>3. InHand' /\ DeleteMeansEnded' /\ RunBeforeDelete'
    BY <1>5, <2>1 DEF Feedback, Moves, Again, TypeOK, table, InHand, DeleteMeansEnded, RunBeforeDelete
  <2>. QED
    BY <2>2, <2>3
<1>6. ASSUME NEW w \in Workers, Backoff(w)
      PROVE  JobInv'
  BY <1>6 DEF Backoff, Moves, TypeOK, InHand, DeleteMeansEnded, RunBeforeDelete,
              table, tab, history, Pcs
<1>7. ASSUME NEW w \in Workers, Delete(w)
      PROVE  JobInv'
  <2>1. job[w] \in Jobs /\ job[w] \in ended
    BY <1>7 DEF Delete, Moves, InHand, DeleteMeansEnded
  <2>2. TypeOK'
    BY <1>7, <2>1 DEF Delete, Moves, TypeOK, Pcs, Results, tab, history
  <2>3. InHand' /\ DeleteMeansEnded'
    BY <1>7 DEF Delete, Moves, TypeOK, history, InHand, DeleteMeansEnded
  <2>4. RunBeforeDelete'
    BY <1>7, <2>1 DEF Delete, TypeOK, history, RunBeforeDelete
  <2>. QED
    BY <2>2, <2>3, <2>4
<1>8. CASE Stop \/ Close
  BY <1>8 DEF Stop, Close, TypeOK, InHand, DeleteMeansEnded, RunBeforeDelete,
              table, worker, tab, history
<1>9. CASE GoDown
  BY <1>9 DEF GoDown, TypeOK, InHand, DeleteMeansEnded, RunBeforeDelete, table, tab, Pcs, Results
<1>10. CASE Restart
  BY <1>10 DEF Restart, TypeOK, InHand, DeleteMeansEnded, RunBeforeDelete, table, tab, history, Pcs
<1>11. CASE UNCHANGED vars
  BY <1>11 DEF vars, TypeOK, InHand, DeleteMeansEnded, RunBeforeDelete, table, worker, tab, history
<1>. QED
  BY <1>1, <1>2, <1>3, <1>4, <1>5, <1>6, <1>7, <1>8, <1>9, <1>10, <1>11
     DEF Next, WorkerNext, Crash, Exit

\* Every variable keeps its type; the attempt counter never passes Attempts
\* and no message is delivered more than MaxReceive times.
THEOREM JobTypeCorrect == Spec => []TypeOK
<1>1. JobInv => TypeOK
  BY DEF JobInv
<1>. QED
  BY <1>1, JobInitially, JobStep, PTL DEF Spec

\* At-least-once: no job leaves the table before a worker ran it to its end.
THEOREM AtLeastOnce == Spec => []RunBeforeDelete
<1>1. JobInv => RunBeforeDelete
  BY DEF JobInv
<1>. QED
  BY <1>1, JobInitially, JobStep, PTL DEF Spec

-------------------------------------------------------------------------------
(* The bound on runs.  Every delivery of a job brings Attempts runs with it, *)
(* which the worker uses up one after the other or loses.                    *)

\* The attempts that w, if it works on a job, has left; all attempts left for j.
WorksOn(w, j) == pc[w] \in {"handle", "feedback", "backoff"} /\ job[w] = j
Left(j) == {a \in Workers \X (1..Attempts) : WorksOn(a[1], j) /\ attempt[a[1]] < a[2]}

BudgetInv == \A j \in Jobs : runs[j] + Cardinality(Left(j)) <= received[j] * Attempts

LEMMA LeftFinite ==
    ASSUME IsFiniteSet(Workers), NEW j
    PROVE  IsFiniteSet(Left(j)) /\ Cardinality(Left(j)) \in Nat
<1>1. IsFiniteSet(1..Attempts)
  BY FS_Interval
<1>2. IsFiniteSet(Workers \X (1..Attempts))
  BY <1>1, FS_Product
<1> QED
  BY <1>2, FS_Subset, FS_CardinalityType DEF Left

\* A step after which no job has been run or delivered, and no attempt gained.
LEMMA NoGain ==
    ASSUME IsFiniteSet(Workers), JobInv, BudgetInv, UNCHANGED <<runs, received>>,
           \A w \in Workers : \A j \in Jobs :
              WorksOn(w, j)' => WorksOn(w, j) /\ attempt'[w] = attempt[w]
    PROVE  BudgetInv'
<1> SUFFICES ASSUME NEW j \in Jobs
             PROVE  runs'[j] + Cardinality(Left(j)') <= received'[j] * Attempts
  BY DEF BudgetInv
<1>1. Left(j)' \subseteq Left(j)
  BY DEF Left
<1>2. /\ Cardinality(Left(j)') <= Cardinality(Left(j))
      /\ Cardinality(Left(j)') \in Nat /\ Cardinality(Left(j)) \in Nat
  BY <1>1, LeftFinite, FS_Subset, FS_CardinalityType
<1>3. runs[j] \in Nat /\ received[j] * Attempts \in Nat
  BY DEF JobInv, TypeOK
<1> QED
  BY <1>2, <1>3 DEF BudgetInv

LEMMA BudgetStep ==
    ASSUME IsFiniteSet(Workers), JobInv, BudgetInv, [Next]_vars PROVE BudgetInv'
<1> USE DEF JobInv
<1>1. ASSUME NEW w \in Workers, NEW k \in Jobs, Receive(w, k) PROVE BudgetInv'
  <2> SUFFICES ASSUME NEW j \in Jobs
               PROVE  runs'[j] + Cardinality(Left(j)') <= received'[j] * Attempts
    BY DEF BudgetInv
  <2>1. /\ pc[w] = "receive" /\ job' = [job EXCEPT ![w] = k]
        /\ attempt' = [attempt EXCEPT ![w] = 0] /\ runs' = runs
        /\ received' = [received EXCEPT ![k] = @ + 1]
        /\ \A v \in Workers \ {w} : pc'[v] = pc[v]
    BY <1>1 DEF Receive, Moves, TypeOK
  <2>2. /\ runs[j] \in Nat /\ received[j] \in Nat /\ Attempts \in Nat
        /\ runs[j] + Cardinality(Left(j)) <= received[j] * Attempts
    BY DEF TypeOK, BudgetInv
  <2>3. IsFiniteSet(Left(j)) /\ Cardinality(Left(j)) \in Nat
    BY LeftFinite
  <2>4. CASE j # k
    <3>1. Left(j)' = Left(j)
      BY <2>1, <2>4 DEF Left, WorksOn, TypeOK
    <3> QED
      BY <2>1, <2>2, <2>4, <3>1 DEF TypeOK
  <2>5. CASE j = k
    <3> DEFINE New == {w} \X (1..Attempts)
    <3>1. Left(j)' \subseteq Left(j) \union New
      BY <2>1 DEF Left, WorksOn, TypeOK
    <3>2. IsFiniteSet(New) /\ Cardinality(New) = Attempts
      <4>1. IsFiniteSet(1..Attempts) /\ Cardinality(1..Attempts) = Attempts
        BY FS_Interval
      <4>2. IsFiniteSet({w}) /\ Cardinality({w}) = 1
        BY FS_Singleton
      <4>3. /\ IsFiniteSet({w} \X (1..Attempts))
            /\ Cardinality({w} \X (1..Attempts)) = Cardinality({w}) * Cardinality(1..Attempts)
        BY <4>1, <4>2, FS_Product, Zenon
      <4>4. Attempts \in Nat => 1 * Attempts = Attempts
        OBVIOUS
      <4> QED
        BY <2>2, <4>1, <4>2, <4>3, <4>4
    <3>3. /\ IsFiniteSet(Left(j) \union New)
          /\ Cardinality(Left(j) \union New)
               = Cardinality(Left(j)) + Cardinality(New) - Cardinality(Left(j) \intersect New)
      BY <2>3, <3>2, FS_Union
    <3>4. Cardinality(Left(j) \intersect New) \in Nat
      BY <2>3, FS_Intersection, FS_CardinalityType
    <3>5. Cardinality(Left(j)') <= Cardinality(Left(j) \union New) /\ Cardinality(Left(j)') \in Nat
      BY <3>1, <3>3, FS_Subset, FS_CardinalityType
    <3>6. Cardinality(Left(j)') <= Cardinality(Left(j)) + Attempts
      BY <2>2, <2>3, <3>2, <3>3, <3>4, <3>5
    <3>7. received'[j] * Attempts = received[j] * Attempts + Attempts
      BY <2>1, <2>2, <2>5 DEF TypeOK
    <3>8. received[j] * Attempts \in Nat /\ runs'[j] = runs[j]
      BY <2>1, <2>2
    <3> QED
      BY <2>2, <2>3, <3>5, <3>6, <3>7, <3>8
  <2> QED
    BY <2>4, <2>5
<1>2. ASSUME NEW w \in Workers, NEW r \in Results, Handle(w, r) PROVE BudgetInv'
  <2> SUFFICES ASSUME NEW j \in Jobs
               PROVE  runs'[j] + Cardinality(Left(j)') <= received'[j] * Attempts
    BY DEF BudgetInv
  <2>1. /\ pc[w] = "handle" /\ pc' = [pc EXCEPT ![w] = "feedback"] /\ job' = job
        /\ attempt' = [attempt EXCEPT ![w] = @ + 1] /\ received' = received
        /\ runs' = [runs EXCEPT ![job[w]] = @ + 1]
        /\ job[w] \in Jobs /\ attempt[w] < Attempts /\ attempt[w] \in Nat
    BY <1>2 DEF Handle, Moves, TypeOK, InHand, table
  <2>2. /\ runs[j] \in Nat /\ received[j] * Attempts \in Nat
        /\ runs[j] + Cardinality(Left(j)) <= received[j] * Attempts
    BY DEF TypeOK, BudgetInv
  <2>3. IsFiniteSet(Left(j)) /\ Cardinality(Left(j)) \in Nat
    BY LeftFinite
  <2>4. CASE j # job[w]
    <3>1. Left(j)' \subseteq Left(j)
      BY <2>1, <2>4 DEF Left, WorksOn, TypeOK
    <3>2. Cardinality(Left(j)') <= Cardinality(Left(j)) /\ Cardinality(Left(j)') \in Nat
      BY <2>3, <3>1, FS_Subset, FS_CardinalityType
    <3> QED
      BY <2>1, <2>2, <2>3, <2>4, <3>2 DEF TypeOK
  <2>5. CASE j = job[w]
    <3> DEFINE a == <<w, attempt[w] + 1>>
    <3>1. a \in Left(j)
      BY <2>1, <2>5 DEF Left, WorksOn
    <3>2. Left(j)' \subseteq Left(j) \ {a}
      BY <2>1, <2>5 DEF Left, WorksOn, TypeOK
    <3>3. IsFiniteSet(Left(j) \ {a}) /\ Cardinality(Left(j) \ {a}) = Cardinality(Left(j)) - 1
      BY <2>3, <3>1, FS_RemoveElement
    <3>4. Cardinality(Left(j)') <= Cardinality(Left(j)) - 1 /\ Cardinality(Left(j)') \in Nat
      BY <3>2, <3>3, FS_Subset, FS_CardinalityType
    <3>5. runs'[j] = runs[j] + 1
      BY <2>1, <2>5 DEF TypeOK
    <3> QED
      BY <2>1, <2>2, <2>3, <3>4, <3>5
  <2> QED
    BY <2>4, <2>5
<1>3. ASSUME NEW w \in Workers, Top(w) \/ Interrupted(w) \/ Feedback(w) \/ Backoff(w) \/ Delete(w)
      PROVE  BudgetInv'
  <2>1. /\ UNCHANGED <<runs, received>>
        /\ \A v \in Workers \ {w} : pc'[v] = pc[v] /\ job'[v] = job[v] /\ attempt'[v] = attempt[v]
    BY <1>3 DEF Top, Interrupted, Feedback, Backoff, Delete, Moves, TypeOK, table, history
  <2>2. \A j \in Jobs : WorksOn(w, j)' => WorksOn(w, j) /\ attempt'[w] = attempt[w]
    BY <1>3 DEF Top, Interrupted, Feedback, Backoff, Delete, Moves, TypeOK, WorksOn
  <2> QED
    BY <2>1, <2>2, NoGain DEF WorksOn
<1>4. CASE GoDown \/ Restart
  <2>1. /\ UNCHANGED <<runs, received>>
        /\ \A w \in Workers : pc'[w] \in {"stopped", "top"}
    BY <1>4 DEF GoDown, Restart, table, history
  <2> QED
    BY <2>1, NoGain DEF WorksOn
<1>5. ASSUME UNCHANGED <<worker, runs, received>> PROVE BudgetInv'
  BY <1>5, NoGain DEF WorksOn, worker
<1>6. ASSUME NEW j \in Jobs, Enqueue(j) \/ Answer(j) \/ Reappear(j)
      PROVE  UNCHANGED <<worker, runs, received>>
  BY <1>6 DEF Enqueue, Answer, Reappear, table, history
<1>7. CASE Stop \/ Close \/ UNCHANGED vars
  BY <1>5, <1>7 DEF Stop, Close, vars, table, history
<1> QED
  BY <1>1, <1>2, <1>3, <1>4, <1>5, <1>6, <1>7 DEF Next, WorkerNext, Crash, Exit

\* A job's handler runs at most Attempts times per delivery, over all workers,
\* redeliveries, crashes and restarts together, for any finite pool of workers.
THEOREM RunsAreBounded == IsFiniteSet(Workers) /\ Spec => []BoundedRuns
<1> SUFFICES ASSUME IsFiniteSet(Workers) PROVE Spec => []BoundedRuns
  OBVIOUS
<1>1. Init => BudgetInv
  <2> SUFFICES ASSUME Init, NEW j \in Jobs
               PROVE  runs[j] + Cardinality(Left(j)) <= received[j] * Attempts
    BY DEF BudgetInv
  <2>1. Left(j) = {} /\ Cardinality({}) = 0
    BY FS_EmptySet DEF Init, Left, WorksOn
  <2> QED
    BY <2>1 DEF Init
<1>2. JobInv /\ BudgetInv /\ [Next]_vars => BudgetInv'
  BY BudgetStep
<1>3. JobInv /\ BudgetInv => BoundedRuns
  <2> SUFFICES ASSUME JobInv, BudgetInv, NEW j \in Jobs PROVE runs[j] <= received[j] * Attempts
    BY DEF BoundedRuns
  <2>1. Cardinality(Left(j)) \in Nat /\ runs[j] \in Nat /\ received[j] * Attempts \in Nat
    BY LeftFinite DEF JobInv, TypeOK
  <2> QED
    BY <2>1 DEF BudgetInv
<1> QED
  BY <1>1, <1>2, <1>3, JobInitially, JobStep, PTL DEF Spec
===============================================================================
