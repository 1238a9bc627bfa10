--------------------------- MODULE Onboarding_proofs ---------------------------
(***************************************************************************)
(* Proofs about Onboarding: its invariants hold for any number of clicks,  *)
(* created todos, examples and restarts.                                   *)
(***************************************************************************)
EXTENDS Onboarding, FiniteSetTheorems, TLAPS

\* The numbers of the steps, and how a run's step and state can look.
LEMMA StepFacts ==
    /\ Greet \in Steps /\ Await \in Steps /\ Finalize \in Steps
    /\ ExampleSteps \subseteq Steps /\ Steps \subseteq Nat
    /\ Await \notin ExampleSteps /\ Greet \notin ExampleSteps
    /\ \A s \in Steps \ {Finalize} : s + 1 \in Steps
  BY OnboardingAssumption DEF Greet, Await, Finalize, ExampleSteps, Steps

-------------------------------------------------------------------------------
(* The run. *)

\* A run is completed in its last step only, and what follows it is new to it.
\* A request that is about to signal has read a run, once; and a signal was
\* sent by a request.
RunInv ==
    /\ \A r \in Clicks :
          /\ run[r].state = "completed" => run[r].step = Finalize
          /\ starter[r] \in {"none", "start"} => run[r].state = "absent"
    /\ \A c \in Creates :
          /\ create[c] \in {"none", "saved"} => target[c] = None
          /\ create[c] = "signal" => target[c] \in Clicks
    /\ \A r \in signalled : \E c \in Creates : target[c] = r

IInv == TypeOK /\ RunInv /\ ExamplesFollowTodo

\* A step of the run's own changes nothing but the run, which goes to the state
\* st of step k, and its examples, which gain those of new.
RunMove(r, k, st, new) ==
    /\ k \in Steps /\ st \in States \ {"absent"}
    /\ run' = [run EXCEPT ![r] = [step |-> k, state |-> st]]
    /\ run[r].state # "absent"
    /\ st = "completed" => k = Finalize
    /\ UNCHANGED <<signalled, handler, creation, restarts>>
    /\ new \subseteq ExampleSteps /\ new \subseteq {run[r].step}
    /\ examples' = [examples EXCEPT ![r] = @ \union new]
    /\ \/ k = run[r].step
       \/ /\ k = run[r].step + 1
          /\ run[r].step \in ExampleSteps => new = {run[r].step}
          /\ run[r].step = Await => r \in signalled

LEMMA EngineStep ==
    ASSUME IInv, NEW r \in Clicks, NEW k, NEW st, NEW new, RunMove(r, k, st, new)
    PROVE  IInv'
<1> USE DEF IInv, handler, creation, RunMove
<1>1. /\ run'[r] = [step |-> k, state |-> st] /\ examples'[r] = examples[r] \union new
      /\ \A q \in Clicks \ {r} : run'[q] = run[q] /\ examples'[q] = examples[q]
      /\ run[r].step \in Nat /\ k \in Nat /\ run[r].step \in Steps
  BY StepFacts DEF TypeOK
<1>2. TypeOK'
  BY DEF TypeOK
<1>3. RunInv'
  BY <1>1 DEF RunInv
<1>4. k > Await => \E c \in Creates : target[c] = r
  BY <1>1 DEF Await, RunInv, ExamplesFollowTodo
<1>5. ASSUME NEW e \in 3..(k - 1), e \in ExampleSteps PROVE e \in examples[r] \union new
  <2>1. CASE e \in 3..(run[r].step - 1)
    BY <1>5, <2>1 DEF ExamplesFollowTodo
  <2>2. CASE e = run[r].step
    BY <1>1, <1>5, <2>2
  <2> QED
    BY <1>1, <1>5, <2>1, <2>2
<1>6. ASSUME NEW e \in examples[r] \union new PROVE e \in 3..k
  <2>1. CASE e \in examples[r]
    <3>1. e \in 3..run[r].step
      BY <2>1 DEF ExamplesFollowTodo
    <3> QED
      BY <1>1, <3>1
  <2>2. CASE e \in new
    <3>1. e = run[r].step /\ e \in 3..(Examples + 2)
      BY <2>2 DEF ExampleSteps
    <3> QED
      BY <1>1, <3>1
  <2> QED
    BY <1>6, <2>1, <2>2
<1>7. ExamplesFollowTodo'
  <2> SUFFICES ASSUME NEW q \in Clicks
               PROVE  /\ run'[q].step > Await => \E c \in Creates : target'[c] = q
                      /\ (3..(run'[q].step - 1)) \intersect ExampleSteps \subseteq examples'[q]
                      /\ examples'[q] \subseteq 3..run'[q].step
    BY DEF ExamplesFollowTodo
  <2>1. CASE q # r
    BY <1>1, <2>1 DEF ExamplesFollowTodo
  <2>2. CASE q = r
    BY <1>1, <1>4, <1>5, <1>6, <2>2
  <2> QED
    BY <2>1, <2>2
<1> QED
  BY <1>2, <1>3, <1>7

\* An update of the state alone, and none at all, as updates of both fields.
LEMMA BothFields ==
    ASSUME TypeOK, NEW r \in Clicks
    PROVE  /\ \A st : [run EXCEPT ![r].state = st]
                        = [run EXCEPT ![r] = [step |-> run[r].step, state |-> st]]
           /\ run = [run EXCEPT ![r] = [step |-> run[r].step, state |-> run[r].state]]
           /\ examples = [examples EXCEPT ![r] = @ \union {}]
           /\ run[r].step \in Steps /\ run[r].state \in States
<1> USE DEF TypeOK
<1>1. run[r] \in [step : Steps, state : States] /\ examples[r] \union {} = examples[r]
  OBVIOUS
<1>2. run[r] = [step |-> run[r].step, state |-> run[r].state]
  BY <1>1
<1>3. \A st : [run[r] EXCEPT !.state = st] = [step |-> run[r].step, state |-> st]
  BY <1>1
<1> QED
  BY <1>1, <1>2, <1>3

LEMMA InvStep == ASSUME IInv, [Next]_vars PROVE IInv'
<1> USE DEF IInv, TypeOK, RunInv, ExamplesFollowTodo
<1>1. ASSUME NEW r \in Clicks, Click(r) PROVE IInv'
  BY <1>1 DEF Click, Goes, engine, creation
<1>2. ASSUME NEW r \in Clicks, StartRun(r) PROVE IInv'
  <2>1. starter' \in [Clicks -> {"none", "start", "store", "poll", "over", "lost"}]
    BY <1>2 DEF StartRun, Goes
  <2>2. /\ run' \in [Clicks -> [step : Steps, state : States]]
        /\ \A q \in Clicks : run'[q].step = run[q].step
        /\ \A q \in Clicks : run'[q] = run[q] \/ (q = r /\ run'[q].state = "queued")
    <3>1. PICK st \in States : /\ run' = [run EXCEPT ![r] = [step |-> run[r].step, state |-> st]]
                               /\ st = "queued" \/ run' = run
      BY <1>2, BothFields DEF StartRun, States
    <3> QED
      BY <3>1, BothFields
  <2>3. ends' \in [Clicks -> SUBSET {"completed", "error", "timeout"}]
    BY SMTT(30), <1>2 DEF StartRun
  <2>4. TypeOK'
    BY <1>2, <2>1, <2>2, <2>3 DEF StartRun, creation
  <2>5. \A q \in Clicks : starter'[q] \in {"none", "start"} => q # r /\ starter'[q] = starter[q]
    BY <1>2 DEF StartRun, Goes
  <2>6. RunInv'
    BY <1>2, <2>2, <2>5 DEF StartRun, creation
  <2>7. ExamplesFollowTodo'
    BY <1>2, <2>2 DEF StartRun, creation
  <2> QED
    BY <2>4, <2>6, <2>7
<1>3. ASSUME NEW r \in Clicks, StoreRunID(r) PROVE IInv'
  BY <1>3 DEF StoreRunID, Goes, engine, creation
<1>4. ASSUME NEW r \in Clicks, Progress(r) PROVE IInv'
  <2>1. CurrentStep(r) \in Steps
    BY StepFacts DEF CurrentStep
  <2> QED
    BY <1>4, <2>1 DEF Progress, engine, creation
<1>5. ASSUME NEW r \in Clicks, Finish(r) PROVE IInv'
  <2>1. shown' \in [Clicks -> [step : Steps \union {0}, error : BOOLEAN]]
    <3>1. PICK k \in Steps, e \in BOOLEAN :
             shown' = [shown EXCEPT ![r] = [step |-> k, error |-> e]]
      BY <1>5, StepFacts DEF Finish
    <3> QED
      BY <3>1
  <2>2. ends' \in [Clicks -> SUBSET {"completed", "error", "timeout"}]
    BY <1>5 DEF Finish
  <2> QED
    BY <1>5, <2>1, <2>2 DEF Finish, Goes, engine, creation
<1>6. ASSUME NEW r \in Clicks, TimeOut(r) PROVE IInv'
  <2>1. ends' \in [Clicks -> SUBSET {"completed", "error", "timeout"}]
    BY <1>6 DEF TimeOut
  <2> QED
    BY <1>6, <2>1 DEF TimeOut, Goes, NothingShown, engine, creation
<1>7. ASSUME NEW r \in Clicks, HandOut(r) PROVE IInv'
  <2>1. run' = [run EXCEPT ![r] = [step |-> run[r].step, state |-> "running"]]
    BY <1>7, BothFields DEF HandOut
  <2>6. RunMove(r, run[r].step, "running", {})
    BY <1>7, <2>1, BothFields DEF HandOut, States, RunMove
  <2> QED
    BY <2>6, EngineStep
<1>8. ASSUME NEW r \in Clicks, NEW s \in Steps, Complete(r, s) PROVE IInv'
  <2>1. run[r].step = s /\ run[r].state = "running" /\ s \in {Greet, Finalize}
    BY <1>8 DEF Complete, In
  <2>2. CASE s = Finalize
    <3>1. run' = [run EXCEPT ![r] = [step |-> s, state |-> "completed"]]
      BY <1>8, <2>2 DEF Complete, NextStep
    <3>4. RunMove(r, s, "completed", {})
      BY <1>8, <2>1, <2>2, <3>1, BothFields DEF Complete, States, RunMove
    <3> QED
      BY <3>4, EngineStep
  <2>3. CASE s # Finalize
    <3>1. run' = [run EXCEPT ![r] = [step |-> s + 1, state |-> "queued"]]
      BY <1>8, <2>3 DEF Complete, NextStep
    <3>2. s + 1 \in Steps /\ s \notin ExampleSteps /\ s # Await
      BY <2>1, <2>3, StepFacts DEF Greet, Await
    <3>4. RunMove(r, s + 1, "queued", {})
      BY <1>8, <2>1, <3>1, <3>2, BothFields DEF Complete, States, RunMove
    <3> QED
      BY <3>4, EngineStep
  <2> QED
    BY <2>2, <2>3
<1>9. ASSUME NEW r \in Clicks, AwaitFirstTodo(r) PROVE IInv'
  <2>1. run[r].step = Await /\ run[r].state = "running" /\ Await # Finalize
    BY <1>9, OnboardingAssumption DEF AwaitFirstTodo, In, Await, Finalize
  <2>2. CASE r \in signalled
    <3>1. run' = [run EXCEPT ![r] = [step |-> Await + 1, state |-> "queued"]]
      BY <1>9, <2>1, <2>2 DEF AwaitFirstTodo, NextStep
    <3>2. Await + 1 \in Steps /\ Await \notin ExampleSteps
      BY <2>1, StepFacts
    <3>4. RunMove(r, Await + 1, "queued", {})
      BY <1>9, <2>1, <2>2, <3>1, <3>2, BothFields DEF AwaitFirstTodo, States, RunMove
    <3> QED
      BY <3>4, EngineStep
  <2>3. CASE r \notin signalled
    <3>1. run' = [run EXCEPT ![r] = [step |-> run[r].step, state |-> "step_failed"]]
      BY <1>9, <2>3, BothFields DEF AwaitFirstTodo, FailStep
    <3>4. RunMove(r, run[r].step, "step_failed", {})
      BY <1>9, <2>1, <3>1, BothFields DEF AwaitFirstTodo, States, RunMove
    <3> QED
      BY <3>4, EngineStep
  <2> QED
    BY <2>2, <2>3
<1>10. ASSUME NEW r \in Clicks, NEW s \in Steps, CreateExample(r, s) PROVE IInv'
  <2>1. run[r].step = s /\ run[r].state = "running" /\ s \in ExampleSteps
    BY <1>10 DEF CreateExample, In
  <2>2. s # Finalize /\ s # Await
    BY <2>1, StepFacts, OnboardingAssumption DEF ExampleSteps, Finalize
  <2>3. CASE examples' = [examples EXCEPT ![r] = @ \union {s}] /\ NextStep(r, s)
    <3>1. run' = [run EXCEPT ![r] = [step |-> s + 1, state |-> "queued"]] /\ s + 1 \in Steps
      BY <2>2, <2>3, StepFacts DEF NextStep
    <3>4. RunMove(r, s + 1, "queued", {s})
      BY <1>10, <2>1, <2>2, <2>3, <3>1 DEF CreateExample, States, RunMove
    <3> QED
      BY <3>4, EngineStep
  <2>4. CASE examples' = [examples EXCEPT ![r] = @ \union {s}] /\ UNCHANGED run
    <3>1. run' = [run EXCEPT ![r] = [step |-> run[r].step, state |-> "running"]]
      BY <2>1, <2>4, BothFields
    <3>4. RunMove(r, run[r].step, "running", {s})
      BY <1>10, <2>1, <2>4, <3>1 DEF CreateExample, States, RunMove
    <3> QED
      BY <3>4, EngineStep
  <2>5. CASE FailStep(r) /\ UNCHANGED examples
    <3>1. run' = [run EXCEPT ![r] = [step |-> run[r].step, state |-> "step_failed"]]
      BY <2>5, BothFields DEF FailStep
    <3>2. examples' = [examples EXCEPT ![r] = @ \union {}]
      BY <2>5, BothFields
    <3>4. RunMove(r, run[r].step, "step_failed", {})
      BY <1>10, <2>1, <3>1, <3>2 DEF CreateExample, States, RunMove
    <3> QED
      BY <3>4, EngineStep
  <2> QED
    BY <1>10, <2>3, <2>4, <2>5 DEF CreateExample
<1>11. ASSUME NEW r \in Clicks, FailRun(r) PROVE IInv'
  <2>1. run' = [run EXCEPT ![r] = [step |-> run[r].step, state |-> "failed"]]
    BY <1>11, BothFields DEF FailRun
  <2>6. RunMove(r, run[r].step, "failed", {})
    BY <1>11, <2>1, BothFields DEF FailRun, States, RunMove
  <2> QED
    BY <2>6, EngineStep
<1>12. ASSUME NEW c \in Creates, Save(c) PROVE IInv'
  BY <1>12 DEF Save, engine, handler
<1>13. ASSUME NEW c \in Creates, ReadRunID(c) PROVE IInv'
  <2>1. \A d \in Creates : target[d] # None => target'[d] = target[d]
    BY <1>13 DEF ReadRunID
  <2>2. \A r \in Clicks : (\E d \in Creates : target[d] = r) => \E d \in Creates : target'[d] = r
    BY <2>1, OnboardingAssumption
  <2> QED
    BY <1>13, <2>2 DEF ReadRunID, engine, handler
<1>14. ASSUME NEW c \in Creates, Signal(c) PROVE IInv'
  <2>1. target[c] \in Clicks /\ signalled' \subseteq signalled \union {target[c]}
    BY <1>14 DEF Signal
  <2>2. create' \in [Creates -> {"none", "saved", "signal", "resumed", "unsent"}]
    BY <1>14 DEF Signal
  <2>3. \A d \in Creates : create'[d] \in {"none", "saved", "signal"} => create'[d] = create[d]
    BY <1>14 DEF Signal
  <2> QED
    BY <1>14, <2>1, <2>2, <2>3 DEF Signal, handler
<1>15. CASE Restart
  <2>1. /\ run' \in [Clicks -> [step : Steps, state : States]]
        /\ \A r \in Clicks : run'[r].step = run[r].step
        /\ \A r \in Clicks : run[r].state # "running" => run'[r] = run[r]
        /\ \A r \in Clicks : run'[r].state = "completed" => run[r].state = "completed"
    BY <1>15 DEF Restart, States
  <2>2. /\ create' \in [Creates -> {"none", "saved", "signal", "resumed", "unsent"}]
        /\ \A c \in Creates : create'[c] \in {"none", "saved", "signal"} => create'[c] = create[c]
    BY <1>15 DEF Restart
  <2>3. /\ starter' \in [Clicks -> {"none", "start", "store", "poll", "over", "lost"}]
        /\ \A r \in Clicks : starter'[r] \in {"none", "start"} => starter'[r] = starter[r]
    BY <1>15 DEF Restart
  <2>4. restarts' \in 0..MaxRestarts
    BY <1>15, OnboardingAssumption DEF Restart
  <2> QED
    BY <1>15, <2>1, <2>2, <2>3, <2>4 DEF Restart
<1>16. CASE UNCHANGED vars
  BY <1>16 DEF vars, engine, handler, creation
<1> QED
  BY <1>1, <1>2, <1>3, <1>4, <1>5, <1>6, <1>7, <1>8, <1>9, <1>10, <1>11, <1>12,
     <1>13, <1>14, <1>15, <1>16 DEF Next, Goroutine, Step

LEMMA InvInit == Init => IInv
<1> SUFFICES ASSUME Init PROVE IInv
  OBVIOUS
<1>1. TypeOK
  BY StepFacts, OnboardingAssumption DEF Init, TypeOK, NothingShown, States
<1>2. RunInv
  BY DEF Init, RunInv
<1>3. ExamplesFollowTodo
  BY StepFacts DEF Init, ExamplesFollowTodo, Greet, Await
<1> QED
  BY <1>1, <1>2, <1>3 DEF IInv

\* The program's and DagNats' state stays well typed; in particular no run gets
\* past its last step.
THEOREM TypeCorrect == Spec => []TypeOK
<1>1. IInv => TypeOK
  BY DEF IInv
<1> QED
  BY <1>1, InvInit, InvStep, PTL DEF Spec

\* No run gets past the await without a created todo whose request read its ID,
\* examples are saved in order, and a completed run has saved them all, for any
\* number of clicks, todos, repeated steps and restarts.
THEOREM ExamplesComeAfterTodo == Spec => []ExamplesFollowTodo
<1>1. IInv => ExamplesFollowTodo
  BY DEF IInv
<1> QED
  BY <1>1, InvInit, InvStep, PTL DEF Spec

-------------------------------------------------------------------------------
(* What the page is told. *)

\* Runs only go forward, and a run that failed or was completed stays that way.
Advances(r) ==
    /\ run'[r].step >= run[r].step
    /\ run[r].state = "step_failed" => run'[r].state \in {"step_failed", "failed"}
    /\ run[r].state \in {"failed", "completed"} => run'[r].state = run[r].state

\* Run r goes to the state st of step k.
RunGoes(r, k, st) == run' = [run EXCEPT ![r] = [step |-> k, state |-> st]]

LEMMA RunsAdvance == ASSUME IInv, [Next]_vars, NEW q \in Clicks PROVE Advances(q)
<1>1. run \in [Clicks -> [step : Steps, state : States]] /\ run[q].step \in Nat
  BY StepFacts DEF IInv, TypeOK
<1>2. ASSUME run' = run PROVE Advances(q)
  BY <1>1, <1>2 DEF Advances
<1>3. ASSUME NEW r \in Clicks, NEW k \in Nat, NEW st,
             RunGoes(r, k, st), k = run[r].step \/ k = run[r].step + 1,
             run[r].state \notin {"failed", "completed"},
             run[r].state = "step_failed" => st = "failed"
      PROVE  Advances(q)
  BY <1>1, <1>3 DEF Advances, RunGoes
<1>4. ASSUME NEW r \in Clicks, StartRun(r) PROVE Advances(q)
  <2>1. run[r].state = "absent"
    BY <1>4 DEF StartRun, Goes, IInv, RunInv
  <2>2. run' = run \/ RunGoes(r, run[r].step, "queued")
    BY <1>4, BothFields DEF StartRun, IInv, RunGoes
  <2>3. run[r].step \in Nat
    BY StepFacts DEF IInv, TypeOK
  <2> QED
    BY <1>2, <1>3, <2>1, <2>2, <2>3
<1>5. ASSUME NEW r \in Clicks, HandOut(r) \/ FailRun(r) PROVE Advances(q)
  <2>1. PICK st : /\ RunGoes(r, run[r].step, st)
                  /\ run[r].state \in {"queued", "step_failed"}
                  /\ run[r].state = "step_failed" => st = "failed"
    BY <1>5, BothFields DEF HandOut, FailRun, IInv, RunGoes
  <2>2. run[r].step \in Nat
    BY StepFacts DEF IInv, TypeOK
  <2> QED
    BY <1>3, <2>1, <2>2
<1>6. ASSUME NEW r \in Clicks, NEW s \in Steps,
             run[r].step = s, run[r].state = "running",
             NextStep(r, s) \/ FailStep(r) \/ run' = run
      PROVE  Advances(q)
  <2>1. s \in Nat /\ s + 1 \in Nat
    BY StepFacts
  <2>2. CASE NextStep(r, s) /\ s = Finalize
    <3>1. RunGoes(r, s, "completed")
      BY <2>2 DEF NextStep, RunGoes
    <3> QED
      BY <1>3, <1>6, <2>1, <3>1
  <2>3. CASE NextStep(r, s) /\ s # Finalize
    <3>1. RunGoes(r, s + 1, "queued")
      BY <2>3 DEF NextStep, RunGoes
    <3> QED
      BY <1>3, <1>6, <2>1, <3>1
  <2>4. CASE FailStep(r)
    <3>1. RunGoes(r, s, "step_failed")
      BY <1>6, <2>4, BothFields DEF FailStep, IInv, RunGoes
    <3> QED
      BY <1>3, <1>6, <2>1, <3>1
  <2> QED
    BY <1>2, <1>6, <2>2, <2>3, <2>4
<1>7. ASSUME NEW r \in Clicks, NEW s \in Steps, Complete(r, s) \/ CreateExample(r, s)
      PROVE  Advances(q)
  BY <1>6, <1>7 DEF Complete, CreateExample, In
<1>8. ASSUME NEW r \in Clicks, AwaitFirstTodo(r) PROVE Advances(q)
  BY <1>6, <1>8, StepFacts DEF AwaitFirstTodo, In
<1>9. CASE Restart
  BY <1>1, <1>9 DEF Restart, Advances
<1>10. ASSUME NEW r \in Clicks,
              Click(r) \/ StoreRunID(r) \/ Progress(r) \/ Finish(r) \/ TimeOut(r)
       PROVE  run' = run
  BY <1>10 DEF Click, StoreRunID, Progress, Finish, TimeOut, engine
<1>11. ASSUME NEW c \in Creates, Save(c) \/ ReadRunID(c) \/ Signal(c) PROVE run' = run
  BY <1>11 DEF Save, ReadRunID, Signal, engine
<1>12. CASE UNCHANGED vars
  BY <1>2, <1>12 DEF vars, engine
<1> QED
  BY <1>2, <1>4, <1>5, <1>7, <1>8, <1>9, <1>10, <1>11, <1>12 DEF Next, Goroutine, Step

\* While nothing has been started nothing is shown, nor will anything be ended.
PageInv ==
    /\ \A r \in Clicks : starter[r] \in {"none", "start"} => shown[r] = NothingShown
    /\ StepperNotAhead
    /\ EndsOnceAndTruly

\* A step that leaves the page of a click alone.
LEMMA PageStays ==
    ASSUME IInv, PageInv, [Next]_vars, NEW q \in Clicks,
           shown'[q] = shown[q], ends'[q] = ends[q],
           starter'[q] = "over" <=> starter[q] = "over",
           starter'[q] \in {"none", "start"} => starter[q] \in {"none", "start"}
    PROVE  /\ starter'[q] \in {"none", "start"} => shown'[q] = NothingShown
           /\ shown'[q].step > 0 => shown'[q].step <= run'[q].step
           /\ shown'[q].error => run'[q].state \in {"step_failed", "failed"}
           /\ Cardinality(ends'[q]) <= 1
           /\ starter'[q] = "over" <=> ends'[q] # {}
           /\ "completed" \in ends'[q] => run'[q].state = "completed"
           /\ "error" \in ends'[q] /\ shown'[q].error => run'[q].state = "failed"
<1>1. shown[q].step \in Nat /\ run[q].step \in Nat /\ run'[q].step \in Nat
  <2>1. TypeOK /\ TypeOK'
    BY InvStep DEF IInv
  <2>2. run[q].step \in Steps /\ shown[q].step \in Steps \union {0}
    BY <2>1 DEF TypeOK
  <2>3. run'[q].step \in Steps
    BY <2>1 DEF TypeOK
  <2>4. \A n \in Steps : n \in Nat
    BY StepFacts
  <2>5. shown[q].step \in Nat
    BY <2>2, <2>4
  <2> QED
    BY <2>2, <2>3, <2>4, <2>5
<1>2. Advances(q)
  BY RunsAdvance
<1> QED
  BY <1>1, <1>2 DEF PageInv, StepperNotAhead, EndsOnceAndTruly, Advances

\* The one event that ends a click's polling.
LEMMA OneEvent ==
    ASSUME IInv, PageInv, NEW r \in Clicks, starter[r] # "over",
           NEW e, ends' = [ends EXCEPT ![r] = @ \union {e}]
    PROVE  ends'[r] = {e} /\ Cardinality(ends'[r]) <= 1
<1>1. ends[r] = {} /\ ends'[r] = {e}
  BY DEF IInv, TypeOK, PageInv, EndsOnceAndTruly
<1>2. Cardinality({e}) = 1
  BY FS_Singleton
<1> QED
  BY <1>1, <1>2

LEMMA PageStep == ASSUME IInv, PageInv, [Next]_vars PROVE PageInv'
<1> DEFINE Page(q) ==
      /\ starter'[q] \in {"none", "start"} => shown'[q] = NothingShown
      /\ shown'[q].step > 0 => shown'[q].step <= run'[q].step
      /\ shown'[q].error => run'[q].state \in {"step_failed", "failed"}
      /\ Cardinality(ends'[q]) <= 1
      /\ starter'[q] = "over" <=> ends'[q] # {}
      /\ "completed" \in ends'[q] => run'[q].state = "completed"
      /\ "error" \in ends'[q] /\ shown'[q].error => run'[q].state = "failed"
<1> SUFFICES ASSUME NEW q \in Clicks PROVE Page(q)
  BY DEF PageInv, StepperNotAhead, EndsOnceAndTruly
<1> USE DEF IInv, TypeOK
<1>0. run[q].step \in Nat /\ run[q].step >= Greet
  BY StepFacts DEF Steps, Greet
<1>1. ASSUME NEW r \in Clicks, Click(r) PROVE Page(q)
  BY <1>1, PageStays DEF Click, Goes
<1>2. ASSUME NEW r \in Clicks, StartRun(r) PROVE Page(q)
  <2>1. CASE q # r
    BY <1>2, <2>1, PageStays DEF StartRun, Goes
  <2>2. CASE q = r /\ starter'[r] = "store"
    BY <1>2, <2>2, PageStays DEF StartRun, Goes
  <2>3. CASE q = r /\ starter'[r] = "over"
    <3>1. ends' = [ends EXCEPT ![r] = @ \union {"error"}] /\ starter[r] = "start"
      BY <1>2, <2>3 DEF StartRun, Goes
    <3>2. ends'[r] = {"error"} /\ Cardinality(ends'[r]) <= 1
      BY <3>1, OneEvent
    <3>3. shown'[r] = NothingShown
      BY <1>2, <3>1 DEF StartRun, PageInv
    <3> QED
      BY <2>3, <3>2, <3>3 DEF NothingShown
  <2> QED
    BY <1>2, <2>1, <2>2, <2>3 DEF StartRun, Goes
<1>3. ASSUME NEW r \in Clicks, StoreRunID(r) PROVE Page(q)
  BY <1>3, PageStays DEF StoreRunID, Goes
<1>4. ASSUME NEW r \in Clicks, Progress(r) PROVE Page(q)
  <2>1. CASE q # r
    BY <1>4, <2>1, PageStays DEF Progress
  <2>2. CASE q = r
    <3>1. /\ shown'[q] = [step |-> CurrentStep(q), error |-> run[q].state = "step_failed"]
          /\ run' = run /\ ends' = ends /\ starter' = starter /\ starter[q] = "poll"
      BY <1>4, <2>2 DEF Progress, engine
    <3>2. CurrentStep(q) <= run[q].step
      BY <1>0 DEF CurrentStep, Greet
    <3>3. ends[q] = {} /\ Cardinality(ends[q]) <= 1
      BY <3>1 DEF PageInv, EndsOnceAndTruly
    <3>4. shown'[q].step = CurrentStep(q)
      BY <3>1
    <3>5. CASE run[q].state # "step_failed"
      <4>1. (run[q].state = "step_failed") = FALSE
        BY <3>5
      <4>2. shown'[q] = [step |-> CurrentStep(q), error |-> FALSE]
        BY <3>1, <4>1, Zenon
      <4> QED
        BY <3>1, <3>2, <3>3, <4>2
    <3> QED
      BY <3>1, <3>2, <3>3, <3>4, <3>5
  <2> QED
    BY <2>1, <2>2
<1>5. ASSUME NEW r \in Clicks, Finish(r) PROVE Page(q)
  <2>1. CASE q # r
    BY <1>5, <2>1, PageStays DEF Finish, Goes
  <2>2. CASE q = r
    <3>1. starter[r] = "poll" /\ starter'[r] = "over" /\ run' = run
      BY <1>5 DEF Finish, Goes, engine
    <3>2. CASE run[r].state = "completed"
      <4>1. /\ ends' = [ends EXCEPT ![r] = @ \union {"completed"}]
            /\ shown'[r] = [step |-> Finalize, error |-> FALSE]
        BY <1>5, <3>2 DEF Finish
      <4>2. ends'[r] = {"completed"} /\ Cardinality(ends'[r]) <= 1
        BY <3>1, <4>1, OneEvent
      <4>3. run[r].step = Finalize
        BY <3>2 DEF RunInv
      <4> QED
        BY <1>0, <2>2, <3>1, <3>2, <4>1, <4>2, <4>3
    <3>3. CASE run[r].state = "failed"
      <4>1. /\ ends' = [ends EXCEPT ![r] = @ \union {"error"}]
            /\ shown'[r] = [step |-> run[r].step, error |-> TRUE]
        BY <1>5, <3>3 DEF Finish
      <4>2. ends'[r] = {"error"} /\ Cardinality(ends'[r]) <= 1
        BY <3>1, <4>1, OneEvent
      <4> QED
        BY <1>0, <2>2, <3>1, <3>3, <4>1, <4>2
    <3> QED
      BY <1>5, <3>2, <3>3 DEF Finish, Over
  <2> QED
    BY <2>1, <2>2
<1>6. ASSUME NEW r \in Clicks, TimeOut(r) PROVE Page(q)
  <2>1. CASE q # r
    BY <1>6, <2>1, PageStays DEF TimeOut, Goes
  <2>2. CASE q = r
    <3>1. /\ starter[r] = "poll" /\ starter'[r] = "over"
          /\ ends' = [ends EXCEPT ![r] = @ \union {"timeout"}]
          /\ shown'[r] = NothingShown
      BY <1>6 DEF TimeOut, Goes
    <3>2. ends'[r] = {"timeout"} /\ Cardinality(ends'[r]) <= 1
      BY <3>1, OneEvent
    <3> QED
      BY <2>2, <3>1, <3>2 DEF NothingShown
  <2> QED
    BY <2>1, <2>2
<1>7. ASSUME UNCHANGED handler PROVE Page(q)
  BY <1>7, PageStays DEF handler
<1>8. ASSUME NEW r \in Clicks, Step(r) \/ AwaitFirstTodo(r) PROVE UNCHANGED handler
  BY <1>8 DEF Step, HandOut, Complete, CreateExample, FailRun, AwaitFirstTodo
<1>9. ASSUME NEW c \in Creates, Save(c) \/ ReadRunID(c) \/ Signal(c) PROVE UNCHANGED handler
  BY <1>9 DEF Save, ReadRunID, Signal
<1>10. CASE Restart
  <2>1. /\ shown' = shown /\ ends' = ends
        /\ starter'[q] = "over" <=> starter[q] = "over"
        /\ starter'[q] \in {"none", "start"} => starter[q] \in {"none", "start"}
    BY <1>10 DEF Restart
  <2> QED
    BY <2>1, PageStays
<1>11. CASE UNCHANGED vars
  BY <1>7, <1>11 DEF vars
<1> QED
  BY <1>1, <1>2, <1>3, <1>4, <1>5, <1>6, <1>7, <1>8, <1>9, <1>10, <1>11
     DEF Next, Goroutine

LEMMA PageInit == Init => PageInv
<1> SUFFICES ASSUME Init PROVE PageInv
  OBVIOUS
<1>1. Cardinality({}) = 0
  BY FS_EmptySet
<1> QED
  BY <1>1 DEF Init, PageInv, StepperNotAhead, EndsOnceAndTruly, NothingShown

LEMMA PageCorrect == Spec => [](IInv /\ PageInv)
<1>1. Init => IInv /\ PageInv
  BY InvInit, PageInit
<1>2. IInv /\ PageInv /\ [Next]_vars => (IInv /\ PageInv)'
  BY InvStep, PageStep
<1> QED
  BY <1>1, <1>2, PTL DEF Spec

\* The stepper is never ahead of its run, and shows an error only for a step
\* that has failed, for any number of runs and restarts.
THEOREM StepperIsBehind == Spec => []StepperNotAhead
<1>1. PageInv => StepperNotAhead
  BY DEF PageInv
<1> QED
  BY <1>1, PageCorrect, PTL

\* Every polling is ended by one event at most, and by a true one.
THEOREM PollingEndsTruly == Spec => []EndsOnceAndTruly
<1>1. PageInv => EndsOnceAndTruly
  BY DEF PageInv
<1> QED
  BY <1>1, PageCorrect, PTL
===============================================================================
