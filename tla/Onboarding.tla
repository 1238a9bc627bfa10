------------------------------ MODULE Onboarding ------------------------------
(***************************************************************************)
(* The onboarding workflow: handleStart and pollRun follow a DagNats run   *)
(* and stream its progress to the stepper, ResumeOnboarding signals the    *)
(* run when a todo is created (features/todo/handlers/onboarding.go), and  *)
(* the worker handlers of cmd/web/dagnats.go do the run's steps.           *)
(*                                                                         *)
(* DagNats is external and modelled from its use: it runs the steps of     *)
(* OnboardingWorkflowJSON one after the other, keeps runs and signals      *)
(* across a restart of the process and hands an interrupted step out       *)
(* again.  The run a click starts is named after the click.                *)
(***************************************************************************)
EXTENDS Naturals, FiniteSets

CONSTANTS
    Clicks,      \* POSTs of /api/onboarding/start
    Creates,     \* POSTs that create a todo
    Examples,    \* the number of example todos, 3 in the code
    None,        \* activeRunID = ""
    MaxRestarts  \* bound: restarts of the process

ASSUME OnboardingAssumption ==
    /\ None \notin Clicks
    /\ Examples \in Nat \ {0}
    /\ MaxRestarts \in Nat

\* onboardingStepOrder: greet, await-first-todo, the examples, finalize.
Greet == 1
Await == 2
ExampleSteps == 3..(Examples + 2)
Finalize == Examples + 3
Steps == Greet..Finalize

VARIABLES
    starter,      \* where each click's goroutine is
    run,          \* DagNats: each run's current step and the state it is in
    signalled,    \* DagNats: the runs with a "first-todo" signal in the KV
    examples,     \* the example steps of each run whose todo was saved
    activeRunID,  \* the run that ResumeOnboarding signals
    create,       \* where each create request is
    target,       \* the run ID it has read from activeRunID
    shown,        \* the step in the last progress event, and whether as an error
    ends,         \* the workflow-* events that ended each click's polling, as handed to
                  \* the broadcaster, whose errors are ignored
    restarts

engine == <<run, signalled, examples>>
handler == <<starter, activeRunID, shown, ends>>
creation == <<create, target>>
vars == <<engine, handler, creation, restarts>>

States == {"absent", "queued", "running", "step_failed", "failed", "completed"}
Over(r) == run[r].state \in {"failed", "completed"}

TypeOK ==
    /\ starter \in [Clicks -> {"none", "start", "store", "poll", "over", "lost"}]
    /\ run \in [Clicks -> [step : Steps, state : States]]
    /\ signalled \subseteq Clicks
    /\ examples \in [Clicks -> SUBSET ExampleSteps]
    /\ activeRunID \in Clicks \union {None}
    /\ create \in [Creates -> {"none", "saved", "signal", "resumed", "unsent"}]
    /\ target \in [Creates -> Clicks \union {None}]
    /\ shown \in [Clicks -> [step : Steps \union {0}, error : BOOLEAN]]
    /\ ends \in [Clicks -> SUBSET {"completed", "error", "timeout"}]
    /\ restarts \in 0..MaxRestarts

NothingShown == [step |-> 0, error |-> FALSE]

Init ==
    /\ starter = [r \in Clicks |-> "none"]
    /\ run = [r \in Clicks |-> [step |-> Greet, state |-> "absent"]]
    /\ signalled = {}
    /\ examples = [r \in Clicks |-> {}]
    /\ activeRunID = None
    /\ create = [c \in Creates |-> "none"]
    /\ target = [c \in Creates |-> None]
    /\ shown = [r \in Clicks |-> NothingShown]
    /\ ends = [r \in Clicks |-> {}]
    /\ restarts = 0

-------------------------------------------------------------------------------
(* handleStart and its goroutine. *)

Goes(r, a, b) == starter[r] = a /\ starter' = [starter EXCEPT ![r] = b]

Click(r) ==
    /\ Goes(r, "none", "start")
    /\ UNCHANGED <<engine, activeRunID, shown, ends, creation, restarts>>

\* VARIANT: a start that fails is only logged.
StartRun_Silent(r) ==
    /\ \/ /\ Goes(r, "start", "store")
          /\ run' = [run EXCEPT ![r].state = "queued"]
       \/ Goes(r, "start", "over") /\ UNCHANGED run
    /\ UNCHANGED <<signalled, examples, activeRunID, shown, ends, creation, restarts>>

\* StartRun: the run exists, though its answer may be lost, or it does not.
StartRun(r) ==
    /\ \/ /\ Goes(r, "start", "store")
          /\ run' = [run EXCEPT ![r].state = "queued"]
          /\ UNCHANGED ends
       \/ /\ Goes(r, "start", "over")
          /\ ends' = [ends EXCEPT ![r] = @ \union {"error"}]
          /\ \/ UNCHANGED run
             \/ run' = [run EXCEPT ![r].state = "queued"]
    /\ UNCHANGED <<signalled, examples, activeRunID, shown, creation, restarts>>

\* A later click's run takes the place of an earlier one's.
StoreRunID(r) ==
    /\ Goes(r, "store", "poll")
    /\ activeRunID' = r
    /\ UNCHANGED <<engine, shown, ends, creation, restarts>>

-------------------------------------------------------------------------------
(* pollRun: one tick. *)

\* VARIANT: while no step runs the stepper shows the one to come.
CurrentStep_Next(r) ==
    IF run[r].state \in {"running", "step_failed"} \/ run[r].step = Finalize
    THEN run[r].step ELSE run[r].step + 1

\* onboardingCurrentStep: the step that runs or has failed, the first one while
\* none does.
CurrentStep(r) ==
    IF run[r].state \in {"running", "step_failed"} THEN run[r].step ELSE Greet

\* The run goes on: its step is published when it is not the one shown.
Progress(r) ==
    LET current == [step |-> CurrentStep(r), error |-> run[r].state = "step_failed"]
    IN  /\ starter[r] = "poll" /\ ~Over(r)
        /\ current # shown[r]
        /\ shown' = [shown EXCEPT ![r] = current]
        /\ UNCHANGED <<engine, starter, activeRunID, ends, creation, restarts>>

\* VARIANT: the case of the failed run falls through to the completed one.
Finish_FallsThrough(r) ==
    /\ Over(r)
    /\ Goes(r, "poll", "over")
    /\ shown' = [shown EXCEPT ![r] = [step |-> Finalize, error |-> FALSE]]
    /\ ends' = [ends EXCEPT ![r] = @ \union {"completed"}]
    /\ UNCHANGED <<engine, activeRunID, creation, restarts>>

\* The run is over.  After a completed one the steps left are published one
\* after the other up to the last; after a failed one the step that failed.
Finish(r) ==
    /\ Over(r)
    /\ Goes(r, "poll", "over")
    /\ IF run[r].state = "completed"
       THEN /\ shown' = [shown EXCEPT ![r] = [step |-> Finalize, error |-> FALSE]]
            /\ ends' = [ends EXCEPT ![r] = @ \union {"completed"}]
       ELSE /\ shown' = [shown EXCEPT ![r] = [step |-> run[r].step, error |-> TRUE]]
            /\ ends' = [ends EXCEPT ![r] = @ \union {"error"}]
    /\ UNCHANGED <<engine, activeRunID, creation, restarts>>

\* onbPollTimeout: the stepper is reset, the run goes on unwatched.
TimeOut(r) ==
    /\ Goes(r, "poll", "over")
    /\ shown' = [shown EXCEPT ![r] = NothingShown]
    /\ ends' = [ends EXCEPT ![r] = @ \union {"timeout"}]
    /\ UNCHANGED <<engine, activeRunID, creation, restarts>>

-------------------------------------------------------------------------------
(* ResumeOnboarding, at the end of a create request. *)

\* handleCreate has saved the todo.
Save(c) ==
    /\ create[c] = "none"
    /\ create' = [create EXCEPT ![c] = "saved"]
    /\ UNCHANGED <<engine, handler, target, restarts>>

\* It reads activeRunID under the lock; with no run it is a no-op.
ReadRunID(c) ==
    /\ create[c] = "saved"
    /\ target' = [target EXCEPT ![c] = activeRunID]
    /\ create' = [create EXCEPT ![c] = IF activeRunID = None THEN "unsent" ELSE "signal"]
    /\ UNCHANGED <<engine, handler, restarts>>

\* VARIANT: only the run that is active by then gets the signal.
Signal_ActiveOnly(c) ==
    /\ create[c] = "signal"
    /\ \/ /\ create' = [create EXCEPT ![c] = "resumed"]
          /\ signalled' = signalled \union ({target[c]} \intersect {activeRunID})
       \/ /\ create' = [create EXCEPT ![c] = "unsent"]
          /\ UNCHANGED signalled
    /\ UNCHANGED <<run, examples, handler, target, restarts>>

\* Signal: delivered (workflow-resumed), or not answered in time or refused
\* (workflow-error), though it may have arrived then as well.
Signal(c) ==
    /\ create[c] = "signal"
    /\ \/ /\ create' = [create EXCEPT ![c] = "resumed"]
          /\ signalled' = signalled \union {target[c]}
       \/ /\ create' = [create EXCEPT ![c] = "unsent"]
          /\ \/ UNCHANGED signalled
             \/ signalled' = signalled \union {target[c]}
    /\ UNCHANGED <<run, examples, handler, target, restarts>>

-------------------------------------------------------------------------------
(* The run's steps: the engine hands one out, a worker handler does it. *)

In(r, s, state) == run[r].step = s /\ run[r].state = state

HandOut(r) ==
    /\ run[r].state = "queued"
    /\ run' = [run EXCEPT ![r].state = "running"]
    /\ UNCHANGED <<signalled, examples, handler, creation, restarts>>

\* VARIANT: the last step has a next one.
NextStep_NoEnd(r, s) ==
    run' = [run EXCEPT ![r] = [step |-> s + 1, state |-> "queued"]]

NextStep(r, s) ==
    run' = [run EXCEPT ![r] = IF s = Finalize THEN [step |-> s, state |-> "completed"]
                              ELSE [step |-> s + 1, state |-> "queued"]]

\* The workflow asks for no retries: a failed step stays failed until the engine
\* fails the run.
FailStep(r) == run' = [run EXCEPT ![r].state = "step_failed"]

\* greet and finalize just complete.
Complete(r, s) ==
    /\ s \in {Greet, Finalize} /\ In(r, s, "running")
    /\ NextStep(r, s)
    /\ UNCHANGED <<signalled, examples, handler, creation, restarts>>

\* VARIANT: the error of WaitForSignal is not looked at.
AwaitFirstTodo_NoError(r) ==
    /\ In(r, Await, "running")
    /\ NextStep(r, Await)
    /\ UNCHANGED <<signalled, examples, handler, creation, restarts>>

\* await-first-todo completes with the signal, and fails after 50 minutes.
AwaitFirstTodo(r) ==
    /\ In(r, Await, "running")
    /\ IF r \in signalled THEN NextStep(r, Await) ELSE FailStep(r)
    /\ UNCHANGED <<signalled, examples, handler, creation, restarts>>

\* create-todo saves its todo and completes, or fails.  A restart in between
\* leaves the todo, and the step runs again.
CreateExample(r, s) ==
    /\ s \in ExampleSteps /\ In(r, s, "running")
    /\ \/ /\ examples' = [examples EXCEPT ![r] = @ \union {s}]
          /\ NextStep(r, s) \/ UNCHANGED run
       \/ FailStep(r) /\ UNCHANGED examples
    /\ UNCHANGED <<signalled, handler, creation, restarts>>

FailRun(r) ==
    /\ run[r].state = "step_failed"
    /\ run' = [run EXCEPT ![r].state = "failed"]
    /\ UNCHANGED <<signalled, examples, handler, creation, restarts>>

\* The process is started again: the goroutines, the requests under way and
\* activeRunID are gone, the runs and signals are not.  A step that was running
\* is handed out again.
Restart ==
    /\ restarts < MaxRestarts
    /\ restarts' = restarts + 1
    /\ activeRunID' = None
    /\ starter' = [r \in Clicks |->
                     IF starter[r] \in {"start", "store", "poll"} THEN "lost" ELSE starter[r]]
    /\ create' = [c \in Creates |->
                    IF create[c] \in {"saved", "signal"} THEN "unsent" ELSE create[c]]
    /\ run' = [r \in Clicks |->
                 IF run[r].state = "running" THEN [run[r] EXCEPT !.state = "queued"]
                 ELSE run[r]]
    /\ UNCHANGED <<signalled, examples, target, shown, ends>>

-------------------------------------------------------------------------------
Goroutine(r) == StartRun(r) \/ StoreRunID(r) \/ Progress(r) \/ Finish(r)

Step(r) ==
    \/ HandOut(r)
    \/ \E s \in Steps : Complete(r, s) \/ CreateExample(r, s)
    \/ FailRun(r)

Next ==
    \/ \E r \in Clicks :
          Click(r) \/ Goroutine(r) \/ TimeOut(r) \/ Step(r) \/ AwaitFirstTodo(r)
    \/ \E c \in Creates : Save(c) \/ ReadRunID(c) \/ Signal(c)
    \/ Restart

\* Goroutines and requests go on, the engine hands steps out and the timers of
\* 5 and 50 minutes run out.  Clicks, creations and restarts are the
\* environment's.
Fairness ==
    /\ \A r \in Clicks :
          /\ WF_vars(StartRun(r)) /\ WF_vars(StoreRunID(r))
          /\ WF_vars(Finish(r)) /\ WF_vars(TimeOut(r))
          /\ WF_vars(HandOut(r)) /\ WF_vars(FailRun(r)) /\ WF_vars(AwaitFirstTodo(r))
          /\ \A s \in Steps :
                WF_vars(Complete(r, s)) /\ WF_vars(CreateExample(r, s) /\ run' # run)
    /\ \A c \in Creates : WF_vars(ReadRunID(c)) /\ WF_vars(Signal(c))

Spec == Init /\ [][Next]_vars /\ Fairness

-------------------------------------------------------------------------------
\* workflow.go, steps 2 and 3: a run gets past the await only when some create
\* request has read its ID, it saves the examples in order after that, and a
\* completed run has saved them all, across restarts and repeated steps.
ExamplesFollowTodo ==
    \A r \in Clicks :
       /\ run[r].step > Await => \E c \in Creates : target[c] = r
       /\ (3..(run[r].step - 1)) \intersect ExampleSteps \subseteq examples[r]
       /\ examples[r] \subseteq 3..run[r].step

\* onboarding.go:155-161: the stepper reflects what the run is doing: it is
\* never ahead of it, and it shows an error only for a step that has failed.
\* (Between two steps it falls back to the first; that is not excluded.)
StepperNotAhead ==
    \A r \in Clicks :
       /\ shown[r].step > 0 => shown[r].step <= run[r].step
       /\ shown[r].error => run[r].state \in {"step_failed", "failed"}

\* A click's polling is ended by exactly one event, which tells the truth of the
\* run that was polled; no event ends a polling that goes on.  (A start whose
\* answer was lost ends in an error too, though its run goes on unwatched.)
EndsOnceAndTruly ==
    \A r \in Clicks :
       /\ Cardinality(ends[r]) <= 1
       /\ starter[r] = "over" <=> ends[r] # {}
       /\ "completed" \in ends[r] => run[r].state = "completed"
       /\ "error" \in ends[r] /\ shown[r].error => run[r].state = "failed"

\* onboarding.go:158-161: the button is re-enabled on completion, failure or
\* the timeout: every click is followed by an event that ends it, unless the
\* process was restarted under it.
ButtonReleased ==
    \A r \in Clicks : starter[r] = "start" ~> (ends[r] # {} \/ starter[r] = "lost")

\* A todo whose signal was delivered before the await was given up resumes the
\* run it was read for, whoever clicks or creates meanwhile and although the
\* process is restarted.
TodoResumesRun ==
    \A c \in Creates, r \in Clicks :
       (create[c] = "resumed" /\ target[c] = r /\ run[r].state \in {"queued", "running"})
          ~> run[r].step > Await
===============================================================================
