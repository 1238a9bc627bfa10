\* Two clicks and one created todo, one restart; two example todos instead of 3.
SPECIFICATION Spec
CONSTANTS
    Clicks = {r1, r2}
    Creates = {c1}
    Examples = 2
    None = None
    MaxRestarts = 1
INVARIANTS
    TypeOK
    ExamplesFollowTodo
    StepperNotAhead
    EndsOnceAndTruly
PROPERTIES
    ButtonReleased
    TodoResumesRun
CHECK_DEADLOCK FALSE
