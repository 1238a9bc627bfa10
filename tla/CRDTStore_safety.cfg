\* Two todos within the limit, one restart, two owners' bumps on one watcher
\* whose internal channel holds two events and whose returned channel one version.
SPECIFICATION Spec
CONSTANTS
    Todos = {a, b}
    Limit = 2
    MaxRestarts = 1
    Owners = {me, other}
    Me = me
    Watchers = {w1}
    InnerCap = 2
    OutCap = 1
    MaxVersion = 2
INVARIANTS
    TypeOK
    RecordsAgree
    WatcherCatchesUp
PROPERTIES
    OnlyAskedRemovals
    ImplementsWriteBack
    CancelEndsFeed
CHECK_DEADLOCK FALSE
