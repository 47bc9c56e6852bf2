\* Condition variables, sleeping and cloning.
CONSTANTS
    N = 3
    Boot = 2
    MaxClock = 2
    TimeWrap = 8
    Naps = {0, 1}
    OobStates = {"garbage"}
    MaxMutexes = 0
    MaxDepth = 1
    MaxCondvars = 1
    MaxWaits = 3
    Amounts = {0, 1, 2}
    MaxItems = 2
    Sizes = {}
    BufferSizes = {}
    Irqs = 1
    MaxRegistrations = 0
SPECIFICATION Spec
INVARIANTS
    CondvarWaitersCounted
PROPERTIES
    SchedulerGoesRound
CHECK_DEADLOCK FALSE
