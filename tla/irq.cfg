\* Interrupt registrations, and what the reads of processes[-1] can lead to.
CONSTANTS
    N = 3
    Boot = 2
    MaxClock = 0
    TimeWrap = 8
    Naps = {}
    OobStates = {"waiting", "runnable"}
    MaxMutexes = 0
    MaxDepth = 1
    MaxCondvars = 0
    MaxWaits = 0
    Amounts = {}
    MaxItems = 2
    Sizes = {}
    BufferSizes = {1}
    Irqs = 1
    MaxRegistrations = 2
SPECIFICATION Spec
INVARIANTS
    TypeOK
    RunningIsCurrent
    ReadersHaveNothing
CHECK_DEADLOCK FALSE
