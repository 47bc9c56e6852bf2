-------------------------------- MODULE Mutex --------------------------------
(****************************************************************************)
(* Kernel mutexes (src/kernel/mutex.cpp): a table of locks counted by       *)
(* nesting depth.  An unlocked mutex is handed over at once to the first    *)
(* blocked process after the one that unlocks (scheduler_waitable_done).    *)
(****************************************************************************)
EXTENDS Scheduler, FiniteSetsExt

CONSTANTS
    MaxMutexes,   \* bound: mutexes ever created, all in one page of the TPA
    MaxDepth      \* bound: nesting depth of one lock

MutexId == 1 .. MaxMutexes

ASSUME MutexAssumption == MaxMutexes \in Nat /\ MaxDepth \in Nat \ {0}

VARIABLES
    mutexes,    \* ids the TPA holds an entry for
    lockCount,  \* mutex_data.state, 0 = unlocked
    holder,     \* mutex_data.holder
    nextMutex   \* next_mutex

mutexVars == <<mutexes, lockCount, holder, nextMutex>>

MutexInit ==
    /\ mutexes = {}
    /\ lockCount = [m \in MutexId |-> 0]
    /\ holder = [m \in MutexId |-> 0]
    /\ nextMutex = 1

-----------------------------------------------------------------------------
(* mutex_unlock and the hand-over *)

\* Mutant: the scan starts at slot 0.
IsLowestWaiter(w, ps, wt, m) ==
    /\ w \in Waiters(ps, wt, "mutex", m)
    /\ \A v \in Waiters(ps, wt, "mutex", m) : w <= v

\* The first waiter in the scan of scheduler_waitable_done: mutex_lock
\* succeeds for it and refuses all the others.
IsFirstWaiter(w, ps, wt, m) ==
    /\ w \in Waiters(ps, wt, "mutex", m)
    /\ \A v \in Waiters(ps, wt, "mutex", m) : ScanPos(w) <= ScanPos(v)

\* Mutant: unlocking wakes nobody.
NoHeirs(heir, R, ps, wt) == \A m \in MutexId : heir[m] = NoPid

\* Mutant: a nested lock is handed over at the first unlock.
HeirsWhileNested(heir, R, ps, wt) ==
    \A m \in MutexId :
        IF m \in R /\ Waiters(ps, wt, "mutex", m) # {}
        THEN IsFirstWaiter(heir[m], ps, wt, m)
        ELSE heir[m] = NoPid

\* Who gets each mutex of R when it is unlocked once: nobody while the lock
\* is still nested or nobody waits.
AreHeirs(heir, R, ps, wt) ==
    \A m \in MutexId :
        IF m \in R /\ lockCount[m] = 1 /\ Waiters(ps, wt, "mutex", m) # {}
        THEN IsFirstWaiter(heir[m], ps, wt, m)
        ELSE heir[m] = NoPid

Heirs == [MutexId -> Pid \cup {NoPid}]

\* mutex_unlock of every mutex in R, with these heirs.
Unlock(R, heir) ==
    /\ lockCount' = [m \in MutexId |->
           IF m \notin R THEN lockCount[m]
           ELSE IF heir[m] = NoPid THEN lockCount[m] - 1 ELSE 1]
    /\ holder' = [m \in MutexId |->
           IF m \in R /\ heir[m] # NoPid THEN heir[m] ELSE holder[m]]
    /\ UNCHANGED <<mutexes, nextMutex>>

\* Mutant: every blocked process is woken, with or without the lock.
AllWoken(heir) ==
    {p \in Pid : /\ pstate[p] = "waiting"
                 /\ waiting[p].reason = "mutex"
                 /\ \E m \in MutexId : heir[m] # NoPid}

WokenHeirs(heir) == {heir[m] : m \in MutexId} \ {NoPid}

-----------------------------------------------------------------------------
(* mutex_unlock_holder, for a process that ended *)

\* TPA<T>::next(cur) on a single page: the scan starts at cur itself and 0
\* stands for "nothing found".
TpaNext(S, cur) ==
    LET candidates == {k \in S : k >= cur}
    IN  IF candidates = {} THEN 0 ELSE Min(candidates)

\* The ids the loop looks at from `m' on: it follows next as long as it grows.
VisitedFrom[m \in MutexId] ==
    {m} \cup (IF TpaNext(mutexes, m) > m
              THEN VisitedFrom[TpaNext(mutexes, m)] ELSE {})

\* The mutexes mutex_unlock_holder(pid) unlocks, each of them once.
UnlockedForHolder(pid) ==
    {m \in mutexes : m \in VisitedFrom[1] /\ lockCount[m] > 0 /\ holder[m] = pid}

-----------------------------------------------------------------------------
(* System calls *)

LockingCreateMutex ==
    /\ FromProcess
    /\ nextMutex <= MaxMutexes
    /\ mutexes' = mutexes \cup {nextMutex}
    /\ lockCount' = [lockCount EXCEPT ![nextMutex] = 0]
    /\ holder' = [holder EXCEPT ![nextMutex] = 0]
    /\ nextMutex' = nextMutex + 1
    /\ Return("0")

LockingDestroyMutex(m) ==
    /\ FromProcess
    /\ \/ /\ m \notin mutexes
          /\ Return("EINVAL")
          /\ UNCHANGED mutexVars
       \/ /\ m \in mutexes
          /\ lockCount[m] > 0
          /\ Return("EBUSY")
          /\ UNCHANGED mutexVars
       \/ /\ m \in mutexes
          /\ lockCount[m] = 0
          /\ mutexes' = mutexes \ {m}
          /\ Return("0")
          /\ UNCHANGED <<lockCount, holder, nextMutex>>

\* Another process has it: fail at once or block.  The error code 0 a blocked
\* caller will see is already in its registers.
LockHeldMutex(m, trylock) ==
    /\ m \in mutexes
    /\ lockCount[m] > 0
    /\ holder[m] # current
    /\ UNCHANGED mutexVars
    /\ IF trylock
       THEN Return("EBUSY")
       ELSE ReturnWith("0", WaitForStates, WaitForRecords("mutex", m))

\* Free, or already held by the caller: mutex_lock nests.
LockFreeMutex(m) ==
    /\ m \in mutexes
    /\ lockCount[m] = 0 \/ holder[m] = current
    /\ lockCount[m] < MaxDepth
    /\ lockCount' = [lockCount EXCEPT ![m] = @ + 1]
    /\ holder' = [holder EXCEPT ![m] = current]
    /\ UNCHANGED <<mutexes, nextMutex>>
    /\ Return("0")

LockingLockMutex(m, trylock) ==
    /\ FromProcess
    /\ \/ m \notin mutexes /\ Return("EINVAL") /\ UNCHANGED mutexVars
       \/ LockHeldMutex(m, trylock)
       \/ LockFreeMutex(m)

LockingUnlockMutex(m) ==
    /\ FromProcess
    /\ \/ m \notin mutexes /\ Return("EINVAL") /\ UNCHANGED mutexVars
       \/ m \in mutexes /\ lockCount[m] = 0 /\ Return("0") /\ UNCHANGED mutexVars
       \/ /\ m \in mutexes
          /\ lockCount[m] > 0
          /\ holder[m] # current
          /\ Return("EPERM")
          /\ UNCHANGED mutexVars
       \/ /\ m \in mutexes
          /\ lockCount[m] > 0
          /\ holder[m] = current
          /\ \E heir \in Heirs :
                /\ AreHeirs(heir, {m}, pstate, waiting)
                /\ Unlock({m}, heir)
                /\ ReturnWith("0", Wake(pstate, WokenHeirs(heir)), waiting)

=============================================================================
