---------------------------- MODULE KernelProofs -----------------------------
(****************************************************************************)
(* Proofs about the kernel model for any number of process slots, mutexes,  *)
(* condition variables, messages and interrupts.                            *)
(****************************************************************************)
EXTENDS Kernel, FiniteSetTheorems, SequenceTheorems, TLAPS

\* free_pid takes slots in ascending order and nothing empties a slot, while
\* mq_create counts up: the empty slots are those from next_mq - 1 on, and
\* process p has queue p + 1.  Without it nothing bounds the queue ids.
SlotsInOrder ==
    \A p \in Pid :
        /\ pstate[p] = "empty" <=> p >= nextMq - 1
        /\ pmq[p] = IF p < nextMq - 1 THEN p + 1 ELSE 0

TypeInv == TypeOK /\ SlotsInOrder

-----------------------------------------------------------------------------
(* What a scheduling decision may change *)

\* After a handler left the processes as ps and wt: what the scheduler made of
\* them has the right type, blocks nobody and wakes only sleepers, and moves
\* nobody in or out of a slot.
Scheduled(ps, wt) ==
    /\ pstate' \in [Pid -> ProcStates]
    /\ waiting' \in [Pid -> WaitRecord]
    /\ current' \in Pid \cup {NoPid}
    /\ lastScheduled' \in Pid \cup {NoPid}
    /\ halted' \in HaltCauses
    /\ \A p \in Pid : pstate'[p] = "waiting" => ps[p] = "waiting" /\ waiting'[p] = wt[p]
    /\ \A p \in Pid : ps[p] = "waiting" /\ wt[p].reason # "time" => pstate'[p] = "waiting"
    /\ \A p \in Pid : pstate'[p] \in Gone \/ ps[p] \in Gone => pstate'[p] = ps[p]

\* What the handlers guarantee of ps: only the current process may be running.
Consistent(ps) ==
    /\ \A p \in Pid : ps[p] = "running" => p = current
    /\ current # NoPid => ps[current] # "runnable"

\* Whatever a wait record says, keeping only the relevant ones keeps the type.
LEMMA RelevantType ==
    ASSUME NEW ps, NEW wt \in [Pid -> WaitRecord]
    PROVE  Relevant(ps, wt) \in [Pid -> WaitRecord]
  BY DEF Relevant, WaitRecord, NoWait, WaitReasons

\* schedule_next, as used after an interrupt.
LEMMA ScheduleNextScheduled ==
    ASSUME TypeOK, NEW ps \in [Pid -> ProcStates], NEW wt \in [Pid -> WaitRecord],
           ScheduleNext(ps, wt)
    PROVE  Scheduled(ps, wt)
<1>1. Preempted(ps) \in [Pid -> ProcStates]
  BY DEF Preempted, ProcStates, TypeOK, ProcTypeOK
<1>2. \A p \in Pid : Preempted(ps)[p] = ps[p] \/ (ps[p] = "running" /\ Preempted(ps)[p] = "runnable")
  BY DEF Preempted, TypeOK, ProcTypeOK
<1>3. CASE Ready(ps, wt) = {} /\ Idle(ps)
  <2>1. pstate' = Preempted(ps) /\ waiting' = Relevant(pstate', wt)
    BY <1>3 DEF Idle, ScheduleNext
  <2>2. /\ current' \in Pid \cup {NoPid}
        /\ lastScheduled' \in Pid \cup {NoPid}
        /\ halted' \in HaltCauses
    BY <1>3 DEF Idle, TypeOK, ProcTypeOK, HaltCauses
  <2>3. waiting' \in [Pid -> WaitRecord]
    BY <2>1, RelevantType
  <2>4. QED
    BY <1>1, <1>2, <2>1, <2>2, <2>3 DEF Scheduled, Relevant, Gone
<1>4. ASSUME NEW r \in Ready(ps, wt),
             pstate' = [Preempted(ps) EXCEPT ![r] = "running"],
             current' = r, lastScheduled' = r, halted' = halted
      PROVE  Scheduled(ps, wt)
  <2>1. /\ r \in Pid /\ ps[r] \notin Gone
        /\ ps[r] = "waiting" => wt[r].reason = "time"
    BY <1>2 DEF Ready, Expired, Gone
  <2>2. waiting' = Relevant(pstate', wt)
    BY DEF ScheduleNext
  <2>3. waiting' \in [Pid -> WaitRecord]
    BY <2>2, RelevantType
  <2>4. pstate' \in [Pid -> ProcStates]
    BY <1>1, <1>4, <2>1 DEF ProcStates
  <2>5. QED
    BY <1>1, <1>2, <1>4, <2>1, <2>2, <2>3, <2>4 DEF Scheduled, Relevant, Gone, TypeOK, ProcTypeOK
<1>5. QED
  BY <1>3, <1>4 DEF ScheduleNext

\* schedule_next_if_needed, as used after a system call or an exception.
LEMMA ScheduleIfNeededScheduled ==
    ASSUME TypeOK, NEW ps \in [Pid -> ProcStates], NEW wt \in [Pid -> WaitRecord],
           ScheduleNextIfNeeded(ps, wt)
    PROVE  Scheduled(ps, wt)
<1>1. CASE ps[current] \in {"runnable", "running"}
  <2>1. /\ pstate' = ps
        /\ waiting' = Relevant(ps, wt)
        /\ current' = current /\ lastScheduled' = lastScheduled /\ halted' = halted
    BY <1>1 DEF ScheduleNextIfNeeded
  <2>2. waiting' \in [Pid -> WaitRecord]
    BY <2>1, RelevantType
  <2>3. QED
    BY <2>1, <2>2 DEF Scheduled, Relevant, TypeOK, ProcTypeOK
<1>2. CASE ps[current] \notin {"runnable", "running"}
  BY <1>2, ScheduleNextScheduled DEF ScheduleNextIfNeeded
<1>3. QED
  BY <1>1, <1>2

\* The scheduler leaves exactly one process running, or none and no current.
LEMMA ScheduleNextRunning ==
    ASSUME TypeOK, NEW ps \in [Pid -> ProcStates], NEW wt, Consistent(ps),
           ScheduleNext(ps, wt)
    PROVE  RunningIsCurrent'
<1>1. \A p \in Pid : Preempted(ps)[p] # "running"
  BY DEF Preempted, Consistent, TypeOK, ProcTypeOK, Pid, NoPid
<1>2. NoPid \notin Pid
  BY DEF NoPid, Pid
<1>3. CASE Ready(ps, wt) = {} /\ Idle(ps)
  BY <1>1, <1>2, <1>3 DEF Idle, RunningIsCurrent
<1>4. ASSUME NEW r \in Ready(ps, wt),
             pstate' = [Preempted(ps) EXCEPT ![r] = "running"],
             current' = r
      PROVE  RunningIsCurrent'
  <2>1. Preempted(ps) \in [Pid -> ProcStates] /\ r \in Pid
    BY DEF Preempted, ProcStates, Ready, TypeOK, ProcTypeOK
  <2>2. QED
    BY <1>1, <1>4, <2>1 DEF RunningIsCurrent
<1>5. QED
  BY <1>3, <1>4 DEF ScheduleNext

LEMMA ScheduleIfNeededRunning ==
    ASSUME TypeOK, NEW ps \in [Pid -> ProcStates], NEW wt, Consistent(ps),
           current # NoPid, ScheduleNextIfNeeded(ps, wt)
    PROVE  RunningIsCurrent'
<1>1. CASE ps[current] \in {"runnable", "running"}
  BY <1>1 DEF ScheduleNextIfNeeded, RunningIsCurrent, Consistent, TypeOK, ProcTypeOK
<1>2. CASE ps[current] \notin {"runnable", "running"}
  BY <1>2, ScheduleNextRunning DEF ScheduleNextIfNeeded
<1>3. QED
  BY <1>1, <1>2

-----------------------------------------------------------------------------
(* What the handlers leave behind *)

\* The invariant: the types, the order of the slots and who is running.  None
\* of the parts is inductive alone: that a caller is in a used slot follows
\* from its being the running process.
KernelInv == TypeInv /\ RunningIsCurrent

\* The part of it about the process table.
ProcInv == ProcTypeOK /\ SlotsInOrder /\ RunningIsCurrent

\* Process states a handler may hand to the scheduler: who is in an empty slot
\* is decided by clone alone, and only the current process is running.
Handled(ps) ==
    /\ ps \in [Pid -> ProcStates]
    /\ \A p \in Pid : ps[p] = "empty" <=> pstate[p] = "empty"
    /\ Consistent(ps)

LEMMA CallerSlot ==
    ASSUME KernelInv, FromProcess
    PROVE  current \in Pid /\ current # NoPid /\ pstate[current] = "running"
  BY DEF KernelInv, TypeInv, TypeOK, ProcTypeOK, RunningIsCurrent, FromProcess

LEMMA SameHandled ==
    ASSUME KernelInv
    PROVE  Handled(pstate) /\ waiting \in [Pid -> WaitRecord]
  BY DEF KernelInv, TypeInv, TypeOK, ProcTypeOK, RunningIsCurrent, Handled, Consistent, NoPid, Pid

\* The caller blocks or ends.
LEMMA CallerHandled ==
    ASSUME KernelInv, FromProcess, NEW state \in {"waiting", "exited", "killed"}
    PROVE  Handled([pstate EXCEPT ![current] = state])
<1>1. current \in Pid /\ pstate[current] = "running"
  BY CallerSlot
<1>2. pstate \in [Pid -> ProcStates] /\ state \in ProcStates
  BY DEF KernelInv, TypeInv, TypeOK, ProcTypeOK, ProcStates
<1>3. QED
  BY <1>1, <1>2 DEF KernelInv, RunningIsCurrent, Handled, Consistent

LEMMA WaitForHandled ==
    ASSUME KernelInv, FromProcess, NEW reason \in WaitReasons, NEW data \in Nat
    PROVE  /\ Handled(WaitForStates)
           /\ WaitForRecords(reason, data) \in [Pid -> WaitRecord]
<1>1. Handled(WaitForStates)
  BY CallerHandled DEF WaitForStates
<1>2. WaitForRecords(reason, data) \in [Pid -> WaitRecord]
  BY CallerSlot DEF WaitForRecords, WaitRecord, KernelInv, TypeInv, TypeOK, ProcTypeOK
<1>3. QED
  BY <1>1, <1>2

\* Processes that wait are woken; the current one is not among them.
LEMMA WakeHandled ==
    ASSUME KernelInv, NEW ps, Handled(ps),
           NEW S, \A p \in S : p \in Pid /\ ps[p] = "waiting",
           current # NoPid => ps[current] # "waiting"
    PROVE  Handled(Wake(ps, S))
<1>1. Wake(ps, S) \in [Pid -> ProcStates]
  BY DEF Wake, Handled, ProcStates
<1>2. \A p \in Pid : Wake(ps, S)[p] = IF p \in S THEN "runnable" ELSE ps[p]
  BY DEF Wake
<1>3. Consistent(Wake(ps, S))
  <2>1. \A p \in Pid : Wake(ps, S)[p] = "running" => p = current
    BY <1>2 DEF Handled, Consistent
  <2>2. current # NoPid => Wake(ps, S)[current] # "runnable"
    BY <1>2 DEF Handled, Consistent, KernelInv, TypeInv, TypeOK, ProcTypeOK
  <2>3. QED
    BY <2>1, <2>2 DEF Consistent
<1>4. \A p \in Pid : Wake(ps, S)[p] = "empty" <=> pstate[p] = "empty"
  BY <1>2 DEF Handled
<1>5. QED
  BY <1>1, <1>3, <1>4 DEF Handled

\* A scheduling decision keeps the slots.
LEMMA ScheduledProcInv ==
    ASSUME KernelInv, NEW ps, Handled(ps), NEW wt, Scheduled(ps, wt), RunningIsCurrent',
           UNCHANGED procVars, clock' = clock, error' \in ErrorCodes, nextMq' = nextMq
    PROVE  ProcInv'
<1>1. ProcTypeOK'
  BY DEF KernelInv, TypeInv, TypeOK, ProcTypeOK, Scheduled, procVars
<1>2. \A p \in Pid : pstate'[p] = "empty" <=> pstate[p] = "empty"
  BY DEF Scheduled, Handled, Gone
<1>3. QED
  BY <1>1, <1>2 DEF ProcInv, KernelInv, TypeInv, SlotsInOrder, procVars

\* The end of a handler that wrote ps and wt.
LEMMA ReturnWithInv ==
    ASSUME KernelInv, FromProcess, NEW code \in ErrorCodes,
           NEW ps, Handled(ps), NEW wt \in [Pid -> WaitRecord],
           ReturnWith(code, ps, wt), nextMq' = nextMq
    PROVE  ProcInv'
<1>1. ps \in [Pid -> ProcStates] /\ Consistent(ps) /\ TypeOK /\ current # NoPid
  BY DEF Handled, KernelInv, TypeInv, FromProcess
<1>2. Scheduled(ps, wt)
  BY <1>1, ScheduleIfNeededScheduled DEF ReturnWith
<1>3. RunningIsCurrent'
  BY <1>1, ScheduleIfNeededRunning DEF ReturnWith
<1>4. QED
  BY <1>2, <1>3, ScheduledProcInv DEF ReturnWith

\* The end of a handler that changed no process.
LEMMA ReturnInv ==
    ASSUME KernelInv, NEW code \in ErrorCodes, Return(code), nextMq' = nextMq
    PROVE  ProcInv'
  BY DEF KernelInv, TypeInv, TypeOK, ProcInv, ProcTypeOK, SlotsInOrder, RunningIsCurrent,
         Return, procVars

LEMMA HaltInv ==
    ASSUME KernelInv, NEW how \in HaltCauses, Halt(how), nextMq' = nextMq
    PROVE  ProcInv'
  BY DEF KernelInv, TypeInv, TypeOK, ProcInv, ProcTypeOK, SlotsInOrder, RunningIsCurrent,
         Halt, procVars, ErrorCodes

-----------------------------------------------------------------------------
(* Mutexes *)

\* The processes that inherit a mutex were blocked on it.
LEMMA HeirsWait ==
    ASSUME NEW heir \in Heirs, NEW R, NEW ps, NEW wt, AreHeirs(heir, R, ps, wt)
    PROVE  /\ \A m \in MutexId : heir[m] # NoPid
                 => m \in R /\ lockCount[m] = 1 /\ heir[m] \in Waiters(ps, wt, "mutex", m)
           /\ \A p \in WokenHeirs(heir) : p \in Pid /\ ps[p] = "waiting"
<1>1. \A m \in MutexId : heir[m] # NoPid
         => m \in R /\ lockCount[m] = 1 /\ heir[m] \in Waiters(ps, wt, "mutex", m)
  BY DEF AreHeirs, IsFirstWaiter
<1>2. \A m \in MutexId : heir[m] # NoPid => heir[m] \in Pid /\ ps[heir[m]] = "waiting"
  BY <1>1 DEF Waiters
<1>3. \A p \in WokenHeirs(heir) : p \in Pid /\ ps[p] = "waiting"
  BY <1>2 DEF WokenHeirs
<1>4. QED
  BY <1>1, <1>3

\* Unlocking keeps the types of the lock tables.
LEMMA UnlockType ==
    ASSUME TypeOK, NEW R, NEW heir \in Heirs,
           \A m \in R : m \in mutexes /\ lockCount[m] > 0,
           Unlock(R, heir)
    PROVE  /\ lockCount' \in [MutexId -> Nat]
           /\ holder' \in [MutexId -> Pid]
           /\ mutexes' = mutexes
           /\ nextMutex' = nextMutex
<1>1. lockCount' \in [MutexId -> Nat]
  <2>1. \A m \in MutexId : m \in R => lockCount[m] - 1 \in Nat
    BY DEF TypeOK, MutexTypeOK
  <2>2. QED
    BY <2>1 DEF Unlock, TypeOK, MutexTypeOK
<1>2. holder' \in [MutexId -> Pid]
  BY DEF Unlock, TypeOK, MutexTypeOK, Heirs
<1>3. QED
  BY <1>1, <1>2 DEF Unlock

LEMMA MutexStepInv ==
    ASSUME KernelInv, MutexStep
    PROVE  KernelInv'
<1>1. CondvarTypeOK' /\ QueueTypeOK' /\ IrqTypeOK' /\ nextMq' = nextMq
  BY DEF MutexStep, KernelInv, TypeInv, TypeOK, CondvarTypeOK, QueueTypeOK, IrqTypeOK,
         condvarVars, mqVars, irqVars
<1>2. SUFFICES MutexTypeOK' /\ ProcInv'
  BY <1>1 DEF KernelInv, TypeInv, TypeOK, ProcInv
<1> USE DEF ErrorCodes
<1>3. CASE LockingCreateMutex
  <2>1. Return("0")
    BY <1>3 DEF LockingCreateMutex
  <2>2. MutexTypeOK'
    BY <1>3, MutexAssumption, SchedulerAssumption
    DEF LockingCreateMutex, KernelInv, TypeInv, TypeOK, MutexTypeOK, MutexId, Pid
  <2>3. QED
    BY <1>1, <2>1, <2>2, ReturnInv
<1>4. ASSUME NEW m \in MutexId, LockingDestroyMutex(m)
      PROVE  MutexTypeOK' /\ ProcInv'
  <2>1. \E code \in ErrorCodes : Return(code)
    BY <1>4, Zenon DEF LockingDestroyMutex
  <2>2. MutexTypeOK'
    BY <1>4 DEF LockingDestroyMutex, KernelInv, TypeInv, TypeOK, MutexTypeOK, mutexVars
  <2>3. QED
    BY <1>1, <2>1, <2>2, ReturnInv
<1>5. ASSUME NEW m \in MutexId, NEW trylock \in BOOLEAN, LockingLockMutex(m, trylock)
      PROVE  MutexTypeOK' /\ ProcInv'
  <2>1. FromProcess /\ current \in Pid
    BY <1>5, CallerSlot DEF LockingLockMutex
  <2>2. MutexTypeOK'
    BY <1>5, <2>1 DEF LockingLockMutex, LockHeldMutex, LockFreeMutex, KernelInv, TypeInv,
       TypeOK, MutexTypeOK, mutexVars
  <2>3. CASE \E code \in ErrorCodes : Return(code)
    BY <1>1, <2>2, <2>3, ReturnInv
  <2>4. CASE ReturnWith("0", WaitForStates, WaitForRecords("mutex", m))
    <3>1. Handled(WaitForStates) /\ WaitForRecords("mutex", m) \in [Pid -> WaitRecord]
      BY <2>1, WaitForHandled DEF WaitReasons, MutexId
    <3>2. QED
      BY <1>1, <2>1, <2>2, <2>4, <3>1, ReturnWithInv
  <2>5. QED
    BY <1>5, <2>3, <2>4, Zenon DEF LockingLockMutex, LockHeldMutex, LockFreeMutex
<1>6. ASSUME NEW m \in MutexId, LockingUnlockMutex(m)
      PROVE  MutexTypeOK' /\ ProcInv'
  <2>1. FromProcess
    BY <1>6 DEF LockingUnlockMutex
  <2>2. CASE UNCHANGED mutexVars /\ \E code \in ErrorCodes : Return(code)
    BY <1>1, <2>2, ReturnInv DEF KernelInv, TypeInv, TypeOK, MutexTypeOK, mutexVars
  <2>3. ASSUME m \in mutexes, lockCount[m] > 0, NEW heir \in Heirs,
               AreHeirs(heir, {m}, pstate, waiting), Unlock({m}, heir),
               ReturnWith("0", Wake(pstate, WokenHeirs(heir)), waiting)
        PROVE  MutexTypeOK' /\ ProcInv'
    <3>1. MutexTypeOK'
      BY <2>3, UnlockType DEF KernelInv, TypeInv, TypeOK, MutexTypeOK
    <3>2. \A p \in WokenHeirs(heir) : p \in Pid /\ pstate[p] = "waiting"
      BY <2>3, HeirsWait
    <3>3. Handled(Wake(pstate, WokenHeirs(heir))) /\ waiting \in [Pid -> WaitRecord]
      BY <2>1, <3>2, SameHandled, CallerSlot, WakeHandled
    <3>4. QED
      BY <1>1, <2>1, <2>3, <3>1, <3>3, ReturnWithInv
  <2>4. QED
    BY <1>6, <2>2, <2>3 DEF LockingUnlockMutex
<1>7. QED
  BY <1>3, <1>4, <1>5, <1>6 DEF MutexStep

-----------------------------------------------------------------------------
(* Condition variables *)

LEMMA CondvarStepInv ==
    ASSUME KernelInv, CondvarStep
    PROVE  KernelInv'
<1>1. MutexTypeOK' /\ QueueTypeOK' /\ IrqTypeOK' /\ nextMq' = nextMq
  BY DEF CondvarStep, KernelInv, TypeInv, TypeOK, MutexTypeOK, QueueTypeOK, IrqTypeOK,
         mutexVars, mqVars, irqVars
<1>2. SUFFICES CondvarTypeOK' /\ ProcInv'
  BY <1>1 DEF KernelInv, TypeInv, TypeOK, ProcInv
<1> USE DEF ErrorCodes
<1>3. CASE LockingCreateCondvar
  <2>1. Return("0")
    BY <1>3 DEF LockingCreateCondvar
  <2>2. CondvarTypeOK'
    BY <1>3, CondvarAssumption
    DEF LockingCreateCondvar, KernelInv, TypeInv, TypeOK, CondvarTypeOK, CondvarId
  <2>3. QED
    BY <1>1, <2>1, <2>2, ReturnInv
<1>4. ASSUME NEW c \in CondvarId, LockingDestroyCondvar(c)
      PROVE  CondvarTypeOK' /\ ProcInv'
  <2>1. \E code \in ErrorCodes : Return(code)
    BY <1>4, Zenon DEF LockingDestroyCondvar
  <2>2. CondvarTypeOK'
    BY <1>4 DEF LockingDestroyCondvar, KernelInv, TypeInv, TypeOK, CondvarTypeOK, condvarVars
  <2>3. QED
    BY <1>1, <2>1, <2>2, ReturnInv
<1>5. ASSUME NEW c \in CondvarId, NEW amount \in Amounts, LockingSignalCondvar(c, amount)
      PROVE  CondvarTypeOK' /\ ProcInv'
  <2>1. CondvarTypeOK'
    BY <1>5 DEF LockingSignalCondvar, CountAfterSignal, KernelInv, TypeInv, TypeOK, CondvarTypeOK
  <2>2. CASE \E code \in ErrorCodes : Return(code)
    BY <1>1, <2>1, <2>2, ReturnInv
  <2>3. CASE ReturnWith("0", Wake(pstate, Signalled(c, amount)), waiting)
    <3>1. FromProcess
      BY <1>5 DEF LockingSignalCondvar
    <3>2. \A p \in Signalled(c, amount) : p \in Pid /\ pstate[p] = "waiting"
      BY DEF Signalled, Waiters
    <3>3. Handled(Wake(pstate, Signalled(c, amount))) /\ waiting \in [Pid -> WaitRecord]
      BY <3>1, <3>2, SameHandled, CallerSlot, WakeHandled
    <3>4. QED
      BY <1>1, <2>1, <2>3, <3>1, <3>3, ReturnWithInv
  <2>4. QED
    BY <1>5, <2>2, <2>3, Zenon DEF LockingSignalCondvar
<1>6. ASSUME NEW c \in CondvarId, LockingWaitCondvar(c)
      PROVE  CondvarTypeOK' /\ ProcInv'
  <2>1. CondvarTypeOK' /\ FromProcess
    BY <1>6 DEF LockingWaitCondvar, KernelInv, TypeInv, TypeOK, CondvarTypeOK, condvarVars
  <2>2. CASE \E code \in ErrorCodes : Return(code)
    BY <1>1, <2>1, <2>2, ReturnInv
  <2>3. CASE ReturnWith("0", WaitForStates, WaitForRecords("condvar", c))
    <3>1. Handled(WaitForStates) /\ WaitForRecords("condvar", c) \in [Pid -> WaitRecord]
      BY <2>1, WaitForHandled DEF WaitReasons, CondvarId
    <3>2. QED
      BY <1>1, <2>1, <2>3, <3>1, ReturnWithInv
  <2>4. QED
    BY <1>6, <2>2, <2>3, Zenon DEF LockingWaitCondvar
<1>7. QED
  BY <1>3, <1>4, <1>5, <1>6 DEF CondvarStep

-----------------------------------------------------------------------------
(* Message queues *)

LEMMA PushType ==
    ASSUME KernelInv, NEW q, NEW msg \in Message
    PROVE  Push(q, msg) \in [QueueId -> Seq(Message)]
  BY DEF Push, KernelInv, TypeInv, TypeOK, QueueTypeOK

\* Waking the readers of a queue, when the current process does not wait.
LEMMA WakeReadersHandled ==
    ASSUME KernelInv, NEW ps, Handled(ps), NEW wt, NEW q,
           current # NoPid => ps[current] # "waiting"
    PROVE  Handled(WakeReaders(ps, wt, q))
<1>1. \A p \in Waiters(ps, wt, "message", q) : p \in Pid /\ ps[p] = "waiting"
  BY DEF Waiters
<1>2. Handled(Wake(ps, Waiters(ps, wt, "message", q)))
  BY <1>1, WakeHandled
<1>3. QED
  BY <1>2 DEF WakeReaders

LEMMA PollInv ==
    ASSUME KernelInv, NEW arg \in {0} \cup QueueId, NEW wait \in BOOLEAN,
           NEW bufsize \in BufferSizes, IpcMqPoll(arg, wait, bufsize)
    PROVE  QueueTypeOK' /\ ProcInv' /\ nextMq' = nextMq
<1> DEFINE q == OwnIfZero(arg)
<1>1. FromProcess
  BY DEF IpcMqPoll
<1>2. q \in Nat
  BY <1>1, CallerSlot, SchedulerAssumption
  DEF OwnIfZero, KernelInv, TypeInv, TypeOK, ProcTypeOK, QueueId
<1>3. nextMq' = nextMq
  BY DEF IpcMqPoll, mqVars
<1>4. QueueTypeOK'
  <2>1. CASE UNCHANGED mqVars
    BY <2>1 DEF mqVars, KernelInv, TypeInv, TypeOK, QueueTypeOK
  <2>2. CASE /\ q \in queues
             /\ msgs[q] # <<>>
             /\ msgs' = [msgs EXCEPT ![q] = Tail(@)]
             /\ UNCHANGED <<queues, nextMq, teardown>>
    <3>1. msgs \in [QueueId -> Seq(Message)] /\ q \in QueueId
      BY <2>2 DEF KernelInv, TypeInv, TypeOK, QueueTypeOK
    <3>2. Tail(msgs[q]) \in Seq(Message)
      BY <2>2, <3>1
    <3>3. QED
      BY <2>2, <3>1, <3>2 DEF KernelInv, TypeInv, TypeOK, QueueTypeOK
  <2>3. QED
    BY <2>1, <2>2 DEF IpcMqPoll
<1>5. CASE \E code \in ErrorCodes : Return(code)
  BY <1>3, <1>4, <1>5, ReturnInv
<1>6. CASE ReturnWith("EAGAIN", WaitForStates, WaitForRecords("message", q))
  <2>1. Handled(WaitForStates) /\ WaitForRecords("message", q) \in [Pid -> WaitRecord]
    BY <1>1, <1>2, WaitForHandled DEF WaitReasons
  <2>2. "EAGAIN" \in ErrorCodes
    BY DEF ErrorCodes
  <2>3. QED
    BY <1>1, <1>3, <1>4, <1>6, <2>1, <2>2, ReturnWithInv
<1>7. QED
  BY <1>5, <1>6, Zenon DEF IpcMqPoll, ErrorCodes

LEMMA SendInv ==
    ASSUME KernelInv, NEW arg, NEW pid, NEW size \in Sizes, IpcMqSend(arg, pid, size)
    PROVE  QueueTypeOK' /\ ProcInv' /\ nextMq' = nextMq
<1> DEFINE q == SendTarget(arg, pid)
<1>1. FromProcess /\ nextMq' = nextMq /\ queues' = queues /\ teardown' = teardown
  BY DEF IpcMqSend
<1>2. [type |-> "user", size |-> size] \in Message
  BY MessageQueueAssumption DEF Message, MsgTypes
<1>3. QueueTypeOK'
  BY <1>1, <1>2, PushType DEF IpcMqSend, KernelInv, TypeInv, TypeOK, QueueTypeOK
<1>4. Handled(WakeReaders(pstate, waiting, q)) /\ waiting \in [Pid -> WaitRecord]
  BY <1>1, SameHandled, CallerSlot, WakeReadersHandled
<1>5. \E code \in ErrorCodes : ReturnWith(code, WakeReaders(pstate, waiting, q), waiting)
  BY DEF IpcMqSend, ErrorCodes
<1>6. QED
  BY <1>1, <1>3, <1>4, <1>5, ReturnWithInv

LEMMA MessageStepInv ==
    ASSUME KernelInv, MessageStep
    PROVE  KernelInv'
<1>1. MutexTypeOK' /\ CondvarTypeOK' /\ IrqTypeOK'
  BY DEF MessageStep, KernelInv, TypeInv, TypeOK, MutexTypeOK, CondvarTypeOK, IrqTypeOK,
         mutexVars, condvarVars, irqVars
<1>2. QueueTypeOK' /\ ProcInv'
  BY PollInv, SendInv DEF MessageStep
<1>3. QED
  BY <1>1, <1>2 DEF KernelInv, TypeInv, TypeOK, ProcInv

-----------------------------------------------------------------------------
(* Interrupts *)

LEMMA CopiesType ==
    ASSUME KernelInv, NEW i \in Irq, NEW q
    PROVE  Copies(i, q) \in Nat
<1> DEFINE D == 1 .. Len(irqQueues[i])
           S == {k \in D : irqQueues[i][k] = q}
<1>1. Len(irqQueues[i]) \in Nat
  BY DEF KernelInv, TypeInv, TypeOK, IrqTypeOK
<1>2. IsFiniteSet(D)
  BY <1>1, FS_Interval
<1>3. S \in SUBSET D
  OBVIOUS
<1> HIDE DEF D, S
<1>4. Cardinality(S) \in Nat
  BY <1>2, <1>3, FS_Subset, FS_CardinalityType
<1>5. QED
  BY <1>4 DEF Copies, S, D

LEMMA WithoutQueueType ==
    ASSUME KernelInv, NEW i \in Irq, NEW q
    PROVE  WithoutQueue(i, q) \in Seq({0} \cup QueueId)
<1>1. irqQueues[i] \in Seq({0} \cup QueueId) /\ Len(irqQueues[i]) \in Nat
  BY DEF KernelInv, TypeInv, TypeOK, IrqTypeOK
<1>2. CASE Registered(i, q)
  <2>1. Len(irqQueues[i]) - 1 \in 0 .. Len(irqQueues[i])
    BY <1>1, <1>2 DEF Registered
  <2>2. QED
    BY <1>1, <1>2, <2>1, SubSeqProperties DEF WithoutQueue, Front
<1>3. CASE ~Registered(i, q)
  BY <1>1, <1>3 DEF WithoutQueue
<1>4. QED
  BY <1>2, <1>3

LEMMA NotifyInv ==
    ASSUME KernelInv, NEW i \in Int, NEW enable \in BOOLEAN, NEW arg \in {0} \cup QueueId,
           HardwareInterruptNotify(i, enable, arg)
    PROVE  QueueTypeOK' /\ IrqTypeOK' /\ ProcInv'
<1> DEFINE q == OwnIfZero(arg)
<1>1. FromProcess /\ q \in {0} \cup QueueId
  BY CallerSlot
  DEF HardwareInterruptNotify, OwnIfZero, KernelInv, TypeInv, TypeOK, ProcTypeOK
<1>2. nextMq' = nextMq /\ queues' = queues /\ msgs' = msgs
  BY DEF HardwareInterruptNotify, mqVars
<1>3. Armed(q) \subseteq QueueId /\ teardown \subseteq QueueId
  BY DEF Armed, KernelInv, TypeInv, TypeOK, QueueTypeOK
<1>4. teardown' \subseteq QueueId
  BY <1>3 DEF HardwareInterruptNotify, mqVars
<1>5. QueueTypeOK'
  BY <1>2, <1>4 DEF KernelInv, TypeInv, TypeOK, QueueTypeOK
<1>6. IrqTypeOK'
  <2>1. irqQueues \in [Irq -> Seq({0} \cup QueueId)]
    BY DEF KernelInv, TypeInv, TypeOK, IrqTypeOK
  <2>2. CASE irqQueues' = irqQueues
    BY <2>1, <2>2 DEF IrqTypeOK
  <2>3. CASE i \in Irq /\ irqQueues' = Added(i, q)
    <3>1. Append(irqQueues[i], q) \in Seq({0} \cup QueueId)
      BY <1>1, <2>1, <2>3, AppendProperties
    <3>2. QED
      BY <2>1, <2>3, <3>1 DEF Added, IrqTypeOK
  <2>4. CASE i \in Irq /\ irqQueues' = [irqQueues EXCEPT ![i] = WithoutQueue(i, q)]
    BY <2>1, <2>4, WithoutQueueType DEF IrqTypeOK
  <2>5. QED
    BY <2>2, <2>3, <2>4 DEF HardwareInterruptNotify, irqVars
<1>7. ProcInv'
  <2>1. CASE \E code \in ErrorCodes : Return(code)
    BY <1>2, <2>1, ReturnInv
  <2>2. CASE \E how \in HaltCauses : Halt(how)
    BY <1>2, <2>2, HaltInv
  <2>3. QED
    BY <2>1, <2>2, Zenon DEF HardwareInterruptNotify, ErrorCodes, HaltCauses
<1>8. QED
  BY <1>5, <1>6, <1>7

LEMMA InterruptInv ==
    ASSUME KernelInv, NEW i \in Irq, HardwareInterrupt(i)
    PROVE  QueueTypeOK' /\ IrqTypeOK' /\ ProcInv'
<1>1. CASE Halt("slot") /\ UNCHANGED <<mqVars, irqVars>>
  BY <1>1, HaltInv
  DEF HaltCauses, mqVars, irqVars, KernelInv, TypeInv, TypeOK, QueueTypeOK, IrqTypeOK
<1> DEFINE S == InterruptReaders(i)
<1>2. CASE /\ msgs' = [q \in QueueId |->
                  IF q \in queues
                  THEN msgs[q] \o [k \in 1 .. Copies(i, q) |-> InterruptMsg]
                  ELSE msgs[q]]
           /\ ScheduleNext(Wake(pstate, S), waiting)
           /\ error' = "none"
           /\ UNCHANGED <<clock, procVars, queues, nextMq, teardown, irqVars>>
  <2>1. QueueTypeOK'
    <3>1. InterruptMsg \in Message
      BY DEF InterruptMsg, Message, MsgTypes, KernelMsgSize
    <3>2. \A q \in QueueId : [k \in 1 .. Copies(i, q) |-> InterruptMsg] \in Seq(Message)
      BY <3>1, CopiesType
    <3>3. \A q \in QueueId : msgs[q] \in Seq(Message)
      BY DEF KernelInv, TypeInv, TypeOK, QueueTypeOK
    <3>4. \A q \in QueueId :
             msgs[q] \o [k \in 1 .. Copies(i, q) |-> InterruptMsg] \in Seq(Message)
      BY <3>2, <3>3, ConcatProperties
    <3>5. msgs' \in [QueueId -> Seq(Message)]
      BY <1>2, <3>3, <3>4
    <3>6. QED
      BY <1>2, <3>5 DEF KernelInv, TypeInv, TypeOK, QueueTypeOK
  <2>2. IrqTypeOK'
    BY <1>2 DEF KernelInv, TypeInv, TypeOK, IrqTypeOK, irqVars
  <2>3. current # NoPid => pstate[current] # "waiting"
    BY DEF KernelInv, TypeInv, TypeOK, ProcTypeOK, RunningIsCurrent
  <2>4. \A p \in S : p \in Pid /\ pstate[p] = "waiting"
    BY DEF InterruptReaders, Waiters
  <2>5. Handled(Wake(pstate, S)) /\ waiting \in [Pid -> WaitRecord]
    BY <2>3, <2>4, SameHandled, WakeHandled
  <2>6. Wake(pstate, S) \in [Pid -> ProcStates] /\ Consistent(Wake(pstate, S)) /\ TypeOK
    BY <2>5 DEF Handled, KernelInv, TypeInv
  <2>7. Scheduled(Wake(pstate, S), waiting) /\ RunningIsCurrent'
    BY <1>2, <2>5, <2>6, ScheduleNextScheduled, ScheduleNextRunning
  <2>8. "none" \in ErrorCodes
    BY DEF ErrorCodes
  <2>9. QED
    BY <1>2, <2>1, <2>2, <2>5, <2>7, <2>8, ScheduledProcInv
<1>3. QED
  BY <1>1, <1>2 DEF HardwareInterrupt

LEMMA InterruptStepInv ==
    ASSUME KernelInv, InterruptStep
    PROVE  KernelInv'
<1>1. MutexTypeOK' /\ CondvarTypeOK'
  BY DEF InterruptStep, KernelInv, TypeInv, TypeOK, MutexTypeOK, CondvarTypeOK,
         mutexVars, condvarVars
<1>2. QueueTypeOK' /\ IrqTypeOK' /\ ProcInv'
  BY NotifyInv, InterruptInv, InterruptsAssumption DEF InterruptStep
<1>3. QED
  BY <1>1, <1>2 DEF KernelInv, TypeInv, TypeOK, ProcInv

-----------------------------------------------------------------------------
(* Processes sleep, end and are cloned *)

\* scheduler_process_cleanup and the scheduling decision after it.
LEMMA EndCurrentInv ==
    ASSUME KernelInv, NEW how \in Dead, EndCurrent(how)
    PROVE  KernelInv'
<1> DEFINE ended == [pstate EXCEPT ![current] = how]
           own == pmq[current]
           freed == UnlockedForHolder(current)
<1>1. FromProcess /\ CondvarTypeOK'
  BY DEF EndCurrent, KernelInv, TypeInv, TypeOK, CondvarTypeOK, condvarVars
<1>2. CASE Halt("memmove") /\ UNCHANGED <<mutexVars, mqVars, irqVars>>
  <2>1. ProcInv'
    BY <1>2, HaltInv DEF HaltCauses, mqVars
  <2>2. MutexTypeOK' /\ QueueTypeOK' /\ IrqTypeOK'
    BY <1>2 DEF mutexVars, mqVars, irqVars, KernelInv, TypeInv, TypeOK, MutexTypeOK,
       QueueTypeOK, IrqTypeOK
  <2>3. QED
    BY <1>1, <2>1, <2>2 DEF KernelInv, TypeInv, TypeOK, ProcInv
<1>3. ASSUME NEW heir \in Heirs, NEW target \in SigchldTargets(current),
             AreHeirs(heir, freed, ended, waiting), Unlock(freed, heir),
             MqDestroy(own, Push(target, SigchldMsg)), irqQueues' = TornDown(own),
             ReturnWith("none",
                 WakeReaders(Wake(ended, WokenHeirs(heir)), waiting, target), waiting)
      PROVE  KernelInv'
  <2>1. MutexTypeOK'
    <3>1. \A m \in freed : m \in mutexes /\ lockCount[m] > 0
      BY DEF UnlockedForHolder
    <3>2. QED
      BY <1>3, <3>1, UnlockType DEF KernelInv, TypeInv, TypeOK, MutexTypeOK
  <2>2. QueueTypeOK' /\ nextMq' = nextMq
    <3>1. Push(target, SigchldMsg) \in [QueueId -> Seq(Message)]
      BY PushType DEF SigchldMsg, Message, MsgTypes, KernelMsgSize
    <3> DEFINE tbl == Push(target, SigchldMsg)
    <3>2. /\ msgs' = [tbl EXCEPT ![own] = <<>>]
          /\ queues' = queues \ {own} /\ teardown' = teardown \ {own} /\ nextMq' = nextMq
      BY <1>3 DEF MqDestroy
    <3> HIDE DEF tbl, own
    <3>3. tbl \in [QueueId -> Seq(Message)] /\ <<>> \in Seq(Message)
      BY <3>1, EmptySeq DEF tbl
    <3>4. msgs' \in [QueueId -> Seq(Message)]
      BY <3>2, <3>3
    <3>5. QED
      BY <3>2, <3>4 DEF KernelInv, TypeInv, TypeOK, QueueTypeOK
  <2>3. IrqTypeOK'
    BY <1>3, WithoutQueueType DEF TornDown, KernelInv, TypeInv, TypeOK, IrqTypeOK
  <2>4. Handled(ended) /\ ended[current] = how
    BY <1>1, CallerHandled, CallerSlot
    DEF Dead, KernelInv, TypeInv, TypeOK, ProcTypeOK
  <2>5. \A p \in WokenHeirs(heir) : p \in Pid /\ ended[p] = "waiting"
    <3>1. AreHeirs(heir, freed, ended, waiting)
      BY <1>3
    <3> HIDE DEF freed, ended
    <3>2. QED
      BY <3>1, HeirsWait
  <2>6. Handled(Wake(ended, WokenHeirs(heir)))
    BY <2>4, <2>5, WakeHandled DEF Dead
  <2>7. Wake(ended, WokenHeirs(heir))[current] = how
    BY <1>1, <2>4, <2>5, CallerSlot DEF Wake, Dead
  <2>8. Handled(WakeReaders(Wake(ended, WokenHeirs(heir)), waiting, target))
    BY <2>6, <2>7, WakeReadersHandled DEF Dead
  <2>9. ProcInv'
    BY <1>1, <1>3, <2>2, <2>8, ReturnWithInv, SameHandled DEF ErrorCodes
  <2>10. QED
    BY <1>1, <2>1, <2>2, <2>3, <2>9 DEF KernelInv, TypeInv, TypeOK, ProcInv
<1>4. QED
  BY <1>2, <1>3 DEF EndCurrent

\* The lowest empty slot is the one whose queue comes next.
LEMMA FreePid ==
    ASSUME KernelInv, NEW pid \in Pid, IsFreePid(pid)
    PROVE  pid = nextMq - 1
<1>1. nextMq - 1 \in Int /\ nextMq - 1 >= 0 /\ pid >= nextMq - 1 /\ pid \in Int
  BY SchedulerAssumption
  DEF IsFreePid, KernelInv, TypeInv, TypeOK, QueueTypeOK, SlotsInOrder, Pid
<1>2. ASSUME nextMq - 1 < pid PROVE FALSE
  <2>1. nextMq - 1 \in Pid
    BY <1>1, <1>2, SchedulerAssumption DEF Pid
  <2>2. pstate[nextMq - 1] = "empty"
    BY <1>1, <2>1 DEF KernelInv, TypeInv, SlotsInOrder
  <2>3. QED
    BY <1>2, <2>1, <2>2 DEF IsFreePid
<1>3. QED
  BY <1>1, <1>2

LEMMA CloneInv ==
    ASSUME KernelInv, SchedulerClone
    PROVE  KernelInv'
<1>1. MutexTypeOK' /\ CondvarTypeOK' /\ IrqTypeOK' /\ FromProcess
  BY DEF SchedulerClone, KernelInv, TypeInv, TypeOK, MutexTypeOK, CondvarTypeOK, IrqTypeOK,
         mutexVars, condvarVars, irqVars
<1>2. CASE Halt("pids") /\ UNCHANGED mqVars
  <2>1. ProcInv'
    BY <1>2, HaltInv DEF HaltCauses, mqVars
  <2>2. QueueTypeOK'
    BY <1>2 DEF mqVars, KernelInv, TypeInv, TypeOK, QueueTypeOK
  <2>3. QED
    BY <1>1, <2>1, <2>2 DEF KernelInv, TypeInv, TypeOK, ProcInv
<1>3. ASSUME NEW pid \in Pid, IsFreePid(pid),
             parent' = [parent EXCEPT ![pid] = current],
             pmq' = [pmq EXCEPT ![pid] = nextMq],
             MqCreate,
             pstate' = [pstate EXCEPT ![pid] = "runnable"],
             error' = "none",
             UNCHANGED <<waiting, current, lastScheduled, clock, halted, oob>>
      PROVE  KernelInv'
  <2>1. pid = nextMq - 1 /\ nextMq \in QueueId /\ nextMq' = nextMq + 1
    BY <1>3, FreePid, SchedulerAssumption
    DEF MqCreate, QueueId, Pid, KernelInv, TypeInv, TypeOK, QueueTypeOK
  <2>2. pid # current /\ current \in Pid /\ pstate[pid] = "empty"
    BY <1>1, <1>3, CallerSlot DEF IsFreePid
  <2>3. QueueTypeOK'
    <3>1. nextMq' \in 1 .. N + 1
      BY <2>1, SchedulerAssumption DEF QueueId
    <3>2. QED
      BY <1>3, <2>1, <3>1 DEF MqCreate, KernelInv, TypeInv, TypeOK, QueueTypeOK
  <2>4. ProcTypeOK'
    BY <1>3, <2>1, <2>2 DEF KernelInv, TypeInv, TypeOK, ProcTypeOK, ProcStates, ErrorCodes
  <2>5. RunningIsCurrent'
    BY <1>3, <2>2 DEF KernelInv, TypeInv, TypeOK, ProcTypeOK, RunningIsCurrent
  <2>6. SlotsInOrder'
    <3>1. \A p \in Pid : p \in Int
      BY DEF Pid
    <3>2. nextMq \in Int
      BY DEF KernelInv, TypeInv, TypeOK, QueueTypeOK
    <3>3. \A p \in Pid : pstate'[p] = IF p = pid THEN "runnable" ELSE pstate[p]
      BY <1>3 DEF KernelInv, TypeInv, TypeOK, ProcTypeOK
    <3>4. \A p \in Pid : pmq'[p] = IF p = pid THEN nextMq ELSE pmq[p]
      BY <1>3 DEF KernelInv, TypeInv, TypeOK, ProcTypeOK
    <3>5. \A p \in Pid : pstate[p] = "empty" <=> p >= nextMq - 1
      BY DEF KernelInv, TypeInv, SlotsInOrder
    <3>6. \A p \in Pid : pmq[p] = IF p < nextMq - 1 THEN p + 1 ELSE 0
      BY DEF KernelInv, TypeInv, SlotsInOrder
    <3>7. QED
      BY <2>1, <3>1, <3>2, <3>3, <3>4, <3>5, <3>6 DEF SlotsInOrder
  <2>7. QED
    BY <1>1, <2>3, <2>4, <2>5, <2>6 DEF KernelInv, TypeInv, TypeOK
<1>4. QED
  BY <1>2, <1>3 DEF SchedulerClone

LEMMA SleepInv ==
    ASSUME KernelInv, NEW ns \in Naps, SchedulerSleep(ns),
           UNCHANGED <<mutexVars, condvarVars, mqVars, irqVars>>
    PROVE  KernelInv'
<1>1. Deadline(ns) \in Nat
  BY SchedulerAssumption DEF Deadline, KernelInv, TypeInv, TypeOK, ProcTypeOK
<1>2. FromProcess /\ ReturnWith("none", WaitForStates, WaitForRecords("time", Deadline(ns)))
  BY DEF SchedulerSleep
<1>3. /\ Handled(WaitForStates)
      /\ WaitForRecords("time", Deadline(ns)) \in [Pid -> WaitRecord]
  BY <1>1, <1>2, WaitForHandled DEF WaitReasons
<1>4. nextMq' = nextMq /\ "none" \in ErrorCodes
  BY DEF mqVars, ErrorCodes
<1>5. ProcInv'
  BY <1>2, <1>3, <1>4, ReturnWithInv
<1>6. QED
  BY <1>5 DEF KernelInv, TypeInv, TypeOK, ProcInv, MutexTypeOK, CondvarTypeOK, QueueTypeOK,
     IrqTypeOK, mutexVars, condvarVars, mqVars, irqVars

LEMMA SchedulerStepInv ==
    ASSUME KernelInv, SchedulerStep
    PROVE  KernelInv'
<1>1. CASE Tick /\ UNCHANGED <<mutexVars, condvarVars, mqVars, irqVars>>
  BY <1>1 DEF Tick, procVars, KernelInv, TypeInv, TypeOK, ProcTypeOK, MutexTypeOK,
     CondvarTypeOK, QueueTypeOK, IrqTypeOK, mutexVars, condvarVars, mqVars, irqVars,
     SlotsInOrder, RunningIsCurrent, ErrorCodes
<1>2. CASE SchedulerExit \/ UserspaceException
  BY <1>2, EndCurrentInv DEF SchedulerExit, UserspaceException, Dead
<1>3. QED
  BY <1>1, <1>2, SleepInv, CloneInv DEF SchedulerStep

-----------------------------------------------------------------------------
(* The invariant *)

LEMMA InitInv == Init => KernelInv
<1> SUFFICES ASSUME Init PROVE KernelInv
  OBVIOUS
<1>1. ProcTypeOK
  BY SchedulerAssumption DEF Init, SchedulerInit, ProcTypeOK, Pid, NoPid, ProcStates,
     WaitRecord, NoWait, WaitReasons, QueueId, HaltCauses, ErrorCodes
<1>2. MutexTypeOK /\ CondvarTypeOK
  BY SchedulerAssumption
  DEF Init, MutexInit, CondvarInit, MutexTypeOK, CondvarTypeOK, Pid
<1>3. QueueTypeOK
  BY SchedulerAssumption DEF Init, MessageQueueInit, QueueTypeOK, QueueId
<1>4. IrqTypeOK
  BY DEF Init, InterruptsInit, IrqTypeOK
<1>5. SlotsInOrder
  BY SchedulerAssumption
  DEF Init, SchedulerInit, MessageQueueInit, SlotsInOrder, Pid
<1>6. RunningIsCurrent
  BY DEF Init, SchedulerInit, RunningIsCurrent, Pid, NoPid
<1>7. QED
  BY <1>1, <1>2, <1>3, <1>4, <1>5, <1>6 DEF KernelInv, TypeInv, TypeOK

LEMMA StepInv == KernelInv /\ [Next]_vars => KernelInv'
<1> SUFFICES ASSUME KernelInv, [Next]_vars PROVE KernelInv'
  OBVIOUS
<1>1. CASE Next
  BY <1>1, SchedulerStepInv, MutexStepInv, CondvarStepInv, MessageStepInv, InterruptStepInv
  DEF Next
<1>2. CASE UNCHANGED vars
  BY <1>2 DEF vars, KernelInv, TypeInv, TypeOK, ProcTypeOK, MutexTypeOK, CondvarTypeOK,
     QueueTypeOK, IrqTypeOK, mutexVars, condvarVars, mqVars, irqVars, SlotsInOrder,
     RunningIsCurrent
<1>3. QED
  BY <1>1, <1>2

LEMMA Invariance == Spec => []KernelInv
  BY InitInv, StepInv, PTL DEF Spec

\* Every table keeps its type, for any number of slots, locks and queues; in
\* particular mq_create hands out no id beyond those of the slots.
THEOREM TypeCorrect == Spec => []TypeOK
<1>1. KernelInv => TypeOK
  BY DEF KernelInv, TypeInv
<1>2. QED
  BY <1>1, Invariance, PTL

\* Whatever system calls, exceptions and interrupts do, exactly the current
\* process is in state running, or none when the CPU idles.
THEOREM OneRunning == Spec => []RunningIsCurrent
<1>1. KernelInv => RunningIsCurrent
  BY DEF KernelInv
<1>2. QED
  BY <1>1, Invariance, PTL

=============================================================================
