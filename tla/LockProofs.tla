------------------------------ MODULE LockProofs -----------------------------
(****************************************************************************)
(* Proofs about blocked processes: nobody waits for a mutex that is free,   *)
(* gone or its own, whoever leaves lock_mutex holds the mutex, and the      *)
(* mutexes implement the locks of module Lock.  Then about message queues,  *)
(* the end of processes and condition variables: who may be blocked on      *)
(* what, and who is told; and that the two scans of the scheduler,          *)
(* schedule_next and scheduler_waitable_done, go round: nobody is passed    *)
(* over twice by the same process.                                          *)
(****************************************************************************)
EXTENDS KernelProofs

-----------------------------------------------------------------------------
(* Who waits for what after a handler *)

\* The scheduler wakes sleepers only.
LEMMA ScheduledWaiters ==
    ASSUME NEW ps, NEW wt, Scheduled(ps, wt), NEW reason, reason # "time", NEW data
    PROVE  Waiters(pstate', waiting', reason, data) = Waiters(ps, wt, reason, data)
<1>1. \A p \in Pid :
         (pstate'[p] = "waiting" /\ waiting'[p] = [reason |-> reason, data |-> data])
             <=> (ps[p] = "waiting" /\ wt[p] = [reason |-> reason, data |-> data])
  BY DEF Scheduled
<1>2. QED
  BY <1>1 DEF Waiters

LEMMA ReturnWithWaiters ==
    ASSUME KernelInv, FromProcess, NEW code,
           NEW ps, Handled(ps), NEW wt \in [Pid -> WaitRecord], ReturnWith(code, ps, wt),
           NEW reason, reason # "time", NEW data
    PROVE  Waiters(pstate', waiting', reason, data) = Waiters(ps, wt, reason, data)
<1>1. Scheduled(ps, wt)
  BY ScheduleIfNeededScheduled DEF ReturnWith, Handled, KernelInv, TypeInv
<1>2. QED
  BY <1>1, ScheduledWaiters

LEMMA WakeWaiters ==
    ASSUME NEW ps, NEW wt, NEW S, NEW reason, NEW data
    PROVE  Waiters(Wake(ps, S), wt, reason, data) = Waiters(ps, wt, reason, data) \ S
  BY DEF Waiters, Wake

LEMMA WakeOthers ==
    ASSUME NEW ps, NEW wt, NEW S, NEW reason, NEW data,
           \A p \in S : wt[p].reason # reason
    PROVE  Waiters(Wake(ps, S), wt, reason, data) = Waiters(ps, wt, reason, data)
<1>1. \A p \in S : p \notin Waiters(ps, wt, reason, data)
  BY DEF Waiters
<1>2. QED
  BY <1>1, WakeWaiters

\* The caller blocks: one waiter more.
LEMMA WaitForWaiters ==
    ASSUME KernelInv, FromProcess, NEW because, NEW what, NEW reason, NEW data
    PROVE  Waiters(WaitForStates, WaitForRecords(because, what), reason, data)
             = Waiters(pstate, waiting, reason, data)
                 \cup (IF because = reason /\ what = data THEN {current} ELSE {})
<1>1. current \in Pid /\ pstate[current] = "running"
  BY CallerSlot
<1>2. pstate \in [Pid -> ProcStates] /\ waiting \in [Pid -> WaitRecord]
  BY DEF KernelInv, TypeInv, TypeOK, ProcTypeOK
<1>3. QED
  BY <1>1, <1>2 DEF Waiters, WaitForStates, WaitForRecords

\* The caller ends: it was no waiter.
LEMMA EndedWaiters ==
    ASSUME KernelInv, FromProcess, NEW how \in Dead, NEW reason, NEW data
    PROVE  Waiters([pstate EXCEPT ![current] = how], waiting, reason, data)
             = Waiters(pstate, waiting, reason, data)
<1>1. current \in Pid /\ pstate[current] = "running"
  BY CallerSlot
<1>2. pstate \in [Pid -> ProcStates]
  BY DEF KernelInv, TypeInv, TypeOK, ProcTypeOK
<1>3. QED
  BY <1>1, <1>2 DEF Waiters, Dead

\* Waking readers of a queue wakes nobody who waits for something else.
LEMMA WakeReadersWaiters ==
    ASSUME NEW ps, NEW wt, NEW q, NEW reason, reason # "message", NEW data
    PROVE  Waiters(WakeReaders(ps, wt, q), wt, reason, data) = Waiters(ps, wt, reason, data)
<1>1. Waiters(ps, wt, reason, data) \cap Waiters(ps, wt, "message", q) = {}
  BY DEF Waiters
<1>2. QED
  BY <1>1, WakeWaiters DEF WakeReaders

-----------------------------------------------------------------------------
(* What the components leave alone *)

\* A step blocks and wakes nobody for this reason.
Leaves(reason) ==
    \A d \in Nat :
        Waiters(pstate', waiting', reason, d) = Waiters(pstate, waiting, reason, d)

\* A step starts and ends no process.
SameLife ==
    \A p \in Pid : pstate'[p] \in Gone \/ pstate[p] \in Gone => pstate'[p] = pstate[p]

SameSlots == SameLife /\ UNCHANGED procVars

\* A handler that blocked nobody but the caller and woke nobody but S.
LEMMA BlockFrame ==
    ASSUME KernelInv, FromProcess, NEW code, NEW because \in WaitReasons, NEW what \in Nat,
           ReturnWith(code, WaitForStates, WaitForRecords(because, what))
    PROVE  /\ SameSlots
           /\ \A reason \in WaitReasons \ {"time"}, d \in Nat :
                 Waiters(pstate', waiting', reason, d)
                   = Waiters(pstate, waiting, reason, d)
                       \cup (IF because = reason /\ what = d THEN {current} ELSE {})
<1>1. Handled(WaitForStates) /\ WaitForRecords(because, what) \in [Pid -> WaitRecord]
  BY WaitForHandled
<1>2. Scheduled(WaitForStates, WaitForRecords(because, what))
  BY <1>1, ScheduleIfNeededScheduled DEF ReturnWith, Handled, KernelInv, TypeInv
<1>3. \A p \in Pid : WaitForStates[p] \in Gone \/ pstate[p] \in Gone
                         => WaitForStates[p] = pstate[p]
  BY CallerSlot DEF WaitForStates, Gone, KernelInv, TypeInv, TypeOK, ProcTypeOK
<1>4. SameSlots
  BY <1>2, <1>3 DEF SameSlots, SameLife, Scheduled, ReturnWith
<1>5. ASSUME NEW reason \in WaitReasons \ {"time"}, NEW d \in Nat
      PROVE  Waiters(pstate', waiting', reason, d)
               = Waiters(pstate, waiting, reason, d)
                   \cup (IF because = reason /\ what = d THEN {current} ELSE {})
  <2>1. reason # "time"
    OBVIOUS
  <2>2. QED
    BY <1>2, <2>1, ScheduledWaiters, WaitForWaiters
<1>6. QED
  BY <1>4, <1>5

\* The scheduler runs after the processes in S were woken.
LEMMA WakeFrame ==
    ASSUME KernelInv, NEW S, \A p \in S : p \in Pid /\ pstate[p] = "waiting",
           Scheduled(Wake(pstate, S), waiting)
    PROVE  /\ SameLife
           /\ \A reason \in WaitReasons \ {"time"}, d \in Nat :
                 Waiters(pstate', waiting', reason, d)
                   = Waiters(pstate, waiting, reason, d) \ S
<1>1. \A p \in Pid : Wake(pstate, S)[p] \in Gone \/ pstate[p] \in Gone
                         => Wake(pstate, S)[p] = pstate[p]
  BY DEF Wake, Gone
<1>2. SameLife
  BY <1>1 DEF SameLife, Scheduled
<1>3. ASSUME NEW reason \in WaitReasons \ {"time"}, NEW d \in Nat
      PROVE  Waiters(pstate', waiting', reason, d) = Waiters(pstate, waiting, reason, d) \ S
  <2>1. reason # "time"
    OBVIOUS
  <2>2. QED
    BY <2>1, ScheduledWaiters, WakeWaiters
<1>4. QED
  BY <1>2, <1>3

LEMMA ReturnWakeFrame ==
    ASSUME KernelInv, FromProcess, NEW S, \A p \in S : p \in Pid /\ pstate[p] = "waiting",
           NEW code, ReturnWith(code, Wake(pstate, S), waiting)
    PROVE  /\ SameSlots
           /\ \A reason \in WaitReasons \ {"time"}, d \in Nat :
                 Waiters(pstate', waiting', reason, d)
                   = Waiters(pstate, waiting, reason, d) \ S
<1>1. Handled(Wake(pstate, S)) /\ waiting \in [Pid -> WaitRecord]
  BY SameHandled, CallerSlot, WakeHandled
<1>2. Scheduled(Wake(pstate, S), waiting)
  BY <1>1, ScheduleIfNeededScheduled DEF ReturnWith, Handled, KernelInv, TypeInv
<1>3. QED
  BY <1>2, WakeFrame DEF SameSlots, ReturnWith

\* Blocking or waking for one reason leaves the waiters for the others alone.
LEMMA BlockLeaves ==
    ASSUME KernelInv, FromProcess, NEW code, NEW because \in WaitReasons, NEW what \in Nat,
           ReturnWith(code, WaitForStates, WaitForRecords(because, what)),
           NEW reason \in WaitReasons \ {"time"}, reason # because
    PROVE  SameSlots /\ Leaves(reason)
<1>1. SameSlots
  BY BlockFrame
<1>2. ASSUME NEW d \in Nat
      PROVE  Waiters(pstate', waiting', reason, d) = Waiters(pstate, waiting, reason, d)
  <2>1. Waiters(pstate', waiting', reason, d)
           = Waiters(pstate, waiting, reason, d)
               \cup (IF because = reason /\ what = d THEN {current} ELSE {})
    BY BlockFrame
  <2>2. QED
    BY <2>1
<1>3. QED
  BY <1>1, <1>2 DEF Leaves

LEMMA WakeLeaves ==
    ASSUME NEW S, NEW reason, \A p \in S : waiting[p].reason # reason,
           \A d \in Nat : Waiters(pstate', waiting', reason, d)
                              = Waiters(pstate, waiting, reason, d) \ S
    PROVE  Leaves(reason)
<1>1. ASSUME NEW d \in Nat
      PROVE  Waiters(pstate', waiting', reason, d) = Waiters(pstate, waiting, reason, d)
  <2>1. \A p \in S : p \notin Waiters(pstate, waiting, reason, d)
    BY DEF Waiters
  <2>2. Waiters(pstate', waiting', reason, d) = Waiters(pstate, waiting, reason, d) \ S
    OBVIOUS
  <2>3. QED
    BY <2>1, <2>2
<1>2. QED
  BY <1>1 DEF Leaves

\* A handler that changed no process.
LEMMA QuietFrame ==
    ASSUME UNCHANGED <<pstate, waiting>>, UNCHANGED procVars
    PROVE  SameSlots /\ \A reason \in WaitReasons : Leaves(reason)
  BY DEF SameSlots, SameLife, Leaves

LEMMA ReturnFrame ==
    ASSUME NEW code, Return(code)
    PROVE  SameSlots /\ \A reason \in WaitReasons : Leaves(reason)
  BY QuietFrame DEF Return

LEMMA HaltFrame ==
    ASSUME NEW how, Halt(how)
    PROVE  SameSlots /\ \A reason \in WaitReasons : Leaves(reason)
  BY QuietFrame DEF Halt

LEMMA MutexStepFrame ==
    ASSUME KernelInv, MutexStep
    PROVE  SameSlots /\ Leaves("condvar") /\ Leaves("message")
<1> USE DEF WaitReasons
<1>1. CASE \E code \in ErrorCodes : Return(code)
  BY <1>1, ReturnFrame
<1>2. ASSUME NEW m \in MutexId, FromProcess,
             ReturnWith("0", WaitForStates, WaitForRecords("mutex", m))
      PROVE  SameSlots /\ Leaves("condvar") /\ Leaves("message")
  <2>1. m \in Nat
    BY DEF MutexId
  <2>2. QED
    BY <1>2, <2>1, BlockLeaves
<1>3. ASSUME NEW m \in MutexId, FromProcess, NEW heir \in Heirs,
             AreHeirs(heir, {m}, pstate, waiting),
             ReturnWith("0", Wake(pstate, WokenHeirs(heir)), waiting)
      PROVE  SameSlots /\ Leaves("condvar") /\ Leaves("message")
  <2>1. \A p \in WokenHeirs(heir) : p \in Pid /\ pstate[p] = "waiting"
    BY <1>3, HeirsWait
  <2>2. \A n \in MutexId : heir[n] # NoPid
           => heir[n] \in Waiters(pstate, waiting, "mutex", n)
    BY <1>3, HeirsWait
  <2>3. ASSUME NEW p \in WokenHeirs(heir) PROVE waiting[p].reason = "mutex"
    <3>1. PICK n \in MutexId : p = heir[n] /\ heir[n] # NoPid
      BY DEF WokenHeirs
    <3>2. waiting[p] = [reason |-> "mutex", data |-> n]
      BY <2>2, <3>1 DEF Waiters
    <3>3. QED
      BY <3>2
  <2>4. /\ SameSlots
        /\ \A reason \in WaitReasons \ {"time"}, d \in Nat :
              Waiters(pstate', waiting', reason, d)
                = Waiters(pstate, waiting, reason, d) \ WokenHeirs(heir)
    BY <1>3, <2>1, ReturnWakeFrame
  <2>5. Leaves("condvar")
    BY <2>3, <2>4, WakeLeaves
  <2>6. Leaves("message")
    BY <2>3, <2>4, WakeLeaves
  <2>7. QED
    BY <2>4, <2>5, <2>6
<1>4. ASSUME NEW m \in MutexId, NEW trylock \in BOOLEAN, LockingLockMutex(m, trylock)
      PROVE  SameSlots /\ Leaves("condvar") /\ Leaves("message")
  BY <1>1, <1>2, <1>4, Zenon
  DEF LockingLockMutex, LockHeldMutex, LockFreeMutex, ErrorCodes
<1>5. ASSUME NEW m \in MutexId, LockingUnlockMutex(m)
      PROVE  SameSlots /\ Leaves("condvar") /\ Leaves("message")
  BY <1>1, <1>3, <1>5, Zenon DEF LockingUnlockMutex, ErrorCodes
<1>6. CASE LockingCreateMutex \/ \E m \in MutexId : LockingDestroyMutex(m)
  BY <1>1, <1>6, Zenon DEF LockingCreateMutex, LockingDestroyMutex, ErrorCodes
<1>7. QED
  BY <1>4, <1>5, <1>6 DEF MutexStep

\* The processes a signal wakes were blocked on the condition variable.
LEMMA SignalledWait ==
    ASSUME NEW c, NEW amount, NEW p \in Signalled(c, amount)
    PROVE  p \in Pid /\ pstate[p] = "waiting" /\ waiting[p].reason = "condvar"
<1>1. waiting[p] = [reason |-> "condvar", data |-> c] /\ p \in Pid /\ pstate[p] = "waiting"
  BY DEF Signalled, Waiters
<1>2. QED
  BY <1>1

LEMMA CondvarStepFrame ==
    ASSUME KernelInv, CondvarStep
    PROVE  SameSlots /\ Leaves("mutex") /\ Leaves("message")
<1> USE DEF WaitReasons
<1>1. CASE \E code \in ErrorCodes : Return(code)
  BY <1>1, ReturnFrame
<1>2. ASSUME NEW c \in CondvarId, FromProcess,
             ReturnWith("0", WaitForStates, WaitForRecords("condvar", c))
      PROVE  SameSlots /\ Leaves("mutex") /\ Leaves("message")
  <2>1. c \in Nat
    BY DEF CondvarId
  <2>2. QED
    BY <1>2, <2>1, BlockLeaves
<1>3. ASSUME NEW c, FromProcess, NEW amount,
             ReturnWith("0", Wake(pstate, Signalled(c, amount)), waiting)
      PROVE  SameSlots /\ Leaves("mutex") /\ Leaves("message")
  <2>1. \A p \in Signalled(c, amount) :
           p \in Pid /\ pstate[p] = "waiting" /\ waiting[p].reason = "condvar"
    BY SignalledWait
  <2>2. /\ SameSlots
        /\ \A reason \in WaitReasons \ {"time"}, d \in Nat :
              Waiters(pstate', waiting', reason, d)
                = Waiters(pstate, waiting, reason, d) \ Signalled(c, amount)
    BY <1>3, <2>1, ReturnWakeFrame
  <2>3. QED
    BY <2>1, <2>2, WakeLeaves
<1>4. QED
  BY <1>1, <1>2, <1>3, Zenon DEF CondvarStep, LockingCreateCondvar, LockingDestroyCondvar,
     LockingSignalCondvar, LockingWaitCondvar, ErrorCodes

LEMMA MessageStepFrame ==
    ASSUME KernelInv, MessageStep
    PROVE  SameSlots /\ Leaves("mutex") /\ Leaves("condvar")
<1> USE DEF WaitReasons
<1>1. CASE \E code \in ErrorCodes : Return(code)
  BY <1>1, ReturnFrame
<1>2. ASSUME NEW arg \in {0} \cup QueueId, FromProcess,
             ReturnWith("EAGAIN", WaitForStates, WaitForRecords("message", OwnIfZero(arg)))
      PROVE  SameSlots /\ Leaves("mutex") /\ Leaves("condvar")
  <2>1. OwnIfZero(arg) \in Nat
    BY <1>2, CallerSlot DEF OwnIfZero, KernelInv, TypeInv, TypeOK, ProcTypeOK, QueueId
  <2>2. QED
    BY <1>2, <2>1, BlockLeaves
<1>3. ASSUME NEW arg, NEW pid, NEW size, IpcMqSend(arg, pid, size)
      PROVE  SameSlots /\ Leaves("mutex") /\ Leaves("condvar")
  <2> DEFINE q == SendTarget(arg, pid)
             S == IF q \in queues THEN Waiters(pstate, waiting, "message", q) ELSE {}
  <2>1. WakeReaders(pstate, waiting, q) = Wake(pstate, S)
    BY DEF WakeReaders, Wake, KernelInv, TypeInv, TypeOK, ProcTypeOK
  <2>2. FromProcess /\ \E code : ReturnWith(code, Wake(pstate, S), waiting)
    BY <1>3, <2>1 DEF IpcMqSend
  <2>3. \A p \in S : p \in Pid /\ pstate[p] = "waiting" /\ waiting[p].reason = "message"
    BY DEF Waiters
  <2> HIDE DEF q, S
  <2>4. /\ SameSlots
        /\ \A reason \in WaitReasons \ {"time"}, d \in Nat :
              Waiters(pstate', waiting', reason, d)
                = Waiters(pstate, waiting, reason, d) \ S
    BY <2>2, <2>3, ReturnWakeFrame
  <2>5. QED
    BY <2>3, <2>4, WakeLeaves
<1>4. QED
  BY <1>1, <1>2, <1>3, Zenon DEF MessageStep, IpcMqPoll, ErrorCodes

\* The processes an interrupt wakes were readers of a queue.
LEMMA ReadersWait ==
    ASSUME NEW i, NEW p \in InterruptReaders(i)
    PROVE  p \in Pid /\ pstate[p] = "waiting" /\ waiting[p].reason = "message"
<1>1. PICK q \in queues : p \in Waiters(pstate, waiting, "message", q)
  BY DEF InterruptReaders
<1>2. waiting[p] = [reason |-> "message", data |-> q] /\ p \in Pid /\ pstate[p] = "waiting"
  BY <1>1 DEF Waiters
<1>3. QED
  BY <1>2

\* An interrupt: its readers are woken, nobody else.
LEMMA InterruptFrame ==
    ASSUME KernelInv, NEW i, ScheduleNext(Wake(pstate, InterruptReaders(i)), waiting)
    PROVE  /\ SameLife
           /\ \A reason \in WaitReasons \ {"time"}, d \in Nat :
                 Waiters(pstate', waiting', reason, d)
                   = Waiters(pstate, waiting, reason, d) \ InterruptReaders(i)
<1> DEFINE S == InterruptReaders(i)
<1>1. \A p \in S : p \in Pid /\ pstate[p] = "waiting"
  BY ReadersWait
<1> HIDE DEF S
<1>2. current # NoPid => pstate[current] # "waiting"
  BY DEF KernelInv, TypeInv, TypeOK, ProcTypeOK, RunningIsCurrent
<1>3. Handled(Wake(pstate, S)) /\ waiting \in [Pid -> WaitRecord]
  BY <1>1, <1>2, SameHandled, WakeHandled
<1>4. TypeOK /\ Wake(pstate, S) \in [Pid -> ProcStates]
  BY <1>3 DEF Handled, KernelInv, TypeInv
<1>5. Scheduled(Wake(pstate, S), waiting)
  BY <1>3, <1>4, ScheduleNextScheduled DEF S
<1>6. QED
  BY <1>1, <1>5, WakeFrame DEF S

LEMMA InterruptStepFrame ==
    ASSUME KernelInv, InterruptStep
    PROVE  SameSlots /\ Leaves("mutex") /\ Leaves("condvar")
<1> USE DEF WaitReasons
<1>1. CASE \E code \in ErrorCodes : Return(code)
  BY <1>1, ReturnFrame
<1>2. CASE \E how \in HaltCauses : Halt(how)
  BY <1>2, HaltFrame
<1>3. ASSUME NEW i, ScheduleNext(Wake(pstate, InterruptReaders(i)), waiting),
             UNCHANGED procVars
      PROVE  SameSlots /\ Leaves("mutex") /\ Leaves("condvar")
  <2>1. \A p \in InterruptReaders(i) : waiting[p].reason = "message"
    BY ReadersWait
  <2>2. /\ SameLife
        /\ \A reason \in WaitReasons \ {"time"}, d \in Nat :
              Waiters(pstate', waiting', reason, d)
                = Waiters(pstate, waiting, reason, d) \ InterruptReaders(i)
    BY <1>3, InterruptFrame
  <2>3. Leaves("mutex") /\ Leaves("condvar")
    BY <2>1, <2>2, WakeLeaves
  <2>4. QED
    BY <1>3, <2>2, <2>3 DEF SameSlots
<1>4. ASSUME NEW i \in Irq, HardwareInterrupt(i)
      PROVE  SameSlots /\ Leaves("mutex") /\ Leaves("condvar")
  BY <1>2, <1>3, <1>4, Zenon DEF HardwareInterrupt, HaltCauses
<1>5. ASSUME NEW i, NEW enable, NEW q, HardwareInterruptNotify(i, enable, q)
      PROVE  SameSlots /\ Leaves("mutex") /\ Leaves("condvar")
  BY <1>1, <1>2, <1>5, Zenon DEF HardwareInterruptNotify, HaltCauses, ErrorCodes
<1>6. QED
  BY <1>4, <1>5 DEF InterruptStep

\* sleep and the clock.
LEMMA SleepFrame ==
    ASSUME KernelInv, Tick \/ \E ns \in Naps : SchedulerSleep(ns)
    PROVE  SameSlots /\ \A reason \in WaitReasons \ {"time"} : Leaves(reason)
<1>1. CASE Tick
  BY <1>1, QuietFrame DEF Tick
<1>2. ASSUME NEW ns \in Naps, SchedulerSleep(ns), NEW reason \in WaitReasons \ {"time"}
      PROVE  SameSlots /\ Leaves(reason)
  <2>1. Deadline(ns) \in Nat /\ FromProcess
    BY <1>2, SchedulerAssumption
    DEF Deadline, SchedulerSleep, KernelInv, TypeInv, TypeOK, ProcTypeOK
  <2>2. ReturnWith("none", WaitForStates, WaitForRecords("time", Deadline(ns)))
    BY <1>2 DEF SchedulerSleep
  <2>3. "time" \in WaitReasons /\ reason # "time"
    BY DEF WaitReasons
  <2>4. QED
    BY <2>1, <2>2, <2>3, BlockLeaves
<1>3. "mutex" \in WaitReasons \ {"time"}
  BY DEF WaitReasons
<1>4. QED
  BY <1>1, <1>2, <1>3

\* A clone waits for nothing.
LEMMA CloneFrame ==
    ASSUME KernelInv, SchedulerClone
    PROVE  \A reason \in WaitReasons : Leaves(reason)
<1>1. CASE Halt("pids")
  BY <1>1, HaltFrame
<1>2. ASSUME NEW pid \in Pid, pstate[pid] = "empty",
             pstate' = [pstate EXCEPT ![pid] = "runnable"], waiting' = waiting
      PROVE  \A reason \in WaitReasons : Leaves(reason)
  <2>1. \A p \in Pid : pstate'[p] = "waiting" <=> pstate[p] = "waiting"
    BY <1>2 DEF KernelInv, TypeInv, TypeOK, ProcTypeOK
  <2>2. QED
    BY <1>2, <2>1 DEF Leaves, Waiters
<1>3. QED
  BY <1>1, <1>2 DEF SchedulerClone, IsFreePid

\* The end of the current process: the heirs of its mutexes and the readers of
\* the queue that gets SIGCHLD are woken, and it alone ends.
LEMMA EndFrame ==
    ASSUME KernelInv, FromProcess, NEW how \in Dead, NEW R, NEW heir \in Heirs, NEW target,
           AreHeirs(heir, R, [pstate EXCEPT ![current] = how], waiting),
           ReturnWith("none",
               WakeReaders(Wake([pstate EXCEPT ![current] = how], WokenHeirs(heir)),
                           waiting, target), waiting)
    PROVE  /\ \A m \in MutexId :
                 Waiters(pstate', waiting', "mutex", m)
                   = Waiters(pstate, waiting, "mutex", m) \ WokenHeirs(heir)
           /\ Leaves("condvar")
           /\ \A d \in Nat :
                 Waiters(pstate', waiting', "message", d)
                   = IF d = target /\ target \in queues THEN {}
                     ELSE Waiters(pstate, waiting, "message", d)
           /\ pstate'[current] = how
           /\ \A p \in Pid \ {current} :
                 pstate'[p] \in Gone \/ pstate[p] \in Gone => pstate'[p] = pstate[p]
<1> DEFINE ended == [pstate EXCEPT ![current] = how]
           woken == Wake(ended, WokenHeirs(heir))
<1>1. current \in Pid /\ pstate[current] = "running" /\ how # "waiting" /\ how \in Gone
  BY CallerSlot DEF Dead, Gone
<1>2. /\ Handled(ended) /\ waiting \in [Pid -> WaitRecord]
      /\ \A p \in Pid : ended[p] = IF p = current THEN how ELSE pstate[p]
  BY CallerHandled, SameHandled, CallerSlot DEF Dead, KernelInv, TypeInv, TypeOK, ProcTypeOK
<1>3. \A reason, d : Waiters(ended, waiting, reason, d) = Waiters(pstate, waiting, reason, d)
  BY EndedWaiters
<1>4. /\ AreHeirs(heir, R, ended, waiting)
      /\ ReturnWith("none", WakeReaders(woken, waiting, target), waiting)
  OBVIOUS
<1> HIDE DEF ended
<1>5. /\ \A p \in WokenHeirs(heir) : p \in Pid /\ ended[p] = "waiting"
      /\ \A n \in MutexId : heir[n] # NoPid => heir[n] \in Waiters(ended, waiting, "mutex", n)
  BY <1>4, HeirsWait
<1>6. ASSUME NEW p \in WokenHeirs(heir) PROVE waiting[p].reason = "mutex"
  <2>1. PICK n \in MutexId : p = heir[n] /\ heir[n] # NoPid
    BY DEF WokenHeirs
  <2>2. waiting[p] = [reason |-> "mutex", data |-> n]
    BY <1>5, <2>1 DEF Waiters
  <2>3. QED
    BY <2>2
<1>7. Handled(woken) /\ woken[current] = how
  BY <1>1, <1>2, <1>5, WakeHandled DEF Wake
<1>8. \A m \in MutexId : Waiters(woken, waiting, "mutex", m)
                             = Waiters(pstate, waiting, "mutex", m) \ WokenHeirs(heir)
  BY <1>3, WakeWaiters
<1>9. \A reason \in {"condvar", "message"}, d \in Nat :
         Waiters(woken, waiting, reason, d) = Waiters(pstate, waiting, reason, d)
  <2> SUFFICES ASSUME NEW reason \in {"condvar", "message"}, NEW d \in Nat
               PROVE  Waiters(woken, waiting, reason, d) = Waiters(pstate, waiting, reason, d)
    OBVIOUS
  <2>1. \A p \in WokenHeirs(heir) : waiting[p].reason # reason
    BY <1>6
  <2>2. QED
    BY <1>3, <2>1, WakeOthers
<1> DEFINE left == WakeReaders(woken, waiting, target)
<1>10. \A p \in Pid : woken[p] = IF p \in WokenHeirs(heir) THEN "runnable" ELSE ended[p]
  BY DEF Wake
<1>11. \A p \in Pid : woken[p] \in Gone \/ ended[p] \in Gone => woken[p] = ended[p]
  BY <1>5, <1>10 DEF Gone
<1> HIDE DEF woken
<1>12. Handled(left)
  BY <1>1, <1>7, WakeReadersHandled
<1>13. \A p \in Pid : left[p] \in Gone \/ woken[p] \in Gone => left[p] = woken[p]
  BY DEF WakeReaders, Wake, Waiters, Gone
<1>14. \A reason \in {"mutex", "condvar"}, d \in Nat :
          Waiters(left, waiting, reason, d) = Waiters(woken, waiting, reason, d)
  BY WakeReadersWaiters
<1>15. \A d \in Nat :
          Waiters(left, waiting, "message", d)
            = IF d = target /\ target \in queues THEN {} ELSE Waiters(woken, waiting, "message", d)
  <2> SUFFICES ASSUME NEW d \in Nat
               PROVE  Waiters(left, waiting, "message", d)
                        = IF d = target /\ target \in queues THEN {}
                          ELSE Waiters(woken, waiting, "message", d)
    OBVIOUS
  <2>1. CASE target \notin queues
    BY <2>1 DEF WakeReaders
  <2>2. CASE target \in queues
    <3>1. Waiters(left, waiting, "message", d)
            = Waiters(woken, waiting, "message", d) \ Waiters(woken, waiting, "message", target)
      BY <2>2, WakeWaiters DEF WakeReaders
    <3>2. d # target => Waiters(woken, waiting, "message", d)
                            \cap Waiters(woken, waiting, "message", target) = {}
      BY DEF Waiters
    <3>3. QED
      BY <2>2, <3>1, <3>2
  <2>3. QED
    BY <2>1, <2>2
<1> HIDE DEF left
<1>16. ReturnWith("none", left, waiting)
  BY <1>4 DEF left
<1>17. Scheduled(left, waiting)
  BY <1>2, <1>12, <1>16, ScheduleIfNeededScheduled DEF ReturnWith, Handled, KernelInv, TypeInv
<1>18. \A p \in Pid : pstate'[p] \in Gone \/ ended[p] \in Gone => pstate'[p] = ended[p]
  BY <1>11, <1>13, <1>17 DEF Scheduled
<1>19. /\ pstate'[current] = how
       /\ \A p \in Pid \ {current} :
             pstate'[p] \in Gone \/ pstate[p] \in Gone => pstate'[p] = pstate[p]
  BY <1>1, <1>2, <1>18
<1>20. Leaves("condvar")
  BY <1>9, <1>14, <1>17, ScheduledWaiters DEF Leaves
<1>21. \A d \in Nat : Waiters(pstate', waiting', "message", d) = Waiters(left, waiting, "message", d)
  BY <1>17, ScheduledWaiters
<1>22. \A m \in MutexId : Waiters(pstate', waiting', "mutex", m)
                             = Waiters(pstate, waiting, "mutex", m) \ WokenHeirs(heir)
  BY <1>8, <1>14, <1>17, ScheduledWaiters DEF MutexId
<1>23. QED
  BY <1>9, <1>15, <1>19, <1>20, <1>21, <1>22

-----------------------------------------------------------------------------
(* The invariant of the mutexes *)

\* create_mutex gives out fresh ids only, so a new mutex has no waiters.
MutexInv == MutexWaitersBlocked /\ \A m \in mutexes : m < nextMutex

\* What a step may do to the processes blocked on a mutex.
WokenStep ==
    \A p \in Pid, m \in MutexId :
        p \in Waiters(pstate, waiting, "mutex", m) /\ pstate'[p] # "waiting"
            => lockCount'[m] > 0 /\ holder'[m] = p

\* A step that changes no mutex and no waiter.
LEMMA MutexQuiet ==
    ASSUME MutexInv, UNCHANGED mutexVars,
           \A m \in MutexId : Waiters(pstate', waiting', "mutex", m)
                                  = Waiters(pstate, waiting, "mutex", m)
    PROVE  MutexInv' /\ WokenStep
<1>1. \A m \in mutexes' : m < nextMutex'
  BY DEF MutexInv, mutexVars
<1>2. MutexWaitersBlocked'
  BY DEF MutexInv, MutexWaitersBlocked, mutexVars, Waiters
<1>3. WokenStep
  BY DEF WokenStep, Waiters
<1>4. QED
  BY <1>1, <1>2, <1>3 DEF MutexInv

\* A handler that touches neither processes nor mutexes.
LEMMA MutexIdle ==
    ASSUME MutexInv, UNCHANGED mutexVars, UNCHANGED <<pstate, waiting>>
    PROVE  MutexInv' /\ WokenStep
  BY MutexQuiet

LEMMA NoPidNoWaiter ==
    ASSUME NEW ps, NEW wt, NEW reason, NEW data
    PROVE  NoPid \notin Waiters(ps, wt, reason, data)
  BY DEF NoPid, Waiters, Pid

\* mutex_unlock of the mutexes in R: each is handed to one of its waiters,
\* stays locked, or is free and has no waiters.
LEMMA UnlockMutexInv ==
    ASSUME KernelInv, MutexInv, NEW R, \A m \in R : m \in mutexes /\ lockCount[m] > 0,
           NEW ps, \A m \in MutexId : Waiters(ps, waiting, "mutex", m)
                                          = Waiters(pstate, waiting, "mutex", m),
           NEW heir \in Heirs, AreHeirs(heir, R, ps, waiting), Unlock(R, heir),
           \A m \in MutexId : Waiters(pstate', waiting', "mutex", m)
                                  = Waiters(pstate, waiting, "mutex", m) \ WokenHeirs(heir)
    PROVE  MutexInv' /\ WokenStep
<1> DEFINE W(m) == Waiters(pstate, waiting, "mutex", m)
<1>1. \A m \in MutexId :
         /\ heir[m] # NoPid => m \in R /\ lockCount[m] = 1 /\ heir[m] \in W(m)
         /\ heir[m] = NoPid /\ m \in R => lockCount[m] # 1 \/ W(m) = {}
  BY NoPidNoWaiter DEF AreHeirs, IsFirstWaiter
<1>2. \A m \in MutexId :
         /\ m \notin R => lockCount'[m] = lockCount[m] /\ holder'[m] = holder[m]
         /\ m \in R /\ heir[m] = NoPid
               => lockCount'[m] = lockCount[m] - 1 /\ holder'[m] = holder[m]
         /\ m \in R /\ heir[m] # NoPid => lockCount'[m] = 1 /\ holder'[m] = heir[m]
  BY DEF Unlock
<1>3. mutexes' = mutexes /\ nextMutex' = nextMutex
  BY DEF Unlock
<1>4. \A m \in MutexId : lockCount[m] \in Nat
  BY DEF KernelInv, TypeInv, TypeOK, MutexTypeOK
<1>5. ASSUME NEW p \in Pid, NEW m \in MutexId, p \in Waiters(pstate', waiting', "mutex", m)
      PROVE  m \in mutexes' /\ lockCount'[m] > 0 /\ holder'[m] # p
  <2>1. p \in W(m) /\ p \notin WokenHeirs(heir)
    BY <1>5
  <2>2. m \in mutexes /\ lockCount[m] > 0 /\ holder[m] # p
    BY <2>1 DEF MutexInv, MutexWaitersBlocked
  <2>3. heir[m] # NoPid => heir[m] # p
    BY <2>1 DEF WokenHeirs
  <2> HIDE DEF W
  <2>4. QED
    BY <1>1, <1>2, <1>3, <1>4, <2>1, <2>2, <2>3
<1>6. MutexInv'
  BY <1>3, <1>5 DEF MutexInv, MutexWaitersBlocked, Waiters
<1>7. ASSUME NEW p \in Pid, NEW m \in MutexId, p \in W(m), pstate'[p] # "waiting"
      PROVE  lockCount'[m] > 0 /\ holder'[m] = p
  <2>1. p \notin Waiters(pstate', waiting', "mutex", m)
    BY <1>7 DEF Waiters
  <2>2. p \in WokenHeirs(heir)
    BY <1>7, <2>1
  <2>3. PICK m2 \in MutexId : heir[m2] = p /\ heir[m2] # NoPid
    BY <2>2 DEF WokenHeirs
  <2>4. p \in W(m2)
    BY <1>1, <2>3
  <2>5. m2 = m
    BY <1>7, <2>4 DEF Waiters
  <2>6. QED
    BY <1>1, <1>2, <2>3, <2>5
<1>8. QED
  BY <1>6, <1>7 DEF WokenStep

LEMMA MutexStepLocks ==
    ASSUME KernelInv, MutexInv, MutexStep
    PROVE  MutexInv' /\ WokenStep
<1>1. CASE LockingCreateMutex
  <2>1. /\ nextMutex \in Nat /\ nextMutex' = nextMutex + 1
        /\ mutexes' = mutexes \cup {nextMutex} /\ mutexes \subseteq Int
        /\ pstate' = pstate /\ waiting' = waiting
    BY <1>1, MutexAssumption
    DEF LockingCreateMutex, Return, KernelInv, TypeInv, TypeOK, MutexTypeOK, MutexId
  <2>2. \A m \in mutexes' : m < nextMutex'
    BY <2>1 DEF MutexInv
  <2>3. \A m \in mutexes :
           m # nextMutex /\ lockCount'[m] = lockCount[m] /\ holder'[m] = holder[m]
    BY <1>1, <2>1 DEF LockingCreateMutex, MutexInv, KernelInv, TypeInv, TypeOK, MutexTypeOK
  <2>4. MutexWaitersBlocked'
    BY <2>1, <2>3 DEF MutexInv, MutexWaitersBlocked, Waiters
  <2>5. WokenStep
    BY <2>1 DEF WokenStep, Waiters
  <2>6. QED
    BY <2>2, <2>4, <2>5 DEF MutexInv
<1>2. ASSUME NEW m \in MutexId, LockingDestroyMutex(m)
      PROVE  MutexInv' /\ WokenStep
  <2>1. pstate' = pstate /\ waiting' = waiting
    BY <1>2 DEF LockingDestroyMutex, Return
  <2>2. CASE UNCHANGED mutexVars
    BY <2>1, <2>2, MutexIdle
  <2>3. CASE /\ lockCount[m] = 0
             /\ mutexes' = mutexes \ {m}
             /\ UNCHANGED <<lockCount, holder, nextMutex>>
    <3>1. MutexWaitersBlocked'
      BY <2>1, <2>3 DEF MutexInv, MutexWaitersBlocked, Waiters
    <3>2. WokenStep
      BY <2>1 DEF WokenStep, Waiters
    <3>3. QED
      BY <2>3, <3>1, <3>2 DEF MutexInv
  <2>4. QED
    BY <1>2, <2>2, <2>3 DEF LockingDestroyMutex
<1>3. ASSUME NEW m \in MutexId, NEW trylock \in BOOLEAN, LockingLockMutex(m, trylock)
      PROVE  MutexInv' /\ WokenStep
  <2>1. FromProcess
    BY <1>3 DEF LockingLockMutex
  <2>2. current \in Pid /\ pstate[current] = "running"
    BY <2>1, CallerSlot
  <2>3. CASE UNCHANGED mutexVars /\ \E code \in ErrorCodes : Return(code)
    BY <2>3, MutexIdle DEF Return
  <2>4. CASE /\ m \in mutexes /\ lockCount[m] > 0 /\ holder[m] # current
             /\ UNCHANGED mutexVars
             /\ ReturnWith("0", WaitForStates, WaitForRecords("mutex", m))
    <3>1. Handled(WaitForStates) /\ WaitForRecords("mutex", m) \in [Pid -> WaitRecord]
      BY <2>1, WaitForHandled DEF WaitReasons, MutexId
    <3>2. \A n \in MutexId :
             Waiters(pstate', waiting', "mutex", n)
               = Waiters(pstate, waiting, "mutex", n) \cup (IF m = n THEN {current} ELSE {})
      BY <2>1, <2>4, <3>1, ReturnWithWaiters, WaitForWaiters
    <3>3. MutexWaitersBlocked'
      <4> SUFFICES ASSUME NEW p \in Pid, NEW n \in MutexId,
                          p \in Waiters(pstate', waiting', "mutex", n)
                   PROVE  n \in mutexes' /\ lockCount'[n] > 0 /\ holder'[n] # p
        BY DEF MutexWaitersBlocked, Waiters
      <4>1. QED
        BY <2>4, <3>2 DEF MutexInv, MutexWaitersBlocked, mutexVars
    <3>4. WokenStep
      <4> SUFFICES ASSUME NEW p \in Pid, NEW n \in MutexId,
                          p \in Waiters(pstate, waiting, "mutex", n), pstate'[p] # "waiting"
                   PROVE  FALSE
        BY DEF WokenStep
      <4>1. p \in Waiters(pstate', waiting', "mutex", n)
        BY <3>2
      <4>2. QED
        BY <4>1 DEF Waiters
    <3>5. QED
      BY <2>4, <3>3, <3>4 DEF MutexInv, mutexVars
  <2>5. CASE LockFreeMutex(m)
    <3>1. /\ pstate' = pstate /\ waiting' = waiting
          /\ mutexes' = mutexes /\ nextMutex' = nextMutex
      BY <2>5 DEF LockFreeMutex, Return
    <3>2. \A n \in MutexId :
             /\ n # m => lockCount'[n] = lockCount[n] /\ holder'[n] = holder[n]
             /\ n = m => lockCount'[n] = lockCount[n] + 1 /\ holder'[n] = current
      BY <2>5 DEF LockFreeMutex, KernelInv, TypeInv, TypeOK, MutexTypeOK
    <3>3. \A n \in MutexId : lockCount[n] \in Nat
      BY DEF KernelInv, TypeInv, TypeOK, MutexTypeOK
    <3>4. MutexWaitersBlocked'
      <4> SUFFICES ASSUME NEW p \in Pid, NEW n \in MutexId,
                          p \in Waiters(pstate, waiting, "mutex", n)
                   PROVE  n \in mutexes /\ lockCount'[n] > 0 /\ holder'[n] # p
        BY <3>1 DEF MutexWaitersBlocked, Waiters
      <4>1. n \in mutexes /\ lockCount[n] > 0 /\ holder[n] # p /\ p # current
        BY <2>2 DEF MutexInv, MutexWaitersBlocked, Waiters
      <4>2. QED
        BY <3>2, <3>3, <4>1
    <3>5. WokenStep
      BY <3>1 DEF WokenStep, Waiters
    <3>6. QED
      BY <3>1, <3>4, <3>5 DEF MutexInv
  <2>6. QED
    BY <1>3, <2>3, <2>4, <2>5, Zenon DEF LockingLockMutex, LockHeldMutex, LockFreeMutex, ErrorCodes
<1>4. ASSUME NEW m \in MutexId, LockingUnlockMutex(m)
      PROVE  MutexInv' /\ WokenStep
  <2>1. FromProcess
    BY <1>4 DEF LockingUnlockMutex
  <2>2. CASE UNCHANGED mutexVars /\ \E code \in ErrorCodes : Return(code)
    BY <2>2, MutexIdle DEF Return
  <2>3. ASSUME m \in mutexes, lockCount[m] > 0, NEW heir \in Heirs,
               AreHeirs(heir, {m}, pstate, waiting), Unlock({m}, heir),
               ReturnWith("0", Wake(pstate, WokenHeirs(heir)), waiting)
        PROVE  MutexInv' /\ WokenStep
    <3>1. \A p \in WokenHeirs(heir) : p \in Pid /\ pstate[p] = "waiting"
      BY <2>3, HeirsWait
    <3>2. Handled(Wake(pstate, WokenHeirs(heir))) /\ waiting \in [Pid -> WaitRecord]
      BY <2>1, <3>1, SameHandled, CallerSlot, WakeHandled
    <3>3. \A n \in MutexId :
             Waiters(pstate', waiting', "mutex", n)
               = Waiters(pstate, waiting, "mutex", n) \ WokenHeirs(heir)
      BY <2>1, <2>3, <3>2, ReturnWithWaiters, WakeWaiters
    <3>4. QED
      BY <2>3, <3>3, UnlockMutexInv
  <2>4. QED
    BY <1>4, <2>2, <2>3 DEF LockingUnlockMutex, ErrorCodes
<1>5. QED
  BY <1>1, <1>2, <1>3, <1>4 DEF MutexStep

-----------------------------------------------------------------------------
(* The other components leave the mutexes and their waiters alone *)

LEMMA MutexLeft ==
    ASSUME MutexInv, UNCHANGED mutexVars, Leaves("mutex")
    PROVE  MutexInv' /\ WokenStep
<1>1. \A m \in MutexId : Waiters(pstate', waiting', "mutex", m)
                             = Waiters(pstate, waiting, "mutex", m)
  BY DEF Leaves, MutexId
<1>2. QED
  BY <1>1, MutexQuiet

LEMMA EndCurrentLocks ==
    ASSUME KernelInv, MutexInv, NEW how \in Dead, EndCurrent(how)
    PROVE  MutexInv' /\ WokenStep
<1> DEFINE ended == [pstate EXCEPT ![current] = how]
           freed == UnlockedForHolder(current)
<1>1. FromProcess
  BY DEF EndCurrent
<1>2. CASE Halt("memmove") /\ UNCHANGED mutexVars
  BY <1>2, MutexIdle DEF Halt
<1>3. ASSUME NEW heir \in Heirs, NEW target, AreHeirs(heir, freed, ended, waiting),
             Unlock(freed, heir),
             ReturnWith("none",
                 WakeReaders(Wake(ended, WokenHeirs(heir)), waiting, target), waiting)
      PROVE  MutexInv' /\ WokenStep
  <2>1. \A m \in MutexId :
           /\ Waiters(ended, waiting, "mutex", m) = Waiters(pstate, waiting, "mutex", m)
           /\ Waiters(pstate', waiting', "mutex", m)
                = Waiters(pstate, waiting, "mutex", m) \ WokenHeirs(heir)
    BY <1>1, <1>3, EndedWaiters, EndFrame
  <2>2. \A m \in freed : m \in mutexes /\ lockCount[m] > 0
    BY DEF UnlockedForHolder
  <2> HIDE DEF ended, freed
  <2>3. QED
    BY <1>3, <2>1, <2>2, UnlockMutexInv
<1>4. QED
  BY <1>2, <1>3 DEF EndCurrent

LEMMA SchedulerStepLocks ==
    ASSUME KernelInv, MutexInv, SchedulerStep
    PROVE  MutexInv' /\ WokenStep
<1>1. CASE (Tick \/ \E ns \in Naps : SchedulerSleep(ns)) /\ UNCHANGED mutexVars
  BY <1>1, SleepFrame, MutexLeft DEF WaitReasons
<1>2. CASE SchedulerExit \/ UserspaceException
  BY <1>2, EndCurrentLocks DEF SchedulerExit, UserspaceException, Dead
<1>3. CASE SchedulerClone
  BY <1>3, CloneFrame, MutexLeft DEF SchedulerClone, WaitReasons
<1>4. QED
  BY <1>1, <1>2, <1>3 DEF SchedulerStep

-----------------------------------------------------------------------------
(* The theorems *)

LEMMA LocksStep == KernelInv /\ MutexInv /\ [Next]_vars => MutexInv' /\ [WokenStep]_vars
<1> SUFFICES ASSUME KernelInv, MutexInv, [Next]_vars PROVE MutexInv' /\ [WokenStep]_vars
  OBVIOUS
<1>1. CASE CondvarStep
  BY <1>1, CondvarStepFrame, MutexLeft DEF CondvarStep
<1>2. CASE MessageStep
  BY <1>2, MessageStepFrame, MutexLeft DEF MessageStep
<1>3. CASE InterruptStep
  BY <1>3, InterruptStepFrame, MutexLeft DEF InterruptStep
<1>4. CASE UNCHANGED vars
  BY <1>4, MutexIdle DEF vars
<1>5. QED
  BY <1>1, <1>2, <1>3, <1>4, SchedulerStepLocks, MutexStepLocks DEF Next

LEMMA LocksInit == Init => MutexInv
  BY DEF Init, SchedulerInit, MutexInit, MutexInv, MutexWaitersBlocked, Waiters

LEMMA LocksInvariance == Spec => []MutexInv
  BY LocksInit, LocksStep, Invariance, PTL DEF Spec

\* Nobody is left behind in lock_mutex: whoever waits for a mutex waits for one
\* that exists and that another process holds, so every hand-over that
\* scheduler_waitable_done tries finds the mutex it expects.
THEOREM NobodyLeftBehind == Spec => []MutexWaitersBlocked
<1>1. MutexInv => MutexWaitersBlocked
  BY DEF MutexInv
<1>2. QED
  BY <1>1, LocksInvariance, PTL

\* A process leaves lock_mutex only as the holder of the mutex.
THEOREM LeavesAsHolder == Spec => WokenWithLock
<1>1. KernelInv /\ MutexInv /\ [Next]_vars => [WokenStep]_vars
  BY LocksStep
<1>2. QED
  BY <1>1, Invariance, LocksInvariance, PTL DEF Spec, WokenWithLock, WokenStep

-----------------------------------------------------------------------------
(* The mutexes of the kernel implement the locks of module Lock: a step of  *)
(* the kernel is a step of one process on its locks, or no step.            *)

\* destroy_mutex refuses a locked mutex, so an id that is not in the table,
\* and every id create_mutex still has to give out, belongs to a free lock.
FreeOutsideTable == \A m \in MutexId : m \notin mutexes => lockCount[m] = 0

LEMMA FreeOutsideStep ==
    KernelInv /\ FreeOutsideTable /\ [Next]_vars => FreeOutsideTable'
<1> SUFFICES ASSUME KernelInv, FreeOutsideTable, [Next]_vars PROVE FreeOutsideTable'
  OBVIOUS
<1>1. CASE UNCHANGED mutexVars
  BY <1>1 DEF FreeOutsideTable, mutexVars
<1>2. ASSUME NEW R, R \subseteq mutexes, NEW heir, Unlock(R, heir)
      PROVE  FreeOutsideTable'
  BY <1>2 DEF FreeOutsideTable, Unlock
<1>3. CASE MutexStep
  <2>1. lockCount \in [MutexId -> Nat]
    BY DEF KernelInv, TypeInv, TypeOK, MutexTypeOK
  <2>2. CASE LockingCreateMutex
    BY <2>1, <2>2 DEF LockingCreateMutex, FreeOutsideTable
  <2>3. ASSUME NEW m \in MutexId, LockingDestroyMutex(m)
        PROVE  FreeOutsideTable'
    BY <2>3 DEF LockingDestroyMutex, FreeOutsideTable, mutexVars
  <2>4. ASSUME NEW m \in MutexId, NEW trylock, LockingLockMutex(m, trylock)
        PROVE  FreeOutsideTable'
    BY <1>1, <2>1, <2>4 DEF LockingLockMutex, LockHeldMutex, LockFreeMutex, FreeOutsideTable
  <2>5. ASSUME NEW m \in MutexId, LockingUnlockMutex(m)
        PROVE  FreeOutsideTable'
    BY <1>1, <1>2, <2>5 DEF LockingUnlockMutex
  <2>6. QED
    BY <1>3, <2>2, <2>3, <2>4, <2>5 DEF MutexStep
<1>4. CASE SchedulerExit \/ UserspaceException
  <2>1. UnlockedForHolder(current) \subseteq mutexes
    BY DEF UnlockedForHolder
  <2>2. QED
    BY <1>1, <1>2, <1>4, <2>1 DEF SchedulerExit, UserspaceException, EndCurrent
<1>5. QED
  BY <1>1, <1>3, <1>4 DEF Next, SchedulerStep, SchedulerClone, CondvarStep, MessageStep,
     InterruptStep, vars

LEMMA FreeOutside == Spec => []FreeOutsideTable
<1>1. Init => FreeOutsideTable
  BY DEF Init, MutexInit, FreeOutsideTable
<1>2. QED
  BY <1>1, FreeOutsideStep, Invariance, PTL DEF Spec

-----------------------------------------------------------------------------
(* Steps of the kernel as steps of the locks *)

\* Everything that leaves the mutexes and their waiters alone.
LEMMA LocksStay ==
    ASSUME UNCHANGED mutexVars, Leaves("mutex")
    PROVE  UNCHANGED AbstractLocks!lockVars
<1>1. \A m \in MutexId : Waiters(pstate', waiting', "mutex", m)
                             = Waiters(pstate, waiting, "mutex", m)
  BY DEF Leaves, MutexId
<1>2. QED
  BY <1>1 DEF AbstractLocks!lockVars, mutexVars

\* Each mutex that is unlocked loses at most the waiter it is handed to.
LEMMA OneHeirEach ==
    ASSUME NEW heir \in Heirs, NEW R, AreHeirs(heir, R, pstate, waiting), NEW m \in MutexId
    PROVE  Waiters(pstate, waiting, "mutex", m) \ WokenHeirs(heir)
             = Waiters(pstate, waiting, "mutex", m)
                 \ (IF heir[m] = NoPid THEN {} ELSE {heir[m]})
<1>1. \A n \in MutexId : heir[n] # NoPid => heir[n] \in Waiters(pstate, waiting, "mutex", n)
  BY HeirsWait
<1>2. ASSUME NEW n \in MutexId, heir[n] \in Waiters(pstate, waiting, "mutex", m)
      PROVE  n = m
  <2>1. heir[n] \in Waiters(pstate, waiting, "mutex", n)
    BY <1>1, <1>2, NoPidNoWaiter
  <2>2. [reason |-> "mutex", data |-> n] = [reason |-> "mutex", data |-> m]
    BY <1>2, <2>1 DEF Waiters
  <2>3. QED
    BY <2>2
<1>3. \A p \in Waiters(pstate, waiting, "mutex", m) :
         p \in WokenHeirs(heir) <=> heir[m] # NoPid /\ p = heir[m]
  BY <1>1, <1>2 DEF WokenHeirs
<1>4. QED
  BY <1>3

\* mutex_unlock of mutexes the current process holds.
LEMMA UnlockLocks ==
    ASSUME KernelInv, FromProcess, NEW R,
           \A m \in R : lockCount[m] > 0 /\ holder[m] = current,
           NEW heir \in Heirs, AreHeirs(heir, R, pstate, waiting), Unlock(R, heir),
           \A m \in MutexId : Waiters(pstate', waiting', "mutex", m)
                                  = Waiters(pstate, waiting, "mutex", m) \ WokenHeirs(heir)
    PROVE  AbstractLocks!LockNext
<1>1. current \in Pid
  BY CallerSlot
<1>2. SUFFICES ASSUME NEW m \in MutexId
               PROVE  \/ AbstractLocks!Stays(m)
                      \/ AbstractLocks!Leave(current, m)
                      \/ AbstractLocks!Free(current, m)
                      \/ AbstractLocks!HandOver(current, m)
  BY <1>1 DEF AbstractLocks!LockNext
<1> DEFINE W == Waiters(pstate, waiting, "mutex", m)
           V == Waiters(pstate', waiting', "mutex", m)
<1>3. V = W \ (IF heir[m] = NoPid THEN {} ELSE {heir[m]})
  BY OneHeirEach
<1>4. lockCount[m] \in Nat /\ NoPid \notin Pid /\ heir[m] \in Pid \cup {NoPid}
  BY DEF KernelInv, TypeInv, TypeOK, MutexTypeOK, Heirs, NoPid, Pid
<1>5. CASE m \notin R
  <2>1. lockCount'[m] = lockCount[m] /\ holder'[m] = holder[m] /\ heir[m] = NoPid
    BY <1>5 DEF Unlock, AreHeirs
  <2>2. V = W
    BY <1>3, <2>1
  <2>3. QED
    BY <2>1, <2>2 DEF AbstractLocks!Stays
<1>6. CASE m \in R /\ lockCount[m] > 1
  <2>1. heir[m] = NoPid
    BY <1>6 DEF AreHeirs
  <2>2. /\ V = W /\ lockCount'[m] = lockCount[m] - 1 /\ holder'[m] = holder[m]
        /\ holder[m] = current
    BY <1>3, <1>6, <2>1 DEF Unlock
  <2>3. QED
    BY <1>4, <1>6, <2>2 DEF AbstractLocks!Leave
<1>7. CASE m \in R /\ lockCount[m] = 1 /\ W = {}
  <2>1. heir[m] = NoPid
    BY <1>7 DEF AreHeirs
  <2>2. V = {} /\ lockCount'[m] = 0 /\ holder[m] = current
    BY <1>3, <1>7, <2>1 DEF Unlock
  <2>3. QED
    BY <1>7, <2>2 DEF AbstractLocks!Free
<1>8. CASE m \in R /\ lockCount[m] = 1 /\ W # {}
  <2>1. heir[m] \in W /\ heir[m] # NoPid
    BY <1>8, NoPidNoWaiter DEF AreHeirs, IsFirstWaiter
  <2>2. /\ V = W \ {heir[m]} /\ lockCount'[m] = 1 /\ holder'[m] = heir[m]
        /\ holder[m] = current
    BY <1>3, <1>8, <2>1 DEF Unlock
  <2>3. QED
    BY <1>8, <2>1, <2>2 DEF AbstractLocks!HandOver
<1>9. QED
  BY <1>4, <1>5, <1>6, <1>7, <1>8

LEMMA MutexStepLocksNext ==
    ASSUME KernelInv, MutexInv, FreeOutsideTable, MutexStep
    PROVE  [AbstractLocks!LockNext]_(AbstractLocks!lockVars)
<1>1. lockCount \in [MutexId -> Nat] /\ holder \in [MutexId -> Pid] /\ mutexes \subseteq MutexId
  BY DEF KernelInv, TypeInv, TypeOK, MutexTypeOK
<1>2. CASE UNCHANGED mutexVars /\ \E code \in ErrorCodes : Return(code)
  BY <1>2, ReturnFrame, LocksStay DEF WaitReasons
<1>3. CASE LockingCreateMutex
  <2>1. nextMutex \notin mutexes /\ pstate' = pstate /\ waiting' = waiting
    BY <1>1, <1>3 DEF LockingCreateMutex, Return, MutexInv, MutexId, KernelInv, TypeInv, TypeOK, MutexTypeOK
  <2>2. \A m \in MutexId :
           /\ lockCount'[m] = lockCount[m]
           /\ lockCount[m] > 0 => holder'[m] = holder[m]
    BY <1>1, <1>3, <2>1 DEF LockingCreateMutex, FreeOutsideTable
  <2>3. lockCount' = lockCount
    BY <1>1, <1>3, <2>2 DEF LockingCreateMutex
  <2>4. QED
    BY <2>1, <2>2, <2>3 DEF AbstractLocks!lockVars
<1>4. ASSUME NEW m \in MutexId, LockingDestroyMutex(m)
      PROVE  UNCHANGED AbstractLocks!lockVars
  BY <1>4 DEF LockingDestroyMutex, Return, mutexVars, AbstractLocks!lockVars
<1>5. ASSUME NEW m \in MutexId, NEW trylock \in BOOLEAN, LockingLockMutex(m, trylock)
      PROVE  [AbstractLocks!LockNext]_(AbstractLocks!lockVars)
  <2>1. FromProcess /\ current \in Pid /\ pstate[current] = "running" /\ NoPid \notin Pid
    BY <1>5, CallerSlot DEF LockingLockMutex, NoPid, Pid
  <2>2. CASE /\ lockCount[m] > 0 /\ holder[m] # current
             /\ UNCHANGED mutexVars
             /\ ReturnWith("0", WaitForStates, WaitForRecords("mutex", m))
    <3>1. "mutex" \in WaitReasons /\ m \in Nat
      BY DEF WaitReasons, MutexId
    <3>2. Handled(WaitForStates) /\ WaitForRecords("mutex", m) \in [Pid -> WaitRecord]
      BY <2>1, <3>1, WaitForHandled
    <3>3. \A n \in MutexId :
             Waiters(pstate', waiting', "mutex", n)
               = Waiters(pstate, waiting, "mutex", n) \cup (IF m = n THEN {current} ELSE {})
      BY <2>1, <2>2, <3>2, ReturnWithWaiters, WaitForWaiters
    <3>4. current \notin Waiters(pstate, waiting, "mutex", m)
      BY <2>1 DEF Waiters
    <3>5. AbstractLocks!Block(current, m)
      BY <1>1, <2>1, <2>2, <3>3, <3>4 DEF AbstractLocks!Block, mutexVars
    <3>6. ASSUME NEW n \in MutexId, n # m PROVE AbstractLocks!Stays(n)
      <4>1. Waiters(pstate', waiting', "mutex", n) = Waiters(pstate, waiting, "mutex", n)
        BY <3>3, <3>6
      <4>2. QED
        BY <2>2, <4>1 DEF AbstractLocks!Stays, mutexVars
    <3>7. QED
      BY <2>1, <3>5, <3>6 DEF AbstractLocks!LockNext
  <2>3. CASE LockFreeMutex(m)
    <3>1. /\ pstate' = pstate /\ waiting' = waiting
          /\ lockCount[m] = 0 \/ holder[m] = current
          /\ lockCount' = [lockCount EXCEPT ![m] = lockCount[m] + 1]
          /\ holder' = [holder EXCEPT ![m] = current]
      BY <2>3 DEF LockFreeMutex, Return
    <3>2. lockCount[m] = 0 => Waiters(pstate, waiting, "mutex", m) = {}
      BY <1>1 DEF MutexInv, MutexWaitersBlocked, Waiters
    <3>3. lockCount'[m] > 0 /\ holder'[m] = current
      BY <1>1, <3>1
    <3>4. AbstractLocks!Take(current, m)
      BY <1>1, <2>1, <3>1, <3>2, <3>3 DEF AbstractLocks!Take
    <3>5. \A n \in MutexId : n # m => AbstractLocks!Stays(n)
      BY <1>1, <3>1 DEF AbstractLocks!Stays
    <3>6. QED
      BY <2>1, <3>4, <3>5 DEF AbstractLocks!LockNext
  <2>4. QED
    BY <1>2, <1>5, <2>2, <2>3, Zenon DEF LockingLockMutex, LockHeldMutex, ErrorCodes
<1>6. ASSUME NEW m \in MutexId, LockingUnlockMutex(m)
      PROVE  [AbstractLocks!LockNext]_(AbstractLocks!lockVars)
  <2>1. FromProcess
    BY <1>6 DEF LockingUnlockMutex
  <2>2. ASSUME lockCount[m] > 0, holder[m] = current, NEW heir \in Heirs,
               AreHeirs(heir, {m}, pstate, waiting), Unlock({m}, heir),
               ReturnWith("0", Wake(pstate, WokenHeirs(heir)), waiting)
        PROVE  AbstractLocks!LockNext
    <3>1. \A p \in WokenHeirs(heir) : p \in Pid /\ pstate[p] = "waiting"
      BY <2>2, HeirsWait
    <3>2. Handled(Wake(pstate, WokenHeirs(heir))) /\ waiting \in [Pid -> WaitRecord]
      BY <2>1, <3>1, SameHandled, CallerSlot, WakeHandled
    <3>3. \A n \in MutexId :
             Waiters(pstate', waiting', "mutex", n)
               = Waiters(pstate, waiting, "mutex", n) \ WokenHeirs(heir)
      BY <2>1, <2>2, <3>2, ReturnWithWaiters, WakeWaiters
    <3>4. QED
      BY <2>1, <2>2, <3>3, UnlockLocks
  <2>3. QED
    BY <1>2, <1>6, <2>2, Zenon DEF LockingUnlockMutex, ErrorCodes
<1>7. QED
  BY <1>3, <1>4, <1>5, <1>6 DEF MutexStep

\* scheduler_process_cleanup unlocks each mutex the process holds once.
LEMMA EndCurrentLocksNext ==
    ASSUME KernelInv, NEW how \in Dead, EndCurrent(how)
    PROVE  [AbstractLocks!LockNext]_(AbstractLocks!lockVars)
<1> DEFINE ended == [pstate EXCEPT ![current] = how]
           freed == UnlockedForHolder(current)
<1>1. FromProcess
  BY DEF EndCurrent
<1>2. CASE Halt("memmove") /\ UNCHANGED mutexVars
  BY <1>2, HaltFrame, LocksStay DEF WaitReasons
<1>3. ASSUME NEW heir \in Heirs, NEW target, AreHeirs(heir, freed, ended, waiting),
             Unlock(freed, heir),
             ReturnWith("none",
                 WakeReaders(Wake(ended, WokenHeirs(heir)), waiting, target), waiting)
      PROVE  AbstractLocks!LockNext
  <2>1. \A m \in MutexId :
           /\ Waiters(ended, waiting, "mutex", m) = Waiters(pstate, waiting, "mutex", m)
           /\ Waiters(pstate', waiting', "mutex", m)
                = Waiters(pstate, waiting, "mutex", m) \ WokenHeirs(heir)
    BY <1>1, <1>3, EndedWaiters, EndFrame
  <2>2. \A m \in freed : lockCount[m] > 0 /\ holder[m] = current
    BY DEF UnlockedForHolder
  <2> HIDE DEF ended, freed
  <2>3. AreHeirs(heir, freed, pstate, waiting)
    BY <1>3, <2>1 DEF AreHeirs, IsFirstWaiter
  <2>4. QED
    BY <1>1, <1>3, <2>1, <2>2, <2>3, UnlockLocks
<1>4. QED
  BY <1>2, <1>3 DEF EndCurrent

LEMMA LocksNext ==
    KernelInv /\ MutexInv /\ FreeOutsideTable /\ [Next]_vars
        => [AbstractLocks!LockNext]_(AbstractLocks!lockVars)
<1> SUFFICES ASSUME KernelInv, MutexInv, FreeOutsideTable, [Next]_vars
             PROVE  [AbstractLocks!LockNext]_(AbstractLocks!lockVars)
  OBVIOUS
<1>1. CASE CondvarStep
  BY <1>1, CondvarStepFrame, LocksStay DEF CondvarStep
<1>2. CASE MessageStep
  BY <1>2, MessageStepFrame, LocksStay DEF MessageStep
<1>3. CASE InterruptStep
  BY <1>3, InterruptStepFrame, LocksStay DEF InterruptStep
<1>4. CASE (Tick \/ \E ns \in Naps : SchedulerSleep(ns)) /\ UNCHANGED mutexVars
  BY <1>4, SleepFrame, LocksStay DEF WaitReasons
<1>5. CASE SchedulerExit \/ UserspaceException
  BY <1>5, EndCurrentLocksNext DEF SchedulerExit, UserspaceException, Dead
<1>6. CASE SchedulerClone
  BY <1>6, CloneFrame, LocksStay DEF SchedulerClone, WaitReasons
<1>7. CASE UNCHANGED vars
  BY <1>7 DEF vars, mutexVars, AbstractLocks!lockVars
<1>8. QED
  BY <1>1, <1>2, <1>3, <1>4, <1>5, <1>6, <1>7, MutexStepLocksNext DEF Next, SchedulerStep

\* The kernel implements locks with hand-over: every step of it, for any number
\* of processes and mutexes, is a step of module Lock or changes no lock.
THEOREM MutexesAreLocks == Spec => MutexIsLock
<1>1. Init => AbstractLocks!LockInit
  <2>1. Init => \A m \in MutexId : Waiters(pstate, waiting, "mutex", m) = {}
    BY DEF Init, SchedulerInit, Waiters
  <2>2. QED
    BY <2>1 DEF Init, MutexInit, AbstractLocks!LockInit
<1>2. QED
  BY <1>1, LocksNext, Invariance, LocksInvariance, FreeOutside, PTL
  DEF Spec, MutexIsLock, AbstractLocks!LockSpec


-----------------------------------------------------------------------------
(* The invariant of the queues *)

\* Slots are never used again, so the queue of a slot is there as long as its
\* process lives; queue q belongs to slot q - 1 (SlotsInOrder).
QueuesOfSlots == \A q \in QueueId : q \in queues <=> pstate[q - 1] \notin Gone

\* Nobody waits on a queue id that mq_create has not given out yet: a new
\* queue starts without readers.
ReadersOfKnownQueues ==
    \A q \in QueueId :
        Waiters(pstate, waiting, "message", q) # {} => pstate[q - 1] # "empty"

\* clone makes the caller the parent, and the caller is not in the new slot:
\* the queue SIGCHLD goes to is never the one that is destroyed right after.
ParentsAreOthers == \A p \in Pid : pstate[p] # "empty" => parent[p] # p

QueueInv ==
    QueuesOfSlots /\ ReadersHaveNothing /\ ReadersOfKnownQueues /\ ParentsAreOthers

\* A step that keeps the queues and leaves a process waiting only where
\* nothing arrived.
LEMMA QueueStep ==
    ASSUME QueueInv, SameSlots, queues' = queues,
           \A q \in QueueId : \A p \in Waiters(pstate', waiting', "message", q) :
               \/ p \in Waiters(pstate, waiting, "message", q) /\ msgs'[q] = msgs[q]
               \/ q \in queues /\ msgs'[q] = <<>>
    PROVE  QueueInv'
<1>1. \A q \in QueueId : q - 1 \in Pid
  BY SchedulerAssumption DEF QueueId, Pid
<1>2. QueuesOfSlots'
  BY <1>1 DEF QueueInv, QueuesOfSlots, SameSlots, SameLife
<1>3. ParentsAreOthers'
  BY DEF QueueInv, ParentsAreOthers, SameSlots, SameLife, procVars, Gone
<1>4. ReadersHaveNothing'
  BY DEF QueueInv, ReadersHaveNothing
<1>5. ASSUME NEW q \in QueueId, NEW p \in Waiters(pstate', waiting', "message", q)
      PROVE  pstate'[q - 1] # "empty"
  <2>1. pstate[q - 1] # "empty"
    <3>1. CASE p \in Waiters(pstate, waiting, "message", q)
      BY <3>1 DEF QueueInv, ReadersOfKnownQueues
    <3>2. CASE q \in queues
      BY <3>2 DEF QueueInv, QueuesOfSlots, Gone
    <3>3. QED
      BY <3>1, <3>2
  <2>2. QED
    BY <1>1, <2>1 DEF SameSlots, SameLife, Gone
<1>6. ReadersOfKnownQueues'
  BY <1>5 DEF ReadersOfKnownQueues
<1>7. QED
  BY <1>2, <1>3, <1>4, <1>6 DEF QueueInv

LEMMA QueueQuiet ==
    ASSUME QueueInv, SameSlots, Leaves("message"), UNCHANGED mqVars
    PROVE  QueueInv'
<1>1. \A q \in QueueId : \A p \in Waiters(pstate', waiting', "message", q) :
         p \in Waiters(pstate, waiting, "message", q) /\ msgs'[q] = msgs[q]
  BY DEF Leaves, QueueId, mqVars
<1>2. QED
  BY <1>1, QueueStep DEF mqVars

LEMMA PollQueues ==
    ASSUME KernelInv, QueueInv, NEW arg \in {0} \cup QueueId, NEW wait \in BOOLEAN,
           NEW bufsize \in BufferSizes, IpcMqPoll(arg, wait, bufsize)
    PROVE  QueueInv'
<1> DEFINE q == OwnIfZero(arg)
<1>1. FromProcess /\ q \in Nat
  BY CallerSlot DEF IpcMqPoll, OwnIfZero, KernelInv, TypeInv, TypeOK, ProcTypeOK, QueueId
<1>2. CASE UNCHANGED mqVars /\ \E code \in ErrorCodes : Return(code)
  BY <1>2, ReturnFrame, QueueQuiet DEF WaitReasons
<1>3. CASE /\ q \in queues /\ msgs[q] = <<>> /\ UNCHANGED mqVars
           /\ ReturnWith("EAGAIN", WaitForStates, WaitForRecords("message", q))
  <2> HIDE DEF q
  <2>1. /\ SameSlots
        /\ \A reason \in WaitReasons \ {"time"}, d \in Nat :
              Waiters(pstate', waiting', reason, d)
                = Waiters(pstate, waiting, reason, d)
                    \cup (IF "message" = reason /\ q = d THEN {current} ELSE {})
    <3>1. "message" \in WaitReasons
      BY DEF WaitReasons
    <3>2. QED
      BY <1>1, <1>3, <3>1, BlockFrame
  <2>2. \A d \in QueueId :
           Waiters(pstate', waiting', "message", d)
             = Waiters(pstate, waiting, "message", d) \cup (IF q = d THEN {current} ELSE {})
    BY <2>1 DEF WaitReasons, QueueId
  <2>3. \A d \in QueueId : \A p \in Waiters(pstate', waiting', "message", d) :
           \/ p \in Waiters(pstate, waiting, "message", d) /\ msgs'[d] = msgs[d]
           \/ d \in queues /\ msgs'[d] = <<>>
    BY <1>3, <2>2 DEF mqVars
  <2>4. QED
    BY <1>3, <2>1, <2>3, QueueStep DEF mqVars
<1>4. CASE /\ q \in queues /\ msgs[q] # <<>>
           /\ msgs' = [msgs EXCEPT ![q] = Tail(@)]
           /\ UNCHANGED <<queues, nextMq, teardown>>
           /\ Return("0")
  <2> HIDE DEF q
  <2>1. SameSlots /\ Leaves("message")
    BY <1>4, ReturnFrame DEF WaitReasons
  <2>2. \A d \in QueueId : d # q => msgs'[d] = msgs[d]
    BY <1>4 DEF KernelInv, TypeInv, TypeOK, QueueTypeOK
  <2>3. \A p : p \notin Waiters(pstate, waiting, "message", q)
    BY <1>4 DEF QueueInv, ReadersHaveNothing, Waiters, KernelInv, TypeInv, TypeOK, QueueTypeOK
  <2>4. \A d \in QueueId : \A p \in Waiters(pstate', waiting', "message", d) :
           p \in Waiters(pstate, waiting, "message", d) /\ msgs'[d] = msgs[d]
    BY <2>1, <2>2, <2>3 DEF Leaves, QueueId
  <2>5. QED
    BY <1>4, <2>1, <2>4, QueueStep
<1>5. QED
  BY <1>2, <1>3, <1>4, Zenon DEF IpcMqPoll, ErrorCodes

LEMMA SendQueues ==
    ASSUME KernelInv, QueueInv, NEW arg, NEW pid, NEW size, IpcMqSend(arg, pid, size)
    PROVE  QueueInv'
<1> DEFINE q == SendTarget(arg, pid)
           S == IF q \in queues THEN Waiters(pstate, waiting, "message", q) ELSE {}
           msg == [type |-> "user", size |-> size]
<1>1. WakeReaders(pstate, waiting, q) = Wake(pstate, S)
  BY DEF WakeReaders, Wake, KernelInv, TypeInv, TypeOK, ProcTypeOK
<1>2. /\ FromProcess /\ queues' = queues /\ msgs' = Push(q, msg)
      /\ \E code : ReturnWith(code, Wake(pstate, S), waiting)
  BY <1>1 DEF IpcMqSend
<1>3. \A p \in S : p \in Pid /\ pstate[p] = "waiting"
  BY DEF Waiters
<1>4. q \in queues => S = Waiters(pstate, waiting, "message", q)
  OBVIOUS
<1> HIDE DEF q, S, msg
<1>5. /\ SameSlots
      /\ \A reason \in WaitReasons \ {"time"}, d \in Nat :
            Waiters(pstate', waiting', reason, d) = Waiters(pstate, waiting, reason, d) \ S
  BY <1>2, <1>3, ReturnWakeFrame
<1>6. \A d \in QueueId :
         Waiters(pstate', waiting', "message", d) = Waiters(pstate, waiting, "message", d) \ S
  BY <1>5 DEF WaitReasons, QueueId
<1>7. \A d \in QueueId : d # q \/ q \notin queues => msgs'[d] = msgs[d]
  BY <1>2 DEF Push, KernelInv, TypeInv, TypeOK, QueueTypeOK
<1>8. \A d \in QueueId : \A p \in Waiters(pstate', waiting', "message", d) :
         p \in Waiters(pstate, waiting, "message", d) /\ msgs'[d] = msgs[d]
  BY <1>4, <1>6, <1>7
<1>9. QED
  BY <1>2, <1>5, <1>8, QueueStep

LEMMA InterruptQueues ==
    ASSUME KernelInv, QueueInv, NEW i \in Irq, HardwareInterrupt(i)
    PROVE  QueueInv'
<1>1. CASE Halt("slot") /\ UNCHANGED mqVars
  BY <1>1, HaltFrame, QueueQuiet DEF WaitReasons
<1>2. CASE /\ msgs' = [q \in QueueId |->
                  IF q \in queues
                  THEN msgs[q] \o [k \in 1 .. Copies(i, q) |-> InterruptMsg]
                  ELSE msgs[q]]
           /\ ScheduleNext(Wake(pstate, InterruptReaders(i)), waiting)
           /\ UNCHANGED <<procVars, queues>>
  <2>1. /\ SameLife
        /\ \A reason \in WaitReasons \ {"time"}, d \in Nat :
              Waiters(pstate', waiting', reason, d)
                = Waiters(pstate, waiting, reason, d) \ InterruptReaders(i)
    BY <1>2, InterruptFrame
  <2>2. ASSUME NEW q \in QueueId, NEW p \in Waiters(pstate', waiting', "message", q)
        PROVE  p \in Waiters(pstate, waiting, "message", q) /\ msgs'[q] = msgs[q]
    <3>1. q \in Nat /\ "message" \in WaitReasons \ {"time"}
      BY DEF QueueId, WaitReasons
    <3>2. p \in Waiters(pstate, waiting, "message", q) /\ p \notin InterruptReaders(i)
      BY <2>1, <3>1
    <3>3. CASE q \notin queues
      BY <1>2, <3>2, <3>3
    <3>4. CASE q \in queues
      <4>1. ~Registered(i, q) /\ p \in Pid
        BY <3>2, <3>4 DEF InterruptReaders, Waiters
      <4>2. {k \in 1 .. Len(irqQueues[i]) : irqQueues[i][k] = q} = {}
        BY <4>1 DEF Registered
      <4>3. Copies(i, q) = 0
        BY <4>2, FS_EmptySet DEF Copies
      <4>4. msgs'[q] = msgs[q] \o <<>>
        <5>1. msgs'[q] = msgs[q] \o [k \in 1 .. Copies(i, q) |-> InterruptMsg]
          BY <1>2, <3>4
        <5>2. [k \in 1 .. 0 |-> InterruptMsg] = <<>>
          OBVIOUS
        <5>3. QED
          BY <4>3, <5>1, <5>2
      <4>5. msgs[q] = <<>>
        BY <3>2, <3>4, <4>1 DEF QueueInv, ReadersHaveNothing
      <4>6. QED
        BY <3>2, <4>4, <4>5
    <3>5. QED
      BY <3>3, <3>4
  <2>3. QED
    BY <1>2, <2>1, <2>2, QueueStep DEF SameSlots
<1>3. QED
  BY <1>1, <1>2 DEF HardwareInterrupt

-----------------------------------------------------------------------------
(* The end of a process, seen by its parent *)

\* What ParentIsTold says of one step.
ToldStep ==
    \A p \in Pid :
        (/\ pstate[p] = "running"
         /\ pstate'[p] \in Dead
         /\ parent[p] # NoPid
         /\ pstate[parent[p]] \notin Gone)
            => LET q == pmq[parent[p]]
               IN  /\ msgs'[q] = Append(msgs[q], SigchldMsg)
                   /\ parent[p] \notin Waiters(pstate, waiting, "message", q)'

\* No process ends in a step that starts and ends none.
LEMMA NobodyEnds ==
    ASSUME SameSlots
    PROVE  ToldStep
  BY DEF ToldStep, SameSlots, SameLife, Gone, Dead

\* The queue of a process that is there.
LEMMA OwnQueue ==
    ASSUME KernelInv, NEW p \in Pid, pstate[p] # "empty"
    PROVE  pmq[p] = p + 1 /\ p + 1 \in QueueId
<1>1. p < nextMq - 1
  BY SchedulerAssumption DEF KernelInv, TypeInv, TypeOK, QueueTypeOK, SlotsInOrder, Pid
<1>2. QED
  BY <1>1, SchedulerAssumption DEF KernelInv, TypeInv, SlotsInOrder, Pid, QueueId

LEMMA EndCurrentQueues ==
    ASSUME KernelInv, QueueInv, NEW how \in Dead, EndCurrent(how)
    PROVE  QueueInv' /\ ToldStep
<1> DEFINE own == pmq[current]
<1>1. FromProcess /\ current \in Pid /\ pstate[current] = "running"
  BY CallerSlot DEF EndCurrent
<1>2. CASE Halt("memmove") /\ UNCHANGED mqVars
  BY <1>2, HaltFrame, QueueQuiet, NobodyEnds DEF WaitReasons
<1>3. ASSUME NEW heir \in Heirs, NEW target \in SigchldTargets(current),
             AreHeirs(heir, UnlockedForHolder(current),
                      [pstate EXCEPT ![current] = how], waiting),
             MqDestroy(own, Push(target, SigchldMsg)),
             ReturnWith("none",
                 WakeReaders(Wake([pstate EXCEPT ![current] = how], WokenHeirs(heir)),
                             waiting, target), waiting)
      PROVE  QueueInv' /\ ToldStep
  <2>1. /\ \A d \in Nat :
              Waiters(pstate', waiting', "message", d)
                = IF d = target /\ target \in queues THEN {}
                  ELSE Waiters(pstate, waiting, "message", d)
        /\ pstate'[current] = how
        /\ \A p \in Pid \ {current} :
              pstate'[p] \in Gone \/ pstate[p] \in Gone => pstate'[p] = pstate[p]
    BY <1>1, <1>3, EndFrame
  <2>2. own = current + 1 /\ own \in QueueId
    BY <1>1, OwnQueue
  <2>3. UNCHANGED procVars
    BY <1>3 DEF ReturnWith
  <2>4. /\ queues' = queues \ {own}
        /\ \A q \in QueueId :
              msgs'[q] = IF q = own THEN <<>>
                         ELSE IF q = target /\ target \in queues THEN Append(msgs[q], SigchldMsg)
                         ELSE msgs[q]
    <3>1. Push(target, SigchldMsg) \in [QueueId -> Seq(Message)]
      BY PushType DEF SigchldMsg, Message, MsgTypes, KernelMsgSize
    <3>2. \A q \in QueueId :
             Push(target, SigchldMsg)[q]
               = IF q = target /\ target \in queues THEN Append(msgs[q], SigchldMsg) ELSE msgs[q]
      BY DEF Push, KernelInv, TypeInv, TypeOK, QueueTypeOK
    <3>3. QED
      BY <1>3, <3>1, <3>2 DEF MqDestroy
  <2>5. \A q \in QueueId : q - 1 \in Pid /\ q \in Nat /\ (q - 1 = current <=> q = own)
    BY <1>1, <2>2, SchedulerAssumption DEF QueueId, Pid
  <2>6. how \in Gone /\ how # "empty" /\ pstate[current] \notin Gone
    BY <1>1 DEF Dead, Gone
  <2> HIDE DEF own
  <2>7. QueuesOfSlots'
    <3> SUFFICES ASSUME NEW q \in QueueId
                 PROVE  q \in queues' <=> pstate'[q - 1] \notin Gone
      BY DEF QueuesOfSlots
    <3>1. CASE q = own
      BY <2>1, <2>4, <2>5, <2>6, <3>1
    <3>2. CASE q # own
      <4>1. q \in queues <=> pstate[q - 1] \notin Gone
        BY DEF QueueInv, QueuesOfSlots
      <4>2. pstate'[q - 1] \in Gone <=> pstate[q - 1] \in Gone
        BY <2>1, <2>5, <3>2
      <4>3. QED
        BY <2>4, <3>2, <4>1, <4>2
    <3>3. QED
      BY <3>1, <3>2
  <2>8. \A p \in Pid : pstate'[p] = "empty" <=> pstate[p] = "empty"
    BY <2>1, <2>6 DEF Gone
  <2>9. ParentsAreOthers'
    BY <2>3, <2>8 DEF QueueInv, ParentsAreOthers, procVars
  <2>10. \A q \in QueueId : Waiters(pstate', waiting', "message", q)
                                \subseteq Waiters(pstate, waiting, "message", q)
    BY <2>1, <2>5
  <2>11. ReadersOfKnownQueues'
    BY <2>5, <2>8, <2>10 DEF QueueInv, ReadersOfKnownQueues
  <2>12. ReadersHaveNothing'
    <3> SUFFICES ASSUME NEW q \in QueueId, NEW p \in Pid, q \in queues',
                        p \in Waiters(pstate', waiting', "message", q)
                 PROVE  msgs'[q] = <<>>
      BY DEF ReadersHaveNothing
    <3>1. ~(q = target /\ target \in queues) /\ p \in Waiters(pstate, waiting, "message", q)
      BY <2>1, <2>5
    <3>2. QED
      BY <2>4, <3>1 DEF QueueInv, ReadersHaveNothing
  <2>13. ToldStep
    <3> SUFFICES ASSUME NEW p \in Pid, pstate[p] = "running", parent[p] # NoPid,
                        pstate[parent[p]] \notin Gone
                 PROVE  /\ msgs'[pmq[parent[p]]] = Append(msgs[pmq[parent[p]]], SigchldMsg)
                        /\ parent[p] \notin Waiters(pstate', waiting', "message",
                                                    pmq'[parent'[p]])
      BY DEF ToldStep
    <3> DEFINE q == pmq[parent[p]]
    <3>1. p = current /\ parent[p] \in Pid
      BY DEF KernelInv, TypeInv, TypeOK, ProcTypeOK, RunningIsCurrent
    <3>2. target = q
      BY <3>1 DEF SigchldTargets
    <3>3. parent[p] # p
      BY <2>6, <3>1 DEF QueueInv, ParentsAreOthers, Gone
    <3>4. q = parent[p] + 1 /\ q \in QueueId
      BY <3>1, OwnQueue DEF Gone
    <3>5. q # own
      BY <2>2, <3>1, <3>3, <3>4 DEF Pid
    <3>6. q - 1 = parent[p]
      BY <3>1, <3>4 DEF Pid
    <3>7. q \in queues
      BY <3>4, <3>6 DEF QueueInv, QueuesOfSlots
    <3>8. pmq'[parent'[p]] = q
      BY <2>3 DEF procVars
    <3> HIDE DEF q
    <3>9. Waiters(pstate', waiting', "message", q) = {}
      BY <2>1, <2>5, <3>2, <3>4, <3>7
    <3>10. msgs'[q] = Append(msgs[q], SigchldMsg)
      BY <2>4, <3>2, <3>4, <3>5, <3>7
    <3>11. QED
      BY <3>8, <3>9, <3>10 DEF q
  <2>14. QED
    BY <2>7, <2>9, <2>11, <2>12, <2>13 DEF QueueInv
<1>4. QED
  BY <1>2, <1>3 DEF EndCurrent

LEMMA CloneQueues ==
    ASSUME KernelInv, QueueInv, SchedulerClone
    PROVE  QueueInv' /\ ToldStep
<1>1. FromProcess /\ current \in Pid /\ pstate[current] = "running"
  BY CallerSlot DEF SchedulerClone
<1>2. CASE Halt("pids") /\ UNCHANGED mqVars
  BY <1>2, HaltFrame, QueueQuiet, NobodyEnds DEF WaitReasons
<1>3. ASSUME NEW pid \in Pid, IsFreePid(pid),
             parent' = [parent EXCEPT ![pid] = current],
             MqCreate,
             pstate' = [pstate EXCEPT ![pid] = "runnable"],
             waiting' = waiting
      PROVE  QueueInv' /\ ToldStep
  <2>1. pid = nextMq - 1 /\ pstate[pid] = "empty" /\ nextMq \in QueueId
    BY <1>3, FreePid, SchedulerAssumption
    DEF IsFreePid, QueueId, Pid, KernelInv, TypeInv, TypeOK, QueueTypeOK
  <2>2. queues' = queues \cup {nextMq} /\ msgs' = msgs
    BY <1>3 DEF MqCreate
  <2>3. \A p \in Pid : pstate'[p] = IF p = pid THEN "runnable" ELSE pstate[p]
    BY <1>3 DEF KernelInv, TypeInv, TypeOK, ProcTypeOK
  <2>4. \A q \in QueueId : q - 1 \in Pid /\ (q - 1 = pid <=> q = nextMq)
    BY <2>1, SchedulerAssumption DEF QueueId, Pid
  <2>5. \A q : Waiters(pstate', waiting', "message", q) = Waiters(pstate, waiting, "message", q)
    BY <1>3, <2>1, <2>3 DEF Waiters
  <2>6. QueuesOfSlots'
    BY <2>1, <2>2, <2>3, <2>4 DEF QueueInv, QueuesOfSlots, Gone
  <2>7. ParentsAreOthers'
    BY <1>1, <1>3, <2>1, <2>3
    DEF QueueInv, ParentsAreOthers, KernelInv, TypeInv, TypeOK, ProcTypeOK
  <2>8. ReadersOfKnownQueues'
    BY <2>3, <2>4, <2>5 DEF QueueInv, ReadersOfKnownQueues
  <2>9. \A p : p \notin Waiters(pstate, waiting, "message", nextMq)
    BY <2>1, <2>4 DEF QueueInv, ReadersOfKnownQueues
  <2>10. ReadersHaveNothing'
    BY <2>2, <2>5, <2>9 DEF QueueInv, ReadersHaveNothing
  <2>11. ToldStep
    BY <2>1, <2>3 DEF ToldStep, Dead
  <2>12. QED
    BY <2>6, <2>7, <2>8, <2>10, <2>11 DEF QueueInv
<1>4. QED
  BY <1>2, <1>3 DEF SchedulerClone

LEMMA QueuesStep == KernelInv /\ QueueInv /\ [Next]_vars => QueueInv' /\ [ToldStep]_vars
<1> SUFFICES ASSUME KernelInv, QueueInv, [Next]_vars PROVE QueueInv' /\ [ToldStep]_vars
  OBVIOUS
<1>1. CASE MutexStep
  BY <1>1, MutexStepFrame, QueueQuiet, NobodyEnds DEF MutexStep
<1>2. CASE CondvarStep
  BY <1>2, CondvarStepFrame, QueueQuiet, NobodyEnds DEF CondvarStep
<1>3. CASE MessageStep
  <2>1. QueueInv'
    BY <1>3, PollQueues, SendQueues DEF MessageStep
  <2>2. QED
    BY <1>3, <2>1, MessageStepFrame, NobodyEnds
<1>4. CASE InterruptStep
  <2>1. ASSUME NEW i, NEW enable, NEW arg, HardwareInterruptNotify(i, enable, arg)
        PROVE  QueueInv'
    <3>1. queues' = queues /\ msgs' = msgs /\ UNCHANGED <<pstate, waiting>> /\ UNCHANGED procVars
      BY <2>1 DEF HardwareInterruptNotify, Return, Halt, mqVars
    <3>2. SameSlots /\ Leaves("message")
      BY <3>1, QuietFrame DEF WaitReasons
    <3>3. QED
      BY <3>1, <3>2, QueueStep
  <2>2. QueueInv'
    BY <1>4, <2>1, InterruptQueues DEF InterruptStep
  <2>3. QED
    BY <1>4, <2>2, InterruptStepFrame, NobodyEnds
<1>5. CASE SchedulerStep
  <2>1. CASE (Tick \/ \E ns \in Naps : SchedulerSleep(ns)) /\ UNCHANGED mqVars
    BY <2>1, SleepFrame, QueueQuiet, NobodyEnds DEF WaitReasons
  <2>2. CASE SchedulerExit \/ UserspaceException
    BY <2>2, EndCurrentQueues DEF SchedulerExit, UserspaceException, Dead
  <2>3. QED
    BY <1>5, <2>1, <2>2, CloneQueues DEF SchedulerStep
<1>6. CASE UNCHANGED vars
  BY <1>6, QuietFrame, QueueQuiet, NobodyEnds DEF vars, procVars, WaitReasons
<1>7. QED
  BY <1>1, <1>2, <1>3, <1>4, <1>5, <1>6 DEF Next

LEMMA QueuesInit == Init => QueueInv
<1> SUFFICES ASSUME Init PROVE QueueInv
  OBVIOUS
<1>1. \A r, d : Waiters(pstate, waiting, r, d) = {}
  BY DEF Init, SchedulerInit, Waiters
<1>2. QueuesOfSlots
  BY SchedulerAssumption
  DEF Init, SchedulerInit, MessageQueueInit, QueuesOfSlots, QueueId, Pid, Gone
<1>3. ParentsAreOthers
  BY SchedulerAssumption DEF Init, SchedulerInit, ParentsAreOthers, Pid, NoPid
<1>4. QED
  BY <1>1, <1>2, <1>3 DEF QueueInv, ReadersHaveNothing, ReadersOfKnownQueues

LEMMA QueuesInvariance == Spec => []QueueInv
  BY QueuesInit, QueuesStep, Invariance, PTL DEF Spec

\* Nobody sleeps on a queue that holds a message, whoever pushed it: no wakeup
\* of mq_poll is lost, for any number of processes, queues and messages.
THEOREM NoLostWakeup == Spec => []ReadersHaveNothing
<1>1. QueueInv => ReadersHaveNothing
  BY DEF QueueInv
<1>2. QED
  BY <1>1, QueuesInvariance, PTL

\* mq_destroy takes exactly the queues of ended processes out of the table, and
\* no two slots ever have the same queue.
THEOREM QueuesLiveAndDie == Spec => []QueuesOfTheLiving
<1>1. ASSUME KernelInv, QueueInv PROVE QueuesOfTheLiving
  <2>1. \A p \in Pid : pstate[p] \notin Gone => pmq[p] = p + 1 /\ p + 1 \in QueueId
    BY <1>1, OwnQueue DEF Gone
  <2>2. \A p \in Pid : pstate[p] \notin Gone => pmq[p] \in queues
    BY <1>1, <2>1 DEF QueueInv, QueuesOfSlots, Pid
  <2>3. ASSUME NEW q \in queues
        PROVE  \E p \in Pid : pstate[p] \notin Gone /\ pmq[p] = q
    <3>1. q \in QueueId /\ q - 1 \in Pid /\ q = (q - 1) + 1
      BY <1>1, SchedulerAssumption DEF KernelInv, TypeInv, TypeOK, QueueTypeOK, QueueId, Pid
    <3>2. pstate[q - 1] \notin Gone
      BY <1>1, <3>1 DEF QueueInv, QueuesOfSlots
    <3>3. QED
      BY <2>1, <3>1, <3>2
  <2>4. \A p, r \in Pid : p # r /\ pmq[p] # 0 => pmq[p] # pmq[r]
    BY <1>1 DEF KernelInv, TypeInv, SlotsInOrder, Pid
  <2>5. QED
    BY <2>2, <2>3, <2>4 DEF QueuesOfTheLiving
<1>2. QED
  BY <1>1, Invariance, QueuesInvariance, PTL

\* Whenever a process ends, by exit or by an exception, its living parent gets
\* exactly one SIGCHLD at the end of its queue and does not stay blocked on it.
THEOREM ParentsAreTold == Spec => ParentIsTold
<1>1. KernelInv /\ QueueInv /\ [Next]_vars => [ToldStep]_vars
  BY QueuesStep
<1>2. QED
  BY <1>1, Invariance, QueuesInvariance, PTL DEF Spec, ParentIsTold, ToldStep

-----------------------------------------------------------------------------
(* Condition variables *)

\* create_condvar gives out fresh ids only, so a new one has no waiters.
CondvarInv == CondvarWaitersCounted /\ \A c \in condvars : c < nextCondvar

\* The processes blocked on an object are finitely many.
LEMMA WaitersFinite ==
    ASSUME NEW ps, NEW wt, NEW reason, NEW data
    PROVE  IsFiniteSet(Waiters(ps, wt, reason, data))
<1>1. IsFiniteSet(Pid)
  BY FS_Interval, SchedulerAssumption DEF Pid
<1>2. Waiters(ps, wt, reason, data) \in SUBSET Pid
  BY DEF Waiters
<1>3. QED
  BY <1>1, <1>2, FS_Subset

LEMMA FewerWaiters ==
    ASSUME NEW T, NEW ps, NEW wt, NEW reason, NEW data,
           T \subseteq Waiters(ps, wt, reason, data)
    PROVE  /\ Cardinality(T) \in Nat
           /\ Cardinality(Waiters(ps, wt, reason, data)) \in Nat
           /\ Cardinality(T) <= Cardinality(Waiters(ps, wt, reason, data))
<1>1. IsFiniteSet(Waiters(ps, wt, reason, data))
  BY WaitersFinite
<1>2. T \in SUBSET Waiters(ps, wt, reason, data)
  OBVIOUS
<1>3. IsFiniteSet(T) /\ Cardinality(T) <= Cardinality(Waiters(ps, wt, reason, data))
  BY <1>1, <1>2, FS_Subset
<1>4. QED
  BY <1>1, <1>3, FS_CardinalityType

\* A step that blocks nobody on a condition variable and keeps the table.
LEMMA CondvarQuiet ==
    ASSUME KernelInv, CondvarInv, UNCHANGED condvarVars,
           \A c \in CondvarId : Waiters(pstate', waiting', "condvar", c)
                                    \subseteq Waiters(pstate, waiting, "condvar", c)
    PROVE  CondvarInv'
<1>1. ASSUME NEW c \in CondvarId
      PROVE  /\ Waiters(pstate', waiting', "condvar", c) # {} => c \in condvars'
             /\ Cardinality(Waiters(pstate', waiting', "condvar", c)) <= waitCount'[c]
  <2>1. /\ Waiters(pstate', waiting', "condvar", c) \subseteq Waiters(pstate, waiting, "condvar", c)
        /\ Waiters(pstate, waiting, "condvar", c) # {} => c \in condvars
        /\ Cardinality(Waiters(pstate, waiting, "condvar", c)) <= waitCount[c]
        /\ waitCount[c] \in Nat /\ waitCount' = waitCount /\ condvars' = condvars
    BY DEF CondvarInv, CondvarWaitersCounted, condvarVars, KernelInv, TypeInv, TypeOK,
           CondvarTypeOK
  <2>2. /\ Cardinality(Waiters(pstate', waiting', "condvar", c)) \in Nat
        /\ Cardinality(Waiters(pstate, waiting, "condvar", c)) \in Nat
        /\ Cardinality(Waiters(pstate', waiting', "condvar", c))
             <= Cardinality(Waiters(pstate, waiting, "condvar", c))
    BY <2>1, FewerWaiters
  <2>3. QED
    BY <2>1, <2>2
<1>2. QED
  BY <1>1 DEF CondvarInv, CondvarWaitersCounted, condvarVars

LEMMA CondvarLeft ==
    ASSUME KernelInv, CondvarInv, UNCHANGED condvarVars, Leaves("condvar")
    PROVE  CondvarInv'
<1>1. \A c \in CondvarId : Waiters(pstate', waiting', "condvar", c)
                               \subseteq Waiters(pstate, waiting, "condvar", c)
  BY DEF Leaves, CondvarId
<1>2. QED
  BY <1>1, CondvarQuiet

LEMMA CondvarStepCondvars ==
    ASSUME KernelInv, CondvarInv, CondvarStep
    PROVE  CondvarInv'
<1> DEFINE W(c) == Waiters(pstate, waiting, "condvar", c)
           V(c) == Waiters(pstate', waiting', "condvar", c)
<1>1. \A c \in CondvarId : (W(c) # {} => c \in condvars) /\ Cardinality(W(c)) <= waitCount[c]
  BY DEF CondvarInv, CondvarWaitersCounted
<1>2. waitCount \in [CondvarId -> Nat] /\ condvars \subseteq CondvarId /\ nextCondvar \in Nat
  BY DEF KernelInv, TypeInv, TypeOK, CondvarTypeOK
<1>3. SUFFICES /\ \A c \in CondvarId :
                     (V(c) # {} => c \in condvars') /\ Cardinality(V(c)) <= waitCount'[c]
               /\ \A c \in condvars' : c < nextCondvar'
  BY DEF CondvarInv, CondvarWaitersCounted
<1>4. CASE UNCHANGED condvarVars /\ \E code \in ErrorCodes : Return(code)
  BY <1>4, ReturnFrame, CondvarLeft DEF WaitReasons, CondvarInv, CondvarWaitersCounted
<1>5. CASE LockingCreateCondvar
  <2>1. \A c : V(c) = W(c)
    BY <1>5 DEF LockingCreateCondvar, Return
  <2>2. /\ condvars' = condvars \cup {nextCondvar} /\ nextCondvar' = nextCondvar + 1
        /\ \A c \in CondvarId : waitCount'[c] = IF c = nextCondvar THEN 0 ELSE waitCount[c]
    BY <1>2, <1>5 DEF LockingCreateCondvar
  <2>3. \A c \in condvars : c < nextCondvar /\ c \in Nat
    BY <1>2 DEF CondvarInv, CondvarId
  <2>4. nextCondvar \in CondvarId => W(nextCondvar) = {}
    BY <1>1, <1>2, <2>3
  <2>5. Cardinality({}) = 0
    BY FS_EmptySet
  <2> HIDE DEF W, V
  <2>6. ASSUME NEW c \in CondvarId
        PROVE  (V(c) # {} => c \in condvars') /\ Cardinality(V(c)) <= waitCount'[c]
    <3>1. CASE c = nextCondvar
      <4>1. V(c) = {} /\ waitCount'[c] = 0
        BY <2>1, <2>2, <2>4, <3>1
      <4>2. QED
        BY <2>5, <4>1
    <3>2. CASE c # nextCondvar
      <4>1. V(c) = W(c) /\ waitCount'[c] = waitCount[c]
        BY <2>1, <2>2, <3>2
      <4>2. QED
        BY <1>1, <2>2, <4>1
    <3>3. QED
      BY <3>1, <3>2
  <2>7. \A c \in condvars' : c < nextCondvar'
    BY <1>2, <2>2, <2>3
  <2>8. QED
    BY <2>6, <2>7
<1>6. ASSUME NEW c \in CondvarId, LockingDestroyCondvar(c), c \in condvars, waitCount[c] = 0,
             condvars' = condvars \ {c}, UNCHANGED <<waitCount, nextCondvar>>
      PROVE  /\ \A e \in CondvarId :
                   (V(e) # {} => e \in condvars') /\ Cardinality(V(e)) <= waitCount'[e]
             /\ \A e \in condvars' : e < nextCondvar'
  <2>1. \A e : V(e) = W(e)
    BY <1>6 DEF LockingDestroyCondvar, Return
  <2>2. IsFiniteSet(W(c))
    BY WaitersFinite
  <2> HIDE DEF W, V
  <2>3. Cardinality(W(c)) = 0
    BY <1>1, <1>6, <2>2, FS_CardinalityType
  <2>4. W(c) = {}
    BY <2>2, <2>3, FS_EmptySet
  <2>5. QED
    BY <1>1, <1>6, <2>1, <2>4 DEF CondvarInv
<1>7. ASSUME FromProcess, UNCHANGED condvarVars, NEW c \in CondvarId, NEW amount,
             ReturnWith("0", Wake(pstate, Signalled(c, amount)), waiting)
      PROVE  CondvarInv'
  <2>1. \A p \in Signalled(c, amount) : p \in Pid /\ pstate[p] = "waiting"
    BY SignalledWait
  <2>2. \A reason \in WaitReasons \ {"time"}, d \in Nat :
           Waiters(pstate', waiting', reason, d)
             = Waiters(pstate, waiting, reason, d) \ Signalled(c, amount)
    BY <1>7, <2>1, ReturnWakeFrame
  <2>3. \A d \in CondvarId : V(d) = W(d) \ Signalled(c, amount)
    BY <2>2 DEF WaitReasons, CondvarId
  <2>4. \A d \in CondvarId : V(d) \subseteq W(d)
    BY <2>3
  <2>5. QED
    BY <1>7, <2>4, CondvarQuiet
<1>8. ASSUME FromProcess, NEW c \in CondvarId, c \in condvars,
             waitCount' = [waitCount EXCEPT ![c] = @ + 1],
             UNCHANGED <<condvars, nextCondvar>>,
             ReturnWith("0", WaitForStates, WaitForRecords("condvar", c))
      PROVE  /\ \A e \in CondvarId :
                   (V(e) # {} => e \in condvars') /\ Cardinality(V(e)) <= waitCount'[e]
             /\ \A e \in condvars' : e < nextCondvar'
  <2>1. "condvar" \in WaitReasons \ {"time"} /\ c \in Nat
    BY DEF WaitReasons, CondvarId
  <2>2. \A reason \in WaitReasons \ {"time"}, d \in Nat :
           Waiters(pstate', waiting', reason, d)
             = Waiters(pstate, waiting, reason, d)
                 \cup (IF "condvar" = reason /\ c = d THEN {current} ELSE {})
    BY <1>8, <2>1, BlockFrame
  <2>3. \A d \in CondvarId : V(d) = W(d) \cup (IF c = d THEN {current} ELSE {})
    BY <2>1, <2>2 DEF CondvarId
  <2>4. IsFiniteSet(W(c))
    BY WaitersFinite
  <2> HIDE DEF W, V
  <2>5. \A d \in CondvarId : d # c => V(d) = W(d)
    BY <2>3
  <2>6. V(c) = W(c) \cup {current}
    BY <2>3
  <2>7. /\ Cardinality(W(c)) \in Nat
        /\ Cardinality(V(c)) \in Nat
        /\ Cardinality(V(c)) <= Cardinality(W(c)) + 1
    <3>1. Cardinality(W(c)) \in Nat
      BY <2>4, FS_CardinalityType
    <3>2. Cardinality(V(c))
            = IF current \in W(c) THEN Cardinality(W(c)) ELSE Cardinality(W(c)) + 1
      BY <2>4, <2>6, FS_AddElement
    <3>3. QED
      BY <3>1, <3>2
  <2>8. Cardinality(V(c)) <= waitCount'[c]
    BY <1>1, <1>2, <1>8, <2>7
  <2>9. \A d \in CondvarId : d # c => waitCount'[d] = waitCount[d]
    BY <1>2, <1>8
  <2>10. QED
    BY <1>1, <1>8, <2>5, <2>8, <2>9 DEF CondvarInv
<1>9. ASSUME NEW c \in CondvarId, LockingDestroyCondvar(c)
      PROVE  /\ \A e \in CondvarId :
                   (V(e) # {} => e \in condvars') /\ Cardinality(V(e)) <= waitCount'[e]
             /\ \A e \in condvars' : e < nextCondvar'
  <2>1. \/ UNCHANGED condvarVars /\ \E code \in ErrorCodes : Return(code)
        \/ /\ c \in condvars /\ waitCount[c] = 0 /\ condvars' = condvars \ {c}
           /\ UNCHANGED <<waitCount, nextCondvar>>
    BY <1>9, Zenon DEF LockingDestroyCondvar, ErrorCodes
  <2>2. QED
    BY <1>4, <1>6, <1>9, <2>1
<1>10. ASSUME NEW c \in CondvarId, NEW amount, LockingSignalCondvar(c, amount)
       PROVE  /\ \A e \in CondvarId :
                    (V(e) # {} => e \in condvars') /\ Cardinality(V(e)) <= waitCount'[e]
              /\ \A e \in condvars' : e < nextCondvar'
  <2>1. UNCHANGED condvarVars /\ FromProcess
    BY <1>10 DEF LockingSignalCondvar, CountAfterSignal, condvarVars
  <2>2. \/ \E code \in ErrorCodes : Return(code)
        \/ ReturnWith("0", Wake(pstate, Signalled(c, amount)), waiting)
    BY <1>10, Zenon DEF LockingSignalCondvar, ErrorCodes
  <2>3. QED
    BY <1>4, <1>7, <2>1, <2>2 DEF CondvarInv, CondvarWaitersCounted
<1>11. ASSUME NEW c \in CondvarId, LockingWaitCondvar(c)
       PROVE  /\ \A e \in CondvarId :
                    (V(e) # {} => e \in condvars') /\ Cardinality(V(e)) <= waitCount'[e]
              /\ \A e \in condvars' : e < nextCondvar'
  <2> HIDE DEF W, V
  <2>1. QED
    BY <1>4, <1>8, <1>11, Zenon DEF LockingWaitCondvar, ErrorCodes
<1>12. QED
  BY <1>5, <1>9, <1>10, <1>11 DEF CondvarStep

LEMMA CondvarsStep == KernelInv /\ CondvarInv /\ [Next]_vars => CondvarInv'
<1> SUFFICES ASSUME KernelInv, CondvarInv, [Next]_vars PROVE CondvarInv'
  OBVIOUS
<1>1. CASE MutexStep
  BY <1>1, MutexStepFrame, CondvarLeft DEF MutexStep
<1>2. CASE MessageStep
  BY <1>2, MessageStepFrame, CondvarLeft DEF MessageStep
<1>3. CASE InterruptStep
  BY <1>3, InterruptStepFrame, CondvarLeft DEF InterruptStep
<1>4. CASE SchedulerStep
  <2>1. CASE (Tick \/ \E ns \in Naps : SchedulerSleep(ns)) /\ UNCHANGED condvarVars
    BY <2>1, SleepFrame, CondvarLeft DEF WaitReasons
  <2>2. ASSUME NEW how \in Dead, EndCurrent(how)
        PROVE  CondvarInv'
    <3>1. FromProcess /\ UNCHANGED condvarVars
      BY <2>2 DEF EndCurrent
    <3>2. CASE Halt("memmove")
      BY <3>1, <3>2, HaltFrame, CondvarLeft DEF WaitReasons
    <3>3. ASSUME NEW heir \in Heirs, NEW target,
                 AreHeirs(heir, UnlockedForHolder(current),
                          [pstate EXCEPT ![current] = how], waiting),
                 ReturnWith("none",
                     WakeReaders(Wake([pstate EXCEPT ![current] = how], WokenHeirs(heir)),
                                 waiting, target), waiting)
          PROVE  CondvarInv'
      BY <3>1, <3>3, EndFrame, CondvarLeft
    <3>4. QED
      BY <2>2, <3>2, <3>3 DEF EndCurrent
  <2>3. CASE SchedulerClone
    BY <2>3, CloneFrame, CondvarLeft DEF SchedulerClone, WaitReasons
  <2>4. QED
    BY <1>4, <2>1, <2>2, <2>3 DEF SchedulerStep, SchedulerExit, UserspaceException, Dead
<1>5. CASE UNCHANGED vars
  BY <1>5, QuietFrame, CondvarLeft DEF vars, procVars, WaitReasons
<1>6. QED
  BY <1>1, <1>2, <1>3, <1>4, <1>5, CondvarStepCondvars DEF Next

LEMMA CondvarsInit == Init => CondvarInv
<1> SUFFICES ASSUME Init PROVE CondvarInv
  OBVIOUS
<1>1. \A c : Waiters(pstate, waiting, "condvar", c) = {}
  BY DEF Init, SchedulerInit, Waiters
<1>2. Cardinality({}) = 0
  BY FS_EmptySet
<1>3. QED
  BY <1>1, <1>2 DEF Init, CondvarInit, CondvarInv, CondvarWaitersCounted

LEMMA CondvarsInvariance == Spec => []CondvarInv
  BY CondvarsInit, CondvarsStep, Invariance, PTL DEF Spec

\* destroy_condvar never takes a condition variable away from a process that
\* waits on it: wait_count, though never lowered, is never too small.
THEOREM CondvarsOutliveWaiters == Spec => []CondvarWaitersCounted
<1>1. CondvarInv => CondvarWaitersCounted
  BY DEF CondvarInv
<1>2. QED
  BY <1>1, CondvarsInvariance, PTL


-----------------------------------------------------------------------------
(* Arithmetic of the scans *)

\* What `% MAX_PROCS' does to a difference of two slots.
LEMMA Wrapped ==
    ASSUME NEW x \in Int, -N <= x, x < N
    PROVE  x % N = IF x < 0 THEN x + N ELSE x
  BY SchedulerAssumption

\* The scan of schedule_next starts behind `last': when it stops at r, every
\* process behind r is closer to the next scan.
LEMMA CloserRun ==
    ASSUME NEW last \in Pid \cup {NoPid}, NEW r \in Pid, NEW p \in Pid, r # p,
           RunPos(last, r) <= RunPos(last, p)
    PROVE  (p - r - 1) % N < (p - last - 1) % N
<1>1. N \in Nat /\ last \in -1 .. N - 1 /\ r \in 0 .. N - 1 /\ p \in 0 .. N - 1
  BY SchedulerAssumption DEF Pid, NoPid
<1>2. /\ r - last - 1 \in Int /\ -N <= r - last - 1 /\ r - last - 1 < N
      /\ p - last - 1 \in Int /\ -N <= p - last - 1 /\ p - last - 1 < N
      /\ p - r - 1 \in Int /\ -N <= p - r - 1 /\ p - r - 1 < N
  BY <1>1
<1>3. /\ (r - last - 1) % N = IF r - last - 1 < 0 THEN r - last - 1 + N ELSE r - last - 1
      /\ (p - last - 1) % N = IF p - last - 1 < 0 THEN p - last - 1 + N ELSE p - last - 1
      /\ (p - r - 1) % N = IF p - r - 1 < 0 THEN p - r - 1 + N ELSE p - r - 1
  BY <1>2, Wrapped
<1>4. (r - last - 1) % N <= (p - last - 1) % N
  BY DEF RunPos
<1>5. QED
  BY <1>1, <1>3, <1>4

\* The scan of scheduler_waitable_done starts at the process that unlocks.
LEMMA CloserLock ==
    ASSUME NEW c \in Pid, NEW h \in Pid, NEW p \in Pid, h # p, h # c,
           (h - c) % N <= (p - c) % N
    PROVE  (p - h) % N < (p - c) % N
<1>1. N \in Nat /\ c \in 0 .. N - 1 /\ h \in 0 .. N - 1 /\ p \in 0 .. N - 1
  BY SchedulerAssumption DEF Pid
<1>2. /\ h - c \in Int /\ -N <= h - c /\ h - c < N
      /\ p - c \in Int /\ -N <= p - c /\ p - c < N
      /\ p - h \in Int /\ -N <= p - h /\ p - h < N
  BY <1>1
<1>3. /\ (h - c) % N = IF h - c < 0 THEN h - c + N ELSE h - c
      /\ (p - c) % N = IF p - c < 0 THEN p - c + N ELSE p - c
      /\ (p - h) % N = IF p - h < 0 THEN p - h + N ELSE p - h
  BY <1>2, Wrapped
<1>4. QED
  BY <1>1, <1>3

-----------------------------------------------------------------------------
(* schedule_next *)

\* What SchedulerGoesRound says of one step.
RoundStep ==
    \A p \in Pid :
        (/\ pstate[p] = "runnable"
         /\ pstate'[p] = "runnable"
         /\ lastScheduled' # lastScheduled)
            => (p - lastScheduled' - 1) % N < (p - lastScheduled - 1) % N

\* The handlers take nobody off the run queue.
StillRunnable(ps) ==
    /\ ps \in [Pid -> ProcStates]
    /\ \A p \in Pid : pstate[p] = "runnable" => ps[p] = "runnable"

LEMMA ScheduleNextRound ==
    ASSUME KernelInv, NEW ps, StillRunnable(ps), NEW wt, ScheduleNext(ps, wt)
    PROVE  RoundStep
<1> SUFFICES ASSUME NEW p \in Pid, pstate[p] = "runnable", pstate'[p] = "runnable",
                    lastScheduled' # lastScheduled
             PROVE  (p - lastScheduled' - 1) % N < (p - lastScheduled - 1) % N
  BY DEF RoundStep
<1>1. PICK r \in Ready(ps, wt) :
         /\ \A q \in Ready(ps, wt) : RunPos(lastScheduled, r) <= RunPos(lastScheduled, q)
         /\ pstate' = [Preempted(ps) EXCEPT ![r] = "running"]
         /\ lastScheduled' = r
  BY DEF ScheduleNext, Idle
<1>2. Preempted(ps) \in [Pid -> ProcStates] /\ Preempted(ps)[p] = "runnable" /\ r \in Pid
  BY DEF Preempted, ProcStates, StillRunnable, Ready, KernelInv, TypeInv, TypeOK, ProcTypeOK
<1>3. p \in Ready(ps, wt) /\ r # p
  BY <1>1, <1>2 DEF Ready
<1>4. lastScheduled \in Pid \cup {NoPid}
  BY DEF KernelInv, TypeInv, TypeOK, ProcTypeOK
<1>5. QED
  BY <1>1, <1>2, <1>3, <1>4, CloserRun

LEMMA ReturnWithRound ==
    ASSUME KernelInv, NEW ps, StillRunnable(ps), NEW wt, NEW code, ReturnWith(code, ps, wt)
    PROVE  RoundStep
<1>1. CASE lastScheduled' = lastScheduled
  BY <1>1 DEF RoundStep
<1>2. CASE ScheduleNext(ps, wt)
  BY <1>2, ScheduleNextRound
<1>3. QED
  BY <1>1, <1>2 DEF ReturnWith, ScheduleNextIfNeeded

LEMMA WakeStillRunnable ==
    ASSUME NEW ps, StillRunnable(ps), NEW S
    PROVE  StillRunnable(Wake(ps, S))
  BY DEF StillRunnable, Wake, ProcStates

\* The caller, which runs, blocks or ends.
LEMMA CallerStillRunnable ==
    ASSUME KernelInv, FromProcess, NEW state \in ProcStates
    PROVE  StillRunnable([pstate EXCEPT ![current] = state])
  BY CallerSlot DEF StillRunnable, KernelInv, TypeInv, TypeOK, ProcTypeOK

LEMMA BlockRound ==
    ASSUME KernelInv, FromProcess, NEW wt, NEW code, ReturnWith(code, WaitForStates, wt)
    PROVE  RoundStep
<1>1. "waiting" \in ProcStates
  BY DEF ProcStates
<1>2. StillRunnable(WaitForStates)
  BY <1>1, CallerStillRunnable DEF WaitForStates
<1>3. QED
  BY <1>2, ReturnWithRound

LEMMA WakeRound ==
    ASSUME KernelInv, NEW S, NEW code, ReturnWith(code, Wake(pstate, S), waiting)
    PROVE  RoundStep
<1>1. StillRunnable(pstate)
  BY DEF StillRunnable, KernelInv, TypeInv, TypeOK, ProcTypeOK
<1>2. QED
  BY <1>1, WakeStillRunnable, ReturnWithRound

LEMMA RoundsStep == KernelInv /\ [Next]_vars => [RoundStep]_vars
<1> SUFFICES ASSUME KernelInv, Next PROVE RoundStep
  OBVIOUS
<1>1. CASE lastScheduled' = lastScheduled
  BY <1>1 DEF RoundStep
<1>2. ASSUME NEW code, Return(code) PROVE RoundStep
  BY <1>1, <1>2 DEF Return
<1>3. ASSUME NEW how, Halt(how) PROVE RoundStep
  BY <1>1, <1>3 DEF Halt
<1>4. StillRunnable(pstate)
  BY DEF StillRunnable, KernelInv, TypeInv, TypeOK, ProcTypeOK
<1>5. CASE MutexStep
  BY <1>2, <1>5, BlockRound, WakeRound, Zenon
  DEF MutexStep, LockingCreateMutex, LockingDestroyMutex, LockingLockMutex, LockHeldMutex,
      LockFreeMutex, LockingUnlockMutex
<1>6. CASE CondvarStep
  BY <1>2, <1>6, BlockRound, WakeRound, Zenon
  DEF CondvarStep, LockingCreateCondvar, LockingDestroyCondvar, LockingSignalCondvar,
      LockingWaitCondvar
<1>7. CASE MessageStep
  <2>1. ASSUME NEW arg, NEW pid, NEW size, IpcMqSend(arg, pid, size)
        PROVE  RoundStep
    <3>1. StillRunnable(WakeReaders(pstate, waiting, SendTarget(arg, pid)))
      BY <1>4, WakeStillRunnable DEF WakeReaders
    <3>2. \E code : ReturnWith(code, WakeReaders(pstate, waiting, SendTarget(arg, pid)), waiting)
      BY <2>1 DEF IpcMqSend
    <3>3. QED
      BY <3>1, <3>2, ReturnWithRound
  <2>2. QED
    BY <1>2, <1>7, <2>1, BlockRound, Zenon DEF MessageStep, IpcMqPoll
<1>8. CASE InterruptStep
  <2>1. ASSUME NEW S, ScheduleNext(Wake(pstate, S), waiting)
        PROVE  RoundStep
    BY <1>4, <2>1, WakeStillRunnable, ScheduleNextRound
  <2>2. QED
    BY <1>2, <1>3, <1>8, <2>1, Zenon
    DEF InterruptStep, HardwareInterrupt, HardwareInterruptNotify
<1>9. CASE SchedulerStep
  <2>1. ASSUME NEW how \in Dead, EndCurrent(how)
        PROVE  RoundStep
    <3> DEFINE ended == [pstate EXCEPT ![current] = how]
    <3>1. CASE Halt("memmove")
      BY <1>3, <3>1
    <3>2. ASSUME NEW heir, NEW target,
                 ReturnWith("none",
                     WakeReaders(Wake(ended, WokenHeirs(heir)), waiting, target), waiting)
          PROVE  RoundStep
      <4>1. FromProcess /\ how \in ProcStates
        BY <2>1 DEF EndCurrent, Dead, ProcStates
      <4>2. StillRunnable(ended)
        BY <4>1, CallerStillRunnable
      <4> HIDE DEF ended
      <4>3. StillRunnable(WakeReaders(Wake(ended, WokenHeirs(heir)), waiting, target))
        BY <4>2, WakeStillRunnable DEF WakeReaders
      <4>4. QED
        BY <3>2, <4>3, ReturnWithRound
    <3>3. QED
      BY <2>1, <3>1, <3>2 DEF EndCurrent
  <2>2. CASE SchedulerExit \/ UserspaceException
    BY <2>1, <2>2 DEF SchedulerExit, UserspaceException, Dead
  <2>3. CASE SchedulerClone
    BY <1>1, <1>3, <2>3 DEF SchedulerClone
  <2>4. CASE Tick \/ \E ns \in Naps : SchedulerSleep(ns)
    BY <1>1, <2>4, BlockRound DEF Tick, SchedulerSleep
  <2>5. QED
    BY <1>9, <2>2, <2>3, <2>4 DEF SchedulerStep
<1>10. QED
  BY <1>5, <1>6, <1>7, <1>8, <1>9 DEF Next

\* The scheduler goes round, for any number of slots: each time it picks a
\* process while p stays runnable, p comes closer in the scan, so at most
\* MAX_PROCS - 1 others run before it.
THEOREM NobodyIsPassedOver == Spec => SchedulerGoesRound
  BY RoundsStep, Invariance, PTL DEF Spec, SchedulerGoesRound, RoundStep

-----------------------------------------------------------------------------
(* scheduler_waitable_done *)

\* What LockGoesRound says of one step.
LockRoundStep ==
    \A p \in Pid, m \in MutexId :
        (/\ p \in Waiters(pstate, waiting, "mutex", m)
         /\ p \in Waiters(pstate, waiting, "mutex", m)'
         /\ holder'[m] # holder[m])
            => (p - holder'[m]) % N < (p - holder[m]) % N

\* Unlocking what the current process holds.
LEMMA UnlockRound ==
    ASSUME KernelInv, FromProcess, NEW R, \A m \in R : holder[m] = current,
           NEW ps, \A m \in MutexId : Waiters(ps, waiting, "mutex", m)
                                          = Waiters(pstate, waiting, "mutex", m),
           NEW heir \in Heirs, AreHeirs(heir, R, ps, waiting), Unlock(R, heir),
           \A m \in MutexId : Waiters(pstate', waiting', "mutex", m)
                                  = Waiters(pstate, waiting, "mutex", m) \ WokenHeirs(heir)
    PROVE  LockRoundStep
<1> SUFFICES ASSUME NEW p \in Pid, NEW m \in MutexId,
                    p \in Waiters(pstate, waiting, "mutex", m),
                    p \in Waiters(pstate', waiting', "mutex", m),
                    holder'[m] # holder[m]
             PROVE  (p - holder'[m]) % N < (p - holder[m]) % N
  BY DEF LockRoundStep
<1>1. m \in R /\ heir[m] # NoPid /\ holder'[m] = heir[m] /\ holder[m] = current
  BY DEF Unlock
<1>2. /\ heir[m] \in Waiters(pstate, waiting, "mutex", m)
      /\ ScanPos(heir[m]) <= ScanPos(p)
  BY <1>1 DEF AreHeirs, IsFirstWaiter
<1>3. heir[m] # p
  BY <1>1 DEF WokenHeirs
<1>4. current \in Pid /\ heir[m] \in Pid /\ heir[m] # current
  BY <1>2, CallerSlot DEF Waiters
<1>5. QED
  BY <1>1, <1>2, <1>3, <1>4, CloserLock DEF ScanPos

LEMMA LockRoundsStep == KernelInv /\ MutexInv /\ [Next]_vars => [LockRoundStep]_vars
<1> SUFFICES ASSUME KernelInv, MutexInv, Next PROVE LockRoundStep
  OBVIOUS
<1>1. CASE holder' = holder
  BY <1>1 DEF LockRoundStep
<1>2. CASE MutexStep
  <2>1. CASE LockingCreateMutex
    <3>1. \A m \in MutexId : m \in mutexes => holder'[m] = holder[m]
      BY <2>1 DEF LockingCreateMutex, MutexInv, KernelInv, TypeInv, TypeOK, MutexTypeOK, MutexId
    <3>2. QED
      BY <3>1 DEF LockRoundStep, MutexInv, MutexWaitersBlocked
  <2>2. ASSUME NEW m \in MutexId, LockingDestroyMutex(m)
        PROVE  LockRoundStep
    BY <1>1, <2>2 DEF LockingDestroyMutex, mutexVars
  <2>3. ASSUME NEW m \in MutexId, NEW trylock, LockingLockMutex(m, trylock)
        PROVE  LockRoundStep
    <3>1. CASE LockFreeMutex(m)
      <4>1. \A n \in MutexId : lockCount[n] > 0 => holder'[n] = holder[n]
        BY <3>1 DEF LockFreeMutex, KernelInv, TypeInv, TypeOK, MutexTypeOK
      <4>2. QED
        BY <4>1 DEF LockRoundStep, MutexInv, MutexWaitersBlocked
    <3>2. QED
      BY <1>1, <2>3, <3>1 DEF LockingLockMutex, LockHeldMutex, mutexVars
  <2>4. ASSUME NEW m \in MutexId, LockingUnlockMutex(m)
        PROVE  LockRoundStep
    <3>1. FromProcess
      BY <2>4 DEF LockingUnlockMutex
    <3>2. ASSUME holder[m] = current, NEW heir \in Heirs,
                 AreHeirs(heir, {m}, pstate, waiting), Unlock({m}, heir),
                 ReturnWith("0", Wake(pstate, WokenHeirs(heir)), waiting)
          PROVE  LockRoundStep
      <4>1. \A p \in WokenHeirs(heir) : p \in Pid /\ pstate[p] = "waiting"
        BY <3>2, HeirsWait
      <4>2. Handled(Wake(pstate, WokenHeirs(heir))) /\ waiting \in [Pid -> WaitRecord]
        BY <3>1, <4>1, SameHandled, CallerSlot, WakeHandled
      <4>3. \A n \in MutexId :
               Waiters(pstate', waiting', "mutex", n)
                 = Waiters(pstate, waiting, "mutex", n) \ WokenHeirs(heir)
        BY <3>1, <3>2, <4>2, ReturnWithWaiters, WakeWaiters
      <4>4. QED
        BY <3>1, <3>2, <4>3, UnlockRound
    <3>3. QED
      BY <1>1, <2>4, <3>2 DEF LockingUnlockMutex, mutexVars
  <2>5. QED
    BY <1>2, <2>1, <2>2, <2>3, <2>4 DEF MutexStep
<1>3. CASE CondvarStep \/ MessageStep \/ InterruptStep
  BY <1>1, <1>3 DEF CondvarStep, MessageStep, InterruptStep, mutexVars
<1>4. CASE SchedulerStep
  <2>1. ASSUME NEW how \in Dead, EndCurrent(how)
        PROVE  LockRoundStep
    <3> DEFINE ended == [pstate EXCEPT ![current] = how]
               freed == UnlockedForHolder(current)
    <3>1. FromProcess
      BY <2>1 DEF EndCurrent
    <3>2. ASSUME NEW heir \in Heirs, NEW target, AreHeirs(heir, freed, ended, waiting),
                 Unlock(freed, heir),
                 ReturnWith("none",
                     WakeReaders(Wake(ended, WokenHeirs(heir)), waiting, target), waiting)
          PROVE  LockRoundStep
      <4>1. \A m \in freed : holder[m] = current
        BY DEF UnlockedForHolder
      <4>2. \A m \in MutexId :
               /\ Waiters(ended, waiting, "mutex", m) = Waiters(pstate, waiting, "mutex", m)
               /\ Waiters(pstate', waiting', "mutex", m)
                    = Waiters(pstate, waiting, "mutex", m) \ WokenHeirs(heir)
        BY <3>1, <3>2, EndedWaiters, EndFrame
      <4> HIDE DEF ended, freed
      <4>3. QED
        BY <3>1, <3>2, <4>1, <4>2, UnlockRound
    <3>3. QED
      BY <1>1, <2>1, <3>2 DEF EndCurrent, mutexVars
  <2>2. CASE SchedulerExit \/ UserspaceException
    BY <2>1, <2>2 DEF SchedulerExit, UserspaceException, Dead
  <2>3. QED
    BY <1>1, <1>4, <2>2 DEF SchedulerStep, SchedulerClone, mutexVars
<1>5. QED
  BY <1>2, <1>3, <1>4 DEF Next

\* A mutex goes round, for any number of slots and mutexes: each time it
\* changes hands past a process that keeps waiting, that process comes closer
\* in the scan of scheduler_waitable_done.
THEOREM LocksGoRound == Spec => LockGoesRound
  BY LockRoundsStep, Invariance, LocksInvariance, PTL DEF Spec, LockGoesRound, LockRoundStep

=============================================================================
