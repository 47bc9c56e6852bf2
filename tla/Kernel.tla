-------------------------------- MODULE Kernel -------------------------------
(****************************************************************************)
(* The LF OS kernel as its processes see it: scheduler, mutexes, condition  *)
(* variables, message queues and interrupts composed, with the operations   *)
(* that touch all of them - a process ends, a process is cloned.            *)
(****************************************************************************)
EXTENDS Mutex, Condvar, Interrupts

vars == <<pstate, waiting, parent, pmq, current, lastScheduled, clock, halted,
          oob, error, mutexVars, condvarVars, mqVars, irqVars>>

Init ==
    /\ SchedulerInit
    /\ MutexInit
    /\ CondvarInit
    /\ MessageQueueInit
    /\ InterruptsInit

-----------------------------------------------------------------------------
(* The end of a process *)

SigchldMsg == [type |-> "signal", size |-> KernelMsgSize]

\* Mutant: a parent that waits is not told.
RunningParentOnly(pid) ==
    IF parent[pid] = NoPid \/ pstate[parent[pid]] \notin {"runnable", "running"}
    THEN {0} ELSE {pmq[parent[pid]]}

\* The queues scheduler_process_cleanup may send SIGCHLD to: that of a living
\* parent.  The check `parent >= 0' is always true, so for a process without
\* a parent it looks at processes[-1] and takes any queue id it finds there.
SigchldTargets(pid) ==
    IF parent[pid] = NoPid
    THEN IF oob \in Gone THEN {0} ELSE {0} \cup QueueId
    ELSE IF pstate[parent[pid]] \in Gone THEN {0} ELSE {pmq[parent[pid]]}

\* mq_destroy of a queue with the teardown notifier: interrupt_delall_queue.
TeardownRunsAway(q) == q \in teardown /\ \E i \in Irq : RemovalRunsAway(i, q)

TornDown(q) ==
    IF q \in teardown THEN [i \in Irq |-> WithoutQueue(i, q)] ELSE irqQueues

\* The current process ends as `how': scheduler_process_cleanup gives back its
\* mutexes, tells the parent and destroys the queue, then the scheduler runs.
EndCurrent(how) ==
    LET ended == [pstate EXCEPT ![current] = how]
        own == pmq[current]
        freed == UnlockedForHolder(current)
    IN
    /\ FromProcess
    /\ IF TeardownRunsAway(own)
       THEN Halt("memmove") /\ UNCHANGED <<mutexVars, mqVars, irqVars>>
       ELSE \E heir \in Heirs, target \in SigchldTargets(current) :
               /\ AreHeirs(heir, freed, ended, waiting)
               /\ HasRoom(target)
               /\ Unlock(freed, heir)
               /\ MqDestroy(own, Push(target, SigchldMsg))
               /\ irqQueues' = TornDown(own)
               /\ ReturnWith("none",
                     WakeReaders(Wake(ended, WokenHeirs(heir)), waiting, target),
                     waiting)
    /\ UNCHANGED condvarVars

SchedulerExit == EndCurrent("exited")

\* An exception in user space that is no page fault of the stack:
\* scheduler_kill_current.
UserspaceException == EndCurrent("killed")

-----------------------------------------------------------------------------
(* A new process *)

\* sc_handle_scheduler_clone with setup_process: the child is runnable, has a
\* queue of its own and the caller as parent.  Slots are never emptied again;
\* without a free one setup_process panics.
SchedulerClone ==
    /\ FromProcess
    /\ UNCHANGED <<mutexVars, condvarVars, irqVars>>
    /\ \/ /\ NoFreePid
          /\ Halt("pids")
          /\ UNCHANGED mqVars
       \/ \E pid \in Pid :
             /\ IsFreePid(pid)
             /\ parent' = [parent EXCEPT ![pid] = current]
             /\ pmq' = [pmq EXCEPT ![pid] = nextMq]
             /\ MqCreate
             /\ pstate' = [pstate EXCEPT ![pid] = "runnable"]
             /\ error' = "none"
             /\ UNCHANGED <<waiting, current, lastScheduled, clock, halted, oob>>

-----------------------------------------------------------------------------
(* All steps *)

SchedulerStep ==
    \/ /\ \/ \E ns \in Naps : SchedulerSleep(ns)
          \/ Tick
       /\ UNCHANGED <<mutexVars, condvarVars, mqVars, irqVars>>
    \/ SchedulerExit
    \/ UserspaceException
    \/ SchedulerClone

MutexStep ==
    /\ \/ LockingCreateMutex
       \/ \E m \in MutexId :
             \/ LockingDestroyMutex(m)
             \/ \E trylock \in BOOLEAN : LockingLockMutex(m, trylock)
             \/ LockingUnlockMutex(m)
    /\ UNCHANGED <<condvarVars, mqVars, irqVars>>

CondvarStep ==
    /\ \/ LockingCreateCondvar
       \/ \E c \in CondvarId :
             \/ LockingDestroyCondvar(c)
             \/ \E amount \in Amounts : LockingSignalCondvar(c, amount)
             \/ LockingWaitCondvar(c)
    /\ UNCHANGED <<mutexVars, mqVars, irqVars>>

MessageStep ==
    /\ \/ \E q \in {0} \cup QueueId, wait \in BOOLEAN, size \in BufferSizes :
             IpcMqPoll(q, wait, size)
       \/ \E pid \in Pid \cup {NoPid, N}, size \in Sizes : IpcMqSend(0, pid, size)
       \/ \E q \in QueueId, size \in Sizes : IpcMqSend(q, NoPid, size)
    /\ UNCHANGED <<mutexVars, condvarVars, irqVars>>

InterruptStep ==
    /\ \/ \E i \in Irq : HardwareInterrupt(i)
       \/ \E i \in 0 .. Irqs + 1, enable \in BOOLEAN, q \in {0} \cup QueueId :
             HardwareInterruptNotify(i, enable, q)
    /\ UNCHANGED <<mutexVars, condvarVars>>

Next == SchedulerStep \/ MutexStep \/ CondvarStep \/ MessageStep \/ InterruptStep

Spec == Init /\ [][Next]_vars

-----------------------------------------------------------------------------
(* Invariants *)

WaitRecord == [reason : WaitReasons, data : Nat]

ErrorCodes == {"none", "0", "garbage", "EINVAL", "EBUSY", "EPERM", "ENOENT",
               "ENOMSG", "EAGAIN", "EMSGSIZE"}

ProcTypeOK ==
    /\ pstate \in [Pid -> ProcStates]
    /\ waiting \in [Pid -> WaitRecord]
    /\ parent \in [Pid -> Pid \cup {NoPid}]
    /\ pmq \in [Pid -> {0} \cup QueueId]
    /\ current \in Pid \cup {NoPid}
    /\ lastScheduled \in Pid \cup {NoPid}
    /\ clock \in Nat
    /\ halted \in HaltCauses
    /\ oob \in OobStates
    /\ error \in ErrorCodes

MutexTypeOK ==
    /\ mutexes \subseteq MutexId
    /\ lockCount \in [MutexId -> Nat]
    /\ holder \in [MutexId -> Pid]
    /\ nextMutex \in Nat \ {0}

CondvarTypeOK ==
    /\ condvars \subseteq CondvarId
    /\ waitCount \in [CondvarId -> Nat]
    /\ nextCondvar \in Nat \ {0}

QueueTypeOK ==
    /\ queues \subseteq QueueId
    /\ msgs \in [QueueId -> Seq(Message)]
    /\ nextMq \in 1 .. N + 1
    /\ teardown \subseteq QueueId

IrqTypeOK == irqQueues \in [Irq -> Seq({0} \cup QueueId)]

\* The types of all tables: process slots, locks, condition variables, queues
\* and registrations hold what their declarations in the code allow.  In
\* particular clone never runs out of queue ids before it runs out of slots.
TypeOK == ProcTypeOK /\ MutexTypeOK /\ CondvarTypeOK /\ QueueTypeOK /\ IrqTypeOK

\* Exactly the current process is in state running: no handler leaves a
\* second running process behind, none lets the CPU return into a process
\* that waits or has ended, and with the CPU idle no process is running.
RunningIsCurrent == \A p \in Pid : pstate[p] = "running" <=> p = current

\* A process blocked in lock_mutex waits for a mutex that exists and that
\* another process holds: no unlock, destroy or process end leaves a waiter
\* behind on a mutex that is free, gone or its own, so mutex_lock's panic in
\* scheduler_waitable_done cannot happen.
MutexWaitersBlocked ==
    \A p \in Pid, m \in MutexId :
        p \in Waiters(pstate, waiting, "mutex", m)
            => m \in mutexes /\ lockCount[m] > 0 /\ holder[m] # p

\* destroy_condvar never strands a process: whoever waits on a condition
\* variable waits on one that exists and is counted in its wait_count.
CondvarWaitersCounted ==
    \A c \in CondvarId :
        LET blocked == Waiters(pstate, waiting, "condvar", c)
        IN  /\ blocked # {} => c \in condvars
            /\ Cardinality(blocked) <= waitCount[c]

\* Nobody sleeps on a queue that has a message: every push, by a process, an
\* interrupt or the end of a child, wakes the readers of the queue.
ReadersHaveNothing ==
    \A p \in Pid, q \in QueueId :
        p \in Waiters(pstate, waiting, "message", q) /\ q \in queues
            => msgs[q] = <<>>

\* The queues in the table are exactly those of the living processes, and no
\* two processes share one: what a process receives is lost with it and
\* nothing is delivered to a slot that has ended.
QueuesOfTheLiving ==
    /\ \A p \in Pid : pstate[p] \notin Gone => pmq[p] \in queues
    /\ \A q \in queues : \E p \in Pid : pstate[p] \notin Gone /\ pmq[p] = q
    /\ \A p, r \in Pid : p # r /\ pmq[p] # 0 => pmq[p] # pmq[r]

-----------------------------------------------------------------------------
(* Action properties *)

\* A process leaves lock_mutex only as the holder: whenever a waiter becomes
\* runnable again the mutex it asked for is its own, so the error code 0 that
\* was put in its registers when it blocked is true.
WokenWithLock ==
    [][\A p \in Pid, m \in MutexId :
          p \in Waiters(pstate, waiting, "mutex", m) /\ pstate'[p] # "waiting"
              => lockCount'[m] > 0 /\ holder'[m] = p]_vars

\* A mutex goes round: each time it changes hands past a process that keeps
\* waiting for it, that process comes closer in the scan order, so it waits
\* for less than MAX_PROCS owners.
LockGoesRound ==
    [][\A p \in Pid, m \in MutexId :
          (/\ p \in Waiters(pstate, waiting, "mutex", m)
           /\ p \in Waiters(pstate, waiting, "mutex", m)'
           /\ holder'[m] # holder[m])
              => (p - holder'[m]) % N < (p - holder[m]) % N]_vars

\* The scheduler goes round: each time it picks another process while p stays
\* runnable, p comes closer in the scan of schedule_next, whatever processes
\* wake up, are cloned or end meanwhile.
SchedulerGoesRound ==
    [][\A p \in Pid :
          (/\ pstate[p] = "runnable"
           /\ pstate'[p] = "runnable"
           /\ lastScheduled' # lastScheduled)
              => (p - lastScheduled' - 1) % N < (p - lastScheduled - 1) % N]_vars

\* The end of a process reaches its parent: a living parent, whatever it is
\* doing, finds one more SIGCHLD in its queue and does not stay blocked on it.
ParentIsTold ==
    [][\A p \in Pid :
          (/\ pstate[p] = "running"
           /\ pstate'[p] \in Dead
           /\ parent[p] # NoPid
           /\ pstate[parent[p]] \notin Gone)
              => LET q == pmq[parent[p]]
                 IN  /\ msgs'[q] = Append(msgs[q], SigchldMsg)
                     /\ parent[p] \notin Waiters(pstate, waiting, "message", q)']_vars

-----------------------------------------------------------------------------
(* The mutexes as locks *)

\* A mutex that is not locked has no owner, whatever its holder field says.
AbstractLocks ==
    INSTANCE Lock WITH
        Locks <- MutexId,
        Users <- Pid,
        Nobody <- NoPid,
        owner <- [m \in MutexId |-> IF lockCount[m] > 0 THEN holder[m] ELSE NoPid],
        depth <- lockCount,
        blocked <- [m \in MutexId |-> Waiters(pstate, waiting, "mutex", m)]

\* The mutexes implement locks that are handed over: whatever processes do,
\* end or are interrupted by, a mutex has one owner, only the owner gives it
\* back, a process that finds it taken blocks, and the last release passes it
\* on to a blocked process, in the same step in which that one is woken.
MutexIsLock == AbstractLocks!LockSpec

-----------------------------------------------------------------------------
(* Liveness *)

\* The timer keeps interrupting, also when the CPU idles: user code and the
\* idle loop run with interrupts enabled.
TimerInterrupt == HardwareInterrupt(0) /\ UNCHANGED <<mutexVars, condvarVars>>

FairSpec == Spec /\ WF_vars(TimerInterrupt)

\* Nobody starves: a process that can run, or whose sleep is over, gets the
\* CPU, whatever the others do.
EveryoneRuns ==
    \A p \in Pid :
        (pstate[p] = "runnable" \/ Expired(pstate, waiting, p))
            ~> (pstate[p] = "running" \/ halted # "no")

-----------------------------------------------------------------------------
(* Statements of the repository that the code does not meet *)

\* mutex_unlock_holder gives back what a dead process held: no mutex is locked
\* by a process that has ended.
DeadHoldNothing ==
    \A m \in mutexes : lockCount[m] > 0 => pstate[holder[m]] \notin Dead

\* signal_condvar unlocks at most `amount' processes: no step wakes more
\* waiters of a condition variable than the largest amount in use.
SignalWakesAtMostAmount ==
    [][\A c \in CondvarId :
          LET before == Waiters(pstate, waiting, "condvar", c)
              after == Waiters(pstate', waiting', "condvar", c)
          IN  Cardinality(before \ after) <= Max(Amounts)]_vars

\* A driver can cancel its interrupt notifications: removing a registration
\* does not overwrite kernel memory.
CancellingIsSafe == halted # "memmove"

=============================================================================
