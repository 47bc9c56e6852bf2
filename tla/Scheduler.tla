------------------------------ MODULE Scheduler ------------------------------
(****************************************************************************)
(* The process table and the round robin scheduler of the LF OS kernel      *)
(* (src/kernel/arch/amd64/scheduler.cpp).  There is one CPU and the kernel  *)
(* runs with interrupts off, so a system call, an exception or a hardware   *)
(* interrupt, together with the scheduling decision it ends with, is one    *)
(* step.  Handlers of the other components compute the process states `ps'  *)
(* and wait records `wt' they leave behind and hand both to                 *)
(* ScheduleNextIfNeeded or ScheduleNext, which assign the primed variables. *)
(****************************************************************************)
EXTENDS Integers, FiniteSets

CONSTANTS
    N,          \* MAX_PROCS, the slots of the process table (4096)
    Boot,       \* number of processes started by start_task at boot
    MaxClock,   \* bound: the clock stops here
    TimeWrap,   \* the clock and the deadlines are uint64_t: 2^64
    Naps,       \* the nanoseconds processes pass to sleep
    OobStates   \* what the memory just before processes[] may look like

Pid == 0 .. N - 1

\* INVALID_PID, (pid_t)-1.  MAX_PROCS divides 2^64, so (INVALID_PID + i) %
\* MAX_PROCS in the code is (-1 + i) % N here.
NoPid == -1

ProcStates == {"empty", "waiting", "runnable", "running", "exited", "killed"}

Dead == {"exited", "killed"}

Gone == {"empty", "exited", "killed"}

\* Where the model ends: setup_process panics without a free slot, or the code
\* runs into undefined behaviour - it uses processes[-1] as a process, it uses
\* interrupt_queues[16], or memmove runs away.
HaltCauses == {"no", "pids", "slot", "irq16", "memmove"}

WaitReasons == {"none", "mutex", "condvar", "message", "time"}

ASSUME SchedulerAssumption ==
    /\ N \in Nat \ {0}
    /\ Boot \in 1 .. N
    /\ MaxClock \in Nat
    /\ TimeWrap \in Nat \ {0}
    /\ Naps \subseteq Nat
    /\ OobStates \subseteq ProcStates \cup {"garbage"}

VARIABLES
    pstate,         \* processes[pid].state
    waiting,        \* processes[pid].waiting_for and .waiting_data
    parent,         \* processes[pid].parent
    pmq,            \* processes[pid].mq
    current,        \* scheduler_current_process
    lastScheduled,  \* the static local of schedule_next
    clock,          \* nanoseconds since boot, as the HPET counts them
    halted,         \* "no", or what brought the kernel down
    oob,            \* the state field of processes[-1]
    error           \* what the system call of this step returned, else "none"

procVars == <<parent, pmq, oob>>

-----------------------------------------------------------------------------
(* Waiting and waking *)

\* Where a process lies in the scan of scheduler_waitable_done, which starts
\* at the current process.
ScanPos(p) == (p - current) % N

\* Mutant: every scan starts at slot 0.
RunPosFromZero(last, p) == p

\* Where a process lies in the scan of schedule_next, which starts after the
\* process scheduled last.
RunPos(last, p) == (p - last - 1) % N

\* The processes blocked on an object.
Waiters(ps, wt, reason, data) ==
    {p \in Pid : ps[p] = "waiting" /\ wt[p] = [reason |-> reason, data |-> data]}

\* Process states after waking the processes in S.
Wake(ps, S) == [p \in Pid |-> IF p \in S THEN "runnable" ELSE ps[p]]

NoWait == [reason |-> "none", data |-> 0]

\* The wait records the code may still read: it leaves waiting_for and
\* waiting_data in the slot, but looks at them only in state waiting.
Relevant(ps, wt) == [p \in Pid |-> IF ps[p] = "waiting" THEN wt[p] ELSE NoWait]

\* scheduler_wait_for: what it writes into the slot of the current process.
WaitForStates == [pstate EXCEPT ![current] = "waiting"]

WaitForRecords(reason, data) ==
    [waiting EXCEPT ![current] = [reason |-> reason, data |-> data]]

-----------------------------------------------------------------------------
(* Choosing the next process *)

\* A sleeper whose deadline has come.  A deadline of 0 is a plain yield.
Expired(ps, wt, p) ==
    /\ ps[p] = "waiting"
    /\ wt[p].reason = "time"
    /\ wt[p].data <= clock

\* Mutant: the preempted process keeps the state running.
PreemptedForgotten(ps) == ps

Preempted(ps) ==
    IF current # NoPid /\ ps[current] = "running"
    THEN [ps EXCEPT ![current] = "runnable"]
    ELSE ps

\* The processes schedule_next may pick: it turns an expired sleeper into a
\* runnable process in the same scan.
Ready(ps, wt) ==
    {p \in Pid : Preempted(ps)[p] = "runnable" \/ Expired(Preempted(ps), wt, p)}

\* schedule_next found nothing: scheduler_idle_if_needed looks at the slot of
\* the current process, which is processes[-1] when the CPU already idles.
Idle(ps) ==
    /\ pstate' = Preempted(ps)
    /\ lastScheduled' = lastScheduled
    /\ IF current = NoPid /\ oob = "runnable"
       THEN halted' = "slot" /\ current' = current
       ELSE halted' = halted /\ current' = NoPid

ScheduleNext(ps, wt) ==
    /\ \/ \E p \in Ready(ps, wt) :
             /\ \A q \in Ready(ps, wt) :
                   RunPos(lastScheduled, p) <= RunPos(lastScheduled, q)
             /\ pstate' = [Preempted(ps) EXCEPT ![p] = "running"]
             /\ current' = p
             /\ lastScheduled' = p
             /\ halted' = halted
       \/ Ready(ps, wt) = {} /\ Idle(ps)
    /\ waiting' = Relevant(pstate', wt)

\* The end of syscall_handler and of a handled exception: the scheduler runs
\* only when the current process can no longer go on.
ScheduleNextIfNeeded(ps, wt) ==
    IF ps[current] \in {"runnable", "running"}
    THEN /\ pstate' = ps
         /\ waiting' = Relevant(ps, wt)
         /\ UNCHANGED <<current, lastScheduled, halted>>
    ELSE ScheduleNext(ps, wt)

\* A system call that changes no process and returns `code'.
Return(code) ==
    /\ error' = code
    /\ UNCHANGED <<pstate, waiting, current, lastScheduled, clock, halted>>
    /\ UNCHANGED procVars

\* A system call that returns `code' and leaves the processes as ps and wt.
ReturnWith(code, ps, wt) ==
    /\ error' = code
    /\ ScheduleNextIfNeeded(ps, wt)
    /\ UNCHANGED clock
    /\ UNCHANGED procVars

\* panic_message and undefined behaviour end the model.
Halt(how) ==
    /\ halted' = how
    /\ error' = "none"
    /\ UNCHANGED <<pstate, waiting, current, lastScheduled, clock>>
    /\ UNCHANGED procVars

\* System calls and exceptions come from the process that runs.
FromProcess == halted = "no" /\ current # NoPid

-----------------------------------------------------------------------------
(* System calls of the scheduler alone *)

\* sc_handle_scheduler_sleep.
Deadline(ns) == IF ns = 0 THEN 0 ELSE (clock + ns) % TimeWrap

SchedulerSleep(ns) ==
    /\ FromProcess
    /\ ReturnWith("none", WaitForStates, WaitForRecords("time", Deadline(ns)))

\* The HPET counts on.
Tick ==
    /\ halted = "no"
    /\ clock < MaxClock
    /\ clock' = clock + 1
    /\ error' = "none"
    /\ UNCHANGED <<pstate, waiting, current, lastScheduled, halted>>
    /\ UNCHANGED procVars

\* Mutant: the slot of an ended process is used again.
IsGonePid(p) ==
    /\ p \in Pid
    /\ pstate[p] \in Gone
    /\ \A q \in Pid : q < p => pstate[q] \notin Gone

\* The lowest free slot, as free_pid finds it.
IsFreePid(p) ==
    /\ p \in Pid
    /\ pstate[p] = "empty"
    /\ \A q \in Pid : q < p => pstate[q] # "empty"

NoFreePid == \A p \in Pid : pstate[p] # "empty"

\* init_scheduler, then one start_task per boot module.  mq_create hands out
\* the queue ids 1, 2, ... in the order the processes are set up.
SchedulerInit ==
    /\ pstate = [p \in Pid |-> IF p < Boot THEN "runnable" ELSE "empty"]
    /\ waiting = [p \in Pid |-> NoWait]
    /\ parent = [p \in Pid |-> IF p < Boot THEN NoPid ELSE 0]
    /\ pmq = [p \in Pid |-> IF p < Boot THEN p + 1 ELSE 0]
    /\ current = NoPid
    /\ lastScheduled = NoPid
    /\ clock = 0
    /\ halted = "no"
    /\ oob \in OobStates
    /\ error = "none"

=============================================================================
