----------------------------- MODULE MessageQueue ----------------------------
(****************************************************************************)
(* Message queues (src/kernel/mq.cpp) with the system calls mq_poll and     *)
(* mq_send (scheduler.cpp).  A queue is the sequence of its messages: the   *)
(* pages that hold them, and the limits no caller ever sets, are left out.  *)
(* A message is its type and its size.                                      *)
(****************************************************************************)
EXTENDS Scheduler, Sequences

CONSTANTS
    MaxItems,    \* bound: messages in one queue
    Sizes,       \* sizes of the messages processes send
    BufferSizes  \* sizes of the buffers processes poll with

\* Every process has one queue and slots are never reused, so there are never
\* more queue ids than slots.
QueueId == 1 .. N

KernelMsgSize == 1

MsgTypes == {"user", "signal", "interrupt"}

Message == [type : MsgTypes, size : Nat]

ASSUME MessageQueueAssumption ==
    MaxItems \in Nat /\ Sizes \subseteq Nat /\ BufferSizes \subseteq Nat

VARIABLES
    queues,    \* ids the TPA holds an entry for
    msgs,      \* messages in each queue, oldest first
    nextMq,    \* next_mq
    teardown   \* queues that notify interrupt_delall_queue when destroyed

mqVars == <<queues, msgs, nextMq, teardown>>

MessageQueueInit ==
    /\ queues = 1 .. Boot
    /\ msgs = [q \in QueueId |-> <<>>]
    /\ nextMq = Boot + 1
    /\ teardown = {}

-----------------------------------------------------------------------------
(* The operations of mq.cpp *)

MqCreate ==
    /\ queues' = queues \cup {nextMq}
    /\ nextMq' = nextMq + 1
    /\ UNCHANGED <<msgs, teardown>>

\* Mutant: the table keeps its entry.
MqForget(q, tbl) ==
    /\ msgs' = [tbl EXCEPT ![q] = <<>>]
    /\ UNCHANGED <<queues, nextMq, teardown>>

\* mq_destroy of a queue, when the queues hold tbl: its messages are freed.
\* Readers that wait on it are not woken.
MqDestroy(q, tbl) ==
    /\ msgs' = [tbl EXCEPT ![q] = <<>>]
    /\ queues' = queues \ {q}
    /\ teardown' = teardown \ {q}
    /\ UNCHANGED nextMq

HasRoom(q) == q \in queues => Len(msgs[q]) < MaxItems

\* The contents of the queues after mq_push; a queue that is gone is ENOENT.
Push(q, msg) ==
    IF q \in queues THEN [msgs EXCEPT ![q] = Append(@, msg)] ELSE msgs

\* Mutant: the amount 1 that mq_push passes is honoured.
WakeOneReader(ps, wt, q) ==
    LET readers == Waiters(ps, wt, "message", q)
    IN  IF q \in queues /\ readers # {}
        THEN Wake(ps, {CHOOSE p \in readers : \A r \in readers : ScanPos(p) <= ScanPos(r)})
        ELSE ps

\* scheduler_waitable_done at the end of mq_push wakes everyone who waits on
\* the queue, whatever the amount.
WakeReaders(ps, wt, q) ==
    IF q \in queues THEN Wake(ps, Waiters(ps, wt, "message", q)) ELSE ps

-----------------------------------------------------------------------------
(* System calls; queue 0 stands for the queue of the calling process *)

OwnIfZero(q) == IF q = 0 THEN pmq[current] ELSE q

\* Peek first, wait or fail on an empty queue, pop when the buffer is large
\* enough.
IpcMqPoll(arg, wait, bufsize) ==
    LET q == OwnIfZero(arg) IN
    /\ FromProcess
    /\ \/ /\ q \notin queues
          /\ Return("ENOENT")
          /\ UNCHANGED mqVars
       \/ /\ q \in queues
          /\ msgs[q] = <<>>
          /\ UNCHANGED mqVars
          /\ IF wait
             THEN ReturnWith("EAGAIN", WaitForStates, WaitForRecords("message", q))
             ELSE Return("ENOMSG")
       \/ /\ q \in queues
          /\ msgs[q] # <<>>
          /\ Head(msgs[q]).size > bufsize
          /\ Return("EMSGSIZE")
          /\ UNCHANGED mqVars
       \/ /\ q \in queues
          /\ msgs[q] # <<>>
          /\ Head(msgs[q]).size <= bufsize
          /\ msgs' = [msgs EXCEPT ![q] = Tail(@)]
          /\ UNCHANGED <<queues, nextMq, teardown>>
          /\ Return("0")

\* The queue mq_send addresses: an explicit one, that of a process (of a dead
\* one too, its id is still in the slot), the own one; 0 if there is none.
SendTarget(arg, pid) ==
    IF arg # 0 THEN arg
    ELSE IF pid = NoPid THEN pmq[current]
    ELSE IF pid \in Pid /\ pstate[pid] # "empty" THEN pmq[pid]
    ELSE 0

\* Without a target the handler never writes the error code.
IpcMqSend(arg, pid, size) ==
    LET q == SendTarget(arg, pid)
    IN
    /\ FromProcess
    /\ HasRoom(q)
    /\ UNCHANGED <<queues, nextMq, teardown>>
    /\ msgs' = Push(q, [type |-> "user", size |-> size])
    /\ ReturnWith(IF q = 0 THEN "garbage" ELSE IF q \in queues THEN "0" ELSE "ENOENT",
                  WakeReaders(pstate, waiting, q), waiting)

=============================================================================
