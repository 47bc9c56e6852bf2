----------------------------- MODULE Interrupts ------------------------------
(****************************************************************************)
(* Delivery of hardware interrupts to message queues                        *)
(* (src/kernel/arch/amd64/sc.cpp): per interrupt a flexarray of queue ids,  *)
(* a message pushed to each of them, then a scheduling decision.            *)
(****************************************************************************)
EXTENDS MessageQueue, SequencesExt

CONSTANTS
    Irqs,             \* length of interrupt_queues (16); 0 is the timer
    MaxRegistrations  \* bound: registrations of one interrupt

Irq == 0 .. Irqs - 1

ASSUME InterruptsAssumption == Irqs \in Nat \ {0} /\ MaxRegistrations \in Nat

VARIABLES
    irqQueues    \* interrupt_queues: the queue ids registered per interrupt

irqVars == <<irqQueues>>

InterruptsInit == irqQueues = [i \in Irq |-> <<>>]

-----------------------------------------------------------------------------
(* Registrations *)

Registered(i, q) == \E k \in 1 .. Len(irqQueues[i]) : irqQueues[i][k] = q

\* flexarray_find then flexarray_remove.  Removing the last entry drops it.
\* Before any other entry memmove is called with the destination above the
\* source, and its loop, which counts a size_t down to `>= 0', never ends: it
\* overwrites everything below the array.
RemovalRunsAway(i, q) ==
    /\ Registered(i, q)
    /\ \A k \in 1 .. Len(irqQueues[i]) :
          (irqQueues[i][k] = q /\ \A j \in 1 .. k - 1 : irqQueues[i][j] # q)
              => k < Len(irqQueues[i])

WithoutQueue(i, q) == IF Registered(i, q) THEN Front(irqQueues[i]) ELSE irqQueues[i]

\* interrupt_add_queue appends, and asks the queue to call
\* interrupt_delall_queue when it is destroyed.  A queue that does not exist is
\* logged and registered all the same.
Added(i, q) == [irqQueues EXCEPT ![i] = Append(@, q)]

Armed(q) == IF q \in queues THEN teardown \cup {q} ELSE teardown

\* sc_handle_hardware_interrupt_notify.  The check is `interrupt > 16', so the
\* first index behind the array passes it and the memory there is taken for an
\* array, or overwritten.
HardwareInterruptNotify(i, enable, arg) ==
    LET q == OwnIfZero(arg) IN
    /\ FromProcess
    /\ \/ /\ i > Irqs
          /\ Return("ENOENT")
          /\ UNCHANGED <<mqVars, irqVars>>
       \/ /\ i = Irqs
          /\ Halt("irq16") \/ Return("0")
          /\ teardown' = IF enable THEN Armed(q) ELSE teardown
          /\ UNCHANGED <<queues, msgs, nextMq, irqVars>>
       \/ /\ i \in Irq
          /\ enable
          /\ Len(irqQueues[i]) < MaxRegistrations
          /\ irqQueues' = Added(i, q)
          /\ teardown' = Armed(q)
          /\ UNCHANGED <<queues, msgs, nextMq>>
          /\ Return("0")
       \/ /\ i \in Irq
          /\ ~enable
          /\ ~RemovalRunsAway(i, q)
          /\ irqQueues' = [irqQueues EXCEPT ![i] = WithoutQueue(i, q)]
          /\ UNCHANGED mqVars
          /\ Return("0")
       \/ /\ i \in Irq
          /\ ~enable
          /\ RemovalRunsAway(i, q)
          /\ Halt("memmove")
          /\ UNCHANGED <<mqVars, irqVars>>

-----------------------------------------------------------------------------
(* Interrupts *)

\* How often the loop over the registrations pushes to queue q.
Copies(i, q) == Cardinality({k \in 1 .. Len(irqQueues[i]) : irqQueues[i][k] = q})

InterruptMsg == [type |-> "interrupt", size |-> KernelMsgSize]

\* Mutant: only the readers of the first registered queue are woken.
FirstReaders(i) ==
    IF irqQueues[i] = <<>> \/ Head(irqQueues[i]) \notin queues
    THEN {} ELSE Waiters(pstate, waiting, "message", Head(irqQueues[i]))

\* The processes the pushes to the registered queues wake.
InterruptReaders(i) ==
    {p \in Pid : \E q \in queues :
        Registered(i, q) /\ p \in Waiters(pstate, waiting, "message", q)}

\* A hardware interrupt arrives, in a process or while the CPU idles.  While
\* it idles, scheduler_process_save looks at processes[-1] and may store the
\* CPU state over whatever lies there.
HardwareInterrupt(i) ==
    /\ halted = "no"
    /\ i \in Irq
    /\ \/ /\ current = NoPid
          /\ oob \in {"running", "waiting"}
          /\ Halt("slot")
          /\ UNCHANGED <<mqVars, irqVars>>
       \/ /\ ~(current = NoPid /\ oob \in {"running", "waiting"})
          /\ \A q \in queues : Len(msgs[q]) + Copies(i, q) <= MaxItems
          /\ msgs' = [q \in QueueId |->
                 IF q \in queues
                 THEN msgs[q] \o [k \in 1 .. Copies(i, q) |-> InterruptMsg]
                 ELSE msgs[q]]
          /\ ScheduleNext(Wake(pstate, InterruptReaders(i)), waiting)
          /\ error' = "none"
          /\ UNCHANGED <<clock, procVars, queues, nextMq, teardown, irqVars>>

=============================================================================
