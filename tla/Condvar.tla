------------------------------- MODULE Condvar -------------------------------
(****************************************************************************)
(* Kernel condition variables (src/kernel/condvar.cpp) and the part of      *)
(* scheduler_waitable_done that wakes their waiters.                        *)
(****************************************************************************)
EXTENDS Scheduler

CONSTANTS
    MaxCondvars,   \* bound: condition variables ever created
    MaxWaits,      \* bound: waits counted on one condition variable
    Amounts        \* the amounts processes pass to signal_condvar

CondvarId == 1 .. MaxCondvars

ASSUME CondvarAssumption ==
    MaxCondvars \in Nat /\ MaxWaits \in Nat /\ Amounts \subseteq Nat

VARIABLES
    condvars,    \* ids the TPA holds an entry for
    waitCount,   \* condvar_data.wait_count
    nextCondvar  \* next_condvar

condvarVars == <<condvars, waitCount, nextCondvar>>

CondvarInit ==
    /\ condvars = {}
    /\ waitCount = [c \in CondvarId |-> 0]
    /\ nextCondvar = 1

-----------------------------------------------------------------------------

\* How many waiters the scan of scheduler_waitable_done meets before w.
WaiterRank(w, c) ==
    Cardinality({v \in Waiters(pstate, waiting, "condvar", c) : ScanPos(v) < ScanPos(w)})

\* The condition is `max_amount--': it is false only for the waiter that finds
\* the unsigned counter at 0; for the next one it has wrapped around.
Signalled(c, amount) ==
    {w \in Waiters(pstate, waiting, "condvar", c) : WaiterRank(w, c) # amount}

\* Mutant: a signal resets the count.
ResetCount(c, amount) == [waitCount EXCEPT ![c] = 0]

\* wait_count after a signal: "XXX: update wait_count".
CountAfterSignal(c, amount) == waitCount

-----------------------------------------------------------------------------
(* System calls *)

LockingCreateCondvar ==
    /\ FromProcess
    /\ nextCondvar <= MaxCondvars
    /\ condvars' = condvars \cup {nextCondvar}
    /\ waitCount' = [waitCount EXCEPT ![nextCondvar] = 0]
    /\ nextCondvar' = nextCondvar + 1
    /\ Return("0")

LockingDestroyCondvar(c) ==
    /\ FromProcess
    /\ \/ /\ c \notin condvars
          /\ Return("EINVAL")
          /\ UNCHANGED condvarVars
       \/ /\ c \in condvars
          /\ waitCount[c] > 0
          /\ Return("EBUSY")
          /\ UNCHANGED condvarVars
       \/ /\ c \in condvars
          /\ waitCount[c] = 0
          /\ condvars' = condvars \ {c}
          /\ Return("0")
          /\ UNCHANGED <<waitCount, nextCondvar>>

\* With wait_count = 0 the handler never writes the error code: the caller
\* reads whatever the register held.
LockingSignalCondvar(c, amount) ==
    /\ FromProcess
    /\ UNCHANGED <<condvars, nextCondvar>>
    /\ \/ c \notin condvars /\ Return("EINVAL") /\ UNCHANGED waitCount
       \/ /\ c \in condvars
          /\ waitCount[c] = 0
          /\ Return("garbage")
          /\ UNCHANGED waitCount
       \/ /\ c \in condvars
          /\ waitCount[c] > 0
          /\ waitCount' = CountAfterSignal(c, amount)
          /\ ReturnWith("0", Wake(pstate, Signalled(c, amount)), waiting)

LockingWaitCondvar(c) ==
    /\ FromProcess
    /\ \/ /\ c \notin condvars
          /\ Return("EINVAL")
          /\ UNCHANGED condvarVars
       \/ /\ c \in condvars
          /\ waitCount[c] < MaxWaits
          /\ waitCount' = [waitCount EXCEPT ![c] = @ + 1]
          /\ UNCHANGED <<condvars, nextCondvar>>
          /\ ReturnWith("0", WaitForStates, WaitForRecords("condvar", c))

=============================================================================
