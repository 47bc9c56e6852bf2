--------------------------------- MODULE Lock --------------------------------
(****************************************************************************)
(* What the mutexes promise: a lock has at most one owner, who may take it  *)
(* again and alone gives it back; whoever asks meanwhile blocks; the last   *)
(* release hands the lock over to a blocked process, so nobody overtakes.   *)
(* One process acts at a time, on several locks only when it ends.          *)
(****************************************************************************)
EXTENDS Integers

CONSTANTS
    Locks,
    Users,   \* who may take a lock
    Nobody   \* the owner of a free lock

VARIABLES
    owner,    \* who has each lock
    depth,    \* how often it has to be given back
    blocked   \* who waits for it

lockVars == <<owner, depth, blocked>>

LockInit ==
    /\ owner = [l \in Locks |-> Nobody]
    /\ depth = [l \in Locks |-> 0]
    /\ blocked = [l \in Locks |-> {}]

Stays(l) == owner'[l] = owner[l] /\ depth'[l] = depth[l] /\ blocked'[l] = blocked[l]

\* A lock that is free has nobody waiting.
Take(u, l) ==
    /\ owner[l] = u \/ (owner[l] = Nobody /\ blocked[l] = {})
    /\ owner'[l] = u
    /\ depth'[l] = depth[l] + 1
    /\ blocked'[l] = blocked[l]

Block(u, l) ==
    /\ owner[l] \notin {Nobody, u}
    /\ u \notin blocked[l]
    /\ owner'[l] = owner[l]
    /\ depth'[l] = depth[l]
    /\ blocked'[l] = blocked[l] \cup {u}

\* A nested lock is given back once.
Leave(u, l) ==
    /\ owner[l] = u
    /\ depth[l] > 1
    /\ owner'[l] = u
    /\ depth'[l] = depth[l] - 1
    /\ blocked'[l] = blocked[l]

Free(u, l) ==
    /\ owner[l] = u
    /\ depth[l] = 1
    /\ blocked[l] = {}
    /\ owner'[l] = Nobody
    /\ depth'[l] = 0
    /\ blocked'[l] = {}

HandOver(u, l) ==
    /\ owner[l] = u
    /\ depth[l] = 1
    /\ owner'[l] \in blocked[l]
    /\ depth'[l] = 1
    /\ blocked'[l] = blocked[l] \ {owner'[l]}

LockNext ==
    \E u \in Users : \A l \in Locks :
        \/ Stays(l)
        \/ Take(u, l)
        \/ Block(u, l)
        \/ Leave(u, l)
        \/ Free(u, l)
        \/ HandOver(u, l)

LockSpec == LockInit /\ [][LockNext]_lockVars

=============================================================================
