--------------------------- MODULE ServiceDiscovery --------------------------
(****************************************************************************)
(* Services by UUID (src/kernel/sd.cpp): a linked list of entries with a    *)
(* shortcut per key, a hash of the UUID.  Processes register queues for a   *)
(* service and send to all of them; queues may be gone by then.             *)
(****************************************************************************)
EXTENDS Integers, Sequences, FiniteSets, FiniteSetsExt, SequencesExt

CONSTANTS
    Uuids,        \* services, ordered as uuid_cmp orders them
    UuidKey,      \* uuid_key: UUID -> key
    SdQueues,     \* queue ids
    MaxQueues,    \* length of sd_entry.queues
    MaxEntries    \* bound: entries of the list

ASSUME ServiceDiscoveryAssumption ==
    /\ Uuids \subseteq Nat
    /\ DOMAIN UuidKey = Uuids
    /\ MaxQueues \in Nat \ {0}
    /\ MaxEntries \in Nat

VARIABLES
    sdEntry,       \* the entries in the order of their allocation; never freed
    sdShortcut,    \* entry_shortcut, 0 is the null pointer
    sdTail,        \* tail; head is written and never read
    sdAlive,       \* queues that exist
    sdRegistered,  \* the reference: queues registered for each service
    sdAnswer,      \* result of the last call
    sdPanic        \* the kernel has followed a null pointer

sdVars == <<sdEntry, sdShortcut, sdTail, sdAlive, sdRegistered, sdAnswer, sdPanic>>

\* errno-defs.h; sd_send returns the negated code, or a count.
ENOENT == 2

ENOMEM == 12

SdKeys == {UuidKey[u] : u \in Uuids}

ServiceDiscoveryInit ==
    /\ sdEntry = <<>>
    /\ sdShortcut = [k \in SdKeys |-> 0]
    /\ sdTail = 0
    /\ sdAlive = SdQueues
    /\ sdRegistered = [u \in Uuids |-> <<>>]
    /\ sdAnswer = 0
    /\ sdPanic = FALSE

-----------------------------------------------------------------------------
(* Registering *)

NewSdEntry(u, q, prev, next) == [uuid |-> u, queues |-> <<q>>, prev |-> prev, next |-> next]

\* The first service with its key goes to the end of the list; its prev stays
\* null.
RegisterNewKey(u, q) ==
    LET linked == IF sdTail = 0 THEN sdEntry
                  ELSE [sdEntry EXCEPT ![sdTail].next = Len(sdEntry) + 1]
    IN  /\ sdEntry' = Append(linked, NewSdEntry(u, q, 0, 0))
        /\ sdTail' = Len(sdEntry) + 1
        /\ sdAnswer' = 0
        /\ UNCHANGED sdPanic

\* From entry e on, as long as the follower has the same key and a larger UUID.
WalkGreater(e, u) ==
    LET at[n \in 0 .. Len(sdEntry)] ==
            IF n = 0 THEN e
            ELSE LET next == sdEntry[at[n - 1]].next
                 IN  IF /\ next # 0
                        /\ UuidKey[sdEntry[next].uuid] = UuidKey[u]
                        /\ sdEntry[next].uuid > u
                     THEN next ELSE at[n - 1]
    IN  at[Len(sdEntry)]

\* Another service with the key of entry e: the new entry is put in front of
\* cur.  cur is null when the new UUID is larger and e has no predecessor.
RegisterCollision(u, q, e) ==
    LET cur == IF sdEntry[e].uuid < u THEN sdEntry[e].prev ELSE WalkGreater(e, u)
        new == Len(sdEntry) + 1
        before == sdEntry[cur].prev
        linked == [a \in DOMAIN sdEntry |->
                      IF a = cur THEN [sdEntry[a] EXCEPT !.prev = new]
                      ELSE IF a = before THEN [sdEntry[a] EXCEPT !.next = new]
                      ELSE sdEntry[a]]
    IN  IF cur = 0
        THEN sdPanic' = TRUE /\ UNCHANGED <<sdEntry, sdAnswer>>
        ELSE /\ sdEntry' = Append(linked, NewSdEntry(u, q, before, cur))
             /\ sdAnswer' = 0
             /\ UNCHANGED sdPanic

\* The service is known: its array of queues takes one more, twice the same
\* one too, until it is full.
RegisterKnown(u, q, e) ==
    LET full == Len(sdEntry[e].queues) >= MaxQueues
    IN  /\ sdEntry' = IF full THEN sdEntry ELSE [sdEntry EXCEPT ![e].queues = Append(@, q)]
        /\ sdAnswer' = IF full THEN ENOMEM ELSE 0
        /\ UNCHANGED sdPanic

\* Mutant: services with the same key are taken for the same service.
SameKey(e, u) == UuidKey[sdEntry[e].uuid] = UuidKey[u]

SameService(e, u) == sdEntry[e].uuid = u

\* sd_register.  The queue is not looked at: it may not exist.
SdRegister(u, q) ==
    LET key == UuidKey[u]
        e == sdShortcut[key]
        known == e # 0 /\ SameService(e, u)
    IN
    /\ ~sdPanic
    /\ Len(sdEntry) < MaxEntries \/ known
    /\ \/ e = 0 /\ RegisterNewKey(u, q)
       \/ known /\ RegisterKnown(u, q, e) /\ UNCHANGED sdTail
       \/ e # 0 /\ ~known /\ RegisterCollision(u, q, e) /\ UNCHANGED sdTail
    /\ sdShortcut' = IF known \/ sdPanic' THEN sdShortcut
                     ELSE [sdShortcut EXCEPT ![key] = Len(sdEntry) + 1]
    /\ sdRegistered' = IF sdAnswer' = 0 /\ ~sdPanic'
                       THEN [sdRegistered EXCEPT ![u] = Append(@, q)] ELSE sdRegistered
    /\ UNCHANGED sdAlive

-----------------------------------------------------------------------------
(* Sending *)

\* The loop of sd_send, from the shortcut along next; 0 if it falls off the end.
SdLookup(u) ==
    LET at[n \in 0 .. Len(sdEntry)] ==
            IF n = 0 THEN sdShortcut[UuidKey[u]]
            ELSE IF at[n - 1] = 0 \/ sdEntry[at[n - 1]].uuid = u THEN at[n - 1]
            ELSE sdEntry[at[n - 1]].next
    IN  at[Len(sdEntry)]

\* sd_send: mq_push to each queue, those that still exist are counted.
SdSend(u) ==
    LET e == SdLookup(u) IN
    /\ ~sdPanic
    /\ sdAnswer' = IF e = 0 THEN -ENOENT
                   ELSE Len(SelectSeq(sdEntry[e].queues, LAMBDA q : q \in sdAlive))
    /\ UNCHANGED <<sdEntry, sdShortcut, sdTail, sdAlive, sdRegistered, sdPanic>>

\* A process ends and its queue with it; its registrations stay.
SdQueueGone(q) ==
    /\ ~sdPanic
    /\ q \in sdAlive
    /\ sdAlive' = sdAlive \ {q}
    /\ UNCHANGED <<sdEntry, sdShortcut, sdTail, sdRegistered, sdAnswer, sdPanic>>

ServiceDiscoveryStep ==
    \/ \E u \in Uuids, q \in SdQueues : SdRegister(u, q)
    \/ \E u \in Uuids : SdSend(u)
    \/ \E q \in SdQueues : SdQueueGone(q)

-----------------------------------------------------------------------------
(* Properties *)

AloneWithKey(u) ==
    \A v \in Uuids : sdRegistered[v] # <<>> /\ UuidKey[v] = UuidKey[u] => v = u

SdFound(u) == IF SdLookup(u) = 0 THEN <<>> ELSE sdEntry[SdLookup(u)].queues

\* Services do not get each other's messages: a lookup ends, in the entry of
\* the very service, with queues that registered for it.  A service nobody
\* shares the key with is found with all its queues, in the order they were
\* registered, whatever services with colliding keys do to the list.
SdDelivers ==
    \A u \in Uuids :
        /\ SdLookup(u) # 0 => sdEntry[SdLookup(u)].uuid = u
        /\ Range(SdFound(u)) \subseteq Range(sdRegistered[u])
        /\ AloneWithKey(u) => SdFound(u) = sdRegistered[u]

=============================================================================
