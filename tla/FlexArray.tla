------------------------------ MODULE FlexArray ------------------------------
(****************************************************************************)
(* Growing arrays (src/kernel/flexarray.cpp), which hold the registrations  *)
(* of interrupts and the teardown notifiers of message queues.  Removal is  *)
(* in Interrupts: it ends in the loop of memmove.  prepend has no caller.   *)
(****************************************************************************)
EXTENDS Integers, Sequences, SequencesExt

CONSTANTS
    FlexValues,   \* members
    InitialAlloc, \* members the first allocation holds, 8 by default
    FlexFraction, \* growth is alloc / fraction, at least 1; 16 in the code (alloc >> 4)
    MaxFlex       \* bound: members

ASSUME FlexAssumption ==
    /\ InitialAlloc \in Nat \ {0}
    /\ FlexFraction \in Nat \ {0}
    /\ MaxFlex \in Nat
    /\ 0 \notin FlexValues

VARIABLES
    flexData,   \* the allocated members; 0 is memory never written
    flexCount,  \* count
    flexRef     \* the reference: what was appended and set

flexVars == <<flexData, flexCount, flexRef>>

Blank(n) == [i \in 1 .. n |-> 0]

\* new_flexarray
FlexInit ==
    /\ flexData = Blank(InitialAlloc)
    /\ flexCount = 0
    /\ flexRef = <<>>

\* Mutant: the new memory is filled from one member further on.
GrownShifted ==
    LET alloc == Len(flexData)
        grow == alloc \div FlexFraction
    IN  Tail(flexData) \o Blank(1 + IF grow = 0 THEN 1 ELSE grow)

\* flexarray_grow: a larger block, the old one copied to its start.
FlexGrow ==
    LET alloc == Len(flexData)
        grow == alloc \div FlexFraction
    IN  flexData \o Blank(IF grow = 0 THEN 1 ELSE grow)

FlexAppend(v) ==
    LET data == IF flexCount >= Len(flexData) THEN FlexGrow ELSE flexData
    IN  /\ flexCount < MaxFlex
        /\ flexData' = [data EXCEPT ![flexCount + 1] = v]
        /\ flexCount' = flexCount + 1
        /\ flexRef' = Append(flexRef, v)

\* flexarray_set; an index that is not in use is ignored.
FlexSet(i, v) ==
    /\ UNCHANGED flexCount
    /\ IF i >= flexCount
       THEN UNCHANGED <<flexData, flexRef>>
       ELSE /\ flexData' = [flexData EXCEPT ![i + 1] = v]
            /\ flexRef' = [flexRef EXCEPT ![i + 1] = v]

\* flexarray_get
FlexGet(i) == IF i >= flexCount THEN 0 ELSE flexData[i + 1]

\* flexarray_find: the first member that compares equal, -1 if there is none.
FlexFind(v) ==
    LET pos == SelectInSeq(SubSeq(flexData, 1, flexCount), LAMBDA x : x = v) IN pos - 1

FlexStep ==
    \/ \E v \in FlexValues : FlexAppend(v)
    \/ \E i \in 0 .. MaxFlex, v \in FlexValues : FlexSet(i, v)

\* Growing keeps every member in its place: get and find answer as the
\* reference does, however often the array was reallocated, and no count
\* exceeds the allocation.
FlexKeepsMembers ==
    /\ flexCount <= Len(flexData)
    /\ \A i \in 0 .. MaxFlex :
          FlexGet(i) = IF i + 1 \in DOMAIN flexRef THEN flexRef[i + 1] ELSE 0
    /\ \A v \in FlexValues :
          FlexFind(v) = IF Contains(flexRef, v)
                        THEN (CHOOSE k \in DOMAIN flexRef :
                                 flexRef[k] = v /\ \A j \in 1 .. k - 1 : flexRef[j] # v) - 1
                        ELSE -1

=============================================================================
