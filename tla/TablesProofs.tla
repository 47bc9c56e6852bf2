----------------------------- MODULE TablesProofs ----------------------------
(****************************************************************************)
(* Proofs about the kernel's tables.                                        *)
(****************************************************************************)
EXTENDS Tables, TLAPS, WellFoundedInduction

tableVars == <<table, tpaVars, pagedVars, sdVars, flexVars>>

-----------------------------------------------------------------------------
(* Induction over numbers: as sets, since the provers do not instantiate    *)
(* the predicates of the library's induction theorems                       *)

LEMMA LeastNumber ==
    ASSUME NEW T \in SUBSET Nat, T # {}
    PROVE  \E n \in T : \A m \in T : n <= m
<1> DEFINE less == {ss \in Nat \X Nat : ss[1] < ss[2]}
<1>1. IsWellFoundedOn(less, Nat)
    BY NatLessThanWellFounded DEF OpToRel
<1>2. PICK n \in T : \A m \in T : <<m, n>> \notin less
    <2> HIDE DEF less
    <2> QED BY <1>1, WFMin
<1>3. \A m \in T : n <= m
    <2> SUFFICES ASSUME NEW m \in T PROVE n <= m
        OBVIOUS
    <2>1. <<m, n>> \in Nat \X Nat /\ <<m, n>>[1] = m /\ <<m, n>>[2] = n
        OBVIOUS
    <2> QED BY <1>2, <2>1
<1> QED BY <1>3

LEMMA NumberInduction ==
    ASSUME NEW S \in SUBSET Nat, 0 \in S, \A n \in S : n + 1 \in S
    PROVE  S = Nat
<1> SUFFICES ASSUME Nat \ S # {} PROVE FALSE
    OBVIOUS
<1>1. PICK n \in Nat \ S : \A m \in Nat \ S : n <= m
    BY LeastNumber
<1> QED BY <1>1

\* The least member, of a set of numbers that has any.
LEMMA MinIs ==
    ASSUME NEW T \in SUBSET Nat, T # {}
    PROVE  Min(T) \in T /\ \A m \in T : Min(T) <= m
<1>1. \E n \in T : \A m \in T : n <= m
    BY LeastNumber
<1> QED BY <1>1 DEF Min

\* A function defined by what it is at 0 and how it goes on.
LEMMA Recursion ==
    ASSUME NEW S, NEW a \in S, NEW G \in [S -> S], NEW N \in Nat
    PROVE  \E f \in [0 .. N -> S] : f[0] = a /\ \A n \in 1 .. N : f[n] = G[f[n - 1]]
<1> DEFINE Is(f, k) == f \in [0 .. k -> S] /\ f[0] = a /\ \A n \in 1 .. k : f[n] = G[f[n - 1]]
           T == {k \in Nat : \E f : Is(f, k)}
<1>1. 0 \in T
    <2>1. Is([n \in 0 .. 0 |-> a], 0)
        OBVIOUS
    <2> QED BY <2>1
<1>2. ASSUME NEW k \in T PROVE k + 1 \in T
    <2>1. PICK f : Is(f, k)
        OBVIOUS
    <2> DEFINE g == [n \in 0 .. k + 1 |-> IF n = k + 1 THEN G[f[k]] ELSE f[n]]
    <2>2. k \in Nat /\ k \in 0 .. k /\ \A n \in 0 .. k + 1 : n = k + 1 \/ n \in 0 .. k
        OBVIOUS
    <2>3. f[k] \in S /\ G[f[k]] \in S
        BY <2>1, <2>2
    <2>4. g \in [0 .. k + 1 -> S]
        BY <2>1, <2>2, <2>3
    <2>5. g[0] = a
        BY <2>1, <2>2
    <2>6. ASSUME NEW n \in 1 .. k + 1 PROVE g[n] = G[g[n - 1]]
        <3>1. CASE n = k + 1
            <4>1. n - 1 = k /\ k \in 0 .. k + 1 /\ k # k + 1 /\ n \in 0 .. k + 1
                BY <2>2, <3>1
            <4> QED BY <3>1, <4>1
        <3>2. CASE n \in 1 .. k
            <4>1. n \in 0 .. k + 1 /\ n # k + 1 /\ n - 1 \in 0 .. k + 1 /\ n - 1 # k + 1
                BY <2>2, <3>2
            <4>2. g[n] = f[n] /\ g[n - 1] = f[n - 1]
                BY <4>1
            <4> QED BY <2>1, <3>2, <4>2
        <3> QED BY <2>2, <3>1, <3>2
    <2>7. Is(g, k + 1)
        BY <2>4, <2>5, <2>6
    <2> HIDE DEF Is, g
    <2>8. k + 1 \in Nat
        BY <2>2
    <2> QED BY <2>7, <2>8
<1> HIDE DEF T
<1>3. T = Nat
    <2>1. T \in SUBSET Nat
        BY DEF T
    <2> QED BY <1>1, <1>2, <2>1, NumberInduction
<1> QED BY <1>3 DEF T

-----------------------------------------------------------------------------
(* The array *)

\* The members in use are at the start of the allocated memory.
FlexInv ==
    /\ flexRef \in Seq(FlexValues)
    /\ flexData \in Seq(FlexValues \cup {0})
    /\ flexCount = Len(flexRef)
    /\ flexCount <= Len(flexData)
    /\ \A i \in 1 .. flexCount : flexData[i] = flexRef[i]

LEMMA BlankIs ==
    ASSUME NEW n \in Nat
    PROVE  Blank(n) \in Seq(FlexValues \cup {0}) /\ Len(Blank(n)) = n
BY DEF Blank

\* Growing makes room for one more and moves nothing.
LEMMA GrowKeeps ==
    ASSUME FlexInv
    PROVE  /\ FlexGrow \in Seq(FlexValues \cup {0})
           /\ Len(FlexGrow) > Len(flexData)
           /\ \A i \in 1 .. Len(flexData) : FlexGrow[i] = flexData[i]
<1> DEFINE grow == Len(flexData) \div FlexFraction
           more == IF grow = 0 THEN 1 ELSE grow
<1>1. grow \in Nat
    BY FlexAssumption DEF FlexInv
<1> HIDE DEF grow
<1>2. more \in Nat /\ more > 0
    BY <1>1
<1> HIDE DEF more
<1>3. FlexGrow = flexData \o Blank(more)
    BY DEF FlexGrow, grow, more
<1>4. Blank(more) \in Seq(FlexValues \cup {0}) /\ Len(Blank(more)) = more
    BY <1>2, BlankIs
<1>5. flexData \in Seq(FlexValues \cup {0})
    BY DEF FlexInv
<1> QED BY <1>2, <1>3, <1>4, <1>5

LEMMA FlexStepInv == FlexInv /\ FlexStep => FlexInv'
<1> SUFFICES ASSUME FlexInv, FlexStep PROVE FlexInv'
    OBVIOUS
<1>1. ASSUME NEW v \in FlexValues, FlexAppend(v) PROVE FlexInv'
    <2> DEFINE data == IF flexCount >= Len(flexData) THEN FlexGrow ELSE flexData
    <2>1. /\ data \in Seq(FlexValues \cup {0})
          /\ flexCount < Len(data)
          /\ \A i \in 1 .. flexCount : data[i] = flexRef[i]
        BY GrowKeeps DEF FlexInv
    <2>2. /\ flexData' = [data EXCEPT ![flexCount + 1] = v]
          /\ flexCount' = flexCount + 1
          /\ flexRef' = Append(flexRef, v)
        BY <1>1 DEF FlexAppend
    <2> HIDE DEF data
    <2> QED BY <2>1, <2>2 DEF FlexInv
<1>2. ASSUME NEW i \in 0 .. MaxFlex, NEW v \in FlexValues, FlexSet(i, v) PROVE FlexInv'
    BY <1>2 DEF FlexInv, FlexSet
<1> QED BY <1>1, <1>2 DEF FlexStep

LEMMA FlexAlways == TablesSpec => []FlexInv
<1>1. TablesInit => FlexInv
    BY BlankIs, FlexAssumption DEF TablesInit, FlexInit, FlexInv
<1>2. FlexInv /\ [TablesNext]_tableVars => FlexInv'
    <2> SUFFICES ASSUME FlexInv, [TablesNext]_tableVars PROVE FlexInv'
        OBVIOUS
    <2>1. FlexStep \/ UNCHANGED flexVars
        BY DEF TablesNext, tableVars
    <2>2. CASE UNCHANGED flexVars
        BY <2>2 DEF flexVars, FlexInv
    <2> QED BY <2>1, <2>2, FlexStepInv
<1> QED BY <1>1, <1>2, PTL DEF TablesSpec, tableVars

LEMMA FlexAnswers == FlexInv => FlexKeepsMembers
<1> SUFFICES ASSUME FlexInv PROVE FlexKeepsMembers
    OBVIOUS
<1>1. \A i \in 0 .. MaxFlex :
          FlexGet(i) = IF i + 1 \in DOMAIN flexRef THEN flexRef[i + 1] ELSE 0
    BY DEF FlexInv, FlexGet
<1>2. ASSUME NEW v \in FlexValues
      PROVE  FlexFind(v) = IF Contains(flexRef, v)
                           THEN (CHOOSE k \in DOMAIN flexRef :
                                    flexRef[k] = v /\ \A j \in 1 .. k - 1 : flexRef[j] # v) - 1
                           ELSE -1
    <2> DEFINE used == SubSeq(flexData, 1, flexCount)
               hits == {i \in 1 .. Len(used) : used[i] = v}
               IsFirst(k) == flexRef[k] = v /\ \A j \in 1 .. k - 1 : flexRef[j] # v
    <2>1. used = flexRef
        BY DEF FlexInv
    <2>2. FlexFind(v) = (IF hits # {} THEN Min(hits) ELSE 0) - 1
        BY DEF FlexFind, SelectInSeq
    <2>3. hits \in SUBSET Nat /\ hits = {i \in DOMAIN flexRef : flexRef[i] = v}
        BY <2>1 DEF FlexInv
    <2> HIDE DEF used, hits
    <2>4. Contains(flexRef, v) <=> hits # {}
        BY <2>3 DEF Contains, FlexInv
    <2>5. ASSUME hits # {} PROVE Min(hits) = CHOOSE k \in DOMAIN flexRef : IsFirst(k)
        <3>1. Min(hits) \in hits /\ \A m \in hits : Min(hits) <= m
            BY <2>3, <2>5, MinIs
        <3> DEFINE first == Min(hits)
        <3> HIDE DEF first
        <3>2. DOMAIN flexRef = 1 .. Len(flexRef) /\ Len(flexRef) \in Nat
            BY DEF FlexInv
        <3>3. first \in DOMAIN flexRef /\ IsFirst(first)
            <4>1. first \in hits /\ \A m \in hits : first <= m
                BY <3>1 DEF first
            <4>2. first \in DOMAIN flexRef /\ flexRef[first] = v
                BY <2>3, <4>1
            <4>3. ASSUME NEW j \in 1 .. first - 1, flexRef[j] = v PROVE FALSE
                <5>1. j \in hits /\ j < first
                    BY <2>3, <3>2, <4>2, <4>3
                <5> QED BY <3>2, <4>1, <4>2, <5>1
            <4> QED BY <4>2, <4>3
        <3>4. ASSUME NEW k \in DOMAIN flexRef, IsFirst(k) PROVE k = first
            <4>1. k \in hits /\ first <= k
                BY <2>3, <3>1, <3>4 DEF first
            <4>2. ~(first < k)
                BY <3>2, <3>3, <3>4
            <4> QED BY <3>2, <3>3, <4>1, <4>2
        <3> HIDE DEF IsFirst
        <3>5. (CHOOSE k \in DOMAIN flexRef : IsFirst(k)) = first
            BY <3>3, <3>4
        <3> QED BY <3>5 DEF first
    <2>6. CASE hits # {}
        <3>1. FlexFind(v) = Min(hits) - 1
            BY <2>2, <2>6
        <3>2. Contains(flexRef, v)
            BY <2>4, <2>6
        <3> QED BY <2>5, <2>6, <3>1, <3>2, Zenon
    <2>7. CASE hits = {}
        BY <2>2, <2>4, <2>7
    <2> QED BY <2>6, <2>7
<1> QED BY <1>1, <1>2 DEF FlexKeepsMembers, FlexInv

\* However often an array was reallocated, get and find answer as if it had
\* never moved: for any members, first allocation and growth.
THEOREM ArraysKeepMembers == TablesSpec => []FlexKeepsMembers
BY FlexAlways, FlexAnswers, PTL

-----------------------------------------------------------------------------
(* Services *)

SdEntryType == [uuid : Uuids, queues : Seq(SdQueues), prev : Nat, next : Nat]

SdTypeOK ==
    /\ sdEntry \in Seq(SdEntryType)
    /\ sdShortcut \in [SdKeys -> {0} \cup DOMAIN sdEntry]
    /\ sdTail \in {0} \cup DOMAIN sdEntry
    /\ sdRegistered \in [Uuids -> Seq(SdQueues)]

\* Going back and forth again ends where it started, though not every entry
\* can be gone back from; nothing is behind the tail.
SdLinks ==
    /\ \A e \in DOMAIN sdEntry :
          /\ sdEntry[e].next \in {0} \cup DOMAIN sdEntry
          /\ sdEntry[e].prev \in {0} \cup DOMAIN sdEntry
          /\ sdEntry[e].prev # 0 => sdEntry[sdEntry[e].prev].next = e
    /\ sdTail # 0 => sdEntry[sdTail].next = 0

\* There is no way along next that comes back: entries can be ranked.
Ranks(rank) ==
    /\ rank \in [DOMAIN sdEntry -> DOMAIN sdEntry]
    /\ \A e \in DOMAIN sdEntry : sdEntry[e].next # 0 => rank[e] < rank[sdEntry[e].next]

SdRanked == \E rank : Ranks(rank)

SdShortcuts ==
    /\ \A e \in DOMAIN sdEntry : sdShortcut[UuidKey[sdEntry[e].uuid]] # 0
    /\ \A k \in SdKeys : sdShortcut[k] # 0 => UuidKey[sdEntry[sdShortcut[k]].uuid] = k

SdReference ==
    /\ \A e \in DOMAIN sdEntry :
          /\ Range(sdEntry[e].queues) \subseteq Range(sdRegistered[sdEntry[e].uuid])
          /\ sdRegistered[sdEntry[e].uuid] # <<>>
    /\ \A u \in Uuids : sdRegistered[u] # <<>> => sdShortcut[UuidKey[u]] # 0

\* A service alone with its key has one entry, the one the shortcut leads to.
SdAlone ==
    \A u \in Uuids : AloneWithKey(u) /\ sdRegistered[u] # <<>> =>
        /\ sdEntry[sdShortcut[UuidKey[u]]].uuid = u
        /\ sdEntry[sdShortcut[UuidKey[u]]].queues = sdRegistered[u]

SdInv == SdTypeOK /\ SdLinks /\ SdRanked /\ SdShortcuts /\ SdReference /\ SdAlone

LEMMA EntryIs ==
    ASSUME SdTypeOK, NEW e \in DOMAIN sdEntry
    PROVE  /\ sdEntry[e] \in SdEntryType /\ sdEntry[e].uuid \in Uuids
           /\ sdEntry[e].queues \in Seq(SdQueues)
           /\ UuidKey[sdEntry[e].uuid] \in SdKeys
<1>1. sdEntry[e] \in SdEntryType
    BY DEF SdTypeOK
<1>2. sdEntry[e].uuid \in Uuids /\ sdEntry[e].queues \in Seq(SdQueues)
    BY <1>1 DEF SdEntryType
<1> QED BY <1>1, <1>2 DEF SdKeys

\* The loop of sd_send stops, at the service or behind the last entry.
LEMMA LookupStops ==
    ASSUME SdTypeOK, SdLinks, SdRanked, NEW u \in Uuids
    PROVE  /\ SdLookup(u) \in {0} \cup DOMAIN sdEntry
           /\ SdLookup(u) # 0 => sdEntry[SdLookup(u)].uuid = u
           /\ sdShortcut[UuidKey[u]] = 0 => SdLookup(u) = 0
           /\ sdShortcut[UuidKey[u]] # 0 /\ sdEntry[sdShortcut[UuidKey[u]]].uuid = u
                 => SdLookup(u) = sdShortcut[UuidKey[u]]
<1> DEFINE N == Len(sdEntry)
           S == {0} \cup DOMAIN sdEntry
           start == sdShortcut[UuidKey[u]]
           Done(x) == x = 0 \/ sdEntry[x].uuid = u
           Step(x) == IF x = 0 \/ sdEntry[x].uuid = u THEN x ELSE sdEntry[x].next
           G == [x \in S |-> Step(x)]
           IsAt(f) == f = [n \in 0 .. N |-> IF n = 0 THEN start
                              ELSE IF f[n - 1] = 0 \/ sdEntry[f[n - 1]].uuid = u THEN f[n - 1]
                              ELSE sdEntry[f[n - 1]].next]
           at[n \in 0 .. N] ==
               IF n = 0 THEN start
               ELSE IF at[n - 1] = 0 \/ sdEntry[at[n - 1]].uuid = u THEN at[n - 1]
               ELSE sdEntry[at[n - 1]].next
<1>1. N \in Nat /\ DOMAIN sdEntry = 1 .. N
    BY DEF SdTypeOK
<1>2. start \in S
    BY DEF SdTypeOK, SdKeys
<1>3. \A x \in S : Step(x) \in S
    BY DEF SdLinks
<1>4. G \in [S -> S]
    BY <1>3
<1>5. SdLookup(u) = at[N]
    BY DEF SdLookup
<1> HIDE DEF S, start
<1>6. PICK f \in [0 .. N -> S] : f[0] = start /\ \A n \in 1 .. N : f[n] = G[f[n - 1]]
    <2>1. start \in S /\ N \in Nat /\ G \in [S -> S]
        BY <1>1, <1>2, <1>4
    <2> HIDE DEF G, N
    <2> QED BY ONLY <2>1, Recursion, SMTT(30)
<1>7. IsAt(f)
    <2>1. f = [n \in 0 .. N |-> f[n]]
        OBVIOUS
    <2>2. ASSUME NEW n \in 0 .. N
          PROVE  f[n] = IF n = 0 THEN start ELSE Step(f[n - 1])
        <3>1. CASE n = 0
            BY <1>6, <3>1
        <3>2. CASE n # 0
            <4>1. n \in 1 .. N /\ n - 1 \in 0 .. N
                BY <1>1, <3>2
            <4>2. f[n - 1] \in S
                BY <4>1
            <4>3. G[f[n - 1]] = Step(f[n - 1])
                BY <4>2
            <4> QED BY <1>6, <3>2, <4>1, <4>3
        <3> QED BY <3>1, <3>2
    <2> QED BY <2>1, <2>2
<1>8. IsAt(at)
    <2>1. at = CHOOSE g : IsAt(g)
        OBVIOUS
    <2> HIDE DEF IsAt, at
    <2> QED BY <1>7, <2>1
<1>9. at[0] = start /\ \A n \in 1 .. N : at[n] = Step(at[n - 1])
    <2>1. 0 \in 0 .. N /\ \A n \in 1 .. N : n \in 0 .. N /\ n # 0
        BY <1>1
    <2> HIDE DEF at, N
    <2> QED BY <1>8, <2>1
<1> HIDE DEF at
<1>10. PICK rank : Ranks(rank)
    BY DEF SdRanked
<1> DEFINE Good(n) == /\ at[n] \in S
                      /\ Done(at[n]) \/ (rank[at[n]] \in Nat /\ rank[at[n]] >= n + 1)
                      /\ Done(start) => at[n] = start
           T == {n \in Nat : n <= N => Good(n)}
<1>11. \A x \in S : ~Done(x) => x \in DOMAIN sdEntry /\ rank[x] \in 1 .. N
                                /\ (Step(x) # 0 => rank[x] < rank[Step(x)] /\ Step(x) \in DOMAIN sdEntry)
    BY <1>1, <1>10 DEF Ranks, S, SdLinks
<1>12. 0 \in T
    <2>1. ~Done(start) => rank[start] \in 1 .. N
        BY <1>2, <1>11
    <2> QED BY <1>1, <1>2, <1>9, <2>1
<1>13. ASSUME NEW n \in T PROVE n + 1 \in T
    <2>1. n \in Nat
        OBVIOUS
    <2>2. CASE n + 1 <= N
        <3>1. Good(n) /\ n + 1 \in 1 .. N /\ (n + 1) - 1 = n
            BY <1>1, <2>1, <2>2
        <3>2. at[n + 1] = Step(at[n])
            BY <1>9, <3>1
        <3>3. CASE Done(at[n])
            BY <3>1, <3>2, <3>3
        <3>4. CASE ~Done(at[n])
            <4>1. at[n + 1] \in S
                BY <1>3, <3>1, <3>2
            <4>2. ~Done(start)
                BY <3>1, <3>4
            <4>3. at[n + 1] # 0 => rank[at[n]] < rank[at[n + 1]] /\ rank[at[n + 1]] \in Nat
                <5>1. at[n] \in S
                    BY <3>1
                <5>2. Step(at[n]) # 0 => rank[at[n]] < rank[Step(at[n])] /\ Step(at[n]) \in DOMAIN sdEntry
                    BY <1>11, <3>4, <5>1
                <5>3. \A x \in DOMAIN sdEntry : rank[x] \in Nat
                    BY <1>1, <1>10 DEF Ranks
                <5> QED BY <3>2, <5>2, <5>3
            <4>4. rank[at[n]] \in Nat /\ rank[at[n]] >= n + 1
                BY <3>1, <3>4
            <4> QED BY <2>1, <4>1, <4>2, <4>3, <4>4
        <3> QED BY <3>3, <3>4
    <2>3. CASE ~(n + 1 <= N)
        BY <2>1, <2>3
    <2> QED BY <2>2, <2>3
<1> HIDE DEF T
<1>14. T = Nat
    <2>1. T \in SUBSET Nat
        BY DEF T
    <2> QED BY <1>12, <1>13, <2>1, NumberInduction
<1>15. Good(N)
    <2>1. N \in T /\ N <= N
        BY <1>1, <1>14
    <2> HIDE DEF Good
    <2> QED BY <2>1 DEF T
<1>16. Done(at[N])
    <2> SUFFICES ASSUME ~Done(at[N]) PROVE FALSE
        OBVIOUS
    <2>1. rank[at[N]] \in 1 .. N
        BY <1>11, <1>15
    <2> QED BY <1>1, <1>15, <2>1
<1> QED BY <1>5, <1>15, <1>16 DEF S, start

LEMMA SdAnswers == SdInv => SdDelivers
<1> SUFFICES ASSUME SdInv, NEW u \in Uuids
             PROVE  /\ SdLookup(u) # 0 => sdEntry[SdLookup(u)].uuid = u
                    /\ Range(SdFound(u)) \subseteq Range(sdRegistered[u])
                    /\ AloneWithKey(u) => SdFound(u) = sdRegistered[u]
    BY DEF SdDelivers
<1>1. /\ SdLookup(u) \in {0} \cup DOMAIN sdEntry
      /\ SdLookup(u) # 0 => sdEntry[SdLookup(u)].uuid = u
      /\ sdShortcut[UuidKey[u]] = 0 => SdLookup(u) = 0
      /\ sdShortcut[UuidKey[u]] # 0 /\ sdEntry[sdShortcut[UuidKey[u]]].uuid = u
            => SdLookup(u) = sdShortcut[UuidKey[u]]
    BY LookupStops DEF SdInv
<1>2. CASE SdLookup(u) = 0
    <2>1. SdFound(u) = <<>>
        BY <1>2 DEF SdFound
    <2>2. Range(SdFound(u)) = {}
        BY <2>1 DEF Range
    <2>3. AloneWithKey(u) => sdRegistered[u] = <<>>
        BY <1>1, <1>2 DEF SdInv, SdAlone, SdReference
    <2> QED BY <1>2, <2>1, <2>2, <2>3
<1>3. CASE SdLookup(u) # 0
    <2> DEFINE e == SdLookup(u)
    <2>1. SdFound(u) = sdEntry[e].queues /\ e \in DOMAIN sdEntry /\ sdEntry[e].uuid = u
        BY <1>1, <1>3 DEF SdFound
    <2> HIDE DEF e
    <2>2. Range(SdFound(u)) \subseteq Range(sdRegistered[u]) /\ sdRegistered[u] # <<>>
        BY <2>1 DEF SdInv, SdReference
    <2>3. AloneWithKey(u) => SdFound(u) = sdRegistered[u]
        <3> SUFFICES ASSUME AloneWithKey(u) PROVE SdFound(u) = sdRegistered[u]
            OBVIOUS
        <3>1. /\ sdEntry[sdShortcut[UuidKey[u]]].uuid = u
              /\ sdEntry[sdShortcut[UuidKey[u]]].queues = sdRegistered[u]
            BY <2>2 DEF SdInv, SdAlone
        <3>2. e = sdShortcut[UuidKey[u]]
            BY <1>1, <1>3, <3>1 DEF e
        <3> QED BY <2>1, <3>1, <3>2
    <2> QED BY <1>1, <2>2, <2>3
<1> QED BY <1>2, <1>3

LEMMA WalkStays ==
    ASSUME SdTypeOK, SdLinks, NEW e \in DOMAIN sdEntry, NEW u
    PROVE  WalkGreater(e, u) \in DOMAIN sdEntry
<1> DEFINE N == Len(sdEntry)
           S == DOMAIN sdEntry
           Step(x) == LET next == sdEntry[x].next
                      IN  IF /\ next # 0
                             /\ UuidKey[sdEntry[next].uuid] = UuidKey[u]
                             /\ sdEntry[next].uuid > u
                          THEN next ELSE x
           G == [x \in S |-> Step(x)]
           IsAt(f) == f = [n \in 0 .. N |-> IF n = 0 THEN e
                              ELSE LET next == sdEntry[f[n - 1]].next
                                   IN  IF /\ next # 0
                                          /\ UuidKey[sdEntry[next].uuid] = UuidKey[u]
                                          /\ sdEntry[next].uuid > u
                                       THEN next ELSE f[n - 1]]
           at[n \in 0 .. N] ==
               IF n = 0 THEN e
               ELSE LET next == sdEntry[at[n - 1]].next
                    IN  IF /\ next # 0
                           /\ UuidKey[sdEntry[next].uuid] = UuidKey[u]
                           /\ sdEntry[next].uuid > u
                        THEN next ELSE at[n - 1]
<1>1. N \in Nat
    BY DEF SdTypeOK
<1>2. \A x \in S : Step(x) \in S
    BY DEF SdLinks
<1>3. G \in [S -> S]
    BY <1>2
<1>4. WalkGreater(e, u) = at[N]
    BY DEF WalkGreater
<1>5. PICK f \in [0 .. N -> S] : f[0] = e /\ \A n \in 1 .. N : f[n] = G[f[n - 1]]
    <2>1. e \in S /\ N \in Nat /\ G \in [S -> S]
        BY <1>1, <1>3
    <2> HIDE DEF G, N, S
    <2> QED BY ONLY <2>1, Recursion, SMTT(30)
<1>6. IsAt(f)
    <2>1. f = [n \in 0 .. N |-> f[n]]
        OBVIOUS
    <2>2. ASSUME NEW n \in 0 .. N
          PROVE  f[n] = IF n = 0 THEN e ELSE Step(f[n - 1])
        <3>1. CASE n = 0
            BY <1>5, <3>1
        <3>2. CASE n # 0
            <4>1. n \in 1 .. N /\ n - 1 \in 0 .. N
                BY <1>1, <3>2
            <4>2. f[n - 1] \in S
                BY <4>1
            <4>3. G[f[n - 1]] = Step(f[n - 1])
                BY <4>2, SMTT(30)
            <4> QED BY <1>5, <3>2, <4>1, <4>3
        <3> QED BY <3>1, <3>2
    <2> QED BY <2>1, <2>2
<1>7. IsAt(at)
    <2>1. at = CHOOSE g : IsAt(g)
        OBVIOUS
    <2> HIDE DEF IsAt, at
    <2> QED BY <1>6, <2>1
<1>8. at[0] = e /\ \A n \in 1 .. N : at[n] = Step(at[n - 1])
    <2>1. 0 \in 0 .. N /\ \A n \in 1 .. N : n \in 0 .. N /\ n # 0
        BY <1>1
    <2> HIDE DEF at, N
    <2> QED BY <1>7, <2>1
<1> HIDE DEF at, N, Step
<1> DEFINE T == {n \in Nat : n <= N => at[n] \in S}
<1>9. 0 \in T
    BY <1>8
<1>10. ASSUME NEW n \in T PROVE n + 1 \in T
    <2>1. n \in Nat
        OBVIOUS
    <2>2. CASE n + 1 <= N
        <3>1. n + 1 \in 1 .. N /\ (n + 1) - 1 = n /\ n <= N
            BY <1>1, <2>1, <2>2
        <3>2. at[n + 1] = Step(at[n]) /\ at[n] \in S
            BY <1>8, <3>1
        <3> QED BY <1>2, <2>1, <3>2
    <2> QED BY <2>1, <2>2
<1> HIDE DEF T, S
<1>11. T = Nat
    <2>1. T \in SUBSET Nat
        BY DEF T
    <2> QED BY <1>9, <1>10, <2>1, NumberInduction
<1> QED BY <1>1, <1>4, <1>11 DEF T, S

LEMMA RangeAppend ==
    ASSUME NEW X, NEW s \in Seq(X), NEW x \in X
    PROVE  Range(Append(s, x)) = Range(s) \cup {x}
<1>1. DOMAIN Append(s, x) = 1 .. Len(s) + 1 /\ DOMAIN s = 1 .. Len(s) /\ Len(s) \in Nat
    OBVIOUS
<1>2. Append(s, x)[Len(s) + 1] = x /\ \A n \in 1 .. Len(s) : Append(s, x)[n] = s[n]
    OBVIOUS
<1>3. \A n \in 1 .. Len(s) + 1 : n = Len(s) + 1 \/ n \in 1 .. Len(s)
    BY <1>1
<1>4. Len(s) + 1 \in 1 .. Len(s) + 1 /\ \A n \in 1 .. Len(s) : n \in 1 .. Len(s) + 1
    BY <1>1
<1>5. \A y \in Range(Append(s, x)) : y \in Range(s) \cup {x}
    BY <1>1, <1>2, <1>3 DEF Range
<1>6. \A y \in Range(s) \cup {x} : y \in Range(Append(s, x))
    BY <1>1, <1>2, <1>4 DEF Range
<1> QED BY <1>5, <1>6

\* What an entry more means for the services and their keys, wherever it goes
\* in the list.
LEMMA EntryAdded ==
    ASSUME SdTypeOK, SdShortcuts, SdReference, SdAlone,
           NEW u \in Uuids, NEW q \in SdQueues, NEW new, new = Len(sdEntry) + 1,
           DOMAIN sdEntry' = DOMAIN sdEntry \cup {new},
           \A a \in DOMAIN sdEntry :
              sdEntry'[a].uuid = sdEntry[a].uuid /\ sdEntry'[a].queues = sdEntry[a].queues,
           sdEntry'[new].uuid = u, sdEntry'[new].queues = <<q>>,
           sdShortcut' = [sdShortcut EXCEPT ![UuidKey[u]] = new],
           sdRegistered' = [sdRegistered EXCEPT ![u] = Append(sdRegistered[u], q)],
           sdShortcut[UuidKey[u]] = 0 \/ sdEntry[sdShortcut[UuidKey[u]]].uuid # u
    PROVE  SdShortcuts' /\ SdReference' /\ SdAlone'
<1>1. /\ sdShortcut \in [SdKeys -> {0} \cup DOMAIN sdEntry] /\ UuidKey[u] \in SdKeys
      /\ sdRegistered \in [Uuids -> Seq(SdQueues)] /\ new # 0 /\ new \notin DOMAIN sdEntry
    BY DEF SdTypeOK, SdKeys
<1>2. /\ sdShortcut'[UuidKey[u]] = new
      /\ \A k \in SdKeys : k # UuidKey[u] => sdShortcut'[k] = sdShortcut[k]
    BY <1>1
<1>3. /\ sdRegistered'[u] = Append(sdRegistered[u], q) /\ sdRegistered'[u] # <<>>
      /\ \A v \in Uuids : v # u => sdRegistered'[v] = sdRegistered[v]
    <2>1. Append(sdRegistered[u], q) # <<>>
        BY <1>1
    <2> QED BY <1>1, <2>1
<1>4. Range(sdRegistered'[u]) = Range(sdRegistered[u]) \cup {q}
    BY <1>1, <1>3, RangeAppend
<1>5. \A e \in DOMAIN sdEntry : sdEntry[e].uuid \in Uuids /\ UuidKey[sdEntry[e].uuid] \in SdKeys
    BY EntryIs
<1>6. SdShortcuts'
    <2>1. \A e \in DOMAIN sdEntry' : sdShortcut'[UuidKey[sdEntry'[e].uuid]] # 0
        BY <1>1, <1>2, <1>5 DEF SdShortcuts
    <2>2. \A k \in SdKeys : sdShortcut'[k] # 0 => UuidKey[sdEntry'[sdShortcut'[k]].uuid] = k
        BY <1>1, <1>2 DEF SdShortcuts
    <2>3. SdKeys' = SdKeys
        BY DEF SdKeys
    <2> QED BY <2>1, <2>2, <2>3 DEF SdShortcuts
<1>7. SdReference'
    <2>1. Range(<<q>>) = {q}
        BY DEF Range
    <2>2. ASSUME NEW e \in DOMAIN sdEntry'
          PROVE  /\ Range(sdEntry'[e].queues) \subseteq Range(sdRegistered'[sdEntry'[e].uuid])
                 /\ sdRegistered'[sdEntry'[e].uuid] # <<>>
        <3>1. CASE e = new
            BY <1>3, <1>4, <2>1, <3>1
        <3>2. CASE e \in DOMAIN sdEntry
            <4>1. /\ Range(sdEntry[e].queues) \subseteq Range(sdRegistered[sdEntry[e].uuid])
                  /\ sdRegistered[sdEntry[e].uuid] # <<>>
                BY <3>2 DEF SdReference
            <4>2. CASE sdEntry[e].uuid = u
                BY <1>3, <1>4, <3>2, <4>1, <4>2
            <4>3. CASE sdEntry[e].uuid # u
                BY <1>3, <1>5, <3>2, <4>1, <4>3
            <4> QED BY <4>2, <4>3
        <3> QED BY <3>1, <3>2
    <2>3. ASSUME NEW v \in Uuids, sdRegistered'[v] # <<>> PROVE sdShortcut'[UuidKey[v]] # 0
        <3>1. UuidKey[v] \in SdKeys
            BY DEF SdKeys
        <3>2. CASE UuidKey[v] = UuidKey[u]
            BY <1>1, <1>2, <3>2
        <3>3. CASE UuidKey[v] # UuidKey[u]
            BY <1>2, <1>3, <2>3, <3>1, <3>3 DEF SdReference
        <3> QED BY <3>2, <3>3
    <2> QED BY <2>2, <2>3 DEF SdReference
<1>8. SdAlone'
    <2> SUFFICES ASSUME NEW v \in Uuids, AloneWithKey(v)', sdRegistered'[v] # <<>>
                 PROVE  /\ sdEntry'[sdShortcut'[UuidKey[v]]].uuid = v
                        /\ sdEntry'[sdShortcut'[UuidKey[v]]].queues = sdRegistered'[v]
        BY DEF SdAlone
    <2>0. UuidKey[v] \in SdKeys
        BY DEF SdKeys
    <2>1. \A w \in Uuids : sdRegistered'[w] # <<>> /\ UuidKey[w] = UuidKey[v] => w = v
        BY DEF AloneWithKey
    <2>2. CASE UuidKey[v] = UuidKey[u]
        <3>1. u = v
            BY <1>3, <2>1, <2>2
        <3>2. sdShortcut[UuidKey[u]] = 0
            <4> SUFFICES ASSUME sdShortcut[UuidKey[u]] # 0, sdEntry[sdShortcut[UuidKey[u]]].uuid # u
                         PROVE  FALSE
                OBVIOUS
            <4> DEFINE w == sdEntry[sdShortcut[UuidKey[u]]].uuid
            <4>1. sdShortcut[UuidKey[u]] \in DOMAIN sdEntry
                BY <1>1
            <4>2. w \in Uuids /\ UuidKey[w] = UuidKey[u] /\ sdRegistered[w] # <<>>
                BY <1>1, <1>5, <4>1 DEF SdShortcuts, SdReference
            <4> QED BY <1>3, <2>1, <3>1, <4>2
        <3>3. sdRegistered[u] = <<>>
            BY <3>2 DEF SdReference
        <3>4. sdRegistered'[u] = <<q>>
            BY <1>3, <3>3
        <3> QED BY <1>2, <3>1, <3>4
    <2>3. CASE UuidKey[v] # UuidKey[u]
        <3>1. v # u /\ sdRegistered'[v] = sdRegistered[v] /\ sdShortcut'[UuidKey[v]] = sdShortcut[UuidKey[v]]
            BY <1>2, <1>3, <2>0, <2>3
        <3>2. AloneWithKey(v)
            BY <1>3, <2>1, <2>3 DEF AloneWithKey
        <3>3. /\ sdEntry[sdShortcut[UuidKey[v]]].uuid = v
              /\ sdEntry[sdShortcut[UuidKey[v]]].queues = sdRegistered[v]
            BY <3>1, <3>2 DEF SdAlone
        <3>4. sdShortcut[UuidKey[v]] \in DOMAIN sdEntry
            BY <1>1, <2>0, <3>1 DEF SdReference
        <3> QED BY <3>1, <3>3, <3>4
    <2> QED BY <2>2, <2>3
<1> QED BY <1>6, <1>7, <1>8

LEMMA AppendIs ==
    ASSUME NEW X, NEW s \in Seq(X), NEW x \in X, NEW n, n = Len(s) + 1
    PROVE  /\ Append(s, x) \in Seq(X) /\ DOMAIN Append(s, x) = DOMAIN s \cup {n}
           /\ Append(s, x)[n] = x /\ \A i \in DOMAIN s : Append(s, x)[i] = s[i]
    OBVIOUS

\* An entry at the end of the list.
LEMMA NewKeyInv ==
    ASSUME SdInv, NEW u \in Uuids, NEW q \in SdQueues,
           sdShortcut[UuidKey[u]] = 0, RegisterNewKey(u, q),
           sdShortcut' = [sdShortcut EXCEPT ![UuidKey[u]] = Len(sdEntry) + 1],
           sdRegistered' = [sdRegistered EXCEPT ![u] = Append(sdRegistered[u], q)]
    PROVE  SdInv'
<1> DEFINE S == DOMAIN sdEntry
           new == Len(sdEntry) + 1
           linked == IF sdTail = 0 THEN sdEntry
                     ELSE [sdEntry EXCEPT ![sdTail].next = new]
           last == NewSdEntry(u, q, 0, 0)
<1>1. /\ sdEntry \in Seq(SdEntryType) /\ S = 1 .. Len(sdEntry) /\ Len(sdEntry) \in Nat
      /\ new \in Nat /\ new # 0 /\ new \notin S /\ sdTail \in {0} \cup S
    BY DEF SdInv, SdTypeOK
<1>2. last \in SdEntryType /\ last.uuid = u /\ last.queues = <<q>> /\ last.prev = 0 /\ last.next = 0
    BY DEF NewSdEntry, SdEntryType
<1>3. \A a \in S : sdEntry[a] \in SdEntryType
    BY <1>1
<1>4. linked \in Seq(SdEntryType) /\ Len(linked) = Len(sdEntry) /\ DOMAIN linked = S
    <2>1. CASE sdTail = 0
        BY <1>1, <2>1
    <2>2. CASE sdTail # 0
        <3>1. sdTail \in S /\ [sdEntry[sdTail] EXCEPT !.next = new] \in SdEntryType
            BY <1>1, <1>3, <2>2 DEF SdEntryType
        <3>2. linked = [sdEntry EXCEPT ![sdTail] = [sdEntry[sdTail] EXCEPT !.next = new]]
            BY <2>2
        <3> QED BY <1>1, <3>1, <3>2
    <2> QED BY <2>1, <2>2
<1>5. \A a \in S : /\ linked[a].uuid = sdEntry[a].uuid /\ linked[a].queues = sdEntry[a].queues
                   /\ linked[a].prev = sdEntry[a].prev
                   /\ linked[a].next = IF a = sdTail THEN new ELSE sdEntry[a].next
    BY <1>1, <1>3 DEF SdEntryType
<1>6. sdEntry' = Append(linked, last) /\ sdTail' = new
    BY DEF RegisterNewKey
<1> HIDE DEF linked, last
<1>7. /\ sdEntry' \in Seq(SdEntryType) /\ DOMAIN sdEntry' = S \cup {new}
      /\ sdEntry'[new] = last /\ \A a \in S : sdEntry'[a] = linked[a]
    BY <1>1, <1>2, <1>4, <1>6
<1>8. /\ \A a \in S : /\ sdEntry'[a].uuid = sdEntry[a].uuid /\ sdEntry'[a].queues = sdEntry[a].queues
                      /\ sdEntry'[a].prev = sdEntry[a].prev
                      /\ sdEntry'[a].next = IF a = sdTail THEN new ELSE sdEntry[a].next
      /\ sdEntry'[new].uuid = u /\ sdEntry'[new].queues = <<q>>
      /\ sdEntry'[new].prev = 0 /\ sdEntry'[new].next = 0
    BY <1>2, <1>5, <1>7
<1>9. SdTypeOK'
    <2>1. UuidKey[u] \in SdKeys /\ SdKeys' = SdKeys
        BY DEF SdKeys
    <2>2. sdShortcut' \in [SdKeys -> {0} \cup DOMAIN sdEntry']
        BY <1>7, <2>1 DEF SdInv, SdTypeOK
    <2>3. sdRegistered' \in [Uuids -> Seq(SdQueues)]
        BY DEF SdInv, SdTypeOK
    <2> QED BY <1>6, <1>7, <2>1, <2>2, <2>3 DEF SdTypeOK
<1>10. SdLinks'
    <2>1. /\ \A e \in S : /\ sdEntry[e].next \in {0} \cup S /\ sdEntry[e].prev \in {0} \cup S
                          /\ sdEntry[e].prev # 0 => sdEntry[sdEntry[e].prev].next = e
          /\ sdTail # 0 => sdEntry[sdTail].next = 0
        BY DEF SdInv, SdLinks
    <2>2. ASSUME NEW e \in S
          PROVE  /\ sdEntry'[e].next \in {0} \cup DOMAIN sdEntry'
                 /\ sdEntry'[e].prev \in {0} \cup DOMAIN sdEntry'
                 /\ sdEntry'[e].prev # 0 => sdEntry'[sdEntry'[e].prev].next = e
        BY <1>1, <1>7, <1>8, <2>1, SMTT(30)
    <2>3. /\ sdEntry'[new].next \in {0} \cup DOMAIN sdEntry'
          /\ sdEntry'[new].prev \in {0} \cup DOMAIN sdEntry' /\ sdEntry'[new].prev = 0
        BY <1>8
    <2>4. sdEntry'[sdTail'].next = 0
        BY <1>6, <1>8
    <2> QED BY <1>7, <2>2, <2>3, <2>4 DEF SdLinks
<1>11. SdRanked'
    <2>1. PICK rank : /\ rank \in [S -> S]
                      /\ \A e \in S : sdEntry[e].next # 0 => rank[e] < rank[sdEntry[e].next]
        BY DEF SdInv, SdRanked, Ranks
    <2>2. \A e \in S : sdEntry[e].next \in {0} \cup S
        BY DEF SdInv, SdLinks
    <2> DEFINE rank2 == [e \in S \cup {new} |-> IF e = new THEN new ELSE rank[e]]
    <2>3. /\ rank2 \in [S \cup {new} -> S \cup {new}] /\ rank2[new] = new
          /\ \A e \in S : rank2[e] = rank[e] /\ rank2[e] < new
        BY <1>1, <2>1
    <2> HIDE DEF rank2
    <2>4. ASSUME NEW e \in S \cup {new}, sdEntry'[e].next # 0
          PROVE  rank2[e] < rank2[sdEntry'[e].next]
        <3>1. CASE e = new
            BY <1>8, <2>4, <3>1
        <3>2. CASE e \in S /\ e = sdTail
            BY <1>8, <2>3, <3>2
        <3>3. CASE e \in S /\ e # sdTail
            <4>1. PICK n \in S : n = sdEntry[e].next
                BY <1>8, <2>2, <2>4, <3>3
            <4>2. sdEntry'[e].next = n /\ n # 0 /\ rank[e] < rank[n]
                BY <1>1, <1>8, <2>1, <3>3, <4>1
            <4> QED BY <2>3, <3>3, <4>2
        <3> QED BY <3>1, <3>2, <3>3
    <2>5. \E r : /\ r \in [DOMAIN sdEntry' -> DOMAIN sdEntry']
                 /\ \A e \in DOMAIN sdEntry' : sdEntry'[e].next # 0 => r[e] < r[sdEntry'[e].next]
        BY <1>7, <2>3, <2>4
    <2> QED BY <2>5 DEF SdRanked, Ranks
<1>12. SdTypeOK /\ SdShortcuts /\ SdReference /\ SdAlone
    BY DEF SdInv
<1>13. SdShortcuts' /\ SdReference' /\ SdAlone'
    <2> HIDE DEF SdInv
    <2> QED BY <1>7, <1>8, <1>12, EntryAdded
<1> QED BY <1>9, <1>10, <1>11, <1>13 DEF SdInv

\* An entry in front of another one.
LEMMA CollisionInv ==
    ASSUME SdInv, NEW u \in Uuids, NEW q \in SdQueues, NEW cur \in DOMAIN sdEntry,
           NEW new, NEW before, new = Len(sdEntry) + 1, before = sdEntry[cur].prev,
           sdEntry[sdShortcut[UuidKey[u]]].uuid # u,
           sdEntry' = Append([a \in DOMAIN sdEntry |->
                                 IF a = cur THEN [sdEntry[a] EXCEPT !.prev = new]
                                 ELSE IF a = before THEN [sdEntry[a] EXCEPT !.next = new]
                                 ELSE sdEntry[a]], NewSdEntry(u, q, before, cur)),
           sdTail' = sdTail,
           sdShortcut' = [sdShortcut EXCEPT ![UuidKey[u]] = new],
           sdRegistered' = [sdRegistered EXCEPT ![u] = Append(sdRegistered[u], q)]
    PROVE  SdInv'
<1> DEFINE S == DOMAIN sdEntry
           linked == [a \in S |-> IF a = cur THEN [sdEntry[a] EXCEPT !.prev = new]
                                  ELSE IF a = before THEN [sdEntry[a] EXCEPT !.next = new]
                                  ELSE sdEntry[a]]
           fresh == NewSdEntry(u, q, before, cur)
<1>1. /\ sdEntry \in Seq(SdEntryType) /\ S = 1 .. Len(sdEntry) /\ Len(sdEntry) \in Nat
      /\ new \in Nat /\ new # 0 /\ new \notin S /\ sdTail \in {0} \cup S
    BY DEF SdInv, SdTypeOK
<1>2. \A a \in S : sdEntry[a] \in SdEntryType
    BY <1>1
<1>3. /\ \A e \in S : /\ sdEntry[e].next \in {0} \cup S /\ sdEntry[e].prev \in {0} \cup S
                      /\ sdEntry[e].prev # 0 => sdEntry[sdEntry[e].prev].next = e
      /\ sdTail # 0 => sdEntry[sdTail].next = 0
    BY DEF SdInv, SdLinks
<1>4. before \in {0} \cup S /\ (before # 0 => sdEntry[before].next = cur) /\ cur # 0
    BY <1>1, <1>3
<1>5. PICK rank : /\ rank \in [S -> S]
                  /\ \A e \in S : sdEntry[e].next # 0 => rank[e] < rank[sdEntry[e].next]
    BY DEF SdInv, SdRanked, Ranks
<1>6. before # cur /\ (before # 0 => rank[before] < rank[cur])
    BY <1>1, <1>4, <1>5
<1>7. fresh \in SdEntryType /\ fresh.uuid = u /\ fresh.queues = <<q>>
      /\ fresh.prev = before /\ fresh.next = cur
    BY <1>1, <1>4 DEF NewSdEntry, SdEntryType
<1>8. \A a \in S : /\ linked[a] \in SdEntryType
                   /\ linked[a].uuid = sdEntry[a].uuid /\ linked[a].queues = sdEntry[a].queues
                   /\ linked[a].prev = (IF a = cur THEN new ELSE sdEntry[a].prev)
                   /\ linked[a].next = (IF a = before THEN new ELSE sdEntry[a].next)
    BY <1>1, <1>2, <1>6 DEF SdEntryType
<1>9. linked \in Seq(SdEntryType) /\ Len(linked) = Len(sdEntry) /\ DOMAIN linked = S
    BY <1>1, <1>8
<1>10. sdEntry' = Append(linked, fresh)
    OBVIOUS
<1> HIDE DEF linked, fresh
<1>11. /\ sdEntry' \in Seq(SdEntryType) /\ DOMAIN sdEntry' = S \cup {new}
       /\ sdEntry'[new] = fresh /\ \A a \in S : sdEntry'[a] = linked[a]
    <2>1. new = Len(linked) + 1 /\ DOMAIN linked = S
        BY <1>9
    <2>2. /\ Append(linked, fresh) \in Seq(SdEntryType)
          /\ DOMAIN Append(linked, fresh) = DOMAIN linked \cup {new}
          /\ Append(linked, fresh)[new] = fresh
          /\ \A i \in DOMAIN linked : Append(linked, fresh)[i] = linked[i]
        BY <1>7, <1>9, <2>1, AppendIs
    <2> QED BY <1>10, <2>1, <2>2, Zenon
<1>12. /\ \A a \in S : /\ sdEntry'[a].uuid = sdEntry[a].uuid /\ sdEntry'[a].queues = sdEntry[a].queues
                       /\ sdEntry'[a].prev = (IF a = cur THEN new ELSE sdEntry[a].prev)
                       /\ sdEntry'[a].next = (IF a = before THEN new ELSE sdEntry[a].next)
       /\ sdEntry'[new].uuid = u /\ sdEntry'[new].queues = <<q>>
       /\ sdEntry'[new].prev = before /\ sdEntry'[new].next = cur
    <2>1. \A a \in S : sdEntry'[a] = linked[a]
        BY <1>11
    <2>2. sdEntry'[new] = fresh
        BY <1>11
    <2>3. ASSUME NEW a \in S
          PROVE  /\ sdEntry'[a].uuid = sdEntry[a].uuid /\ sdEntry'[a].queues = sdEntry[a].queues
                 /\ sdEntry'[a].prev = (IF a = cur THEN new ELSE sdEntry[a].prev)
                 /\ sdEntry'[a].next = (IF a = before THEN new ELSE sdEntry[a].next)
        <3>1. sdEntry'[a] = linked[a]
            BY <2>1
        <3>2. /\ linked[a].uuid = sdEntry[a].uuid /\ linked[a].queues = sdEntry[a].queues
              /\ linked[a].prev = (IF a = cur THEN new ELSE sdEntry[a].prev)
              /\ linked[a].next = (IF a = before THEN new ELSE sdEntry[a].next)
            BY <1>8
        <3> QED BY <3>1, <3>2, Zenon
    <2>4. /\ sdEntry'[new].uuid = u /\ sdEntry'[new].queues = <<q>>
          /\ sdEntry'[new].prev = before /\ sdEntry'[new].next = cur
        BY <1>7, <2>2, Zenon
    <2> QED BY <2>3, <2>4
<1>13. SdTypeOK'
    <2>1. UuidKey[u] \in SdKeys /\ SdKeys' = SdKeys
        BY DEF SdKeys
    <2>2. sdShortcut' \in [SdKeys -> {0} \cup DOMAIN sdEntry']
        BY <1>11, <2>1, SMTT(30) DEF SdInv, SdTypeOK
    <2>3. sdRegistered' \in [Uuids -> Seq(SdQueues)]
        BY DEF SdInv, SdTypeOK
    <2> QED BY <1>1, <1>11, <2>1, <2>2, <2>3 DEF SdTypeOK
<1>14. SdLinks'
    <2>1. ASSUME NEW e \in S
          PROVE  /\ sdEntry'[e].next \in {0} \cup DOMAIN sdEntry'
                 /\ sdEntry'[e].prev \in {0} \cup DOMAIN sdEntry'
                 /\ sdEntry'[e].prev # 0 => sdEntry'[sdEntry'[e].prev].next = e
        <3>1. CASE e = cur
            BY <1>1, <1>3, <1>11, <1>12, <3>1
        <3>2. CASE e # cur
            BY <1>1, <1>3, <1>4, <1>11, <1>12, <3>2
        <3> QED BY <3>1, <3>2
    <2>2. /\ sdEntry'[new].next \in {0} \cup DOMAIN sdEntry'
          /\ sdEntry'[new].prev \in {0} \cup DOMAIN sdEntry'
          /\ sdEntry'[new].prev # 0 => sdEntry'[sdEntry'[new].prev].next = new
        BY <1>1, <1>4, <1>11, <1>12
    <2>3. sdTail' # 0 => sdEntry'[sdTail'].next = 0
        BY <1>1, <1>3, <1>4, <1>12
    <2> QED BY <1>11, <2>1, <2>2, <2>3 DEF SdLinks
<1>15. SdRanked'
    <2> DEFINE rank2 == [e \in S \cup {new} |->
                            IF e = new THEN rank[cur]
                            ELSE IF rank[e] >= rank[cur] THEN rank[e] + 1 ELSE rank[e]]
    <2>1. /\ rank2 \in [S \cup {new} -> S \cup {new}] /\ rank2[new] = rank[cur]
          /\ \A e \in S : rank2[e] = IF rank[e] >= rank[cur] THEN rank[e] + 1 ELSE rank[e]
        <3>1. \A e \in S : rank[e] \in Nat /\ rank[e] >= 1 /\ rank[e] <= Len(sdEntry)
            BY <1>1, <1>5
        <3>2. \A e \in S \cup {new} : rank2[e] \in S \cup {new}
            BY <1>1, <1>5, <3>1
        <3> QED BY <1>1, <3>2
    <2>2. \A e \in S : rank[e] \in Nat
        BY <1>1, <1>5
    <2> HIDE DEF rank2
    <2>3. ASSUME NEW e \in S \cup {new}, sdEntry'[e].next # 0
          PROVE  rank2[e] < rank2[sdEntry'[e].next]
        <3>1. CASE e = new
            BY <1>1, <1>12, <2>1, <2>2, <3>1
        <3>2. CASE e \in S /\ e = before
            BY <1>1, <1>6, <1>12, <2>1, <2>2, <3>2
        <3>3. CASE e \in S /\ e # before
            <4>1. PICK n \in S : n = sdEntry[e].next
                BY <1>1, <1>3, <1>12, <2>3, <3>3
            <4>2. sdEntry'[e].next = n /\ n # 0 /\ rank[e] < rank[n]
                BY <1>1, <1>5, <1>12, <3>3, <4>1
            <4>3. /\ rank2[e] = IF rank[e] >= rank[cur] THEN rank[e] + 1 ELSE rank[e]
                  /\ rank2[n] = IF rank[n] >= rank[cur] THEN rank[n] + 1 ELSE rank[n]
                BY <2>1, <3>3
            <4>4. rank[e] \in Nat /\ rank[n] \in Nat /\ rank[cur] \in Nat
                BY <2>2, <3>3
            <4>5. rank2[e] < rank2[n]
                BY <4>2, <4>3, <4>4
            <4> QED BY <4>2, <4>5
        <3> QED BY <3>1, <3>2, <3>3
    <2>4. \E r : /\ r \in [DOMAIN sdEntry' -> DOMAIN sdEntry']
                 /\ \A e \in DOMAIN sdEntry' : sdEntry'[e].next # 0 => r[e] < r[sdEntry'[e].next]
        BY <1>11, <2>1, <2>3
    <2> QED BY <2>4 DEF SdRanked, Ranks
<1>16. SdTypeOK /\ SdShortcuts /\ SdReference /\ SdAlone
    BY DEF SdInv
<1>17. SdShortcuts' /\ SdReference' /\ SdAlone'
    BY <1>11, <1>12, <1>16, EntryAdded
<1> QED BY <1>13, <1>14, <1>15, <1>17 DEF SdInv

\* The service has an entry: a queue more, or no room for it.
LEMMA KnownInv ==
    ASSUME SdInv, NEW u \in Uuids, NEW q \in SdQueues, NEW e, e = sdShortcut[UuidKey[u]], e # 0,
           sdEntry[e].uuid = u, sdEntry' = [sdEntry EXCEPT ![e].queues = Append(sdEntry[e].queues, q)],
           UNCHANGED <<sdShortcut, sdTail>>,
           sdRegistered' = [sdRegistered EXCEPT ![u] = Append(sdRegistered[u], q)]
    PROVE  SdInv'
<1> DEFINE S == DOMAIN sdEntry
           more == [sdEntry[e] EXCEPT !.queues = Append(sdEntry[e].queues, q)]
<1>1. /\ SdTypeOK /\ SdLinks /\ SdRanked /\ SdShortcuts /\ SdReference /\ SdAlone
    BY DEF SdInv
<1>2. /\ sdEntry \in Seq(SdEntryType) /\ e \in S /\ UuidKey[u] \in SdKeys
      /\ sdRegistered \in [Uuids -> Seq(SdQueues)]
      /\ sdShortcut \in [SdKeys -> {0} \cup S]
    BY <1>1 DEF SdTypeOK, SdKeys
<1>3. sdEntry[e] \in SdEntryType /\ sdEntry[e].queues \in Seq(SdQueues)
    BY <1>1, <1>2, EntryIs
<1>4. Append(sdEntry[e].queues, q) \in Seq(SdQueues)
    BY <1>3
<1>5. /\ more \in SdEntryType /\ more.queues = Append(sdEntry[e].queues, q)
      /\ more.uuid = sdEntry[e].uuid /\ more.prev = sdEntry[e].prev /\ more.next = sdEntry[e].next
    BY <1>3, <1>4 DEF SdEntryType
<1>6. sdEntry' = [sdEntry EXCEPT ![e] = more]
    OBVIOUS
<1> HIDE DEF more
<1>7. /\ sdEntry' \in Seq(SdEntryType) /\ DOMAIN sdEntry' = S /\ sdEntry'[e] = more
      /\ \A a \in S : a # e => sdEntry'[a] = sdEntry[a]
    BY <1>2, <1>5, <1>6
<1>8. \A a \in S : /\ sdEntry'[a].uuid = sdEntry[a].uuid /\ sdEntry'[a].prev = sdEntry[a].prev
                   /\ sdEntry'[a].next = sdEntry[a].next
    BY <1>5, <1>7
<1>9. /\ sdEntry'[e].queues = Append(sdEntry[e].queues, q)
      /\ \A a \in S : a # e => sdEntry'[a].queues = sdEntry[a].queues
    BY <1>5, <1>7
<1>10. /\ sdRegistered' \in [Uuids -> Seq(SdQueues)]
       /\ sdRegistered'[u] = Append(sdRegistered[u], q) /\ sdRegistered'[u] # <<>>
       /\ \A v \in Uuids : v # u => sdRegistered'[v] = sdRegistered[v]
    <2>1. Append(sdRegistered[u], q) # <<>> /\ Append(sdRegistered[u], q) \in Seq(SdQueues)
        BY <1>2
    <2> QED BY <1>2, <2>1
<1>11. /\ Range(sdRegistered'[u]) = Range(sdRegistered[u]) \cup {q}
       /\ Range(sdEntry'[e].queues) = Range(sdEntry[e].queues) \cup {q}
    <2>1. sdRegistered[u] \in Seq(SdQueues) /\ sdEntry[e].queues \in Seq(SdQueues)
        BY <1>2, <1>3
    <2>2. /\ Range(Append(sdRegistered[u], q)) = Range(sdRegistered[u]) \cup {q}
          /\ Range(Append(sdEntry[e].queues, q)) = Range(sdEntry[e].queues) \cup {q}
        BY <2>1, RangeAppend
    <2> QED BY <1>9, <1>10, <2>2, Zenon
<1>12. \A a \in S : sdEntry[a].uuid \in Uuids
    BY <1>1, EntryIs
<1>13. SdKeys' = SdKeys /\ UNCHANGED <<sdShortcut, sdTail>>
    BY DEF SdKeys
<1>14. SdTypeOK'
    <2>1. sdTail \in {0} \cup S
        BY <1>1 DEF SdTypeOK
    <2>2. sdShortcut' \in [SdKeys' -> {0} \cup DOMAIN sdEntry'] /\ sdTail' \in {0} \cup DOMAIN sdEntry'
        BY <1>2, <1>7, <1>13, <2>1
    <2> QED BY <1>7, <1>10, <2>2 DEF SdTypeOK
<1>15. SdLinks'
    <2>1. \A a \in S : /\ sdEntry[a].next \in {0} \cup S /\ sdEntry[a].prev \in {0} \cup S
                       /\ sdEntry[a].prev # 0 => sdEntry[sdEntry[a].prev].next = a
        BY <1>1 DEF SdLinks
    <2>2. ASSUME NEW a \in S
          PROVE  /\ sdEntry'[a].next \in {0} \cup DOMAIN sdEntry'
                 /\ sdEntry'[a].prev \in {0} \cup DOMAIN sdEntry'
                 /\ sdEntry'[a].prev # 0 => sdEntry'[sdEntry'[a].prev].next = a
        BY <1>7, <1>8, <2>1
    <2>3. sdTail' # 0 => sdEntry'[sdTail'].next = 0
        BY <1>1, <1>8, <1>13 DEF SdLinks, SdTypeOK
    <2> QED BY <1>7, <2>2, <2>3 DEF SdLinks
<1>16. SdRanked'
    <2>1. \E r : /\ r \in [DOMAIN sdEntry' -> DOMAIN sdEntry']
                 /\ \A a \in DOMAIN sdEntry' : sdEntry'[a].next # 0 => r[a] < r[sdEntry'[a].next]
        <3>1. PICK rank : /\ rank \in [S -> S]
                          /\ \A a \in S : sdEntry[a].next # 0 => rank[a] < rank[sdEntry[a].next]
            BY <1>1 DEF SdRanked, Ranks
        <3>2. \A a \in S : sdEntry'[a].next # 0 => rank[a] < rank[sdEntry'[a].next]
            BY <1>8, <3>1
        <3> QED BY <1>7, <3>1, <3>2
    <2> QED BY <2>1 DEF SdRanked, Ranks
<1>17. SdShortcuts'
    <2>1. \A a \in DOMAIN sdEntry' : sdShortcut'[UuidKey[sdEntry'[a].uuid]] # 0
        BY <1>1, <1>7, <1>8, <1>13 DEF SdShortcuts
    <2>2. \A k \in SdKeys : sdShortcut'[k] # 0 => UuidKey[sdEntry'[sdShortcut'[k]].uuid] = k
        BY <1>1, <1>2, <1>8, <1>13 DEF SdShortcuts
    <2> QED BY <1>13, <2>1, <2>2 DEF SdShortcuts
<1>18. SdReference'
    <2>1. ASSUME NEW a \in S
          PROVE  /\ Range(sdEntry'[a].queues) \subseteq Range(sdRegistered'[sdEntry'[a].uuid])
                 /\ sdRegistered'[sdEntry'[a].uuid] # <<>>
        <3>1. /\ Range(sdEntry[a].queues) \subseteq Range(sdRegistered[sdEntry[a].uuid])
              /\ sdRegistered[sdEntry[a].uuid] # <<>>
            BY <1>1 DEF SdReference
        <3>2. CASE a = e
            BY <1>8, <1>10, <1>11, <3>1, <3>2
        <3>3. CASE a # e /\ sdEntry[a].uuid = u
            BY <1>8, <1>9, <1>10, <1>11, <3>1, <3>3
        <3>4. CASE a # e /\ sdEntry[a].uuid # u
            BY <1>8, <1>9, <1>10, <1>12, <3>1, <3>4
        <3> QED BY <3>2, <3>3, <3>4
    <2>2. \A v \in Uuids : sdRegistered'[v] # <<>> => sdShortcut'[UuidKey[v]] # 0
        BY <1>1, <1>10, <1>13 DEF SdReference
    <2> QED BY <1>7, <2>1, <2>2 DEF SdReference
<1>19. SdAlone'
    <2> SUFFICES ASSUME NEW v \in Uuids, AloneWithKey(v)', sdRegistered'[v] # <<>>
                 PROVE  /\ sdEntry'[sdShortcut'[UuidKey[v]]].uuid = v
                        /\ sdEntry'[sdShortcut'[UuidKey[v]]].queues = sdRegistered'[v]
        BY DEF SdAlone
    <2>1. \A w \in Uuids : sdRegistered'[w] # <<>> /\ UuidKey[w] = UuidKey[v] => w = v
        BY DEF AloneWithKey
    <2>2. sdRegistered[u] # <<>>
        BY <1>1, <1>2 DEF SdReference
    <2>3. AloneWithKey(v) /\ sdRegistered[v] # <<>>
        BY <1>10, <2>1, <2>2 DEF AloneWithKey
    <2>4. /\ sdEntry[sdShortcut[UuidKey[v]]].uuid = v
          /\ sdEntry[sdShortcut[UuidKey[v]]].queues = sdRegistered[v]
        BY <1>1, <2>3 DEF SdAlone
    <2>5. sdShortcut[UuidKey[v]] \in S
        <3>1. UuidKey[v] \in SdKeys /\ sdShortcut[UuidKey[v]] # 0
            BY <1>1, <2>3 DEF SdReference, SdKeys
        <3> QED BY <1>2, <3>1
    <2>6. CASE v = u
        BY <1>8, <1>9, <1>10, <1>13, <2>4, <2>5, <2>6
    <2>7. CASE v # u
        <3>1. sdShortcut[UuidKey[v]] # e
            BY <2>4, <2>7
        <3> QED BY <1>8, <1>9, <1>10, <1>13, <2>4, <2>5, <2>7, <3>1
    <2> QED BY <2>6, <2>7
<1> QED BY <1>14, <1>15, <1>16, <1>17, <1>18, <1>19 DEF SdInv

LEMMA SdFrame == SdInv /\ UNCHANGED <<sdEntry, sdShortcut, sdTail, sdRegistered>> => SdInv'
<1> SUFFICES ASSUME SdInv, UNCHANGED <<sdEntry, sdShortcut, sdTail, sdRegistered>> PROVE SdInv'
    OBVIOUS
<1>1. SdTypeOK' /\ SdLinks' /\ SdShortcuts' /\ SdReference'
    BY DEF SdInv, SdTypeOK, SdLinks, SdShortcuts, SdReference, SdKeys
<1>2. SdRanked'
    BY DEF SdInv, SdRanked, Ranks
<1>3. SdAlone'
    BY DEF SdInv, SdAlone, AloneWithKey
<1> QED BY <1>1, <1>2, <1>3 DEF SdInv

LEMMA SdStepInv == SdInv /\ ServiceDiscoveryStep => SdInv'
<1> SUFFICES ASSUME SdInv, ServiceDiscoveryStep PROVE SdInv'
    OBVIOUS
<1>1. ASSUME NEW u \in Uuids, NEW q \in SdQueues, SdRegister(u, q) PROVE SdInv'
    <2> DEFINE e == sdShortcut[UuidKey[u]]
               known == e # 0 /\ SameService(e, u)
    <2>1. /\ ~sdPanic
          /\ \/ e = 0 /\ RegisterNewKey(u, q)
             \/ known /\ RegisterKnown(u, q, e) /\ UNCHANGED sdTail
             \/ e # 0 /\ ~known /\ RegisterCollision(u, q, e) /\ UNCHANGED sdTail
          /\ sdShortcut' = IF known \/ sdPanic' THEN sdShortcut
                           ELSE [sdShortcut EXCEPT ![UuidKey[u]] = Len(sdEntry) + 1]
          /\ sdRegistered' = IF sdAnswer' = 0 /\ ~sdPanic'
                             THEN [sdRegistered EXCEPT ![u] = Append(sdRegistered[u], q)]
                             ELSE sdRegistered
        BY <1>1 DEF SdRegister
    <2>2. CASE e = 0 /\ RegisterNewKey(u, q)
        <3>1. sdAnswer' = 0 /\ ~sdPanic' /\ ~known
            BY <2>1, <2>2 DEF RegisterNewKey
        <3>2. /\ sdShortcut' = [sdShortcut EXCEPT ![UuidKey[u]] = Len(sdEntry) + 1]
              /\ sdRegistered' = [sdRegistered EXCEPT ![u] = Append(sdRegistered[u], q)]
            BY <2>1, <3>1
        <3> QED BY <2>2, <3>2, NewKeyInv
    <2>3. CASE known /\ RegisterKnown(u, q, e) /\ UNCHANGED sdTail
        <3>0. sdShortcut' = sdShortcut
            BY <2>1, <2>3
        <3>1. CASE Len(sdEntry[e].queues) >= MaxQueues
            <4>1. sdEntry' = sdEntry /\ sdAnswer' = 12
                BY <2>3, <3>1 DEF RegisterKnown, ENOMEM
            <4>2. sdRegistered' = sdRegistered
                BY <2>1, <4>1
            <4> QED BY <2>3, <3>0, <4>1, <4>2, SdFrame
        <3>2. CASE ~(Len(sdEntry[e].queues) >= MaxQueues)
            <4>1. /\ sdEntry' = [sdEntry EXCEPT ![e].queues = Append(sdEntry[e].queues, q)]
                  /\ sdAnswer' = 0 /\ ~sdPanic'
                BY <2>1, <2>3, <3>2 DEF RegisterKnown
            <4>2. sdRegistered' = [sdRegistered EXCEPT ![u] = Append(sdRegistered[u], q)]
                BY <2>1, <4>1
            <4>3. e # 0 /\ sdEntry[e].uuid = u
                BY <2>3 DEF SameService
            <4>4. UNCHANGED <<sdShortcut, sdTail>>
                BY <2>3, <3>0
            <4> QED BY <4>1, <4>2, <4>3, <4>4, KnownInv
        <3> QED BY <3>1, <3>2
    <2>4. CASE e # 0 /\ ~known /\ RegisterCollision(u, q, e) /\ UNCHANGED sdTail
        <3>1. e \in DOMAIN sdEntry /\ sdEntry[e].uuid # u
            <4>1. UuidKey[u] \in SdKeys /\ sdShortcut \in [SdKeys -> {0} \cup DOMAIN sdEntry]
                BY DEF SdInv, SdTypeOK, SdKeys
            <4> QED BY <2>4, <4>1 DEF SameService
        <3>2. PICK cur : cur = IF sdEntry[e].uuid < u THEN sdEntry[e].prev ELSE WalkGreater(e, u)
            OBVIOUS
        <3>3. cur \in {0} \cup DOMAIN sdEntry
            <4>1. sdEntry[e].prev \in {0} \cup DOMAIN sdEntry
                BY <3>1 DEF SdInv, SdLinks
            <4>2. WalkGreater(e, u) \in DOMAIN sdEntry
                BY <3>1, WalkStays DEF SdInv
            <4> QED BY <3>2, <4>1, <4>2
        <3>4. CASE cur = 0
            <4>1. sdPanic' = TRUE /\ UNCHANGED sdEntry
                BY <2>4, <3>2, <3>4 DEF RegisterCollision
            <4> QED BY <2>1, <2>4, <4>1, SdFrame, SMTT(30)
        <3>5. CASE cur # 0
            <4>1. PICK new, before : new = Len(sdEntry) + 1 /\ before = sdEntry[cur].prev
                OBVIOUS
            <4>2. /\ sdEntry' = Append([a \in DOMAIN sdEntry |->
                                   IF a = cur THEN [sdEntry[a] EXCEPT !.prev = new]
                                   ELSE IF a = before THEN [sdEntry[a] EXCEPT !.next = new]
                                   ELSE sdEntry[a]], NewSdEntry(u, q, before, cur))
                  /\ sdAnswer' = 0 /\ ~sdPanic'
                BY <2>1, <2>4, <3>2, <3>5, <4>1 DEF RegisterCollision
            <4>3. /\ sdShortcut' = [sdShortcut EXCEPT ![UuidKey[u]] = new]
                  /\ sdRegistered' = [sdRegistered EXCEPT ![u] = Append(sdRegistered[u], q)]
                BY <2>1, <2>4, <4>1, <4>2
            <4>4. cur \in DOMAIN sdEntry /\ sdEntry[sdShortcut[UuidKey[u]]].uuid # u /\ sdTail' = sdTail
                BY <2>4, <3>1, <3>3, <3>5
            <4> QED BY <4>1, <4>2, <4>3, <4>4, CollisionInv
        <3> QED BY <3>4, <3>5
    <2> QED BY <2>1, <2>2, <2>3, <2>4
<1>2. ASSUME NEW u \in Uuids, SdSend(u) PROVE SdInv'
    BY <1>2, SdFrame DEF SdSend
<1>3. ASSUME NEW q \in SdQueues, SdQueueGone(q) PROVE SdInv'
    BY <1>3, SdFrame DEF SdQueueGone
<1> QED BY <1>1, <1>2, <1>3 DEF ServiceDiscoveryStep

\* Whatever services with colliding keys do to the list of sd.cpp, a lookup
\* ends in the entry of the very service, with queues registered for it, and
\* a service alone with its key is found with all of them in order.
THEOREM ServicesAreDelivered == TablesSpec => []SdDelivers
<1>1. TablesInit => SdInv
    <2> SUFFICES ASSUME TablesInit PROVE SdInv
        OBVIOUS
    <2>1. /\ sdEntry = <<>> /\ DOMAIN sdEntry = {} /\ sdShortcut = [k \in SdKeys |-> 0]
          /\ sdTail = 0 /\ sdRegistered = [u \in Uuids |-> <<>>]
        BY DEF TablesInit, ServiceDiscoveryInit
    <2>2. SdTypeOK
        BY <2>1 DEF SdTypeOK
    <2>3. SdLinks /\ SdShortcuts
        BY <2>1 DEF SdLinks, SdShortcuts
    <2>4. SdReference /\ SdAlone
        BY <2>1 DEF SdReference, SdAlone
    <2>5. SdRanked
        <3>1. [e \in DOMAIN sdEntry |-> e] \in [DOMAIN sdEntry -> DOMAIN sdEntry]
            OBVIOUS
        <3> QED BY <2>1, <3>1 DEF SdRanked, Ranks
    <2> QED BY <2>2, <2>3, <2>4, <2>5 DEF SdInv
<1>2. SdInv /\ [TablesNext]_tableVars => SdInv'
    <2> SUFFICES ASSUME SdInv, [TablesNext]_tableVars PROVE SdInv'
        OBVIOUS
    <2>1. ServiceDiscoveryStep \/ UNCHANGED sdVars
        BY DEF TablesNext, tableVars
    <2>2. CASE UNCHANGED sdVars
        BY <2>2, SdFrame DEF sdVars
    <2> QED BY <2>1, <2>2, SdStepInv
<1> QED BY <1>1, <1>2, SdAnswers, PTL DEF TablesSpec, tableVars

=============================================================================
