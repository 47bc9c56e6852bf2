----------------------------- MODULE MemoryProofs ----------------------------
(****************************************************************************)
(* Proofs about the parts of Memory: files over the network, the slab, the  *)
(* search for the clock, the loading of programs, the allocators of the     *)
(* kernel's objects and the loader.                                         *)
(****************************************************************************)
EXTENDS Memory, WellFoundedInduction, FiniteSetTheorems, TLAPS

memoryVars == <<part, vmVars, allocVars, elfVars, BootVars>>

-----------------------------------------------------------------------------
(* Numbers and functions *)

\* Induction, for sets of numbers instead of the predicates of the library.
LEMMA CountingUp ==
    ASSUME NEW S \in SUBSET Nat, 0 \in S, \A n \in S : n + 1 \in S
    PROVE  S = Nat
<1> SUFFICES ASSUME Nat \ S # {} PROVE FALSE
    OBVIOUS
<1> DEFINE less == {ss \in Nat \X Nat : ss[1] < ss[2]}
<1>1. IsWellFoundedOn(less, Nat)
    BY NatLessThanWellFounded DEF OpToRel
<1>2. PICK n \in Nat \ S : \A m \in Nat \ S : <<m, n>> \notin less
    <2>1. Nat \ S \in SUBSET Nat
        OBVIOUS
    <2> HIDE DEF less
    <2> QED BY <1>1, <2>1, WFMin
<1>3. n # 0 /\ n - 1 \in Nat /\ n - 1 \notin S
    <2>1. n # 0 /\ n - 1 \in Nat
        OBVIOUS
    <2>2. (n - 1) + 1 = n
        OBVIOUS
    <2> QED BY <2>1, <2>2
<1>4. <<n - 1, n>> \in less
    BY <1>3
<1> HIDE DEF less
<1> QED BY <1>2, <1>3, <1>4

LEMMA LargestIs ==
    ASSUME NEW S \in SUBSET Nat, NEW n \in S, \A m \in S : m <= n
    PROVE  Max(S) = n
<1>1. n \in S /\ \A m \in S : n >= m
    OBVIOUS
<1>2. Max(S) \in S /\ \A m \in S : Max(S) >= m
    <2>1. \E x \in S : \A m \in S : x >= m
        BY <1>1
    <2> QED BY <2>1 DEF Max
<1>3. Max(S) \in Nat /\ Max(S) >= n /\ n >= Max(S) /\ n \in Nat
    BY <1>1, <1>2
<1> QED BY <1>3

LEMMA LeastNumber ==
    ASSUME NEW T \in SUBSET Nat, T # {}
    PROVE  Min(T) \in T /\ \A m \in T : Min(T) <= m
<1> DEFINE S == {n \in Nat : \A m \in 0 .. n : m \notin T}
<1>1. \E n \in T : \A m \in T : n <= m
    <2> SUFFICES ASSUME \A n \in T : \E m \in T : m < n PROVE FALSE
        OBVIOUS
    <2>1. 0 \in S
        OBVIOUS
    <2>2. \A n \in S : n + 1 \in S
        OBVIOUS
    <2>3. S = Nat
        <3> HIDE DEF S
        <3>1. S \in SUBSET Nat
            BY DEF S
        <3> QED BY <2>1, <2>2, <3>1, CountingUp
    <2>4. PICK t \in T : TRUE
        OBVIOUS
    <2>5. t \in S
        <3> HIDE DEF S
        <3> QED BY <2>3, <2>4
    <2> QED BY <2>4, <2>5
<1> QED BY <1>1 DEF Min

LEMMA GreatestNumber ==
    ASSUME NEW T \in SUBSET Nat, T # {}, NEW b \in Nat, \A m \in T : m <= b
    PROVE  Max(T) \in T /\ \A m \in T : m <= Max(T)
<1> DEFINE U == {n \in Nat : b - n \in T}
<1>1. PICK t \in T : TRUE
    OBVIOUS
<1>2. b - t \in U /\ U \in SUBSET Nat
    OBVIOUS
<1> HIDE DEF U
<1>3. Min(U) \in U /\ \A m \in U : Min(U) <= m
    BY <1>2, LeastNumber
<1>4. b - Min(U) \in T /\ Min(U) \in Nat
    BY <1>3 DEF U
<1>5. \A m \in T : m <= b - Min(U)
    <2> SUFFICES ASSUME NEW m \in T PROVE m <= b - Min(U)
        OBVIOUS
    <2>1. b - m \in U
        BY DEF U
    <2> QED BY <1>3, <1>4, <2>1
<1>6. Max(T) = b - Min(U)
    BY <1>4, <1>5, LargestIs
<1> QED BY <1>4, <1>5, <1>6

\* Functions on 0 .. N that say how each value follows from the one before.
CanWalk(S, a, G, N) == N \in Nat /\ a \in S /\ \A n \in Nat : \A x \in S : G[n][x] \in S

IsWalk(S, a, G, N, f) ==
    f \in [0 .. N -> S] /\ f[0] = a /\ \A n \in 1 .. N : f[n] = G[n][f[n - 1]]

LEMMA StepByStep ==
    ASSUME NEW S, NEW a, NEW G, NEW N, CanWalk(S, a, G, N)
    PROVE  \E f : IsWalk(S, a, G, N, f)
<1> USE DEF CanWalk
<1> DEFINE Is(f, k) == f \in [0 .. k -> S] /\ f[0] = a /\ \A n \in 1 .. k : f[n] = G[n][f[n - 1]]
           T == {k \in Nat : \E f : Is(f, k)}
<1>1. 0 \in T
    <2>1. Is([n \in 0 .. 0 |-> a], 0)
        OBVIOUS
    <2> QED BY <2>1
<1>2. ASSUME NEW k \in T PROVE k + 1 \in T
    <2>1. PICK f : Is(f, k)
        OBVIOUS
    <2> DEFINE g == [n \in 0 .. k + 1 |-> IF n = k + 1 THEN G[k + 1][f[k]] ELSE f[n]]
    <2>2. f[k] \in S /\ G[k + 1][f[k]] \in S
        BY <2>1
    <2>3. g \in [0 .. k + 1 -> S] /\ g[0] = a
        BY <2>1, <2>2
    <2>4. ASSUME NEW n \in 1 .. k + 1 PROVE g[n] = G[n][g[n - 1]]
        <3>1. CASE n = k + 1
            <4>1. g[n - 1] = f[k]
                BY <3>1
            <4> QED BY <3>1, <4>1
        <3>2. CASE n # k + 1
            <4>1. n \in 1 .. k /\ n - 1 \in 0 .. k /\ n - 1 # k + 1
                BY <3>2
            <4>2. g[n] = f[n] /\ g[n - 1] = f[n - 1]
                BY <3>2, <4>1
            <4> QED BY <2>1, <4>1, <4>2
        <3> QED BY <3>1, <3>2
    <2> HIDE DEF g
    <2>5. Is(g, k + 1)
        BY <2>3, <2>4
    <2> QED BY <2>5
<1> HIDE DEF T
<1>3. T = Nat
    <2>1. T \in SUBSET Nat
        BY DEF T
    <2> QED BY <1>1, <1>2, <2>1, CountingUp
<1>4. PICK f : Is(f, N)
    BY <1>3 DEF T
<1> QED BY <1>4 DEF IsWalk

-----------------------------------------------------------------------------
(* Files over the network *)

\* The phases of a file.  The pool has a buffer while it is read and while it
\* is open; only a file that has grown comes back to "alloc" with one.
PxeTypeOK ==
    /\ pxePhase \in {"closed", "size", "alloc", "read", "open"}
    /\ pool \in [fp : Int, buffer : Int, left : Int]
    /\ pxeFile \in [size : Int, content : Int]
    /\ server \in Nat

\* Before a file is open load_file has got nothing of it; then the buffer is
\* as large as what was read into it.
PxeFileKept ==
    /\ pxePhase \in {"size", "alloc", "read"} => got = -1
    /\ pxePhase = "open" => pxeFile.size = pxeFile.content

PxeInv ==
    /\ PxeTypeOK
    /\ PxePoolBalanced
    /\ pxePhase = "size" => pool.buffer = 0
    /\ PxeFileKept
    /\ PxeWholeFile

LEMMA PxeInitInv == PxeInit => PxeInv
BY PxeAssumption DEF PxeInit, PxeInv, PxeTypeOK, PxePoolBalanced, PxeFileKept, PxeWholeFile, NoFile

\* What is left in the pool when opening fails.
LEMMA PoolAfterFailure ==
    ASSUME PxeTypeOK, NEW freed \in SUBSET {"fp", "buffer"}, OpenFails(freed)
    PROVE  pool' = [fp |-> IF "fp" \in freed THEN pool.fp - 1 ELSE pool.fp,
                    buffer |-> IF "buffer" \in freed THEN pool.buffer - 1 ELSE pool.buffer,
                    left |-> pool.left]
<1>1. DOMAIN pool = {"fp", "buffer", "left"}
    BY DEF PxeTypeOK
<1> QED BY <1>1 DEF OpenFails, PxeTypeOK

LEMMA PxeStepInv == PxeInv /\ PxeStep => PxeInv'
<1> SUFFICES ASSUME PxeInv, PxeStep PROVE PxeInv'
    OBVIOUS
<1> USE PxeAssumption DEF PxeInv, PxeTypeOK, PxePoolBalanced, PxeFileKept, PxeWholeFile
<1>1. CASE ServerChanges
    BY <1>1 DEF ServerChanges
<1>2. CASE OpenFile
    BY <1>2 DEF OpenFile, NoFile
<1>3. CASE AskSize
    <2>1. CASE OpenFails({"fp"})
        <3>1. pool' = [fp |-> pool.fp - 1, buffer |-> pool.buffer, left |-> pool.left]
            BY <2>1, PoolAfterFailure
        <3> QED BY <1>3, <2>1, <3>1 DEF AskSize, OpenFails
    <2> QED BY <1>3, <2>1 DEF AskSize
<1>4. CASE AllocBuffer
    <2>1. CASE pxePhase' = "read"
        <3>1. pool' = [fp |-> pool.fp, buffer |-> 1, left |-> pool.left]
            BY <1>4, <2>1 DEF AllocBuffer, BuffersAfterFree
        <3> QED BY <1>4, <2>1, <3>1 DEF AllocBuffer
    <2>2. CASE pxePhase' = "closed"
        <3>1. pool' = [fp |-> pool.fp - 1, buffer |-> 0, left |-> pool.left]
            BY <1>4, <2>2 DEF AllocBuffer, BuffersAfterFree
        <3> QED BY <1>4, <2>2, <3>1 DEF AllocBuffer
    <2> QED BY <1>4, <2>1, <2>2 DEF AllocBuffer
<1>5. CASE ReadFile
    <2>1. CASE OpenFails({"fp", "buffer"})
        <3>1. pool' = [fp |-> pool.fp - 1, buffer |-> pool.buffer - 1, left |-> pool.left]
            BY <2>1, PoolAfterFailure
        <3> QED BY <1>5, <2>1, <3>1 DEF ReadFile, OpenFails
    <2> QED BY <1>5, <2>1 DEF ReadFile, SizeRead
<1>6. CASE Read
    BY <1>6 DEF Read
<1>7. CASE Close
    <2>1. pool' = [fp |-> pool.fp - 1, buffer |-> pool.buffer - 1, left |-> pool.left + 1]
        BY <1>7 DEF Close
    <2> QED BY <1>7, <2>1 DEF Close
<1> QED BY <1>1, <1>2, <1>3, <1>4, <1>5, <1>6, <1>7 DEF PxeStep

LEMMA PxeAlways == MemorySpec => []PxeInv
<1>1. MemoryInit => PxeInv
    BY PxeInitInv DEF MemoryInit
<1>2. PxeInv /\ [MemoryNext]_memoryVars => PxeInv'
    <2> SUFFICES ASSUME PxeInv, [MemoryNext]_memoryVars PROVE PxeInv'
        OBVIOUS
    <2>1. PxeStep \/ UNCHANGED pxeVars
        BY DEF MemoryNext, memoryVars, BootVars
    <2>2. CASE UNCHANGED pxeVars
        BY <2>2 DEF pxeVars, PxeInv, PxeTypeOK, PxePoolBalanced, PxeFileKept, PxeWholeFile
    <2> QED BY <2>1, <2>2, PxeStepInv
<1> QED BY <1>1, <1>2, PTL DEF MemorySpec, memoryVars

\* However sizes change and calls fail while the loader opens a file, the
\* pool holds exactly what the file needs.
THEOREM PoolIsBalanced == MemorySpec => []PxePoolBalanced
BY PxeAlways, PTL DEF PxeInv

\* The loader gets the whole file as it was when it was read, for all sizes
\* it has had before and since.
THEOREM FilesAreWhole == MemorySpec => []PxeWholeFile
BY PxeAlways, PTL DEF PxeInv

-----------------------------------------------------------------------------
(* The slab *)

LEMMA Division ==
    ASSUME NEW n \in Nat, NEW s \in Nat \ {0}
    PROVE  /\ n \div s \in Nat /\ n % s \in 0 .. s - 1
           /\ s * (n \div s) = n - (n % s)
<1>1. n \div s \in Int /\ n % s \in 0 .. s - 1
    OBVIOUS
<1>2. n - (n % s) = s * (n \div s)
    OBVIOUS
<1>3. n \div s >= 0
    <2> DEFINE q == n \div s
    <2>1. q \in Int /\ n < s * q + s
        BY <1>1, <1>2
    <2> HIDE DEF q
    <2>2. q <= -1 => s * q <= s * (-1)
        <3>1. ASSUME q <= -1 PROVE s * (-1 - q) >= 0 /\ s * (-1) = s * q + s * (-1 - q)
            BY <2>1, <3>1
        <3> QED BY <2>1, <3>1
    <2> QED BY <2>1, <2>2 DEF q
<1> QED BY <1>1, <1>2, <1>3

LEMMA TimesGrows ==
    ASSUME NEW s \in Nat, NEW x \in Int, NEW y \in Int, x <= y
    PROVE  s * x <= s * y
<1>1. s * (y - x) >= 0 /\ s * y = s * x + s * (y - x)
    OBVIOUS
<1> QED BY <1>1

LEMMA DivisionGrows ==
    ASSUME NEW m \in Nat, NEW n \in Nat, m <= n, NEW s \in Nat \ {0}
    PROVE  m \div s <= n \div s
<1> DEFINE qm == m \div s
           qn == n \div s
<1>1. /\ qm \in Nat /\ m % s \in 0 .. s - 1 /\ s * qm = m - (m % s)
      /\ qn \in Nat /\ n % s \in 0 .. s - 1 /\ s * qn = n - (n % s)
    BY Division
<1> HIDE DEF qm, qn
<1>2. qm > qn => s * (qn + 1) <= s * qm
    BY <1>1, TimesGrows
<1>3. s * (qn + 1) = s * qn + s
    BY <1>1
<1> QED BY <1>1, <1>2, <1>3 DEF qm, qn

LEMMA BitmapGrows ==
    ASSUME NEW m \in Nat, NEW n \in Nat, m <= n
    PROVE  BitmapSize(m) \in Nat /\ BitmapSize(m) <= BitmapSize(n)
BY DEF BitmapSize

\* A quotient is the number of whole objects.
LEMMA QuotientIs ==
    ASSUME NEW q \in Nat, NEW s \in Nat \ {0}
    PROVE  (q * s) \div s = q
<1> DEFINE d == (q * s) \div s
<1>1. q * s \in Nat
    OBVIOUS
<1>2. d \in Nat /\ (q * s) % s \in 0 .. s - 1 /\ s * d = q * s - ((q * s) % s)
    BY <1>1, Division
<1> HIDE DEF d
<1>3. d > q => s * (q + 1) <= s * d
    BY <1>2, TimesGrows
<1>4. d < q => s * (d + 1) <= s * q
    BY <1>2, TimesGrows
<1>5. s * (q + 1) = q * s + s /\ s * (d + 1) = s * d + s /\ s * q = q * s
    BY <1>2
<1> QED BY <1>2, <1>3, <1>4, <1>5 DEF d

\* The overhead is a whole number of objects: one more than fit into header
\* and bitmap.
LEMMA OverheadInObjects ==
    ASSUME NEW s \in Nat \ {0}, NEW o \in Nat
    PROVE  /\ o + (s - (o % s)) = s * ((o + s) \div s)
           /\ o + (s - (o % s)) >= o
           /\ (o + s) \div s \in Nat
<1> DEFINE q == o \div s
<1>1. q \in Nat /\ o % s \in 0 .. s - 1 /\ s * q = o - (o % s)
    BY Division
<1>2. (o + s) \div s = q + 1
    <2> DEFINE d == (o + s) \div s
    <2>1. d \in Nat /\ (o + s) % s \in 0 .. s - 1 /\ s * d = o + s - ((o + s) % s)
        <3>1. o + s \in Nat
            OBVIOUS
        <3> QED BY <3>1, Division
    <2> HIDE DEF d, q
    <2>2. d > q + 1 => s * (q + 2) <= s * d
        BY <1>1, <2>1, TimesGrows
    <2>3. d < q + 1 => s * d <= s * q
        BY <1>1, <2>1, TimesGrows
    <2>4. s * (q + 2) = s * q + s + s
        BY <1>1
    <2> QED BY <1>1, <2>1, <2>2, <2>3, <2>4 DEF d
<1> HIDE DEF q
<1>3. s * (q + 1) = s * q + s
    BY <1>1
<1> QED BY <1>1, <1>2, <1>3

\* The slab that is in use was made from one of the regions.
SlabInv ==
    slab = NoSlab \/ \E r \in SlabRegions :
        LET entries == SlabEntries(r.total, r.size) IN
        /\ entries > 0
        /\ slab = [total |-> r.total, size |-> r.size, entries |-> entries,
                   bitmap |-> BitmapSize(entries)]

LEMMA SlabAlways == MemorySpec => []SlabInv
<1>1. MemoryInit => SlabInv
    BY DEF MemoryInit, AllocatorsInit, SlabInv
<1>2. SlabInv /\ [MemoryNext]_memoryVars => SlabInv'
    <2> SUFFICES ASSUME SlabInv, [MemoryNext]_memoryVars PROVE SlabInv'
        OBVIOUS
    <2>1. \/ AllocatorStep
          \/ SlabStep
          \/ UNCHANGED allocVars
        BY DEF MemoryNext, memoryVars
    <2>2. UNCHANGED slab => SlabInv'
        BY SMTT(30) DEF SlabInv
    <2>3. CASE AllocatorStep
        BY <2>2, <2>3, ZenonT(40) DEF AllocatorStep, New, Allocate, Deallocate, MemoryIsUp
    <2>4. CASE \E r \in SlabRegions : InitSlab(r)
        BY <2>4 DEF InitSlab, SlabInv
    <2>5. CASE SlabAlloc \/ \E idx \in slabUsed : SlabFree(SlabMem(idx))
        BY <2>2, <2>5 DEF SlabAlloc, SlabFree
    <2> QED BY <2>1, <2>2, <2>3, <2>4, <2>5 DEF SlabStep, allocVars
<1> QED BY <1>1, <1>2, PTL DEF MemorySpec, memoryVars

\* What init_slab subtracts from the number of objects that would fit without
\* an overhead is enough for the overhead of those that remain.
LEMMA SlabFits == SlabInv => SlabObjectsFit
<1> SUFFICES ASSUME NEW r \in SlabRegions,
                    SlabEntries(r.total, r.size) > 0,
                    slab = [total |-> r.total, size |-> r.size,
                            entries |-> SlabEntries(r.total, r.size),
                            bitmap |-> BitmapSize(SlabEntries(r.total, r.size))],
                    NEW idx \in 0 .. slab.entries - 1
             PROVE  /\ SlabMem(idx) >= SlabHeaderSize + slab.bitmap
                    /\ SlabMem(idx) + slab.size <= slab.total
                    /\ SlabIndex(SlabMem(idx)) = idx
    BY DEF SlabInv, SlabObjectsFit
<1> DEFINE s == r.size
           t == r.total
           a == t \div s
           most == BitmapSize(a) + SlabHeaderSize
           e == SlabEntries(t, s)
           o == SlabHeaderSize + BitmapSize(e)
           lead == (o + s) \div s
<1>1. s \in Nat \ {0} /\ t \in Nat
    BY AllocatorsAssumption
<1>2. a \in Nat /\ s * a <= t
    <2>1. a \in Nat /\ t % s \in 0 .. s - 1 /\ s * a = t - (t % s)
        <3> HIDE DEF s, t
        <3> QED BY <1>1, Division
    <2> HIDE DEF a, s, t
    <2> QED BY <1>1, <2>1
<1>3. BitmapSize(a) \in Nat /\ most + s \in Nat
    <2> HIDE DEF a
    <2> QED BY <1>1, <1>2, BitmapGrows DEF SlabHeaderSize
<1>4. e = a - ((most + s) \div s) /\ (most + s) \div s \in Nat
    <2>1. (most + s) \div s \in Nat
        BY <1>1, <1>3, Division
    <2> QED BY <2>1 DEF SlabEntries
<1>5. e \in Nat /\ 0 < e /\ e <= a
    <2> HIDE DEF a, most
    <2> QED BY <1>2, <1>4
<1>6. BitmapSize(e) \in Nat /\ BitmapSize(e) <= BitmapSize(a)
    <2> HIDE DEF e, a
    <2> QED BY <1>2, <1>5, BitmapGrows
<1> HIDE DEF e, a
<1>7. o \in Nat /\ o + s \in Nat /\ o + s <= most + s
    BY <1>1, <1>3, <1>6 DEF SlabHeaderSize
<1> HIDE DEF o, most, s, t
<1>8. lead \in Nat /\ lead <= (most + s) \div s
    <2>1. lead <= (most + s) \div s
        BY <1>1, <1>3, <1>7, DivisionGrows
    <2> QED BY <1>1, <1>7, <2>1, Division
<1>9. SlabOverhead = s * lead /\ SlabOverhead >= o
    <2>1. SlabOverhead = o + (s - (o % s))
        BY DEF SlabOverhead, o, s, e, t
    <2> QED BY <1>1, <1>7, <2>1, OverheadInObjects
<1> HIDE DEF lead
<1>10. idx \in Nat /\ idx + 1 + lead <= a
    <2>1. idx \in 0 .. e - 1
        BY DEF e, s, t
    <2> DEFINE taken == (most + s) \div s
    <2>2. e = a - taken /\ taken \in Nat /\ lead <= taken
        BY <1>4, <1>8
    <2> HIDE DEF taken
    <2> QED BY <1>2, <1>5, <1>8, <2>1, <2>2
<1>11. SlabMem(idx) = idx * s + s * lead
    BY <1>9 DEF SlabMem, s
<1>12. s * lead \in Nat /\ idx * s \in Nat
    BY <1>1, <1>8, <1>10
<1>13. SlabMem(idx) + s <= t
    <2>1. s * (idx + 1 + lead) <= s * a
        BY <1>1, <1>2, <1>8, <1>10, TimesGrows
    <2>2. s * (idx + 1 + lead) = idx * s + s * lead + s
        BY <1>1, <1>8, <1>10
    <2>3. s * a \in Nat
        BY <1>1, <1>2
    <2> QED BY <1>1, <1>2, <1>11, <1>12, <2>1, <2>2, <2>3
<1>14. SlabIndex(SlabMem(idx)) = (idx * s) \div s
    <2>1. SlabMem(idx) - SlabOverhead = idx * s
        BY <1>9, <1>11, <1>12
    <2> QED BY <2>1 DEF SlabIndex, s
<1>15. SlabIndex(SlabMem(idx)) = idx
    BY <1>1, <1>10, <1>14, QuotientIs
<1>16. SlabMem(idx) >= o
    BY <1>7, <1>9, <1>11, <1>12
<1> QED BY <1>13, <1>15, <1>16 DEF o, e, s, t

\* Objects of a slab never overlap its header, its bitmap or the memory
\* behind it, for regions and objects of any size.
THEOREM SlabsHoldTheirObjects == MemorySpec => []SlabObjectsFit
BY SlabAlways, SlabFits, PTL

-----------------------------------------------------------------------------
(* The clock *)

IsClock(t) == t.hpet /\ t.valid /\ t.memory

\* The clocks among the tables that have been processed.
ClocksSeen == {i \in DOMAIN TablesListed : i < acpiNext /\ IsClock(TablesListed[i])}

TableList(tables) == \E n \in Nat : tables \in [1 .. n -> AcpiTables]

\* At any time, also between two tables, the last clock seen decides.
AcpiInv ==
    /\ acpiNext \in Nat
    /\ rsdp \in [rev : {0, 2}, sum : BOOLEAN, xsum : BOOLEAN, root : BOOLEAN]
    /\ TableList(rsdtTables) /\ TableList(xsdtTables)
    /\ hpet \in [mapped : BOOLEAN, enabled : BOOLEAN, multiplier : Int, start : {0}]
    /\ hpet.enabled <=> /\ RootIsSound
                        /\ ClocksSeen # {}
                        /\ TablesListed[Max(ClocksSeen)].period >= MinPeriod

\* The tables are numbered from 1.
LEMMA ListedTables ==
    ASSUME TableList(rsdtTables), TableList(xsdtTables)
    PROVE  /\ TableList(TablesListed)
           /\ Len(TablesListed) \in Nat /\ DOMAIN TablesListed = 1 .. Len(TablesListed)
           /\ \A i \in DOMAIN TablesListed : i \in Nat /\ i > 0 /\ TablesListed[i] \in AcpiTables
<1>1. TableList(TablesListed)
    BY DEF TablesListed
<1>2. PICK n \in Nat : TablesListed \in [1 .. n -> AcpiTables]
    BY <1>1 DEF TableList
<1>3. TablesListed \in Seq(AcpiTables)
    BY <1>2
<1> QED BY <1>1, <1>2, <1>3

LEMMA TableInv == AcpiInv /\ ProcessTable => AcpiInv'
<1> SUFFICES ASSUME AcpiInv, ProcessTable PROVE AcpiInv'
    OBVIOUS
<1>1. /\ RootIsSound /\ acpiNext \in DOMAIN TablesListed /\ acpiNext' = acpiNext + 1
      /\ rsdp' = rsdp /\ rsdtTables' = rsdtTables /\ xsdtTables' = xsdtTables
    BY DEF ProcessTable
<1>2. TablesListed' = TablesListed /\ (RootIsSound' <=> RootIsSound)
    BY <1>1 DEF TablesListed, RootIsSound
<1>3. PICK t : t = TablesListed[acpiNext]
    OBVIOUS
<1>4. hpet' = IF t.valid /\ t.hpet THEN InitHpet(t) ELSE hpet
    BY <1>3 DEF ProcessTable
<1>5. /\ \A i \in DOMAIN TablesListed : i \in Nat /\ TablesListed[i] \in AcpiTables
      /\ TableList(rsdtTables) /\ TableList(xsdtTables) /\ acpiNext \in Nat
    <2>1. TableList(rsdtTables) /\ TableList(xsdtTables) /\ acpiNext \in Nat
        BY DEF AcpiInv
    <2> QED BY <2>1, ListedTables
<1>6. t \in [hpet : BOOLEAN, valid : BOOLEAN, memory : BOOLEAN, period : Nat]
    BY <1>1, <1>3, <1>5, AcpiAssumption
<1>7. ClocksSeen' = {i \in DOMAIN TablesListed : i < acpiNext + 1 /\ IsClock(TablesListed[i])}
    BY <1>1, <1>2 DEF ClocksSeen
<1>8. hpet \in [mapped : BOOLEAN, enabled : BOOLEAN, multiplier : Int, start : {0}]
    BY DEF AcpiInv
<1>9. /\ hpet' \in [mapped : BOOLEAN, enabled : BOOLEAN, multiplier : Int, start : {0}]
      /\ IsClock(t) => (hpet'.enabled <=> t.period >= MinPeriod)
      /\ ~IsClock(t) => hpet' = hpet
    <2>1. t.period \div MinPeriod \in Int
        BY <1>6 DEF MinPeriod
    <2>2. t.period >= MinPeriod <=> ~(t.period < MinPeriod)
        BY <1>6 DEF MinPeriod
    <2>3. CASE ~IsClock(t)
        BY <1>4, <1>8, <2>3 DEF IsClock, InitHpet
    <2>4. CASE IsClock(t) /\ t.period < MinPeriod
        <3>1. hpet' = [hpet EXCEPT !.mapped = TRUE, !.enabled = FALSE]
            BY <1>4, <2>4 DEF IsClock, InitHpet
        <3> QED BY <1>8, <2>2, <2>4, <3>1
    <2>5. CASE IsClock(t) /\ ~(t.period < MinPeriod)
        <3>1. hpet' = [mapped |-> TRUE, enabled |-> TRUE, multiplier |-> t.period \div MinPeriod,
                       start |-> 0]
            BY <1>4, <2>5 DEF IsClock, InitHpet
        <3> QED BY <2>1, <2>2, <2>5, <3>1
    <2> QED BY <2>3, <2>4, <2>5
<1>10. hpet'.enabled <=> /\ RootIsSound
                         /\ ClocksSeen' # {}
                         /\ TablesListed[Max(ClocksSeen')].period >= MinPeriod
    <2>1. CASE IsClock(t)
        <3>1. ClocksSeen' \in SUBSET Nat /\ acpiNext \in ClocksSeen'
            BY <1>1, <1>3, <1>5, <1>7, <2>1
        <3>2. \A m \in ClocksSeen' : m <= acpiNext
            BY <1>5, <1>7
        <3>3. PICK seen : seen = ClocksSeen'
            OBVIOUS
        <3>4. Max(seen) = acpiNext
            BY <3>1, <3>2, <3>3, LargestIs
        <3> QED BY <1>1, <1>3, <1>9, <2>1, <3>1, <3>3, <3>4
    <2>2. CASE ~IsClock(t)
        <3>1. \A i \in DOMAIN TablesListed :
                  IsClock(TablesListed[i]) => (i < acpiNext + 1 <=> i < acpiNext)
            BY <1>3, <1>5, <2>2
        <3>2. ClocksSeen' = ClocksSeen
            BY <1>7, <3>1 DEF ClocksSeen
        <3>3. hpet.enabled <=> /\ RootIsSound
                               /\ ClocksSeen # {}
                               /\ TablesListed[Max(ClocksSeen)].period >= MinPeriod
            BY DEF AcpiInv
        <3> QED BY <1>9, <2>2, <3>2, <3>3
    <2> QED BY <2>1, <2>2
<1>11. rsdp \in [rev : {0, 2}, sum : BOOLEAN, xsum : BOOLEAN, root : BOOLEAN]
    BY DEF AcpiInv
<1>12. Max(ClocksSeen)' = Max(ClocksSeen')
    OBVIOUS
<1> QED BY <1>1, <1>2, <1>5, <1>9, <1>10, <1>11, <1>12 DEF AcpiInv

LEMMA AcpiAlways == MemorySpec => []AcpiInv
<1>1. MemoryInit => AcpiInv
    <2> SUFFICES ASSUME AcpiInit PROVE AcpiInv
        BY DEF MemoryInit
    <2>1. /\ acpiNext = 0 /\ hpet = NoHpet /\ rsdtTables = <<>> /\ xsdtTables = <<>>
          /\ rsdp = [rev |-> 0, sum |-> FALSE, xsum |-> FALSE, root |-> FALSE]
        BY DEF AcpiInit
    <2>2. TableList(<<>>)
        <3>1. <<>> \in [1 .. 0 -> AcpiTables] /\ 0 \in Nat
            OBVIOUS
        <3> QED BY <3>1 DEF TableList
    <2>3. ~RootIsSound /\ ~hpet.enabled
        BY <2>1 DEF RootIsSound, NoHpet
    <2>4. hpet \in [mapped : BOOLEAN, enabled : BOOLEAN, multiplier : Int, start : {0}]
        BY <2>1 DEF NoHpet
    <2> QED BY <2>1, <2>2, <2>3, <2>4 DEF AcpiInv
<1>2. AcpiInv /\ [MemoryNext]_memoryVars => AcpiInv'
    <2> SUFFICES ASSUME AcpiInv, [MemoryNext]_memoryVars PROVE AcpiInv'
        OBVIOUS
    <2>1. AcpiStep \/ UNCHANGED acpiVars
        BY DEF MemoryNext, memoryVars, BootVars
    <2>2. ASSUME UNCHANGED <<rsdp, rsdtTables, xsdtTables, acpiNext, hpet>> PROVE AcpiInv'
        <3>1. TablesListed' = TablesListed /\ (RootIsSound' <=> RootIsSound)
            BY <2>2 DEF TablesListed, RootIsSound
        <3>2. ClocksSeen' = ClocksSeen
            BY <2>2, <3>1 DEF ClocksSeen
        <3> QED BY <2>2, <3>1, <3>2 DEF AcpiInv
    <2>3. ASSUME NEW rev \in {0, 2}, NEW sum \in BOOLEAN, NEW xsum \in BOOLEAN, NEW root \in BOOLEAN,
                 NEW n \in 0 .. MaxTables, NEW rsdt \in [1 .. n -> AcpiTables],
                 NEW xsdt \in [1 .. MaxTables - n -> AcpiTables],
                 InitRsdp([rev |-> rev, sum |-> sum, xsum |-> xsum, root |-> root], rsdt, xsdt)
          PROVE  AcpiInv'
        <3>1. /\ acpiNext = 0 /\ acpiNext' = 1 /\ hpet' = hpet
              /\ rsdp' = [rev |-> rev, sum |-> sum, xsum |-> xsum, root |-> root]
              /\ rsdtTables' = rsdt /\ xsdtTables' = xsdt
            BY <2>3 DEF InitRsdp
        <3>2. TableList(rsdt) /\ TableList(xsdt)
            <4>1. n \in Nat /\ MaxTables - n \in Nat
                BY AcpiAssumption
            <4> QED BY <4>1 DEF TableList
        <3>3. ClocksSeen = {} /\ ~hpet.enabled
            <4>1. \A i \in DOMAIN TablesListed : i \in Nat
                BY ListedTables DEF AcpiInv
            <4>2. ClocksSeen = {}
                BY <3>1, <4>1 DEF ClocksSeen
            <4> QED BY <4>2 DEF AcpiInv
        <3>4. ClocksSeen' = {}
            <4>1. TableList(rsdtTables') /\ TableList(xsdtTables')
                BY <3>1, <3>2
            <4>2. PICK listed : listed = TablesListed'
                OBVIOUS
            <4>3. TableList(listed)
                BY <4>1, <4>2 DEF TablesListed
            <4>4. \A i \in DOMAIN listed : i \in Nat /\ i > 0
                BY <4>3 DEF TableList
            <4> QED BY <3>1, <4>2, <4>4 DEF ClocksSeen
        <3>5. rsdp' \in [rev : {0, 2}, sum : BOOLEAN, xsum : BOOLEAN, root : BOOLEAN]
            BY <3>1
        <3> QED BY <3>1, <3>2, <3>3, <3>4, <3>5 DEF AcpiInv
    <2>4. CASE AcpiStep
        BY <2>2, <2>3, <2>4, TableInv, ZenonT(40) DEF AcpiStep, Tick, ClockRead
    <2> QED BY <2>1, <2>2, <2>4 DEF acpiVars
<1> QED BY <1>1, <1>2, PTL DEF MemorySpec, memoryVars

\* For any tables of the firmware, intact or not, the clock is the last HPET
\* that can be used (acpi_process_table, init_hpet).
THEOREM ClockIsAlwaysFound == MemorySpec => []ClockIsFound
<1>1. AcpiInv => ClockIsFound
    <2> SUFFICES ASSUME AcpiInv, AcpiDone PROVE ClockIsFound
        BY DEF ClockIsFound
    <2> DEFINE clocks == {i \in DOMAIN TablesListed :
                             TablesListed[i].hpet /\ TablesListed[i].valid /\ TablesListed[i].memory}
               good == rsdp.sum /\ rsdp.root /\ (rsdp.rev = 0 \/ rsdp.xsum)
    <2>1. good <=> RootIsSound
        <3>1. rsdp.rev \in {0, 2}
            BY DEF AcpiInv
        <3> QED BY <3>1 DEF RootIsSound
    <2>2. RootIsSound => ClocksSeen = clocks
        <3> SUFFICES ASSUME RootIsSound PROVE ClocksSeen = clocks
            OBVIOUS
        <3>1. acpiNext > Len(TablesListed) /\ acpiNext \in Nat
            BY DEF AcpiDone, AcpiInv
        <3>2. Len(TablesListed) \in Nat /\ DOMAIN TablesListed = 1 .. Len(TablesListed)
            BY ListedTables DEF AcpiInv
        <3>3. \A i \in DOMAIN TablesListed : i < acpiNext
            BY <3>1, <3>2
        <3> QED BY <3>3 DEF ClocksSeen, IsClock
    <2>3. hpet.enabled <=> good /\ clocks # {} /\ TablesListed[Max(clocks)].period >= MinPeriod
        BY <2>1, <2>2 DEF AcpiInv
    <2> QED BY <2>3 DEF ClockIsFound, TablesListed
<1> QED BY <1>1, AcpiAlways, PTL

-----------------------------------------------------------------------------
(* The program *)

LEMMA SmallerIs ==
    ASSUME NEW a \in Int, NEW b \in Int
    PROVE  Min({a, b}) = IF a <= b THEN a ELSE b
<1>1. PICK c \in {a, b} : \A d \in {a, b} : c <= d
    OBVIOUS
<1>2. Min({a, b}) \in {a, b} /\ \A d \in {a, b} : Min({a, b}) <= d
    BY <1>1 DEF Min
<1> QED BY <1>2

LEMMA LargerIs ==
    ASSUME NEW a \in Nat, NEW b \in Nat
    PROVE  Max({a, b}) = IF a >= b THEN a ELSE b
<1>1. {a, b} \in SUBSET Nat
    OBVIOUS
<1>2. CASE a >= b
    <2>1. a \in {a, b} /\ \A m \in {a, b} : m <= a
        BY <1>2
    <2> QED BY <1>1, <1>2, <2>1, LargestIs
<1>3. CASE ~(a >= b)
    <2>1. b \in {a, b} /\ \A m \in {a, b} : m <= b
        BY <1>3
    <2> QED BY <1>1, <1>3, <2>1, LargestIs
<1> QED BY <1>2, <1>3

LEMMA PageSize == ElfPage \in Nat /\ ElfPage > 0 /\ ElfPage \in Nat \ {0}
BY ElfAssumption

LEMMA PageIs ==
    ASSUME NEW b \in Nat
    PROVE  /\ b \div ElfPage \in Nat /\ FirstByte(b) \in Nat /\ b % ElfPage \in Nat
           /\ FirstByte(b) = (b \div ElfPage) * ElfPage
           /\ FirstByte(b) + (b % ElfPage) = b
           /\ b % ElfPage < ElfPage
<1> DEFINE q == b \div ElfPage
           r == b % ElfPage
<1>1. q \in Nat /\ r \in 0 .. ElfPage - 1 /\ ElfPage * q = b - r
    BY PageSize, Division
<1>2. FirstByte(b) = q * ElfPage
    BY DEF FirstByte
<1> HIDE DEF q, r
<1>3. q * ElfPage = ElfPage * q
    BY <1>1, PageSize
<1>4. FirstByte(b) \in Nat /\ r \in Nat /\ FirstByte(b) + r = b /\ r < ElfPage
    BY <1>1, <1>2, <1>3, PageSize
<1> QED BY <1>1, <1>2, <1>4 DEF q, r

LEMMA WholePages ==
    ASSUME NEW q \in Nat
    PROVE  /\ q * ElfPage \in Nat
           /\ (q * ElfPage) \div ElfPage = q
           /\ FirstByte(q * ElfPage) = q * ElfPage
           /\ (q * ElfPage) % ElfPage = 0
<1>1. q * ElfPage \in Nat
    BY PageSize
<1>2. (q * ElfPage) \div ElfPage = q
    BY PageSize, QuotientIs
<1>3. FirstByte(q * ElfPage) = q * ElfPage
    BY <1>2 DEF FirstByte
<1>4. PICK b \in Nat : b = q * ElfPage
    BY <1>1
<1>5. FirstByte(b) + (b % ElfPage) = b /\ b % ElfPage \in Nat /\ FirstByte(b) = b
    BY <1>3, <1>4, PageIs
<1>6. b % ElfPage = 0
    BY <1>5
<1> QED BY <1>1, <1>2, <1>3, <1>4, <1>6

LEMMA SamePage ==
    ASSUME NEW b \in Nat, NEW c \in Nat
    PROVE  /\ FirstByte(b) = FirstByte(c) <=> b \div ElfPage = c \div ElfPage
           /\ FirstByte(b) = FirstByte(c) <=> c \in FirstByte(b) .. FirstByte(b) + ElfPage - 1
<1>1. PICK q \in Nat, r \in Nat : q = b \div ElfPage /\ r = c \div ElfPage
    BY PageIs
<1>2. /\ FirstByte(b) = q * ElfPage /\ FirstByte(c) = r * ElfPage
      /\ FirstByte(b) \in Nat /\ FirstByte(c) \in Nat
    BY <1>1, PageIs
<1>3. FirstByte(c) <= c /\ c < FirstByte(c) + ElfPage
    <2>1. FirstByte(c) + (c % ElfPage) = c /\ c % ElfPage \in Nat /\ c % ElfPage < ElfPage
        BY PageIs
    <2>2. PICK x : x = c % ElfPage
        OBVIOUS
    <2> QED BY <1>2, <2>1, <2>2, PageSize
<1>4. q * ElfPage = r * ElfPage => q = r
    <2>1. (q * ElfPage) \div ElfPage = q /\ (r * ElfPage) \div ElfPage = r
        BY WholePages
    <2> QED BY <2>1
<1>5. FirstByte(b) = FirstByte(c) <=> q = r
    BY <1>2, <1>4
<1>6. ASSUME FirstByte(b) <= c, c < FirstByte(b) + ElfPage PROVE q = r
    <2>1. q < r => ElfPage * (q + 1) <= ElfPage * r
        BY PageSize, TimesGrows
    <2>2. r < q => ElfPage * (r + 1) <= ElfPage * q
        BY PageSize, TimesGrows
    <2>3. /\ ElfPage * (q + 1) = q * ElfPage + ElfPage /\ ElfPage * r = r * ElfPage
          /\ ElfPage * (r + 1) = r * ElfPage + ElfPage /\ ElfPage * q = q * ElfPage
        BY PageSize
    <2> QED BY <1>2, <1>3, <1>6, <2>1, <2>2, <2>3, PageSize
<1>7. c \in FirstByte(b) .. FirstByte(b) + ElfPage - 1 <=>
          FirstByte(b) <= c /\ c < FirstByte(b) + ElfPage
    BY <1>2, PageSize
<1> QED BY <1>1, <1>3, <1>5, <1>6, <1>7

\* A byte of a segment in the page that is mapped at offset j.
LEMMA PageByteIs ==
    ASSUME NEW s \in Segments, NEW i, NEW j \in Nat, NEW o \in Nat, j <= o,
           FirstByte(s.vaddr + j) = FirstByte(s.vaddr + o)
    PROVE  PageByte(s, i, j, s.vaddr + o) = IF o < s.file THEN <<i, o>> ELSE <<>>
<1>1. PICK v \in Nat, f \in Nat : v = s.vaddr /\ f = s.file
    BY ElfAssumption
<1>2. PICK first, offset : first = FirstByte(v + j) /\ offset = (v + j) % ElfPage
    OBVIOUS
<1>3. first \in Nat /\ offset \in Nat /\ first + offset = v + j /\ offset < ElfPage
    <2>1. v + j \in Nat
        OBVIOUS
    <2> QED BY <1>2, <2>1, PageIs
<1>4. v + o < first + ElfPage
    <2>1. PICK x \in Nat, y \in Nat : x = v + j /\ y = v + o
        OBVIOUS
    <2>2. FirstByte(x) = FirstByte(y) /\ FirstByte(x) = first
        BY <1>1, <1>2, <2>1
    <2>3. y \in FirstByte(x) .. FirstByte(x) + ElfPage - 1
        BY <2>2, SamePage
    <2> QED BY <1>3, <2>1, <2>2, <2>3, PageSize
<1>5. PICK at : at = (v + o) - first
    OBVIOUS
<1>6. PICK toCopy : toCopy = IF j < f THEN Min({f - j, ElfPage - offset}) ELSE 0
    OBVIOUS
<1>7. PageByte(s, i, j, s.vaddr + o) =
          IF at \in offset .. offset + toCopy - 1 THEN <<i, j + (at - offset)>> ELSE <<>>
    BY <1>1, <1>2, <1>5, <1>6 DEF PageByte
<1>8. at - offset = o - j /\ at \in Int /\ at < ElfPage /\ j + (at - offset) = o /\ at >= offset
    BY <1>3, <1>4, <1>5, PageSize
<1>9. at \in offset .. offset + toCopy - 1 <=> o < f
    <2>1. CASE j < f
        <3>1. toCopy = IF f - j <= ElfPage - offset THEN f - j ELSE ElfPage - offset
            BY <1>3, <1>6, <2>1, SmallerIs, PageSize
        <3> QED BY <1>3, <1>8, <2>1, <3>1, PageSize
    <2>2. CASE ~(j < f)
        <3>1. toCopy = 0
            BY <1>6, <2>2
        <3> QED BY <1>3, <1>8, <2>2, <3>1
    <2> QED BY <2>1, <2>2
<1> QED BY <1>1, <1>7, <1>8, <1>9

\* The offset of page n of a segment.
PageStart(s, n) == IF n = 0 THEN 0 ELSE ((s.vaddr \div ElfPage) + n) * ElfPage - s.vaddr

Regular(s) == s.file > 0 \/ s.vaddr % ElfPage = 0

LEMMA PageStartIs ==
    ASSUME NEW s \in Segments, NEW n \in Nat
    PROVE  /\ PageStart(s, n) \in Nat /\ n <= PageStart(s, n)
           /\ s.vaddr \div ElfPage \in Nat /\ s.vaddr \in Nat
           /\ s.vaddr + PageStart(s, n) \in Nat
           /\ (s.vaddr + PageStart(s, n)) \div ElfPage = (s.vaddr \div ElfPage) + n
           /\ n # 0 => (s.vaddr + PageStart(s, n)) % ElfPage = 0
<1>1. PICK v \in Nat : v = s.vaddr
    BY ElfAssumption
<1>2. PICK q \in Nat : q = v \div ElfPage
    BY PageIs
<1>3. PICK r \in Nat : r = v % ElfPage
    BY PageIs
<1>4. q * ElfPage + r = v /\ r < ElfPage /\ q * ElfPage \in Nat
    BY <1>2, <1>3, PageIs
<1>5. CASE n = 0
    <2>1. PageStart(s, n) = 0
        BY <1>5 DEF PageStart
    <2> QED BY <1>1, <1>2, <1>5, <2>1
<1>6. CASE n # 0
    <2>1. PICK k \in Nat : k = q + n
        OBVIOUS
    <2>2. PageStart(s, n) = k * ElfPage - v
        BY <1>1, <1>2, <1>6, <2>1 DEF PageStart
    <2>3. k * ElfPage = q * ElfPage + n * ElfPage
        BY <2>1, PageSize
    <2>4. n * ElfPage - ElfPage + 1 >= n /\ n * ElfPage \in Nat
        <3>1. PICK e \in Nat, m \in Nat : e = ElfPage - 1 /\ m = n - 1
            BY <1>6, PageSize
        <3>2. e * m >= 0 /\ e * m \in Int
            OBVIOUS
        <3>3. n * ElfPage = e * m + e + m + 1
            <4>1. n = m + 1 /\ ElfPage = e + 1
                BY <3>1, PageSize
            <4> QED BY <4>1
        <3> QED BY <3>1, <3>2, <3>3, PageSize
    <2>5. PageStart(s, n) \in Nat /\ n <= PageStart(s, n) /\ v + PageStart(s, n) = k * ElfPage
        BY <1>4, <2>2, <2>3, <2>4, PageSize
    <2>6. (k * ElfPage) \div ElfPage = k /\ (k * ElfPage) % ElfPage = 0 /\ k * ElfPage \in Nat
        BY WholePages
    <2> QED BY <1>1, <1>2, <2>1, <2>5, <2>6
<1> QED BY <1>5, <1>6

LEMMA NextPage ==
    ASSUME NEW s \in Segments, Regular(s), NEW n \in Nat
    PROVE  NextOffset(s, PageStart(s, n)) = PageStart(s, n + 1)
<1>1. PICK v \in Nat, f \in Nat : v = s.vaddr /\ f = s.file
    BY ElfAssumption
<1>2. PICK q \in Nat : q = v \div ElfPage
    BY PageIs
<1>3. PageStart(s, n + 1) = (q + (n + 1)) * ElfPage - v
    BY <1>1, <1>2 DEF PageStart
<1>4. (q + (n + 1)) * ElfPage = q * ElfPage + n * ElfPage + ElfPage
    BY PageSize
<1>5. q * ElfPage \in Nat /\ n * ElfPage \in Nat
    BY PageSize
<1>6. CASE n = 0
    <2>1. PageStart(s, n) = 0
        BY <1>6 DEF PageStart
    <2>2. PICK r \in Nat : r = v % ElfPage
        BY PageIs
    <2>3. q * ElfPage + r = v
        BY <1>2, <2>2, PageIs
    <2>4. NextOffset(s, 0) = IF 0 < f THEN 0 + ElfPage - r ELSE 0 + ElfPage
        BY <1>1, <2>2 DEF NextOffset
    <2>5. f > 0 \/ r = 0
        BY <1>1, <2>2 DEF Regular
    <2>6. n * ElfPage = 0
        BY <1>6, PageSize
    <2> QED BY <1>3, <1>4, <1>5, <2>1, <2>3, <2>4, <2>5, <2>6, PageSize
<1>7. CASE n # 0
    <2>1. PICK j \in Nat : j = PageStart(s, n)
        BY PageStartIs
    <2>2. (v + j) % ElfPage = 0
        BY <1>1, <1>7, <2>1, PageStartIs
    <2>3. NextOffset(s, j) = j + ElfPage
        BY <1>1, <2>2, PageSize DEF NextOffset
    <2>4. j = (q + n) * ElfPage - v
        BY <1>1, <1>2, <1>7, <2>1 DEF PageStart
    <2>5. (q + n) * ElfPage = q * ElfPage + n * ElfPage
        BY PageSize
    <2> QED BY <1>3, <1>4, <1>5, <2>1, <2>3, <2>4, <2>5, PageSize
<1> QED BY <1>6, <1>7

\* The loop of load_elf maps the pages one after the other.
LEMMA OffsetsAre ==
    ASSUME NEW s \in Segments, Regular(s)
    PROVE  PageOffsets(s) = {PageStart(s, n) : n \in 0 .. s.mem} \cap (0 .. s.mem - 1)
<1>1. PICK len \in Nat : len = s.mem
    BY ElfAssumption
<1> DEFINE at[n \in 0 .. s.mem] == IF n = 0 THEN 0 ELSE NextOffset(s, at[n - 1])
           IsAt(f) == f = [n \in 0 .. s.mem |-> IF n = 0 THEN 0 ELSE NextOffset(s, f[n - 1])]
           starts == [n \in 0 .. s.mem |-> PageStart(s, n)]
<1>2. IsAt(starts)
    <2>1. PageStart(s, 0) = 0
        BY DEF PageStart
    <2>2. ASSUME NEW n \in 0 .. s.mem, n # 0
          PROVE  PageStart(s, n) = NextOffset(s, starts[n - 1])
        <3>1. n - 1 \in 0 .. s.mem /\ n - 1 \in Nat /\ (n - 1) + 1 = n
            BY <1>1, <2>2
        <3>2. starts[n - 1] = PageStart(s, n - 1)
            BY <3>1
        <3>3. PICK m \in Nat : m = n - 1
            BY <3>1
        <3>4. NextOffset(s, PageStart(s, m)) = PageStart(s, m + 1)
            BY NextPage
        <3> QED BY <3>1, <3>2, <3>3, <3>4
    <2> QED BY <2>1, <2>2
<1>3. ASSUME NEW f, IsAt(f) PROVE f = starts
    <2> DEFINE same == {n \in Nat : n <= s.mem => f[n] = starts[n]}
    <2> HIDE DEF starts
    <2>1. 0 \in same
        <3>1. 0 \in 0 .. s.mem
            BY <1>1
        <3>2. f[0] = 0 /\ starts[0] = 0
            BY <1>2, <1>3, <3>1
        <3> QED BY <3>2
    <2>2. ASSUME NEW n \in same PROVE n + 1 \in same
        <3>1. n \in Nat /\ (n + 1) - 1 = n
            OBVIOUS
        <3>2. CASE n + 1 <= s.mem
            <4>1. n + 1 \in 0 .. s.mem /\ n + 1 # 0 /\ f[n] = starts[n]
                BY <1>1, <2>2, <3>1, <3>2
            <4>2. f[n + 1] = NextOffset(s, f[n])
                BY <1>3, <3>1, <4>1
            <4>3. starts[n + 1] = NextOffset(s, starts[n])
                BY <1>2, <3>1, <4>1
            <4> QED BY <3>1, <4>1, <4>2, <4>3
        <3> QED BY <3>1, <3>2
    <2> HIDE DEF same
    <2>3. same = Nat
        <3>1. same \in SUBSET Nat
            BY DEF same
        <3> QED BY <2>1, <2>2, <3>1, CountingUp
    <2>4. \A n \in 0 .. s.mem : f[n] = starts[n]
        <3>1. \A n \in 0 .. s.mem : n \in same /\ n <= s.mem
            BY <1>1, <2>3
        <3> QED BY <3>1 DEF same
    <2>5. f = [n \in 0 .. s.mem |-> f[n]] /\ starts = [n \in 0 .. s.mem |-> starts[n]]
        <3>1. starts = [n \in 0 .. s.mem |-> starts[n]]
            BY DEF starts
        <3>2. f = [n \in 0 .. s.mem |-> f[n]]
            BY <1>3
        <3> QED BY <3>1, <3>2
    <2> QED BY <2>4, <2>5
<1>4. at = CHOOSE f : IsAt(f)
    BY DEF at
<1>5. at = starts
    <2> HIDE DEF IsAt, starts
    <2> QED BY <1>2, <1>3, <1>4
<1>6. PageOffsets(s) = {at[n] : n \in 0 .. s.mem} \cap (0 .. s.mem - 1)
    BY DEF PageOffsets, at
<1> HIDE DEF at
<1>7. \A n \in 0 .. s.mem : at[n] = PageStart(s, n)
    BY <1>5
<1> QED BY <1>6, <1>7

\* Where a byte of a segment comes from: one page, mapped in front of it.
LEMMA PageOver ==
    ASSUME NEW s \in Segments, Regular(s), NEW o \in 0 .. s.mem - 1
    PROVE  \E j \in PageOffsets(s) :
               /\ j \in Nat /\ j <= o
               /\ {k \in PageOffsets(s) : FirstByte(s.vaddr + k) = FirstByte(s.vaddr + o)} = {j}
<1>1. PICK v \in Nat, len \in Nat : v = s.vaddr /\ len = s.mem
    BY ElfAssumption
<1>2. o \in Nat /\ o < len /\ v + o \in Nat
    BY <1>1
<1>3. PICK q \in Nat, p \in Nat : q = v \div ElfPage /\ p = (v + o) \div ElfPage
    BY <1>2, PageIs
<1>4. q <= p
    BY <1>2, <1>3, PageSize, DivisionGrows
<1>5. PICK n \in Nat : q + n = p
    <2>1. p - q \in Nat /\ q + (p - q) = p
        BY <1>4
    <2> QED BY <2>1
<1>6. PICK j \in Nat : j = PageStart(s, n)
    BY PageStartIs
<1>7. n <= j /\ v + j \in Nat /\ (v + j) \div ElfPage = p
    BY <1>1, <1>3, <1>5, <1>6, PageStartIs
<1>8. FirstByte(v + j) = FirstByte(v + o)
    BY <1>2, <1>3, <1>7, SamePage
<1>9. j <= o
    <2>1. CASE n = 0
        BY <1>2, <1>6, <2>1 DEF PageStart
    <2>2. CASE n # 0
        <3>1. PICK b \in Nat, c \in Nat : b = v + j /\ c = v + o
            BY <1>2, <1>7
        <3>2. FirstByte(b) + (b % ElfPage) = b /\ b % ElfPage = 0
            BY <1>1, <1>6, <2>2, <3>1, PageIs, PageStartIs
        <3>3. FirstByte(c) + (c % ElfPage) = c /\ c % ElfPage \in Nat /\ FirstByte(c) \in Nat
            BY PageIs
        <3>4. FirstByte(b) = FirstByte(c)
            BY <1>8, <3>1
        <3>5. PICK x \in Nat, y \in Nat : x = FirstByte(c) /\ y = c % ElfPage
            BY <3>3
        <3>6. b = x /\ x + y = c
            BY <3>2, <3>3, <3>4, <3>5
        <3> QED BY <1>2, <3>1, <3>6
    <2> QED BY <2>1, <2>2
<1>10. PageOffsets(s) = {PageStart(s, m) : m \in 0 .. s.mem} \cap (0 .. s.mem - 1)
    BY OffsetsAre
<1>11. j \in PageOffsets(s)
    <2>1. n \in 0 .. s.mem /\ j \in 0 .. s.mem - 1
        BY <1>1, <1>2, <1>7, <1>9
    <2> QED BY <1>6, <1>10, <2>1
<1>12. ASSUME NEW k \in PageOffsets(s), FirstByte(v + k) = FirstByte(v + o)
       PROVE  k = j
    <2>1. PICK m \in 0 .. s.mem : k = PageStart(s, m)
        BY <1>10
    <2>2. m \in Nat
        BY <1>1
    <2>3. k \in Nat /\ v + k \in Nat /\ (v + k) \div ElfPage = q + m
        BY <1>1, <1>3, <2>1, <2>2, PageStartIs
    <2>4. (v + k) \div ElfPage = p
        BY <1>2, <1>3, <1>12, <2>3, SamePage
    <2>5. m = n
        BY <1>5, <2>2, <2>3, <2>4
    <2> QED BY <1>6, <2>1, <2>5
<1> QED BY <1>1, <1>8, <1>9, <1>11, <1>12

\* A segment is in the image as the file says, and nothing outside its pages
\* has changed.
Placed(image, i, s) ==
    \A o \in 0 .. s.mem - 1 :
        /\ s.vaddr + o \in DOMAIN image
        /\ image[s.vaddr + o] = IF o < s.file THEN <<i, o>> ELSE <<>>

LEMMA SegmentIsPlaced ==
    ASSUME NEW s \in Segments, Regular(s), NEW i, NEW image, NEW after,
           after = LoadSegment(image, s, i)
    PROVE  /\ Placed(after, i, s)
           /\ \A b \in DOMAIN image : b \in Nat /\ b \div ElfPage \notin SegmentPages(s) =>
                  b \in DOMAIN after /\ after[b] = image[b]
<1> DEFINE over(b) == {j \in PageOffsets(s) : FirstByte(s.vaddr + j) = FirstByte(b)}
           mapped == UNION {FirstByte(s.vaddr + j) .. FirstByte(s.vaddr + j) + ElfPage - 1 :
                               j \in PageOffsets(s)}
<1>1. after = [b \in DOMAIN image \cup mapped |->
                  IF b \in mapped THEN PageByte(s, i, Max(over(b)), b) ELSE image[b]]
    BY DEF LoadSegment
<1>2. PICK v \in Nat, len \in Nat : v = s.vaddr /\ len = s.mem
    BY ElfAssumption
<1>3. ASSUME NEW o \in 0 .. s.mem - 1
      PROVE  /\ s.vaddr + o \in DOMAIN after
             /\ after[s.vaddr + o] = IF o < s.file THEN <<i, o>> ELSE <<>>
    <2>1. PICK j \in PageOffsets(s) : j \in Nat /\ j <= o /\ over(s.vaddr + o) = {j}
        BY PageOver
    <2>2. o \in Nat
        BY <1>2
    <2>3. FirstByte(s.vaddr + j) = FirstByte(s.vaddr + o)
        BY <2>1
    <2>4. PICK b \in Nat : b = s.vaddr + o
        BY <1>2, <2>2
    <2>5. b \in mapped
        <3>1. PICK a \in Nat : a = s.vaddr + j
            BY <1>2, <2>1
        <3>2. b \in FirstByte(a) .. FirstByte(a) + ElfPage - 1
            BY <2>3, <2>4, <3>1, SamePage
        <3> QED BY <3>1, <3>2
    <2>6. Max(over(b)) = j
        <3>1. over(b) = {j}
            BY <2>1, <2>4
        <3> HIDE DEF over
        <3>2. Max({j}) = j
            <4>1. {j} \in SUBSET Nat /\ j \in {j} /\ \A m \in {j} : m <= j
                BY <2>1
            <4> QED BY <4>1, LargestIs
        <3> QED BY <3>1, <3>2
    <2>7. PageByte(s, i, j, s.vaddr + o) = IF o < s.file THEN <<i, o>> ELSE <<>>
        BY <2>1, <2>2, <2>3, PageByteIs
    <2> HIDE DEF over, mapped
    <2> QED BY <1>1, <2>4, <2>5, <2>6, <2>7
<1>4. ASSUME NEW b \in DOMAIN image, b \in Nat, b \div ElfPage \notin SegmentPages(s)
      PROVE  b \in DOMAIN after /\ after[b] = image[b]
    <2>1. ASSUME b \in mapped PROVE FALSE
        <3>1. PICK j \in PageOffsets(s) :
                  b \in FirstByte(s.vaddr + j) .. FirstByte(s.vaddr + j) + ElfPage - 1
            BY <2>1
        <3>2. j \in 0 .. s.mem - 1
            BY OffsetsAre
        <3>3. PICK a \in Nat : a = s.vaddr + j
            BY <1>2, <3>2
        <3>4. a \div ElfPage = b \div ElfPage
            BY <1>4, <3>1, <3>3, SamePage
        <3>5. a \in s.vaddr .. s.vaddr + s.mem - 1
            BY <1>2, <3>2, <3>3
        <3> QED BY <1>4, <3>4, <3>5 DEF SegmentPages
    <2> HIDE DEF mapped, over
    <2> QED BY <1>1, <2>1
<1> HIDE DEF over, mapped
<1>5. Placed(after, i, s)
    BY <1>3 DEF Placed
<1> QED BY <1>4, <1>5

\* What has been loaded so far is there, if the file is one the loader can
\* handle; the data ends behind it.
ElfInv ==
    /\ elfNext \in Nat /\ dataStart = 0 /\ dataEnd \in Nat
    /\ \E n \in Nat : elfHeaders \in [1 .. n -> Segments]
    /\ \A i \in DOMAIN elfHeaders : i < elfNext /\ IsLoaded(elfHeaders[i]) =>
          /\ Loadable => Placed(elfImage, i, elfHeaders[i])
          /\ elfHeaders[i].vaddr + elfHeaders[i].mem < dataEnd
    /\ elfNext > Len(elfHeaders) + 1 => dataEnd % ElfPage = 0

LEMMA HeadersAre ==
    ASSUME ElfInv
    PROVE  /\ Len(elfHeaders) \in Nat /\ DOMAIN elfHeaders = 1 .. Len(elfHeaders)
           /\ \A i \in DOMAIN elfHeaders : i \in Nat /\ i > 0 /\ elfHeaders[i] \in Segments
<1>1. PICK n \in Nat : elfHeaders \in [1 .. n -> Segments]
    BY DEF ElfInv
<1>2. elfHeaders \in Seq(Segments)
    BY <1>1
<1> QED BY <1>1, <1>2

LEMMA LoadHeaderInv == ElfInv /\ LoadHeader => ElfInv'
<1> SUFFICES ASSUME ElfInv, LoadHeader PROVE ElfInv'
    OBVIOUS
<1>1. elfNext \in DOMAIN elfHeaders /\ elfNext' = elfNext + 1 /\ elfHeaders' = elfHeaders
    BY DEF LoadHeader
<1>2. PICK s : s = elfHeaders[elfNext]
    OBVIOUS
<1>3. /\ elfNext \in Nat /\ dataStart = 0 /\ dataEnd \in Nat
      /\ \E n \in Nat : elfHeaders \in [1 .. n -> Segments]
    BY DEF ElfInv
<1>4. /\ Len(elfHeaders) \in Nat /\ DOMAIN elfHeaders = 1 .. Len(elfHeaders)
      /\ \A i \in DOMAIN elfHeaders : i \in Nat /\ i > 0 /\ elfHeaders[i] \in Segments
    BY HeadersAre
<1>5. s \in Segments /\ s.vaddr \in Nat /\ s.mem \in Nat
    BY <1>1, <1>2, <1>4, ElfAssumption
<1>6. Loadable' <=> Loadable
    BY <1>1 DEF Loadable
<1>7. ~(elfNext' > Len(elfHeaders') + 1)
    BY <1>1, <1>4
<1>8. \A i \in DOMAIN elfHeaders : i < elfNext' <=> i < elfNext \/ i = elfNext
    BY <1>1, <1>3, <1>4
<1>9. CASE ~IsLoaded(s)
    <2>1. elfImage' = elfImage /\ dataStart' = dataStart /\ dataEnd' = dataEnd
        BY <1>2, <1>9 DEF LoadHeader
    <2>2. ASSUME NEW i \in DOMAIN elfHeaders', i < elfNext', IsLoaded(elfHeaders'[i])
          PROVE  /\ Loadable' => Placed(elfImage', i, elfHeaders'[i])
                 /\ elfHeaders'[i].vaddr + elfHeaders'[i].mem < dataEnd'
        <3>1. i \in DOMAIN elfHeaders /\ i < elfNext /\ IsLoaded(elfHeaders[i])
            BY <1>1, <1>2, <1>8, <1>9, <2>2
        <3>2. /\ Loadable => Placed(elfImage, i, elfHeaders[i])
              /\ elfHeaders[i].vaddr + elfHeaders[i].mem < dataEnd
            BY <3>1 DEF ElfInv
        <3> QED BY <1>1, <1>6, <2>1, <3>2
    <2> QED BY <1>1, <1>3, <1>7, <2>1, <2>2 DEF ElfInv
<1>10. CASE IsLoaded(s)
    <2>1. /\ elfImage' = LoadSegment(elfImage, s, elfNext)
          /\ dataEnd' = Max({dataEnd, s.vaddr + s.mem + 1})
          /\ dataStart' = Min({dataStart, s.vaddr})
        BY <1>2, <1>10 DEF LoadHeader
    <2>2. dataStart' = 0
        BY <1>3, <1>5, <2>1, SmallerIs
    <2>3. dataEnd' \in Nat /\ dataEnd' >= dataEnd /\ dataEnd' > s.vaddr + s.mem
        <3>1. PICK e \in Nat : e = s.vaddr + s.mem + 1
            BY <1>5
        <3>2. dataEnd' = IF dataEnd >= e THEN dataEnd ELSE e
            BY <1>3, <2>1, <3>1, LargerIs
        <3> QED BY <1>3, <1>5, <3>1, <3>2
    <2>4. ASSUME Loadable
          PROVE  /\ Placed(elfImage', elfNext, s)
                 /\ \A b \in DOMAIN elfImage : b \in Nat /\ b \div ElfPage \notin SegmentPages(s) =>
                        b \in DOMAIN elfImage' /\ elfImage'[b] = elfImage[b]
        <3>1. Regular(s)
            BY <1>1, <1>2, <1>10, <2>4 DEF Loadable, Regular
        <3>2. PICK after : after = LoadSegment(elfImage, s, elfNext)
            OBVIOUS
        <3>3. /\ Placed(after, elfNext, s)
              /\ \A b \in DOMAIN elfImage : b \in Nat /\ b \div ElfPage \notin SegmentPages(s) =>
                     b \in DOMAIN after /\ after[b] = elfImage[b]
            BY <1>5, <3>1, <3>2, SegmentIsPlaced
        <3> QED BY <2>1, <3>2, <3>3
    <2>5. ASSUME NEW i \in DOMAIN elfHeaders, i < elfNext, IsLoaded(elfHeaders[i]), Loadable
          PROVE  Placed(elfImage', i, elfHeaders[i])
        <3>1. PICK r \in Segments : r = elfHeaders[i]
            BY <1>4
        <3>2. r.vaddr \in Nat /\ r.mem \in Nat
            BY ElfAssumption
        <3>3. Placed(elfImage, i, r)
            BY <2>5, <3>1 DEF ElfInv
        <3>4. SegmentPages(r) \cap SegmentPages(s) = {}
            <4>1. i # elfNext
                BY <1>3, <1>4, <2>5
            <4> QED BY <1>1, <1>2, <1>10, <2>5, <3>1, <4>1 DEF Loadable
        <3>5. ASSUME NEW o \in 0 .. r.mem - 1
              PROVE  r.vaddr + o \in DOMAIN elfImage' /\ elfImage'[r.vaddr + o] = elfImage[r.vaddr + o]
            <4>1. PICK b \in Nat : b = r.vaddr + o
                BY <3>2
            <4>2. b \in DOMAIN elfImage
                BY <3>3, <4>1 DEF Placed
            <4>3. b \in r.vaddr .. r.vaddr + r.mem - 1
                BY <3>2, <4>1
            <4>4. b \div ElfPage \notin SegmentPages(s)
                BY <3>4, <4>3 DEF SegmentPages
            <4> QED BY <2>4, <2>5, <4>1, <4>2, <4>4
        <3> QED BY <3>1, <3>3, <3>5 DEF Placed
    <2>6. ASSUME NEW i \in DOMAIN elfHeaders', i < elfNext', IsLoaded(elfHeaders'[i])
          PROVE  /\ Loadable' => Placed(elfImage', i, elfHeaders'[i])
                 /\ elfHeaders'[i].vaddr + elfHeaders'[i].mem < dataEnd'
        <3>1. CASE i = elfNext
            BY <1>1, <1>2, <1>5, <1>6, <2>3, <2>4, <3>1
        <3>2. CASE i # elfNext
            <4>1. i \in DOMAIN elfHeaders /\ i < elfNext /\ IsLoaded(elfHeaders[i])
                BY <1>1, <1>8, <2>6, <3>2
            <4>2. elfHeaders[i].vaddr + elfHeaders[i].mem < dataEnd
                BY <4>1 DEF ElfInv
            <4>3. elfHeaders[i].vaddr \in Nat /\ elfHeaders[i].mem \in Nat
                BY <1>4, <4>1, ElfAssumption
            <4> QED BY <1>1, <1>3, <1>6, <2>3, <2>5, <4>1, <4>2, <4>3
        <3> QED BY <3>1, <3>2
    <2> QED BY <1>1, <1>3, <1>7, <2>2, <2>3, <2>6 DEF ElfInv
<1> QED BY <1>9, <1>10

LEMMA FinishLoadInv == ElfInv /\ FinishLoad => ElfInv'
<1> SUFFICES ASSUME ElfInv, FinishLoad PROVE ElfInv'
    OBVIOUS
<1>1. /\ elfNext = Len(elfHeaders) + 1 /\ elfNext' = elfNext + 1 /\ elfHeaders' = elfHeaders
      /\ elfImage' = elfImage /\ dataStart' = dataStart
      /\ dataEnd' = ((dataEnd + ElfPage) \div ElfPage) * ElfPage
    BY DEF FinishLoad
<1>2. /\ elfNext \in Nat /\ dataStart = 0 /\ dataEnd \in Nat
      /\ \E n \in Nat : elfHeaders \in [1 .. n -> Segments]
    BY DEF ElfInv
<1>3. PICK e \in Nat : e = dataEnd + ElfPage
    BY <1>2, PageSize
<1>4. PICK q \in Nat : q = e \div ElfPage
    BY PageIs
<1>5. dataEnd' = q * ElfPage
    BY <1>1, <1>3, <1>4
<1>6. dataEnd' \in Nat /\ dataEnd' % ElfPage = 0
    BY <1>5, WholePages
<1>7. dataEnd' >= dataEnd
    <2>1. PICK r \in Nat : r = e % ElfPage
        BY PageIs
    <2>2. q * ElfPage + r = e /\ r < ElfPage
        BY <1>4, <2>1, PageIs
    <2> QED BY <1>2, <1>3, <1>5, <1>6, <2>2, PageSize
<1>8. Loadable' <=> Loadable
    BY <1>1 DEF Loadable
<1>9. /\ Len(elfHeaders) \in Nat /\ DOMAIN elfHeaders = 1 .. Len(elfHeaders)
      /\ \A i \in DOMAIN elfHeaders : i \in Nat /\ i > 0 /\ elfHeaders[i] \in Segments
    BY HeadersAre
<1>10. ASSUME NEW i \in DOMAIN elfHeaders', i < elfNext', IsLoaded(elfHeaders'[i])
       PROVE  /\ Loadable' => Placed(elfImage', i, elfHeaders'[i])
              /\ elfHeaders'[i].vaddr + elfHeaders'[i].mem < dataEnd'
    <2>1. i \in DOMAIN elfHeaders /\ i < elfNext /\ IsLoaded(elfHeaders[i])
        BY <1>1, <1>9, <1>10
    <2>2. /\ Loadable => Placed(elfImage, i, elfHeaders[i])
          /\ elfHeaders[i].vaddr + elfHeaders[i].mem < dataEnd
        BY <2>1 DEF ElfInv
    <2>3. elfHeaders[i].vaddr \in Nat /\ elfHeaders[i].mem \in Nat
        BY <1>9, <2>1, ElfAssumption
    <2>4. elfHeaders[i].vaddr + elfHeaders[i].mem < dataEnd'
        BY <1>2, <1>6, <1>7, <2>2, <2>3
    <2> QED BY <1>1, <1>8, <2>2, <2>4
<1> QED BY <1>1, <1>2, <1>6, <1>10 DEF ElfInv

LEMMA ElfAlways == MemorySpec => []ElfInv
<1>1. MemoryInit => ElfInv
    <2> SUFFICES ASSUME ElfInit PROVE ElfInv
        BY DEF MemoryInit
    <2>1. elfNext = 0 /\ dataStart = 0 /\ dataEnd = 0 /\ elfHeaders = <<>>
        BY DEF ElfInit
    <2>2. <<>> \in [1 .. 0 -> Segments] /\ 0 \in Nat /\ DOMAIN <<>> = {} /\ Len(<<>>) = 0
        OBVIOUS
    <2> QED BY <2>1, <2>2 DEF ElfInv
<1>2. ElfInv /\ [MemoryNext]_memoryVars => ElfInv'
    <2> SUFFICES ASSUME ElfInv, [MemoryNext]_memoryVars PROVE ElfInv'
        OBVIOUS
    <2>1. ElfStep \/ UNCHANGED elfVars
        BY DEF MemoryNext, memoryVars, BootVars
    <2>2. CASE UNCHANGED elfVars
        <3>1. /\ elfNext' = elfNext /\ dataStart' = dataStart /\ dataEnd' = dataEnd
              /\ elfHeaders' = elfHeaders /\ elfImage' = elfImage
            BY <2>2 DEF elfVars
        <3>2. Loadable' <=> Loadable
            BY <3>1 DEF Loadable
        <3> QED BY <3>1, <3>2 DEF ElfInv
    <2>3. ASSUME NEW n \in 1 .. MaxSegments, NEW headers \in [1 .. n -> Segments], StartLoad(headers)
          PROVE  ElfInv'
        <3>1. /\ elfNext' = 1 /\ dataStart' = dataStart /\ dataEnd' = dataEnd
              /\ elfHeaders' = headers
            BY <2>3 DEF StartLoad
        <3>2. n \in Nat /\ DOMAIN headers = 1 .. n /\ Len(headers) = n
            <4>1. n \in Nat
                BY ElfAssumption
            <4>2. headers \in Seq(Segments)
                BY <4>1
            <4> QED BY <4>1, <4>2
        <3>3. \A i \in DOMAIN headers : ~(i < 1)
            BY <3>2
        <3>4. ~(1 > Len(headers) + 1)
            BY <3>2
        <3>5. dataStart = 0 /\ dataEnd \in Nat
            BY DEF ElfInv
        <3> QED BY <3>1, <3>2, <3>3, <3>4, <3>5 DEF ElfInv
    <2>4. CASE ElfStep
        BY <2>3, <2>4, LoadHeaderInv, FinishLoadInv DEF ElfStep
    <2> QED BY <2>1, <2>2, <2>4
<1> QED BY <1>1, <1>2, PTL DEF MemorySpec, memoryVars

\* For any page size and any file the loader can handle, load_elf puts every
\* byte where the program headers say, with zeros behind the data of the
\* file, and the heap begins behind all of it on a page of its own.
THEOREM ProgramsAreLoaded == MemorySpec => []ProgramIsLoaded
<1>1. ElfInv => ProgramIsLoaded
    <2> SUFFICES ASSUME ElfInv, Loadable, elfNext > Len(elfHeaders) + 1,
                        NEW i \in DOMAIN elfHeaders, IsLoaded(elfHeaders[i])
                 PROVE  /\ \A o \in 0 .. elfHeaders[i].mem - 1 :
                              /\ elfHeaders[i].vaddr + o \in DOMAIN elfImage
                              /\ elfImage[elfHeaders[i].vaddr + o] =
                                     IF o < elfHeaders[i].file THEN <<i, o>> ELSE <<>>
                              /\ elfHeaders[i].vaddr + o \in dataStart .. dataEnd - 1
                        /\ dataEnd % ElfPage = 0
        BY DEF ProgramIsLoaded
    <2>1. PICK s \in Segments : s = elfHeaders[i]
        BY HeadersAre
    <2>2. i < elfNext /\ dataStart = 0 /\ dataEnd \in Nat /\ dataEnd % ElfPage = 0
        <3>1. Len(elfHeaders) \in Nat /\ DOMAIN elfHeaders = 1 .. Len(elfHeaders)
            BY HeadersAre
        <3>2. elfNext \in Nat /\ dataStart = 0 /\ dataEnd \in Nat /\ dataEnd % ElfPage = 0
            BY DEF ElfInv
        <3> QED BY <3>1, <3>2
    <2>3. Placed(elfImage, i, s) /\ s.vaddr + s.mem < dataEnd
        BY <2>1, <2>2 DEF ElfInv
    <2>4. s.vaddr \in Nat /\ s.mem \in Nat
        BY ElfAssumption
    <2>5. \A o \in 0 .. s.mem - 1 : s.vaddr + o \in 0 .. dataEnd - 1
        BY <2>2, <2>3, <2>4
    <2> QED BY <2>1, <2>2, <2>3, <2>5 DEF Placed
<1> QED BY <1>1, ElfAlways, PTL

-----------------------------------------------------------------------------
(* Bits *)

\* Free runs: the header is the length of the longest run of free slots.
LEMMA HeaderIs ==
    ASSUME NEW entries \in Nat, NEW used
    PROVE  /\ UpdateHeader(entries, used) \in 0 .. entries
           /\ \A n \in 1 .. entries :
                 n <= UpdateHeader(entries, used) <=>
                    \E c \in 0 .. entries - n : (c .. c + n - 1) \cap used = {}
<1> DEFINE cur[i \in 0 .. entries] == IF i = 0 THEN 0 ELSE IF i - 1 \in used THEN 0 ELSE cur[i - 1] + 1
           IsCur(f) == f = [i \in 0 .. entries |-> IF i = 0 THEN 0 ELSE IF i - 1 \in used THEN 0 ELSE f[i - 1] + 1]
           G == [p \in Nat |-> [c \in Nat |-> IF p - 1 \in used THEN 0 ELSE c + 1]]
<1>1. PICK f : IsWalk(Nat, 0, G, entries, f)
    <2>1. CanWalk(Nat, 0, G, entries)
        BY DEF CanWalk
    <2> HIDE DEF G
    <2> QED BY <2>1, StepByStep
<1>2. IsCur(f)
    <2>1. \A n \in 1 .. entries : f[n] = IF n - 1 \in used THEN 0 ELSE f[n - 1] + 1
        <3> SUFFICES ASSUME NEW n \in 1 .. entries PROVE f[n] = IF n - 1 \in used THEN 0 ELSE f[n - 1] + 1
            OBVIOUS
        <3>1. n - 1 \in 0 .. entries /\ n \in Nat
            OBVIOUS
        <3>2. f[n - 1] \in Nat
            BY <1>1, <3>1 DEF IsWalk
        <3>3. G[n][f[n - 1]] = IF n - 1 \in used THEN 0 ELSE f[n - 1] + 1
            BY <3>1, <3>2
        <3> QED BY <1>1, <3>3 DEF IsWalk
    <2> QED BY <1>1, <2>1 DEF IsWalk
<1>3. cur = CHOOSE g : IsCur(g)
    OBVIOUS
<1>4. IsCur(cur)
    <2> HIDE DEF cur, IsCur
    <2> QED BY <1>2, <1>3
<1> HIDE DEF cur
<1> DEFINE free(i, n) == \A j \in i - n .. i - 1 : j \notin used
           T == {i \in Nat : i <= entries => /\ cur[i] \in 0 .. i /\ free(i, cur[i])
                                             /\ cur[i] < i => i - cur[i] - 1 \in used}
<1>5. cur[0] = 0 /\ \A n \in 1 .. entries : cur[n] = IF n - 1 \in used THEN 0 ELSE cur[n - 1] + 1
    BY <1>4
<1>6. 0 \in T
    BY <1>5
<1>7. ASSUME NEW i \in T PROVE i + 1 \in T
    <2> SUFFICES ASSUME i + 1 <= entries
                 PROVE  /\ cur[i + 1] \in 0 .. i + 1 /\ free(i + 1, cur[i + 1])
                        /\ cur[i + 1] < i + 1 => (i + 1) - cur[i + 1] - 1 \in used
        OBVIOUS
    <2>1. i \in Nat /\ cur[i] \in 0 .. i /\ free(i, cur[i]) /\ (cur[i] < i => i - cur[i] - 1 \in used)
        OBVIOUS
    <2>2. cur[i + 1] = IF i \in used THEN 0 ELSE cur[i] + 1
        BY <1>5, <2>1
    <2>3. CASE i \in used
        BY <2>1, <2>2, <2>3
    <2>4. CASE i \notin used
        <3>0. PICK c \in 0 .. i : c = cur[i]
            BY <2>1
        <3>1. cur[i + 1] = c + 1
            BY <2>2, <2>4, <3>0
        <3>2. \A j \in (i + 1) - (c + 1) .. (i + 1) - 1 : j \notin used
            <4>1. \A j \in i - c .. i - 1 : j \notin used
                BY <2>1, <3>0
            <4>2. \A j \in (i + 1) - (c + 1) .. (i + 1) - 1 : j \in i - c .. i - 1 \/ j = i
                BY <2>1, <3>0
            <4> QED BY <2>4, <4>1, <4>2
        <3>3. c + 1 < i + 1 => (i + 1) - (c + 1) - 1 \in used
            <4>1. (i + 1) - (c + 1) - 1 = i - c - 1
                BY <2>1
            <4> QED BY <2>1, <3>0, <4>1
        <3> QED BY <2>1, <3>1, <3>2, <3>3
    <2> QED BY <2>3, <2>4
<1> HIDE DEF T
<1>8. T = Nat
    <2>1. T \in SUBSET Nat
        BY DEF T
    <2> QED BY <1>6, <1>7, <2>1, CountingUp
<1>9. \A i \in 0 .. entries : /\ cur[i] \in 0 .. i /\ free(i, cur[i])
                              /\ cur[i] < i => i - cur[i] - 1 \in used
    BY <1>8 DEF T
<1> DEFINE C == {cur[i] : i \in 0 .. entries}
<1>10. UpdateHeader(entries, used) = Max(C)
    BY DEF UpdateHeader, cur
<1>11. Max(C) \in C /\ \A m \in C : m <= Max(C)
    <2>1. C \in SUBSET Nat /\ C # {} /\ \A m \in C : m <= entries
        BY <1>9
    <2> HIDE DEF C
    <2> QED BY <2>1, GreatestNumber
<1>12. PICK i \in 0 .. entries : Max(C) = cur[i]
    BY <1>11
<1>13. ASSUME NEW n \in 1 .. entries, n <= cur[i]
       PROVE  \E c \in 0 .. entries - n : (c .. c + n - 1) \cap used = {}
    <2>1. i - cur[i] \in 0 .. entries - n
        BY <1>9, <1>13
    <2>2. \A j \in i - cur[i] .. (i - cur[i]) + n - 1 : j \notin used
        BY <1>9, <1>13
    <2> QED BY <2>1, <2>2
<1>14. ASSUME NEW n \in 1 .. entries, NEW c \in 0 .. entries - n, (c .. c + n - 1) \cap used = {}
       PROVE  n <= cur[i]
    <2>1. c + n \in 0 .. entries
        OBVIOUS
    <2>2. n <= cur[c + n]
        <3> SUFFICES ASSUME cur[c + n] < n PROVE FALSE
            BY <1>9, <2>1
        <3>1. (c + n) - cur[c + n] - 1 \in used /\ (c + n) - cur[c + n] - 1 \in c .. c + n - 1
            BY <1>9, <2>1
        <3> QED BY <1>14, <3>1
    <2>3. cur[c + n] <= cur[i]
        BY <1>11, <1>12, <2>1
    <2> QED BY <1>9, <2>1, <2>2, <2>3
<1>15. UpdateHeader(entries, used) = cur[i] /\ cur[i] \in 0 .. entries
    BY <1>9, <1>10, <1>12
<1> QED BY <1>13, <1>14, <1>15

\* Where the search stops: at the first start that has room, of those it
\* looks at.
LEMMA SearchIs ==
    ASSUME NEW bits \in Nat, NEW used, NEW n \in Nat \ {0}
    PROVE  LET found == FindContinuousUnset(bits, used, n)
               room(c) == used \cap (c .. c + n - 1) = {}
           IN  \/ /\ found \in Nat /\ found < bits - n /\ room(found)
                  /\ \A c \in 0 .. found - 1 : ~room(c)
               \/ found = bits + 1 /\ \A c \in 0 .. bits - n - 1 : ~room(c)
<1> DEFINE room(c) == used \cap (c .. c + n - 1) = {}
           next(c) == IF c >= bits - n \/ room(c) THEN c ELSE NextCandidate(bits, used, n, c)
           at[i \in 0 .. bits] ==
               IF i = 0 THEN 0
               ELSE LET c == at[i - 1]
                    IN  IF c >= bits - n \/ used \cap (c .. c + n - 1) = {} THEN c
                        ELSE NextCandidate(bits, used, n, c)
           IsAt(f) == f = [i \in 0 .. bits |-> IF i = 0 THEN 0
                                               ELSE LET c == f[i - 1]
                                                    IN  IF c >= bits - n \/ used \cap (c .. c + n - 1) = {} THEN c
                                                        ELSE NextCandidate(bits, used, n, c)]
           G == [p \in Nat |-> [c \in Nat |-> next(c)]]
<1>1. ASSUME NEW c \in Nat
      PROVE  /\ next(c) \in Nat
             /\ c >= bits - n \/ room(c) => next(c) = c
             /\ ~(c >= bits - n \/ room(c)) => next(c) > c /\ \A d \in c .. next(c) - 1 : ~room(d)
    <2>1. CASE c >= bits - n \/ room(c)
        BY <2>1
    <2>2. CASE ~(c >= bits - n \/ room(c))
        <3> DEFINE I == {i \in c .. c + n - 1 : i \in used}
        <3>1. I \in SUBSET Nat /\ I # {}
            BY <2>2
        <3>2. Min(I) \in I /\ \A m \in I : Min(I) <= m
            <4> HIDE DEF I
            <4> QED BY <3>1, LeastNumber
        <3>3. next(c) = Min(I) + 1
            BY <2>2 DEF NextCandidate
        <3>4. PICK m \in I : m = Min(I) /\ \A i \in I : m <= i
            BY <3>2
        <3>5. m \in Nat /\ m \in used /\ c <= m /\ m <= c + n - 1
            OBVIOUS
        <3>6. ASSUME NEW d \in c .. m PROVE ~room(d)
            <4>1. m \in d .. d + n - 1
                BY <3>5
            <4> QED BY <3>5, <4>1
        <3>7. next(c) = m + 1
            BY <3>3, <3>4
        <3> HIDE DEF next, room, I
        <3>8. next(c) \in Nat /\ next(c) > c /\ \A d \in c .. next(c) - 1 : d \in c .. m
            BY <3>5, <3>7
        <3> QED BY <2>2, <3>6, <3>8
    <2> HIDE DEF next, room
    <2> QED BY <2>1, <2>2
<1>2. PICK f : IsWalk(Nat, 0, G, bits, f)
    <2>1. CanWalk(Nat, 0, G, bits)
        <3> HIDE DEF next
        <3> QED BY <1>1 DEF CanWalk
    <2> HIDE DEF G
    <2> QED BY <2>1, StepByStep
<1>3. IsAt(f)
    <2>1. ASSUME NEW i \in 1 .. bits PROVE f[i] = next(f[i - 1])
        <3>1. f[i - 1] \in Nat
            BY <1>2 DEF IsWalk
        <3>2. G[i][f[i - 1]] = next(f[i - 1])
            <4> HIDE DEF next
            <4> QED BY <3>1
        <3> HIDE DEF next, G
        <3> QED BY <1>2, <3>2 DEF IsWalk
    <2> HIDE DEF G
    <2> QED BY <1>2, <2>1 DEF IsWalk
<1>4. at = CHOOSE g : IsAt(g)
    OBVIOUS
<1>5. IsAt(at)
    <2> HIDE DEF at, IsAt
    <2> QED BY <1>3, <1>4
<1>6. FindContinuousUnset(bits, used, n) = IF at[bits] < bits - n THEN at[bits] ELSE bits + 1
    BY DEF FindContinuousUnset
<1> HIDE DEF at
<1>7. at[0] = 0 /\ \A i \in 1 .. bits : at[i] = next(at[i - 1])
    <2>1. at = [i \in 0 .. bits |-> IF i = 0 THEN 0 ELSE next(at[i - 1])]
        BY <1>5
    <2> HIDE DEF next
    <2>2. \A i \in 0 .. bits : at[i] = IF i = 0 THEN 0 ELSE next(at[i - 1])
        BY <2>1
    <2> QED BY <2>2
<1> DEFINE T == {i \in Nat : i <= bits => /\ at[i] \in Nat
                                          /\ at[i] >= i \/ at[i] >= bits - n \/ room(at[i])
                                          /\ \A d \in 0 .. at[i] - 1 : ~room(d)}
<1> HIDE DEF next, room
<1>8. 0 \in T
    BY <1>7
<1>9. ASSUME NEW i \in T PROVE i + 1 \in T
    <2> SUFFICES ASSUME i + 1 <= bits
                 PROVE  /\ at[i + 1] \in Nat
                        /\ at[i + 1] >= i + 1 \/ at[i + 1] >= bits - n \/ room(at[i + 1])
                        /\ \A d \in 0 .. at[i + 1] - 1 : ~room(d)
        OBVIOUS
    <2>1. PICK c \in Nat : c = at[i]
        OBVIOUS
    <2>2. (c >= i \/ c >= bits - n \/ room(c)) /\ (\A d \in 0 .. c - 1 : ~room(d)) /\ at[i + 1] = next(c)
        BY <1>7, <2>1
    <2>3. CASE c >= bits - n \/ room(c)
        BY <1>1, <2>2, <2>3
    <2>4. CASE ~(c >= bits - n \/ room(c))
        <3>1. next(c) \in Nat /\ next(c) > c /\ c >= i
            BY <1>1, <2>2, <2>4
        <3>2. \A d \in 0 .. next(c) - 1 : ~room(d)
            BY <1>1, <2>2, <2>4, <3>1
        <3> QED BY <2>2, <3>1, <3>2
    <2> QED BY <2>3, <2>4
<1>10. T = Nat
    <2> HIDE DEF T
    <2>1. T \in SUBSET Nat
        BY DEF T
    <2> QED BY <1>8, <1>9, <2>1, CountingUp
<1>11. /\ at[bits] \in Nat
       /\ at[bits] >= bits \/ at[bits] >= bits - n \/ room(at[bits])
       /\ \A d \in 0 .. at[bits] - 1 : ~room(d)
    BY <1>10
<1> HIDE DEF T
<1>12. CASE at[bits] < bits - n
    BY <1>6, <1>11, <1>12 DEF room
<1>13. CASE ~(at[bits] < bits - n)
    BY <1>6, <1>11, <1>13 DEF room
<1> QED BY <1>12, <1>13

-----------------------------------------------------------------------------
(* Pages and objects *)

AllocPage == [at : Nat, used : SUBSET Nat, longest : Nat]

AllocTypeOK ==
    /\ sized \in [DOMAIN Classes -> Seq(AllocPage)]
    /\ bootStatus \subseteq 0 .. BootPages - 1
    /\ objects \subseteq [class : DOMAIN Classes, page : Nat, at : Nat, n : Nat \ {0}]

\* The bits of a page are the slots of its objects, each in one of them.
Holds(k, at, used, objs) ==
    LET here == {o \in objs : o.class = k /\ o.page = at}
    IN  /\ used = UNION {SlotsOf(o) : o \in here}
        /\ \A o, q \in here : o # q => SlotsOf(o) \cap SlotsOf(q) = {}
        /\ used \subseteq 0 .. Classes[k].entries - 1

PagesHold ==
    \A k \in DOMAIN Classes : \A i \in DOMAIN sized[k] :
        Holds(k, sized[k][i].at, sized[k][i].used, objects) /\ sized[k][i].used # {}

ObjectsHavePages ==
    \A o \in objects : \E i \in DOMAIN sized[o.class] : sized[o.class][i].at = o.page

PagesOnce ==
    \A k, l \in DOMAIN Classes : \A i \in DOMAIN sized[k], j \in DOMAIN sized[l] :
        sized[k][i].at = sized[l][j].at => k = l /\ i = j

\* A page of a list was taken from the bootstrap pages, and is marked there,
\* or from the heap; its header is the one update_header makes.
PagesKnown ==
    \A k \in DOMAIN Classes : \A i \in DOMAIN sized[k] :
        /\ sized[k][i].at \in bootStatus \cup HeapPageIds
        /\ sized[k][i].longest = UpdateHeader(Classes[k].entries, sized[k][i].used)

AllocInv == AllocTypeOK /\ PagesHold /\ ObjectsHavePages /\ PagesOnce /\ PagesKnown

LEMMA ClassIs ==
    ASSUME NEW k \in DOMAIN Classes
    PROVE  /\ Classes[k].entries \in Nat /\ Classes[k].bits \in Nat
           /\ Classes[k].entries >= 1 /\ Classes[k].entries < Classes[k].bits
<1> DEFINE R == [size : Nat, bits : Nat, entries : Nat]
<1>1. Classes \in Seq(R) /\ Classes[k].entries \in 1 .. Classes[k].bits - 1
    BY AllocatorsAssumption
<1>2. Classes[k] \in R
    <2> HIDE DEF R
    <2> QED BY <1>1
<1> QED BY <1>1, <1>2

LEMMA SeparateIs == AllocInv => ObjectsAreSeparate
BY DEF AllocInv, PagesHold, Holds, ObjectsHavePages, PagesOnce, ObjectsAreSeparate

\* What the header promises, the search finds.
LEMMA PromiseKept ==
    ASSUME NEW k \in DOMAIN Classes, NEW used, NEW n \in 1 .. Classes[k].entries
    PROVE  LET longest == UpdateHeader(Classes[k].entries, used)
               start == FindContinuousUnset(Classes[k].bits, used, n)
               room(c) == (c .. c + n - 1) \cap used = {}
           IN  /\ n <= longest <=> \E c \in 0 .. Classes[k].entries - n : room(c)
               /\ n <= longest => start \in 0 .. Classes[k].entries - n /\ room(start)
<1> DEFINE room(c) == (c .. c + n - 1) \cap used = {}
           start == FindContinuousUnset(Classes[k].bits, used, n)
           longest == UpdateHeader(Classes[k].entries, used)
<1>1. /\ Classes[k].entries \in Nat /\ Classes[k].bits \in Nat
      /\ Classes[k].entries >= 1 /\ Classes[k].entries < Classes[k].bits /\ n \in Nat \ {0}
    BY ClassIs
<1>2. n <= longest <=> \E c \in 0 .. Classes[k].entries - n : room(c)
    BY <1>1, HeaderIs
<1>3. \/ start \in Nat /\ start < Classes[k].bits - n /\ room(start) /\ \A c \in 0 .. start - 1 : ~room(c)
      \/ \A c \in 0 .. Classes[k].bits - n - 1 : ~room(c)
    <2>1. \A c : room(c) <=> used \cap (c .. c + n - 1) = {}
        OBVIOUS
    <2> QED BY <1>1, <2>1, SearchIs
<1>4. ASSUME n <= longest PROVE start \in 0 .. Classes[k].entries - n /\ room(start)
    <2> HIDE DEF room, start, longest
    <2>1. PICK c \in 0 .. Classes[k].entries - n : room(c)
        BY <1>2, <1>4
    <2>2. c \in 0 .. Classes[k].bits - n - 1
        BY <1>1
    <2>3. start \in Nat /\ start < Classes[k].bits - n /\ room(start) /\ \A d \in 0 .. start - 1 : ~room(d)
        BY <1>3, <2>1, <2>2
    <2>4. c >= start
        BY <2>1, <2>3
    <2> QED BY <1>1, <2>3, <2>4
<1> QED BY <1>2, <1>4

LEMMA HonestIs == AllocInv => HeaderIsHonest
<1> SUFFICES ASSUME AllocInv, NEW k \in DOMAIN Classes, NEW i \in DOMAIN sized[k],
                    NEW n \in 1 .. Classes[k].entries
             PROVE  LET p == sized[k][i]
                        start == FindContinuousUnset(Classes[k].bits, p.used, n)
                        room(c) == (c .. c + n - 1) \cap p.used = {}
                    IN  /\ n <= p.longest <=> \E c \in 0 .. Classes[k].entries - n : room(c)
                        /\ n <= p.longest => start \in 0 .. Classes[k].entries - n /\ room(start)
    BY DEF HeaderIsHonest
<1>1. sized[k][i].longest = UpdateHeader(Classes[k].entries, sized[k][i].used)
    BY DEF AllocInv, PagesKnown
<1>2. PICK u : u = sized[k][i].used
    OBVIOUS
<1>3. LET start == FindContinuousUnset(Classes[k].bits, u, n)
          room(c) == (c .. c + n - 1) \cap u = {}
      IN  /\ n <= UpdateHeader(Classes[k].entries, u) <=> \E c \in 0 .. Classes[k].entries - n : room(c)
          /\ n <= UpdateHeader(Classes[k].entries, u) => start \in 0 .. Classes[k].entries - n /\ room(start)
    BY PromiseKept
<1> QED BY <1>1, <1>2, <1>3

\* A slot that was found is free.
LEMMA SlotIs ==
    ASSUME NEW k \in DOMAIN Classes, NEW p, p.longest = UpdateHeader(Classes[k].entries, p.used),
           NEW n \in 1 .. Classes[k].entries, SlotIn(k, p, n) # -1
    PROVE  SlotIn(k, p, n) \in 0 .. Classes[k].entries - n /\ p.used \cap (SlotIn(k, p, n) .. SlotIn(k, p, n) + n - 1) = {}
<1> DEFINE start == FindContinuousUnset(Classes[k].bits, p.used, n)
<1>1. ~(p.longest < n) /\ SlotIn(k, p, n) = start
    BY DEF SlotIn
<1>2. p.longest \in Nat /\ Classes[k].entries \in Nat
    BY HeaderIs, ClassIs
<1>3. n <= p.longest
    BY <1>1, <1>2
<1>4. start \in 0 .. Classes[k].entries - n /\ (start .. start + n - 1) \cap p.used = {}
    <2>1. PICK u : u = p.used
        OBVIOUS
    <2>2. n <= UpdateHeader(Classes[k].entries, u) =>
             LET s == FindContinuousUnset(Classes[k].bits, u, n)
             IN  s \in 0 .. Classes[k].entries - n /\ (s .. s + n - 1) \cap u = {}
        BY PromiseKept
    <2> QED BY <1>3, <2>1, <2>2
<1> QED BY <1>1, <1>4

\* A new page has room.
LEMMA NewPageIs ==
    ASSUME NEW k \in DOMAIN Classes, NEW at, NEW n \in 1 .. Classes[k].entries
    PROVE  /\ NewPage(k, at).at = at /\ NewPage(k, at).used = {}
           /\ NewPage(k, at).longest = UpdateHeader(Classes[k].entries, {})
           /\ SlotIn(k, NewPage(k, at), n) # -1
<1> DEFINE e == Classes[k].entries
<1>1. e \in Nat /\ e >= 1
    BY ClassIs
<1>2. UpdateHeader(e, {}) = e
    <2>1. 0 \in 0 .. e - e /\ (0 .. 0 + e - 1) \cap {} = {} /\ e \in 1 .. e
        BY <1>1
    <2>2. UpdateHeader(e, {}) \in 0 .. e /\ e <= UpdateHeader(e, {})
        BY <1>1, <2>1, HeaderIs
    <2> QED BY <1>1, <2>2
<1>3. n <= UpdateHeader(e, {})
    BY <1>1, <1>2
<1>4. FindContinuousUnset(Classes[k].bits, {}, n) \in 0 .. e - n
    BY <1>3, PromiseKept
<1>5. SlotIn(k, NewPage(k, at), n) = FindContinuousUnset(Classes[k].bits, {}, n)
    BY <1>1, <1>4 DEF SlotIn, NewPage
<1> QED BY <1>1, <1>2, <1>4, <1>5 DEF NewPage

\* What an object that comes or goes does to the page it is in, and to others.
LEMMA PageGains ==
    ASSUME NEW k \in DOMAIN Classes, NEW objs, NEW used, NEW at, NEW slot \in Nat, NEW n \in Nat \ {0},
           Holds(k, at, used, objs),
           slot + n <= Classes[k].entries, used \cap (slot .. slot + n - 1) = {},
           NEW o, o = [class |-> k, page |-> at, at |-> slot, n |-> n]
    PROVE  /\ Holds(k, at, used \cup (slot .. slot + n - 1), objs \cup {o})
           /\ used \cup (slot .. slot + n - 1) # {}
<1> DEFINE here == {q \in objs : q.class = k /\ q.page = at}
           there == {q \in objs \cup {o} : q.class = k /\ q.page = at}
<1>1. there = here \cup {o} /\ SlotsOf(o) = slot .. slot + n - 1
    BY DEF SlotsOf
<1>2. used = UNION {SlotsOf(q) : q \in here} /\ used \subseteq 0 .. Classes[k].entries - 1
    BY DEF Holds
<1>3. \A q, r \in here : q # r => SlotsOf(q) \cap SlotsOf(r) = {}
    BY DEF Holds
<1> HIDE DEF here, there
<1>4. used \cup (slot .. slot + n - 1) = UNION {SlotsOf(q) : q \in there}
    BY <1>1, <1>2
<1>5. \A q \in here : SlotsOf(q) \cap SlotsOf(o) = {}
    BY <1>1, <1>2
<1>6. \A q, r \in there : q # r => SlotsOf(q) \cap SlotsOf(r) = {}
    BY <1>1, <1>3, <1>5
<1>7. used \cup (slot .. slot + n - 1) \subseteq 0 .. Classes[k].entries - 1
    BY <1>2, ClassIs
<1>8. slot \in slot .. slot + n - 1
    OBVIOUS
<1> QED BY <1>4, <1>6, <1>7, <1>8 DEF Holds, there

LEMMA PageLoses ==
    ASSUME NEW k \in DOMAIN Classes, NEW objs, NEW used, NEW at,
           Holds(k, at, used, objs), NEW o \in objs, o.class = k, o.page = at
    PROVE  Holds(k, at, used \ SlotsOf(o), objs \ {o})
<1> DEFINE here == {q \in objs : q.class = k /\ q.page = at}
           there == {q \in objs \ {o} : q.class = k /\ q.page = at}
<1>1. there = here \ {o} /\ o \in here
    OBVIOUS
<1>2. used = UNION {SlotsOf(q) : q \in here} /\ used \subseteq 0 .. Classes[k].entries - 1
    BY DEF Holds
<1>3. \A q, r \in here : q # r => SlotsOf(q) \cap SlotsOf(r) = {}
    BY DEF Holds
<1> HIDE DEF here, there
<1>4. used \ SlotsOf(o) = UNION {SlotsOf(q) : q \in there}
    BY <1>1, <1>2, <1>3
<1> QED BY <1>1, <1>2, <1>3, <1>4 DEF Holds, there

LEMMA PageStays ==
    ASSUME NEW k, NEW objs, NEW used, NEW at, Holds(k, at, used, objs), NEW o, ~(o.class = k /\ o.page = at)
    PROVE  Holds(k, at, used, objs \cup {o}) /\ Holds(k, at, used, objs \ {o})
<1>1. /\ {q \in objs \cup {o} : q.class = k /\ q.page = at} = {q \in objs : q.class = k /\ q.page = at}
      /\ {q \in objs \ {o} : q.class = k /\ q.page = at} = {q \in objs : q.class = k /\ q.page = at}
    OBVIOUS
<1> QED BY <1>1 DEF Holds

\* A fresh page is in no list.
LEMMA FreshIs ==
    ASSUME AllocInv, FreshPage # -1
    PROVE  /\ FreshPage \in Nat
           /\ \A k \in DOMAIN Classes : \A i \in DOMAIN sized[k] : sized[k][i].at # FreshPage
           /\ ~bootUp => FreshPage \in 0 .. BootPages - 1
           /\ bootUp => FreshPage \in HeapPageIds
<1> DEFINE start == FindContinuousUnset(BootPages, bootStatus, 1)
           free == HeapPageIds \ PagesInUse
<1>1. BootPages \in Nat /\ HeapPageIds \subseteq Nat /\ \A p \in HeapPageIds : p >= BootPages
    BY AllocatorsAssumption
<1>2. CASE ~bootUp
    <2>1. FreshPage = start /\ ~(start >= BootPages)
        BY <1>2 DEF FreshPage
    <2>2. \/ start \in Nat /\ start < BootPages - 1 /\ bootStatus \cap (start .. start + 1 - 1) = {}
          \/ start = BootPages + 1
        BY <1>1, SearchIs
    <2>3. start \in Nat /\ start < BootPages /\ start \notin bootStatus
        BY <1>1, <2>1, <2>2
    <2>4. start \notin HeapPageIds
        BY <1>1, <2>3
    <2>5. \A k \in DOMAIN Classes : \A i \in DOMAIN sized[k] : sized[k][i].at # start
        BY <2>3, <2>4 DEF AllocInv, PagesKnown
    <2> QED BY <1>1, <1>2, <2>1, <2>3, <2>5
<1>3. CASE bootUp
    <2>1. FreshPage = Min(free) /\ free # {}
        BY <1>3 DEF FreshPage
    <2>2. Min(free) \in free
        <3>1. free \in SUBSET Nat
            BY <1>1
        <3> HIDE DEF free
        <3> QED BY <2>1, <3>1, LeastNumber
    <2>3. \A k \in DOMAIN Classes : \A i \in DOMAIN sized[k] : sized[k][i].at \in PagesInUse
        BY DEF PagesInUse, Range
    <2> QED BY <1>1, <1>3, <2>1, <2>2, <2>3
<1> QED BY <1>2, <1>3

\* How a list of pages has changed: one of them is now p, the others stay.
OnePage(k, at, p) ==
    /\ sized' \in [DOMAIN Classes -> Seq(AllocPage)]
    /\ \A l \in DOMAIN Classes \ {k} : sized'[l] = sized[l]
    /\ at \in DOMAIN sized'[k] /\ DOMAIN sized'[k] = DOMAIN sized[k] \cup {at}
    /\ sized'[k][at] = p
    /\ \A i \in DOMAIN sized[k] \ {at} : sized'[k][i] = sized[k][i]

\* An object is placed in page p of list k, which had the bits used.
SlotsTaken(k, at, p, used, slot, n) ==
    /\ slot \in Nat /\ n \in Nat \ {0} /\ slot + n <= Classes[k].entries
    /\ OnePage(k, at, p)
    /\ p \in AllocPage /\ p.used = used \cup (slot .. slot + n - 1)
    /\ p.longest = UpdateHeader(Classes[k].entries, p.used)
    /\ Holds(k, p.at, used, objects) /\ used \cap (slot .. slot + n - 1) = {}
    /\ \A l \in DOMAIN Classes : \A i \in DOMAIN sized[l] : sized[l][i].at = p.at => l = k /\ i = at
    /\ at \in DOMAIN sized[k] => sized[k][at].at = p.at
    /\ bootStatus \subseteq bootStatus' /\ bootStatus' \subseteq 0 .. BootPages - 1
    /\ p.at \in bootStatus' \cup HeapPageIds
    /\ objects' = objects \cup {[class |-> k, page |-> p.at, at |-> slot, n |-> n]}

LEMMA OneMoreObject ==
    ASSUME AllocInv, NEW k \in DOMAIN Classes, NEW at, NEW p, NEW used, NEW slot, NEW n,
           SlotsTaken(k, at, p, used, slot, n)
    PROVE  AllocInv'
<1> USE DEF SlotsTaken
<1> DEFINE o == [class |-> k, page |-> p.at, at |-> slot, n |-> n]
<1>0. PICK r : r = o
    OBVIOUS
<1>1. objects' = objects \cup {r} /\ r.class = k /\ r.page = p.at
    BY <1>0
<1>2. AllocTypeOK'
    <2>1. r \in [class : DOMAIN Classes, page : Nat, at : Nat, n : Nat \ {0}]
        BY <1>0 DEF AllocPage
    <2> QED BY <1>1, <2>1 DEF AllocTypeOK, OnePage, AllocInv
<1>3. PagesHold'
    <2> SUFFICES ASSUME NEW l \in DOMAIN Classes, NEW i \in DOMAIN sized'[l]
                 PROVE  Holds(l, sized'[l][i].at, sized'[l][i].used, objects') /\ sized'[l][i].used # {}
        BY DEF PagesHold, Holds, SlotsOf
    <2>1. CASE l = k /\ i = at
        <3>1. Holds(k, p.at, used \cup (slot .. slot + n - 1), objects \cup {r}) /\ used \cup (slot .. slot + n - 1) # {}
            <4>1. PICK a : a = p.at
                OBVIOUS
            <4>2. r = [class |-> k, page |-> a, at |-> slot, n |-> n] /\ Holds(k, a, used, objects)
                BY <1>0, <4>1
            <4>3. Holds(k, a, used \cup (slot .. slot + n - 1), objects \cup {r}) /\ used \cup (slot .. slot + n - 1) # {}
                BY <4>2, PageGains
            <4> QED BY <4>1, <4>3
        <3> QED BY <1>1, <2>1, <3>1 DEF OnePage
    <2>2. CASE ~(l = k /\ i = at)
        <3>1. i \in DOMAIN sized[l] /\ sized'[l][i] = sized[l][i]
            BY <2>2 DEF OnePage
        <3>2. Holds(l, sized[l][i].at, sized[l][i].used, objects) /\ sized[l][i].used # {}
            BY <3>1 DEF AllocInv, PagesHold
        <3>3. ~(r.class = l /\ r.page = sized[l][i].at)
            BY <1>1, <2>2, <3>1
        <3>4. Holds(l, sized[l][i].at, sized[l][i].used, objects \cup {r})
            BY <3>2, <3>3, PageStays
        <3> QED BY <1>1, <3>1, <3>2, <3>4
    <2> QED BY <2>1, <2>2
<1>4. ObjectsHavePages'
    <2> SUFFICES ASSUME NEW q \in objects'
                 PROVE  \E i \in DOMAIN sized'[q.class] : sized'[q.class][i].at = q.page
        BY DEF ObjectsHavePages
    <2>1. CASE q = r
        BY <1>1, <2>1 DEF OnePage
    <2>2. CASE q \in objects
        <3>1. PICK i \in DOMAIN sized[q.class] : sized[q.class][i].at = q.page
            BY <2>2 DEF AllocInv, ObjectsHavePages
        <3>2. q.class \in DOMAIN Classes
            BY <2>2 DEF AllocInv, AllocTypeOK
        <3>3. i \in DOMAIN sized'[q.class] /\ sized'[q.class][i].at = q.page
            BY <3>1, <3>2 DEF OnePage
        <3> QED BY <3>3
    <2> QED BY <1>1, <2>1, <2>2
<1>5. PagesOnce'
    <2> SUFFICES ASSUME NEW l \in DOMAIN Classes, NEW m \in DOMAIN Classes,
                        NEW i \in DOMAIN sized'[l], NEW j \in DOMAIN sized'[m],
                        sized'[l][i].at = sized'[m][j].at
                 PROVE  l = m /\ i = j
        BY DEF PagesOnce
    <2>1. \A h \in DOMAIN Classes : \A g \in DOMAIN sized'[h] :
             \/ h = k /\ g = at /\ sized'[h][g].at = p.at
             \/ g \in DOMAIN sized[h] /\ sized'[h][g].at = sized[h][g].at /\ ~(h = k /\ g = at)
        BY DEF OnePage
    <2>2. \A h \in DOMAIN Classes : \A g \in DOMAIN sized[h] : ~(h = k /\ g = at) => sized[h][g].at # p.at
        OBVIOUS
    <2> QED BY <2>1, <2>2 DEF AllocInv, PagesOnce
<1>6. PagesKnown'
    <2> SUFFICES ASSUME NEW l \in DOMAIN Classes, NEW i \in DOMAIN sized'[l]
                 PROVE  /\ sized'[l][i].at \in bootStatus' \cup HeapPageIds
                        /\ sized'[l][i].longest = UpdateHeader(Classes[l].entries, sized'[l][i].used)
        BY DEF PagesKnown
    <2>1. CASE l = k /\ i = at
        BY <2>1 DEF OnePage
    <2>2. CASE ~(l = k /\ i = at)
        <3>1. i \in DOMAIN sized[l] /\ sized'[l][i] = sized[l][i]
            BY <2>2 DEF OnePage
        <3> QED BY <3>1 DEF AllocInv, PagesKnown
    <2> QED BY <2>1, <2>2
<1> QED BY <1>2, <1>3, <1>4, <1>5, <1>6 DEF AllocInv

\* The page with its bits changed.
LEMMA WithUsedIs ==
    ASSUME NEW k \in DOMAIN Classes, NEW p \in AllocPage, NEW used \in SUBSET Nat
    PROVE  /\ WithUsed(k, p, used) \in AllocPage
           /\ WithUsed(k, p, used).at = p.at /\ WithUsed(k, p, used).used = used
           /\ WithUsed(k, p, used).longest = UpdateHeader(Classes[k].entries, used)
<1>1. UpdateHeader(Classes[k].entries, used) \in Nat
    BY ClassIs, HeaderIs
<1> QED BY <1>1 DEF WithUsed, AllocPage

LEMMA PageOfList ==
    ASSUME AllocInv, NEW k \in DOMAIN Classes, NEW i \in DOMAIN sized[k]
    PROVE  sized[k] \in Seq(AllocPage) /\ sized[k][i] \in AllocPage /\ i \in 1 .. Len(sized[k])
<1>1. sized[k] \in Seq(AllocPage)
    BY DEF AllocInv, AllocTypeOK
<1> QED BY <1>1

LEMMA AllocateInv ==
    ASSUME AllocInv, NEW k \in DOMAIN Classes, NEW n \in Nat \ {0}, Allocate(k, n)
    PROVE  AllocInv'
<1> DEFINE I == {i \in 1 .. Len(sized[k]) : SlotIn(k, sized[k][i], n) # -1}
           i == SelectInSeq(sized[k], LAMBDA p : SlotIn(k, p, n) # -1)
           page == IF i # 0 THEN sized[k][i] ELSE NewPage(k, FreshPage)
           slot == SlotIn(k, page, n)
           after == WithUsed(k, page, page.used \cup (slot .. slot + n - 1))
<1>1. n \in 1 .. Classes[k].entries /\ Classes[k].entries \in Nat
    BY ClassIs DEF Allocate
<1>2. i = IF I # {} THEN Min(I) ELSE 0
    BY DEF SelectInSeq
<1>3. I # {} => i \in I
    <2>1. I \in SUBSET Nat
        OBVIOUS
    <2> HIDE DEF I, i
    <2> QED BY <1>2, <2>1, LeastNumber
<1>4. i # 0 => i \in DOMAIN sized[k] /\ SlotIn(k, sized[k][i], n) # -1
    <2>1. i # 0 => i \in I
        <3> HIDE DEF I, i
        <3> QED BY <1>2, <1>3
    <2>2. sized[k] \in Seq(AllocPage)
        BY DEF AllocInv, AllocTypeOK
    <2> HIDE DEF i
    <2> QED BY <2>1, <2>2
<1> HIDE DEF I
<1>5. CASE page.at = -1
    <2>1. UNCHANGED <<sized, bootStatus, objects>>
        BY <1>5 DEF Allocate
    <2> QED BY <2>1 DEF AllocInv, AllocTypeOK, PagesHold, Holds, SlotsOf, ObjectsHavePages, PagesOnce, PagesKnown
<1>6. CASE page.at # -1
    <2>1. /\ sized' = [sized EXCEPT ![k] = IF i # 0 THEN [@ EXCEPT ![i] = after] ELSE Append(@, after)]
          /\ bootStatus' = IF i = 0 /\ ~bootUp THEN bootStatus \cup {page.at} ELSE bootStatus
          /\ objects' = objects \cup {[class |-> k, page |-> page.at, at |-> slot, n |-> n]}
        BY <1>6 DEF Allocate, BootPageMarked
    <2> DEFINE at == IF i # 0 THEN i ELSE Len(sized[k]) + 1
    <2>2. sized \in [DOMAIN Classes -> Seq(AllocPage)] /\ sized[k] \in Seq(AllocPage) /\ bootStatus \subseteq 0 .. BootPages - 1
        BY DEF AllocInv, AllocTypeOK
    <2>3. /\ page \in AllocPage
          /\ page.longest = UpdateHeader(Classes[k].entries, page.used)
          /\ slot # -1
          /\ Holds(k, page.at, page.used, objects)
          /\ \A l \in DOMAIN Classes : \A j \in DOMAIN sized[l] : sized[l][j].at = page.at => l = k /\ j = at
          /\ i # 0 => page = sized[k][i]
          /\ bootStatus' \subseteq 0 .. BootPages - 1
          /\ page.at \in bootStatus' \cup HeapPageIds
        <3>1. CASE i # 0
            <4>1. page = sized[k][i] /\ i \in DOMAIN sized[k] /\ at = i /\ slot # -1 /\ bootStatus' = bootStatus
                BY <1>4, <2>1, <3>1
            <4> HIDE DEF page, i, slot, at
            <4>2. /\ page.longest = UpdateHeader(Classes[k].entries, page.used)
                  /\ page.at \in bootStatus \cup HeapPageIds
                BY <4>1 DEF AllocInv, PagesKnown
            <4>3. Holds(k, page.at, page.used, objects)
                BY <4>1 DEF AllocInv, PagesHold
            <4>4. \A l \in DOMAIN Classes : \A j \in DOMAIN sized[l] : sized[l][j].at = page.at => l = k /\ j = i
                BY <4>1 DEF AllocInv, PagesOnce
            <4>5. page \in AllocPage
                BY <4>1, PageOfList
            <4> QED BY <2>2, <4>1, <4>2, <4>3, <4>4, <4>5
        <3>2. CASE i = 0
            <4>1. page = NewPage(k, FreshPage)
                BY <3>2
            <4>2. slot = SlotIn(k, page, n)
                OBVIOUS
            <4>3. bootStatus' = IF ~bootUp THEN bootStatus \cup {page.at} ELSE bootStatus
                BY <2>1, <3>2
            <4> HIDE DEF page, slot, i, at
            <4>4. PICK f : f = FreshPage
                OBVIOUS
            <4>5. /\ page.at = f /\ page.used = {}
                  /\ page.longest = UpdateHeader(Classes[k].entries, page.used) /\ slot # -1
                <5>1. page = NewPage(k, f) /\ slot = SlotIn(k, NewPage(k, f), n)
                    BY <4>1, <4>2, <4>4
                <5>2. /\ NewPage(k, f).at = f /\ NewPage(k, f).used = {}
                      /\ NewPage(k, f).longest = UpdateHeader(Classes[k].entries, {})
                      /\ SlotIn(k, NewPage(k, f), n) # -1
                    BY <1>1, NewPageIs
                <5> QED BY <5>1, <5>2
            <4>6. /\ f \in Nat /\ f # -1
                  /\ \A l \in DOMAIN Classes : \A j \in DOMAIN sized[l] : sized[l][j].at # f
                  /\ ~bootUp => f \in 0 .. BootPages - 1
                  /\ bootUp => f \in HeapPageIds
                BY <1>6, <4>4, <4>5, FreshIs
            <4>7. page \in AllocPage
                BY <4>1, <4>4, <4>6, ClassIs DEF NewPage, AllocPage
            <4>8. Holds(k, f, {}, objects)
                <5>1. \A o \in objects : ~(o.class = k /\ o.page = f)
                    BY <4>6 DEF AllocInv, ObjectsHavePages, AllocTypeOK
                <5>2. {o \in objects : o.class = k /\ o.page = f} = {}
                    BY <5>1
                <5> QED BY <5>2 DEF Holds
            <4>9. bootStatus' \subseteq 0 .. BootPages - 1 /\ page.at \in bootStatus' \cup HeapPageIds
                BY <2>2, <4>3, <4>5, <4>6
            <4> QED BY <3>2, <4>5, <4>6, <4>7, <4>8, <4>9
        <3> QED BY <3>1, <3>2
    <2>4. slot = SlotIn(k, page, n) /\ after = WithUsed(k, page, page.used \cup (slot .. slot + n - 1))
        OBVIOUS
    <2>5. at = (IF i # 0 THEN i ELSE Len(sized[k]) + 1) /\ (i # 0 => i \in DOMAIN sized[k])
        BY <1>4
    <2> HIDE DEF page, slot, after, at, i
    <2>6. slot \in 0 .. Classes[k].entries - n /\ page.used \cap (slot .. slot + n - 1) = {}
        BY <1>1, <2>3, <2>4, SlotIs
    <2>7. PICK used \in SUBSET Nat : used = page.used
        BY <2>3 DEF AllocPage
    <2>8. used \cup (slot .. slot + n - 1) \in SUBSET Nat
        BY <1>1, <2>6
    <2>9. /\ after \in AllocPage /\ after.at = page.at /\ after.used = used \cup (slot .. slot + n - 1)
          /\ after.longest = UpdateHeader(Classes[k].entries, after.used)
        BY <2>3, <2>4, <2>7, <2>8, WithUsedIs
    <2>10. OnePage(k, at, after)
        <3>1. CASE i # 0
            <4>1. at = i /\ sized'[k] = [sized[k] EXCEPT ![i] = after] /\ sized' = [sized EXCEPT ![k] = sized'[k]]
                BY <2>1, <2>2, <2>5, <3>1
            <4>2. sized'[k] \in Seq(AllocPage) /\ DOMAIN sized'[k] = DOMAIN sized[k]
                BY <2>2, <2>5, <2>9, <3>1, <4>1
            <4> QED BY <2>2, <2>5, <3>1, <4>1, <4>2 DEF OnePage
        <3>2. CASE i = 0
            <4>1. at = Len(sized[k]) + 1 /\ sized'[k] = Append(sized[k], after) /\ sized' = [sized EXCEPT ![k] = sized'[k]]
                BY <2>1, <2>2, <2>5, <3>2
            <4>2. sized'[k] \in Seq(AllocPage) /\ DOMAIN sized'[k] = DOMAIN sized[k] \cup {at} /\ sized'[k][at] = after
                BY <2>2, <2>9, <4>1
            <4>3. \A j \in DOMAIN sized[k] \ {at} : sized'[k][j] = sized[k][j]
                BY <2>2, <4>1
            <4> QED BY <2>2, <4>1, <4>2, <4>3 DEF OnePage
        <3> QED BY <3>1, <3>2
    <2>11. at \in DOMAIN sized[k] => sized[k][at].at = after.at
        <3>1. Len(sized[k]) + 1 \notin DOMAIN sized[k]
            BY <2>2
        <3> QED BY <2>3, <2>5, <2>9, <3>1
    <2>12. bootStatus \subseteq bootStatus' /\ slot \in Nat /\ slot + n <= Classes[k].entries
        BY <1>1, <2>1, <2>6
    <2>13. objects' = objects \cup {[class |-> k, page |-> after.at, at |-> slot, n |-> n]}
        BY <2>1, <2>9
    <2>14. Holds(k, after.at, used, objects) /\ used \cap (slot .. slot + n - 1) = {}
        BY <2>3, <2>6, <2>7, <2>9
    <2>15. /\ \A l \in DOMAIN Classes : \A j \in DOMAIN sized[l] : sized[l][j].at = after.at => l = k /\ j = at
           /\ bootStatus' \subseteq 0 .. BootPages - 1 /\ after.at \in bootStatus' \cup HeapPageIds
        BY <2>3, <2>9
    <2>16. SlotsTaken(k, at, after, used, slot, n)
        BY <2>9, <2>10, <2>11, <2>12, <2>13, <2>14, <2>15 DEF SlotsTaken
    <2> QED BY <2>16, OneMoreObject
<1> QED BY <1>5, <1>6

LEMMA WithoutOne ==
    ASSUME NEW S, NEW s \in Seq(S), NEW i \in DOMAIN s
    PROVE  /\ RemoveAt(s, i) \in Seq(S)
           /\ DOMAIN RemoveAt(s, i) = 1 .. Len(s) - 1
           /\ \A j \in 1 .. Len(s) - 1 : RemoveAt(s, i)[j] = s[IF j < i THEN j ELSE j + 1]
<1> DEFINE a == SubSeq(s, 1, i - 1)
           b == SubSeq(s, i + 1, Len(s))
<1>1. i \in 1 .. Len(s) /\ Len(s) \in Nat
    OBVIOUS
<1>2. a \in Seq(S) /\ Len(a) = i - 1 /\ \A j \in 1 .. i - 1 : a[j] = s[j]
    BY <1>1
<1>3. b \in Seq(S) /\ Len(b) = Len(s) - i /\ \A j \in 1 .. Len(s) - i : b[j] = s[i + j]
    BY <1>1
<1> HIDE DEF a, b
<1>4. a \o b \in Seq(S) /\ Len(a \o b) = Len(s) - 1
    BY <1>1, <1>2, <1>3
<1>5. ASSUME NEW j \in 1 .. Len(s) - 1 PROVE (a \o b)[j] = s[IF j < i THEN j ELSE j + 1]
    <2>1. CASE j < i
        <3>1. j \in 1 .. i - 1 /\ (a \o b)[j] = a[j]
            BY <1>1, <1>2, <1>3, <2>1
        <3> QED BY <1>2, <2>1, <3>1
    <2>2. CASE ~(j < i)
        <3>1. j - (i - 1) \in 1 .. Len(s) - i /\ (a \o b)[j] = b[j - (i - 1)]
            BY <1>1, <1>2, <1>3, <2>2
        <3>2. i + (j - (i - 1)) = j + 1
            BY <1>1
        <3> QED BY <1>3, <2>2, <3>1, <3>2
    <2> QED BY <2>1, <2>2
<1>6. RemoveAt(s, i) = a \o b
    BY DEF RemoveAt, a, b
<1>7. DOMAIN (a \o b) = 1 .. Len(s) - 1
    BY <1>4
<1> QED BY <1>4, <1>5, <1>6, <1>7

LEMMA DeallocateInv ==
    ASSUME AllocInv, NEW o \in objects, Deallocate(o)
    PROVE  AllocInv'
<1> DEFINE k == o.class
           I == {i \in 1 .. Len(sized[k]) : sized[k][i].at = o.page}
           i == SelectInSeq(sized[k], LAMBDA p : p.at = o.page)
           after == WithUsed(k, sized[k][i], sized[k][i].used \ (o.at .. o.at + o.n - 1))
<1>1. k \in DOMAIN Classes /\ o.page \in Nat /\ o.at \in Nat /\ o.n \in Nat \ {0}
    BY DEF AllocInv, AllocTypeOK
<1>2. sized \in [DOMAIN Classes -> Seq(AllocPage)] /\ sized[k] \in Seq(AllocPage)
    BY <1>1 DEF AllocInv, AllocTypeOK
<1>3. i \in DOMAIN sized[k] /\ sized[k][i].at = o.page
    <2>1. I \in SUBSET Nat /\ i = IF I # {} THEN Min(I) ELSE 0
        BY DEF SelectInSeq
    <2>2. I # {}
        BY <1>2 DEF AllocInv, ObjectsHavePages
    <2>3. Min(I) \in I
        <3> HIDE DEF I
        <3> QED BY <2>1, <2>2, LeastNumber
    <2> HIDE DEF i
    <2> QED BY <1>2, <2>1, <2>2, <2>3
<1>4. /\ sized' = [sized EXCEPT ![k] = IF after.used = {} THEN RemoveAt(@, i) ELSE [@ EXCEPT ![i] = after]]
      /\ objects' = objects \ {o} /\ bootStatus' = bootStatus
    BY DEF Deallocate
<1>5. after = WithUsed(k, sized[k][i], sized[k][i].used \ SlotsOf(o))
    BY DEF SlotsOf
<1> HIDE DEF I, i, after, k
<1>6. k = o.class
    BY DEF k
<1>7. PICK p \in AllocPage : p = sized[k][i]
    BY <1>1, <1>3, PageOfList
<1>8. p.used \in SUBSET Nat /\ p.used \ SlotsOf(o) \in SUBSET Nat /\ p.at = o.page
    BY <1>3, <1>7 DEF AllocPage
<1>9. /\ after \in AllocPage /\ after.at = o.page /\ after.used = p.used \ SlotsOf(o)
      /\ after.longest = UpdateHeader(Classes[k].entries, after.used)
    BY <1>1, <1>5, <1>7, <1>8, WithUsedIs
<1>10. Holds(k, o.page, p.used \ SlotsOf(o), objects')
    <2>1. Holds(k, o.page, p.used, objects)
        BY <1>1, <1>3, <1>7, <1>8 DEF AllocInv, PagesHold
    <2> QED BY <1>1, <1>4, <1>6, <2>1, PageLoses
<1>11. ASSUME NEW l \in DOMAIN Classes, NEW j \in DOMAIN sized[l], ~(l = k /\ j = i)
       PROVE  Holds(l, sized[l][j].at, sized[l][j].used, objects') /\ sized[l][j].used # {}
    <2>1. Holds(l, sized[l][j].at, sized[l][j].used, objects) /\ sized[l][j].used # {}
        BY DEF AllocInv, PagesHold
    <2>2. ~(o.class = l /\ o.page = sized[l][j].at)
        BY <1>1, <1>3, <1>6, <1>11 DEF AllocInv, PagesOnce
    <2> QED BY <1>4, <2>1, <2>2, PageStays
<1>12. ASSUME NEW q \in objects'
       PROVE  /\ q.class \in DOMAIN Classes
              /\ \E j \in DOMAIN sized[q.class] : sized[q.class][j].at = q.page
              /\ q.class = k /\ q.page = o.page => after.used # {}
    <2>1. q \in objects /\ q.class \in DOMAIN Classes /\ q.at \in Nat /\ q.n \in Nat \ {0}
        BY <1>4 DEF AllocInv, AllocTypeOK
    <2>2. ASSUME q.class = k, q.page = o.page PROVE after.used # {}
        <3>1. SlotsOf(q) \subseteq after.used
            BY <1>9, <1>10, <2>2 DEF Holds
        <3>2. q.at \in SlotsOf(q)
            BY <2>1 DEF SlotsOf
        <3> QED BY <3>1, <3>2
    <2> QED BY <2>1, <2>2 DEF AllocInv, ObjectsHavePages
<1>13. bootStatus' \subseteq 0 .. BootPages - 1 /\ objects' \subseteq [class : DOMAIN Classes, page : Nat, at : Nat, n : Nat \ {0}]
    BY <1>4 DEF AllocInv, AllocTypeOK
<1>14. CASE after.used # {}
    <2>1. sized'[k] = [sized[k] EXCEPT ![i] = after] /\ sized' = [sized EXCEPT ![k] = sized'[k]]
        BY <1>1, <1>2, <1>4, <1>14
    <2>2. sized'[k] \in Seq(AllocPage) /\ DOMAIN sized'[k] = DOMAIN sized[k]
        BY <1>2, <1>3, <1>9, <2>1
    <2>3. /\ sized' \in [DOMAIN Classes -> Seq(AllocPage)]
          /\ \A l \in DOMAIN Classes : DOMAIN sized'[l] = DOMAIN sized[l]
          /\ sized'[k][i] = after
          /\ \A l \in DOMAIN Classes : \A j \in DOMAIN sized[l] : ~(l = k /\ j = i) => sized'[l][j] = sized[l][j]
        BY <1>1, <1>2, <1>3, <2>1, <2>2
    <2>4. \A l \in DOMAIN Classes : \A j \in DOMAIN sized[l] : sized'[l][j].at = sized[l][j].at
        BY <1>3, <1>9, <2>3
    <2>5. AllocTypeOK'
        BY <1>13, <2>3 DEF AllocTypeOK
    <2>6. PagesHold'
        BY <1>3, <1>9, <1>10, <1>11, <1>14, <2>3 DEF PagesHold, Holds, SlotsOf
    <2>7. ObjectsHavePages'
        BY <1>12, <2>3, <2>4 DEF ObjectsHavePages
    <2>8. PagesOnce'
        BY <2>3, <2>4 DEF PagesOnce, AllocInv
    <2>9. PagesKnown'
        <3> SUFFICES ASSUME NEW l \in DOMAIN Classes, NEW j \in DOMAIN sized'[l]
                     PROVE  /\ sized'[l][j].at \in bootStatus \cup HeapPageIds
                            /\ sized'[l][j].longest = UpdateHeader(Classes[l].entries, sized'[l][j].used)
            BY <1>4 DEF PagesKnown
        <3>1. j \in DOMAIN sized[l] /\ sized'[l][j].at \in bootStatus \cup HeapPageIds
            BY <2>3, <2>4 DEF AllocInv, PagesKnown
        <3>2. CASE l = k /\ j = i
            BY <1>9, <2>3, <3>1, <3>2
        <3>3. CASE ~(l = k /\ j = i)
            BY <2>3, <3>1, <3>3 DEF AllocInv, PagesKnown
        <3> QED BY <3>1, <3>2, <3>3
    <2> QED BY <2>5, <2>6, <2>7, <2>8, <2>9 DEF AllocInv
<1>15. CASE after.used = {}
    <2>1. sized'[k] = RemoveAt(sized[k], i) /\ sized' = [sized EXCEPT ![k] = sized'[k]]
        BY <1>1, <1>2, <1>4, <1>15
    <2> DEFINE was(j) == IF j < i THEN j ELSE j + 1
    <2>2. /\ sized'[k] \in Seq(AllocPage) /\ DOMAIN sized'[k] = 1 .. Len(sized[k]) - 1
          /\ \A j \in 1 .. Len(sized[k]) - 1 : sized'[k][j] = sized[k][was(j)]
        <3>1. PICK s \in Seq(AllocPage) : s = sized[k] /\ i \in DOMAIN s
            BY <1>2, <1>3
        <3>2. /\ RemoveAt(s, i) \in Seq(AllocPage) /\ DOMAIN RemoveAt(s, i) = 1 .. Len(s) - 1
              /\ \A j \in 1 .. Len(s) - 1 : RemoveAt(s, i)[j] = s[IF j < i THEN j ELSE j + 1]
            BY <3>1, WithoutOne
        <3> QED BY <2>1, <3>1, <3>2
    <2>3. DOMAIN sized[k] = 1 .. Len(sized[k]) /\ Len(sized[k]) \in Nat /\ i \in 1 .. Len(sized[k])
        BY <1>2, <1>3
    <2>4. /\ sized' \in [DOMAIN Classes -> Seq(AllocPage)]
          /\ \A l \in DOMAIN Classes \ {k} : sized'[l] = sized[l]
        BY <1>1, <1>2, <2>1, <2>2
    <2>5. \A j \in DOMAIN sized'[k] : was(j) \in DOMAIN sized[k] /\ was(j) # i /\ sized'[k][j] = sized[k][was(j)]
        BY <2>2, <2>3
    <2>6. \A j, m \in DOMAIN sized'[k] : was(j) = was(m) => j = m
        BY <2>2, <2>3
    <2>7. AllocTypeOK'
        BY <1>13, <2>4 DEF AllocTypeOK
    <2>8. PagesHold'
        <3> SUFFICES ASSUME NEW l \in DOMAIN Classes, NEW j \in DOMAIN sized'[l]
                     PROVE  Holds(l, sized'[l][j].at, sized'[l][j].used, objects') /\ sized'[l][j].used # {}
            BY DEF PagesHold, Holds, SlotsOf
        <3>1. CASE l = k
            <4> HIDE DEF was
            <4> QED BY <1>1, <1>11, <2>5, <3>1
        <3>2. CASE l # k
            BY <1>11, <2>4, <3>2
        <3> QED BY <3>1, <3>2
    <2>9. ObjectsHavePages'
        <3> SUFFICES ASSUME NEW q \in objects'
                     PROVE  \E j \in DOMAIN sized'[q.class] : sized'[q.class][j].at = q.page
            BY DEF ObjectsHavePages
        <3>1. CASE q.class # k
            BY <1>12, <2>4, <3>1
        <3>2. CASE q.class = k
            <4>1. PICK j \in DOMAIN sized[k] : sized[k][j].at = q.page
                BY <1>12, <3>2
            <4>2. j # i
                BY <1>3, <1>12, <1>15, <3>2, <4>1
            <4> DEFINE m == IF j < i THEN j ELSE j - 1
            <4>3. m \in DOMAIN sized'[k] /\ was(m) = j
                BY <2>2, <2>3, <4>2
            <4>4. sized'[k][m].at = q.page
                BY <2>5, <4>1, <4>3
            <4> QED BY <3>2, <4>3, <4>4
        <3> QED BY <3>1, <3>2
    <2>10. PagesOnce'
        <3> SUFFICES ASSUME NEW l \in DOMAIN Classes, NEW m \in DOMAIN Classes,
                            NEW j \in DOMAIN sized'[l], NEW h \in DOMAIN sized'[m],
                            sized'[l][j].at = sized'[m][h].at
                     PROVE  l = m /\ j = h
            BY DEF PagesOnce
        <3> DEFINE old(c, x) == IF c = k THEN was(x) ELSE x
        <3>1. old(l, j) \in DOMAIN sized[l] /\ sized'[l][j] = sized[l][old(l, j)]
            <4> HIDE DEF was
            <4> QED BY <2>4, <2>5
        <3>2. old(m, h) \in DOMAIN sized[m] /\ sized'[m][h] = sized[m][old(m, h)]
            <4> HIDE DEF was
            <4> QED BY <2>4, <2>5
        <3>3. l = m /\ old(l, j) = old(m, h)
            <4> HIDE DEF old
            <4> QED BY <3>1, <3>2 DEF AllocInv, PagesOnce
        <3> HIDE DEF was
        <3> QED BY <2>6, <3>3
    <2>11. PagesKnown'
        <3> SUFFICES ASSUME NEW l \in DOMAIN Classes, NEW j \in DOMAIN sized'[l]
                     PROVE  /\ sized'[l][j].at \in bootStatus \cup HeapPageIds
                            /\ sized'[l][j].longest = UpdateHeader(Classes[l].entries, sized'[l][j].used)
            BY <1>4 DEF PagesKnown
        <3> HIDE DEF was
        <3> QED BY <1>1, <2>4, <2>5 DEF AllocInv, PagesKnown
    <2> QED BY <2>7, <2>8, <2>9, <2>10, <2>11 DEF AllocInv
<1> QED BY <1>14, <1>15

LEMMA AllocAlways == MemorySpec => []AllocInv
<1>1. MemoryInit => AllocInv
    <2> SUFFICES ASSUME AllocatorsInit PROVE AllocInv
        BY DEF MemoryInit
    <2>1. sized = [k \in DOMAIN Classes |-> <<>>] /\ bootStatus = {} /\ objects = {}
        BY DEF AllocatorsInit
    <2>2. \A k \in DOMAIN Classes : sized[k] = <<>> /\ DOMAIN sized[k] = {}
        BY <2>1
    <2>3. sized \in [DOMAIN Classes -> Seq(AllocPage)]
        BY <2>1
    <2> QED BY <2>1, <2>2, <2>3 DEF AllocInv, AllocTypeOK, PagesHold, ObjectsHavePages, PagesOnce, PagesKnown
<1>2. AllocInv /\ [MemoryNext]_memoryVars => AllocInv'
    <2> SUFFICES ASSUME AllocInv, [MemoryNext]_memoryVars PROVE AllocInv'
        OBVIOUS
    <2>1. AllocatorStep \/ UNCHANGED <<sized, bootStatus, objects>>
        BY DEF MemoryNext, memoryVars, allocVars, SlabStep, InitSlab, SlabAlloc, SlabFree
    <2>2. CASE UNCHANGED <<sized, bootStatus, objects>>
        BY <2>2 DEF AllocInv, AllocTypeOK, PagesHold, Holds, SlotsOf, ObjectsHavePages, PagesOnce, PagesKnown
    <2>3. CASE AllocatorStep
        <3>1. ASSUME NEW len \in Lengths, New(len) PROVE AllocInv'
            <4> DEFINE I == {i \in 1 .. Len(Classes) : Classes[i].size >= len}
            <4>1. GetAllocator(len) # 0 /\ Allocate(GetAllocator(len), 1)
                BY <3>1 DEF New
            <4>2. I \in SUBSET Nat /\ GetAllocator(len) = IF I # {} THEN Min(I) ELSE 0
                BY DEF GetAllocator, SelectInSeq
            <4>3. I \subseteq DOMAIN Classes
                BY AllocatorsAssumption
            <4> HIDE DEF I
            <4>4. GetAllocator(len) \in I
                BY <4>1, <4>2, LeastNumber
            <4>5. PICK k \in DOMAIN Classes : k = GetAllocator(len)
                BY <4>3, <4>4
            <4> QED BY <4>1, <4>5, AllocateInv
        <3>2. ASSUME NEW k \in DOMAIN Classes, NEW n \in Counts, Allocate(k, n) PROVE AllocInv'
            <4>1. n \in Nat \ {0}
                BY AllocatorsAssumption
            <4> QED BY <3>2, <4>1, AllocateInv
        <3>3. CASE MemoryIsUp
            <4>1. UNCHANGED <<sized, bootStatus, objects>>
                BY <3>3 DEF MemoryIsUp
            <4> QED BY <2>2, <4>1
        <3> QED BY <2>3, <3>1, <3>2, <3>3, DeallocateInv DEF AllocatorStep
    <2> QED BY <2>1, <2>2, <2>3
<1> QED BY <1>1, <1>2, PTL DEF MemorySpec, memoryVars

\* However objects of all sizes come and go, before and after the kernel has
\* its heap: no two share a slot and no two lists share a page.
THEOREM ObjectsStaySeparate == MemorySpec => []ObjectsAreSeparate
BY AllocAlways, SeparateIs, PTL

\* The header of a page always says how many slots in a row it has free, and
\* the search that trusts it finds them, for all sizes of pages and slots.
THEOREM HeadersStayHonest == MemorySpec => []HeaderIsHonest
BY AllocAlways, HonestIs, PTL

-----------------------------------------------------------------------------
(* The loader: the firmware's memory *)

MachinePages == DOMAIN FirmwareMap

PageTypes == {"free", "boot", "runtime", "loader"}

FirmwareState == [mem : [MachinePages -> PageTypes], key : Nat, exited : BOOLEAN, events : Nat]

\* Pages the loader has got and not given back, which it never does.
LoaderHas(m, p, n) == \A q \in p .. p + n - 1 : q \in MachinePages /\ m[q] = "loader"

\* What the loader has stays its own.
Keeps(m1, m2) == \A q \in MachinePages : m1[q] = "loader" => m2[q] = "loader"

LEMMA MachinePagesAre ==
    /\ Max(MachinePages) \in Nat /\ MachinePages \in SUBSET Nat
    /\ \A p \in MachinePages : p >= 1 /\ p <= Max(MachinePages)
BY LoaderAssumption DEF MachinePages

LEMMA OwnedStays ==
    ASSUME NEW m1, NEW m2, Keeps(m1, m2), NEW p, NEW n, LoaderHas(m1, p, n)
    PROVE  LoaderHas(m2, p, n)
BY DEF Keeps, LoaderHas

LEMMA KeepsOn ==
    ASSUME NEW m1, NEW m2, NEW m3, Keeps(m1, m2), Keeps(m2, m3)
    PROVE  Keeps(m1, m3)
BY DEF Keeps

LEMMA PagesForIs ==
    ASSUME NEW b \in Nat
    PROVE  PagesFor(b) \in Nat
<1>1. PageB \in Nat \ {0}
    BY LoaderAssumption
<1>2. b + PageB - 1 \in Nat
    BY <1>1
<1> QED BY <1>1, <1>2, Division DEF PagesFor

LEMMA PagesForWhole ==
    ASSUME NEW n \in Nat
    PROVE  PageB * n \in Nat /\ PagesFor(PageB * n) = n
<1>1. PageB \in Nat \ {0}
    BY LoaderAssumption
<1>2. PICK x \in Nat : x = PageB * n
    BY <1>1
<1>3. PICK y \in Nat : y = x + PageB - 1
    BY <1>1, <1>2
<1>4. /\ y \div PageB \in Nat /\ y % PageB \in 0 .. PageB - 1
      /\ PageB * (y \div PageB) = y - (y % PageB)
    BY <1>1, <1>3, Division
<1>5. PICK q \in Nat : q = y \div PageB
    BY <1>4
<1>6. PageB * q = y - (y % PageB)
    BY <1>4, <1>5
<1>7. PageB * q >= x /\ PageB * q < x + PageB
    BY <1>1, <1>2, <1>3, <1>4, <1>6
<1>8. ~(q < n)
    <2> SUFFICES ASSUME q < n PROVE FALSE
        OBVIOUS
    <2>1. PageB * (q + 1) <= PageB * n
        BY <1>1, TimesGrows
    <2>2. PageB * (q + 1) = PageB * q + PageB
        BY <1>1
    <2> QED BY <1>1, <1>2, <1>7, <2>1, <2>2
<1>9. ~(n < q)
    <2> SUFFICES ASSUME n < q PROVE FALSE
        OBVIOUS
    <2>1. PageB * (n + 1) <= PageB * q
        BY <1>1, TimesGrows
    <2>2. PageB * (n + 1) = PageB * n + PageB
        BY <1>1
    <2> QED BY <1>1, <1>2, <1>7, <2>1, <2>2
<1>10. q = n
    BY <1>8, <1>9
<1> QED BY <1>2, <1>3, <1>5, <1>10 DEF PagesFor

LEMMA RecordPagesAre ==
    ASSUME NEW n \in Nat
    PROVE  RecordPages(n) \in Nat
<1>1. RecordsPerPage \in Nat \ {0}
    BY LoaderAssumption
<1>2. n + RecordsPerPage - 1 \in Nat
    BY <1>1
<1> QED BY <1>1, <1>2, Division DEF RecordPages

\* AllocatePages gives pages that were free.
LEMMA AllocatedIs ==
    ASSUME NEW f \in FirmwareState, NEW n \in Nat, FreeRun(f, n) # 0,
           NEW f2, f2 = Allocated(f, n), NEW p, p = FreeRun(f, n)
    PROVE  /\ f2 \in FirmwareState /\ f2.key = f.key + 1 /\ f2.exited = f.exited
           /\ p \in Nat /\ LoaderHas(f2.mem, p, n) /\ Keeps(f.mem, f2.mem)
<1> DEFINE starts == {s \in MachinePages : \A q \in s .. s + n - 1 : q \in MachinePages /\ f.mem[q] = "free"}
<1>1. DOMAIN f.mem = MachinePages
    BY DEF FirmwareState
<1>2. p = IF starts = {} THEN 0 ELSE Min(starts)
    BY <1>1 DEF FreeRun
<1>3. starts # {} /\ starts \in SUBSET Nat
    BY <1>2, MachinePagesAre
<1> HIDE DEF starts
<1>4. p \in starts
    BY <1>2, <1>3, LeastNumber
<1>5. p \in Nat /\ \A q \in p .. p + n - 1 : q \in MachinePages
    BY <1>3, <1>4 DEF starts
<1>6. f2 = [f EXCEPT !.mem = [q \in MachinePages |-> IF q \in p .. p + n - 1 THEN "loader" ELSE f.mem[q]],
                     !.key = @ + 1]
    BY <1>1 DEF Allocated
<1>7. f2.mem = [q \in MachinePages |-> IF q \in p .. p + n - 1 THEN "loader" ELSE f.mem[q]]
    BY <1>6 DEF FirmwareState
<1>8. f2 \in FirmwareState /\ f2.key = f.key + 1 /\ f2.exited = f.exited
    <2>1. f2.mem \in [MachinePages -> PageTypes]
        BY <1>7 DEF FirmwareState, PageTypes
    <2>2. f2.key = f.key + 1 /\ f2.exited = f.exited /\ f2.events = f.events /\ f.key \in Nat
        BY <1>6 DEF FirmwareState
    <2>3. f2 = [mem |-> f2.mem, key |-> f.key + 1, exited |-> f.exited, events |-> f.events]
        BY <1>6, <2>2 DEF FirmwareState
    <2>4. f.key + 1 \in Nat /\ f.exited \in BOOLEAN /\ f.events \in Nat
        BY <2>2 DEF FirmwareState
    <2> QED BY <2>1, <2>2, <2>3, <2>4, Zenon DEF FirmwareState
<1>9. LoaderHas(f2.mem, p, n)
    BY <1>5, <1>7 DEF LoaderHas
<1>10. Keeps(f.mem, f2.mem)
    BY <1>7 DEF Keeps
<1> QED BY <1>5, <1>8, <1>9, <1>10

-----------------------------------------------------------------------------
(* The memory map *)

Flags == {"", "usable", "firmware"}

Descriptor == [start : Nat, count : Nat, type : PageTypes]

Region == [start : Nat, count : Nat, flags : Flags]

\* All pages of a descriptor have its type, all usable pages are free.
TypeIsTrue(m, d) == \A q \in d.start .. d.start + d.count - 1 : q \in MachinePages /\ m[q] = d.type

RegionIsFree(m, r) ==
    r.flags = "usable" => \A q \in r.start .. r.start + r.count - 1 : q \in MachinePages /\ m[q] = "free"

RegionsAreFree(m, regions) == \A i \in 1 .. Len(regions) : RegionIsFree(m, regions[i])

\* After page p the last descriptor ends there, if there is such a page.
DescribesUpTo(m, ds, p) ==
    /\ \A i \in 1 .. Len(ds) : TypeIsTrue(m, ds[i])
    /\ p \in MachinePages => /\ Len(ds) > 0 /\ ds[Len(ds)].start + ds[Len(ds)].count = p + 1
                             /\ ds[Len(ds)].type = m[p] /\ ds[Len(ds)].start <= p

LEMMA DescribedIs ==
    ASSUME NEW f \in FirmwareState, NEW ds \in Seq(Descriptor), NEW p \in Nat, NEW ds2, ds2 = Described(f, ds, p)
    PROVE  /\ ds2 \in Seq(Descriptor)
           /\ p > 0 /\ DescribesUpTo(f.mem, ds, p - 1) => DescribesUpTo(f.mem, ds2, p)
<1>0. DOMAIN f.mem = MachinePages /\ \A q \in MachinePages : f.mem[q] \in PageTypes
    BY DEF FirmwareState
<1>1. CASE p \notin MachinePages
    <2>1. ds2 = ds
        BY <1>0, <1>1 DEF Described
    <2> QED BY <1>1, <2>1 DEF DescribesUpTo
<1>2. CASE p \in MachinePages /\ p - 1 \in MachinePages /\ f.mem[p - 1] = f.mem[p] /\ p \notin Splits
    <2>1. PICK n : n = Len(ds)
        OBVIOUS
    <2>2. ds2 = [ds EXCEPT ![n].count = @ + 1]
        BY <1>0, <1>2, <2>1 DEF Described
    <2>3. ds2 \in Seq(Descriptor) /\ Len(ds2) = n
        <3>1. n \in Nat /\ ds \in [1 .. n -> Descriptor]
            BY <2>1
        <3>2. \A d \in Descriptor : [d EXCEPT !.count = @ + 1] \in Descriptor
            BY DEF Descriptor
        <3>3. ds2 \in [1 .. n -> Descriptor]
            BY <2>2, <3>1, <3>2
        <3> QED BY <3>1, <3>3
    <2>4. ASSUME DescribesUpTo(f.mem, ds, p - 1) PROVE DescribesUpTo(f.mem, ds2, p)
        <3>1. /\ n > 0 /\ ds[n].start + ds[n].count = (p - 1) + 1 /\ ds[n].type = f.mem[p] /\ ds[n].start <= p - 1
              /\ \A i \in 1 .. n : TypeIsTrue(f.mem, ds[i])
            BY <1>2, <2>1, <2>4 DEF DescribesUpTo
        <3>2. n \in 1 .. Len(ds) /\ ds[n] \in Descriptor
            BY <2>1, <3>1
        <3>3. ds[n].start \in Nat /\ ds[n].count \in Nat
            BY <3>2 DEF Descriptor
        <3>4. ds2[n].start = ds[n].start /\ ds2[n].type = ds[n].type /\ ds2[n].count = ds[n].count + 1
            BY <2>1, <2>2, <3>2 DEF Descriptor
        <3>5. TypeIsTrue(f.mem, ds2[n])
            <4> SUFFICES ASSUME NEW q \in ds[n].start .. ds[n].start + (ds[n].count + 1) - 1
                         PROVE  q \in MachinePages /\ f.mem[q] = ds[n].type
                BY <3>4 DEF TypeIsTrue
            <4>1. q = p \/ q \in ds[n].start .. ds[n].start + ds[n].count - 1
                BY <3>1, <3>3
            <4>2. TypeIsTrue(f.mem, ds[n])
                BY <2>1, <3>1, <3>2
            <4> QED BY <1>2, <3>1, <4>1, <4>2 DEF TypeIsTrue
        <3>6. \A i \in 1 .. n : i # n => ds2[i] = ds[i]
            BY <2>1, <2>2
        <3>7. \A i \in 1 .. Len(ds2) : TypeIsTrue(f.mem, ds2[i])
            BY <2>3, <3>1, <3>5, <3>6
        <3>8. ds2[n].start + ds2[n].count = p + 1 /\ ds2[n].start <= p
            <4>1. PICK s \in Nat, c \in Nat : s = ds[n].start /\ c = ds[n].count
                BY <3>3
            <4>2. s + c = (p - 1) + 1 /\ s <= p - 1
                BY <3>1, <4>1
            <4>3. s + (c + 1) = p + 1 /\ s <= p
                BY <4>2
            <4> QED BY <3>4, <4>1, <4>3
        <3> QED BY <2>3, <3>1, <3>4, <3>7, <3>8 DEF DescribesUpTo
    <2> QED BY <2>3, <2>4
<1>3. CASE p \in MachinePages /\ ~(p - 1 \in MachinePages /\ f.mem[p - 1] = f.mem[p] /\ p \notin Splits)
    <2>1. PICK d : d = [start |-> p, count |-> 1, type |-> f.mem[p]]
        OBVIOUS
    <2>2. ds2 = Append(ds, d)
        BY <1>0, <1>3, <2>1 DEF Described
    <2>3. d \in Descriptor
        BY <1>0, <1>3, <2>1 DEF Descriptor
    <2>4. ds2 \in Seq(Descriptor) /\ Len(ds2) = Len(ds) + 1 /\ ds2[Len(ds) + 1] = d
          /\ \A i \in 1 .. Len(ds) : ds2[i] = ds[i]
        BY <2>2, <2>3
    <2>5. TypeIsTrue(f.mem, d)
        BY <1>3, <2>1 DEF TypeIsTrue
    <2>6. ASSUME DescribesUpTo(f.mem, ds, p - 1) PROVE DescribesUpTo(f.mem, ds2, p)
        <3>1. \A i \in 1 .. Len(ds) + 1 : i \in 1 .. Len(ds) \/ i = Len(ds) + 1
            OBVIOUS
        <3>2. \A i \in 1 .. Len(ds2) : TypeIsTrue(f.mem, ds2[i])
            BY <2>4, <2>5, <2>6, <3>1 DEF DescribesUpTo
        <3> QED BY <2>1, <2>4, <3>2 DEF DescribesUpTo
    <2> QED BY <2>4, <2>6
<1> QED BY <1>1, <1>2, <1>3

LEMMA DescriptorsAre ==
    ASSUME NEW f \in FirmwareState
    PROVE  /\ Descriptors(f) \in Seq(Descriptor)
           /\ \A i \in 1 .. Len(Descriptors(f)) : TypeIsTrue(f.mem, Descriptors(f)[i])
<1>0. PICK N \in Nat : N = Max(DOMAIN f.mem)
    BY MachinePagesAre DEF FirmwareState
<1> DEFINE at[p \in 0 .. N] == IF p = 0 THEN <<>> ELSE Described(f, at[p - 1], p)
           IsAt(g) == g = [p \in 0 .. N |-> IF p = 0 THEN <<>> ELSE Described(f, g[p - 1], p)]
           S == Seq(Descriptor)
           G == [p \in Nat |-> [ds \in S |-> Described(f, ds, p)]]
<1>1. \A p \in Nat : \A ds \in S : Described(f, ds, p) \in S
    BY DescribedIs
<1> HIDE DEF S
<1>2. PICK g : IsWalk(S, <<>>, G, N, g)
    <2>1. <<>> \in S
        BY DEF S
    <2>2. CanWalk(S, <<>>, G, N)
        BY <1>1, <2>1 DEF CanWalk
    <2> HIDE DEF G
    <2> QED BY <2>2, StepByStep
<1>3. IsAt(g)
    <2>1. \A n \in 1 .. N : g[n] = Described(f, g[n - 1], n)
        <3> SUFFICES ASSUME NEW n \in 1 .. N PROVE g[n] = Described(f, g[n - 1], n)
            OBVIOUS
        <3>1. n - 1 \in 0 .. N /\ n \in Nat
            OBVIOUS
        <3>2. g[n - 1] \in S
            BY <1>2, <3>1 DEF IsWalk
        <3>3. G[n][g[n - 1]] = Described(f, g[n - 1], n)
            BY <3>1, <3>2
        <3> QED BY <1>2, <3>3 DEF IsWalk
    <2> QED BY <1>2, <2>1 DEF IsWalk
<1>4. at = CHOOSE h : IsAt(h)
    OBVIOUS
<1>5. IsAt(at)
    <2> HIDE DEF at, IsAt
    <2> QED BY <1>3, <1>4
<1>6. Descriptors(f) = at[N]
    BY <1>0 DEF Descriptors
<1> HIDE DEF at
<1>7. at[0] = <<>> /\ \A n \in 1 .. N : at[n] = Described(f, at[n - 1], n)
    BY <1>5
<1> DEFINE T == {n \in Nat : n <= N => at[n] \in S /\ DescribesUpTo(f.mem, at[n], n)}
<1>8. 0 \in T
    <2>1. 0 \notin MachinePages
        BY MachinePagesAre
    <2>2. <<>> \in S
        BY DEF S
    <2> QED BY <1>7, <2>1, <2>2 DEF DescribesUpTo
<1>9. ASSUME NEW n \in T PROVE n + 1 \in T
    <2> SUFFICES ASSUME n + 1 <= N PROVE at[n + 1] \in S /\ DescribesUpTo(f.mem, at[n + 1], n + 1)
        OBVIOUS
    <2>1. n \in Nat /\ n + 1 \in 1 .. N /\ (n + 1) - 1 = n /\ n + 1 > 0 /\ n + 1 \in Nat
        OBVIOUS
    <2>2. at[n] \in S /\ DescribesUpTo(f.mem, at[n], (n + 1) - 1)
        BY <2>1
    <2>3. at[n + 1] = Described(f, at[n], n + 1)
        BY <1>7, <2>1
    <2> QED BY <2>1, <2>2, <2>3, DescribedIs DEF S
<1> HIDE DEF T
<1>10. T = Nat
    <2>1. T \in SUBSET Nat
        BY DEF T
    <2> QED BY <1>8, <1>9, <2>1, CountingUp
<1>11. at[N] \in S /\ DescribesUpTo(f.mem, at[N], N)
    BY <1>10 DEF T
<1> QED BY <1>6, <1>11 DEF S, DescribesUpTo

LEMMA FlagsAre ==
    ASSUME NEW t \in PageTypes
    PROVE  FlagsOf(t) \in Flags /\ (FlagsOf(t) = "usable" => t = "free")
BY DEF PageTypes, Flags, FlagsOf

LEMMA AddRegionIs ==
    ASSUME NEW m, NEW regions \in Seq(Region), NEW d \in Descriptor, NEW r2, r2 = AddRegion(regions, d)
    PROVE  /\ r2 \in Seq(Region)
           /\ RegionsAreFree(m, regions) /\ TypeIsTrue(m, d) => RegionsAreFree(m, r2)
<1>1. PICK flags \in Flags : flags = FlagsOf(d.type) /\ (flags = "usable" => d.type = "free")
    BY FlagsAre DEF Descriptor
<1>2. PICK n \in Nat : n = Len(regions)
    OBVIOUS
<1> DEFINE follows == n > 0 /\ regions[n].start + regions[n].count = d.start /\ regions[n].flags = flags
           new == [start |-> d.start, count |-> d.count, flags |-> flags]
<1>3. PICK merged : merged = IF follows THEN [regions EXCEPT ![n].count = @ + d.count] ELSE regions
    OBVIOUS
<1>4. r2 = IF flags = "" THEN regions ELSE Append(merged, new)
    BY <1>1, <1>2, <1>3 DEF AddRegion
<1>5. d.start \in Nat /\ d.count \in Nat
    BY DEF Descriptor
<1>6. new \in Region
    BY <1>5 DEF Region
<1>7. merged \in [1 .. n -> Region]
    <2>1. regions \in [1 .. n -> Region]
        BY <1>2
    <2>2. \A r \in Region : [r EXCEPT !.count = @ + d.count] \in Region
        BY <1>5 DEF Region
    <2>3. CASE ~follows
        BY <1>3, <2>1, <2>3
    <2>4. CASE follows
        <3>1. merged = [regions EXCEPT ![n].count = @ + d.count]
            BY <1>3, <2>4
        <3> HIDE DEF follows
        <3> QED BY <2>1, <2>2, <3>1
    <2> QED BY <2>3, <2>4
<1>8. merged \in Seq(Region) /\ Len(merged) = n
    BY <1>2, <1>7
<1>9. r2 \in Seq(Region)
    <2> HIDE DEF new
    <2>1. Append(merged, new) \in Seq(Region)
        BY <1>6, <1>8
    <2> QED BY <1>4, <2>1
<1>10. ASSUME RegionsAreFree(m, regions), TypeIsTrue(m, d), flags # "" PROVE RegionsAreFree(m, r2)
    <2>1. RegionIsFree(m, new)
        BY <1>1, <1>10 DEF RegionIsFree, TypeIsTrue
    <2>2. ASSUME NEW i \in 1 .. n PROVE RegionIsFree(m, merged[i])
        <3>1. RegionIsFree(m, regions[i])
            BY <1>2, <1>10 DEF RegionsAreFree
        <3>2. CASE ~(follows /\ i = n)
            <4>1. merged[i] = regions[i]
                BY <1>2, <1>3, <3>2
            <4> QED BY <3>1, <4>1
        <3>3. CASE follows /\ i = n
            <4>1. regions[n] \in Region
                BY <1>2, <3>3
            <4>2. regions[n].start \in Nat /\ regions[n].count \in Nat
                BY <4>1 DEF Region
            <4>3. /\ merged[n].start = regions[n].start /\ merged[n].flags = flags
                  /\ merged[n].count = regions[n].count + d.count
                BY <1>2, <1>3, <3>3, <4>1 DEF Region
            <4> SUFFICES ASSUME flags = "usable",
                                NEW q \in regions[n].start .. regions[n].start + (regions[n].count + d.count) - 1
                         PROVE  q \in MachinePages /\ m[q] = "free"
                BY <3>3, <4>3 DEF RegionIsFree
            <4>4. PICK s \in Nat, c \in Nat, e \in Nat : s = regions[n].start /\ c = regions[n].count /\ e = d.count
                BY <1>5, <4>2
            <4>5. s + c = d.start /\ q \in s .. s + (c + e) - 1
                BY <3>3, <4>4
            <4>6. q \in s .. s + c - 1 \/ q \in d.start .. d.start + e - 1
                BY <1>5, <4>5
            <4>7. CASE q \in s .. s + c - 1
                BY <3>1, <3>3, <4>4, <4>7 DEF RegionIsFree
            <4>8. CASE q \in d.start .. d.start + e - 1
                BY <1>1, <1>10, <4>4, <4>8 DEF TypeIsTrue
            <4> QED BY <4>6, <4>7, <4>8
        <3> QED BY <3>2, <3>3
    <2>3. r2 = Append(merged, new)
        BY <1>4, <1>10
    <2>4. Len(r2) = n + 1 /\ r2[n + 1] = new /\ \A i \in 1 .. n : r2[i] = merged[i]
        <3> HIDE DEF new
        <3> QED BY <1>8, <2>3
    <2>5. \A i \in 1 .. n + 1 : i \in 1 .. n \/ i = n + 1
        OBVIOUS
    <2> QED BY <2>1, <2>2, <2>4, <2>5 DEF RegionsAreFree
<1>11. CASE flags = ""
    BY <1>4, <1>11
<1> QED BY <1>9, <1>10, <1>11

LEMMA RegionsAre ==
    ASSUME NEW m, NEW ds \in Seq(Descriptor), \A i \in 1 .. Len(ds) : TypeIsTrue(m, ds[i])
    PROVE  RegionsOf(ds) \in Seq(Region) /\ RegionsAreFree(m, RegionsOf(ds))
<1>0. PICK N \in Nat : N = Len(ds)
    OBVIOUS
<1> DEFINE at[i \in 0 .. N] == IF i = 0 THEN <<>> ELSE AddRegion(at[i - 1], ds[i])
           IsAt(g) == g = [i \in 0 .. N |-> IF i = 0 THEN <<>> ELSE AddRegion(g[i - 1], ds[i])]
           S == Seq(Region)
           G == [i \in Nat |-> [rs \in S |-> IF i \in 1 .. N THEN AddRegion(rs, ds[i]) ELSE rs]]
<1>1. \A i \in 1 .. N : \A rs \in S : AddRegion(rs, ds[i]) \in S
    <2>1. \A i \in 1 .. N : ds[i] \in Descriptor
        BY <1>0
    <2> QED BY <2>1, AddRegionIs
<1> HIDE DEF S
<1>2. PICK g : IsWalk(S, <<>>, G, N, g)
    <2>1. <<>> \in S
        BY DEF S
    <2>2. CanWalk(S, <<>>, G, N)
        BY <1>1, <2>1 DEF CanWalk
    <2> HIDE DEF G
    <2> QED BY <2>2, StepByStep
<1>3. IsAt(g)
    <2>1. \A n \in 1 .. N : g[n] = AddRegion(g[n - 1], ds[n])
        <3> SUFFICES ASSUME NEW n \in 1 .. N PROVE g[n] = AddRegion(g[n - 1], ds[n])
            OBVIOUS
        <3>1. n - 1 \in 0 .. N /\ n \in Nat
            OBVIOUS
        <3>2. g[n - 1] \in S
            BY <1>2, <3>1 DEF IsWalk
        <3>3. G[n][g[n - 1]] = AddRegion(g[n - 1], ds[n])
            BY <3>1, <3>2
        <3> QED BY <1>2, <3>3 DEF IsWalk
    <2> QED BY <1>2, <2>1 DEF IsWalk
<1>4. at = CHOOSE h : IsAt(h)
    OBVIOUS
<1>5. IsAt(at)
    <2> HIDE DEF at, IsAt
    <2> QED BY <1>3, <1>4
<1>6. RegionsOf(ds) = at[N]
    BY <1>0 DEF RegionsOf
<1> HIDE DEF at
<1>7. at[0] = <<>> /\ \A n \in 1 .. N : at[n] = AddRegion(at[n - 1], ds[n])
    BY <1>5
<1> DEFINE T == {n \in Nat : n <= N => at[n] \in S /\ RegionsAreFree(m, at[n])}
<1>8. 0 \in T
    <2>1. <<>> \in S /\ RegionsAreFree(m, <<>>)
        BY DEF S, RegionsAreFree
    <2> QED BY <1>7, <2>1
<1>9. ASSUME NEW n \in T PROVE n + 1 \in T
    <2> SUFFICES ASSUME n + 1 <= N PROVE at[n + 1] \in S /\ RegionsAreFree(m, at[n + 1])
        OBVIOUS
    <2>1. n \in Nat /\ n + 1 \in 1 .. N /\ (n + 1) - 1 = n
        OBVIOUS
    <2>2. at[n] \in S /\ RegionsAreFree(m, at[n])
        BY <2>1
    <2>3. at[n + 1] = AddRegion(at[n], ds[n + 1])
        BY <1>7, <2>1
    <2>4. ds[n + 1] \in Descriptor /\ TypeIsTrue(m, ds[n + 1])
        BY <1>0, <2>1
    <2> QED BY <2>2, <2>3, <2>4, AddRegionIs DEF S
<1> HIDE DEF T
<1>10. T = Nat
    <2>1. T \in SUBSET Nat
        BY DEF T
    <2> QED BY <1>8, <1>9, <2>1, CountingUp
<1>11. at[N] \in S /\ RegionsAreFree(m, at[N])
    BY <1>10 DEF T
<1> QED BY <1>6, <1>11 DEF S

-----------------------------------------------------------------------------
(* The address space of the kernel *)

Area == [at : Nat, bytes : Nat, phys : Int]

\* Areas one behind the other, from page 0 on.
OneBehindTheOther(areas) ==
    /\ areas \in Seq(Area) /\ Len(areas) > 0
    /\ \A i \in 2 .. Len(areas) : areas[i].at = Behind(areas[i - 1])

LEMMA BehindIs ==
    ASSUME NEW a \in Area
    PROVE  /\ MappedPages(a.bytes) \in Nat /\ Behind(a) \in Nat /\ a.at \in Nat
           /\ a.at <= Behind(a) /\ AreaPages(a) = a.at .. Behind(a) - 1
<1>1. MappedPages(a.bytes) \in Nat /\ a.at \in Nat
    BY PagesForIs DEF MappedPages, Area
<1>2. PICK k \in Nat : k = MappedPages(a.bytes)
    BY <1>1
<1>3. PICK v \in Nat : v = a.at
    BY <1>1
<1>4. Behind(a) = v + k
    BY <1>2, <1>3 DEF Behind
<1>5. AreaPages(a) = v .. v + k - 1
    BY <1>2, <1>3 DEF AreaPages
<1>6. v + k - 1 = (v + k) - 1
    OBVIOUS
<1> QED BY <1>2, <1>3, <1>4, <1>5, <1>6

LEMMA AreasApart ==
    ASSUME NEW areas, OneBehindTheOther(areas), NEW i \in 1 .. Len(areas), NEW j \in 1 .. Len(areas), i < j
    PROVE  Behind(areas[i]) <= areas[j].at
<1>0. PICK N \in Nat : N = Len(areas)
    BY DEF OneBehindTheOther
<1> DEFINE T == {n \in Nat : i + 1 + n <= N => Behind(areas[i]) <= areas[i + 1 + n].at}
<1>1. \A k \in 1 .. N : areas[k] \in Area
    BY <1>0 DEF OneBehindTheOther
<1>2. \A k \in 2 .. N : areas[k].at = Behind(areas[k - 1])
    BY <1>0 DEF OneBehindTheOther
<1>3. 0 \in T
    <2> SUFFICES ASSUME i + 1 + 0 <= N PROVE Behind(areas[i]) <= areas[i + 1 + 0].at
        OBVIOUS
    <2>1. i + 1 + 0 = i + 1 /\ i + 1 \in 2 .. N /\ (i + 1) - 1 = i
        BY <1>0
    <2>2. areas[i + 1].at = Behind(areas[i]) /\ Behind(areas[i]) \in Nat
        BY <1>0, <1>1, <1>2, <2>1, BehindIs
    <2> QED BY <2>1, <2>2
<1>4. ASSUME NEW n \in T PROVE n + 1 \in T
    <2> SUFFICES ASSUME i + 1 + (n + 1) <= N PROVE Behind(areas[i]) <= areas[i + 1 + (n + 1)].at
        OBVIOUS
    <2>1. PICK k : k = i + 1 + n
        OBVIOUS
    <2>2. k \in 1 .. N /\ k + 1 \in 2 .. N /\ i + 1 + (n + 1) = k + 1 /\ (k + 1) - 1 = k
        BY <1>0, <2>1
    <2>3. Behind(areas[i]) <= areas[k].at
        BY <2>1, <2>2
    <2>4. areas[k].at <= Behind(areas[k]) /\ areas[k].at \in Nat /\ Behind(areas[k]) \in Nat /\ Behind(areas[i]) \in Nat
        BY <1>0, <1>1, <2>2, BehindIs
    <2>5. areas[k + 1].at = Behind(areas[k])
        BY <1>2, <2>2
    <2> QED BY <2>2, <2>3, <2>4, <2>5
<1> HIDE DEF T
<1>5. T = Nat
    <2>1. T \in SUBSET Nat
        BY DEF T
    <2> QED BY <1>3, <1>4, <2>1, CountingUp
<1>6. (j - i) - 1 \in T /\ i + 1 + ((j - i) - 1) = j /\ j <= N
    BY <1>0, <1>5
<1> QED BY <1>6 DEF T

\* Every page of every area is mapped where it belongs.
LEMMA TableIs ==
    ASSUME NEW areas, OneBehindTheOther(areas), NEW table, table = Table(areas)
    PROVE  /\ \A i \in 1 .. Len(areas) : \A v \in AreaPages(areas[i]) :
                 v \in DOMAIN table /\ table[v] = areas[i].phys + (v - areas[i].at)
           /\ \A v \in DOMAIN table : \E i \in 1 .. Len(areas) : v \in AreaPages(areas[i])
<1>0. PICK N \in Nat : N = Len(areas) /\ DOMAIN areas = 1 .. N
    BY DEF OneBehindTheOther
<1>1. \A k \in 1 .. N : areas[k] \in Area
    BY <1>0 DEF OneBehindTheOther
<1> DEFINE over(v) == {i \in 1 .. N : v \in AreaPages(areas[i])}
           all == UNION {AreaPages(areas[i]) : i \in 1 .. N}
<1>2. table = [v \in all |-> areas[Max(over(v))].phys + (v - areas[Max(over(v))].at)]
    BY <1>0 DEF Table
<1>3. DOMAIN table = all
    BY <1>2
<1>4. ASSUME NEW i \in 1 .. N, NEW v \in AreaPages(areas[i]) PROVE Max(over(v)) = i
    <2>1. ASSUME NEW j \in over(v), j > i PROVE FALSE
        <3>1. j \in 1 .. N /\ v \in AreaPages(areas[j]) /\ i < j
            BY <2>1
        <3>2. Behind(areas[i]) <= areas[j].at
            BY <1>0, <3>1, AreasApart
        <3>3. /\ AreaPages(areas[i]) = areas[i].at .. Behind(areas[i]) - 1 /\ areas[i].at \in Nat /\ Behind(areas[i]) \in Nat
              /\ AreaPages(areas[j]) = areas[j].at .. Behind(areas[j]) - 1 /\ areas[j].at \in Nat /\ Behind(areas[j]) \in Nat
            BY <1>1, <3>1, BehindIs
        <3> QED BY <1>4, <3>1, <3>2, <3>3
    <2>2. over(v) \in SUBSET Nat /\ i \in over(v)
        BY <1>4
    <2> HIDE DEF over
    <2> QED BY <2>1, <2>2, LargestIs
<1>5. ASSUME NEW i \in 1 .. N, NEW v \in AreaPages(areas[i])
      PROVE  v \in DOMAIN table /\ table[v] = areas[i].phys + (v - areas[i].at)
    <2>1. v \in all
        BY <1>5
    <2>2. table[v] = areas[Max(over(v))].phys + (v - areas[Max(over(v))].at)
        BY <1>2, <2>1
    <2> QED BY <1>3, <1>4, <1>5, <2>1, <2>2
<1>6. \A v \in DOMAIN table : \E i \in 1 .. N : v \in AreaPages(areas[i])
    BY <1>3
<1> QED BY <1>0, <1>5, <1>6

LEMMA ElementIs ==
    ASSUME NEW S, NEW s \in Seq(S), NEW i \in 1 .. Len(s)
    PROVE  s[i] \in S
OBVIOUS

LEMMA AppendIs ==
    ASSUME NEW S, NEW s \in Seq(S), NEW x \in S, NEW t, t = Append(s, x)
    PROVE  t \in Seq(S) /\ Len(t) = Len(s) + 1 /\ t[Len(s) + 1] = x /\ \A i \in 1 .. Len(s) : t[i] = s[i]
OBVIOUS

LEMMA ConcatIs ==
    ASSUME NEW S, NEW s \in Seq(S), NEW r \in Seq(S), NEW t, t = s \o r
    PROVE  /\ t \in Seq(S) /\ Len(t) = Len(s) + Len(r) /\ \A i \in 1 .. Len(s) : t[i] = s[i]
           /\ \A i \in 1 .. Len(r) : t[Len(s) + i] = r[i]
OBVIOUS

\* Tables cover the pages of areas, in spans.
Spans(areas) == {v \div TableSpan : v \in DOMAIN Table(areas)}

LEMMA SpansAre ==
    ASSUME NEW areas, OneBehindTheOther(areas)
    PROVE  IsFiniteSet(Spans(areas)) /\ TablesOf(areas) \in Nat /\ TablesOf(areas) = 1 + Cardinality(Spans(areas))
<1>1. PICK N \in Nat : N = Len(areas) /\ N > 0 /\ \A i \in 1 .. N : areas[i] \in Area
    BY DEF OneBehindTheOther
<1>2. PICK b : b = Behind(areas[N])
    OBVIOUS
<1>3. b \in Nat /\ areas[N].at \in Nat /\ areas[N].at <= b
    BY <1>1, <1>2, BehindIs
<1>4. ASSUME NEW v \in DOMAIN Table(areas) PROVE v \in Nat /\ v <= b
    <2>1. PICK i \in 1 .. N : v \in AreaPages(areas[i])
        BY <1>1, <1>4, TableIs
    <2>2. AreaPages(areas[i]) = areas[i].at .. Behind(areas[i]) - 1 /\ areas[i].at \in Nat /\ Behind(areas[i]) \in Nat
        BY <1>1, <2>1, BehindIs
    <2>3. CASE i = N
        BY <1>2, <1>3, <2>1, <2>2, <2>3
    <2>4. CASE i # N
        <3>1. i < N /\ N \in 1 .. N
            BY <1>1, <2>4
        <3>2. Behind(areas[i]) <= areas[N].at
            BY <1>1, <3>1, AreasApart
        <3> QED BY <1>3, <2>1, <2>2, <3>2
    <2> QED BY <2>3, <2>4
<1>5. TableSpan \in Nat \ {0}
    BY LoaderAssumption
<1>6. ASSUME NEW v \in Nat PROVE v \div TableSpan \in Nat /\ v \div TableSpan <= v
    <2>1. PICK q \in Nat : q = v \div TableSpan
        BY <1>5, Division
    <2>2. TableSpan * q <= v
        BY <1>5, <2>1, Division
    <2>3. q * 1 <= q * TableSpan
        BY <1>5, <2>1, TimesGrows
    <2>4. q * TableSpan = TableSpan * q /\ q * 1 = q
        BY <1>5, <2>1
    <2> QED BY <1>5, <2>1, <2>2, <2>3, <2>4
<1>7. \A s \in Spans(areas) : s \in Nat /\ s <= b
    <2> SUFFICES ASSUME NEW v \in DOMAIN Table(areas) PROVE v \div TableSpan \in Nat /\ v \div TableSpan <= b
        BY DEF Spans
    <2>1. v \in Nat /\ v <= b
        BY <1>4
    <2>2. PICK q \in Nat : q = v \div TableSpan /\ q <= v
        BY <1>6, <2>1
    <2> QED BY <1>3, <2>1, <2>2
<1>8. Spans(areas) \in SUBSET Nat
    BY <1>7
<1>9. IsFiniteSet(Spans(areas))
    BY <1>3, <1>7, <1>8, FS_BoundedSetOfNaturals
<1>10. Cardinality(Spans(areas)) \in Nat
    BY <1>9, FS_CardinalityType
<1>11. TablesOf(areas) = 1 + Cardinality(Spans(areas))
    BY DEF TablesOf, Spans
<1> QED BY <1>9, <1>10, <1>11

\* More areas need no fewer tables.
LEMMA MoreTables ==
    ASSUME NEW a1, OneBehindTheOther(a1), NEW a2, OneBehindTheOther(a2),
           Len(a1) <= Len(a2), \A i \in 1 .. Len(a1) : a2[i] = a1[i]
    PROVE  TablesOf(a1) <= TablesOf(a2)
<1>1. PICK n1 \in Nat, n2 \in Nat : n1 = Len(a1) /\ n2 = Len(a2)
    BY DEF OneBehindTheOther
<1>2. ASSUME NEW v \in DOMAIN Table(a1) PROVE v \in DOMAIN Table(a2)
    <2>1. PICK i \in 1 .. n1 : v \in AreaPages(a1[i])
        BY <1>1, <1>2, TableIs
    <2>2. i \in 1 .. n2 /\ v \in AreaPages(a2[i])
        BY <1>1, <2>1
    <2> QED BY <1>1, <2>2, TableIs
<1>3. Spans(a1) \in SUBSET Spans(a2)
    BY <1>2 DEF Spans
<1>4. Cardinality(Spans(a1)) <= Cardinality(Spans(a2))
    BY <1>3, SpansAre, FS_Subset
<1>5. Cardinality(Spans(a1)) \in Nat /\ Cardinality(Spans(a2)) \in Nat
    BY SpansAre, FS_CardinalityType
<1> QED BY <1>4, <1>5, SpansAre

LoadedFile == [name : Seq(Nat), size : Nat, at : Nat]

LoaderStates ==
    [scratch : Nat, tables : Nat, used : Nat, kernelAt : Nat, files : Seq(LoadedFile), fb : BOOLEAN,
     regions : Seq(Region), mapKey : Int, failed : BOOLEAN]

LEMMA BytesAre ==
    /\ KernelBytes \in Nat /\ FramebufferB \in Nat /\ ScratchB \in Nat /\ TablePages \in Nat
    /\ PagesFor(KernelBytes) \in Nat /\ PagesFor(FramebufferB) \in Nat /\ PagesFor(ScratchB) \in Nat
BY LoaderAssumption, PagesForIs

KernelPart == IF ld.kernelAt = 0 THEN 0 ELSE KernelBytes
FbPart == IF ld.fb THEN FramebufferB ELSE 0

LEMMA FirstAreasAre ==
    ASSUME ld \in LoaderStates
    PROVE  /\ OneBehindTheOther(FirstAreas) /\ Len(FirstAreas) = 3
           /\ FirstAreas[1] = [at |-> 0, bytes |-> ScratchB, phys |-> ld.scratch]
           /\ FirstAreas[2] = [at |-> PagesFor(ScratchB), bytes |-> KernelPart, phys |-> ld.kernelAt]
           /\ FirstAreas[3].bytes = FbPart /\ FirstAreas[3].phys = -PagesFor(FramebufferB)
<1>1. PICK a1 : a1 = [at |-> 0, bytes |-> ScratchB, phys |-> ld.scratch]
    OBVIOUS
<1>2. a1 \in Area
    BY <1>1, BytesAre DEF Area, LoaderStates
<1>3. Behind(a1) = PagesFor(ScratchB)
    BY <1>1, BytesAre DEF Behind, MappedPages
<1>4. PICK a2 : a2 = [at |-> Behind(a1), bytes |-> KernelPart, phys |-> ld.kernelAt]
    OBVIOUS
<1>5. a2 \in Area
    BY <1>3, <1>4, BytesAre DEF Area, LoaderStates, KernelPart
<1>6. PICK a3 : a3 = [at |-> Behind(a2), bytes |-> FbPart, phys |-> -PagesFor(FramebufferB)]
    OBVIOUS
<1>7. Behind(a2) \in Nat /\ FbPart \in Nat /\ -PagesFor(FramebufferB) \in Int
    BY <1>5, BehindIs, BytesAre DEF FbPart
<1>8. a3 \in Area
    BY <1>6, <1>7 DEF Area
<1>9. FirstAreas = <<a1, a2, a3>>
    BY <1>1, <1>4, <1>6 DEF FirstAreas, KernelPart, FbPart
<1>10. /\ FirstAreas \in Seq(Area) /\ Len(FirstAreas) = 3
       /\ FirstAreas[1] = a1 /\ FirstAreas[2] = a2 /\ FirstAreas[3] = a3
    BY <1>2, <1>5, <1>8, <1>9
<1>11. ASSUME NEW i \in 2 .. Len(FirstAreas) PROVE FirstAreas[i].at = Behind(FirstAreas[i - 1])
    <2>1. i = 2 \/ i = 3
        BY <1>10
    <2>2. a2.at = Behind(a1) /\ a3.at = Behind(a2)
        BY <1>4, <1>6
    <2> QED BY <1>10, <2>1, <2>2
<1>12. OneBehindTheOther(FirstAreas)
    BY <1>10, <1>11 DEF OneBehindTheOther
<1> QED BY <1>1, <1>3, <1>4, <1>6, <1>10, <1>12

\* What the kernel is told is one area, in the loader's scratchpad.
StructPages == RecordPages(1 + Len(ld.regions) + Len(ld.files))

StructPhys == ld.tables + ld.used + TablesOf(FirstAreas)

LEMMA OneMoreArea ==
    ASSUME NEW s, OneBehindTheOther(s), NEW a \in Area, a.at = Behind(s[Len(s)]), NEW t, t = Append(s, a)
    PROVE  OneBehindTheOther(t)
<1>1. PICK n \in Nat : n = Len(s) /\ n > 0
    BY DEF OneBehindTheOther
<1>2. s \in Seq(Area) /\ \A i \in 2 .. n : s[i].at = Behind(s[i - 1])
    BY <1>1 DEF OneBehindTheOther
<1>3. t \in Seq(Area) /\ Len(t) = n + 1 /\ t[n + 1] = a /\ \A i \in 1 .. n : t[i] = s[i]
    BY <1>1, <1>2, AppendIs
<1>4. ASSUME NEW i \in 2 .. n + 1 PROVE t[i].at = Behind(t[i - 1])
    <2>1. i - 1 \in 1 .. n
        BY <1>1
    <2>2. CASE i = n + 1
        <3>1. i - 1 = n
            BY <1>1, <2>2
        <3> QED BY <1>1, <1>3, <2>1, <2>2, <3>1
    <2>3. CASE i # n + 1
        <3>1. i \in 2 .. n /\ i \in 1 .. n
            BY <1>1, <2>3
        <3> QED BY <1>2, <1>3, <2>1, <3>1
    <2> QED BY <2>2, <2>3
<1> QED BY <1>1, <1>3, <1>4 DEF OneBehindTheOther

LEMMA MoreAreas ==
    ASSUME NEW s, OneBehindTheOther(s), NEW r \in Seq(Area), NEW t, t = s \o r,
           \A i \in 1 .. Len(r) : r[i].at = IF i = 1 THEN Behind(s[Len(s)]) ELSE Behind(r[i - 1])
    PROVE  OneBehindTheOther(t)
<1>1. PICK n \in Nat, k \in Nat : n = Len(s) /\ n > 0 /\ k = Len(r)
    BY DEF OneBehindTheOther
<1>2. s \in Seq(Area) /\ \A i \in 2 .. n : s[i].at = Behind(s[i - 1])
    BY <1>1 DEF OneBehindTheOther
<1>3. /\ t \in Seq(Area) /\ Len(t) = n + k /\ \A i \in 1 .. n : t[i] = s[i]
      /\ \A i \in 1 .. k : t[n + i] = r[i]
    BY <1>1, <1>2, ConcatIs
<1>4. ASSUME NEW i \in 2 .. n + k PROVE t[i].at = Behind(t[i - 1])
    <2>1. CASE i <= n
        <3>1. i \in 2 .. n /\ i \in 1 .. n /\ i - 1 \in 1 .. n
            BY <1>1, <2>1
        <3> QED BY <1>2, <1>3, <3>1
    <2>2. CASE i > n
        <3>1. PICK j \in 1 .. k : j = i - n
            BY <1>1, <2>2
        <3>2. n + j = i
            BY <1>1, <3>1
        <3>3. t[i] = r[j]
            BY <1>3, <3>1, <3>2
        <3>4. CASE j = 1
            <4>1. i - 1 = n /\ n \in 1 .. n
                BY <1>1, <3>1, <3>4
            <4>2. t[i - 1] = s[n]
                BY <1>3, <4>1
            <4> QED BY <1>1, <3>1, <3>3, <3>4, <4>2
        <3>5. CASE j # 1
            <4>1. j - 1 \in 1 .. k /\ n + (j - 1) = i - 1
                BY <1>1, <3>1, <3>5
            <4>2. t[i - 1] = r[j - 1]
                BY <1>3, <4>1
            <4> QED BY <1>1, <3>1, <3>3, <3>5, <4>2
        <3> QED BY <3>4, <3>5
    <2> QED BY <1>1, <2>1, <2>2
<1> QED BY <1>1, <1>3, <1>4 DEF OneBehindTheOther

LEMMA AreasAre ==
    ASSUME ld \in LoaderStates
    PROVE  /\ OneBehindTheOther(Areas) /\ Len(Areas) = 4 + Len(ld.files)
           /\ Areas[1] = FirstAreas[1] /\ Areas[2] = FirstAreas[2] /\ Areas[3] = FirstAreas[3]
           /\ StructPages \in Nat /\ StructPhys \in Nat
           /\ Areas[4].bytes = PageB * StructPages /\ Areas[4].phys = StructPhys
           /\ \A i \in 1 .. Len(ld.files) :
                 Areas[4 + i].bytes = ld.files[i].size /\ Areas[4 + i].phys = ld.files[i].at
<1>0. PICK files \in Seq(LoadedFile) : files = ld.files
    BY DEF LoaderStates
<1>1. PICK N \in Nat : N = Len(files) /\ \A i \in 1 .. N : files[i].size \in Nat /\ files[i].at \in Nat
    <2>1. \A i \in 1 .. Len(files) : files[i] \in LoadedFile
        OBVIOUS
    <2>2. \A f \in LoadedFile : f.size \in Nat /\ f.at \in Nat
        BY DEF LoadedFile
    <2>3. Len(files) \in Nat
        OBVIOUS
    <2> QED BY <2>1, <2>2, <2>3
<1>2. PICK first : first = FirstAreas
    OBVIOUS
<1>3. /\ OneBehindTheOther(first) /\ Len(first) = 3 /\ first \in Seq(Area) /\ first[3] \in Area
      /\ \A i \in 2 .. 3 : first[i].at = Behind(first[i - 1])
    <2>1. OneBehindTheOther(first) /\ Len(first) = 3
        BY <1>2, FirstAreasAre
    <2>2. first \in Seq(Area)
        BY <2>1 DEF OneBehindTheOther
    <2>3. first[3] \in Area
        <3>1. 3 \in 1 .. Len(first)
            BY <2>1
        <3> QED BY <2>2, <3>1, ElementIs
    <2>4. \A i \in 2 .. 3 : first[i].at = Behind(first[i - 1])
        BY <2>1 DEF OneBehindTheOther
    <2> QED BY <2>1, <2>2, <2>3, <2>4
<1>4. StructPages \in Nat /\ StructPhys \in Nat
    <2>1. 1 + Len(ld.regions) + Len(ld.files) \in Nat
        BY DEF LoaderStates
    <2>2. TablesOf(FirstAreas) \in Nat /\ ld.tables \in Nat /\ ld.used \in Nat
        BY <1>2, <1>3, SpansAre DEF LoaderStates
    <2>3. StructPages \in Nat
        BY <2>1, RecordPagesAre DEF StructPages
    <2>4. StructPhys \in Nat
        BY <2>2 DEF StructPhys
    <2> QED BY <2>3, <2>4
<1>5. PICK structs : structs = [at |-> Behind(first[3]), bytes |-> PageB * StructPages, phys |-> StructPhys]
    OBVIOUS
<1>6. structs \in Area
    <2>1. Behind(first[3]) \in Nat
        BY <1>3, BehindIs
    <2>2. PageB * StructPages \in Nat
        BY <1>4, PagesForWhole
    <2> QED BY <1>4, <1>5, <2>1, <2>2 DEF Area
<1> DEFINE start[i \in 0 .. N] ==
               IF i = 0 THEN Behind(structs) ELSE start[i - 1] + MappedPages(files[i].size)
           IsStart(g) == g = [i \in 0 .. N |->
                                IF i = 0 THEN Behind(structs) ELSE g[i - 1] + MappedPages(files[i].size)]
           G == [i \in Nat |-> [x \in Nat |-> IF i \in 1 .. N THEN x + MappedPages(files[i].size) ELSE x]]
<1>7. Areas = Append(first, structs) \o
              [i \in 1 .. N |-> [at |-> start[i - 1], bytes |-> files[i].size, phys |-> files[i].at]]
    BY <1>0, <1>1, <1>2, <1>5 DEF Areas, StructPages, StructPhys
<1>8. Behind(structs) \in Nat /\ \A i \in 1 .. N : MappedPages(files[i].size) \in Nat
    BY <1>1, <1>6, BehindIs, PagesForIs DEF MappedPages
<1>9. PICK g : IsWalk(Nat, Behind(structs), G, N, g)
    <2>1. CanWalk(Nat, Behind(structs), G, N)
        BY <1>8 DEF CanWalk
    <2> HIDE DEF G
    <2> QED BY <2>1, StepByStep
<1>10. IsStart(g)
    <2>1. \A n \in 1 .. N : g[n] = g[n - 1] + MappedPages(files[n].size)
        <3> SUFFICES ASSUME NEW n \in 1 .. N PROVE g[n] = g[n - 1] + MappedPages(files[n].size)
            OBVIOUS
        <3>1. n - 1 \in 0 .. N /\ n \in Nat
            OBVIOUS
        <3>2. g[n - 1] \in Nat
            BY <1>9, <3>1 DEF IsWalk
        <3>3. G[n][g[n - 1]] = g[n - 1] + MappedPages(files[n].size)
            BY <3>1, <3>2
        <3> QED BY <1>9, <3>3 DEF IsWalk
    <2> QED BY <1>9, <2>1 DEF IsWalk
<1>11. start = CHOOSE h : IsStart(h)
    OBVIOUS
<1>12. IsStart(start)
    <2> HIDE DEF start, IsStart
    <2> QED BY <1>10, <1>11
<1> HIDE DEF start
<1>13. start[0] = Behind(structs) /\ \A n \in 1 .. N : start[n] = start[n - 1] + MappedPages(files[n].size)
    BY <1>12
<1> DEFINE T == {n \in Nat : n <= N => start[n] \in Nat}
<1>14. \A n \in 0 .. N : start[n] \in Nat
    <2>1. 0 \in T
        BY <1>8, <1>13
    <2>2. ASSUME NEW n \in T PROVE n + 1 \in T
        <3> SUFFICES ASSUME n + 1 <= N PROVE start[n + 1] \in Nat
            OBVIOUS
        <3>1. n + 1 \in 1 .. N /\ (n + 1) - 1 = n /\ start[n] \in Nat
            OBVIOUS
        <3> QED BY <1>8, <1>13, <3>1
    <2> HIDE DEF T
    <2>3. T = Nat
        <3>1. T \in SUBSET Nat
            BY DEF T
        <3> QED BY <2>1, <2>2, <3>1, CountingUp
    <2> QED BY <2>3 DEF T
<1> HIDE DEF T, G, IsStart
<1>15. PICK four : four = Append(first, structs)
    OBVIOUS
<1>16. /\ OneBehindTheOther(four) /\ four \in Seq(Area) /\ Len(four) = 4 /\ four[4] = structs
       /\ four[1] = first[1] /\ four[2] = first[2] /\ four[3] = first[3]
    <2>1. first \in Seq(Area) /\ Len(first) = 3 /\ OneBehindTheOther(first)
        BY <1>3
    <2>2. structs.at = Behind(first[Len(first)])
        BY <1>5, <2>1
    <2>3. OneBehindTheOther(four)
        BY <1>6, <1>15, <2>1, <2>2, OneMoreArea
    <2>4. /\ four \in Seq(Area) /\ Len(four) = Len(first) + 1 /\ four[Len(first) + 1] = structs
          /\ \A i \in 1 .. Len(first) : four[i] = first[i]
        BY <1>6, <1>15, <2>1, AppendIs
    <2>5. Len(first) + 1 = 4 /\ 1 \in 1 .. Len(first) /\ 2 \in 1 .. Len(first) /\ 3 \in 1 .. Len(first)
        BY <2>1
    <2> QED BY <2>3, <2>4, <2>5
<1>17. PICK rest : rest = [i \in 1 .. N |-> [at |-> start[i - 1], bytes |-> files[i].size, phys |-> files[i].at]]
    OBVIOUS
<1>18. /\ rest \in Seq(Area) /\ Len(rest) = N
       /\ \A i \in 1 .. N : rest[i].at = start[i - 1] /\ rest[i].bytes = files[i].size /\ rest[i].phys = files[i].at
    <2>1. \A i \in 1 .. N : [at |-> start[i - 1], bytes |-> files[i].size, phys |-> files[i].at] \in Area
        <3> SUFFICES ASSUME NEW i \in 1 .. N
                     PROVE  [at |-> start[i - 1], bytes |-> files[i].size, phys |-> files[i].at] \in Area
            OBVIOUS
        <3>1. i - 1 \in 0 .. N
            OBVIOUS
        <3> QED BY <1>1, <1>14, <3>1 DEF Area
    <2>2. rest \in [1 .. N -> Area]
        BY <1>17, <2>1
    <2> QED BY <1>17, <2>2
<1>19. PICK as : as = Areas
    OBVIOUS
<1>20. as = four \o rest
    BY <1>7, <1>15, <1>17, <1>19
<1>21. /\ Len(as) = Len(four) + Len(rest) /\ \A i \in 1 .. Len(four) : as[i] = four[i]
       /\ \A i \in 1 .. Len(rest) : as[Len(four) + i] = rest[i]
    <2>1. four \in Seq(Area) /\ rest \in Seq(Area)
        BY <1>16, <1>18
    <2> QED BY <1>20, <2>1, ConcatIs
<1>22. Len(as) = 4 + N /\ as[1] = first[1] /\ as[2] = first[2] /\ as[3] = first[3] /\ as[4] = structs
    <2>1. Len(four) = 4 /\ Len(rest) = N
        BY <1>16, <1>18
    <2>2. 1 \in 1 .. Len(four) /\ 2 \in 1 .. Len(four) /\ 3 \in 1 .. Len(four) /\ 4 \in 1 .. Len(four)
        BY <2>1
    <2>3. Len(as) = 4 + N
        BY <1>21, <2>1
    <2> QED BY <1>16, <1>21, <2>2, <2>3
<1>23. ASSUME NEW i \in 1 .. N PROVE as[4 + i].bytes = files[i].size /\ as[4 + i].phys = files[i].at
    <2>1. Len(four) = 4 /\ Len(rest) = N
        BY <1>16, <1>18
    <2>2. as[4 + i] = rest[i]
        BY <1>21, <2>1
    <2> QED BY <1>18, <2>2
<1>24. OneBehindTheOther(as)
    <2>1. ASSUME NEW i \in 1 .. N
          PROVE  rest[i].at = IF i = 1 THEN Behind(four[Len(four)]) ELSE Behind(rest[i - 1])
        <3>1. rest[i].at = start[i - 1]
            BY <1>18
        <3>2. CASE i = 1
            <4>1. i - 1 = 0
                BY <3>2
            <4>2. four[Len(four)] = structs
                BY <1>16
            <4> QED BY <1>13, <3>1, <3>2, <4>1, <4>2
        <3>3. CASE i # 1
            <4>1. i - 1 \in 1 .. N
                BY <3>3
            <4>2. Behind(rest[i - 1]) = start[(i - 1) - 1] + MappedPages(files[i - 1].size)
                BY <1>18, <4>1 DEF Behind
            <4>3. start[i - 1] = start[(i - 1) - 1] + MappedPages(files[i - 1].size)
                BY <1>13, <4>1
            <4> QED BY <3>1, <3>3, <4>2, <4>3
        <3> QED BY <3>2, <3>3
    <2>2. Len(rest) = N /\ rest \in Seq(Area) /\ OneBehindTheOther(four)
        BY <1>16, <1>18
    <2> QED BY <1>20, <2>1, <2>2, MoreAreas
<1>25. as[4].bytes = PageB * StructPages /\ as[4].phys = StructPhys
    BY <1>5, <1>22
<1>26. Len(ld.files) = N /\ ld.files = files
    BY <1>0, <1>1
<1> QED BY <1>2, <1>4, <1>19, <1>22, <1>23, <1>24, <1>25, <1>26

-----------------------------------------------------------------------------
(* The loader's invariant *)

SystemFile == [dir : Nat, name : Seq(Nat), size : Nat]

LoaderPhases ==
    {"start", "open", "files", "map", "exit", "paging", "kernel", "init", "done", "wild", "stuck", "returned",
     "closed"}

LoaderTypes ==
    /\ bootPhase \in LoaderPhases /\ fw \in FirmwareState
    /\ toLoad \in Seq(SystemFile) /\ ld \in LoaderStates
    /\ \E u, t : kernel = [usable |-> u, tasks |-> t]

\* Everything the loader has loaded is in memory of its own.
OwnsAll(m, l) ==
    /\ LoaderHas(m, l.scratch, PagesFor(ScratchB)) /\ LoaderHas(m, l.tables, TablePages)
    /\ l.kernelAt # 0 => LoaderHas(m, l.kernelAt, PagesFor(KernelBytes))
    /\ \A i \in 1 .. Len(l.files) : LoaderHas(m, l.files[i].at, PagesFor(l.files[i].size))

LoaderOwns ==
    /\ bootPhase = "start" => ld.kernelAt = 0 /\ ld.files = <<>>
    /\ bootPhase \notin {"start", "wild"} => OwnsAll(fw.mem, ld)

\* The regions are true as long as the key of their map is the current one, and
\* for good after the boot services; without a map there are no regions.
MapIsKnown ==
    /\ ld.mapKey <= fw.key
    /\ bootPhase \in {"start", "open", "files"} => ld.regions = <<>> /\ ~ld.failed
    /\ bootPhase = "map" /\ ~ld.failed => ld.regions = <<>>
    /\ bootPhase = "exit" /\ ld.mapKey = fw.key => RegionsAreFree(fw.mem, ld.regions)
    /\ bootPhase \in {"paging", "kernel", "init", "done"} =>
          ld.regions = <<>> \/ (fw.exited /\ RegionsAreFree(fw.mem, ld.regions))

\* What FilesAreMapped says, of a page table, what was handed over and the
\* loader's state.
Told(table, given, l) ==
    /\ given.regions = l.regions
    /\ \A i \in DOMAIN given.files :
          \A k \in 0 .. PagesFor(given.files[i].size) - 1 :
              LET v == given.at + given.files[i].offset + k
              IN  v \in DOMAIN table /\ table[v] = l.files[i].at + k
    /\ \A k \in 0 .. RecordPages(1 + Len(given.regions) + Len(given.files)) - 1 :
          table[given.at + k] \in l.tables .. l.tables + TablePages - 1
    /\ \A k \in 0 .. PagesFor(KernelBytes) - 1 : table[PagesFor(ScratchB) + k] = l.kernelAt + k

TableOwned(m, table) ==
    \A v \in DOMAIN table : table[v] \in Int /\ (table[v] < 0 \/ (table[v] \in MachinePages /\ m[table[v]] = "loader"))

KernelIsTold ==
    bootPhase \in {"kernel", "init", "done"} => Told(bootTable, handed, ld) /\ TableOwned(fw.mem, bootTable)

UsableIsFree ==
    bootPhase \in {"init", "done"} =>
        /\ fw.exited \/ kernel.usable = {}
        /\ \A p \in kernel.usable : p \in MachinePages /\ fw.mem[p] = "free"

LoaderInv == LoaderTypes /\ LoaderOwns /\ MapIsKnown /\ KernelIsTold /\ UsableIsFree

LEMMA OwnsAllStays ==
    ASSUME NEW m1, NEW m2, Keeps(m1, m2), NEW l, OwnsAll(m1, l)
    PROVE  OwnsAll(m2, l)
BY OwnedStays DEF OwnsAll

LEMMA NoRegions == \A m : RegionsAreFree(m, <<>>)
BY DEF RegionsAreFree

LEMMA LoaderUnchanged == LoaderInv /\ UNCHANGED loaderVars => LoaderInv'
BY DEF LoaderInv, LoaderTypes, LoaderOwns, MapIsKnown, KernelIsTold, UsableIsFree, loaderVars

LEMMA FirmwareEventInv == LoaderInv /\ FirmwareEvent => LoaderInv'
<1> SUFFICES ASSUME LoaderInv, FirmwareEvent PROVE LoaderInv'
    OBVIOUS
<1>1. PICK p \in EventPages :
          /\ fw.mem[p] \in {"free", "boot"}
          /\ fw' = [fw EXCEPT !.mem[p] = IF @ = "free" THEN "boot" ELSE "free",
                              !.key = @ + 1, !.events = @ + 1]
    BY DEF FirmwareEvent
<1>2. ~fw.exited /\ UNCHANGED <<bootPhase, toLoad, ld, tries, bootTable, handed, kernel>>
    BY DEF FirmwareEvent
<1>3. p \in MachinePages /\ fw \in FirmwareState
    BY LoaderAssumption DEF MachinePages, LoaderInv, LoaderTypes
<1>4. PICK t : t = IF fw.mem[p] = "free" THEN "boot" ELSE "free"
    OBVIOUS
<1>5. t \in PageTypes
    BY <1>4 DEF PageTypes
<1>6. PICK m2 : m2 = [fw.mem EXCEPT ![p] = t]
    OBVIOUS
<1>7. /\ fw.mem \in [MachinePages -> PageTypes] /\ fw.key \in Nat /\ fw.events \in Nat /\ fw.exited \in BOOLEAN
      /\ m2 \in [MachinePages -> PageTypes]
    BY <1>3, <1>5, <1>6 DEF FirmwareState
<1>8. fw' = [mem |-> m2, key |-> fw.key + 1, exited |-> fw.exited, events |-> fw.events + 1]
    BY <1>1, <1>3, <1>4, <1>6 DEF FirmwareState
<1>9. fw.key + 1 \in Nat /\ fw.events + 1 \in Nat
    BY <1>7
<1>10. fw' \in FirmwareState
    BY <1>7, <1>8, <1>9, Zenon DEF FirmwareState
<1>11. Keeps(fw.mem, m2)
    BY <1>1, <1>3, <1>6, <1>7 DEF Keeps
<1>12. fw'.mem = m2 /\ fw'.key = fw.key + 1 /\ fw'.exited = fw.exited
    BY <1>8
<1>13. LoaderTypes'
    BY <1>2, <1>10 DEF LoaderInv, LoaderTypes
<1>14. LoaderOwns'
    BY <1>2, <1>11, <1>12, OwnsAllStays DEF LoaderInv, LoaderOwns
<1>15. MapIsKnown'
    <2>1. ld.mapKey \in Int /\ ld.mapKey <= fw.key
        BY DEF LoaderInv, LoaderTypes, LoaderStates, MapIsKnown
    <2>2. ld.mapKey <= fw.key + 1 /\ ld.mapKey # fw.key + 1
        BY <1>7, <2>1
    <2> QED BY <1>2, <1>12, <2>2 DEF LoaderInv, MapIsKnown
<1>16. KernelIsTold'
    <2>1. TableOwned(fw.mem, bootTable) => TableOwned(m2, bootTable)
        BY <1>11 DEF TableOwned, Keeps
    <2> QED BY <1>2, <1>12, <2>1 DEF LoaderInv, KernelIsTold
<1>17. UsableIsFree'
    BY <1>2, <1>12 DEF LoaderInv, UsableIsFree
<1> QED BY <1>13, <1>14, <1>15, <1>16, <1>17 DEF LoaderInv

\* Steps before the page tables are built keep what is said of later ones.
LEMMA NotYetTold ==
    ASSUME bootPhase' \notin {"kernel", "init", "done"}
    PROVE  KernelIsTold' /\ UsableIsFree'
BY DEF KernelIsTold, UsableIsFree

LEMMA StartLoaderInv == LoaderInv /\ StartLoader => LoaderInv'
<1> SUFFICES ASSUME LoaderInv, StartLoader PROVE LoaderInv'
    OBVIOUS
<1>1. PICK f1 : f1 = Allocated(fw, PagesFor(ScratchB))
    OBVIOUS
<1>2. PICK scratch, tables : scratch = FreeRun(fw, PagesFor(ScratchB)) /\ tables = FreeRun(f1, TablePages)
    OBVIOUS
<1>3. /\ bootPhase = "start" /\ UNCHANGED <<toLoad, tries, bootTable, handed, kernel>>
      /\ IF scratch = 0 \/ tables = 0
         THEN bootPhase' = "wild" /\ UNCHANGED <<fw, ld>>
         ELSE /\ fw' = Allocated(f1, TablePages)
              /\ ld' = [ld EXCEPT !.scratch = scratch, !.tables = tables]
              /\ bootPhase' = "open"
    BY <1>1, <1>2 DEF StartLoader
<1>4. KernelIsTold' /\ UsableIsFree'
    BY <1>3, NotYetTold
<1>5. CASE scratch = 0 \/ tables = 0
    <2>1. LoaderTypes'
        BY <1>3, <1>5 DEF LoaderInv, LoaderTypes, LoaderPhases
    <2>2. LoaderOwns' /\ MapIsKnown'
        BY <1>3, <1>5 DEF LoaderInv, LoaderOwns, MapIsKnown
    <2> QED BY <1>4, <2>1, <2>2 DEF LoaderInv
<1>6. CASE ~(scratch = 0 \/ tables = 0)
    <2>0. fw \in FirmwareState /\ ld \in LoaderStates /\ ld.regions = <<>> /\ ~ld.failed
        BY <1>3 DEF LoaderInv, LoaderTypes, MapIsKnown
    <2>1. f1 \in FirmwareState /\ f1.key = fw.key + 1 /\ scratch \in Nat /\ LoaderHas(f1.mem, scratch, PagesFor(ScratchB))
        BY <1>1, <1>2, <1>6, <2>0, BytesAre, AllocatedIs
    <2>2. /\ fw' \in FirmwareState /\ fw'.key = f1.key + 1 /\ tables \in Nat /\ LoaderHas(fw'.mem, tables, TablePages)
          /\ Keeps(f1.mem, fw'.mem)
        BY <1>2, <1>3, <1>6, <2>1, BytesAre, AllocatedIs
    <2>3. ld' = [ld EXCEPT !.scratch = scratch, !.tables = tables]
        BY <1>3, <1>6
    <2>4. /\ ld'.scratch = scratch /\ ld'.tables = tables /\ ld'.kernelAt = ld.kernelAt /\ ld'.files = ld.files
          /\ ld'.regions = ld.regions /\ ld'.mapKey = ld.mapKey /\ ld'.failed = ld.failed
        BY <2>0, <2>3 DEF LoaderStates
    <2>5. ld' \in LoaderStates
        BY <2>0, <2>1, <2>2, <2>3 DEF LoaderStates
    <2>6. LoaderTypes'
        BY <1>3, <1>6, <2>2, <2>5 DEF LoaderInv, LoaderTypes, LoaderPhases
    <2>7. LoaderOwns'
        <3>1. LoaderHas(fw'.mem, scratch, PagesFor(ScratchB))
            BY <2>1, <2>2, OwnedStays
        <3>2. ld'.kernelAt = 0 /\ Len(ld'.files) = 0
            BY <1>3, <2>4 DEF LoaderInv, LoaderOwns
        <3>3. OwnsAll(fw'.mem, ld')
            BY <2>2, <2>4, <3>1, <3>2 DEF OwnsAll
        <3> QED BY <1>3, <1>6, <3>3 DEF LoaderOwns
    <2>8. MapIsKnown'
        <3>1. ld.mapKey <= fw.key /\ ld.mapKey \in Int /\ fw.key \in Nat
            BY <2>0 DEF LoaderInv, MapIsKnown, LoaderStates, FirmwareState
        <3>2. ld'.mapKey <= fw'.key
            BY <2>1, <2>2, <2>4, <3>1
        <3> QED BY <1>3, <1>6, <2>0, <2>4, <3>2 DEF MapIsKnown
    <2> QED BY <1>4, <2>6, <2>7, <2>8 DEF LoaderInv
<1> QED BY <1>5, <1>6

LEMMA OpenDirectoryInv == ASSUME NEW readable \in BOOLEAN PROVE LoaderInv /\ OpenDirectory(readable) => LoaderInv'
<1> SUFFICES ASSUME LoaderInv, OpenDirectory(readable) PROVE LoaderInv'
    OBVIOUS
<1>1. /\ bootPhase = "open" /\ bootPhase' = "files" /\ UNCHANGED <<fw, ld, tries, bootTable, handed, kernel>>
      /\ toLoad' = IF readable THEN Directory ELSE StaticList
    BY DEF OpenDirectory
<1>2. toLoad' \in Seq(SystemFile)
    BY <1>1, LoaderAssumption DEF SystemFile
<1>3. LoaderTypes'
    BY <1>1, <1>2 DEF LoaderInv, LoaderTypes, LoaderPhases
<1>4. LoaderOwns' /\ MapIsKnown'
    BY <1>1 DEF LoaderInv, LoaderOwns, MapIsKnown
<1> QED BY <1>1, <1>3, <1>4, NotYetTold DEF LoaderInv

LEMMA DirectoryWithoutFilesInv == LoaderInv /\ DirectoryWithoutFiles => LoaderInv'
<1> SUFFICES ASSUME LoaderInv, DirectoryWithoutFiles PROVE LoaderInv'
    OBVIOUS
<1>1. /\ bootPhase = "open" /\ bootPhase' = "closed"
      /\ UNCHANGED <<fw, toLoad, ld, tries, bootTable, handed, kernel>>
    BY DEF DirectoryWithoutFiles
<1>2. LoaderTypes' /\ LoaderOwns' /\ MapIsKnown'
    BY <1>1 DEF LoaderInv, LoaderTypes, LoaderPhases, LoaderOwns, MapIsKnown
<1> QED BY <1>1, <1>2, NotYetTold DEF LoaderInv

LEMMA LoadFailsInv == LoaderInv /\ LoadFails => LoaderInv'
<1> SUFFICES ASSUME LoaderInv, LoadFails PROVE LoaderInv'
    OBVIOUS
<1>1. /\ bootPhase = "files" /\ bootPhase' = "returned"
      /\ UNCHANGED <<fw, toLoad, ld, tries, bootTable, handed, kernel>>
    BY DEF LoadFails
<1>2. LoaderTypes' /\ LoaderOwns' /\ MapIsKnown'
    BY <1>1 DEF LoaderInv, LoaderTypes, LoaderPhases, LoaderOwns, MapIsKnown
<1> QED BY <1>1, <1>2, NotYetTold DEF LoaderInv

LEMMA PrepareFramebufferInv ==
    ASSUME NEW present \in BOOLEAN PROVE LoaderInv /\ PrepareFramebuffer(present) => LoaderInv'
<1> SUFFICES ASSUME LoaderInv, PrepareFramebuffer(present) PROVE LoaderInv'
    OBVIOUS
<1>1. /\ bootPhase = "files" /\ bootPhase' = "map" /\ UNCHANGED <<fw, toLoad, tries, bootTable, handed, kernel>>
      /\ ld' = [ld EXCEPT !.fb = present]
    BY DEF PrepareFramebuffer
<1>2. ld \in LoaderStates
    BY DEF LoaderInv, LoaderTypes
<1>3. /\ ld'.scratch = ld.scratch /\ ld'.tables = ld.tables /\ ld'.kernelAt = ld.kernelAt /\ ld'.files = ld.files
      /\ ld'.regions = ld.regions /\ ld'.mapKey = ld.mapKey /\ ld'.failed = ld.failed
    BY <1>1, <1>2 DEF LoaderStates
<1>4. ld' \in LoaderStates
    BY <1>1, <1>2 DEF LoaderStates
<1>5. LoaderTypes'
    BY <1>1, <1>4 DEF LoaderInv, LoaderTypes, LoaderPhases
<1>6. LoaderOwns'
    BY <1>1, <1>3 DEF LoaderInv, LoaderOwns, OwnsAll
<1>7. MapIsKnown'
    BY <1>1, <1>3 DEF LoaderInv, MapIsKnown
<1> QED BY <1>1, <1>5, <1>6, <1>7, NotYetTold DEF LoaderInv

LEMMA RetrieveFailsInv == LoaderInv /\ RetrieveFails => LoaderInv'
<1> SUFFICES ASSUME LoaderInv, RetrieveFails PROVE LoaderInv'
    OBVIOUS
<1>1. bootPhase = "map" /\ UNCHANGED <<bootPhase, fw, toLoad, ld, bootTable, handed, kernel>>
    BY DEF RetrieveFails
<1> QED BY <1>1 DEF LoaderInv, LoaderTypes, LoaderOwns, MapIsKnown, KernelIsTold, UsableIsFree

LEMMA TriesUsedUpInv == LoaderInv /\ TriesUsedUp => LoaderInv'
<1> SUFFICES ASSUME LoaderInv, TriesUsedUp PROVE LoaderInv'
    OBVIOUS
<1>1. /\ bootPhase = "map" /\ UNCHANGED <<fw, toLoad, ld, tries, bootTable, handed, kernel>>
      /\ bootPhase' = IF ld.failed THEN "stuck" ELSE "paging"
    BY DEF TriesUsedUp
<1>2. LoaderTypes' /\ LoaderOwns' /\ MapIsKnown'
    BY <1>1 DEF LoaderInv, LoaderTypes, LoaderPhases, LoaderOwns, MapIsKnown
<1> QED BY <1>1, <1>2, NotYetTold DEF LoaderInv

LEMMA ExitBootServicesInv == LoaderInv /\ ExitBootServices => LoaderInv'
<1> SUFFICES ASSUME LoaderInv, ExitBootServices PROVE LoaderInv'
    OBVIOUS
<1>1. /\ bootPhase = "exit" /\ UNCHANGED <<toLoad, tries, bootTable, handed, kernel>>
      /\ IF ld.mapKey = fw.key
         THEN /\ fw' = [fw EXCEPT !.exited = TRUE] /\ ld' = [ld EXCEPT !.failed = FALSE] /\ bootPhase' = "paging"
         ELSE ld' = [ld EXCEPT !.failed = TRUE] /\ bootPhase' = "map" /\ UNCHANGED fw
    BY DEF ExitBootServices
<1>2. ld \in LoaderStates /\ fw \in FirmwareState
    BY DEF LoaderInv, LoaderTypes
<1>3. /\ ld'.scratch = ld.scratch /\ ld'.tables = ld.tables /\ ld'.kernelAt = ld.kernelAt /\ ld'.files = ld.files
      /\ ld'.regions = ld.regions /\ ld'.mapKey = ld.mapKey /\ (ld.mapKey # fw.key => ld'.failed)
    BY <1>1, <1>2 DEF LoaderStates
<1>4. ld' \in LoaderStates
    BY <1>1, <1>2 DEF LoaderStates
<1>5. fw'.mem = fw.mem /\ fw'.key = fw.key /\ (ld.mapKey = fw.key => fw'.exited)
    BY <1>1, <1>2 DEF FirmwareState
<1>6. fw' \in FirmwareState
    BY <1>1, <1>2 DEF FirmwareState
<1>7. LoaderTypes'
    BY <1>1, <1>4, <1>6 DEF LoaderInv, LoaderTypes, LoaderPhases
<1>8. LoaderOwns'
    BY <1>1, <1>3, <1>5 DEF LoaderInv, LoaderOwns, OwnsAll
<1>9. MapIsKnown'
    BY <1>1, <1>3, <1>5 DEF LoaderInv, MapIsKnown
<1> QED BY <1>1, <1>7, <1>8, <1>9, NotYetTold DEF LoaderInv

LEMMA RetrieveMapInv == LoaderInv /\ RetrieveMap => LoaderInv'
<1> SUFFICES ASSUME LoaderInv, RetrieveMap PROVE LoaderInv'
    OBVIOUS
<1>1. PICK f : f = Allocated(fw, 1)
    OBVIOUS
<1>2. PICK used : used = ld.used + RecordPages(Len(Descriptors(f)))
    OBVIOUS
<1>3. /\ bootPhase = "map" /\ FreeRun(fw, 1) # 0 /\ fw' = f /\ UNCHANGED <<toLoad, bootTable, handed, kernel>>
      /\ IF used > TablePages
         THEN bootPhase' = "stuck" /\ UNCHANGED ld
         ELSE /\ ld' = [ld EXCEPT !.regions = RegionsOf(Descriptors(f)), !.mapKey = f.key, !.used = used]
              /\ bootPhase' = "exit"
    BY <1>1, <1>2 DEF RetrieveMap
<1>4. ld \in LoaderStates /\ fw \in FirmwareState
    BY DEF LoaderInv, LoaderTypes
<1>5. f \in FirmwareState /\ f.key = fw.key + 1 /\ Keeps(fw.mem, f.mem)
    BY <1>1, <1>3, <1>4, AllocatedIs
<1>6. PICK ds \in Seq(Descriptor) : ds = Descriptors(f) /\ \A i \in 1 .. Len(ds) : TypeIsTrue(f.mem, ds[i])
    BY <1>5, DescriptorsAre
<1>7. PICK rs \in Seq(Region) : rs = RegionsOf(ds) /\ RegionsAreFree(f.mem, rs)
    BY <1>6, RegionsAre
<1>8. OwnsAll(f.mem, ld)
    BY <1>3, <1>5, OwnsAllStays DEF LoaderInv, LoaderOwns
<1>9. ld.mapKey \in Int /\ fw.key \in Nat /\ f.key \in Nat /\ ld.mapKey <= fw.key
    BY <1>4, <1>5 DEF LoaderInv, MapIsKnown, LoaderStates, FirmwareState
<1>10. CASE used > TablePages
    <2>1. LoaderTypes'
        BY <1>3, <1>5, <1>10 DEF LoaderInv, LoaderTypes, LoaderPhases
    <2>2. LoaderOwns'
        BY <1>3, <1>8, <1>10 DEF LoaderOwns
    <2>3. ld'.mapKey <= fw'.key
        BY <1>3, <1>5, <1>9, <1>10
    <2>4. MapIsKnown'
        BY <1>3, <1>10, <2>3 DEF MapIsKnown
    <2> QED BY <1>3, <1>10, <2>1, <2>2, <2>4, NotYetTold DEF LoaderInv
<1>11. CASE ~(used > TablePages)
    <2>1. ld' = [ld EXCEPT !.regions = rs, !.mapKey = f.key, !.used = used]
        BY <1>3, <1>6, <1>7, <1>11
    <2>2. used \in Nat
        <3>1. Len(ds) \in Nat
            OBVIOUS
        <3>2. PICK n \in Nat : n = RecordPages(Len(ds))
            BY <3>1, RecordPagesAre
        <3>3. ld.used \in Nat /\ used = ld.used + n
            BY <1>2, <1>4, <1>6, <3>2 DEF LoaderStates
        <3> QED BY <3>3
    <2>3. ld' \in LoaderStates
        <3>1. /\ ld.scratch \in Nat /\ ld.tables \in Nat /\ ld.kernelAt \in Nat /\ ld.files \in Seq(LoadedFile)
              /\ ld.fb \in BOOLEAN /\ ld.failed \in BOOLEAN /\ f.key \in Int
            BY <1>4, <1>9 DEF LoaderStates
        <3>2. ld' = [scratch |-> ld.scratch, tables |-> ld.tables, used |-> used, kernelAt |-> ld.kernelAt,
                     files |-> ld.files, fb |-> ld.fb, regions |-> rs, mapKey |-> f.key, failed |-> ld.failed]
            BY <1>4, <2>1 DEF LoaderStates
        <3> QED BY <1>7, <2>2, <3>1, <3>2, Zenon DEF LoaderStates
    <2>4. /\ ld'.scratch = ld.scratch /\ ld'.tables = ld.tables /\ ld'.kernelAt = ld.kernelAt /\ ld'.files = ld.files
          /\ ld'.regions = rs /\ ld'.mapKey = f.key
        BY <1>4, <2>1 DEF LoaderStates
    <2>5. LoaderTypes'
        BY <1>3, <1>5, <1>11, <2>3 DEF LoaderInv, LoaderTypes, LoaderPhases
    <2>6. LoaderOwns'
        BY <1>3, <1>8, <1>11, <2>4 DEF LoaderOwns, OwnsAll
    <2>7. ld'.mapKey <= fw'.key
        BY <1>3, <1>9, <2>4
    <2>8. MapIsKnown'
        BY <1>3, <1>7, <1>11, <2>4, <2>7 DEF MapIsKnown
    <2> QED BY <1>3, <1>11, <2>5, <2>6, <2>8, NotYetTold DEF LoaderInv
<1> QED BY <1>10, <1>11

LEMMA LoadFileInv == LoaderInv /\ LoadFile => LoaderInv'
<1> SUFFICES ASSUME LoaderInv, LoadFile PROVE LoaderInv'
    OBVIOUS
<1>0. bootPhase = "files" /\ toLoad # <<>> /\ UNCHANGED <<tries, bootTable, handed, kernel>>
    BY DEF LoadFile
<1>1. ld \in LoaderStates /\ fw \in FirmwareState /\ toLoad \in Seq(SystemFile)
    BY DEF LoaderInv, LoaderTypes
<1>2. PICK f \in SystemFile : f = Head(toLoad)
    BY <1>0, <1>1
<1>3. PICK n \in Nat, K \in Nat : n = PagesFor(f.size) /\ K = PagesFor(KernelBytes)
    BY PagesForIs, BytesAre DEF SystemFile
<1>4. PICK f1, f2, f3, at, image :
          /\ f1 = Allocated(fw, n) /\ f2 = IF IsKernel(f) THEN Allocated(f1, K) ELSE f1
          /\ f3 = Allocated(f2, n) /\ at = FreeRun(f2, n) /\ image = FreeRun(f1, K)
    OBVIOUS
<1>5. IF at = 0 \/ FreeRun(fw, n) = 0 \/ (IsKernel(f) /\ image = 0)
      THEN bootPhase' = "returned" /\ UNCHANGED <<fw, ld, toLoad>>
      ELSE /\ fw' = f3
           /\ ld' = [ld EXCEPT !.files = Append(@, [name |-> f.name, size |-> f.size, at |-> at]),
                               !.kernelAt = IF IsKernel(f) THEN image ELSE @]
           /\ toLoad' = Tail(toLoad)
           /\ UNCHANGED bootPhase
    BY <1>2, <1>3, <1>4 DEF LoadFile
<1>6. CASE at = 0 \/ FreeRun(fw, n) = 0 \/ (IsKernel(f) /\ image = 0)
    <2>1. LoaderTypes' /\ LoaderOwns' /\ MapIsKnown'
        BY <1>0, <1>5, <1>6 DEF LoaderInv, LoaderTypes, LoaderPhases, LoaderOwns, MapIsKnown
    <2> QED BY <1>5, <1>6, <2>1, NotYetTold DEF LoaderInv
<1>7. CASE ~(at = 0 \/ FreeRun(fw, n) = 0 \/ (IsKernel(f) /\ image = 0))
    <2>1. f1 \in FirmwareState /\ f1.key = fw.key + 1 /\ Keeps(fw.mem, f1.mem)
        BY <1>1, <1>4, <1>7, AllocatedIs
    <2>2. /\ f2 \in FirmwareState /\ f2.key \in {f1.key, f1.key + 1} /\ Keeps(f1.mem, f2.mem)
          /\ IsKernel(f) => image \in Nat /\ LoaderHas(f2.mem, image, K)
        <3>1. CASE ~IsKernel(f)
            BY <1>4, <2>1, <3>1 DEF Keeps
        <3>2. CASE IsKernel(f)
            <4>1. f2 = Allocated(f1, K) /\ FreeRun(f1, K) # 0
                BY <1>4, <1>7, <3>2
            <4> QED BY <1>4, <2>1, <4>1, AllocatedIs
        <3> QED BY <3>1, <3>2
    <2>3. f3 \in FirmwareState /\ f3.key = f2.key + 1 /\ Keeps(f2.mem, f3.mem) /\ at \in Nat /\ LoaderHas(f3.mem, at, n)
        BY <1>4, <1>7, <2>2, AllocatedIs
    <2>4. Keeps(fw.mem, f3.mem)
        BY <2>1, <2>2, <2>3, KeepsOn
    <2>5. PICK new : new = [name |-> f.name, size |-> f.size, at |-> at]
        OBVIOUS
    <2>6. new \in LoadedFile /\ new.at = at /\ new.size = f.size
        BY <2>3, <2>5 DEF LoadedFile, SystemFile
    <2>7. PICK kernelAt : kernelAt = IF IsKernel(f) THEN image ELSE ld.kernelAt
        OBVIOUS
    <2>8. PICK files : files = Append(ld.files, new)
        OBVIOUS
    <2>9. /\ ld.scratch \in Nat /\ ld.tables \in Nat /\ ld.used \in Nat /\ kernelAt \in Nat /\ ld.files \in Seq(LoadedFile)
          /\ ld.fb \in BOOLEAN /\ ld.failed \in BOOLEAN /\ ld.mapKey \in Int /\ ld.regions \in Seq(Region)
        BY <1>1, <2>2, <2>7 DEF LoaderStates
    <2>10. ld' = [scratch |-> ld.scratch, tables |-> ld.tables, used |-> ld.used, kernelAt |-> kernelAt,
                  files |-> files, fb |-> ld.fb, regions |-> ld.regions, mapKey |-> ld.mapKey, failed |-> ld.failed]
        BY <1>1, <1>5, <1>7, <2>5, <2>7, <2>8 DEF LoaderStates
    <2>11. /\ files \in Seq(LoadedFile) /\ Len(files) = Len(ld.files) + 1 /\ files[Len(ld.files) + 1] = new
           /\ \A i \in 1 .. Len(ld.files) : files[i] = ld.files[i]
        BY <2>6, <2>8, <2>9, AppendIs
    <2>12. ld' \in LoaderStates
        BY <2>9, <2>10, <2>11, Zenon DEF LoaderStates
    <2>13. /\ ld'.scratch = ld.scratch /\ ld'.tables = ld.tables /\ ld'.kernelAt = kernelAt /\ ld'.files = files
           /\ ld'.regions = ld.regions /\ ld'.mapKey = ld.mapKey /\ ld'.failed = ld.failed
        BY <2>10
    <2>14. fw' = f3 /\ bootPhase' = bootPhase /\ toLoad' \in Seq(SystemFile)
        <3>1. Tail(toLoad) \in Seq(SystemFile)
            BY <1>0, <1>1
        <3> QED BY <1>5, <1>7, <3>1
    <2>15. LoaderTypes'
        BY <1>0, <2>3, <2>12, <2>14 DEF LoaderInv, LoaderTypes
    <2>16. LoaderOwns'
        <3>1. OwnsAll(f3.mem, ld)
            BY <1>0, <2>4, OwnsAllStays DEF LoaderInv, LoaderOwns
        <3>2. kernelAt # 0 => LoaderHas(f3.mem, kernelAt, K)
            <4>1. CASE IsKernel(f)
                BY <2>2, <2>3, <2>7, <4>1, OwnedStays
            <4>2. CASE ~IsKernel(f)
                BY <1>3, <2>7, <3>1, <4>2 DEF OwnsAll
            <4> QED BY <4>1, <4>2
        <3>3. ASSUME NEW i \in 1 .. Len(files) PROVE LoaderHas(f3.mem, files[i].at, PagesFor(files[i].size))
            <4>1. Len(ld.files) \in Nat
                BY <2>9
            <4>2. i \in 1 .. Len(ld.files) \/ i = Len(ld.files) + 1
                BY <2>11, <4>1
            <4>3. CASE i \in 1 .. Len(ld.files)
                BY <2>11, <3>1, <4>3 DEF OwnsAll
            <4>4. CASE i = Len(ld.files) + 1
                BY <1>3, <2>3, <2>6, <2>11, <4>4
            <4> QED BY <4>2, <4>3, <4>4
        <3>4. OwnsAll(f3.mem, ld')
            BY <1>3, <2>13, <3>1, <3>2, <3>3 DEF OwnsAll
        <3> QED BY <1>0, <2>14, <3>4 DEF LoaderOwns
    <2>17. MapIsKnown'
        <3>1. ld.mapKey <= fw.key /\ fw.key \in Nat /\ ld.mapKey \in Int
            BY <1>1 DEF LoaderInv, MapIsKnown, FirmwareState, LoaderStates
        <3>2. f3.key = fw.key + 2 \/ f3.key = fw.key + 3
            BY <2>1, <2>2, <2>3, <3>1
        <3>3. ld'.mapKey <= fw'.key
            BY <2>13, <2>14, <3>1, <3>2
        <3> QED BY <1>0, <2>13, <2>14, <3>3 DEF LoaderInv, MapIsKnown
    <2>18. bootPhase' \notin {"kernel", "init", "done"}
        BY <1>0, <2>14
    <2> QED BY <2>15, <2>16, <2>17, <2>18, NotYetTold DEF LoaderInv
<1> QED BY <1>6, <1>7

LEMMA PagesOfArea ==
    ASSUME NEW a \in Area
    PROVE  /\ \A v \in AreaPages(a) : v \in Nat /\ v - a.at \in 0 .. PagesFor(a.bytes) - 1
           /\ \A k \in 0 .. PagesFor(a.bytes) - 1 : a.at + k \in AreaPages(a)
<1>1. PICK n \in Nat, s \in Nat : n = PagesFor(a.bytes) /\ s = a.at
    BY BehindIs DEF MappedPages
<1>2. AreaPages(a) = s .. s + n - 1
    BY <1>1 DEF AreaPages, MappedPages
<1>3. /\ \A v \in s .. s + n - 1 : v \in Nat /\ v - s \in 0 .. n - 1
      /\ \A k \in 0 .. n - 1 : s + k \in s .. s + n - 1
    OBVIOUS
<1> QED BY <1>1, <1>2, <1>3

\* The loader's scratchpad is large enough.
ScratchpadSuffices == ld.used + TablesOf(Areas) + PagesFor(Areas[4].bytes) <= TablePages

\* What the kernel is told lies behind the page tables, in the scratchpad.
LEMMA StructsInside ==
    ASSUME ld \in LoaderStates, ScratchpadSuffices
    PROVE  \A k \in 0 .. StructPages - 1 : StructPhys + k \in ld.tables .. ld.tables + TablePages - 1
<1>1. /\ OneBehindTheOther(FirstAreas) /\ OneBehindTheOther(Areas)
      /\ StructPages \in Nat /\ Areas[4].bytes = PageB * StructPages
    BY FirstAreasAre, AreasAre
<1>2. TablesOf(FirstAreas) <= TablesOf(Areas)
    <2>1. Len(FirstAreas) = 3 /\ Len(Areas) = 4 + Len(ld.files) /\ Len(ld.files) \in Nat
        BY FirstAreasAre, AreasAre DEF LoaderStates
    <2>2. Areas[1] = FirstAreas[1] /\ Areas[2] = FirstAreas[2] /\ Areas[3] = FirstAreas[3]
        BY AreasAre
    <2>3. \A i \in 1 .. 3 : i = 1 \/ i = 2 \/ i = 3
        OBVIOUS
    <2>4. \A i \in 1 .. Len(FirstAreas) : Areas[i] = FirstAreas[i]
        BY <2>1, <2>2, <2>3
    <2>5. Len(FirstAreas) <= Len(Areas)
        BY <2>1
    <2> QED BY <1>1, <2>4, <2>5, MoreTables
<1>3. PICK t1 \in Nat, t2 \in Nat, u \in Nat, b \in Nat, S \in Nat :
          t1 = TablesOf(FirstAreas) /\ t2 = TablesOf(Areas) /\ u = ld.used /\ b = ld.tables /\ S = StructPages
    BY <1>1, SpansAre DEF LoaderStates
<1>4. PagesFor(Areas[4].bytes) = S
    BY <1>1, <1>3, PagesForWhole
<1>5. TablePages \in Nat /\ u + t2 + S <= TablePages /\ t1 <= t2
    BY <1>2, <1>3, <1>4, BytesAre DEF ScratchpadSuffices
<1>6. StructPhys = b + u + t1
    BY <1>3 DEF StructPhys
<1>7. \A k \in 0 .. S - 1 : b + u + t1 + k \in b .. b + TablePages - 1
    BY <1>5
<1> QED BY <1>3, <1>6, <1>7

LEMMA TableIsOwned ==
    ASSUME ld \in LoaderStates, ScratchpadSuffices, NEW m, OwnsAll(m, ld), NEW table, table = Table(Areas)
    PROVE  TableOwned(m, table)
<1> SUFFICES ASSUME NEW v \in DOMAIN table
             PROVE  table[v] \in Int /\ (table[v] < 0 \/ (table[v] \in MachinePages /\ m[table[v]] = "loader"))
    BY DEF TableOwned
<1>1. PICK as : as = Areas
    OBVIOUS
<1>2. PICK N \in Nat : N = Len(ld.files)
    BY DEF LoaderStates
<1>3. OneBehindTheOther(as) /\ Len(as) = 4 + N
    BY <1>1, <1>2, AreasAre
<1>4. PICK i \in 1 .. 4 + N : v \in AreaPages(as[i])
    BY <1>1, <1>3, TableIs
<1>5. as[i] \in Area
    <2>1. as \in Seq(Area)
        BY <1>3 DEF OneBehindTheOther
    <2>2. i \in 1 .. Len(as)
        BY <1>3, <1>4
    <2> QED BY <2>1, <2>2, ElementIs
<1>6. PICK k \in 0 .. PagesFor(as[i].bytes) - 1 : k = v - as[i].at
    BY <1>4, <1>5, PagesOfArea
<1>7. table[v] = as[i].phys + k
    BY <1>1, <1>3, <1>4, <1>6, TableIs
<1>8. ASSUME NEW p \in Nat, NEW n \in Nat, LoaderHas(m, p, n), as[i].phys = p, k \in 0 .. n - 1
      PROVE  table[v] \in MachinePages /\ m[table[v]] = "loader" /\ table[v] \in Int
    <2>1. p + k \in p .. p + n - 1 /\ p + k \in Int
        BY <1>8
    <2> QED BY <1>7, <1>8, <2>1 DEF LoaderHas
<1>9. CASE i = 1
    <2>1. as[1].bytes = ScratchB /\ as[1].phys = ld.scratch /\ ld.scratch \in Nat
        BY <1>1, AreasAre, FirstAreasAre DEF LoaderStates
    <2>2. LoaderHas(m, ld.scratch, PagesFor(ScratchB))
        BY DEF OwnsAll
    <2> QED BY <1>6, <1>8, <1>9, <2>1, <2>2, BytesAre
<1>10. CASE i = 2
    <2>1. as[2].bytes = KernelPart /\ as[2].phys = ld.kernelAt /\ ld.kernelAt \in Nat
        BY <1>1, AreasAre, FirstAreasAre DEF LoaderStates
    <2>2. CASE ld.kernelAt = 0
        <3>1. PagesFor(PageB * 0) = 0 /\ PageB * 0 = 0
            <4>1. PageB \in Nat
                BY LoaderAssumption
            <4> QED BY <4>1, PagesForWhole
        <3>2. PagesFor(as[2].bytes) = 0
            BY <2>1, <2>2, <3>1 DEF KernelPart
        <3> QED BY <1>6, <1>10, <3>2
    <2>3. CASE ld.kernelAt # 0
        <3>1. LoaderHas(m, ld.kernelAt, PagesFor(KernelBytes)) /\ as[2].bytes = KernelBytes
            BY <2>1, <2>3 DEF OwnsAll, KernelPart
        <3> QED BY <1>6, <1>8, <1>10, <2>1, <3>1, BytesAre
    <2> QED BY <2>2, <2>3
<1>11. CASE i = 3
    <2>1. as[3].bytes = FbPart /\ as[3].phys = -PagesFor(FramebufferB)
        BY <1>1, AreasAre, FirstAreasAre
    <2>2. PICK F \in Nat : F = PagesFor(FramebufferB)
        BY BytesAre
    <2>3. PagesFor(FbPart) = 0 \/ PagesFor(FbPart) = F
        <3>1. PagesFor(PageB * 0) = 0 /\ PageB * 0 = 0
            <4>1. PageB \in Nat
                BY LoaderAssumption
            <4> QED BY <4>1, PagesForWhole
        <3> QED BY <2>2, <3>1 DEF FbPart
    <2>4. k \in 0 .. F - 1
        <3>1. PICK w \in Nat : w = PagesFor(FbPart) /\ w <= F
            BY <2>3
        <3>2. k \in 0 .. w - 1
            BY <1>6, <1>11, <2>1, <3>1
        <3> QED BY <3>1, <3>2
    <2>5. table[v] = -F + k
        BY <1>7, <1>11, <2>1, <2>2
    <2> QED BY <2>4, <2>5
<1>12. CASE i = 4
    <2>1. as[4].bytes = PageB * StructPages /\ as[4].phys = StructPhys /\ StructPages \in Nat
        BY <1>1, AreasAre
    <2>2. k \in 0 .. StructPages - 1
        BY <1>6, <1>12, <2>1, PagesForWhole
    <2>3. table[v] \in ld.tables .. ld.tables + TablePages - 1
        BY <1>7, <1>12, <2>1, <2>2, StructsInside
    <2>4. LoaderHas(m, ld.tables, TablePages)
        BY DEF OwnsAll
    <2> QED BY <2>3, <2>4 DEF LoaderHas
<1>13. CASE i > 4
    <2>1. PICK j \in 1 .. N : j = i - 4
        BY <1>13
    <2>2. 4 + j = i
        BY <2>1
    <2>3. as[i].bytes = ld.files[j].size /\ as[i].phys = ld.files[j].at
        BY <1>1, <1>2, <2>1, <2>2, AreasAre
    <2>4. LoaderHas(m, ld.files[j].at, PagesFor(ld.files[j].size))
        BY <1>2, <2>1 DEF OwnsAll
    <2>5. ld.files[j].at \in Nat /\ ld.files[j].size \in Nat
        <3>1. ld.files \in Seq(LoadedFile)
            BY DEF LoaderStates
        <3>2. ld.files[j] \in LoadedFile
            BY <1>2, <2>1, <3>1, ElementIs
        <3> QED BY <3>2 DEF LoadedFile
    <2> QED BY <1>6, <1>8, <2>3, <2>4, <2>5, PagesForIs
<1>14. i = 1 \/ i = 2 \/ i = 3 \/ i = 4 \/ i > 4
    BY <1>4
<1>15. \A p \in MachinePages : p \in Int
    BY MachinePagesAre
<1> QED BY <1>9, <1>10, <1>11, <1>12, <1>13, <1>14, <1>15

LEMMA KernelHears ==
    ASSUME ld \in LoaderStates, ScratchpadSuffices, ld.kernelAt # 0, NEW table, table = Table(Areas), NEW given,
           given = [at |-> Areas[4].at, regions |-> ld.regions,
                    files |-> [i \in DOMAIN ld.files |->
                        [name |-> ld.files[i].name, size |-> ld.files[i].size, offset |-> Areas[4 + i].at - Areas[4].at]]]
    PROVE  Told(table, given, ld)
<1>1. PICK as : as = Areas
    OBVIOUS
<1>2. PICK N \in Nat : N = Len(ld.files) /\ DOMAIN ld.files = 1 .. N
    BY DEF LoaderStates
<1>3. OneBehindTheOther(as) /\ Len(as) = 4 + N /\ \A i \in 1 .. 4 + N : as[i] \in Area
    <2>1. OneBehindTheOther(as) /\ Len(as) = 4 + N
        BY <1>1, <1>2, AreasAre
    <2>2. as \in Seq(Area)
        BY <2>1 DEF OneBehindTheOther
    <2>3. ASSUME NEW i \in 1 .. 4 + N PROVE as[i] \in Area
        <3>1. i \in 1 .. Len(as)
            BY <2>1
        <3> QED BY <2>2, <3>1, ElementIs
    <2> QED BY <2>1, <2>3
<1>4. ASSUME NEW i \in 1 .. 4 + N, NEW k \in 0 .. PagesFor(as[i].bytes) - 1
      PROVE  as[i].at + k \in DOMAIN table /\ table[as[i].at + k] = as[i].phys + k
    <2>1. PICK v : v = as[i].at + k
        OBVIOUS
    <2>2. as[i].at \in Nat /\ v \in AreaPages(as[i])
        BY <1>3, <1>4, <2>1, PagesOfArea, BehindIs
    <2>3. v \in DOMAIN table /\ table[v] = as[i].phys + (v - as[i].at)
        BY <1>1, <1>3, <2>2, TableIs
    <2>4. v - as[i].at = k
        <3>1. PICK s \in Nat : s = as[i].at
            BY <2>2
        <3>2. k \in Int
            OBVIOUS
        <3>3. (s + k) - s = k
            BY <3>2
        <3> QED BY <2>1, <3>1, <3>3
    <2> QED BY <2>1, <2>3, <2>4
<1>5. PICK at : at = as[4].at
    OBVIOUS
<1>6. PICK gf : gf = [i \in 1 .. N |-> [name |-> ld.files[i].name, size |-> ld.files[i].size,
                                        offset |-> as[4 + i].at - at]]
    OBVIOUS
<1>7. given = [at |-> at, regions |-> ld.regions, files |-> gf]
    BY <1>1, <1>2, <1>5, <1>6
<1>8. given.at = at /\ given.regions = ld.regions /\ given.files = gf
    BY <1>7
<1>9. Len(gf) = N /\ DOMAIN gf = 1 .. N
    BY <1>6
<1>10. at \in Nat
    <2>1. 4 \in 1 .. 4 + N
        OBVIOUS
    <2> QED BY <1>3, <1>5, <2>1, BehindIs
<1>11. ASSUME NEW i \in 1 .. N, NEW k \in 0 .. PagesFor(gf[i].size) - 1
       PROVE  /\ at + gf[i].offset + k \in DOMAIN table
              /\ table[at + gf[i].offset + k] = ld.files[i].at + k
    <2>1. gf[i].size = ld.files[i].size /\ gf[i].offset = as[4 + i].at - at
        BY <1>6
    <2>2. as[4 + i].bytes = ld.files[i].size /\ as[4 + i].phys = ld.files[i].at
        BY <1>1, <1>2, AreasAre
    <2>3. 4 + i \in 1 .. 4 + N
        OBVIOUS
    <2>4. as[4 + i].at \in Nat
        BY <1>3, <2>3, BehindIs
    <2>5. at + gf[i].offset + k = as[4 + i].at + k
        <3>1. PICK s \in Nat : s = as[4 + i].at
            BY <2>4
        <3>2. k \in Int
            OBVIOUS
        <3>3. at + (s - at) + k = s + k
            BY <1>10, <3>2
        <3> QED BY <2>1, <3>1, <3>3
    <2>6. k \in 0 .. PagesFor(as[4 + i].bytes) - 1
        BY <1>11, <2>1, <2>2
    <2> QED BY <1>4, <2>2, <2>3, <2>5, <2>6
<1>12. RecordPages(1 + Len(given.regions) + Len(given.files)) = StructPages
    BY <1>2, <1>8, <1>9 DEF StructPages
<1>13. ASSUME NEW k \in 0 .. StructPages - 1 PROVE table[at + k] \in ld.tables .. ld.tables + TablePages - 1
    <2>1. as[4].bytes = PageB * StructPages /\ as[4].phys = StructPhys /\ StructPages \in Nat
        BY <1>1, AreasAre
    <2>2. 4 \in 1 .. 4 + N /\ k \in 0 .. PagesFor(as[4].bytes) - 1
        BY <2>1, PagesForWhole
    <2>3. table[at + k] = StructPhys + k
        BY <1>4, <1>5, <2>1, <2>2
    <2> QED BY <2>3, StructsInside
<1>14. ASSUME NEW k \in 0 .. PagesFor(KernelBytes) - 1 PROVE table[PagesFor(ScratchB) + k] = ld.kernelAt + k
    <2>1. as[2] = [at |-> PagesFor(ScratchB), bytes |-> KernelPart, phys |-> ld.kernelAt]
        BY <1>1, AreasAre, FirstAreasAre
    <2>2. KernelPart = KernelBytes
        BY DEF KernelPart
    <2>3. as[2].at = PagesFor(ScratchB) /\ as[2].bytes = KernelBytes /\ as[2].phys = ld.kernelAt
        BY <2>1, <2>2
    <2>4. 2 \in 1 .. 4 + N /\ k \in 0 .. PagesFor(as[2].bytes) - 1
        BY <1>14, <2>3
    <2> QED BY <1>4, <2>3, <2>4
<1>15. \A i \in DOMAIN given.files : \A k \in 0 .. PagesFor(given.files[i].size) - 1 :
           /\ given.at + given.files[i].offset + k \in DOMAIN table
           /\ table[given.at + given.files[i].offset + k] = ld.files[i].at + k
    <2> SUFFICES ASSUME NEW i \in DOMAIN given.files, NEW k \in 0 .. PagesFor(given.files[i].size) - 1
                 PROVE  /\ given.at + given.files[i].offset + k \in DOMAIN table
                        /\ table[given.at + given.files[i].offset + k] = ld.files[i].at + k
        OBVIOUS
    <2>1. i \in 1 .. N /\ k \in 0 .. PagesFor(gf[i].size) - 1
        BY <1>8, <1>9
    <2>2. at + gf[i].offset + k \in DOMAIN table /\ table[at + gf[i].offset + k] = ld.files[i].at + k
        BY <1>11, <2>1
    <2> QED BY <1>8, <2>2
<1>16. \A k \in 0 .. RecordPages(1 + Len(given.regions) + Len(given.files)) - 1 :
           table[given.at + k] \in ld.tables .. ld.tables + TablePages - 1
    BY <1>8, <1>12, <1>13
<1> QED BY <1>8, <1>14, <1>15, <1>16, Zenon DEF Told

LEMMA BuildTablesInv == LoaderInv /\ BuildTables => LoaderInv'
<1> SUFFICES ASSUME LoaderInv, BuildTables PROVE LoaderInv'
    OBVIOUS
<1>1. bootPhase = "paging" /\ UNCHANGED <<fw, toLoad, ld, tries, kernel>>
    BY DEF BuildTables
<1>2. IF ld.used + TablesOf(Areas) + PagesFor(Areas[4].bytes) > TablePages
      THEN bootPhase' = "stuck" /\ UNCHANGED <<bootTable, handed>>
      ELSE /\ bootTable' = Table(Areas)
           /\ handed' = [at |-> Areas[4].at, regions |-> ld.regions,
                         files |-> [i \in DOMAIN ld.files |->
                             [name |-> ld.files[i].name, size |-> ld.files[i].size,
                              offset |-> Areas[4 + i].at - Areas[4].at]]]
           /\ bootPhase' = IF ld.kernelAt = 0 THEN "wild" ELSE "kernel"
    BY DEF BuildTables
<1>3. ld \in LoaderStates /\ fw \in FirmwareState
    BY DEF LoaderInv, LoaderTypes
<1>4. bootPhase' \in {"stuck", "wild", "kernel"}
    BY <1>2
<1>5. LoaderTypes'
    BY <1>1, <1>4 DEF LoaderInv, LoaderTypes, LoaderPhases
<1>6. LoaderOwns'
    BY <1>1, <1>4 DEF LoaderInv, LoaderOwns
<1>7. MapIsKnown'
    BY <1>1, <1>4 DEF LoaderInv, MapIsKnown
<1>8. UsableIsFree'
    BY <1>4 DEF UsableIsFree
<1>9. KernelIsTold'
    <2> SUFFICES ASSUME bootPhase' = "kernel" PROVE Told(bootTable', handed', ld') /\ TableOwned(fw'.mem, bootTable')
        BY <1>4 DEF KernelIsTold
    <2>1. ~(ld.used + TablesOf(Areas) + PagesFor(Areas[4].bytes) > TablePages) /\ ld.kernelAt # 0
        BY <1>2
    <2>2. ScratchpadSuffices
        <3>1. OneBehindTheOther(Areas) /\ StructPages \in Nat /\ Areas[4].bytes = PageB * StructPages
            BY <1>3, AreasAre
        <3>2. PICK t \in Nat, n \in Nat, u \in Nat : t = TablesOf(Areas) /\ n = PagesFor(Areas[4].bytes) /\ u = ld.used
            BY <1>3, <3>1, SpansAre, PagesForWhole DEF LoaderStates
        <3> QED BY <2>1, <3>2, BytesAre DEF ScratchpadSuffices
    <2>3. Told(bootTable', handed', ld)
        BY <1>2, <1>3, <2>1, <2>2, KernelHears
    <2>4. OwnsAll(fw.mem, ld)
        BY <1>1 DEF LoaderInv, LoaderOwns
    <2>5. TableOwned(fw.mem, bootTable')
        BY <1>2, <1>3, <2>1, <2>2, <2>4, TableIsOwned
    <2> QED BY <1>1, <2>3, <2>5
<1> QED BY <1>5, <1>6, <1>7, <1>8, <1>9 DEF LoaderInv

LEMMA InitMmInv == LoaderInv /\ InitMm => LoaderInv'
<1> SUFFICES ASSUME LoaderInv, InitMm PROVE LoaderInv'
    OBVIOUS
<1>1. PICK rs : rs = ld.regions
    OBVIOUS
<1>2. handed.regions = rs
    BY <1>1 DEF InitMm, LoaderInv, KernelIsTold, Told
<1>3. PICK us : us = UNION {rs[i].start .. rs[i].start + rs[i].count - 1 :
                               i \in {j \in DOMAIN rs : rs[j].flags = "usable"}}
    OBVIOUS
<1>4. /\ bootPhase = "kernel" /\ bootPhase' = "init" /\ kernel' = [kernel EXCEPT !.usable = us]
      /\ UNCHANGED <<fw, toLoad, ld, tries, bootTable, handed>>
    BY <1>2, <1>3 DEF InitMm
<1>5. PICK u, t : kernel = [usable |-> u, tasks |-> t]
    BY DEF LoaderInv, LoaderTypes
<1>6. kernel' = [usable |-> us, tasks |-> t]
    BY <1>4, <1>5
<1>7. LoaderTypes'
    <2>1. \E u2, t2 : kernel' = [usable |-> u2, tasks |-> t2]
        BY <1>6
    <2> QED BY <1>4, <2>1 DEF LoaderInv, LoaderTypes, LoaderPhases
<1>8. LoaderOwns' /\ MapIsKnown' /\ KernelIsTold'
    BY <1>4 DEF LoaderInv, LoaderOwns, MapIsKnown, KernelIsTold
<1>9. rs = <<>> \/ (fw.exited /\ RegionsAreFree(fw.mem, rs))
    BY <1>1, <1>4 DEF LoaderInv, MapIsKnown
<1>10. rs \in Seq(Region)
    BY <1>1 DEF LoaderInv, LoaderTypes, LoaderStates
<1>11. \A p \in us : p \in MachinePages /\ fw.mem[p] = "free"
    <2> SUFFICES ASSUME NEW p \in us PROVE p \in MachinePages /\ fw.mem[p] = "free"
        OBVIOUS
    <2>1. PICK i \in DOMAIN rs : rs[i].flags = "usable" /\ p \in rs[i].start .. rs[i].start + rs[i].count - 1
        BY <1>3
    <2>2. rs # <<>> /\ i \in 1 .. Len(rs)
        BY <1>10, <2>1
    <2>3. RegionIsFree(fw.mem, rs[i])
        BY <1>9, <2>2 DEF RegionsAreFree
    <2> QED BY <2>1, <2>3 DEF RegionIsFree
<1>12. fw.exited \/ us = {}
    <2>1. rs = <<>> => us = {}
        BY <1>3
    <2> QED BY <1>9, <2>1
<1>13. UsableIsFree'
    BY <1>4, <1>6, <1>11, <1>12 DEF UsableIsFree
<1> QED BY <1>7, <1>8, <1>13 DEF LoaderInv

LEMMA InitInitInv == LoaderInv /\ InitInit => LoaderInv'
<1> SUFFICES ASSUME LoaderInv, InitInit PROVE LoaderInv'
    OBVIOUS
<1>1. PICK tasks : /\ bootPhase = "init" /\ bootPhase' = "done" /\ kernel' = [kernel EXCEPT !.tasks = tasks]
                   /\ UNCHANGED <<fw, toLoad, ld, tries, bootTable, handed>>
    BY DEF InitInit
<1>2. PICK u, t : kernel = [usable |-> u, tasks |-> t]
    BY DEF LoaderInv, LoaderTypes
<1>3. kernel' = [usable |-> u, tasks |-> tasks] /\ kernel.usable = u /\ kernel'.usable = u
    BY <1>1, <1>2
<1>4. LoaderTypes'
    <2>1. \E u2, t2 : kernel' = [usable |-> u2, tasks |-> t2]
        BY <1>3
    <2> QED BY <1>1, <2>1 DEF LoaderInv, LoaderTypes, LoaderPhases
<1>5. LoaderOwns' /\ MapIsKnown' /\ KernelIsTold'
    BY <1>1 DEF LoaderInv, LoaderOwns, MapIsKnown, KernelIsTold
<1>6. UsableIsFree'
    BY <1>1, <1>3 DEF LoaderInv, UsableIsFree
<1> QED BY <1>4, <1>5, <1>6 DEF LoaderInv

LEMMA LoaderAlways == MemorySpec => []LoaderInv
<1>1. MemoryInit => LoaderInv
    <2> SUFFICES ASSUME LoaderInit PROVE LoaderInv
        BY DEF MemoryInit
    <2>1. /\ bootPhase = "start" /\ toLoad = <<>> /\ kernel = [usable |-> {}, tasks |-> <<>>]
          /\ fw = [mem |-> FirmwareMap, key |-> 0, exited |-> FALSE, events |-> 0]
          /\ ld = [scratch |-> 0, tables |-> 0, used |-> 0, kernelAt |-> 0, files |-> <<>>, fb |-> FALSE,
                   regions |-> <<>>, mapKey |-> -1, failed |-> FALSE]
        BY DEF LoaderInit
    <2>2. fw \in FirmwareState
        <3>1. FirmwareMap \in [MachinePages -> PageTypes]
            BY LoaderAssumption DEF MachinePages, PageTypes
        <3> QED BY <2>1, <3>1 DEF FirmwareState
    <2>3. ld \in LoaderStates
        BY <2>1 DEF LoaderStates
    <2>4. LoaderTypes
        <3>1. \E u, t : kernel = [usable |-> u, tasks |-> t]
            BY <2>1
        <3>2. toLoad \in Seq(SystemFile) /\ bootPhase \in LoaderPhases
            BY <2>1 DEF LoaderPhases
        <3> QED BY <2>2, <2>3, <3>1, <3>2 DEF LoaderTypes
    <2>5. LoaderOwns /\ MapIsKnown /\ KernelIsTold /\ UsableIsFree
        BY <2>1 DEF LoaderOwns, MapIsKnown, KernelIsTold, UsableIsFree
    <2> QED BY <2>4, <2>5 DEF LoaderInv
<1>2. LoaderInv /\ [MemoryNext]_memoryVars => LoaderInv'
    <2> SUFFICES ASSUME LoaderInv, [MemoryNext]_memoryVars PROVE LoaderInv'
        OBVIOUS
    <2>1. LoaderStep \/ UNCHANGED loaderVars
        BY DEF MemoryNext, memoryVars, BootVars
    <2>2. CASE UNCHANGED loaderVars
        BY <2>2, LoaderUnchanged
    <2>3. CASE FirmwareEvent \/ StartLoader \/ LoadFile \/ LoadFails \/ RetrieveMap \/ RetrieveFails
        BY <2>3, FirmwareEventInv, StartLoaderInv, LoadFileInv, LoadFailsInv, RetrieveMapInv, RetrieveFailsInv
    <2>4. CASE ExitBootServices \/ TriesUsedUp \/ BuildTables \/ InitMm \/ InitInit
        BY <2>4, ExitBootServicesInv, TriesUsedUpInv, BuildTablesInv, InitMmInv, InitInitInv
    <2>5. CASE \E readable \in BOOLEAN : OpenDirectory(readable)
        BY <2>5, OpenDirectoryInv
    <2>7. CASE DirectoryWithoutFiles
        BY <2>7, DirectoryWithoutFilesInv
    <2>6. CASE \E present \in BOOLEAN : PrepareFramebuffer(present)
        BY <2>6, PrepareFramebufferInv
    <2> QED BY <2>1, <2>2, <2>3, <2>4, <2>5, <2>6, <2>7 DEF LoaderStep
<1> QED BY <1>1, <1>2, PTL DEF MemorySpec, memoryVars

\* Whatever the firmware does to memory between GetMemoryMap and
\* ExitBootServices, and whichever of the loader's tries succeeds, init_mm
\* marks no page as free that the loader has put something into or that the
\* firmware still uses.
THEOREM UsableMemoryIsUnused == MemorySpec => []UsableIsUnused
<1>1. LoaderInv => UsableIsUnused
    <2> SUFFICES ASSUME LoaderInv, bootPhase \in {"init", "done"}
                 PROVE  /\ kernel.usable \cap HandedPages = {}
                        /\ \A p \in kernel.usable : fw.mem[p] = "free"
        BY DEF UsableIsUnused
    <2>1. \A p \in kernel.usable : p \in MachinePages /\ fw.mem[p] = "free"
        BY DEF LoaderInv, UsableIsFree
    <2>2. \A p \in MachinePages : p \in Nat
        BY MachinePagesAre
    <2>3. ASSUME NEW v \in DOMAIN bootTable PROVE bootTable[v] \notin kernel.usable
        <3>1. bootTable[v] \in Int /\ (bootTable[v] < 0 \/ fw.mem[bootTable[v]] = "loader")
            BY DEF LoaderInv, KernelIsTold, TableOwned
        <3> QED BY <2>1, <2>2, <3>1
    <2>4. ASSUME NEW p \in ld.tables .. ld.tables + TablePages - 1 PROVE p \notin kernel.usable
        <3>1. fw.mem[p] = "loader"
            BY <2>4 DEF LoaderInv, LoaderOwns, OwnsAll, LoaderHas
        <3> QED BY <2>1, <3>1
    <2> QED BY <2>1, <2>3, <2>4 DEF HandedPages
<1> QED BY <1>1, LoaderAlways, PTL

\* For every list of files, size of a page and of the kernel, with and without
\* a framebuffer: what initialize_virtual_memory maps never overlaps, and the
\* kernel finds each file, what it is told and itself where it was told.
THEOREM FilesStayMapped == MemorySpec => []FilesAreMapped
<1>1. LoaderInv => FilesAreMapped
    BY Zenon DEF LoaderInv, KernelIsTold, Told, FilesAreMapped
<1> QED BY <1>1, LoaderAlways, PTL

=============================================================================
