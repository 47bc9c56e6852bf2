------------------------------- MODULE TpaProofs -----------------------------
(****************************************************************************)
(* The pages of a thin provisioned array are a table.                       *)
(*                                                                          *)
(* The invariant says that there is a numbering of the pages: page k of n   *)
(* is at the address ord[k] and starts at entry num[k] * EntriesPerPage.    *)
(* prev is hardly trusted: it may point to a page that was given back or    *)
(* belongs elsewhere; only a page without prev is known to be the first.    *)
(****************************************************************************)
EXTENDS TablesProofs, FiniteSetTheorems, FunctionTheorems

-----------------------------------------------------------------------------
(* Indices and pages *)

StartOf(m) == m * EntriesPerPage

LEMMA StartOrder ==
    /\ EntriesPerPage \in Nat /\ EntriesPerPage > 0 /\ TpaPages \in Nat /\ TpaPages > 0
    /\ \A m \in Nat : StartOf(m) \in Nat
    /\ \A m, n \in Nat : m < n => StartOf(m) + EntriesPerPage <= StartOf(n)
<1>1. EntriesPerPage \in Nat /\ EntriesPerPage > 0 /\ TpaPages \in Nat /\ TpaPages > 0
    BY TpaAssumption
<1>2. \A m \in Nat : StartOf(m) \in Nat
    BY <1>1 DEF StartOf
<1>3. ASSUME NEW m \in Nat, NEW n \in Nat, m < n
      PROVE  StartOf(m) + EntriesPerPage <= StartOf(n)
    <2> DEFINE d == n - m - 1
               e == EntriesPerPage
    <2>1. d \in Nat /\ n = m + 1 + d /\ e \in Nat
        BY <1>1, <1>3
    <2> HIDE DEF d, e
    <2>2. n * e = m * e + e + d * e /\ d * e >= 0 /\ m * e \in Nat /\ d * e \in Nat
        BY <2>1
    <2>3. m * e + e <= n * e
        BY <2>1, <2>2
    <2> QED BY <2>3 DEF StartOf, e
<1> QED BY <1>1, <1>2, <1>3

LEMMA IndexIs ==
    ASSUME NEW i \in Nat
    PROVE  /\ i \div EntriesPerPage \in Nat
           /\ StartFor(i) = StartOf(i \div EntriesPerPage)
           /\ StartFor(i) <= i /\ i < StartFor(i) + EntriesPerPage /\ StartFor(i) \in Nat
           /\ i - StartFor(i) \in Slot
<1> DEFINE e == EntriesPerPage
           q == i \div e
<1>1. e \in Nat /\ e > 0
    BY StartOrder
<1>2. q \in Int /\ i % e \in 0 .. e - 1
    BY <1>1
<1>3. i = e * q + (i % e)
    BY <1>1
<1>4. q * e = e * q /\ q * e \in Int
    BY <1>1, <1>2
<1>5. q >= 0
    <2> SUFFICES ASSUME q <= -1 PROVE FALSE
        BY <1>2
    <2> DEFINE d == -1 - q
    <2>1. d \in Nat /\ q = -1 - d
        BY <1>2
    <2> HIDE DEF d, q
    <2>2. e * q = -e - e * d /\ e * d >= 0 /\ e * d \in Int
        BY <1>1, <2>1
    <2> HIDE DEF e
    <2> QED BY <1>1, <1>2, <1>3, <2>2
<1>6. StartFor(i) = q * e
    BY DEF StartFor
<1> HIDE DEF q, e
<1>7. StartFor(i) <= i /\ i < StartFor(i) + e /\ StartFor(i) \in Nat
    BY <1>1, <1>2, <1>3, <1>4, <1>5, <1>6 DEF e
<1>8. i - StartFor(i) \in 0 .. e - 1
    BY <1>1, <1>7
<1> QED BY <1>2, <1>5, <1>6, <1>7, <1>8 DEF q, e, StartOf, Slot

\* The page an index falls into is the one that covers it.
LEMMA StartUnique ==
    ASSUME NEW i \in Nat, NEW m \in Nat, StartOf(m) <= i, i < StartOf(m) + EntriesPerPage
    PROVE  m = i \div EntriesPerPage /\ StartFor(i) = StartOf(m)
<1>1. PICK q \in Nat : q = i \div EntriesPerPage
    BY IndexIs
<1>2. StartOf(q) <= i /\ i < StartOf(q) + EntriesPerPage /\ StartFor(i) = StartOf(q)
    BY <1>1, IndexIs
<1>3. /\ m < q => StartOf(m) + EntriesPerPage <= StartOf(q)
      /\ q < m => StartOf(q) + EntriesPerPage <= StartOf(m)
      /\ StartOf(m) \in Nat /\ StartOf(q) \in Nat /\ EntriesPerPage \in Nat
    BY StartOrder
<1>4. m = q
    BY <1>2, <1>3
<1> QED BY <1>1, <1>2, <1>4

LEMMA StartDistinct ==
    ASSUME NEW m \in Nat, NEW n \in Nat, StartOf(m) = StartOf(n)
    PROVE  m = n
<1>1. /\ m < n => StartOf(m) + EntriesPerPage <= StartOf(n)
      /\ n < m => StartOf(n) + EntriesPerPage <= StartOf(m)
      /\ StartOf(m) \in Nat /\ EntriesPerPage \in Nat /\ EntriesPerPage > 0
    BY StartOrder
<1> QED BY <1>1

LEMMA PageOfIndex ==
    ASSUME NEW i \in TpaIndex
    PROVE  i \in Nat /\ i \div EntriesPerPage \in 0 .. TpaPages - 1
<1>1. i \in Nat /\ i < StartOf(TpaPages)
    <2>1. StartOf(TpaPages) \in Nat
        BY StartOrder
    <2>2. i \in 0 .. StartOf(TpaPages) - 1
        BY DEF TpaIndex, StartOf
    <2> QED BY <2>1, <2>2
<1>2. PICK q \in Nat : q = i \div EntriesPerPage
    BY <1>1, IndexIs
<1>3. StartOf(q) <= i
    BY <1>1, <1>2, IndexIs
<1>4. /\ TpaPages < q => StartOf(TpaPages) + EntriesPerPage <= StartOf(q)
      /\ StartOf(q) \in Nat /\ StartOf(TpaPages) \in Nat /\ EntriesPerPage \in Nat
      /\ TpaPages \in Nat
    BY StartOrder
<1>5. q # TpaPages /\ ~(TpaPages < q)
    BY <1>1, <1>3, <1>4
<1> QED BY <1>1, <1>2, <1>4, <1>5

LEMMA IndexOfPage ==
    ASSUME NEW m \in 0 .. TpaPages - 1, NEW s \in Slot
    PROVE  /\ StartOf(m) \in Nat /\ s \in Nat /\ s < EntriesPerPage
           /\ StartOf(m) + s \in TpaIndex /\ StartFor(StartOf(m) + s) = StartOf(m)
<1>1. m \in Nat /\ m < TpaPages /\ StartOf(m) \in Nat /\ StartOf(TpaPages) \in Nat
    BY StartOrder
<1>2. s \in Nat /\ s < EntriesPerPage /\ EntriesPerPage \in Nat
    BY StartOrder DEF Slot
<1>3. StartOf(m) + EntriesPerPage <= StartOf(TpaPages)
    BY <1>1, StartOrder
<1>4. StartOf(m) + s \in 0 .. StartOf(TpaPages) - 1
    BY <1>1, <1>2, <1>3
<1>5. StartFor(StartOf(m) + s) = StartOf(m)
    <2> DEFINE i == StartOf(m) + s
    <2>1. i \in Nat /\ StartOf(m) <= i /\ i < StartOf(m) + EntriesPerPage
        BY <1>1, <1>2
    <2> HIDE DEF i
    <2>2. StartFor(i) = StartOf(m)
        BY <1>1, <2>1, StartUnique
    <2> QED BY <2>2 DEF i
<1> QED BY <1>1, <1>2, <1>4, <1>5 DEF TpaIndex, StartOf

-----------------------------------------------------------------------------
(* The invariant *)

TpaPageType == [start : Nat, slots : [Slot -> TpaValues \cup {0}], next : Nat, prev : Nat]

\* The pages in use are those of the list, sorted by their starts.
ListedAs(pages, first, n, ord, num) ==
    /\ pages \in [DOMAIN pages -> TpaPageType]
    /\ n \in Nat
    /\ ord \in [1 .. n -> TpaAddr] /\ num \in [1 .. n -> 0 .. TpaPages - 1]
    /\ \A k, l \in 1 .. n : ord[k] = ord[l] => k = l
    /\ DOMAIN pages = {ord[k] : k \in 1 .. n}
    /\ first = IF n = 0 THEN 0 ELSE ord[1]
    /\ \A k \in 1 .. n : /\ pages[ord[k]].start = StartOf(num[k])
                         /\ pages[ord[k]].next = IF k = n THEN 0 ELSE ord[k + 1]
                         /\ pages[ord[k]].prev = 0 => k = 1
    /\ \A k, l \in 1 .. n : k <= l => l - k <= num[l] - num[k]

\* The entries of the pages are those of the table t.
StoredIn(pages, t) ==
    /\ t = [i \in DOMAIN t |-> t[i]]
    /\ \A a \in DOMAIN pages, s \in Slot : pages[a].slots[s] # 0 =>
          /\ pages[a].start + s \in DOMAIN t
          /\ t[pages[a].start + s] = pages[a].slots[s]
    /\ \A i \in DOMAIN t :
          /\ i \in TpaIndex /\ t[i] \in TpaValues
          /\ \E a \in DOMAIN pages : /\ pages[a].start = StartFor(i)
                                     /\ pages[a].slots[i - StartFor(i)] = t[i]

NoneEmpty(pages) == \A a \in DOMAIN pages : \E s \in Slot : pages[a].slots[s] # 0

Listed(pages, first) == \E n, ord, num : ListedAs(pages, first, n, ord, num)

\* Once a page was unlinked through a wrong prev, nothing is said.
TpaInv ==
    /\ tpaWild \in BOOLEAN
    /\ ~tpaWild => /\ Listed(tpaPage, tpaFirst)
                   /\ StoredIn(tpaPage, tpaTable)
                   /\ NoneEmpty(tpaPage)

\* There are not more pages than the indices fall into.
LEMMA ListedBounds ==
    ASSUME NEW pages, NEW first, NEW n, NEW ord, NEW num, ListedAs(pages, first, n, ord, num)
    PROVE  /\ n \in 0 .. TpaPages
           /\ \A k \in 1 .. n : /\ ord[k] \in DOMAIN pages /\ ord[k] \in Nat /\ ord[k] # 0
                                /\ num[k] \in Nat /\ StartOf(num[k]) \in Nat
                                /\ pages[ord[k]] \in TpaPageType
           /\ \A a \in DOMAIN pages : \E k \in 1 .. n : a = ord[k]
           /\ 0 \notin DOMAIN pages
           /\ \A k, l \in 1 .. n : k < l => /\ num[k] < num[l]
                                            /\ StartOf(num[k]) + EntriesPerPage <= StartOf(num[l])
<1>1. TpaPages \in Nat /\ TpaPages > 0
    BY StartOrder
<1>2. n \in Nat /\ \A k \in 1 .. n : ord[k] \in TpaAddr /\ num[k] \in 0 .. TpaPages - 1
    BY DEF ListedAs
<1>3. \A k \in 1 .. n : ord[k] \in Nat /\ ord[k] # 0 /\ num[k] \in Nat /\ num[k] < TpaPages
    BY <1>1, <1>2 DEF TpaAddr
<1>4. n \in 0 .. TpaPages
    <2>1. CASE n = 0
        BY <1>1, <2>1
    <2>2. CASE n # 0
        <3>1. 1 \in 1 .. n /\ n \in 1 .. n /\ 1 <= n
            BY <1>2, <2>2
        <3>2. n - 1 <= num[n] - num[1]
            BY <3>1 DEF ListedAs
        <3> QED BY <1>1, <1>2, <1>3, <3>1, <3>2
    <2> QED BY <2>1, <2>2
<1>5. DOMAIN pages = {ord[k] : k \in 1 .. n} /\ pages \in [DOMAIN pages -> TpaPageType]
    BY DEF ListedAs
<1>6. \A k \in 1 .. n : ord[k] \in DOMAIN pages /\ pages[ord[k]] \in TpaPageType
    BY <1>5
<1>7. ASSUME NEW k \in 1 .. n, NEW l \in 1 .. n, k < l
      PROVE  /\ num[k] < num[l]
             /\ StartOf(num[k]) + EntriesPerPage <= StartOf(num[l])
    <2>1. l - k <= num[l] - num[k]
        <3>1. k <= l
            BY <1>7
        <3> QED BY <3>1 DEF ListedAs
    <2>2. num[k] < num[l]
        BY <1>2, <1>3, <1>7, <2>1
    <2> QED BY <1>3, <2>2, StartOrder
<1> QED BY <1>3, <1>4, <1>5, <1>6, <1>7, StartOrder

\* Two pages do not start at the same entry.
LEMMA StartsDiffer ==
    ASSUME NEW pages, NEW first, NEW n, NEW ord, NEW num, ListedAs(pages, first, n, ord, num),
           NEW a \in DOMAIN pages, NEW b \in DOMAIN pages, pages[a].start = pages[b].start
    PROVE  a = b
<1>1. PICK k \in 1 .. n, l \in 1 .. n : a = ord[k] /\ b = ord[l]
    BY ListedBounds
<1>2. StartOf(num[k]) = StartOf(num[l])
    BY <1>1 DEF ListedAs
<1>3. /\ k < l => StartOf(num[k]) + EntriesPerPage <= StartOf(num[l])
      /\ l < k => StartOf(num[l]) + EntriesPerPage <= StartOf(num[k])
      /\ StartOf(num[k]) \in Nat
    BY ListedBounds
<1>4. k \in Nat /\ l \in Nat /\ EntriesPerPage \in Nat /\ EntriesPerPage > 0
    <2>1. n \in Nat
        BY DEF ListedAs
    <2> QED BY <2>1, StartOrder
<1>5. k = l
    BY <1>2, <1>3, <1>4
<1> QED BY <1>1, <1>5

\* Following the next pointers gives the pages in the order of their numbers.
LEMMA TpaChainIs ==
    ASSUME NEW n, NEW ord, NEW num, ListedAs(tpaPage, tpaFirst, n, ord, num)
    PROVE  TpaChain = ord /\ DOMAIN TpaChain = 1 .. n /\ Len(TpaChain) = n
<1> DEFINE at[m \in 0 .. TpaPages] ==
               IF m = 0 THEN tpaFirst
               ELSE IF at[m - 1] \in DOMAIN tpaPage THEN tpaPage[at[m - 1]].next
               ELSE NoPage
           IsAt(f) == f = [m \in 0 .. TpaPages |->
                              IF m = 0 THEN tpaFirst
                              ELSE IF f[m - 1] \in DOMAIN tpaPage THEN tpaPage[f[m - 1]].next
                              ELSE NoPage]
           Page(m) == IF m < n THEN ord[m + 1] ELSE 0
           walk == [m \in 0 .. TpaPages |-> Page(m)]
           stops == {m \in 0 .. TpaPages : walk[m] = 0} \cup {TpaPages}
<1>1. /\ TpaPages \in Nat /\ n \in Nat /\ n <= TpaPages /\ 0 \notin DOMAIN tpaPage
      /\ \A k \in 1 .. n : ord[k] \in DOMAIN tpaPage /\ ord[k] # 0
    BY ListedBounds, StartOrder
<1>2. /\ tpaFirst = IF n = 0 THEN 0 ELSE ord[1]
      /\ \A k \in 1 .. n : tpaPage[ord[k]].next = IF k = n THEN 0 ELSE ord[k + 1]
      /\ ord = [k \in 1 .. n |-> ord[k]]
    BY DEF ListedAs
<1>3. ASSUME NEW m \in 0 .. TpaPages, m # 0
      PROVE  Page(m) = IF Page(m - 1) \in DOMAIN tpaPage THEN tpaPage[Page(m - 1)].next ELSE NoPage
    <2>1. CASE m - 1 < n
        <3>1. m \in 1 .. n /\ m - 1 + 1 = m
            BY <1>1, <1>3, <2>1
        <3>2. Page(m - 1) = ord[m]
            BY <2>1, <3>1
        <3>3. tpaPage[ord[m]].next = IF m = n THEN 0 ELSE ord[m + 1]
            BY <1>2, <3>1
        <3>4. (m < n <=> m # n) /\ Page(m) = IF m = n THEN 0 ELSE ord[m + 1]
            BY <1>1, <3>1
        <3>5. ord[m] \in DOMAIN tpaPage
            BY <1>1, <3>1
        <3> HIDE DEF Page
        <3> QED BY <3>2, <3>3, <3>4, <3>5, Zenon
    <2>2. CASE ~(m - 1 < n)
        BY <1>1, <2>2 DEF NoPage
    <2> QED BY <2>1, <2>2
<1>4. IsAt(walk)
    <2>1. walk[0] = tpaFirst
        BY <1>1, <1>2
    <2>2. \A m \in 0 .. TpaPages : m # 0 => m - 1 \in 0 .. TpaPages
        BY <1>1
    <2> HIDE DEF Page
    <2>3. \A m \in 0 .. TpaPages : walk[m] = Page(m)
        OBVIOUS
    <2>4. \A m \in 0 .. TpaPages : m # 0 =>
              Page(m) = IF walk[m - 1] \in DOMAIN tpaPage THEN tpaPage[walk[m - 1]].next ELSE NoPage
        BY <1>3, <2>2
    <2> QED BY <2>1, <2>3, <2>4
<1>5. ASSUME NEW f, IsAt(f) PROVE f = walk
    <2> DEFINE same == {m \in Nat : m <= TpaPages => f[m] = walk[m]}
    <2>1. 0 \in same
        <3>1. 0 \in 0 .. TpaPages
            BY <1>1
        <3> HIDE DEF walk
        <3>2. f[0] = tpaFirst /\ walk[0] = tpaFirst
            BY <1>4, <1>5, <3>1
        <3> QED BY <3>2
    <2>2. ASSUME NEW m \in same PROVE m + 1 \in same
        <3>1. m \in Nat /\ (m + 1) - 1 = m
            OBVIOUS
        <3> HIDE DEF walk
        <3>2. CASE m + 1 <= TpaPages
            <4>1. m + 1 \in 0 .. TpaPages /\ m + 1 # 0 /\ f[m] = walk[m]
                BY <1>1, <2>2, <3>1, <3>2
            <4>2. f[m + 1] = IF f[m] \in DOMAIN tpaPage THEN tpaPage[f[m]].next ELSE NoPage
                BY <1>5, <3>1, <4>1
            <4>3. walk[m + 1] = IF walk[m] \in DOMAIN tpaPage THEN tpaPage[walk[m]].next ELSE NoPage
                BY <1>4, <3>1, <4>1
            <4> QED BY <3>1, <4>1, <4>2, <4>3
        <3> QED BY <3>1, <3>2
    <2> HIDE DEF same
    <2>3. same = Nat
        <3>1. same \in SUBSET Nat
            BY DEF same
        <3> QED BY <2>1, <2>2, <3>1, NumberInduction
    <2>4. \A m \in 0 .. TpaPages : f[m] = walk[m]
        <3> HIDE DEF walk
        <3>1. \A m \in 0 .. TpaPages : m \in same /\ m <= TpaPages
            BY <1>1, <2>3
        <3> QED BY <3>1 DEF same
    <2>5. f = [m \in 0 .. TpaPages |-> f[m]]
        BY <1>5
    <2> QED BY <2>4, <2>5
<1>6. at = walk
    BY <1>4, <1>5
<1>7. TpaChain = [m \in 1 .. Min({m \in 0 .. TpaPages : at[m] = NoPage} \cup {TpaPages}) |-> at[m - 1]]
    BY DEF TpaChain
<1> HIDE DEF at
<1>8. TpaChain = [m \in 1 .. Min(stops) |-> walk[m - 1]]
    <2> HIDE DEF walk
    <2> QED BY <1>6, <1>7 DEF NoPage
<1>9. Min(stops) = n
    <2> HIDE DEF walk
    <2>6. \A m \in 0 .. TpaPages : walk[m] = IF m < n THEN ord[m + 1] ELSE 0
        BY DEF walk
    <2>1. stops \in SUBSET Nat /\ stops # {}
        BY <1>1
    <2>2. Min(stops) \in stops /\ \A m \in stops : Min(stops) <= m
        <3> HIDE DEF stops
        <3> QED BY <2>1, MinIs
    <2>3. n \in stops
        BY <1>1, <2>6
    <2>4. ASSUME NEW m \in stops PROVE m >= n
        <3>1. m \in 0 .. TpaPages /\ (m = TpaPages \/ walk[m] = 0)
            BY <1>1
        <3>2. m < n => m + 1 \in 1 .. n /\ walk[m] = ord[m + 1]
            BY <1>1, <2>6, <3>1
        <3> QED BY <1>1, <3>1, <3>2
    <2> HIDE DEF stops
    <2>5. Min(stops) \in Nat /\ Min(stops) <= n /\ Min(stops) >= n
        BY <2>1, <2>2, <2>3, <2>4
    <2> QED BY <1>1, <2>5
<1>10. \A m \in 1 .. n : walk[m - 1] = ord[m]
    BY <1>1
<1> HIDE DEF walk, stops
<1>11. TpaChain = ord
    BY <1>2, <1>8, <1>9, <1>10
<1>12. ord \in Seq(TpaAddr) /\ Len(ord) = n /\ DOMAIN ord = 1 .. n
    <2>1. ord \in [1 .. n -> TpaAddr]
        BY DEF ListedAs
    <2> QED BY <1>1, <2>1
<1> QED BY <1>11, <1>12

LEMMA StartIdxIs ==
    ASSUME NEW n, NEW ord, NEW num, ListedAs(tpaPage, tpaFirst, n, ord, num), NEW k \in 1 .. n
    PROVE  StartIdx(k) = StartOf(num[k]) /\ TpaChain[k] = ord[k]
<1>1. TpaChain = ord
    BY TpaChainIs
<1>2. tpaPage[ord[k]].start = StartOf(num[k])
    BY DEF ListedAs
<1> QED BY <1>1, <1>2 DEF StartIdx

\* get_page_for_idx finds the page of an index, if there is one.
LEMMA PageFor ==
    ASSUME NEW n, NEW ord, NEW num, ListedAs(tpaPage, tpaFirst, n, ord, num), NEW idx \in TpaIndex
    PROVE  /\ GetPageForIdx(idx) \in {0} \cup DOMAIN tpaPage
           /\ GetPageForIdx(idx) # 0 => tpaPage[GetPageForIdx(idx)].start = StartFor(idx)
           /\ GetPageForIdx(idx) = 0 => \A a \in DOMAIN tpaPage : tpaPage[a].start # StartFor(idx)
<1> DEFINE stops == {k \in DOMAIN TpaChain : Covers(k, idx) \/ StartIdx(k) > idx}
           m == FirstPos(stops)
<1>1. DOMAIN TpaChain = 1 .. n /\ idx \in Nat /\ n \in Nat
    <2>1. DOMAIN TpaChain = 1 .. n
        BY TpaChainIs
    <2>2. n \in Nat
        BY DEF ListedAs
    <2>3. idx \in Nat
        BY PageOfIndex
    <2> QED BY <2>1, <2>2, <2>3
<1>2. \A k \in 1 .. n : /\ StartIdx(k) = StartOf(num[k]) /\ TpaChain[k] = ord[k]
                        /\ StartOf(num[k]) \in Nat /\ num[k] \in Nat
                        /\ tpaPage[ord[k]].start = StartOf(num[k]) /\ ord[k] \in DOMAIN tpaPage
    <2>1. \A k \in 1 .. n : StartIdx(k) = StartOf(num[k]) /\ TpaChain[k] = ord[k]
        BY StartIdxIs
    <2>2. \A k \in 1 .. n : StartOf(num[k]) \in Nat /\ num[k] \in Nat /\ ord[k] \in DOMAIN tpaPage
        BY ListedBounds
    <2>3. \A k \in 1 .. n : tpaPage[ord[k]].start = StartOf(num[k])
        BY DEF ListedAs
    <2> QED BY <2>1, <2>2, <2>3
<1>3. \A k \in 1 .. n : Covers(k, idx) <=> StartOf(num[k]) = StartFor(idx)
    <2> SUFFICES ASSUME NEW k \in 1 .. n PROVE Covers(k, idx) <=> StartOf(num[k]) = StartFor(idx)
        OBVIOUS
    <2>1. Covers(k, idx) <=> StartOf(num[k]) <= idx /\ idx < StartOf(num[k]) + EntriesPerPage
        BY <1>2 DEF Covers
    <2>2. ASSUME StartOf(num[k]) <= idx, idx < StartOf(num[k]) + EntriesPerPage
          PROVE  StartOf(num[k]) = StartFor(idx)
        <3>1. PICK q \in Nat : q = num[k]
            BY <1>2
        <3>2. StartOf(q) <= idx /\ idx < StartOf(q) + EntriesPerPage
            BY <2>2, <3>1
        <3>3. StartFor(idx) = StartOf(q)
            BY <1>1, <3>2, StartUnique
        <3> QED BY <3>1, <3>3
    <2>3. StartFor(idx) <= idx /\ idx < StartFor(idx) + EntriesPerPage
        BY <1>1, IndexIs
    <2> QED BY <2>1, <2>2, <2>3
<1>4. GetPageForIdx(idx) = IF m # 0 /\ Covers(m, idx) THEN TpaChain[m] ELSE 0
    BY DEF GetPageForIdx, NoPage
<1>5. \A a \in DOMAIN tpaPage : tpaPage[a].start = StartFor(idx) =>
          \E k \in 1 .. n : a = ord[k] /\ Covers(k, idx)
    BY <1>2, <1>3, ListedBounds
<1>6. CASE stops = {}
    <2>1. m = 0
        BY <1>6 DEF FirstPos
    <2>2. GetPageForIdx(idx) = 0
        BY <1>4, <2>1
    <2>3. \A k \in 1 .. n : ~Covers(k, idx)
        BY <1>1, <1>6
    <2> QED BY <1>5, <2>2, <2>3
<1>7. CASE stops # {}
    <2>1. stops \in SUBSET Nat /\ stops \subseteq 1 .. n
        BY <1>1
    <2>2. m = Min(stops)
        BY <1>7 DEF FirstPos
    <2> HIDE DEF m
    <2>3. m \in stops /\ \A k \in stops : m <= k
        <3> HIDE DEF stops
        <3> QED BY <1>7, <2>1, <2>2, MinIs
    <2>4. m \in 1 .. n /\ m \in Nat /\ m # 0
        BY <1>1, <2>1, <2>3
    <2>5. CASE Covers(m, idx)
        <3>1. GetPageForIdx(idx) = ord[m]
            BY <1>2, <1>4, <2>4, <2>5
        <3>2. ord[m] # 0 /\ tpaPage[ord[m]].start = StartFor(idx) /\ ord[m] \in DOMAIN tpaPage
            BY <1>2, <1>3, <2>4, <2>5, ListedBounds
        <3> QED BY <3>1, <3>2
    <2>6. CASE ~Covers(m, idx)
        <3>1. GetPageForIdx(idx) = 0
            BY <1>4, <2>6
        <3>2. StartOf(num[m]) > idx
            BY <1>2, <2>3, <2>4, <2>6
        <3>3. ASSUME NEW k \in 1 .. n, Covers(k, idx) PROVE FALSE
            <4>1. k \in stops
                BY <1>1, <3>3
            <4>2. m <= k /\ k # m
                BY <2>3, <2>6, <3>3, <4>1
            <4>3. m < k
                BY <1>1, <2>4, <4>2
            <4>4. StartOf(num[m]) + EntriesPerPage <= StartOf(num[k])
                BY <2>4, <4>3, ListedBounds
            <4>5. StartOf(num[k]) <= idx
                BY <1>2, <3>3 DEF Covers
            <4> QED BY <1>1, <1>2, <2>4, <3>2, <4>4, <4>5, StartOrder
        <3> QED BY <1>5, <3>1, <3>3
    <2> QED BY <2>5, <2>6
<1> QED BY <1>6, <1>7

-----------------------------------------------------------------------------
(* What the steps do to the pages *)

\* An entry of a page is written or cleared.
SlotSet(pages, a, s, v, pages2) ==
    /\ pages2 \in [DOMAIN pages -> TpaPageType] /\ DOMAIN pages2 = DOMAIN pages
    /\ \A b \in DOMAIN pages : /\ pages2[b].start = pages[b].start
                               /\ pages2[b].next = pages[b].next
                               /\ pages2[b].prev = pages[b].prev
                               /\ b # a => pages2[b].slots = pages[b].slots
    /\ pages2[a].slots[s] = v
    /\ \A t \in Slot : t # s => pages2[a].slots[t] = pages[a].slots[t]

LEMMA SlotFields ==
    ASSUME NEW pages, pages \in [DOMAIN pages -> TpaPageType], NEW a \in DOMAIN pages,
           NEW s \in Slot, NEW v \in TpaValues \cup {0}
    PROVE  SlotSet(pages, a, s, v, [pages EXCEPT ![a].slots[s] = v])
<1>0. PICK pages2 : pages2 = [pages EXCEPT ![a].slots[s] = v]
    OBVIOUS
<1> DEFINE slots == [pages[a].slots EXCEPT ![s] = v]
           page == [pages[a] EXCEPT !.slots = slots]
<1>1. pages[a] \in TpaPageType /\ pages[a].slots \in [Slot -> TpaValues \cup {0}]
    BY DEF TpaPageType
<1>2. /\ slots \in [Slot -> TpaValues \cup {0}] /\ slots[s] = v
      /\ \A t \in Slot : t # s => slots[t] = pages[a].slots[t]
    BY <1>1
<1>3. pages2 = [pages EXCEPT ![a] = page]
    BY <1>0, Zenon
<1> HIDE DEF slots
<1>4. /\ page \in TpaPageType /\ page.slots = slots /\ page.start = pages[a].start
      /\ page.next = pages[a].next /\ page.prev = pages[a].prev
    BY <1>1, <1>2 DEF TpaPageType
<1> HIDE DEF page
<1>5. /\ pages2 \in [DOMAIN pages -> TpaPageType] /\ DOMAIN pages2 = DOMAIN pages
      /\ pages2[a] = page /\ \A b \in DOMAIN pages : b # a => pages2[b] = pages[b]
    BY <1>3, <1>4
<1>6. SlotSet(pages, a, s, v, pages2)
    BY <1>2, <1>4, <1>5 DEF SlotSet
<1> QED BY <1>0, <1>6

LEMMA SlotListed ==
    ASSUME NEW pages, NEW first, NEW n, NEW ord, NEW num, ListedAs(pages, first, n, ord, num),
           NEW pages2, NEW a, NEW s, NEW v, SlotSet(pages, a, s, v, pages2)
    PROVE  ListedAs(pages2, first, n, ord, num)
<1>0. /\ pages2 \in [DOMAIN pages -> TpaPageType] /\ DOMAIN pages2 = DOMAIN pages
      /\ \A b \in DOMAIN pages : /\ pages2[b].start = pages[b].start
                                 /\ pages2[b].next = pages[b].next
                                 /\ pages2[b].prev = pages[b].prev
    BY DEF SlotSet
<1>1. DOMAIN pages2 = DOMAIN pages /\ \A k \in 1 .. n : ord[k] \in DOMAIN pages
    BY <1>0, ListedBounds
<1>2. \A k \in 1 .. n : /\ pages2[ord[k]].start = StartOf(num[k])
                        /\ pages2[ord[k]].next = IF k = n THEN 0 ELSE ord[k + 1]
                        /\ pages2[ord[k]].prev = 0 => k = 1
    BY <1>0, <1>1 DEF ListedAs
<1> QED BY <1>0, <1>1, <1>2 DEF ListedAs

\* The table with a value at an index, or without the index.
LEMMA SlotStored ==
    ASSUME NEW pages, NEW first, Listed(pages, first), NEW t, StoredIn(pages, t),
           NEW idx \in TpaIndex, NEW a \in DOMAIN pages, pages[a].start = StartFor(idx),
           NEW s \in Slot, s = idx - StartFor(idx), NEW v \in TpaValues \cup {0},
           NEW pages2, SlotSet(pages, a, s, v, pages2)
    PROVE  /\ v \in TpaValues =>
                StoredIn(pages2, [i \in DOMAIN t \cup {idx} |-> IF i = idx THEN v ELSE t[i]])
           /\ v = 0 => StoredIn(pages2, [i \in DOMAIN t \ {idx} |-> t[i]])
<1>0. PICK n, ord, num : ListedAs(pages, first, n, ord, num)
    BY DEF Listed
<1>1. s = idx - StartFor(idx)
    OBVIOUS
<1>2. idx \in Nat /\ StartFor(idx) \in Nat /\ s \in Nat /\ idx = StartFor(idx) + s
    <2>1. idx \in Nat /\ StartFor(idx) \in Nat
        BY PageOfIndex, IndexIs
    <2>2. s \in Nat
        BY StartOrder DEF Slot
    <2> QED BY <1>1, <2>1, <2>2
<1>3. pages \in [DOMAIN pages -> TpaPageType]
    BY <1>0 DEF ListedAs
<1>4. /\ DOMAIN pages2 = DOMAIN pages
      /\ \A b \in DOMAIN pages : pages2[b].start = pages[b].start
                                 /\ (b # a => pages2[b].slots = pages[b].slots)
      /\ pages2[a].slots[s] = v
      /\ \A r \in Slot : r # s => pages2[a].slots[r] = pages[a].slots[r]
    BY DEF SlotSet
\* an entry other than the one at idx
<1>5. ASSUME NEW b \in DOMAIN pages, NEW r \in Slot, b # a \/ r # s
      PROVE  /\ pages2[b].slots[r] = pages[b].slots[r]
             /\ pages[b].start + r # idx
    <2>1. pages2[b].slots[r] = pages[b].slots[r]
        BY <1>4, <1>5
    <2>2. PICK k \in 1 .. n : b = ord[k]
        BY <1>0, ListedBounds
    <2>3. PICK m \in 0 .. TpaPages - 1 : pages[b].start = StartOf(m)
        BY <1>0, <2>2 DEF ListedAs
    <2>4. StartFor(StartOf(m) + r) = StartOf(m) /\ r \in Nat /\ StartOf(m) \in Nat
        BY IndexOfPage
    <2>5. ASSUME StartOf(m) + r = idx PROVE FALSE
        <3>1. StartFor(idx) = StartOf(m)
            BY <2>4, <2>5
        <3>2. r = s
            BY <1>2, <2>4, <2>5, <3>1
        <3>3. pages[b].start = pages[a].start
            BY <2>3, <3>1
        <3>4. b = a
            BY <1>0, <3>3, StartsDiffer, Zenon
        <3> QED BY <1>5, <3>2, <3>4
    <2> QED BY <2>1, <2>3, <2>5
\* an index other than idx
<1>6. ASSUME NEW i \in DOMAIN t, i # idx
      PROVE  \E b \in DOMAIN pages2 : /\ pages2[b].start = StartFor(i)
                                      /\ pages2[b].slots[i - StartFor(i)] = t[i]
    <2>1. PICK b \in DOMAIN pages : pages[b].start = StartFor(i) /\ pages[b].slots[i - StartFor(i)] = t[i]
        BY DEF StoredIn
    <2>2. i \in Nat
        BY PageOfIndex DEF StoredIn
    <2>3. PICK r \in Slot : r = i - StartFor(i)
        BY <2>2, IndexIs
    <2>4. b # a \/ r # s
        <3>1. StartFor(i) \in Nat
            BY <2>2, IndexIs
        <3> QED BY <1>1, <1>2, <1>6, <2>1, <2>2, <2>3, <3>1
    <2>5. pages2[b].slots[r] = pages[b].slots[r]
        BY <1>5, <2>4
    <2> QED BY <1>4, <2>1, <2>3, <2>5
<1>7. ASSUME v \in TpaValues
      PROVE  StoredIn(pages2, [i \in DOMAIN t \cup {idx} |-> IF i = idx THEN v ELSE t[i]])
    <2> DEFINE t2 == [i \in DOMAIN t \cup {idx} |-> IF i = idx THEN v ELSE t[i]]
    <2>1. /\ DOMAIN t2 = DOMAIN t \cup {idx} /\ t2[idx] = v
          /\ \A i \in DOMAIN t : i # idx => t2[i] = t[i]
          /\ t2 = [i \in DOMAIN t2 |-> t2[i]]
        OBVIOUS
    <2> HIDE DEF t2
    <2>2. ASSUME NEW b \in DOMAIN pages2, NEW r \in Slot, pages2[b].slots[r] # 0
          PROVE  pages2[b].start + r \in DOMAIN t2 /\ t2[pages2[b].start + r] = pages2[b].slots[r]
        <3>1. CASE b = a /\ r = s
            <4>1. pages2[b].start + r = idx
                BY <1>2, <1>4, <3>1
            <4> QED BY <1>4, <2>1, <3>1, <4>1
        <3>2. CASE b # a \/ r # s
            <4>1. pages2[b].slots[r] = pages[b].slots[r] /\ pages[b].start + r # idx
                BY <1>4, <1>5, <3>2
            <4>2. pages[b].start + r \in DOMAIN t /\ t[pages[b].start + r] = pages[b].slots[r]
                BY <1>4, <2>2, <4>1 DEF StoredIn
            <4> QED BY <1>4, <2>1, <4>1, <4>2
        <3> QED BY <3>1, <3>2
    <2>3. ASSUME NEW i \in DOMAIN t2
          PROVE  /\ i \in TpaIndex /\ t2[i] \in TpaValues
                 /\ \E b \in DOMAIN pages2 : /\ pages2[b].start = StartFor(i)
                                             /\ pages2[b].slots[i - StartFor(i)] = t2[i]
        <3>1. CASE i = idx
            <4>1. pages2[a].start = StartFor(i) /\ pages2[a].slots[i - StartFor(i)] = t2[i]
                BY <1>1, <1>4, <2>1, <3>1
            <4> QED BY <1>4, <1>7, <2>1, <3>1, <4>1
        <3>2. CASE i # idx
            <4>1. i \in DOMAIN t /\ t2[i] = t[i]
                BY <2>1, <3>2
            <4>2. i \in TpaIndex /\ t[i] \in TpaValues
                BY <4>1 DEF StoredIn
            <4> QED BY <1>6, <3>2, <4>1, <4>2
        <3> QED BY <3>1, <3>2
    <2>4. StoredIn(pages2, t2)
        BY <2>1, <2>2, <2>3 DEF StoredIn
    <2> QED BY <2>4 DEF t2
<1>8. ASSUME v = 0
      PROVE  StoredIn(pages2, [i \in DOMAIN t \ {idx} |-> t[i]])
    <2> DEFINE t2 == [i \in DOMAIN t \ {idx} |-> t[i]]
    <2>1. /\ DOMAIN t2 = DOMAIN t \ {idx} /\ \A i \in DOMAIN t : i # idx => t2[i] = t[i]
          /\ t2 = [i \in DOMAIN t2 |-> t2[i]]
        OBVIOUS
    <2> HIDE DEF t2
    <2>2. ASSUME NEW b \in DOMAIN pages2, NEW r \in Slot, pages2[b].slots[r] # 0
          PROVE  pages2[b].start + r \in DOMAIN t2 /\ t2[pages2[b].start + r] = pages2[b].slots[r]
        <3>1. b # a \/ r # s
            BY <1>4, <1>8, <2>2
        <3>2. pages2[b].slots[r] = pages[b].slots[r] /\ pages[b].start + r # idx
            BY <1>4, <1>5, <3>1
        <3>3. pages[b].start + r \in DOMAIN t /\ t[pages[b].start + r] = pages[b].slots[r]
            BY <1>4, <2>2, <3>2 DEF StoredIn
        <3> QED BY <1>4, <2>1, <3>2, <3>3
    <2>3. ASSUME NEW i \in DOMAIN t2
          PROVE  /\ i \in TpaIndex /\ t2[i] \in TpaValues
                 /\ \E b \in DOMAIN pages2 : /\ pages2[b].start = StartFor(i)
                                             /\ pages2[b].slots[i - StartFor(i)] = t2[i]
        <3>1. i \in DOMAIN t /\ i # idx /\ t2[i] = t[i]
            BY <2>1
        <3>2. i \in TpaIndex /\ t[i] \in TpaValues
            BY <3>1 DEF StoredIn
        <3> QED BY <1>6, <3>1, <3>2
    <2>4. StoredIn(pages2, t2)
        BY <2>1, <2>2, <2>3 DEF StoredIn
    <2> QED BY <2>4 DEF t2
<1> QED BY <1>7, <1>8

\* A page numbered m comes between the pages pp and pp + 1.
InsertedAt(pages, n, ord, num, new, m, pp, pages2) ==
    /\ new \in TpaAddr \ DOMAIN pages /\ m \in 0 .. TpaPages - 1 /\ pp \in 0 .. n
    /\ \A k \in 1 .. pp : num[k] < m
    /\ \A k \in pp + 1 .. n : m < num[k]
    /\ pages2 \in [DOMAIN pages \cup {new} -> TpaPageType]
    /\ pages2[new].start = StartOf(m)
    /\ pages2[new].next = IF pp = n THEN 0 ELSE ord[pp + 1]
    /\ pages2[new].prev = 0 => pp = 0
    /\ \A k \in 1 .. n : /\ pages2[ord[k]].start = pages[ord[k]].start
                         /\ pages2[ord[k]].next = IF k = pp THEN new ELSE pages[ord[k]].next
                         /\ pages2[ord[k]].prev = IF k = pp + 1 THEN new ELSE pages[ord[k]].prev

LEMMA InsertListed ==
    ASSUME NEW pages, NEW first, NEW n, NEW ord, NEW num, ListedAs(pages, first, n, ord, num),
           NEW new, NEW m, NEW pp, NEW pages2,
           InsertedAt(pages, n, ord, num, new, m, pp, pages2)
    PROVE  Listed(pages2, IF pp = 0 THEN new ELSE first)
<1> DEFINE Old(k) == IF k <= pp THEN k ELSE k - 1
           ord2 == [k \in 1 .. n + 1 |-> IF k = pp + 1 THEN new ELSE ord[Old(k)]]
           num2 == [k \in 1 .. n + 1 |-> IF k = pp + 1 THEN m ELSE num[Old(k)]]
<1>1. /\ n \in Nat /\ pp \in Nat /\ pp <= n /\ m \in Nat /\ TpaPages \in Nat
      /\ new \in TpaAddr /\ new \notin DOMAIN pages /\ new # 0 /\ m \in 0 .. TpaPages - 1
    BY StartOrder DEF ListedAs, InsertedAt, TpaAddr
<1>2. \A k \in 1 .. n : /\ ord[k] \in TpaAddr /\ ord[k] \in DOMAIN pages /\ ord[k] # new
                        /\ num[k] \in 0 .. TpaPages - 1 /\ num[k] \in Nat /\ ord[k] # 0
    <2>1. \A k \in 1 .. n : ord[k] \in TpaAddr /\ num[k] \in 0 .. TpaPages - 1
        BY DEF ListedAs
    <2>2. \A k \in 1 .. n : ord[k] \in DOMAIN pages /\ num[k] \in Nat /\ ord[k] # 0
        BY ListedBounds
    <2> QED BY <1>1, <2>1, <2>2
<1>3. \A k \in 1 .. n + 1 : k # pp + 1 => Old(k) \in 1 .. n
    BY <1>1
<1>4. /\ ord2 \in [1 .. n + 1 -> TpaAddr] /\ num2 \in [1 .. n + 1 -> 0 .. TpaPages - 1]
      /\ ord2[pp + 1] = new /\ num2[pp + 1] = m
      /\ \A k \in 1 .. n + 1 : k # pp + 1 => ord2[k] = ord[Old(k)] /\ num2[k] = num[Old(k)]
    <2>1. pp + 1 \in 1 .. n + 1
        BY <1>1
    <2> HIDE DEF Old
    <2> QED BY <1>1, <1>2, <1>3, <2>1
<1> HIDE DEF ord2, num2
<1>5. \A k, l \in 1 .. n + 1 : ord2[k] = ord2[l] => k = l
    <2> SUFFICES ASSUME NEW k \in 1 .. n + 1, NEW l \in 1 .. n + 1, ord2[k] = ord2[l] PROVE k = l
        OBVIOUS
    <2>1. CASE k = pp + 1 \/ l = pp + 1
        <3> HIDE DEF Old
        <3> QED BY <1>2, <1>3, <1>4, <2>1
    <2>2. CASE k # pp + 1 /\ l # pp + 1
        <3>1. ord[Old(k)] = ord[Old(l)] /\ Old(k) \in 1 .. n /\ Old(l) \in 1 .. n
            BY <1>3, <1>4, <2>2
        <3>2. Old(k) = Old(l)
            <4> HIDE DEF Old
            <4> QED BY <3>1 DEF ListedAs
        <3> QED BY <1>1, <2>2, <3>2
    <2> QED BY <2>1, <2>2
<1>6. \A k \in 1 .. n : \E l \in 1 .. n + 1 : l # pp + 1 /\ Old(l) = k
    <2> SUFFICES ASSUME NEW k \in 1 .. n PROVE \E l \in 1 .. n + 1 : l # pp + 1 /\ Old(l) = k
        OBVIOUS
    <2>1. CASE k <= pp
        BY <1>1, <2>1
    <2>2. CASE ~(k <= pp)
        <3>1. k + 1 \in 1 .. n + 1 /\ k + 1 # pp + 1 /\ Old(k + 1) = k
            BY <1>1, <2>2
        <3> QED BY <3>1
    <2> QED BY <2>1, <2>2
<1>7. pages2 \in [DOMAIN pages2 -> TpaPageType] /\ DOMAIN pages2 = DOMAIN pages \cup {new}
    BY DEF InsertedAt
<1>8. DOMAIN pages2 = {ord2[k] : k \in 1 .. n + 1}
    <2>1. DOMAIN pages = {ord[k] : k \in 1 .. n}
        BY DEF ListedAs
    <2>2. pp + 1 \in 1 .. n + 1
        BY <1>1
    <2> HIDE DEF Old
    <2>3. \A a \in DOMAIN pages2 : \E k \in 1 .. n + 1 : a = ord2[k]
        BY <1>4, <1>6, <1>7, <2>1, <2>2
    <2>4. \A k \in 1 .. n + 1 : ord2[k] \in DOMAIN pages2
        BY <1>2, <1>3, <1>4, <1>7
    <2> QED BY <2>3, <2>4
<1>9. (IF pp = 0 THEN new ELSE first) = ord2[1]
    <2>1. CASE pp = 0
        BY <1>4, <2>1
    <2>2. CASE pp # 0
        <3>1. 1 \in 1 .. n + 1 /\ 1 # pp + 1 /\ Old(1) = 1 /\ n # 0
            BY <1>1, <2>2
        <3>2. first = ord[1]
            BY <3>1 DEF ListedAs
        <3> HIDE DEF Old
        <3> QED BY <1>4, <2>2, <3>1, <3>2
    <2> QED BY <2>1, <2>2
<1>10. ASSUME NEW k \in 1 .. n + 1
       PROVE  /\ pages2[ord2[k]].start = StartOf(num2[k])
              /\ pages2[ord2[k]].next = IF k = n + 1 THEN 0 ELSE ord2[k + 1]
              /\ pages2[ord2[k]].prev = 0 => k = 1
    <2>1. CASE k = pp + 1
        <3>1. /\ pages2[new].start = StartOf(m) /\ (pages2[new].prev = 0 => pp = 0)
              /\ pages2[new].next = IF pp = n THEN 0 ELSE ord[pp + 1]
            BY DEF InsertedAt
        <3>2. pp # n => pp + 2 \in 1 .. n + 1 /\ pp + 2 # pp + 1 /\ Old(pp + 2) = pp + 1
            BY <1>1
        <3>3. pp # n => ord2[pp + 2] = ord[pp + 1]
            <4> HIDE DEF Old
            <4> QED BY <1>4, <3>2
        <3>4. k + 1 = pp + 2 /\ (k = n + 1 <=> pp = n) /\ (pp = 0 => k = 1)
            BY <1>1, <2>1
        <3> HIDE DEF Old
        <3> QED BY <1>4, <2>1, <3>1, <3>3, <3>4
    <2>2. CASE k # pp + 1
        <3>1. PICK j \in 1 .. n : j = Old(k)
            BY <1>3, <2>2
        <3>2. ord2[k] = ord[j] /\ num2[k] = num[j]
            <4> HIDE DEF Old
            <4> QED BY <1>4, <2>2, <3>1
        <3>3. /\ pages2[ord[j]].start = pages[ord[j]].start
              /\ pages2[ord[j]].next = IF j = pp THEN new ELSE pages[ord[j]].next
              /\ pages2[ord[j]].prev = IF j = pp + 1 THEN new ELSE pages[ord[j]].prev
            BY DEF InsertedAt
        <3>4. /\ pages[ord[j]].start = StartOf(num[j])
              /\ pages[ord[j]].next = IF j = n THEN 0 ELSE ord[j + 1]
              /\ pages[ord[j]].prev = 0 => j = 1
            BY DEF ListedAs
        <3>5. j = 1 /\ j # pp + 1 => k = 1
            BY <1>1, <2>2, <3>1
        <3>6. pages2[ord2[k]].next = IF k = n + 1 THEN 0 ELSE ord2[k + 1]
            <4>1. CASE j = pp
                <5>1. k = pp /\ k + 1 = pp + 1 /\ k # n + 1
                    BY <1>1, <2>2, <3>1, <4>1
                <5> QED BY <1>4, <3>2, <3>3, <4>1, <5>1
            <4>2. CASE j # pp
                <5>1. j = n <=> k = n + 1
                    BY <1>1, <2>2, <3>1, <4>2
                <5>2. k # n + 1 => k + 1 \in 1 .. n + 1 /\ k + 1 # pp + 1 /\ Old(k + 1) = j + 1
                    BY <1>1, <2>2, <3>1, <4>2
                <5>3. k # n + 1 => ord2[k + 1] = ord[j + 1]
                    <6> HIDE DEF Old
                    <6> QED BY <1>4, <5>2
                <5> QED BY <3>2, <3>3, <3>4, <4>2, <5>1, <5>3
            <4> QED BY <4>1, <4>2
        <3>7. pages2[ord2[k]].prev = 0 => k = 1
            BY <1>1, <3>2, <3>3, <3>4, <3>5
        <3> QED BY <3>2, <3>3, <3>4, <3>6, <3>7
    <2> QED BY <2>1, <2>2
<1>11. \A k, l \in 1 .. n + 1 : k <= l => l - k <= num2[l] - num2[k]
    <2> SUFFICES ASSUME NEW k \in 1 .. n + 1, NEW l \in 1 .. n + 1, k <= l
                 PROVE  l - k <= num2[l] - num2[k]
        OBVIOUS
    <2>1. \A i, j \in 1 .. n : i <= j => j - i <= num[j] - num[i]
        BY DEF ListedAs
    <2>2. (\A i \in 1 .. pp : num[i] < m) /\ (\A i \in pp + 1 .. n : m < num[i])
        BY DEF InsertedAt
    <2>3. CASE k = pp + 1 /\ l = pp + 1
        BY <1>1, <1>4, <2>3
    <2>4. CASE k = pp + 1 /\ l # pp + 1
        <3>1. l - 1 \in 1 .. n /\ l - 1 >= pp + 1 /\ pp + 1 \in 1 .. n /\ Old(l) = l - 1
            BY <1>1, <2>4
        <3>2. num2[l] = num[l - 1] /\ num2[k] = m
            <4> HIDE DEF Old
            <4> QED BY <1>4, <2>4, <3>1
        <3>3. (l - 1) - (pp + 1) <= num[l - 1] - num[pp + 1] /\ m < num[pp + 1]
            BY <1>1, <2>1, <2>2, <3>1
        <3> QED BY <1>1, <1>2, <2>4, <3>1, <3>2, <3>3
    <2>5. CASE k # pp + 1 /\ l = pp + 1
        <3>1. k \in 1 .. pp /\ pp \in 1 .. n /\ k \in 1 .. n /\ Old(k) = k
            BY <1>1, <2>5
        <3>2. num2[l] = m /\ num2[k] = num[k]
            <4> HIDE DEF Old
            <4> QED BY <1>4, <2>5, <3>1
        <3>3. pp - k <= num[pp] - num[k] /\ num[pp] < m
            BY <1>1, <2>1, <2>2, <3>1
        <3> QED BY <1>1, <1>2, <2>5, <3>1, <3>2, <3>3
    <2>6. CASE k # pp + 1 /\ l # pp + 1
        <3>1. PICK i \in 1 .. n, j \in 1 .. n : i = Old(k) /\ j = Old(l)
            BY <1>3, <2>6
        <3>2. num2[k] = num[i] /\ num2[l] = num[j]
            <4> HIDE DEF Old
            <4> QED BY <1>4, <2>6, <3>1
        <3>3. i <= j /\ j - i <= num[j] - num[i]
            <4>1. i <= j
                BY <1>1, <2>6, <3>1
            <4> HIDE DEF Old
            <4> QED BY <2>1, <4>1
        <3>4. CASE k <= pp /\ l > pp + 1
            <4>1. i = k /\ j = l - 1 /\ pp \in 1 .. n /\ pp + 1 \in 1 .. n /\ i <= pp /\ pp + 1 <= j
                BY <1>1, <3>1, <3>4
            <4>2. pp - i <= num[pp] - num[i] /\ j - (pp + 1) <= num[j] - num[pp + 1]
                BY <2>1, <4>1
            <4>3. num[pp] < m /\ m < num[pp + 1]
                BY <1>1, <2>2, <4>1
            <4> QED BY <1>1, <1>2, <3>2, <4>1, <4>2, <4>3
        <3>5. CASE ~(k <= pp /\ l > pp + 1)
            <4>1. l - k = j - i
                BY <1>1, <2>6, <3>1, <3>5
            <4> QED BY <3>2, <3>3, <4>1
        <3> QED BY <3>4, <3>5
    <2> QED BY <2>3, <2>4, <2>5, <2>6
<1>12. n + 1 \in Nat /\ n + 1 # 0
    BY <1>1
<1>13. ListedAs(pages2, IF pp = 0 THEN new ELSE first, n + 1, ord2, num2)
    BY <1>4, <1>5, <1>7, <1>8, <1>9, <1>10, <1>11, <1>12 DEF ListedAs
<1> QED BY <1>13 DEF Listed

\* Page kk leaves the list.
RemovedAt(pages, n, ord, kk, pages2) ==
    /\ kk \in 1 .. n
    /\ pages2 \in [DOMAIN pages \ {ord[kk]} -> TpaPageType]
    /\ \A k \in 1 .. n : k # kk =>
          /\ pages2[ord[k]].start = pages[ord[k]].start
          /\ pages2[ord[k]].next = IF k = kk - 1 THEN pages[ord[kk]].next ELSE pages[ord[k]].next
          /\ pages2[ord[k]].prev = pages[ord[k]].prev

LEMMA RemoveListed ==
    ASSUME NEW pages, NEW first, NEW n, NEW ord, NEW num, ListedAs(pages, first, n, ord, num),
           NEW kk, NEW pages2, RemovedAt(pages, n, ord, kk, pages2)
    PROVE  Listed(pages2, IF kk = 1 THEN pages[ord[kk]].next ELSE first)
<1> DEFINE Old(k) == IF k < kk THEN k ELSE k + 1
           ord2 == [k \in 1 .. n - 1 |-> ord[Old(k)]]
           num2 == [k \in 1 .. n - 1 |-> num[Old(k)]]
<1>1. n \in Nat /\ kk \in 1 .. n /\ kk \in Nat /\ n - 1 \in Nat
    BY DEF ListedAs, RemovedAt
<1>2. \A k \in 1 .. n : /\ ord[k] \in TpaAddr /\ ord[k] \in DOMAIN pages
                        /\ num[k] \in 0 .. TpaPages - 1 /\ num[k] \in Nat /\ ord[k] # 0
    <2>1. \A k \in 1 .. n : ord[k] \in TpaAddr /\ num[k] \in 0 .. TpaPages - 1
        BY DEF ListedAs
    <2>2. \A k \in 1 .. n : ord[k] \in DOMAIN pages /\ num[k] \in Nat /\ ord[k] # 0
        BY ListedBounds
    <2> QED BY <2>1, <2>2
<1>3. \A k \in 1 .. n - 1 : Old(k) \in 1 .. n /\ Old(k) # kk
    BY <1>1
<1>4. /\ ord2 \in [1 .. n - 1 -> TpaAddr] /\ num2 \in [1 .. n - 1 -> 0 .. TpaPages - 1]
      /\ \A k \in 1 .. n - 1 : ord2[k] = ord[Old(k)] /\ num2[k] = num[Old(k)]
    <2> HIDE DEF Old
    <2> QED BY <1>2, <1>3
<1> HIDE DEF ord2, num2
<1>5. \A k, l \in 1 .. n : ord[k] = ord[l] => k = l
    BY DEF ListedAs
<1>6. \A k, l \in 1 .. n - 1 : ord2[k] = ord2[l] => k = l
    <2> SUFFICES ASSUME NEW k \in 1 .. n - 1, NEW l \in 1 .. n - 1, ord2[k] = ord2[l] PROVE k = l
        OBVIOUS
    <2>1. Old(k) = Old(l)
        <3> HIDE DEF Old
        <3> QED BY <1>3, <1>4, <1>5
    <2> QED BY <1>1, <2>1
<1>7. \A k \in 1 .. n : k # kk => \E l \in 1 .. n - 1 : Old(l) = k
    <2> SUFFICES ASSUME NEW k \in 1 .. n, k # kk PROVE \E l \in 1 .. n - 1 : Old(l) = k
        OBVIOUS
    <2>1. CASE k < kk
        BY <1>1, <2>1
    <2>2. CASE ~(k < kk)
        <3>1. k - 1 \in 1 .. n - 1 /\ Old(k - 1) = k
            BY <1>1, <2>2
        <3> QED BY <3>1
    <2> QED BY <2>1, <2>2
<1>8. pages2 \in [DOMAIN pages2 -> TpaPageType] /\ DOMAIN pages2 = DOMAIN pages \ {ord[kk]}
    BY DEF RemovedAt
<1>9. DOMAIN pages2 = {ord2[k] : k \in 1 .. n - 1}
    <2>1. DOMAIN pages = {ord[k] : k \in 1 .. n}
        BY DEF ListedAs
    <2> HIDE DEF Old
    <2>2. \A a \in DOMAIN pages2 : \E k \in 1 .. n - 1 : a = ord2[k]
        BY <1>4, <1>7, <1>8, <2>1
    <2>3. \A k \in 1 .. n - 1 : ord2[k] \in DOMAIN pages2
        BY <1>1, <1>2, <1>3, <1>4, <1>5, <1>8
    <2> QED BY <2>2, <2>3
<1>10. /\ first = IF n = 0 THEN 0 ELSE ord[1]
       /\ \A k \in 1 .. n : /\ pages[ord[k]].start = StartOf(num[k])
                            /\ pages[ord[k]].next = IF k = n THEN 0 ELSE ord[k + 1]
                            /\ pages[ord[k]].prev = 0 => k = 1
    BY DEF ListedAs
<1>11. (IF kk = 1 THEN pages[ord[kk]].next ELSE first) = IF n - 1 = 0 THEN 0 ELSE ord2[1]
    <2>1. CASE n - 1 = 0
        <3>1. n = 1 /\ kk = 1
            BY <1>1, <2>1
        <3> QED BY <1>1, <1>10, <2>1, <3>1
    <2>2. CASE n - 1 # 0 /\ kk = 1
        <3>1. 1 \in 1 .. n - 1 /\ Old(1) = 2 /\ kk # n /\ kk + 1 = 2
            BY <1>1, <2>2
        <3>2. ord2[1] = ord[2]
            <4> HIDE DEF Old
            <4> QED BY <1>4, <3>1
        <3> QED BY <1>1, <1>10, <2>2, <3>1, <3>2
    <2>3. CASE n - 1 # 0 /\ kk # 1
        <3>1. 1 \in 1 .. n - 1 /\ Old(1) = 1 /\ n # 0
            BY <1>1, <2>3
        <3>2. ord2[1] = ord[1]
            <4> HIDE DEF Old
            <4> QED BY <1>4, <3>1
        <3> QED BY <1>10, <2>3, <3>1, <3>2
    <2> QED BY <2>1, <2>2, <2>3
<1>12. ASSUME NEW k \in 1 .. n - 1
       PROVE  /\ pages2[ord2[k]].start = StartOf(num2[k])
              /\ pages2[ord2[k]].next = IF k = n - 1 THEN 0 ELSE ord2[k + 1]
              /\ pages2[ord2[k]].prev = 0 => k = 1
    <2>1. PICK j \in 1 .. n : j = Old(k) /\ j # kk
        BY <1>3
    <2>2. ord2[k] = ord[j] /\ num2[k] = num[j]
        <3> HIDE DEF Old
        <3> QED BY <1>4, <2>1
    <2>3. /\ pages2[ord[j]].start = pages[ord[j]].start
          /\ pages2[ord[j]].next = IF j = kk - 1 THEN pages[ord[kk]].next ELSE pages[ord[j]].next
          /\ pages2[ord[j]].prev = pages[ord[j]].prev
        BY <2>1 DEF RemovedAt
    <2>4. j = 1 => k = 1
        BY <1>1, <2>1
    <2>5. pages2[ord2[k]].next = IF k = n - 1 THEN 0 ELSE ord2[k + 1]
        <3>1. CASE j = kk - 1
            <4>1. k = kk - 1 /\ (k = n - 1 <=> kk = n)
                BY <1>1, <2>1, <3>1
            <4>2. k # n - 1 => k + 1 \in 1 .. n - 1 /\ Old(k + 1) = kk + 1
                BY <1>1, <4>1
            <4>3. k # n - 1 => ord2[k + 1] = ord[kk + 1]
                <5> HIDE DEF Old
                <5> QED BY <1>4, <4>2
            <4>4. pages[ord[kk]].next = IF kk = n THEN 0 ELSE ord[kk + 1]
                BY <1>1, <1>10
            <4> QED BY <2>2, <2>3, <3>1, <4>1, <4>3, <4>4
        <3>2. CASE j # kk - 1
            <4>1. j = n <=> k = n - 1
                BY <1>1, <2>1, <3>2
            <4>2. k # n - 1 => k + 1 \in 1 .. n - 1 /\ Old(k + 1) = j + 1
                BY <1>1, <2>1, <3>2
            <4>3. k # n - 1 => ord2[k + 1] = ord[j + 1]
                <5> HIDE DEF Old
                <5> QED BY <1>4, <4>2
            <4> QED BY <1>10, <2>2, <2>3, <3>2, <4>1, <4>3
        <3> QED BY <3>1, <3>2
    <2> QED BY <1>10, <2>2, <2>3, <2>4, <2>5
<1>13. \A k, l \in 1 .. n - 1 : k <= l => l - k <= num2[l] - num2[k]
    <2> SUFFICES ASSUME NEW k \in 1 .. n - 1, NEW l \in 1 .. n - 1, k <= l
                 PROVE  l - k <= num2[l] - num2[k]
        OBVIOUS
    <2>1. PICK i \in 1 .. n, j \in 1 .. n : i = Old(k) /\ j = Old(l)
        BY <1>3
    <2>2. num2[k] = num[i] /\ num2[l] = num[j]
        <3> HIDE DEF Old
        <3> QED BY <1>4, <2>1
    <2>3. i <= j /\ l - k <= j - i
        BY <1>1, <2>1
    <2>4. j - i <= num[j] - num[i]
        BY <2>3 DEF ListedAs
    <2>5. i \in Nat /\ j \in Nat /\ k \in Nat /\ l \in Nat
        BY <1>1
    <2> QED BY <1>2, <2>2, <2>3, <2>4, <2>5
<1>14. ListedAs(pages2, IF kk = 1 THEN pages[ord[kk]].next ELSE first, n - 1, ord2, num2)
    BY <1>1, <1>4, <1>6, <1>8, <1>9, <1>11, <1>12, <1>13 DEF ListedAs
<1> QED BY <1>14 DEF Listed

-----------------------------------------------------------------------------
(* The steps of the code *)

LEMMA MaxIs ==
    ASSUME NEW n \in Nat, NEW T \in SUBSET (0 .. n), T # {}
    PROVE  Max(T) \in T /\ \A m \in T : m <= Max(T)
<1> DEFINE U == {n - m : m \in T}
<1>1. U \in SUBSET Nat /\ U # {}
    <2>1. \A m \in T : n - m \in Nat
        OBVIOUS
    <2>2. PICK m \in T : TRUE
        OBVIOUS
    <2>3. n - m \in U
        OBVIOUS
    <2> QED BY <2>1, <2>3
<1>2. PICK d \in U : \A c \in U : d <= c
    <2> HIDE DEF U
    <2> QED BY <1>1, LeastNumber
<1>3. PICK x \in T : d = n - x
    OBVIOUS
<1>4. \A m \in T : x >= m
    BY <1>2, <1>3
<1>5. \E y \in T : \A m \in T : y >= m
    BY <1>4
<1>6. Max(T) \in T /\ \A m \in T : Max(T) >= m
    BY <1>5 DEF Max
<1> QED BY <1>6

LEMMA NumberOrder ==
    ASSUME NEW m \in Nat, NEW n \in Nat
    PROVE  StartOf(m) < StartOf(n) <=> m < n
<1>1. /\ m < n => StartOf(m) + EntriesPerPage <= StartOf(n)
      /\ n < m => StartOf(n) + EntriesPerPage <= StartOf(m)
      /\ StartOf(m) \in Nat /\ StartOf(n) \in Nat /\ EntriesPerPage \in Nat /\ EntriesPerPage > 0
    BY StartOrder
<1>2. m = n \/ m < n \/ n < m
    OBVIOUS
<1> QED BY <1>1, <1>2

\* Where the loop of set() stops in front of the new page.
LEMMA InsertionPoint ==
    ASSUME NEW n, NEW ord, NEW num, ListedAs(tpaPage, tpaFirst, n, ord, num),
           NEW m \in Nat, NEW start, start = StartOf(m),
           \A a \in DOMAIN tpaPage : tpaPage[a].start # start
    PROVE  \E pp \in 0 .. n :
              /\ \A k \in 1 .. pp : num[k] < m
              /\ \A k \in pp + 1 .. n : m < num[k]
              /\ InsertPos(start) = IF n = 0 THEN 0 ELSE IF pp = 0 THEN 1 ELSE pp
              /\ InsertPos(start) # 0 => (StartIdx(InsertPos(start)) < start <=> pp # 0)
<1>1. TpaChain = ord /\ DOMAIN TpaChain = 1 .. n /\ Len(TpaChain) = n
    BY TpaChainIs
<1>2. n \in Nat /\ \A k \in 1 .. n : num[k] \in Nat /\ ord[k] \in DOMAIN tpaPage
    <2>1. n \in Nat
        BY DEF ListedAs
    <2> QED BY <2>1, ListedBounds
<1>3. \A k \in 1 .. n : StartIdx(k) < start <=> num[k] < m
    BY <1>2, StartIdxIs, NumberOrder
<1>4. \A k \in 1 .. n : num[k] # m
    <2>1. \A k \in 1 .. n : tpaPage[ord[k]].start = StartOf(num[k])
        BY DEF ListedAs
    <2> QED BY <1>2, <2>1
<1>5. \A k, l \in 1 .. n : k < l => num[k] < num[l]
    BY ListedBounds
<1>6. CASE n = 0
    <2>1. TpaChain = <<>>
        <3>1. ord \in [1 .. 0 -> TpaAddr]
            BY <1>6 DEF ListedAs
        <3>2. ord \in Seq(TpaAddr) /\ Len(ord) = 0
            BY <3>1
        <3> QED BY <1>1, <3>2
    <2>2. InsertPos(start) = 0
        BY <2>1 DEF InsertPos
    <2>3. 0 \in 0 .. n /\ 1 .. 0 = {} /\ 0 + 1 .. n = {}
        BY <1>6
    <2> QED BY <1>6, <2>2, <2>3
<1>7. CASE n # 0
    <2> DEFINE T == {k \in 1 .. n : \A j \in 2 .. k : StartIdx(j) < start}
               p == Max(T)
    <2>1. InsertPos(start) = p
        <3>1. TpaChain # <<>>
            BY <1>1, <1>7
        <3> QED BY <1>1, <3>1 DEF InsertPos
    <2>2. 1 \in T /\ T \in SUBSET (0 .. n)
        <3>1. 1 \in 1 .. n /\ 2 .. 1 = {} /\ 1 .. n \subseteq 0 .. n
            BY <1>2, <1>7
        <3> QED BY <3>1
    <2>3. p \in T /\ \A k \in T : k <= p
        <3>1. T # {} /\ T \in SUBSET (0 .. n)
            BY <2>2
        <3> HIDE DEF T
        <3> QED BY <1>2, <3>1, MaxIs
    <2> HIDE DEF p
    <2>4. p \in 1 .. n /\ p \in Nat /\ \A j \in 2 .. p : StartIdx(j) < start
        BY <1>2, <2>3
    <2>5. CASE StartIdx(p) < start
        <3>1. num[p] < m
            BY <1>3, <2>4, <2>5
        <3>2. ASSUME NEW k \in 1 .. p PROVE num[k] < m
            <4>1. k \in 1 .. n /\ (k = p \/ k < p)
                BY <1>2, <2>4
            <4>2. k < p => num[k] < num[p]
                BY <1>5, <2>4, <4>1
            <4>3. num[k] \in Nat /\ num[p] \in Nat
                BY <1>2, <2>4, <4>1
            <4> QED BY <3>1, <4>1, <4>2, <4>3
        <3>3. ASSUME NEW k \in p + 1 .. n PROVE m < num[k]
            <4>1. p + 1 \in 1 .. n /\ k \in 1 .. n /\ (k = p + 1 \/ p + 1 < k)
                BY <1>2, <2>4
            <4>2. p + 1 \notin T
                BY <2>3, <2>4
            <4>3. PICK j \in 2 .. p + 1 : ~(StartIdx(j) < start)
                BY <4>1, <4>2
            <4>4. j = p + 1
                BY <2>4, <4>3
            <4>5. ~(num[p + 1] < m) /\ num[p + 1] # m
                BY <1>3, <1>4, <4>1, <4>3, <4>4
            <4>6. num[p + 1] \in Nat /\ num[k] \in Nat
                BY <1>2, <4>1
            <4>7. p + 1 < k => num[p + 1] < num[k]
                BY <1>5, <4>1
            <4> QED BY <4>1, <4>5, <4>6, <4>7
        <3>4. p \in 0 .. n /\ p # 0
            BY <1>2, <2>4
        <3> QED BY <1>7, <2>1, <2>5, <3>2, <3>3, <3>4
    <2>6. CASE ~(StartIdx(p) < start)
        <3>1. p = 1
            BY <2>4, <2>6
        <3>2. ASSUME NEW k \in 0 + 1 .. n PROVE m < num[k]
            <4>1. k \in 1 .. n /\ 1 \in 1 .. n /\ (k = 1 \/ 1 < k)
                BY <1>2, <1>7
            <4>2. ~(num[1] < m) /\ num[1] # m /\ num[1] \in Nat /\ num[k] \in Nat
                BY <1>2, <1>3, <1>4, <2>6, <3>1, <4>1
            <4>3. 1 < k => num[1] < num[k]
                BY <1>5, <4>1
            <4> QED BY <4>1, <4>2, <4>3
        <3>3. 0 \in 0 .. n /\ \A k \in 1 .. 0 : num[k] < m
            BY <1>2
        <3> QED BY <1>7, <2>1, <2>6, <3>1, <3>2, <3>3
    <2> QED BY <2>5, <2>6
<1> QED BY <1>6, <1>7

\* set() links an empty page into the list.
LEMMA PageLinked ==
    ASSUME Listed(tpaPage, tpaFirst), NEW new \in TpaAddr \ DOMAIN tpaPage,
           NEW m \in 0 .. TpaPages - 1, NEW start, start = StartOf(m),
           \A a \in DOMAIN tpaPage : tpaPage[a].start # start
    PROVE  /\ Listed(Linked(new, start), FirstAfterLink(new, start))
           /\ DOMAIN Linked(new, start) = DOMAIN tpaPage \cup {new}
           /\ \A a \in DOMAIN tpaPage : /\ Linked(new, start)[a].start = tpaPage[a].start
                                        /\ Linked(new, start)[a].slots = tpaPage[a].slots
           /\ Linked(new, start)[new].start = start
           /\ \A s \in Slot : Linked(new, start)[new].slots[s] = 0
<1>1. PICK n, ord, num : ListedAs(tpaPage, tpaFirst, n, ord, num)
    BY DEF Listed
<1>2. PICK pp \in 0 .. n :
              /\ \A k \in 1 .. pp : num[k] < m
              /\ \A k \in pp + 1 .. n : m < num[k]
              /\ InsertPos(start) = IF n = 0 THEN 0 ELSE IF pp = 0 THEN 1 ELSE pp
              /\ InsertPos(start) # 0 => (StartIdx(InsertPos(start)) < start <=> pp # 0)
    <2>1. m \in Nat
        BY StartOrder
    <2> QED BY <1>1, <2>1, InsertionPoint
<1>3. /\ n \in Nat /\ pp \in Nat /\ pp <= n /\ start \in Nat /\ new \in Nat /\ new # 0
      /\ \A k \in 1 .. n : ord[k] \in DOMAIN tpaPage /\ ord[k] \in Nat /\ ord[k] # 0 /\ ord[k] # new
      /\ \A a \in DOMAIN tpaPage : tpaPage[a] \in TpaPageType
    <2>1. n \in Nat /\ \A a \in DOMAIN tpaPage : tpaPage[a] \in TpaPageType
        BY <1>1 DEF ListedAs
    <2>2. start \in Nat
        BY StartOrder
    <2>3. \A k \in 1 .. n : ord[k] \in DOMAIN tpaPage /\ ord[k] \in Nat /\ ord[k] # 0
        BY <1>1, ListedBounds
    <2>4. new \in Nat /\ new # 0
        BY StartOrder DEF TpaAddr
    <2> QED BY <2>1, <2>2, <2>3, <2>4
<1>4. /\ \A k \in 1 .. n : tpaPage[ord[k]].next = IF k = n THEN 0 ELSE ord[k + 1]
      /\ \A k, l \in 1 .. n : ord[k] = ord[l] => k = l
      /\ tpaFirst = IF n = 0 THEN 0 ELSE ord[1]
    BY <1>1 DEF ListedAs
<1>5. TpaChain = ord
    BY <1>1, TpaChainIs
<1> DEFINE pos == InsertPos(start)
           cur == TpaChain[pos]
           behind == pos # 0 /\ StartIdx(pos) < start
           follower == IF pos = 0 THEN NoPage ELSE IF behind THEN tpaPage[cur].next ELSE cur
           prev == IF pos = 0 THEN NoPage ELSE IF behind THEN cur ELSE tpaPage[cur].prev
           page == [start |-> start, slots |-> [s \in Slot |-> 0], next |-> follower, prev |-> prev]
           pages2 == Linked(new, start)
<1>6. pages2 = [a \in DOMAIN tpaPage \cup {new} |->
                   IF a = new THEN page
                   ELSE IF a = follower THEN [tpaPage[a] EXCEPT !.prev = new]
                   ELSE IF behind /\ a = cur THEN [tpaPage[a] EXCEPT !.next = new]
                   ELSE tpaPage[a]]
    BY DEF Linked
<1>7. behind <=> pp # 0
    BY <1>2, <1>3
<1>8. pp # 0 => pp \in 1 .. n /\ cur = ord[pp]
    BY <1>2, <1>3, <1>5
<1>9. follower = IF pp = n THEN 0 ELSE ord[pp + 1]
    <2>1. CASE n = 0
        BY <1>2, <1>3, <2>1 DEF NoPage
    <2>2. CASE n # 0 /\ pp = 0
        <3>1. pos = 1 /\ pp # n /\ pp + 1 = 1
            BY <1>2, <2>2
        <3> QED BY <1>5, <1>7, <2>2, <3>1
    <2>3. CASE pp # 0
        BY <1>4, <1>7, <1>8, <2>3
    <2> QED BY <2>1, <2>2, <2>3
<1>10. prev \in Nat /\ (prev = 0 => pp = 0)
    <2>1. CASE n = 0
        BY <1>2, <1>3, <2>1 DEF NoPage
    <2>2. CASE n # 0 /\ pp = 0
        <3>1. pos = 1 /\ 1 \in 1 .. n
            BY <1>2, <1>3, <2>2
        <3>2. prev = tpaPage[ord[1]].prev /\ ord[1] \in DOMAIN tpaPage
            BY <1>3, <1>5, <1>7, <2>2, <3>1
        <3>3. tpaPage[ord[1]].prev \in Nat
            BY <1>3, <3>2 DEF TpaPageType
        <3> QED BY <2>2, <3>2, <3>3
    <2>3. CASE pp # 0
        BY <1>3, <1>7, <1>8, <2>3
    <2> QED BY <2>1, <2>2, <2>3
<1>11. follower \in Nat /\ follower # new
    <2>1. pp # n => pp + 1 \in 1 .. n
        BY <1>3
    <2> QED BY <1>3, <1>9, <2>1
<1>12. /\ page \in TpaPageType /\ page.start = start /\ page.next = follower /\ page.prev = prev
       /\ \A s \in Slot : page.slots[s] = 0
    <2> HIDE DEF follower, prev
    <2> QED BY <1>3, <1>10, <1>11 DEF TpaPageType
<1> HIDE DEF page, follower, prev, behind, cur, pos, pages2
<1>13. DOMAIN pages2 = DOMAIN tpaPage \cup {new} /\ pages2[new] = page
    BY <1>6
<1>14. ASSUME NEW a \in DOMAIN tpaPage
       PROVE  /\ pages2[a] \in TpaPageType
              /\ pages2[a].start = tpaPage[a].start /\ pages2[a].slots = tpaPage[a].slots
              /\ pages2[a].prev = IF a = follower THEN new ELSE tpaPage[a].prev
              /\ pages2[a].next = IF a # follower /\ behind /\ a = cur THEN new ELSE tpaPage[a].next
    <2>1. pages2[a] = IF a = follower THEN [tpaPage[a] EXCEPT !.prev = new]
                      ELSE IF behind /\ a = cur THEN [tpaPage[a] EXCEPT !.next = new]
                      ELSE tpaPage[a]
        BY <1>6
    <2>2. tpaPage[a] \in TpaPageType /\ new \in Nat
        BY <1>3
    <2> QED BY <2>1, <2>2 DEF TpaPageType
<1>15. InsertedAt(tpaPage, n, ord, num, new, m, pp, pages2)
    <2>1. pages2 \in [DOMAIN tpaPage \cup {new} -> TpaPageType]
        <3>1. \A a \in DOMAIN pages2 : pages2[a] \in TpaPageType
            BY <1>12, <1>13, <1>14
        <3>2. pages2 = [a \in DOMAIN pages2 |-> pages2[a]]
            BY <1>6
        <3> QED BY <1>13, <3>1, <3>2
    <2>2. ASSUME NEW k \in 1 .. n
          PROVE  /\ pages2[ord[k]].start = tpaPage[ord[k]].start
                 /\ pages2[ord[k]].next = IF k = pp THEN new ELSE tpaPage[ord[k]].next
                 /\ pages2[ord[k]].prev = IF k = pp + 1 THEN new ELSE tpaPage[ord[k]].prev
        <3>1. ord[k] \in DOMAIN tpaPage
            BY <1>3
        <3>2. ord[k] = follower <=> k = pp + 1
            <4>1. pp # n => pp + 1 \in 1 .. n
                BY <1>3
            <4>2. pp = n => k # pp + 1
                BY <1>3
            <4> QED BY <1>3, <1>4, <1>9, <4>1, <4>2
        <3>3. behind /\ ord[k] = cur <=> k = pp
            BY <1>3, <1>4, <1>7, <1>8
        <3>4. ~(k = pp /\ k = pp + 1)
            BY <1>3
        <3> QED BY <1>14, <3>1, <3>2, <3>3, <3>4
    <2>3. /\ pages2[new].start = StartOf(m)
          /\ pages2[new].next = IF pp = n THEN 0 ELSE ord[pp + 1]
          /\ pages2[new].prev = 0 => pp = 0
        BY <1>9, <1>10, <1>12, <1>13
    <2> QED BY <1>2, <2>1, <2>2, <2>3 DEF InsertedAt
<1>16. Listed(pages2, IF pp = 0 THEN new ELSE tpaFirst)
    BY <1>1, <1>15, InsertListed
<1>17. FirstAfterLink(new, start) = IF pp = 0 THEN new ELSE tpaFirst
    BY <1>7 DEF FirstAfterLink, behind, pos
<1> QED BY <1>12, <1>13, <1>14, <1>16, <1>17 DEF pages2

With(t, idx, v) == [i \in DOMAIN t \cup {idx} |-> IF i = idx THEN v ELSE t[i]]

Without(t, idx) == [i \in DOMAIN t \ {idx} |-> t[i]]

SlotFor(pages, a, idx, s) ==
    a \in DOMAIN pages /\ pages[a].start = StartFor(idx) /\ s = idx - StartFor(idx) /\ s \in Slot

\* One entry written: the list is the same, the table has the entry.
LEMMA SlotStep ==
    ASSUME NEW pages, NEW first, Listed(pages, first), NEW t, StoredIn(pages, t),
           NEW idx \in TpaIndex, NEW a, NEW s, SlotFor(pages, a, idx, s),
           NEW v \in TpaValues \cup {0}, NEW pages2, SlotSet(pages, a, s, v, pages2)
    PROVE  /\ Listed(pages2, first)
           /\ v \in TpaValues => StoredIn(pages2, With(t, idx, v))
           /\ v = 0 => StoredIn(pages2, Without(t, idx))
<1>1. PICK n, ord, num : ListedAs(pages, first, n, ord, num)
    BY DEF Listed
<1>2. ListedAs(pages2, first, n, ord, num)
    BY <1>1, SlotListed, Zenon
<1>3. a \in DOMAIN pages /\ pages[a].start = StartFor(idx) /\ s = idx - StartFor(idx) /\ s \in Slot
    BY DEF SlotFor
<1>4. /\ v \in TpaValues =>
           StoredIn(pages2, [i \in DOMAIN t \cup {idx} |-> IF i = idx THEN v ELSE t[i]])
      /\ v = 0 => StoredIn(pages2, [i \in DOMAIN t \ {idx} |-> t[i]])
    BY <1>3, SlotStored
<1> QED BY <1>2, <1>4 DEF Listed, With, Without

LEMMA SlotWritten ==
    ASSUME NEW pages, NEW first, Listed(pages, first), NEW idx \in TpaIndex, NEW a, NEW s,
           SlotFor(pages, a, idx, s), NEW v \in TpaValues \cup {0}
    PROVE  SlotSet(pages, a, s, v, [pages EXCEPT ![a].slots[s] = v])
<1>1. pages \in [DOMAIN pages -> TpaPageType]
    BY DEF Listed, ListedAs
<1>2. a \in DOMAIN pages /\ s \in Slot
    BY DEF SlotFor
<1> QED BY <1>1, <1>2, SlotFields, Zenon

LEMMA SetInv ==
    ASSUME TpaInv, NEW idx \in TpaIndex, NEW value \in TpaValues, TpaSet(idx, value)
    PROVE  TpaInv'
<1>1. ~tpaWild /\ tpaWild' = FALSE
    BY DEF TpaSet, TpaInv
<1>2. Listed(tpaPage, tpaFirst) /\ StoredIn(tpaPage, tpaTable) /\ NoneEmpty(tpaPage)
    BY <1>1 DEF TpaInv
<1>3. PICK start, s, page : start = StartFor(idx) /\ s = idx - start /\ page = GetPageForIdx(idx)
    OBVIOUS
<1>4. /\ tpaTable' = [i \in DOMAIN tpaTable \cup {idx} |-> IF i = idx THEN value ELSE tpaTable[i]]
      /\ \/ /\ page # 0
            /\ tpaPage' = [tpaPage EXCEPT ![page].slots[s] = value]
            /\ tpaFirst' = tpaFirst
         \/ /\ page = 0
            /\ \E new \in TpaAddr \ DOMAIN tpaPage :
                  /\ tpaPage' = [Linked(new, start) EXCEPT ![new].slots[s] = value]
                  /\ tpaFirst' = FirstAfterLink(new, start)
    BY <1>3 DEF TpaSet, NoPage
<1>5. /\ page \in {0} \cup DOMAIN tpaPage
      /\ page # 0 => tpaPage[page].start = start
      /\ page = 0 => \A a \in DOMAIN tpaPage : tpaPage[a].start # start
    <2>1. PICK n, ord, num : ListedAs(tpaPage, tpaFirst, n, ord, num)
        BY <1>2 DEF Listed
    <2> QED BY <1>3, <2>1, PageFor
<1>6. value # 0 /\ value \in TpaValues \cup {0}
    BY TpaAssumption
<1>7. CASE page # 0
    <2>1. tpaPage' = [tpaPage EXCEPT ![page].slots[s] = value] /\ tpaFirst' = tpaFirst
        BY <1>4, <1>7
    <2>2. PICK pages2 : pages2 = [tpaPage EXCEPT ![page].slots[s] = value]
        OBVIOUS
    <2>3. page \in DOMAIN tpaPage /\ tpaPage[page].start = StartFor(idx) /\ s = idx - StartFor(idx)
        BY <1>3, <1>5, <1>7
    <2>4. /\ s \in Slot /\ SlotSet(tpaPage, page, s, value, pages2)
          /\ Listed(pages2, tpaFirst) /\ StoredIn(pages2, With(tpaTable, idx, value))
        <3>1. s \in Slot
            BY <2>3, PageOfIndex, IndexIs
        <3>2. SlotFor(tpaPage, page, idx, s)
            BY <2>3, <3>1 DEF SlotFor
        <3>3. SlotSet(tpaPage, page, s, value, [tpaPage EXCEPT ![page].slots[s] = value])
            BY <1>2, <1>6, <3>2, SlotWritten, Zenon
        <3>4. SlotSet(tpaPage, page, s, value, pages2)
            BY <2>2, <3>3, Zenon
        <3> QED BY <1>2, <1>6, <3>1, <3>2, <3>4, SlotStep
    <2>5. NoneEmpty(pages2)
        <3>1. /\ DOMAIN pages2 = DOMAIN tpaPage /\ pages2[page].slots[s] = value
              /\ \A b \in DOMAIN tpaPage : b # page => pages2[b].slots = tpaPage[b].slots
            BY <2>4 DEF SlotSet
        <3> QED BY <1>2, <1>6, <2>4, <3>1 DEF NoneEmpty
    <2>6. pages2 = tpaPage'
        BY <2>1, <2>2, Zenon
    <2>7. Listed(tpaPage', tpaFirst') /\ StoredIn(tpaPage', tpaTable') /\ NoneEmpty(tpaPage')
        BY <1>4, <2>1, <2>4, <2>5, <2>6, Zenon DEF With
    <2> QED BY <1>1, <2>7 DEF TpaInv
<1>8. CASE page = 0
    <2>1. PICK new \in TpaAddr \ DOMAIN tpaPage :
              /\ tpaPage' = [Linked(new, start) EXCEPT ![new].slots[s] = value]
              /\ tpaFirst' = FirstAfterLink(new, start)
        BY <1>4, <1>8
    <2>2. PICK m \in 0 .. TpaPages - 1 : start = StartOf(m)
        BY <1>3, PageOfIndex, IndexIs
    <2>3. PICK lk, first : lk = Linked(new, start) /\ first = FirstAfterLink(new, start)
        OBVIOUS
    <2>4. /\ Listed(lk, first) /\ DOMAIN lk = DOMAIN tpaPage \cup {new}
          /\ \A a \in DOMAIN tpaPage : /\ lk[a].start = tpaPage[a].start
                                       /\ lk[a].slots = tpaPage[a].slots
          /\ lk[new].start = start
          /\ \A r \in Slot : lk[new].slots[r] = 0
        <3>1. \A a \in DOMAIN tpaPage : tpaPage[a].start # start
            BY <1>5, <1>8
        <3> QED BY <1>2, <2>2, <2>3, <3>1, PageLinked
    <2>5. StoredIn(lk, tpaTable)
        <3>1. \A a \in DOMAIN lk, r \in Slot : lk[a].slots[r] # 0 =>
                  /\ lk[a].start + r \in DOMAIN tpaTable
                  /\ tpaTable[lk[a].start + r] = lk[a].slots[r]
            BY <1>2, <2>4 DEF StoredIn
        <3>2. \A i \in DOMAIN tpaTable :
                  /\ i \in TpaIndex /\ tpaTable[i] \in TpaValues
                  /\ \E a \in DOMAIN lk : /\ lk[a].start = StartFor(i)
                                          /\ lk[a].slots[i - StartFor(i)] = tpaTable[i]
            BY <1>2, <2>4 DEF StoredIn
        <3> QED BY <1>2, <3>1, <3>2 DEF StoredIn
    <2>6. PICK pages2 : pages2 = [lk EXCEPT ![new].slots[s] = value]
        OBVIOUS
    <2>7. new \in DOMAIN lk /\ lk[new].start = StartFor(idx) /\ s = idx - StartFor(idx)
        BY <1>3, <2>4
    <2>8. /\ s \in Slot /\ SlotSet(lk, new, s, value, pages2)
          /\ Listed(pages2, first) /\ StoredIn(pages2, With(tpaTable, idx, value))
        <3>1. s \in Slot
            BY <2>7, PageOfIndex, IndexIs
        <3>2. SlotFor(lk, new, idx, s)
            BY <2>7, <3>1 DEF SlotFor
        <3>3. SlotSet(lk, new, s, value, [lk EXCEPT ![new].slots[s] = value])
            BY <1>6, <2>4, <3>2, SlotWritten, Zenon
        <3>4. SlotSet(lk, new, s, value, pages2)
            BY <2>6, <3>3, Zenon
        <3> QED BY <1>6, <2>4, <2>5, <3>1, <3>2, <3>4, SlotStep
    <2>9. NoneEmpty(pages2)
        <3>1. /\ DOMAIN pages2 = DOMAIN lk /\ pages2[new].slots[s] = value
              /\ \A b \in DOMAIN lk : b # new => pages2[b].slots = lk[b].slots
            BY <2>8 DEF SlotSet
        <3>2. \A b \in DOMAIN pages2 : b # new => b \in DOMAIN tpaPage /\ pages2[b].slots = tpaPage[b].slots
            BY <2>4, <3>1
        <3> QED BY <1>2, <1>6, <2>8, <3>1, <3>2 DEF NoneEmpty
    <2>10. pages2 = tpaPage' /\ first = tpaFirst'
        BY <2>1, <2>3, <2>6, Zenon
    <2>11. Listed(tpaPage', tpaFirst') /\ StoredIn(tpaPage', tpaTable') /\ NoneEmpty(tpaPage')
        BY <1>4, <2>8, <2>9, <2>10, Zenon DEF With
    <2> QED BY <1>1, <2>11 DEF TpaInv
<1> QED BY <1>7, <1>8

\* clean_page: the page is unlinked, or prev was wrong.
LEMMA CleanInv ==
    ASSUME NEW pages, Listed(pages, tpaFirst), NEW t, StoredIn(pages, t), NEW page \in DOMAIN pages,
           \A a \in DOMAIN pages : a # page => \E s \in Slot : pages[a].slots[s] # 0,
           \A s \in Slot : pages[page].slots[s] = 0,
           \A a \in DOMAIN pages : a \in DOMAIN tpaPage /\ tpaPage[a].next = pages[a].next,
           CleanPage(page, pages), tpaTable' = t
    PROVE  TpaInv'
<1>1. PICK n, ord, num : ListedAs(pages, tpaFirst, n, ord, num)
    BY DEF Listed
<1>2. PICK kk \in 1 .. n : page = ord[kk]
    BY <1>1, ListedBounds
<1>3. /\ n \in Nat /\ kk \in Nat /\ 0 \notin DOMAIN pages /\ pages \in [DOMAIN pages -> TpaPageType]
      /\ \A k \in 1 .. n : ord[k] \in DOMAIN pages /\ ord[k] \in Nat /\ ord[k] # 0
    <2>1. n \in Nat /\ pages \in [DOMAIN pages -> TpaPageType]
        BY <1>1 DEF ListedAs
    <2>2. 0 \notin DOMAIN pages
          /\ \A k \in 1 .. n : ord[k] \in DOMAIN pages /\ ord[k] \in Nat /\ ord[k] # 0
        BY <1>1, ListedBounds
    <2> QED BY <2>1, <2>2
<1>4. /\ \A k, l \in 1 .. n : ord[k] = ord[l] => k = l
      /\ \A k \in 1 .. n : /\ pages[ord[k]].next = IF k = n THEN 0 ELSE ord[k + 1]
                           /\ pages[ord[k]].prev = 0 => k = 1
      /\ DOMAIN pages = {ord[k] : k \in 1 .. n}
    BY <1>1 DEF ListedAs
<1>5. PICK prev, next : prev = pages[page].prev /\ next = pages[page].next
    OBVIOUS
<1>6. PICK rest : rest = [a \in DOMAIN pages \ {page} |->
                             IF a = prev THEN [pages[a] EXCEPT !.next = next] ELSE pages[a]]
    OBVIOUS
<1>7. /\ tpaPage' = rest
      /\ tpaFirst' = IF prev = 0 THEN next ELSE tpaFirst
      /\ tpaWild' = (prev # 0 /\ (prev \notin DOMAIN rest \/ tpaPage[prev].next # page))
    BY <1>5, <1>6 DEF CleanPage, NoPage
<1>8. /\ DOMAIN rest = DOMAIN pages \ {page}
      /\ \A a \in DOMAIN rest : /\ rest[a] \in TpaPageType
                                /\ rest[a].start = pages[a].start
                                /\ rest[a].slots = pages[a].slots
                                /\ rest[a].prev = pages[a].prev
                                /\ rest[a].next = IF a = prev THEN next ELSE pages[a].next
    <2>1. pages[page] \in TpaPageType /\ next \in Nat
        BY <1>3, <1>5 DEF TpaPageType
    <2>2. \A a \in DOMAIN pages \ {page} : pages[a] \in TpaPageType
        BY <1>3
    <2> QED BY <1>6, <2>1, <2>2 DEF TpaPageType
<1>9. tpaWild' \in BOOLEAN
    BY <1>7
<1>10. CASE tpaWild'
    BY <1>9, <1>10 DEF TpaInv
<1>11. CASE ~tpaWild'
    <2>1. prev = 0 \/ (prev \in DOMAIN rest /\ tpaPage[prev].next = page)
        BY <1>7, <1>11
    <2>2. prev = 0 => kk = 1
        BY <1>2, <1>4, <1>5
    <2>3. prev # 0 => kk # 1 /\ kk - 1 \in 1 .. n /\ prev = ord[kk - 1]
        <3> SUFFICES ASSUME prev # 0 PROVE kk # 1 /\ kk - 1 \in 1 .. n /\ prev = ord[kk - 1]
            OBVIOUS
        <3>1. prev \in DOMAIN pages /\ pages[prev].next = page
            BY <1>8, <2>1
        <3>2. PICK k \in 1 .. n : prev = ord[k]
            BY <1>4, <3>1
        <3>3. k # n /\ ord[k + 1] = ord[kk]
            BY <1>2, <1>3, <1>4, <3>1, <3>2
        <3>4. k + 1 \in 1 .. n
            BY <1>3, <3>3
        <3>5. k + 1 = kk
            BY <1>4, <3>3, <3>4
        <3>6. kk # 1 /\ kk - 1 = k
            BY <1>3, <3>5
        <3> QED BY <3>2, <3>6
    <2>4. RemovedAt(pages, n, ord, kk, rest)
        <3>1. rest \in [DOMAIN pages \ {ord[kk]} -> TpaPageType]
            <4>1. rest = [a \in DOMAIN rest |-> rest[a]]
                BY <1>6
            <4> QED BY <1>2, <1>8, <4>1
        <3>2. ASSUME NEW k \in 1 .. n, k # kk
              PROVE  /\ rest[ord[k]].start = pages[ord[k]].start
                     /\ rest[ord[k]].next = IF k = kk - 1 THEN pages[ord[kk]].next
                                            ELSE pages[ord[k]].next
                     /\ rest[ord[k]].prev = pages[ord[k]].prev
            <4>1. ord[k] \in DOMAIN rest
                BY <1>2, <1>3, <1>4, <1>8, <3>2
            <4>2. ord[k] = prev <=> k = kk - 1
                <5>1. CASE prev = 0
                    BY <1>3, <2>2, <5>1
                <5>2. CASE prev # 0
                    BY <1>4, <2>3, <5>2
                <5> QED BY <5>1, <5>2
            <4> QED BY <1>2, <1>5, <1>8, <4>1, <4>2
        <3> QED BY <3>1, <3>2 DEF RemovedAt
    <2>5. Listed(rest, IF kk = 1 THEN pages[ord[kk]].next ELSE tpaFirst)
        BY <1>1, <2>4, RemoveListed
    <2>6. tpaFirst' = IF kk = 1 THEN pages[ord[kk]].next ELSE tpaFirst
        BY <1>2, <1>5, <1>7, <2>2, <2>3
    <2>7. StoredIn(rest, t)
        <3>1. \A a \in DOMAIN rest, s \in Slot : rest[a].slots[s] # 0 =>
                  rest[a].start + s \in DOMAIN t /\ t[rest[a].start + s] = rest[a].slots[s]
            BY <1>8 DEF StoredIn
        <3>2. ASSUME NEW i \in DOMAIN t
              PROVE  /\ i \in TpaIndex /\ t[i] \in TpaValues
                     /\ \E a \in DOMAIN rest : /\ rest[a].start = StartFor(i)
                                               /\ rest[a].slots[i - StartFor(i)] = t[i]
            <4>1. i \in TpaIndex /\ t[i] \in TpaValues
                BY DEF StoredIn
            <4>2. PICK a \in DOMAIN pages :
                      pages[a].start = StartFor(i) /\ pages[a].slots[i - StartFor(i)] = t[i]
                BY DEF StoredIn
            <4>3. i - StartFor(i) \in Slot
                BY <4>1, PageOfIndex, IndexIs
            <4>4. a # page
                BY <4>1, <4>2, <4>3, TpaAssumption
            <4> QED BY <1>8, <4>1, <4>2, <4>4
        <3> QED BY <3>1, <3>2 DEF StoredIn
    <2>8. NoneEmpty(rest)
        BY <1>8 DEF NoneEmpty
    <2>9. Listed(tpaPage', tpaFirst') /\ StoredIn(tpaPage', tpaTable') /\ NoneEmpty(tpaPage')
        BY <1>7, <2>5, <2>6, <2>7, <2>8
    <2> QED BY <1>9, <2>9 DEF TpaInv
<1> QED BY <1>10, <1>11

LEMMA ClearInv ==
    ASSUME TpaInv, NEW idx \in TpaIndex, TpaClear(idx)
    PROVE  TpaInv'
<1>1. ~tpaWild
    BY DEF TpaClear
<1>2. Listed(tpaPage, tpaFirst) /\ StoredIn(tpaPage, tpaTable) /\ NoneEmpty(tpaPage)
    BY <1>1 DEF TpaInv
<1>3. PICK page, s, cleared : /\ page = GetPageForIdx(idx)
                              /\ s = idx - tpaPage[page].start
                              /\ cleared = [tpaPage EXCEPT ![page].slots[s] = 0]
    OBVIOUS
<1>4. /\ tpaTable' = [i \in DOMAIN tpaTable \ {idx} |-> tpaTable[i]]
      /\ IF page = 0 THEN UNCHANGED <<tpaPage, tpaFirst, tpaWild>>
         ELSE IF \E r \in Slot : cleared[page].slots[r] # 0
         THEN tpaPage' = cleared /\ UNCHANGED <<tpaFirst, tpaWild>>
         ELSE CleanPage(page, cleared)
    BY <1>3 DEF TpaClear, NoPage
<1>5. /\ page \in {0} \cup DOMAIN tpaPage
      /\ page # 0 => tpaPage[page].start = StartFor(idx)
      /\ page = 0 => \A a \in DOMAIN tpaPage : tpaPage[a].start # StartFor(idx)
    <2>1. PICK n, ord, num : ListedAs(tpaPage, tpaFirst, n, ord, num)
        BY <1>2 DEF Listed
    <2> QED BY <1>3, <2>1, PageFor
<1>6. CASE page = 0
    <2>1. idx \notin DOMAIN tpaTable
        BY <1>2, <1>5, <1>6 DEF StoredIn
    <2>2. tpaTable = [i \in DOMAIN tpaTable |-> tpaTable[i]]
        BY <1>2 DEF StoredIn
    <2>3. DOMAIN tpaTable \ {idx} = DOMAIN tpaTable
        BY <2>1
    <2>4. tpaTable' = tpaTable
        BY <1>4, <2>2, <2>3
    <2>5. tpaPage' = tpaPage /\ tpaFirst' = tpaFirst /\ tpaWild' = tpaWild
        BY <1>4, <1>6
    <2>6. Listed(tpaPage', tpaFirst') /\ StoredIn(tpaPage', tpaTable') /\ NoneEmpty(tpaPage')
        BY <1>2, <2>4, <2>5
    <2> QED BY <1>1, <2>5, <2>6 DEF TpaInv
<1>7. CASE page # 0
    <2>1. /\ page \in DOMAIN tpaPage /\ tpaPage[page].start = StartFor(idx)
          /\ s = idx - StartFor(idx) /\ 0 \in TpaValues \cup {0}
        BY <1>3, <1>5, <1>7
    <2>2. PICK t : t = [i \in DOMAIN tpaTable \ {idx} |-> tpaTable[i]]
        OBVIOUS
    <2>3. /\ SlotSet(tpaPage, page, s, 0, cleared)
          /\ Listed(cleared, tpaFirst) /\ StoredIn(cleared, Without(tpaTable, idx))
        <3>1. s \in Slot
            BY <2>1, PageOfIndex, IndexIs
        <3>2. SlotFor(tpaPage, page, idx, s)
            BY <2>1, <3>1 DEF SlotFor
        <3>3. SlotSet(tpaPage, page, s, 0, [tpaPage EXCEPT ![page].slots[s] = 0])
            BY <1>2, <2>1, <3>2, SlotWritten, Zenon
        <3>4. SlotSet(tpaPage, page, s, 0, cleared)
            BY <1>3, <3>3, Zenon
        <3> QED BY <1>2, <2>1, <3>2, <3>4, SlotStep
    <2>4. StoredIn(cleared, t) /\ tpaTable' = t
        BY <1>4, <2>2, <2>3, Zenon DEF Without
    <2>5. /\ DOMAIN cleared = DOMAIN tpaPage
          /\ \A a \in DOMAIN tpaPage : /\ cleared[a].next = tpaPage[a].next
                                       /\ a # page => cleared[a].slots = tpaPage[a].slots
        BY <2>3 DEF SlotSet
    <2>6. \A a \in DOMAIN cleared : a # page => \E r \in Slot : cleared[a].slots[r] # 0
        BY <1>2, <2>5 DEF NoneEmpty
    <2>7. CASE \E r \in Slot : cleared[page].slots[r] # 0
        <3>1. tpaPage' = cleared /\ tpaFirst' = tpaFirst /\ tpaWild' = tpaWild
            BY <1>4, <1>7, <2>7
        <3>2. NoneEmpty(cleared)
            BY <2>6, <2>7 DEF NoneEmpty
        <3>3. Listed(tpaPage', tpaFirst') /\ StoredIn(tpaPage', tpaTable') /\ NoneEmpty(tpaPage')
            BY <2>3, <2>4, <3>1, <3>2, Zenon
        <3> QED BY <1>1, <3>1, <3>3 DEF TpaInv
    <2>8. CASE ~\E r \in Slot : cleared[page].slots[r] # 0
        <3>1. CleanPage(page, cleared)
            BY <1>4, <1>7, <2>8
        <3>2. page \in DOMAIN cleared /\ \A r \in Slot : cleared[page].slots[r] = 0
            BY <2>1, <2>5, <2>8
        <3>3. \A a \in DOMAIN cleared : a \in DOMAIN tpaPage /\ tpaPage[a].next = cleared[a].next
            BY <2>5
        <3> QED BY <2>3, <2>4, <2>6, <3>1, <3>2, <3>3, CleanInv
    <2> QED BY <2>7, <2>8
<1> QED BY <1>6, <1>7

LEMMA NoPages ==
    ASSUME NEW pages, pages = <<>> \/ (DOMAIN pages = {} /\ pages = [a \in {} |-> pages[a]])
    PROVE  Listed(pages, 0) /\ StoredIn(pages, <<>>) /\ NoneEmpty(pages)
<1>1. DOMAIN pages = {} /\ pages \in [DOMAIN pages -> TpaPageType]
    <2>1. DOMAIN pages = {}
        OBVIOUS
    <2>2. pages = [a \in {} |-> pages[a]]
        <3>1. CASE pages = <<>>
            BY <3>1
        <3> QED BY <3>1
    <2> QED BY <2>1, <2>2
<1>2. NoneEmpty(pages)
    BY <1>1 DEF NoneEmpty
<1>3. StoredIn(pages, <<>>)
    <2>1. DOMAIN <<>> = {} /\ <<>> = [i \in DOMAIN <<>> |-> <<>>[i]]
        OBVIOUS
    <2> QED BY <1>1, <2>1 DEF StoredIn
<1>4. ListedAs(pages, 0, 0, <<>>, <<>>)
    <2>1. 1 .. 0 = {} /\ <<>> \in [{} -> TpaAddr] /\ <<>> \in [{} -> 0 .. TpaPages - 1] /\ 0 \in Nat
        OBVIOUS
    <2> QED BY <1>1, <2>1 DEF ListedAs
<1> QED BY <1>2, <1>3, <1>4 DEF Listed

LEMMA DestroyInv ==
    ASSUME TpaInv, TpaDestroy PROVE TpaInv'
<1>1. ~tpaWild /\ tpaWild' = tpaWild /\ tpaFirst' = 0 /\ tpaTable' = <<>>
    BY DEF TpaDestroy, NoPage
<1>2. PICK n, ord, num : ListedAs(tpaPage, tpaFirst, n, ord, num)
    BY <1>1 DEF TpaInv, Listed
<1>3. Range(TpaChain) = DOMAIN tpaPage
    <2>1. TpaChain = ord /\ DOMAIN ord = 1 .. n
        BY <1>2, TpaChainIs
    <2>2. DOMAIN tpaPage = {ord[k] : k \in 1 .. n}
        BY <1>2 DEF ListedAs
    <2> QED BY <2>1, <2>2 DEF Range
<1>4. tpaPage' = [a \in DOMAIN tpaPage \ Range(TpaChain) |-> tpaPage[a]]
    BY DEF TpaDestroy
<1>5. DOMAIN tpaPage' = {} /\ tpaPage' = [a \in {} |-> tpaPage'[a]]
    BY <1>3, <1>4
<1>6. Listed(tpaPage', 0) /\ StoredIn(tpaPage', <<>>) /\ NoneEmpty(tpaPage')
    BY <1>5, NoPages
<1>7. Listed(tpaPage', tpaFirst') /\ StoredIn(tpaPage', tpaTable') /\ NoneEmpty(tpaPage')
    BY <1>1, <1>6
<1> QED BY <1>1, <1>7 DEF TpaInv

LEMMA TpaAlways == TablesSpec => []TpaInv
<1>1. TablesInit => TpaInv
    <2> SUFFICES ASSUME TablesInit PROVE TpaInv
        OBVIOUS
    <2>1. tpaFirst = 0 /\ tpaPage = <<>> /\ tpaTable = <<>> /\ tpaWild = FALSE
        BY DEF TablesInit, TpaInit, NoPage
    <2> QED BY <2>1, NoPages DEF TpaInv
<1>2. TpaInv /\ [TablesNext]_tableVars => TpaInv'
    <2> SUFFICES ASSUME TpaInv, [TablesNext]_tableVars PROVE TpaInv'
        OBVIOUS
    <2>1. TpaStep \/ UNCHANGED tpaVars
        BY DEF TablesNext, tableVars
    <2>2. CASE UNCHANGED tpaVars
        <3>1. /\ tpaFirst' = tpaFirst /\ tpaPage' = tpaPage /\ tpaTable' = tpaTable
              /\ tpaWild' = tpaWild
            BY <2>2 DEF tpaVars
        <3> QED BY <3>1 DEF TpaInv
    <2>3. CASE TpaStep
        BY <2>3, SetInv, ClearInv, DestroyInv DEF TpaStep
    <2> QED BY <2>1, <2>2, <2>3
<1> QED BY <1>1, <1>2, PTL DEF TablesSpec, tableVars

-----------------------------------------------------------------------------
(* What the invariant says of the operations that look *)

\* The entries of the pages and the entries of the table.
LEMMA EntryAt ==
    ASSUME TpaInv, ~tpaWild, NEW n, NEW ord, NEW num, ListedAs(tpaPage, tpaFirst, n, ord, num)
    PROVE  /\ \A k \in 1 .. n, s \in Slot :
                  /\ tpaPage[ord[k]].slots[s] # 0 <=> StartOf(num[k]) + s \in DOMAIN tpaTable
                  /\ StartFor(StartOf(num[k]) + s) = StartOf(num[k])
           /\ \A i \in DOMAIN tpaTable :
                  /\ i \in TpaIndex /\ i \in Nat
                  /\ StartFor(i) \in Nat /\ StartFor(i) <= i /\ i < StartFor(i) + EntriesPerPage
                  /\ i - StartFor(i) \in Slot
                  /\ \E k \in 1 .. n : StartOf(num[k]) = StartFor(i)
           /\ \A k \in 1 .. n : \E s \in Slot : StartOf(num[k]) + s \in DOMAIN tpaTable
<1>1. StoredIn(tpaPage, tpaTable) /\ NoneEmpty(tpaPage)
    BY DEF TpaInv
<1>2. \A k \in 1 .. n : tpaPage[ord[k]].start = StartOf(num[k]) /\ num[k] \in 0 .. TpaPages - 1
    BY DEF ListedAs
<1>3. \A k \in 1 .. n : ord[k] \in DOMAIN tpaPage
    BY ListedBounds
<1>4. \A a \in DOMAIN tpaPage : \E k \in 1 .. n : a = ord[k]
    BY ListedBounds
<1>5. ASSUME NEW i \in DOMAIN tpaTable
      PROVE  /\ i \in TpaIndex /\ i \in Nat
             /\ StartFor(i) \in Nat /\ StartFor(i) <= i /\ i < StartFor(i) + EntriesPerPage
             /\ i - StartFor(i) \in Slot
             /\ \E k \in 1 .. n : /\ StartOf(num[k]) = StartFor(i)
                                  /\ tpaPage[ord[k]].slots[i - StartFor(i)] = tpaTable[i]
             /\ tpaTable[i] # 0
    <2>1. i \in TpaIndex /\ tpaTable[i] \in TpaValues
        BY <1>1 DEF StoredIn
    <2>2. PICK a \in DOMAIN tpaPage :
              tpaPage[a].start = StartFor(i) /\ tpaPage[a].slots[i - StartFor(i)] = tpaTable[i]
        BY <1>1 DEF StoredIn
    <2>3. i \in Nat
        BY <2>1, PageOfIndex
    <2>4. /\ StartFor(i) \in Nat /\ StartFor(i) <= i /\ i < StartFor(i) + EntriesPerPage
          /\ i - StartFor(i) \in Slot
        BY <2>3, IndexIs
    <2>5. tpaTable[i] # 0
        BY <2>1, TpaAssumption
    <2>6. \E k \in 1 .. n : /\ StartOf(num[k]) = StartFor(i)
                            /\ tpaPage[ord[k]].slots[i - StartFor(i)] = tpaTable[i]
        BY <1>2, <1>4, <2>2
    <2> QED BY <2>1, <2>3, <2>4, <2>5, <2>6
<1>6. ASSUME NEW k \in 1 .. n, NEW s \in Slot
      PROVE  /\ tpaPage[ord[k]].slots[s] # 0 <=> StartOf(num[k]) + s \in DOMAIN tpaTable
             /\ StartFor(StartOf(num[k]) + s) = StartOf(num[k])
    <2>1. PICK m \in 0 .. TpaPages - 1 : m = num[k]
        BY <1>2
    <2>2. PICK i : i = StartOf(m) + s
        OBVIOUS
    <2>3. StartFor(i) = StartOf(m) /\ i - StartFor(i) = s
        <3>1. StartOf(m) \in Nat /\ s \in Nat /\ StartFor(StartOf(m) + s) = StartOf(m)
            BY IndexOfPage
        <3> QED BY <2>2, <3>1
    <2>4. tpaPage[ord[k]].slots[s] # 0 => i \in DOMAIN tpaTable
        BY <1>1, <1>2, <1>3, <2>1, <2>2 DEF StoredIn
    <2>5. ASSUME i \in DOMAIN tpaTable PROVE tpaPage[ord[k]].slots[s] # 0
        <3>1. PICK l \in 1 .. n : /\ StartOf(num[l]) = StartFor(i)
                                  /\ tpaPage[ord[l]].slots[i - StartFor(i)] = tpaTable[i]
                                  /\ tpaTable[i] # 0
            BY <1>5, <2>5
        <3>2. tpaPage[ord[l]].start = tpaPage[ord[k]].start
            BY <1>2, <2>1, <2>3, <3>1
        <3>3. ord[l] = ord[k]
            BY <1>3, <3>2, StartsDiffer
        <3> QED BY <2>3, <3>1, <3>3
    <2> QED BY <2>1, <2>2, <2>3, <2>4, <2>5
<1>7. \A k \in 1 .. n : \E s \in Slot : StartOf(num[k]) + s \in DOMAIN tpaTable
    BY <1>1, <1>3, <1>6 DEF NoneEmpty
<1> QED BY <1>5, <1>6, <1>7

\* get() returns what was stored.
LEMMA GetIs ==
    ASSUME TpaInv, ~tpaWild, NEW idx \in TpaIndex
    PROVE  TpaGet(idx) = IF idx \in DOMAIN tpaTable THEN tpaTable[idx] ELSE 0
<1>1. PICK n, ord, num : ListedAs(tpaPage, tpaFirst, n, ord, num)
    BY DEF TpaInv, Listed
<1>2. StoredIn(tpaPage, tpaTable)
    BY DEF TpaInv
<1>3. PICK page : page = GetPageForIdx(idx)
    OBVIOUS
<1>4. /\ page \in {0} \cup DOMAIN tpaPage
      /\ page # 0 => tpaPage[page].start = StartFor(idx)
      /\ page = 0 => \A a \in DOMAIN tpaPage : tpaPage[a].start # StartFor(idx)
    BY <1>1, <1>3, PageFor
<1>5. TpaGet(idx) = IF page = 0 THEN 0 ELSE tpaPage[page].slots[idx - tpaPage[page].start]
    BY <1>3 DEF TpaGet, NoPage
<1>6. CASE page = 0
    <2>1. idx \notin DOMAIN tpaTable
        BY <1>2, <1>4, <1>6 DEF StoredIn
    <2> QED BY <1>5, <1>6, <2>1
<1>7. CASE page # 0
    <2>1. PICK s : s = idx - StartFor(idx)
        OBVIOUS
    <2>2. s \in Slot /\ StartFor(idx) + s = idx
        <3>1. idx \in Nat
            BY PageOfIndex
        <3>2. StartFor(idx) \in Nat /\ idx - StartFor(idx) \in Slot
            BY <3>1, IndexIs
        <3> QED BY <2>1, <3>1, <3>2
    <2>3. page \in DOMAIN tpaPage /\ tpaPage[page].start = StartFor(idx)
        BY <1>4, <1>7
    <2>4. TpaGet(idx) = tpaPage[page].slots[s]
        BY <1>5, <1>7, <2>1, <2>3
    <2>5. tpaPage[page].slots[s] # 0 =>
              idx \in DOMAIN tpaTable /\ tpaTable[idx] = tpaPage[page].slots[s]
        BY <1>2, <2>2, <2>3 DEF StoredIn
    <2>6. idx \in DOMAIN tpaTable => tpaPage[page].slots[s] = tpaTable[idx]
        <3> SUFFICES ASSUME idx \in DOMAIN tpaTable PROVE tpaPage[page].slots[s] = tpaTable[idx]
            OBVIOUS
        <3>1. PICK a \in DOMAIN tpaPage :
                  tpaPage[a].start = StartFor(idx) /\ tpaPage[a].slots[s] = tpaTable[idx]
            BY <1>2, <2>1 DEF StoredIn
        <3>2. tpaPage[a].start = tpaPage[page].start
            BY <2>3, <3>1
        <3>3. a = page
            BY <1>1, <2>3, <3>2, StartsDiffer
        <3> QED BY <3>1, <3>3
    <2> QED BY <2>4, <2>5, <2>6
<1> QED BY <1>6, <1>7

LEMMA ContentsAre ==
    ASSUME TpaInv, ~tpaWild
    PROVE  TpaContents = tpaTable
<1>1. StoredIn(tpaPage, tpaTable)
    BY DEF TpaInv
<1>2. tpaTable = [i \in DOMAIN tpaTable |-> tpaTable[i]]
    BY <1>1 DEF StoredIn
<1>3. \A i \in DOMAIN tpaTable : i \in TpaIndex /\ tpaTable[i] # 0
    BY <1>1, TpaAssumption DEF StoredIn
<1>4. \A i \in TpaIndex : TpaGet(i) = IF i \in DOMAIN tpaTable THEN tpaTable[i] ELSE 0
    BY GetIs
<1>5. {i \in TpaIndex : TpaGet(i) # 0} = DOMAIN tpaTable
    BY <1>3, <1>4
<1>6. \A i \in DOMAIN tpaTable : TpaGet(i) = tpaTable[i]
    BY <1>3, <1>4
<1>7. TpaContents = [i \in DOMAIN tpaTable |-> TpaGet(i)]
    BY <1>5 DEF TpaContents
<1> QED BY <1>2, <1>6, <1>7

\* entries() counts every entry of the table once.
LEMMA EntriesAre ==
    ASSUME TpaInv, ~tpaWild
    PROVE  TpaEntries = Cardinality(DOMAIN tpaTable)
<1>1. PICK n, ord, num : ListedAs(tpaPage, tpaFirst, n, ord, num)
    BY DEF TpaInv, Listed
<1> DEFINE E == {e \in (1 .. n) \X Slot : tpaPage[ord[e[1]]].slots[e[2]] # 0}
           f == [e \in E |-> StartOf(num[e[1]]) + e[2]]
<1>2. TpaEntries = Cardinality(E)
    <2>1. TpaChain = ord /\ DOMAIN TpaChain = 1 .. n
        BY <1>1, TpaChainIs
    <2> QED BY <2>1 DEF TpaEntries
<1>3. \A k \in 1 .. n, s \in Slot :
          /\ tpaPage[ord[k]].slots[s] # 0 <=> StartOf(num[k]) + s \in DOMAIN tpaTable
          /\ StartFor(StartOf(num[k]) + s) = StartOf(num[k])
    BY <1>1, EntryAt
<1>4. \A k \in 1 .. n : StartOf(num[k]) \in Nat /\ ord[k] \in DOMAIN tpaPage
    BY <1>1, ListedBounds
<1>5. \A s \in Slot : s \in Nat
    BY StartOrder DEF Slot
<1>6. ASSUME NEW e \in E
      PROVE  e[1] \in 1 .. n /\ e[2] \in Slot /\ e = <<e[1], e[2]>> /\ f[e] \in DOMAIN tpaTable
             /\ f[e] = StartOf(num[e[1]]) + e[2]
    BY <1>3
<1>7. ASSUME NEW e \in E, NEW d \in E, f[e] = f[d]
      PROVE  e = d
    <2>1. PICK k \in 1 .. n, s \in Slot : e = <<k, s>> /\ f[e] = StartOf(num[k]) + s
        BY <1>6
    <2>2. PICK l \in 1 .. n, r \in Slot : d = <<l, r>> /\ f[d] = StartOf(num[l]) + r
        BY <1>6, SMTT(30)
    <2>3. StartOf(num[k]) = StartFor(f[e]) /\ StartOf(num[l]) = StartFor(f[d])
        BY <1>3, <2>1, <2>2, SMTT(30)
    <2>4. StartOf(num[k]) = StartOf(num[l])
        BY <1>7, <2>3
    <2>5. s = r
        <3> HIDE DEF f
        <3> QED BY <1>4, <1>5, <1>7, <2>1, <2>2, <2>4
    <2>6. tpaPage[ord[k]].start = tpaPage[ord[l]].start
        <3>1. \A m \in 1 .. n : tpaPage[ord[m]].start = StartOf(num[m])
            BY <1>1 DEF ListedAs
        <3> HIDE DEF E, f
        <3> QED BY <2>4, <3>1
    <2>7. ord[k] = ord[l]
        BY <1>1, <1>4, <2>6, StartsDiffer
    <2>8. k = l
        BY <1>1, <2>7 DEF ListedAs
    <2> QED BY <2>1, <2>2, <2>5, <2>8
<1>8. ASSUME NEW i \in DOMAIN tpaTable PROVE \E e \in E : f[e] = i
    <2>1. /\ i \in Nat /\ StartFor(i) \in Nat /\ i - StartFor(i) \in Slot
          /\ \E k \in 1 .. n : StartOf(num[k]) = StartFor(i)
        BY <1>1, EntryAt
    <2>2. PICK k \in 1 .. n : StartOf(num[k]) = StartFor(i)
        BY <2>1
    <2>3. PICK s \in Slot : s = i - StartFor(i)
        BY <2>1
    <2>4. StartOf(num[k]) + s = i
        BY <2>1, <2>2, <2>3
    <2>5. tpaPage[ord[k]].slots[s] # 0
        BY <1>3, <2>4
    <2>6. <<k, s>> \in E /\ f[<<k, s>>] = i
        BY <2>4, <2>5
    <2> HIDE DEF E, f
    <2> QED BY <2>6
<1>9. f \in [E -> DOMAIN tpaTable]
    BY <1>6
<1> HIDE DEF E, f
<1>10. ExistsBijection(E, DOMAIN tpaTable)
    <2>1. DOMAIN f = E
        BY <1>9
    <2>2. IsInjective(f)
        BY <1>7, <2>1 DEF IsInjective
    <2>3. f \in Bijection(E, DOMAIN tpaTable)
        BY <1>8, <1>9, <2>2 DEF Bijection, Injection, Surjection
    <2> QED BY <2>3 DEF ExistsBijection
<1>11. ExistsBijection(DOMAIN tpaTable, E)
    BY <1>10, Fun_ExistsBijSymmetric
<1>12. IsFiniteSet(DOMAIN tpaTable)
    <2>1. TpaPages * EntriesPerPage - 1 \in Int
        BY StartOrder
    <2>2. IsFiniteSet(TpaIndex)
        BY <2>1, FS_Interval DEF TpaIndex
    <2>3. DOMAIN tpaTable \in SUBSET TpaIndex
        BY <1>1, EntryAt
    <2> QED BY <2>2, <2>3, FS_Subset
<1> QED BY <1>2, <1>11, <1>12, FS_Bijection

\* length() is the end of the page of the last entry.
LEMMA LengthIs ==
    ASSUME TpaInv, ~tpaWild
    PROVE  TpaLength = IF tpaTable = <<>> THEN -1
                       ELSE StartFor(Max(DOMAIN tpaTable)) + EntriesPerPage
<1>1. PICK n, ord, num : ListedAs(tpaPage, tpaFirst, n, ord, num)
    BY DEF TpaInv, Listed
<1>2. TpaChain = ord /\ DOMAIN TpaChain = 1 .. n /\ Len(TpaChain) = n /\ n \in Nat
    <2>1. TpaChain = ord /\ DOMAIN TpaChain = 1 .. n /\ Len(TpaChain) = n
        BY <1>1, TpaChainIs
    <2>2. n \in Nat
        BY <1>1 DEF ListedAs
    <2> QED BY <2>1, <2>2
<1>3. tpaTable = [i \in DOMAIN tpaTable |-> tpaTable[i]]
    BY DEF TpaInv, StoredIn
<1>4. CASE n = 0
    <2>1. TpaChain = <<>>
        <3>1. ord \in [1 .. n -> TpaAddr]
            BY <1>1 DEF ListedAs
        <3>2. 1 .. n = {}
            BY <1>4
        <3>3. ord = [k \in {} |-> ord[k]]
            BY <3>1, <3>2
        <3> QED BY <1>2, <3>3
    <2>2. DOMAIN tpaTable = {}
        <3>1. \A i \in DOMAIN tpaTable : \E k \in 1 .. n : StartOf(num[k]) = StartFor(i)
            BY <1>1, EntryAt
        <3> QED BY <1>4, <3>1
    <2>3. tpaTable = <<>>
        BY <1>3, <2>2
    <2> QED BY <2>1, <2>3 DEF TpaLength
<1>5. CASE n # 0
    <2>1. n \in 1 .. n /\ 1 \in 1 .. n
        BY <1>2, <1>5
    <2>2. TpaChain # <<>>
        BY <1>2, <2>1
    <2>3. TpaLength = StartOf(num[n]) + EntriesPerPage
        <3>1. StartIdx(n) = StartOf(num[n])
            BY <1>1, <2>1, StartIdxIs
        <3> QED BY <1>2, <2>2, <3>1 DEF TpaLength
    <2>4. PICK s \in Slot : StartOf(num[n]) + s \in DOMAIN tpaTable
        BY <1>1, <2>1, EntryAt
    <2>5. tpaTable # <<>>
        BY <2>4
    <2>6. PICK top : top = Max(DOMAIN tpaTable)
        OBVIOUS
    <2>7. top \in DOMAIN tpaTable /\ \A i \in DOMAIN tpaTable : i <= top
        <3>1. PICK b \in Nat : b = TpaPages * EntriesPerPage
            BY StartOrder
        <3>2. DOMAIN tpaTable \in SUBSET TpaIndex
            BY <1>1, EntryAt
        <3>3. TpaIndex \in SUBSET (0 .. b)
            BY <3>1 DEF TpaIndex
        <3>4. DOMAIN tpaTable \in SUBSET (0 .. b) /\ DOMAIN tpaTable # {}
            BY <2>4, <3>2, <3>3
        <3> QED BY <2>6, <3>4, MaxIs
    <2>8. /\ top \in Nat /\ StartFor(top) \in Nat /\ StartFor(top) <= top
          /\ top < StartFor(top) + EntriesPerPage
          /\ \E k \in 1 .. n : StartOf(num[k]) = StartFor(top)
        BY <1>1, <2>7, EntryAt
    <2>9. PICK k \in 1 .. n : StartOf(num[k]) = StartFor(top)
        BY <2>8
    <2>10. k = n
        <3>1. k < n => StartOf(num[k]) + EntriesPerPage <= StartOf(num[n])
            BY <1>1, <2>1, ListedBounds
        <3>2. StartOf(num[n]) \in Nat /\ s \in Nat /\ EntriesPerPage \in Nat
            <4>1. StartOf(num[n]) \in Nat
                BY <1>1, <2>1, ListedBounds
            <4> QED BY <4>1, StartOrder DEF Slot
        <3>3. StartOf(num[n]) + s <= top
            BY <2>4, <2>7
        <3> QED BY <1>2, <2>8, <2>9, <3>1, <3>2, <3>3
    <2> QED BY <2>3, <2>5, <2>6, <2>9, <2>10
<1> QED BY <1>4, <1>5

\* As long as no page is unlinked through a prev that is out of date, the list
\* of pages is the table the callers have stored (tpa.h: get, set, entries,
\* length, destroy).
THEOREM ListIsTable == TablesSpec => []TpaIsTable
<1>1. TpaInv => TpaIsTable
    <2> SUFFICES ASSUME TpaInv, ~tpaWild PROVE TpaIsTable
        BY DEF TpaIsTable
    <2>1. PICK n, ord, num : ListedAs(tpaPage, tpaFirst, n, ord, num)
        BY DEF TpaInv, Listed
    <2>2. TpaChain = ord /\ DOMAIN TpaChain = 1 .. n /\ Len(TpaChain) = n
        BY <2>1, TpaChainIs
    <2>3. Range(TpaChain) = DOMAIN tpaPage
        <3>1. DOMAIN tpaPage = {ord[k] : k \in 1 .. n}
            BY <2>1 DEF ListedAs
        <3> QED BY <2>2, <3>1 DEF Range
    <2>4. ASSUME NEW k \in 1 .. Len(TpaChain) - 1
          PROVE  StartIdx(k) < StartIdx(k + 1)
        <3>1. n \in Nat /\ EntriesPerPage \in Nat /\ EntriesPerPage > 0
            <4>1. n \in Nat
                BY <2>1 DEF ListedAs
            <4> QED BY <4>1, StartOrder
        <3>2. PICK l : l = k + 1
            OBVIOUS
        <3>3. k \in 1 .. n /\ l \in 1 .. n /\ k < l
            BY <2>2, <3>1, <3>2
        <3>4. StartIdx(k) = StartOf(num[k]) /\ StartIdx(l) = StartOf(num[l])
            BY <2>1, <3>3, StartIdxIs
        <3>5. /\ StartOf(num[k]) + EntriesPerPage <= StartOf(num[l])
              /\ StartOf(num[k]) \in Nat /\ StartOf(num[l]) \in Nat
            BY <2>1, <3>3, ListedBounds
        <3> QED BY <3>1, <3>2, <3>4, <3>5
    <2> QED BY <2>3, <2>4, ContentsAre, EntriesAre, LengthIs DEF TpaIsTable
<1> QED BY <1>1, TpaAlways, PTL

\* The first page looked at is the one of the entry in front.
LEMMA SeekIs ==
    ASSUME TpaInv, ~tpaWild, NEW n, NEW ord, NEW num, ListedAs(tpaPage, tpaFirst, n, ord, num),
           NEW i \in DOMAIN tpaTable, NEW kp \in 1 .. n, StartOf(num[kp]) = StartFor(i)
    PROVE  SeekPage(i + 1) = kp
<1> DEFINE stops == {k \in DOMAIN TpaChain : StartIdx(k) + EntriesPerPage >= i + 1}
<1>1. DOMAIN TpaChain = 1 .. n /\ n \in Nat
    <2>1. DOMAIN TpaChain = 1 .. n
        BY TpaChainIs
    <2> QED BY <2>1 DEF ListedAs
<1>2. /\ i \in Nat /\ StartFor(i) \in Nat /\ StartFor(i) <= i /\ i < StartFor(i) + EntriesPerPage
      /\ EntriesPerPage \in Nat
    BY EntryAt, StartOrder
<1>3. \A k \in 1 .. n : StartIdx(k) = StartOf(num[k]) /\ StartOf(num[k]) \in Nat
    <2>1. \A k \in 1 .. n : StartIdx(k) = StartOf(num[k])
        BY StartIdxIs
    <2>2. \A k \in 1 .. n : StartOf(num[k]) \in Nat
        BY ListedBounds
    <2> QED BY <2>1, <2>2
<1>4. \A k \in 1 .. n : k < kp => StartOf(num[k]) + EntriesPerPage <= StartOf(num[kp])
    BY ListedBounds
<1>5. kp \in stops
    BY <1>1, <1>2, <1>3
<1>6. \A k \in stops : k \in Nat /\ kp <= k
    <2> SUFFICES ASSUME NEW k \in stops PROVE k \in Nat /\ kp <= k
        OBVIOUS
    <2>1. k \in 1 .. n /\ StartIdx(k) + EntriesPerPage >= i + 1
        BY <1>1
    <2>2. StartIdx(k) = StartOf(num[k]) /\ StartOf(num[k]) \in Nat
        BY <1>3, <2>1
    <2>3. k < kp => StartOf(num[k]) + EntriesPerPage <= StartOf(num[kp])
        BY <1>4, <2>1
    <2> QED BY <1>1, <1>2, <2>1, <2>2, <2>3
<1>7. SeekPage(i + 1) = FirstPos(stops)
    BY DEF SeekPage
<1> HIDE DEF stops
<1>8. stops \in SUBSET Nat /\ stops # {}
    BY <1>5, <1>6
<1>9. Min(stops) \in stops /\ \A k \in stops : Min(stops) <= k
    BY <1>8, MinIs
<1>10. Min(stops) \in Nat /\ Min(stops) <= kp /\ kp <= Min(stops) /\ kp \in Nat
    BY <1>5, <1>6, <1>9
<1>11. Min(stops) = kp
    BY <1>10
<1> QED BY <1>7, <1>8, <1>11 DEF FirstPos

\* next(i + 1) from an entry i: what is found are the entries behind i.
LEMMA NextIs ==
    ASSUME TpaInv, ~tpaWild, NEW i \in DOMAIN tpaTable
    PROVE  LET later == {j \in DOMAIN tpaTable : j > i}
           IN  TpaNext(i + 1) = IF later = {} THEN 0 ELSE Min(later)
<1>1. PICK n, ord, num : ListedAs(tpaPage, tpaFirst, n, ord, num)
    BY DEF TpaInv, Listed
<1> DEFINE kp == SeekPage(i + 1)
<1>2. kp \in 1 .. n /\ StartOf(num[kp]) = StartFor(i)
    <2>1. PICK k \in 1 .. n : StartOf(num[k]) = StartFor(i)
        BY <1>1, EntryAt
    <2>2. kp = k
        BY <1>1, <2>1, SeekIs
    <2> QED BY <2>1, <2>2
<1> DEFINE later == {j \in DOMAIN tpaTable : j > i}
           from(k) == ScanFrom(i + 1, k)
           hits == Scanned(i + 1)
           found == {StartIdx(e[1]) + e[2] : e \in hits}
<1>3. TpaNext(i + 1) = IF found = {} THEN 0 ELSE Min(found)
    BY DEF TpaNext
<1>4. /\ \A k : from(k) = IF k > kp THEN 0
                          ELSE IF i + 1 < StartIdx(k) THEN EntriesPerPage
                          ELSE (i + 1) - StartIdx(k)
      /\ hits = {x \in (DOMAIN TpaChain) \X Slot :
                     /\ kp # 0
                     /\ x[1] >= kp
                     /\ x[2] >= from(x[1])
                     /\ tpaPage[TpaChain[x[1]]].slots[x[2]] # 0}
    BY DEF ScanFrom, Scanned
<1> HIDE DEF from, hits
<1> HIDE DEF kp
<1>5. DOMAIN TpaChain = 1 .. n /\ n \in Nat /\ kp \in Nat /\ kp # 0
    <2>1. DOMAIN TpaChain = 1 .. n
        BY <1>1, TpaChainIs
    <2>2. n \in Nat
        BY <1>1 DEF ListedAs
    <2> QED BY <1>2, <2>1, <2>2
<1>6. \A k \in 1 .. n : /\ StartIdx(k) = StartOf(num[k]) /\ TpaChain[k] = ord[k]
                        /\ StartOf(num[k]) \in Nat
    <2>1. \A k \in 1 .. n : StartIdx(k) = StartOf(num[k]) /\ TpaChain[k] = ord[k]
        BY <1>1, StartIdxIs
    <2>2. \A k \in 1 .. n : StartOf(num[k]) \in Nat
        BY <1>1, ListedBounds
    <2> QED BY <2>1, <2>2
<1>7. \A k, l \in 1 .. n : k < l => StartOf(num[k]) + EntriesPerPage <= StartOf(num[l])
    BY <1>1, ListedBounds
<1>8. /\ i \in Nat /\ StartFor(i) \in Nat /\ StartFor(i) <= i /\ i < StartFor(i) + EntriesPerPage
      /\ EntriesPerPage \in Nat
    BY <1>1, EntryAt, StartOrder
<1>9. \A k \in 1 .. n, s \in Slot :
          tpaPage[ord[k]].slots[s] # 0 <=> StartOf(num[k]) + s \in DOMAIN tpaTable
    BY <1>1, EntryAt
<1>10. \A s \in Slot : s \in Nat
    BY StartOrder DEF Slot
\* what counts for page k at entry s
<1>11. ASSUME NEW k \in 1 .. n, NEW s \in Slot
       PROVE  k >= kp /\ s >= from(k) => StartOf(num[k]) + s > i
    <2>1. k \in Nat /\ StartOf(num[k]) \in Nat /\ s \in Nat /\ StartIdx(k) = StartOf(num[k])
        BY <1>5, <1>6, <1>10
    <2>2. CASE k > kp
        <3>1. StartOf(num[kp]) + EntriesPerPage <= StartOf(num[k])
            BY <1>2, <1>7, <2>2
        <3> QED BY <1>2, <1>8, <2>1, <3>1
    <2>3. CASE k = kp
        <3>1. from(k) = i + 1 - StartFor(i)
            BY <1>2, <1>4, <1>5, <1>8, <2>1, <2>3
        <3> QED BY <1>2, <1>8, <2>1, <2>3, <3>1
    <2> QED BY <1>5, <2>1, <2>2, <2>3
<1>12. ASSUME NEW k \in 1 .. n, NEW s \in Slot, StartOf(num[k]) + s > i, s < EntriesPerPage
       PROVE  k >= kp /\ s >= from(k)
    <2>1. k \in Nat /\ StartOf(num[k]) \in Nat /\ s \in Nat /\ StartIdx(k) = StartOf(num[k])
        BY <1>5, <1>6, <1>10
    <2>2. ~(k < kp)
        <3>1. k < kp => StartOf(num[k]) + EntriesPerPage <= StartOf(num[kp])
            BY <1>2, <1>7
        <3> QED BY <1>2, <1>8, <1>12, <2>1, <3>1
    <2>3. CASE k > kp
        BY <1>4, <1>5, <1>10, <2>1, <2>3
    <2>4. CASE k = kp
        <3>1. from(k) = i + 1 - StartFor(i)
            BY <1>2, <1>4, <1>5, <1>8, <2>1, <2>4
        <3> QED BY <1>2, <1>8, <1>12, <2>1, <2>4, <3>1
    <2> QED BY <1>5, <2>1, <2>2, <2>3, <2>4
<1>13. ASSUME NEW j \in found PROVE j \in later
    <2>1. PICK e \in hits : j = StartIdx(e[1]) + e[2]
        OBVIOUS
    <2>2. PICK k \in 1 .. n, s \in Slot : /\ e = <<k, s>> /\ k >= kp /\ s >= from(k)
                                          /\ tpaPage[TpaChain[k]].slots[s] # 0
        BY <1>4, <1>5, <2>1
    <2>3. j = StartOf(num[k]) + s
        BY <1>6, <2>1, <2>2
    <2>4. j > i
        BY <1>11, <2>2, <2>3
    <2>5. j \in DOMAIN tpaTable
        BY <1>6, <1>9, <2>2, <2>3
    <2> QED BY <2>4, <2>5
<1>14. ASSUME NEW j \in later PROVE j \in found
    <2>1. j \in DOMAIN tpaTable /\ j > i
        OBVIOUS
    <2>2. /\ j \in Nat /\ StartFor(j) \in Nat /\ j - StartFor(j) \in Slot
          /\ j < StartFor(j) + EntriesPerPage
          /\ \E k \in 1 .. n : StartOf(num[k]) = StartFor(j)
        BY <1>1, <2>1, EntryAt
    <2>3. PICK k \in 1 .. n : StartOf(num[k]) = StartFor(j)
        BY <2>2
    <2>4. PICK s \in Slot : s = j - StartFor(j)
        BY <2>2
    <2>5. j = StartOf(num[k]) + s /\ s < EntriesPerPage
        BY <1>8, <2>2, <2>3, <2>4
    <2>6. k >= kp /\ s >= from(k)
        BY <1>12, <2>1, <2>5
    <2>7. tpaPage[TpaChain[k]].slots[s] # 0
        BY <1>6, <1>9, <2>1, <2>5
    <2>8. <<k, s>> \in hits
        BY <1>4, <1>5, <2>6, <2>7
    <2>9. StartIdx(k) + s = j
        BY <1>6, <2>5
    <2> QED BY <2>8, <2>9
<1>15. found = later
    BY <1>13, <1>14
<1> HIDE DEF found
<1> QED BY <1>3, <1>15

\* As long as no page is unlinked through a prev that is out of date, a caller
\* that goes on with next(i + 1) from every entry it finds misses none.
THEOREM IterationIsComplete == TablesSpec => []IterationFindsAll
<1>1. TpaInv => IterationFindsAll
    <2> SUFFICES ASSUME TpaInv, ~tpaWild PROVE IterationFindsAll
        BY DEF IterationFindsAll
    <2>1. \A i \in DOMAIN tpaTable :
              LET later == {j \in DOMAIN tpaTable : j > i}
              IN  TpaNext(i + 1) = IF later = {} THEN 0 ELSE Min(later)
        BY NextIs
    <2> QED BY <2>1 DEF IterationFindsAll
<1> QED BY <1>1, TpaAlways, PTL

=============================================================================
