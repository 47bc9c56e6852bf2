-------------------------- MODULE VirtualMemoryProofs -------------------------
(****************************************************************************)
(* Proofs about physical pages, page tables, the kernel heap and the memory *)
(* of processes.  An operation of the kernel is a sequence of steps on one  *)
(* memory, each of which may fail; a memory that has failed stays so, and   *)
(* says nothing any more.                                                   *)
(****************************************************************************)
EXTENDS MemoryProofs

-----------------------------------------------------------------------------
(* Memories *)

Places == Nat \X Nat

Maps == UNION {[D -> Int] : D \in SUBSET (Places)}

Entries == [start : Int, count : Int]

States == {"ok", "oom", "wild", "null", "early", "hung"}

Memories == [list : Seq(Entries), open : BOOLEAN, map : Maps, tab : Maps, got : Int, state : States]

HasTable(m, c, t) == <<c, t>> \in DOMAIN m.tab

\* Pages that are mapped have a table.
Tabled(m) == \A x \in DOMAIN m.map : HasTable(m, x[1], x[2] \div Span)

\* The list: ranges of usable memory that do not overlap, and unused entries.
ListSound(m) ==
    /\ RegionsApart
    /\ \A i \in DOMAIN m.list : /\ m.list[i] \in [start : Nat, count : Nat]
                                /\ PagesOf(m.list[i]) \subseteq RamPages
                                /\ m.list[i].count = 0 => m.list[i] = UnusedEntry
    /\ \A i, j \in DOMAIN m.list : i # j => PagesOf(m.list[i]) \cap PagesOf(m.list[j]) = {}

Mapped(m) == {x \in DOMAIN m.map : m.map[x] \in RamPages /\ ~ShowsIopb(x[1], x[2])}

\* Pages are mapped, hold tables, or are of X, but never two of these, and
\* they are not free.
Owned(m, X) ==
    /\ \A x, y \in Mapped(m) : m.map[x] = m.map[y] => x = y
    /\ \A x, y \in DOMAIN m.tab : m.tab[x] = m.tab[y] => x = y
    /\ \A x \in Mapped(m), y \in DOMAIN m.tab : m.map[x] # m.tab[y]
    /\ \A x \in Mapped(m) : m.map[x] \notin FreePages(m) /\ m.map[x] \notin X
    /\ \A y \in DOMAIN m.tab : /\ m.tab[y] \in RamPages
                               /\ m.tab[y] \notin FreePages(m) /\ m.tab[y] \notin X
    /\ X \subseteq RamPages /\ X \cap FreePages(m) = {}

\* The kernel maps usable memory.
MapSound(m) == \A x \in DOMAIN m.map : x[1] = KernelContext => m.map[x] \in RamPages

Sound(m, X) == ListSound(m) /\ Owned(m, X) /\ MapSound(m)

\* What a step leaves alone that maps pages V for context c.
Follows(m, m2, c, V) ==
    /\ m2 \in Memories
    /\ Ok(m2) => Ok(m)
    /\ \A e, v : Present(m, e, v) => Present(m2, e, v)
    /\ \A e, v : ~(e = c /\ v \in V) => /\ Present(m2, e, v) => Present(m, e, v)
                                        /\ PhysicalFor(m2, e, v) = PhysicalFor(m, e, v)
    /\ \A e, t : HasTable(m, e, t) => HasTable(m2, e, t)
    /\ \A e, t : e # c => (HasTable(m2, e, t) => HasTable(m, e, t))
    /\ Tabled(m) => Tabled(m2)

SameList(m, m2) == Len(m2.list) = Len(m.list) /\ m2.open = m.open

LEMMA FollowsSelf ==
    ASSUME NEW m \in Memories, NEW c, NEW V
    PROVE  Follows(m, m, c, V)
BY DEF Follows

LEMMA FollowsOn ==
    ASSUME NEW m, NEW m1, NEW m2, NEW c, NEW V, NEW W, Follows(m, m1, c, V), Follows(m1, m2, c, V), V \subseteq W
    PROVE  Follows(m, m2, c, W)
BY DEF Follows

LEMMA FollowsMore ==
    ASSUME NEW m, NEW m1, NEW c, NEW V, NEW W, Follows(m, m1, c, V), V \subseteq W
    PROVE  Follows(m, m1, c, W)
BY DEF Follows

LEMMA Assumed ==
    /\ BootRegions \in Seq([start : Nat, count : Nat])
    /\ ListSlots \in Nat /\ ListSlots > 0
    /\ KernelHeap \in Nat /\ Span \in Nat /\ Span > 0 /\ DirectRegion \in Nat
BY PhysMemAssumption

LEMMA RamIs == RegionsApart => RamPages \subseteq Nat /\ 0 \notin RamPages /\ DevicePage \notin RamPages /\ TssPage \notin RamPages
<1> SUFFICES ASSUME RegionsApart, NEW p \in RamPages PROVE p \in Nat /\ p > 0
    BY DEF DevicePage, TssPage
<1> DEFINE R == [start : Nat, count : Nat]
<1>1. PICK i \in DOMAIN BootRegions : p \in PagesOf(BootRegions[i])
    BY DEF RamPages
<1>2. BootRegions[i] \in R /\ BootRegions[i].start > 0
    <2>1. BootRegions \in Seq(R) /\ BootRegions[i].start > 0
        BY Assumed DEF RegionsApart
    <2> HIDE DEF R
    <2> QED BY <2>1
<1> QED BY <1>1, <1>2 DEF PagesOf

LEMMA MapIs ==
    ASSUME NEW f \in Maps
    PROVE  DOMAIN f \subseteq Places /\ \A x \in DOMAIN f : f[x] \in Int
BY DEF Maps

Enters(f, x, p, g) ==
    /\ g \in Maps
    /\ DOMAIN g = DOMAIN f \cup {x} /\ g[x] = p
    /\ \A y \in DOMAIN f : y # x => g[y] = f[y]

LEMMA MapAdds ==
    ASSUME NEW f \in Maps, NEW x \in Places, NEW p \in Int
    PROVE  Enters(f, x, p, Entered(f, x, p))
<1> DEFINE g == Entered(f, x, p)
<1>1. g = [y \in {x} \cup DOMAIN f |-> IF y = x THEN p ELSE f[y]]
    BY DEF Entered
<1>2. DOMAIN f \subseteq Places /\ \A y \in DOMAIN f : f[y] \in Int
    BY MapIs
<1>3. g \in [{x} \cup DOMAIN f -> Int]
    BY <1>1, <1>2
<1>4. {x} \cup DOMAIN f \in SUBSET (Places)
    BY <1>2
<1>5. g \in Maps
    BY <1>3, <1>4 DEF Maps
<1> QED BY <1>1, <1>5 DEF Enters

LEMMA MapLoses ==
    ASSUME NEW f \in Maps, NEW x
    PROVE  [y \in DOMAIN f \ {x} |-> f[y]] \in Maps
<1>1. DOMAIN f \subseteq Places /\ \A y \in DOMAIN f : f[y] \in Int
    BY MapIs
<1>2. [y \in DOMAIN f \ {x} |-> f[y]] \in [DOMAIN f \ {x} -> Int] /\ DOMAIN f \ {x} \in SUBSET (Places)
    BY <1>1
<1> QED BY <1>2 DEF Maps

-----------------------------------------------------------------------------
(* Taking pages *)

\* A memory that has fallen off its list has failed.
LEMMA FellOffIs ==
    ASSUME NEW m \in Memories, NEW why \in {"oom", "wild"}
    PROVE  FellOff(m, why) \in Memories /\ ~Ok(FellOff(m, why)) /\ FellOff(m, why).map = m.map /\ FellOff(m, why).tab = m.tab
           /\ FellOff(m, why).list = m.list /\ FellOff(m, why).open = m.open
<1>1. PICK s \in {"oom", "wild"} : FellOff(m, why) = [m EXCEPT !.got = 0, !.state = s]
    <2>1. CASE m.open
        BY <2>1, Zenon DEF FellOff
    <2>2. CASE ~m.open
        BY <2>2, Zenon DEF FellOff
    <2> QED BY <2>1, <2>2
<1>2. s # "ok" /\ s \in States
    BY DEF States
<1>3. PICK g \in Int : g = 0
    OBVIOUS
<1>4. [m EXCEPT !.got = g, !.state = s] \in Memories
    BY <1>2 DEF Memories
<1> QED BY <1>1, <1>2, <1>3, <1>4 DEF Memories, Ok

LEMMA ShrunkIs ==
    ASSUME NEW e \in [start : Nat, count : Nat], NEW n \in Nat \ {0}, e.count >= n
    PROVE  /\ Shrunk(e, n) \in [start : Nat, count : Nat]
           /\ e.start .. e.start + n - 1 \subseteq PagesOf(e)
           /\ PagesOf(Shrunk(e, n)) = PagesOf(e) \ (e.start .. e.start + n - 1)
           /\ Shrunk(e, n).count = 0 => Shrunk(e, n) = UnusedEntry
<1>1. CASE e.count = n
    <2>1. Shrunk(e, n) = [start |-> 0, count |-> 0]
        BY <1>1 DEF Shrunk, UnusedEntry
    <2> QED BY <1>1, <2>1 DEF PagesOf, UnusedEntry
<1>2. CASE e.count # n
    <2>1. Shrunk(e, n) = [start |-> e.start + n, count |-> e.count - n]
        BY <1>2 DEF Shrunk
    <2> QED BY <1>2, <2>1 DEF PagesOf
<1> QED BY <1>1, <1>2

\* What it means to put another range in place of one of the list.
WithRange(m, s, e, g) == [m EXCEPT !.list[s] = e, !.got = g]

LEMMA RangeReplaced ==
    ASSUME NEW m \in Memories, NEW s \in DOMAIN m.list, NEW e \in Entries, NEW g \in Int
    PROVE  LET m2 == WithRange(m, s, e, g) IN
           /\ m2 \in Memories /\ m2.map = m.map /\ m2.tab = m.tab /\ m2.open = m.open /\ m2.state = m.state /\ m2.got = g
           /\ Len(m2.list) = Len(m.list) /\ DOMAIN m2.list = DOMAIN m.list
           /\ m2.list[s] = e /\ \A i \in DOMAIN m.list : i # s => m2.list[i] = m.list[i]
<1>1. m.list \in Seq(Entries)
    BY DEF Memories
<1>2. PICK l : l = [m.list EXCEPT ![s] = e]
    OBVIOUS
<1>3. l \in Seq(Entries) /\ Len(l) = Len(m.list) /\ DOMAIN l = DOMAIN m.list /\ l[s] = e
      /\ \A i \in DOMAIN m.list : i # s => l[i] = m.list[i]
    BY <1>1, <1>2
<1>4. WithRange(m, s, e, g) = [m EXCEPT !.list = l, !.got = g]
    BY <1>2 DEF Memories, WithRange
<1> QED BY <1>3, <1>4 DEF Memories

TakenOf(m, m2, n) == m2.got .. m2.got + n - 1

LEMMA TakeKeeps ==
    ASSUME NEW m \in Memories, NEW n \in Nat \ {0}
    PROVE  LET m2 == Take(m, n) IN
           /\ m2 \in Memories /\ m2.map = m.map /\ m2.tab = m.tab
           /\ SameList(m, m2) /\ (Ok(m2) => Ok(m))
<1> DEFINE I == {i \in 1 .. Len(m.list) : m.list[i].count >= n}
           s == SelectInSeq(m.list, LAMBDA e : e.count >= n)
<1>1. m.list \in Seq(Entries)
    BY DEF Memories
<1>2. s = (IF I # {} THEN Min(I) ELSE 0) /\ I \in SUBSET Nat
    BY DEF SelectInSeq
<1>3. s # 0 => s \in DOMAIN m.list
    <2>1. I # {} => Min(I) \in I
        <3> HIDE DEF I
        <3> QED BY <1>2, LeastNumber
    <2> HIDE DEF s
    <2> QED BY <1>1, <1>2, <2>1
<1>4. Take(m, n) = IF s = 0 THEN FellOff(m, "oom")
                   ELSE [m EXCEPT !.list[s] = Shrunk(@, n), !.got = m.list[s].start]
    BY DEF Take
<1> HIDE DEF I, s
<1>5. CASE s = 0
    <2>1. Take(m, n) = FellOff(m, "oom")
        BY <1>4, <1>5
    <2> QED BY <2>1, FellOffIs DEF SameList
<1>6. CASE s # 0
    <2>1. PICK e \in Entries : e = m.list[s]
        BY <1>1, <1>3, <1>6
    <2>2. Shrunk(e, n) \in Entries /\ e.start \in Int
        BY <2>1 DEF Shrunk, UnusedEntry, Entries
    <2>3. Take(m, n) = WithRange(m, s, Shrunk(e, n), e.start)
        BY <1>1, <1>3, <1>4, <1>6, <2>1 DEF Memories, WithRange
    <2> QED BY <1>3, <1>6, <2>2, <2>3, RangeReplaced DEF SameList, Ok
<1> QED BY <1>5, <1>6

LEMMA TakeIs ==
    ASSUME NEW m \in Memories, NEW n \in Nat \ {0}, NEW m2, m2 = Take(m, n), Ok(m2), ListSound(m)
    PROVE  /\ ListSound(m2)
           /\ TakenOf(m, m2, n) \subseteq FreePages(m) /\ TakenOf(m, m2, n) \subseteq RamPages
           /\ FreePages(m2) = FreePages(m) \ TakenOf(m, m2, n)
           /\ m2.got \in TakenOf(m, m2, n) /\ m2.got \in Nat /\ m2.got > 0
<1> DEFINE I == {i \in 1 .. Len(m.list) : m.list[i].count >= n}
           s == SelectInSeq(m.list, LAMBDA e : e.count >= n)
<1>1. m.list \in Seq(Entries)
    BY DEF Memories
<1>2. s = (IF I # {} THEN Min(I) ELSE 0) /\ I \in SUBSET Nat
    BY DEF SelectInSeq
<1>3. s # 0 => s \in DOMAIN m.list /\ m.list[s].count >= n
    <2>1. I # {} => Min(I) \in I
        <3> HIDE DEF I
        <3> QED BY <1>2, LeastNumber
    <2> HIDE DEF s
    <2> QED BY <1>1, <1>2, <2>1
<1>4. m2 = IF s = 0 THEN FellOff(m, "oom")
           ELSE [m EXCEPT !.list[s] = Shrunk(@, n), !.got = m.list[s].start]
    BY DEF Take
<1> HIDE DEF I, s
<1>5. s # 0 /\ s \in DOMAIN m.list
    BY <1>3, <1>4, FellOffIs
<1>6. PICK e \in [start : Nat, count : Nat] : e = m.list[s] /\ e.count >= n
    BY <1>3, <1>5 DEF ListSound
<1>7. /\ Shrunk(e, n) \in [start : Nat, count : Nat]
      /\ e.start .. e.start + n - 1 \subseteq PagesOf(e)
      /\ PagesOf(Shrunk(e, n)) = PagesOf(e) \ (e.start .. e.start + n - 1)
      /\ Shrunk(e, n).count = 0 => Shrunk(e, n) = UnusedEntry
    BY <1>6, ShrunkIs
<1>8. Shrunk(e, n) \in Entries /\ e.start \in Int
    BY <1>7 DEF Entries
<1>9. m2 = WithRange(m, s, Shrunk(e, n), e.start)
    BY <1>1, <1>4, <1>5, <1>6 DEF Memories, WithRange
<1>10. /\ m2.got = e.start /\ DOMAIN m2.list = DOMAIN m.list
       /\ m2.list[s] = Shrunk(e, n) /\ \A i \in DOMAIN m.list : i # s => m2.list[i] = m.list[i]
    BY <1>5, <1>8, <1>9, RangeReplaced
<1> DEFINE P == e.start .. e.start + n - 1
<1>11. TakenOf(m, m2, n) = P
    BY <1>10 DEF TakenOf
<1>12. PagesOf(e) \subseteq RamPages /\ \A i \in DOMAIN m.list : i # s => PagesOf(m.list[i]) \cap PagesOf(e) = {}
    BY <1>5, <1>6 DEF ListSound
<1>13. P \subseteq PagesOf(e) /\ e.start \in P
    BY <1>7
<1> HIDE DEF P
<1>14. ListSound(m2)
    <2>1. \A i \in DOMAIN m2.list : PagesOf(m2.list[i]) \subseteq PagesOf(m.list[i])
        BY <1>5, <1>6, <1>7, <1>10
    <2>2. \A i \in DOMAIN m2.list : m2.list[i] \in [start : Nat, count : Nat]
        BY <1>7, <1>10 DEF ListSound
    <2>3. \A i \in DOMAIN m2.list : m2.list[i].count = 0 => m2.list[i] = UnusedEntry
        BY <1>7, <1>10 DEF ListSound
    <2> QED BY <1>10, <2>1, <2>2, <2>3 DEF ListSound
<1>15. FreePages(m2) = FreePages(m) \ P
    <2>1. \A i \in DOMAIN m.list : PagesOf(m2.list[i]) = PagesOf(m.list[i]) \ P
        <3> SUFFICES ASSUME NEW i \in DOMAIN m.list PROVE PagesOf(m2.list[i]) = PagesOf(m.list[i]) \ P
            OBVIOUS
        <3>1. CASE i = s
            BY <1>6, <1>7, <1>10, <3>1 DEF P
        <3>2. CASE i # s
            BY <1>10, <1>12, <1>13, <3>2
        <3> QED BY <3>1, <3>2
    <2> QED BY <1>10, <2>1 DEF FreePages
<1>16. P \subseteq FreePages(m) /\ P \subseteq RamPages
    BY <1>5, <1>6, <1>12, <1>13 DEF FreePages
<1>17. e.start \in Nat /\ e.start > 0
    BY <1>13, <1>16, RamIs DEF ListSound
<1> QED BY <1>10, <1>11, <1>13, <1>14, <1>15, <1>16, <1>17

\* The pages taken are X's then.
LEMMA TakeOwned ==
    ASSUME NEW m \in Memories, NEW n \in Nat \ {0}, NEW m2, m2 = Take(m, n), Ok(m2), NEW X, Sound(m, X)
    PROVE  Sound(m2, X \cup TakenOf(m, m2, n)) /\ X \cap TakenOf(m, m2, n) = {}
<1> DEFINE P == TakenOf(m, m2, n)
<1>1. m2.map = m.map /\ m2.tab = m.tab
    BY TakeKeeps
<1>2. ListSound(m2) /\ P \subseteq FreePages(m) /\ P \subseteq RamPages /\ FreePages(m2) = FreePages(m) \ P
    BY TakeIs DEF Sound
<1> HIDE DEF P
<1>3. Mapped(m2) = Mapped(m)
    BY <1>1 DEF Mapped
<1>4. Owned(m2, X \cup P) /\ X \cap P = {}
    BY <1>1, <1>2, <1>3 DEF Owned, Sound
<1>5. MapSound(m2)
    BY <1>1 DEF MapSound, Sound
<1> QED BY <1>2, <1>4, <1>5 DEF Sound, P

LEMMA LessOwned ==
    ASSUME NEW m, NEW X, NEW Y, Sound(m, X), Y \subseteq X
    PROVE  Sound(m, Y)
BY DEF Sound, Owned

-----------------------------------------------------------------------------
(* The layout of an address space *)

LEMMA IntervalEnds ==
    ASSUME NEW a \in Nat, NEW b \in Nat, a <= b
    PROVE  Min(a .. b) = a /\ Max(a .. b) = b
<1>1. a .. b \in SUBSET Nat /\ a \in a .. b /\ b \in a .. b /\ \A m \in a .. b : m <= b /\ a <= m
    OBVIOUS
<1>2. Max(a .. b) = b
    BY <1>1, LargestIs
<1>3. Min(a .. b) \in a .. b /\ Min(a .. b) <= a
    BY <1>1, LeastNumber
<1> QED BY <1>2, <1>3

\* The heap ends where the stack begins, then the hardware, then the bitmap.
LEMMA LayoutIs ==
    /\ HeapPages \in Nat /\ HeapBase = 2 /\ StackSize \in Nat /\ StackSize > 0
    /\ StackPages = HeapPages + 2 .. HeapPages + StackSize + 1
    /\ Min(StackPages) = HeapPages + 2 /\ Max(StackPages) = HeapPages + StackSize + 1
    /\ HardwarePages = HeapPages + StackSize + 2 .. HeapPages + StackSize + 3
    /\ Min(HardwarePages) = HeapPages + StackSize + 2 /\ Max(HardwarePages) = HeapPages + StackSize + 3
    /\ IopermPage = HeapPages + StackSize + 4
<1>1. HeapPages \in Nat /\ HeapBase = 2 /\ StackSize \in Nat /\ StackSize > 0
    BY VirtualMemoryAssumption DEF HeapBase
<1>2. StackPages = HeapPages + 2 .. HeapPages + StackSize + 1
    BY <1>1 DEF StackPages
<1>3. Min(StackPages) = HeapPages + 2 /\ Max(StackPages) = HeapPages + StackSize + 1
    BY <1>1, <1>2, IntervalEnds
<1>4. HardwarePages = HeapPages + StackSize + 2 .. HeapPages + StackSize + 3
    BY <1>1, <1>3 DEF HardwarePages
<1>5. Min(HardwarePages) = HeapPages + StackSize + 2 /\ Max(HardwarePages) = HeapPages + StackSize + 3
    BY <1>1, <1>4, IntervalEnds
<1> QED BY <1>1, <1>2, <1>3, <1>4, <1>5 DEF IopermPage

-----------------------------------------------------------------------------
(* Tables and mappings *)

LEMMA TableOf ==
    ASSUME NEW v \in Nat
    PROVE  v \div Span \in Nat
BY Assumed, Division

WithTable(m, t, p) == [m EXCEPT !.tab = Entered(@, t, p)]

WithMapping(m, x, p) == [m EXCEPT !.map = Entered(@, x, p)]

TableEntered(m, t, p, m2) ==
    /\ m2 \in Memories /\ m2.map = m.map /\ m2.list = m.list /\ m2.open = m.open /\ m2.state = m.state
    /\ Enters(m.tab, t, p, m2.tab)

MappingEntered(m, x, p, m2) ==
    /\ m2 \in Memories /\ m2.tab = m.tab /\ m2.list = m.list /\ m2.open = m.open /\ m2.state = m.state
    /\ Enters(m.map, x, p, m2.map)

LEMMA WithTableIs ==
    ASSUME NEW m \in Memories, NEW t \in Places, NEW p \in Int
    PROVE  TableEntered(m, t, p, WithTable(m, t, p))
<1>1. PICK g : g = Entered(m.tab, t, p)
    OBVIOUS
<1>2. m.tab \in Maps
    BY DEF Memories
<1>3. Enters(m.tab, t, p, g) /\ g \in Maps
    BY <1>1, <1>2, MapAdds DEF Enters
<1>4. WithTable(m, t, p) = [m EXCEPT !.tab = g]
    BY <1>1 DEF WithTable, Memories
<1> QED BY <1>3, <1>4 DEF Memories, TableEntered

LEMMA WithMappingIs ==
    ASSUME NEW m \in Memories, NEW x \in Places, NEW p \in Int
    PROVE  MappingEntered(m, x, p, WithMapping(m, x, p))
<1>1. PICK g : g = Entered(m.map, x, p)
    OBVIOUS
<1>2. m.map \in Maps
    BY DEF Memories
<1>3. Enters(m.map, x, p, g) /\ g \in Maps
    BY <1>1, <1>2, MapAdds DEF Enters
<1>4. WithMapping(m, x, p) = [m EXCEPT !.map = g]
    BY <1>1 DEF WithMapping, Memories
<1> QED BY <1>3, <1>4 DEF Memories, MappingEntered

LEMMA EnsureTableKeeps ==
    ASSUME NEW m \in Memories, NEW c \in Nat, NEW v \in Nat, NEW m2, m2 = EnsureTable(m, c, v)
    PROVE  /\ Follows(m, m2, c, {}) /\ SameList(m, m2) /\ m2.map = m.map
           /\ HasTable(m2, c, v \div Span)
<1>1. PICK t \in Places : t = <<c, v \div Span>>
    BY TableOf DEF Places
<1>2. CASE t \in DOMAIN m.tab
    <2>1. m2 = m
        BY <1>1, <1>2 DEF EnsureTable
    <2> QED BY <1>1, <1>2, <2>1, FollowsSelf DEF SameList, HasTable
<1>3. CASE t \notin DOMAIN m.tab
    <2>1. PICK m1 : m1 = Take(m, 1)
        OBVIOUS
    <2>2. /\ m1 \in Memories /\ m1.map = m.map /\ m1.tab = m.tab
          /\ SameList(m, m1) /\ (Ok(m1) => Ok(m))
        BY <2>1, TakeKeeps
    <2>3. PICK g \in Int : g = m1.got
        BY <2>2 DEF Memories
    <2>4. m2 = WithTable(m1, t, g)
        BY <1>1, <1>3, <2>1, <2>3 DEF EnsureTable, WithTable
    <2>5. /\ m2 \in Memories /\ m2.map = m1.map /\ m2.list = m1.list /\ m2.open = m1.open /\ m2.state = m1.state
          /\ DOMAIN m2.tab = DOMAIN m1.tab \cup {t}
        <3>1. TableEntered(m1, t, g, m2)
            BY <2>2, <2>3, <2>4, WithTableIs
        <3> QED BY <3>1 DEF TableEntered, Enters
    <2>6. Follows(m, m2, c, {})
        BY <1>1, <2>2, <2>5 DEF Follows, Ok, Present, PhysicalFor, HasTable, Tabled
    <2> QED BY <1>1, <2>2, <2>5, <2>6 DEF SameList, HasTable
<1> QED BY <1>2, <1>3

LEMMA EnsureTableOwned ==
    ASSUME NEW m \in Memories, NEW c \in Nat, NEW v \in Nat, NEW m2, m2 = EnsureTable(m, c, v), Ok(m2),
           NEW X, Sound(m, X)
    PROVE  Sound(m2, X)
<1>1. PICK t \in Places : t = <<c, v \div Span>>
    BY TableOf DEF Places
<1>2. CASE t \in DOMAIN m.tab
    <2>1. m2 = m
        BY <1>1, <1>2 DEF EnsureTable
    <2> QED BY <2>1
<1>3. CASE t \notin DOMAIN m.tab
    <2>1. PICK m1 : m1 = Take(m, 1)
        OBVIOUS
    <2>2. m1 \in Memories /\ m1.tab = m.tab
        BY <2>1, TakeKeeps
    <2>3. PICK g \in Int : g = m1.got
        BY <2>2 DEF Memories
    <2>4. m2 = WithTable(m1, t, g)
        BY <1>1, <1>3, <2>1, <2>3 DEF EnsureTable, WithTable
    <2>5. /\ m2.map = m1.map /\ m2.list = m1.list /\ m2.state = m1.state
          /\ DOMAIN m2.tab = DOMAIN m1.tab \cup {t} /\ m2.tab[t] = g
          /\ \A y \in DOMAIN m1.tab : y # t => m2.tab[y] = m1.tab[y]
        <3>1. TableEntered(m1, t, g, m2)
            BY <2>2, <2>3, <2>4, WithTableIs
        <3> QED BY <3>1 DEF TableEntered, Enters
    <2>6. Ok(m1)
        BY <2>5 DEF Ok
    <2>7. Sound(m1, X \cup TakenOf(m, m1, 1)) /\ X \cap TakenOf(m, m1, 1) = {}
        BY <2>1, <2>6, TakeOwned
    <2>8. m1.got \in TakenOf(m, m1, 1)
        BY <2>1, <2>6, TakeIs DEF Sound
    <2>9. ListSound(m2) /\ FreePages(m2) = FreePages(m1) /\ Mapped(m2) = Mapped(m1)
        BY <2>5, <2>7 DEF Sound, ListSound, FreePages, Mapped
    <2>10. Owned(m2, X)
        BY <1>3, <2>2, <2>3, <2>5, <2>7, <2>8, <2>9 DEF Sound, Owned
    <2>11. MapSound(m2)
        BY <2>5, <2>7 DEF Sound, MapSound
    <2> QED BY <2>9, <2>10, <2>11 DEF Sound
<1> QED BY <1>2, <1>3

LEMMA MapPageKeeps ==
    ASSUME NEW m \in Memories, NEW c \in Nat, NEW v \in Nat, NEW p \in Int, NEW m2, m2 = MapPage(m, c, v, p)
    PROVE  /\ Follows(m, m2, c, {v}) /\ SameList(m, m2)
           /\ Present(m2, c, v) /\ PhysicalFor(m2, c, v) = p
<1>1. PICK m1 : m1 = EnsureTable(m, c, v)
    OBVIOUS
<1>2. /\ Follows(m, m1, c, {}) /\ SameList(m, m1) /\ m1.map = m.map /\ HasTable(m1, c, v \div Span)
    BY <1>1, EnsureTableKeeps
<1>3. m1 \in Memories /\ m2 = WithMapping(m1, <<c, v>>, p) /\ <<c, v>> \in Places
    BY <1>1, <1>2 DEF MapPage, WithMapping, Follows, Places
<1>4. /\ m2 \in Memories /\ m2.tab = m1.tab /\ m2.list = m1.list /\ m2.open = m1.open /\ m2.state = m1.state
      /\ DOMAIN m2.map = DOMAIN m1.map \cup {<<c, v>>} /\ m2.map[<<c, v>>] = p
      /\ \A y \in DOMAIN m1.map : y # <<c, v>> => m2.map[y] = m1.map[y]
    <2>1. MappingEntered(m1, <<c, v>>, p, m2)
        BY <1>3, WithMappingIs
    <2> QED BY <2>1 DEF MappingEntered, Enters
<1>5. Follows(m, m2, c, {v})
    BY <1>2, <1>4 DEF Follows, Ok, Present, PhysicalFor, HasTable, Tabled
<1> QED BY <1>2, <1>4, <1>5 DEF SameList, Present, PhysicalFor

\* A page may be mapped that is X's and then is no more, a device by a process,
\* and anything where the I/O bitmap is shown.
MayMap(c, v, p, X, Y) ==
    /\ Y \subseteq X
    /\ \/ ShowsIopb(c, v)
       \/ c # KernelContext /\ p = DevicePage
       \/ p \in X /\ p \notin Y

LEMMA MapPageOwned ==
    ASSUME NEW m \in Memories, NEW c \in Nat, NEW v \in Nat, NEW p \in Int, NEW X, NEW Y,
           Ok(MapPage(m, c, v, p)), Sound(m, X), MayMap(c, v, p, X, Y)
    PROVE  Sound(MapPage(m, c, v, p), Y)
<1>0. PICK m2 : m2 = MapPage(m, c, v, p)
    OBVIOUS
<1> USE <1>0 DEF MayMap
<1>1. PICK m1 : m1 = EnsureTable(m, c, v)
    OBVIOUS
<1>2. Follows(m, m1, c, {}) /\ HasTable(m1, c, v \div Span)
    BY <1>1, EnsureTableKeeps
<1>3. PICK x \in Places : x = <<c, v>>
    BY DEF Places
<1>4. m1 \in Memories /\ m2 = WithMapping(m1, x, p) /\ x[1] = c /\ x[2] = v
    BY <1>1, <1>2, <1>3 DEF MapPage, WithMapping, Follows
<1>5. /\ m2 \in Memories /\ m2.tab = m1.tab /\ m2.list = m1.list /\ m2.open = m1.open /\ m2.state = m1.state
      /\ DOMAIN m2.map = DOMAIN m1.map \cup {x} /\ m2.map[x] = p
      /\ \A y \in DOMAIN m1.map : y # x => m2.map[y] = m1.map[y]
    <2>1. MappingEntered(m1, x, p, m2)
        BY <1>4, WithMappingIs
    <2> QED BY <2>1 DEF MappingEntered, Enters
<1>6. Ok(m1)
    BY <1>5 DEF Ok
<1>7. Sound(m1, X)
    BY <1>1, <1>6, EnsureTableOwned
<1>8. ListSound(m2) /\ FreePages(m2) = FreePages(m1)
    BY <1>5, <1>7 DEF Sound, ListSound, FreePages
<1>9. \A y \in Mapped(m2) : \/ y # x /\ y \in Mapped(m1) /\ m2.map[y] = m1.map[y]
                            \/ y = x /\ m2.map[y] = p /\ p \in X /\ p \notin Y
    BY <1>4, <1>5, <1>7, RamIs DEF Mapped, Sound, ListSound
<1>10. Owned(m2, Y)
    BY <1>5, <1>7, <1>8, <1>9 DEF Sound, Owned
<1>11. MapSound(m2)
    <2> SUFFICES ASSUME NEW y \in DOMAIN m2.map
                 PROVE  y[1] = KernelContext => m2.map[y] \in RamPages
        BY DEF MapSound
    <2>1. CASE y = x
        <3>1. c = KernelContext => p \in RamPages
            BY <1>7 DEF ShowsIopb, Sound, Owned
        <3> QED BY <1>4, <1>5, <2>1, <3>1
    <2>2. CASE y # x
        BY <1>5, <1>7, <2>2 DEF Sound, MapSound
    <2> QED BY <2>1, <2>2
<1> QED BY <1>8, <1>10, <1>11 DEF Sound

LEMMA MapNewPageKeeps ==
    ASSUME NEW m \in Memories, NEW c \in Nat, NEW v \in Nat, NEW m2, m2 = MapNewPage(m, c, v)
    PROVE  Follows(m, m2, c, {v}) /\ SameList(m, m2) /\ Present(m2, c, v)
<1>1. PICK m1 : m1 = Take(m, 1)
    OBVIOUS
<1>2. /\ m1 \in Memories /\ m1.map = m.map /\ m1.tab = m.tab
      /\ SameList(m, m1) /\ (Ok(m1) => Ok(m))
    BY <1>1, TakeKeeps
<1>3. PICK g \in Int : g = m1.got /\ m2 = MapPage(m1, c, v, g)
    BY <1>1, <1>2 DEF Memories, MapNewPage
<1>4. Follows(m1, m2, c, {v}) /\ SameList(m1, m2) /\ Present(m2, c, v)
    BY <1>2, <1>3, MapPageKeeps
<1>5. Follows(m, m1, c, {v})
    BY <1>2 DEF Follows, Present, PhysicalFor, HasTable, Tabled
<1> QED BY <1>2, <1>4, <1>5, FollowsOn DEF SameList

LEMMA MapNewPageOwned ==
    ASSUME NEW m \in Memories, NEW c \in Nat, NEW v \in Nat, NEW m2, m2 = MapNewPage(m, c, v), Ok(m2),
           NEW X, Sound(m, X)
    PROVE  Sound(m2, X)
<1>1. PICK m1 : m1 = Take(m, 1)
    OBVIOUS
<1>2. m1 \in Memories
    BY <1>1, TakeKeeps
<1>3. PICK g \in Int : g = m1.got /\ m2 = MapPage(m1, c, v, g)
    BY <1>1, <1>2 DEF Memories, MapNewPage
<1>4. Ok(m1)
    BY <1>2, <1>3, MapPageKeeps DEF Follows
<1>5. Sound(m1, X \cup TakenOf(m, m1, 1)) /\ X \cap TakenOf(m, m1, 1) = {}
    BY <1>1, <1>4, TakeOwned
<1>6. m1.got \in TakenOf(m, m1, 1)
    BY <1>1, <1>4, TakeIs DEF Sound
<1>7. PICK Z : Z = X \cup TakenOf(m, m1, 1)
    OBVIOUS
<1>8. Sound(m1, Z) /\ X \subseteq Z /\ MayMap(c, v, g, Z, X)
    BY <1>3, <1>5, <1>6, <1>7 DEF MayMap
<1> QED BY <1>2, <1>3, <1>8, MapPageOwned

-----------------------------------------------------------------------------
(* The kernel heap *)

LEMMA FindFreeIs ==
    ASSUME NEW m, NEW c, NEW region \in SUBSET (Nat \ {0}), NEW num, NEW v, v = FindFree(m, c, region, num), v # 0
    PROVE  v \in region /\ \A i \in 0 .. num - 1 : ~Present(m, c, v + i)
<1> DEFINE S == FreeStarts(m, c, region, num)
<1>1. S # {} /\ v = Min(S)
    BY DEF FindFree
<1>2. S \in SUBSET Nat
    BY DEF FreeStarts
<1>3. v \in S
    <2> HIDE DEF S
    <2> QED BY <1>1, <1>2, LeastNumber
<1> QED BY <1>3 DEF FreeStarts

FreeIsNotPresent(m, v, num) == \A i \in 0 .. num - 1 : ~Present(m, KernelContext, v + i)

AllPresent(m, c, from, to) == \A w \in from .. to - 1 : Present(m, c, w)

\* The pages of one allocation, one after the other.
LEMMA AllocWalk ==
    ASSUME NEW m \in Memories, NEW v \in Nat \ {0}, NEW num \in Nat
    PROVE  LET at[i \in 0 .. num] ==
                   IF i = 0 THEN m ELSE MapNewPage(at[i - 1], KernelContext, v + i - 1)
           IN  /\ Follows(m, at[num], KernelContext, Nat) /\ SameList(m, at[num])
               /\ AllPresent(at[num], KernelContext, v, v + num)
               /\ \A X : Ok(at[num]) /\ Sound(m, X) => Sound(at[num], X)
<1> DEFINE at[i \in 0 .. num] == IF i = 0 THEN m ELSE MapNewPage(at[i - 1], KernelContext, v + i - 1)
           IsAt(f) == f = [i \in 0 .. num |-> IF i = 0 THEN m ELSE MapNewPage(f[i - 1], KernelContext, v + i - 1)]
           G == [n \in Nat |-> [x \in Memories |-> MapNewPage(x, KernelContext, v + n - 1)]]
<1>0. KernelContext \in Nat
    BY DEF KernelContext
<1>1. ASSUME NEW x \in Memories, NEW n \in Nat
      PROVE  /\ MapNewPage(x, KernelContext, v + n - 1) \in Memories
             /\ Follows(x, MapNewPage(x, KernelContext, v + n - 1), KernelContext, {v + n - 1})
             /\ SameList(x, MapNewPage(x, KernelContext, v + n - 1))
             /\ Present(MapNewPage(x, KernelContext, v + n - 1), KernelContext, v + n - 1)
    <2>1. PICK w \in Nat : w = v + n - 1
        OBVIOUS
    <2>2. /\ Follows(x, MapNewPage(x, KernelContext, w), KernelContext, {w})
          /\ SameList(x, MapNewPage(x, KernelContext, w))
          /\ Present(MapNewPage(x, KernelContext, w), KernelContext, w)
        BY <1>0, MapNewPageKeeps
    <2>3. MapNewPage(x, KernelContext, w) \in Memories
        BY <2>2 DEF Follows
    <2> QED BY <2>1, <2>2, <2>3
<1>2. PICK f : IsWalk(Memories, m, G, num, f)
    <2>1. CanWalk(Memories, m, G, num)
        BY <1>1 DEF CanWalk
    <2> HIDE DEF G
    <2> QED BY <2>1, StepByStep
<1>3. IsAt(f)
    <2>1. ASSUME NEW i \in 1 .. num PROVE f[i] = MapNewPage(f[i - 1], KernelContext, v + i - 1)
        <3>1. f[i - 1] \in Memories
            BY <1>2 DEF IsWalk
        <3>2. G[i][f[i - 1]] = MapNewPage(f[i - 1], KernelContext, v + i - 1)
            BY <3>1
        <3> HIDE DEF G
        <3> QED BY <1>2, <3>2 DEF IsWalk
    <2> HIDE DEF G
    <2> QED BY <1>2, <2>1 DEF IsWalk
<1>4. at = CHOOSE g : IsAt(g)
    OBVIOUS
<1>5. IsAt(at)
    <2> HIDE DEF at, IsAt
    <2> QED BY <1>3, <1>4
<1> HIDE DEF at
<1>6. at[0] = m /\ \A i \in 1 .. num : at[i] = MapNewPage(at[i - 1], KernelContext, v + i - 1)
    BY <1>5
<1> DEFINE Inv(i) == /\ Follows(m, at[i], KernelContext, Nat) /\ SameList(m, at[i])
                     /\ AllPresent(at[i], KernelContext, v, v + i)
                     /\ \A X : Ok(at[i]) /\ Sound(m, X) => Sound(at[i], X)
           T == {i \in Nat : i <= num => Inv(i)}
<1>7. 0 \in T
    <2>1. Inv(0)
        BY <1>6, FollowsSelf DEF SameList, AllPresent
    <2> QED BY <2>1
<1>8. ASSUME NEW i \in T PROVE i + 1 \in T
    <2> SUFFICES ASSUME i + 1 <= num PROVE Inv(i + 1)
        OBVIOUS
    <2>1. Inv(i)
        OBVIOUS
    <2>2. PICK x : x = at[i]
        OBVIOUS
    <2>3. PICK y : y = MapNewPage(x, KernelContext, v + i) /\ y = at[i + 1]
        BY <1>6, <2>2
    <2>4. x \in Memories
        BY <2>1, <2>2 DEF Follows
    <2>5. v + (i + 1) - 1 = v + i /\ v + i \in Nat /\ i + 1 \in Nat
        OBVIOUS
    <2>6. y \in Memories /\ Follows(x, y, KernelContext, {v + i}) /\ SameList(x, y) /\ Present(y, KernelContext, v + i)
        <3>1. PICK w \in Nat : w = v + i
            BY <2>5
        <3>2. Follows(x, y, KernelContext, {w}) /\ SameList(x, y) /\ Present(y, KernelContext, w)
            BY <1>0, <2>3, <2>4, <3>1, MapNewPageKeeps
        <3> QED BY <3>1, <3>2 DEF Follows
    <2>7. Follows(m, y, KernelContext, Nat)
        <3>1. Follows(x, y, KernelContext, Nat)
            <4>1. {v + i} \subseteq Nat
                OBVIOUS
            <4> QED BY <2>6, <4>1, FollowsMore
        <3> QED BY <2>1, <2>2, <3>1, FollowsOn
    <2>8. AllPresent(y, KernelContext, v, v + (i + 1))
        <3> SUFFICES ASSUME NEW w \in v .. v + (i + 1) - 1 PROVE Present(y, KernelContext, w)
            BY DEF AllPresent
        <3>1. w = v + i \/ w \in v .. v + i - 1
            OBVIOUS
        <3> QED BY <2>1, <2>2, <2>6, <3>1 DEF AllPresent, Follows
    <2>9. ASSUME NEW X, Ok(y), Sound(m, X) PROVE Sound(y, X)
        <3>1. Ok(x)
            BY <2>6, <2>9 DEF Follows
        <3>2. Sound(x, X)
            BY <2>1, <2>2, <2>9, <3>1
        <3> QED BY <1>0, <2>3, <2>4, <2>5, <2>9, <3>2, MapNewPageOwned
    <2> QED BY <2>1, <2>2, <2>3, <2>6, <2>7, <2>8, <2>9 DEF SameList
<1>9. T = Nat
    <2> HIDE DEF T
    <2>1. T \in SUBSET Nat
        BY DEF T
    <2> QED BY <1>7, <1>8, <2>1, CountingUp
<1>10. Inv(num)
    BY <1>9
<1> QED BY <1>10 DEF at

WithGot(m, g) == [m EXCEPT !.got = g]

LEMMA StoppedIs ==
    ASSUME NEW m \in Memories, NEW s \in States
    PROVE  /\ Stopped(m, s) \in Memories /\ Stopped(m, s).map = m.map /\ Stopped(m, s).tab = m.tab
           /\ Stopped(m, s).list = m.list /\ Stopped(m, s).open = m.open /\ Stopped(m, s).state = s
BY DEF Stopped, Memories

LEMMA WithGotIs ==
    ASSUME NEW m \in Memories, NEW g \in Int
    PROVE  /\ WithGot(m, g) \in Memories /\ WithGot(m, g).map = m.map /\ WithGot(m, g).tab = m.tab
           /\ WithGot(m, g).list = m.list /\ WithGot(m, g).open = m.open /\ WithGot(m, g).state = m.state
           /\ WithGot(m, g).got = g
BY DEF WithGot, Memories

\* A memory that differs in what the last step returned only.
LEMMA SoundAlike ==
    ASSUME NEW m, NEW m2, NEW X, m2.map = m.map, m2.tab = m.tab, m2.list = m.list, Sound(m, X)
    PROVE  Sound(m2, X)
BY DEF Sound, ListSound, Owned, MapSound, FreePages, Mapped

AllocIs(m, num, m2) ==
    /\ Follows(m, m2, KernelContext, Nat) /\ SameList(m, m2)
    /\ \A X : Ok(m2) /\ Sound(m, X) => Sound(m2, X)
    /\ Ok(m2) => /\ m2.got \in Nat \ {0} /\ AllPresent(m2, KernelContext, m2.got, m2.got + num)
                 /\ FreeIsNotPresent(m, m2.got, num)

LEMMA AllocPagesIs ==
    ASSUME NEW m \in Memories, NEW num \in Nat
    PROVE  AllocIs(m, num, AllocPages(m, num))
<1>1. PICK v : v = FindFree(m, KernelContext, 1 .. KernelHeap, num)
    OBVIOUS
<1> DEFINE at[i \in 0 .. num] == IF i = 0 THEN m ELSE MapNewPage(at[i - 1], KernelContext, v + i - 1)
<1>2. AllocPages(m, num) = IF v = 0 THEN Stopped(m, "null") ELSE WithGot(at[num], v)
    BY <1>1 DEF AllocPages, Stopped, WithGot
<1>3. CASE v = 0
    <2>1. PICK m2 : m2 = Stopped(m, "null") /\ m2 = AllocPages(m, num)
        BY <1>2, <1>3
    <2>2. "null" \in States /\ "null" # "ok"
        BY DEF States
    <2>3. m2 \in Memories /\ m2.map = m.map /\ m2.tab = m.tab /\ m2.list = m.list /\ m2.open = m.open /\ ~Ok(m2)
        BY <2>1, <2>2, StoppedIs DEF Ok
    <2>4. Follows(m, m2, KernelContext, Nat)
        BY <2>3 DEF Follows, Present, PhysicalFor, HasTable, Tabled
    <2> QED BY <2>1, <2>3, <2>4 DEF AllocIs, SameList
<1>4. CASE v # 0
    <2>1. v \in Nat \ {0} /\ FreeIsNotPresent(m, v, num)
        <3>1. 1 .. KernelHeap \in SUBSET (Nat \ {0})
            BY Assumed
        <3>2. v \in 1 .. KernelHeap /\ \A i \in 0 .. num - 1 : ~Present(m, KernelContext, v + i)
            BY <1>1, <1>4, <3>1, FindFreeIs
        <3> QED BY <3>1, <3>2 DEF FreeIsNotPresent
    <2>2. /\ Follows(m, at[num], KernelContext, Nat) /\ SameList(m, at[num])
          /\ AllPresent(at[num], KernelContext, v, v + num)
          /\ \A X : Ok(at[num]) /\ Sound(m, X) => Sound(at[num], X)
        BY <2>1, AllocWalk
    <2> HIDE DEF at
    <2>3. PICK x : x = at[num]
        OBVIOUS
    <2>4. PICK m2 : m2 = WithGot(x, v) /\ m2 = AllocPages(m, num)
        BY <1>2, <1>4, <2>3
    <2>5. x \in Memories /\ v \in Int
        BY <2>1, <2>2, <2>3 DEF Follows
    <2>6. /\ m2 \in Memories /\ m2.map = x.map /\ m2.tab = x.tab /\ m2.list = x.list /\ m2.open = x.open
          /\ m2.state = x.state /\ m2.got = v
        <3>1. PICK g \in Int : g = v
            BY <2>5
        <3>2. m2 = WithGot(x, g)
            BY <2>4, <3>1
        <3>3. /\ m2 \in Memories /\ m2.map = x.map /\ m2.tab = x.tab /\ m2.list = x.list /\ m2.open = x.open
              /\ m2.state = x.state /\ m2.got = g
            BY <2>5, <3>2, WithGotIs
        <3> QED BY <3>1, <3>3
    <2>7. Follows(m, m2, KernelContext, Nat)
        BY <2>2, <2>3, <2>6 DEF Follows, Present, PhysicalFor, HasTable, Tabled, Ok
    <2>8. ASSUME NEW X, Ok(m2), Sound(m, X) PROVE Sound(m2, X)
        <3>1. Sound(x, X)
            BY <2>2, <2>3, <2>6, <2>8 DEF Ok
        <3> QED BY <2>6, <3>1, SoundAlike
    <2>9. AllPresent(m2, KernelContext, v, v + num)
        BY <2>2, <2>3, <2>6 DEF AllPresent, Present
    <2> QED BY <2>1, <2>2, <2>3, <2>4, <2>6, <2>7, <2>8, <2>9 DEF AllocIs, SameList
<1> QED BY <1>3, <1>4

-----------------------------------------------------------------------------
(* Giving pages back *)

LEMMA UnmapPageIs ==
    ASSUME NEW m \in Memories, NEW c, NEW v, NEW m2, m2 = UnmapPage(m, c, v)
    PROVE  /\ m2 \in Memories /\ m2.tab = m.tab /\ m2.list = m.list /\ m2.open = m.open /\ m2.state = m.state
           /\ DOMAIN m2.map = DOMAIN m.map \ {<<c, v>>}
           /\ \A x \in DOMAIN m2.map : m2.map[x] = m.map[x]
<1>1. PICK g : g = [x \in DOMAIN m.map \ {<<c, v>>} |-> m.map[x]]
    OBVIOUS
<1>2. m.map \in Maps
    BY DEF Memories
<1>3. g \in Maps
    BY <1>1, <1>2, MapLoses
<1>4. DOMAIN g = DOMAIN m.map \ {<<c, v>>} /\ \A x \in DOMAIN g : g[x] = m.map[x]
    BY <1>1
<1>5. m2 = [m EXCEPT !.map = g]
    BY <1>1 DEF UnmapPage
<1> QED BY <1>3, <1>4, <1>5 DEF Memories

\* A page of the kernel heap that is not mapped any more is X's.
LEMMA UnmapOwned ==
    ASSUME NEW m \in Memories, NEW v, NEW m2, m2 = UnmapPage(m, KernelContext, v), NEW p,
           p = PhysicalFor(m, KernelContext, v), Present(m, KernelContext, v), NEW X, Sound(m, X)
    PROVE  Sound(m2, X \cup {p}) /\ p \notin X /\ p \in Nat
<1>1. PICK x : x = <<KernelContext, v>>
    OBVIOUS
<1>2. x \in DOMAIN m.map /\ p = m.map[x] /\ x[1] = KernelContext
    BY <1>1 DEF Present, PhysicalFor
<1>3. p \in RamPages /\ x \in Mapped(m)
    BY <1>2 DEF Sound, MapSound, Mapped, ShowsIopb
<1>4. /\ m2.tab = m.tab /\ m2.list = m.list /\ DOMAIN m2.map = DOMAIN m.map \ {x}
      /\ \A y \in DOMAIN m2.map : m2.map[y] = m.map[y]
    BY <1>1, UnmapPageIs
<1>5. ListSound(m2) /\ FreePages(m2) = FreePages(m)
    BY <1>4 DEF Sound, ListSound, FreePages
<1>6. Mapped(m2) = Mapped(m) \ {x}
    BY <1>4 DEF Mapped
<1>7. \A y \in Mapped(m2) : m2.map[y] = m.map[y]
    BY <1>4 DEF Mapped
<1>8. Owned(m2, X \cup {p}) /\ p \notin X
    BY <1>2, <1>3, <1>4, <1>5, <1>6, <1>7 DEF Sound, Owned
<1>9. MapSound(m2)
    BY <1>4 DEF Sound, MapSound
<1> QED BY <1>3, <1>5, <1>8, <1>9, RamIs DEF Sound, ListSound

LEMMA RangeAdded ==
    ASSUME NEW m \in Memories, NEW s \in DOMAIN m.list, NEW e \in [start : Nat, count : Nat], NEW g \in Int,
           NEW X, Sound(m, X), PagesOf(m.list[s]) = {}, PagesOf(e) \subseteq X, e.count > 0
    PROVE  Sound(WithRange(m, s, e, g), X \ PagesOf(e))
<1>1. PICK m2 : m2 = WithRange(m, s, e, g)
    OBVIOUS
<1>2. e \in Entries
    BY DEF Entries
<1>3. /\ m2.map = m.map /\ m2.tab = m.tab /\ DOMAIN m2.list = DOMAIN m.list
      /\ m2.list[s] = e /\ \A i \in DOMAIN m.list : i # s => m2.list[i] = m.list[i]
    BY <1>1, <1>2, RangeReplaced
<1>4. X \subseteq RamPages /\ X \cap FreePages(m) = {}
    BY DEF Sound, Owned
<1>5. FreePages(m2) = FreePages(m) \cup PagesOf(e)
    BY <1>3 DEF FreePages
<1>6. \A i \in DOMAIN m.list : PagesOf(m.list[i]) \cap PagesOf(e) = {}
    BY <1>4 DEF FreePages
<1>7. ListSound(m2)
    BY <1>3, <1>4, <1>6 DEF Sound, ListSound
<1>8. Mapped(m2) = Mapped(m)
    BY <1>3 DEF Mapped
<1>9. Owned(m2, X \ PagesOf(e))
    BY <1>3, <1>4, <1>5, <1>8 DEF Sound, Owned
<1>10. MapSound(m2)
    BY <1>3 DEF Sound, MapSound
<1> QED BY <1>1, <1>7, <1>9, <1>10 DEF Sound

LEMMA UnusedIs == UnusedEntry \in Entries /\ UnusedEntry \in [start : Nat, count : Nat] /\ PagesOf(UnusedEntry) = {}
BY DEF UnusedEntry, Entries, PagesOf

\* The list with a page of unused entries more.
Longer(m, m2, a) ==
    /\ m2 \in Memories /\ m2.map = a.map /\ m2.tab = a.tab /\ m2.state = a.state
    /\ Len(m.list) \in Nat /\ Len(m.list) + 1 \in DOMAIN m2.list /\ m2.list[Len(m.list) + 1] = UnusedEntry
    /\ DOMAIN a.list \subseteq DOMAIN m2.list
    /\ \A i \in DOMAIN m2.list : IF i \in DOMAIN a.list THEN m2.list[i] = a.list[i] ELSE m2.list[i] = UnusedEntry

LEMMA ExtendListIs ==
    ASSUME NEW m \in Memories, NEW d \in BOOLEAN
    PROVE  Longer(m, ExtendList(m, d), AllocPages(m, 1))
<1>1. PICK a : a = AllocPages(m, 1)
    OBVIOUS
<1>2. AllocIs(m, 1, a)
    BY <1>1, AllocPagesIs
<1>3. a \in Memories /\ Len(a.list) = Len(m.list)
    BY <1>2 DEF AllocIs, Follows, SameList
<1>4. a.list \in Seq(Entries)
    BY <1>3 DEF Memories
<1> DEFINE news == [i \in 1 .. ListSlots |-> UnusedEntry]
<1>5. news \in Seq(Entries) /\ Len(news) = ListSlots
    BY Assumed, UnusedIs
<1>6. PICK l : l = a.list \o news
    OBVIOUS
<1>7. \A i \in 1 .. ListSlots : news[i] = UnusedEntry
    OBVIOUS
<1> HIDE DEF news
<1>8. /\ l \in Seq(Entries) /\ Len(l) = Len(a.list) + ListSlots
      /\ \A i \in 1 .. Len(l) : l[i] = IF i <= Len(a.list) THEN a.list[i] ELSE news[i - Len(a.list)]
    <2>1. PICK q \in Seq(Entries), r \in Seq(Entries) : q = a.list /\ r = news /\ Len(r) = ListSlots
        BY <1>4, <1>5
    <2>2. /\ q \o r \in Seq(Entries) /\ Len(q \o r) = Len(q) + Len(r)
          /\ \A i \in 1 .. Len(q) + Len(r) : (q \o r)[i] = IF i <= Len(q) THEN q[i] ELSE r[i - Len(q)]
        OBVIOUS
    <2> QED BY <1>6, <2>1, <2>2
<1>9. /\ Len(a.list) \in Nat /\ DOMAIN a.list = 1 .. Len(a.list) /\ DOMAIN l = 1 .. Len(l) /\ ListSlots \in Nat /\ ListSlots > 0
    BY <1>4, <1>8, Assumed
<1>10. \A i \in DOMAIN l : IF i \in DOMAIN a.list THEN l[i] = a.list[i] ELSE l[i] = UnusedEntry
    <2> SUFFICES ASSUME NEW i \in DOMAIN l PROVE IF i \in DOMAIN a.list THEN l[i] = a.list[i] ELSE l[i] = UnusedEntry
        OBVIOUS
    <2>1. i \in 1 .. Len(l)
        BY <1>9
    <2>2. CASE i <= Len(a.list)
        BY <1>8, <1>9, <2>1, <2>2
    <2>3. CASE ~(i <= Len(a.list))
        <3>1. i - Len(a.list) \in 1 .. ListSlots /\ i \notin DOMAIN a.list
            BY <1>8, <1>9, <2>1, <2>3
        <3> QED BY <1>7, <1>8, <2>1, <2>3, <3>1
    <2> QED BY <2>2, <2>3
<1>11. /\ Len(m.list) + 1 \in DOMAIN l /\ Len(m.list) + 1 \notin DOMAIN a.list /\ DOMAIN a.list \subseteq DOMAIN l
    BY <1>3, <1>8, <1>9
<1>12. ExtendList(m, d) = [a EXCEPT !.list = l, !.open = d]
    BY <1>1, <1>3, <1>6 DEF ExtendList, news, Memories
<1>13. /\ [a EXCEPT !.list = l, !.open = d] \in Memories
       /\ [a EXCEPT !.list = l, !.open = d].list = l /\ [a EXCEPT !.list = l, !.open = d].map = a.map
       /\ [a EXCEPT !.list = l, !.open = d].tab = a.tab /\ [a EXCEPT !.list = l, !.open = d].state = a.state
    BY <1>3, <1>8 DEF Memories
<1> QED BY <1>1, <1>3, <1>9, <1>10, <1>11, <1>12, <1>13 DEF Longer

LEMMA LongerSound ==
    ASSUME NEW m, NEW m2, NEW a, Longer(m, m2, a), NEW X, Sound(a, X)
    PROVE  Sound(m2, X)
<1> USE DEF Longer
<1>1. \A i \in DOMAIN m2.list : \/ i \in DOMAIN a.list /\ m2.list[i] = a.list[i]
                                \/ m2.list[i] = UnusedEntry
    OBVIOUS
<1>2. FreePages(m2) = FreePages(a)
    <2>1. \A i \in DOMAIN a.list : i \in DOMAIN m2.list /\ m2.list[i] = a.list[i]
        OBVIOUS
    <2> QED BY <1>1, <2>1, UnusedIs DEF FreePages
<1>3. ListSound(m2)
    BY <1>1, UnusedIs DEF Sound, ListSound
<1>4. Mapped(m2) = Mapped(a)
    BY DEF Mapped
<1>5. Owned(m2, X)
    BY <1>2, <1>4 DEF Sound, Owned
<1>6. MapSound(m2)
    BY DEF Sound, MapSound
<1> QED BY <1>3, <1>5, <1>6 DEF Sound

\* The four outcomes of marking pages free.
LEMMA MarkFreeCases ==
    ASSUME NEW m \in Memories, NEW p \in Int, NEW n \in Int, NEW d \in BOOLEAN, NEW m2, m2 = MarkFree(m, p, n, d)
    PROVE  LET range == [start |-> p, count |-> n] IN
           \/ m2 = m
           \/ m2 = FellOff(m, "wild")
           \/ \E s \in DOMAIN m.list : m.list[s] = UnusedEntry /\ m2 = WithRange(m, s, range, m.got)
           \/ m2 = WithRange(ExtendList(m, d), Len(m.list) + 1, range, ExtendList(m, d).got)
<1> DEFINE range == [start |-> p, count |-> n]
           I == {i \in 1 .. Len(m.list) : m.list[i] = UnusedEntry}
           unused == FirstUnused(m)
<1>1. m.list \in Seq(Entries)
    BY DEF Memories
<1>2. unused = (IF I # {} THEN Min(I) ELSE 0) /\ I \in SUBSET Nat
    BY DEF FirstUnused, SelectInSeq
<1>3. unused # 0 => unused \in DOMAIN m.list /\ m.list[unused] = UnusedEntry
    <2>1. I # {} => Min(I) \in I
        <3> HIDE DEF I
        <3> QED BY <1>2, LeastNumber
    <2> HIDE DEF unused
    <2> QED BY <1>1, <1>2, <2>1
<1>4. m2 = IF Covered(m, p, n) THEN m
           ELSE IF m.open THEN FellOff(m, "wild")
           ELSE IF unused # 0 THEN [m EXCEPT !.list[unused] = range]
           ELSE [ExtendList(m, d) EXCEPT !.list[Len(m.list) + 1] = range]
    BY Zenon DEF MarkFree
<1> HIDE DEF unused, I
<1>5. PICK x : x = ExtendList(m, d)
    OBVIOUS
<1>6. x \in Memories
    BY <1>5, ExtendListIs DEF Longer
<1>7. [m EXCEPT !.list[unused] = range] = WithRange(m, unused, range, m.got)
    BY DEF WithRange, Memories
<1>8. [x EXCEPT !.list[Len(m.list) + 1] = range] = WithRange(x, Len(m.list) + 1, range, x.got)
    BY <1>6 DEF WithRange, Memories
<1> HIDE DEF range
<1>9. \/ m2 = m \/ m2 = FellOff(m, "wild") \/ (unused # 0 /\ m2 = [m EXCEPT !.list[unused] = range])
      \/ m2 = [x EXCEPT !.list[Len(m.list) + 1] = range]
    BY <1>4, <1>5, Zenon
<1> QED BY <1>3, <1>5, <1>7, <1>8, <1>9 DEF range

LEMMA MarkFreeKeeps ==
    ASSUME NEW m \in Memories, NEW p \in Int, NEW n \in Int, NEW d \in BOOLEAN
    PROVE  Follows(m, MarkFree(m, p, n, d), KernelContext, Nat)
<1>1. PICK m2 : m2 = MarkFree(m, p, n, d)
    OBVIOUS
<1>2. PICK range \in Entries : range = [start |-> p, count |-> n]
    BY DEF Entries
<1>3. CASE m2 = m
    BY <1>1, <1>3, FollowsSelf
<1>4. CASE m2 = FellOff(m, "wild")
    <2>1. m2 \in Memories /\ ~Ok(m2) /\ m2.map = m.map /\ m2.tab = m.tab
        BY <1>4, FellOffIs
    <2> QED BY <1>1, <2>1 DEF Follows, Present, PhysicalFor, HasTable, Tabled
<1>5. ASSUME NEW s \in DOMAIN m.list, m2 = WithRange(m, s, range, m.got) PROVE Follows(m, m2, KernelContext, Nat)
    <2>1. PICK g \in Int : g = m.got
        BY DEF Memories
    <2>2. m2 \in Memories /\ m2.map = m.map /\ m2.tab = m.tab /\ m2.state = m.state
        BY <1>5, <2>1, RangeReplaced
    <2> QED BY <2>2 DEF Follows, Present, PhysicalFor, HasTable, Tabled, Ok
<1>6. CASE m2 = WithRange(ExtendList(m, d), Len(m.list) + 1, range, ExtendList(m, d).got)
    <2>1. PICK x, a : x = ExtendList(m, d) /\ a = AllocPages(m, 1)
        OBVIOUS
    <2>2. Longer(m, x, a) /\ AllocIs(m, 1, a)
        BY <2>1, ExtendListIs, AllocPagesIs
    <2>3. PICK g \in Int, s \in DOMAIN x.list : g = x.got /\ s = Len(m.list) + 1
        BY <2>2 DEF Memories, Longer
    <2>4. m2 = WithRange(x, s, range, g) /\ x \in Memories
        BY <1>6, <2>1, <2>2, <2>3 DEF Longer
    <2>5. m2 \in Memories /\ m2.map = x.map /\ m2.tab = x.tab /\ m2.state = x.state
        BY <2>4, RangeReplaced
    <2>6. Follows(m, a, KernelContext, Nat) /\ m2.map = a.map /\ m2.tab = a.tab /\ m2.state = a.state
        BY <2>2, <2>5 DEF Longer, AllocIs
    <2>7. Follows(m, m2, KernelContext, Nat)
        BY <2>5, <2>6 DEF Follows, Present, PhysicalFor, HasTable, Tabled, Ok
    <2> QED BY <1>1, <2>7
<1> QED BY <1>1, <1>2, <1>3, <1>4, <1>5, <1>6, MarkFreeCases

LEMMA MarkFreeOwned ==
    ASSUME NEW m \in Memories, NEW p \in Nat, NEW n \in Nat \ {0}, NEW d \in BOOLEAN, NEW X, NEW Y,
           Ok(MarkFree(m, p, n, d)), Sound(m, X), Y \subseteq X, p .. p + n - 1 \subseteq X \ Y
    PROVE  Sound(MarkFree(m, p, n, d), Y)
<1>1. PICK m2 : m2 = MarkFree(m, p, n, d)
    OBVIOUS
<1>2. PICK range \in [start : Nat, count : Nat] : range = [start |-> p, count |-> n]
    OBVIOUS
<1>3. PagesOf(range) \subseteq X \ Y
    BY <1>2 DEF PagesOf
<1>4. Y \subseteq X \ PagesOf(range)
    BY <1>3
<1>5. CASE m2 = m
    BY <1>1, <1>5, LessOwned
<1>6. CASE m2 = FellOff(m, "wild")
    BY <1>1, <1>6, FellOffIs
<1>7. ASSUME NEW s \in DOMAIN m.list, m.list[s] = UnusedEntry, m2 = WithRange(m, s, range, m.got) PROVE Sound(m2, Y)
    <2>1. PICK g \in Int : g = m.got
        BY DEF Memories
    <2>2. PagesOf(m.list[s]) = {} /\ PagesOf(range) \subseteq X /\ range.count > 0
        BY <1>2, <1>3, <1>7, UnusedIs
    <2>3. Sound(WithRange(m, s, range, g), X \ PagesOf(range))
        BY <2>2, RangeAdded
    <2> QED BY <1>4, <1>7, <2>1, <2>3, LessOwned
<1>8. CASE m2 = WithRange(ExtendList(m, d), Len(m.list) + 1, range, ExtendList(m, d).got)
    <2>1. PICK x, a : x = ExtendList(m, d) /\ a = AllocPages(m, 1)
        OBVIOUS
    <2>2. Longer(m, x, a) /\ AllocIs(m, 1, a)
        BY <2>1, ExtendListIs, AllocPagesIs
    <2>3. PICK g \in Int, s \in DOMAIN x.list : g = x.got /\ s = Len(m.list) + 1
        BY <2>2 DEF Memories, Longer
    <2>4. m2 = WithRange(x, s, range, g) /\ x \in Memories /\ PagesOf(x.list[s]) = {}
        BY <1>8, <2>1, <2>2, <2>3, UnusedIs DEF Longer
    <2>5. range \in Entries
        BY DEF Entries
    <2>6. m2.state = x.state
        BY <2>4, <2>5, RangeReplaced
    <2>7. Ok(a)
        BY <1>1, <2>2, <2>6 DEF Ok, Longer
    <2>8. Sound(x, X)
        BY <2>2, <2>7, LongerSound DEF AllocIs
    <2>9. Sound(WithRange(x, s, range, g), X \ PagesOf(range))
        <3>1. PagesOf(range) \subseteq X /\ range.count > 0
            BY <1>2, <1>3
        <3> QED BY <2>4, <2>8, <3>1, RangeAdded
    <2>10. Sound(m2, Y)
        BY <1>4, <2>4, <2>9, LessOwned
    <2> QED BY <1>1, <2>10
<1> QED BY <1>1, <1>2, <1>5, <1>6, <1>7, <1>8, MarkFreeCases

\* What a step leaves alone that frees pages V of the kernel heap.
Gives(m, m2, V) ==
    /\ m2 \in Memories
    /\ Ok(m2) => Ok(m)
    /\ \A e, v : ~(e = KernelContext /\ v \in V) => (Present(m, e, v) => Present(m2, e, v))
    /\ \A e, v : e # KernelContext => /\ Present(m2, e, v) => Present(m, e, v)
                                      /\ PhysicalFor(m2, e, v) = PhysicalFor(m, e, v)
    /\ Tabled(m) => Tabled(m2)

\* Page first need not be there.
LEMMA GiveBackKeeps ==
    ASSUME NEW m \in Memories, NEW first \in Nat, NEW v \in Nat, dirty \in BOOLEAN
    PROVE  Gives(m, GiveBack(m, first, v), {v})
<1>1. PICK u : u = UnmapPage(m, KernelContext, v)
    OBVIOUS
<1>2. PICK p \in Int : p = PhysicalFor(m, KernelContext, first)
    BY MapIs DEF PhysicalFor, Present, Memories
<1>3. PICK m2 : m2 = GiveBack(m, first, v)
    OBVIOUS
<1>4. m2 = MarkFree(u, p, 1, dirty)
    BY <1>1, <1>2, <1>3 DEF GiveBack
<1>5. /\ u \in Memories /\ u.state = m.state /\ u.tab = m.tab /\ DOMAIN u.map = DOMAIN m.map \ {<<KernelContext, v>>}
      /\ \A x \in DOMAIN u.map : u.map[x] = m.map[x]
    BY <1>1, UnmapPageIs
<1>6. Follows(u, m2, KernelContext, Nat)
    BY <1>4, <1>5, MarkFreeKeeps
<1>7. /\ \A e, w : ~(e = KernelContext /\ w = v) => (Present(u, e, w) <=> Present(m, e, w))
      /\ \A e, w : e # KernelContext => PhysicalFor(u, e, w) = PhysicalFor(m, e, w)
    BY <1>5 DEF Present, PhysicalFor
<1>8. Tabled(m) => Tabled(u)
    BY <1>5 DEF Tabled, HasTable
<1>9. Gives(m, m2, {v})
    BY <1>5, <1>6, <1>7, <1>8 DEF Gives, Follows, Ok
<1> QED BY <1>3, <1>9

LEMMA FreePageKeeps ==
    ASSUME NEW m \in Memories, NEW v \in Nat, dirty \in BOOLEAN
    PROVE  Gives(m, FreePage(m, v), {v})
BY GiveBackKeeps DEF FreePage

LEMMA FreePageOwned ==
    ASSUME NEW m \in Memories, NEW v \in Nat, dirty \in BOOLEAN, Ok(FreePage(m, v)), Present(m, KernelContext, v),
           NEW X, Sound(m, X)
    PROVE  Sound(FreePage(m, v), X)
<1>1. PICK u : u = UnmapPage(m, KernelContext, v)
    OBVIOUS
<1>2. PICK p : p = PhysicalFor(m, KernelContext, v)
    OBVIOUS
<1>3. FreePage(m, v) = MarkFree(u, p, 1, dirty) /\ u \in Memories
    BY <1>1, <1>2, UnmapPageIs DEF FreePage, GiveBack
<1>4. Sound(u, X \cup {p}) /\ p \notin X /\ p \in Nat
    BY <1>1, <1>2, UnmapOwned
<1>5. p .. p + 1 - 1 \subseteq (X \cup {p}) \ X /\ X \subseteq X \cup {p}
    BY <1>4
<1>6. PICK Y : Y = X \cup {p}
    OBVIOUS
<1>7. Sound(MarkFree(u, p, 1, dirty), X)
    BY <1>3, <1>4, <1>5, <1>6, MarkFreeOwned
<1> QED BY <1>3, <1>7

\* The pages of one block, one after the other.
LEMMA FreeWalk ==
    ASSUME NEW m \in Memories, NEW v \in Nat, NEW num \in Nat, dirty \in BOOLEAN
    PROVE  LET at[i \in 0 .. num] == IF i = 0 THEN m ELSE FreePage(at[i - 1], v + i - 1)
           IN  /\ Gives(m, at[num], v .. v + num - 1)
               /\ \A X : Ok(at[num]) /\ Sound(m, X) /\ AllPresent(m, KernelContext, v, v + num) => Sound(at[num], X)
<1> DEFINE at[i \in 0 .. num] == IF i = 0 THEN m ELSE FreePage(at[i - 1], v + i - 1)
           IsAt(f) == f = [i \in 0 .. num |-> IF i = 0 THEN m ELSE FreePage(f[i - 1], v + i - 1)]
           G == [n \in Nat |-> [x \in Memories |-> IF n = 0 THEN m ELSE FreePage(x, v + n - 1)]]
<1>1. ASSUME NEW x \in Memories, NEW w \in Nat
      PROVE  FreePage(x, w) \in Memories
    BY FreePageKeeps DEF Gives
<1>2. PICK f : IsWalk(Memories, m, G, num, f)
    <2>1. CanWalk(Memories, m, G, num)
        <3> SUFFICES ASSUME NEW n \in Nat, NEW x \in Memories PROVE G[n][x] \in Memories
            BY DEF CanWalk
        <3>1. n # 0 => v + n - 1 \in Nat
            OBVIOUS
        <3> QED BY <1>1, <3>1
    <2> HIDE DEF G
    <2> QED BY <2>1, StepByStep
<1>3. IsAt(f)
    <2>1. ASSUME NEW i \in 1 .. num PROVE f[i] = FreePage(f[i - 1], v + i - 1)
        <3>1. f[i - 1] \in Memories
            BY <1>2 DEF IsWalk
        <3>2. G[i][f[i - 1]] = FreePage(f[i - 1], v + i - 1)
            BY <3>1
        <3> HIDE DEF G
        <3> QED BY <1>2, <3>2 DEF IsWalk
    <2> HIDE DEF G
    <2> QED BY <1>2, <2>1 DEF IsWalk
<1>4. at = CHOOSE g : IsAt(g)
    OBVIOUS
<1>5. IsAt(at)
    <2> HIDE DEF at, IsAt
    <2> QED BY <1>3, <1>4
<1> HIDE DEF at
<1>6. at[0] = m /\ \A i \in 1 .. num : at[i] = FreePage(at[i - 1], v + i - 1)
    BY <1>5
<1> DEFINE Inv(i) == /\ Gives(m, at[i], v .. v + i - 1)
                     /\ \A X : Ok(at[i]) /\ Sound(m, X) /\ AllPresent(m, KernelContext, v, v + num) => Sound(at[i], X)
           T == {i \in Nat : i <= num => Inv(i)}
<1>7. 0 \in T
    <2>1. Inv(0)
        BY <1>6 DEF Gives
    <2> QED BY <2>1
<1>8. ASSUME NEW i \in T PROVE i + 1 \in T
    <2> SUFFICES ASSUME i + 1 <= num PROVE Inv(i + 1)
        OBVIOUS
    <2>1. Inv(i)
        OBVIOUS
    <2>2. PICK x : x = at[i]
        OBVIOUS
    <2>3. PICK w \in Nat : w = v + i
        OBVIOUS
    <2>4. PICK y : y = FreePage(x, w) /\ y = at[i + 1]
        BY <1>6, <2>2, <2>3
    <2>5. x \in Memories
        BY <2>1, <2>2 DEF Gives
    <2>6. Gives(x, y, {w})
        BY <2>4, <2>5, FreePageKeeps
    <2>7. Gives(m, y, v .. v + (i + 1) - 1)
        <3>1. w \in v .. v + (i + 1) - 1 /\ v .. v + i - 1 \subseteq v .. v + (i + 1) - 1
            BY <2>3
        <3> QED BY <2>1, <2>2, <2>6, <3>1 DEF Gives
    <2>8. ASSUME NEW X, Ok(y), Sound(m, X), AllPresent(m, KernelContext, v, v + num) PROVE Sound(y, X)
        <3>1. Ok(x)
            BY <2>6, <2>8 DEF Gives
        <3>2. Sound(x, X)
            BY <2>1, <2>2, <2>8, <3>1
        <3>3. w \in v .. v + num - 1 /\ w \notin v .. v + i - 1
            BY <2>3
        <3>4. Present(x, KernelContext, w)
            BY <2>1, <2>2, <2>8, <3>3 DEF Gives, AllPresent
        <3> QED BY <2>4, <2>5, <2>8, <3>2, <3>4, FreePageOwned
    <2> QED BY <2>4, <2>7, <2>8
<1>9. T = Nat
    <2> HIDE DEF T
    <2>1. T \in SUBSET Nat
        BY DEF T
    <2> QED BY <1>7, <1>8, <2>1, CountingUp
<1>10. Inv(num)
    BY <1>9
<1> QED BY <1>10 DEF at

\* The same when always page v is looked up.
LEMMA LoseWalk ==
    ASSUME NEW m \in Memories, NEW v \in Nat, NEW num \in Nat, dirty \in BOOLEAN
    PROVE  LET at[i \in 0 .. num] == IF i = 0 THEN m ELSE GiveBack(at[i - 1], v, v + i - 1)
           IN  Gives(m, at[num], v .. v + num - 1) /\ (num = 1 => at[num] = FreePage(m, v))
<1> DEFINE at[i \in 0 .. num] == IF i = 0 THEN m ELSE GiveBack(at[i - 1], v, v + i - 1)
           IsAt(f) == f = [i \in 0 .. num |-> IF i = 0 THEN m ELSE GiveBack(f[i - 1], v, v + i - 1)]
           G == [n \in Nat |-> [x \in Memories |-> IF n = 0 THEN m ELSE GiveBack(x, v, v + n - 1)]]
<1>1. ASSUME NEW x \in Memories, NEW w \in Nat
      PROVE  GiveBack(x, v, w) \in Memories
    BY GiveBackKeeps DEF Gives
<1>2. PICK f : IsWalk(Memories, m, G, num, f)
    <2>1. CanWalk(Memories, m, G, num)
        <3> SUFFICES ASSUME NEW n \in Nat, NEW x \in Memories PROVE G[n][x] \in Memories
            BY DEF CanWalk
        <3>1. n # 0 => v + n - 1 \in Nat
            OBVIOUS
        <3> QED BY <1>1, <3>1
    <2> HIDE DEF G
    <2> QED BY <2>1, StepByStep
<1>3. IsAt(f)
    <2>1. ASSUME NEW i \in 1 .. num PROVE f[i] = GiveBack(f[i - 1], v, v + i - 1)
        <3>1. f[i - 1] \in Memories
            BY <1>2 DEF IsWalk
        <3>2. G[i][f[i - 1]] = GiveBack(f[i - 1], v, v + i - 1)
            BY <3>1
        <3> HIDE DEF G
        <3> QED BY <1>2, <3>2 DEF IsWalk
    <2> HIDE DEF G
    <2> QED BY <1>2, <2>1 DEF IsWalk
<1>4. at = CHOOSE g : IsAt(g)
    OBVIOUS
<1>5. IsAt(at)
    <2> HIDE DEF at, IsAt
    <2> QED BY <1>3, <1>4
<1> HIDE DEF at
<1>6. at[0] = m /\ \A i \in 1 .. num : at[i] = GiveBack(at[i - 1], v, v + i - 1)
    BY <1>5
<1> DEFINE Inv(i) == Gives(m, at[i], v .. v + i - 1)
           T == {i \in Nat : i <= num => Inv(i)}
<1>7. 0 \in T
    <2>1. Inv(0)
        BY <1>6 DEF Gives
    <2> QED BY <2>1
<1>8. ASSUME NEW i \in T PROVE i + 1 \in T
    <2> SUFFICES ASSUME i + 1 <= num PROVE Inv(i + 1)
        OBVIOUS
    <2>1. Inv(i)
        OBVIOUS
    <2>2. PICK x : x = at[i]
        OBVIOUS
    <2>3. PICK w \in Nat : w = v + i
        OBVIOUS
    <2>4. PICK y : y = GiveBack(x, v, w) /\ y = at[i + 1]
        BY <1>6, <2>2, <2>3
    <2>5. x \in Memories
        BY <2>1, <2>2 DEF Gives
    <2>6. Gives(x, y, {w})
        BY <2>4, <2>5, GiveBackKeeps
    <2>7. Gives(m, y, v .. v + (i + 1) - 1)
        <3>1. w \in v .. v + (i + 1) - 1 /\ v .. v + i - 1 \subseteq v .. v + (i + 1) - 1
            BY <2>3
        <3> QED BY <2>1, <2>2, <2>6, <3>1 DEF Gives
    <2> QED BY <2>4, <2>7
<1>9. T = Nat
    <2> HIDE DEF T
    <2>1. T \in SUBSET Nat
        BY DEF T
    <2> QED BY <1>7, <1>8, <2>1, CountingUp
<1>10. Inv(num)
    BY <1>9
<1>11. num = 1 => at[num] = FreePage(m, v)
    <2> SUFFICES ASSUME num = 1 PROVE at[1] = FreePage(m, v)
        OBVIOUS
    <2>1. at[1] = GiveBack(at[0], v, v + 1 - 1) /\ v + 1 - 1 = v
        BY <1>6
    <2> QED BY <1>6, <2>1 DEF FreePage
<1> QED BY <1>10, <1>11 DEF at

-----------------------------------------------------------------------------
(* The memory of processes *)

LEMMA QuotientBetween ==
    ASSUME NEW n \in Nat, NEW q \in Int, NEW s \in Nat \ {0}, s * q <= n, n < s * q + s
    PROVE  n \div s = q
<1> DEFINE d == n \div s
<1>1. d \in Nat /\ n % s \in 0 .. s - 1 /\ s * d = n - (n % s)
    BY Division
<1> HIDE DEF d
<1>2. d > q => s * (q + 1) <= s * d
    BY <1>1, TimesGrows
<1>3. d < q => s * (d + 1) <= s * q
    BY <1>1, TimesGrows
<1>4. s * (q + 1) = s * q + s /\ s * (d + 1) = s * d + s
    BY <1>1
<1> QED BY <1>1, <1>2, <1>3, <1>4 DEF d

LEMMA NoRemainder ==
    ASSUME NEW n \in Nat, NEW q \in Int, NEW s \in Nat \ {0}, s * q = n
    PROVE  n % s = 0
<1>1. n \div s = q
    BY QuotientBetween
<1>2. n % s \in 0 .. s - 1 /\ s * (n \div s) = n - (n % s)
    BY Division
<1> QED BY <1>1, <1>2

Missing(m, c, v) == PhysicalFor(m, c, v) = 0

FillPage(m, c, v) == IF Missing(m, c, v) THEN MapNewPage(m, c, v) ELSE m

Grows(m, m2, c, from, to) ==
    /\ Follows(m, m2, c, from .. to - 1)
    /\ AllPresent(m2, c, from, to)
    /\ \A X : Ok(m2) /\ Sound(m, X) => Sound(m2, X)

LEMMA FillPageIs ==
    ASSUME NEW m \in Memories, NEW c \in Nat, NEW v \in Nat, NEW m2, m2 = FillPage(m, c, v)
    PROVE  /\ Follows(m, m2, c, {v}) /\ Present(m2, c, v)
           /\ \A X : Ok(m2) /\ Sound(m, X) => Sound(m2, X)
<1>1. CASE Missing(m, c, v)
    <2>1. m2 = MapNewPage(m, c, v)
        BY <1>1 DEF FillPage
    <2> QED BY <2>1, MapNewPageKeeps, MapNewPageOwned
<1>2. CASE ~Missing(m, c, v)
    <2>1. m2 = m /\ Present(m, c, v)
        BY <1>2 DEF FillPage, Missing, PhysicalFor
    <2> QED BY <2>1, FollowsSelf
<1> QED BY <1>1, <1>2

LEMMA GrownIs ==
    ASSUME NEW m \in Memories, NEW c \in Nat, NEW from \in Nat, NEW to \in Nat
    PROVE  Grows(m, Grown(m, c, from, to), c, from, to)
<1>a. CASE ~(from < to)
    <2>1. Grown(m, c, from, to) = m /\ from .. to - 1 = {}
        BY <1>a DEF Grown
    <2>2. Grows(m, m, c, from, to)
        BY <2>1, FollowsSelf DEF Grows, AllPresent
    <2> QED BY <2>1, <2>2
<1> SUFFICES ASSUME from < to PROVE Grows(m, Grown(m, c, from, to), c, from, to)
    BY <1>a
<1> DEFINE num == to - from
           at[i \in 0 .. to - from] ==
               IF i = 0 THEN m
               ELSE LET before == at[i - 1]
                        v == from + i - 1
                    IN  IF PhysicalFor(before, c, v) = 0 THEN MapNewPage(before, c, v) ELSE before
           IsAt(f) == f = [i \in 0 .. to - from |->
               IF i = 0 THEN m
               ELSE LET before == f[i - 1]
                        v == from + i - 1
                    IN  IF PhysicalFor(before, c, v) = 0 THEN MapNewPage(before, c, v) ELSE before]
           G == [n \in Nat |-> [x \in Memories |-> IF n = 0 THEN m ELSE FillPage(x, c, from + n - 1)]]
<1>0. num \in Nat
    OBVIOUS
<1>1. ASSUME NEW x \in Memories, NEW w \in Nat
      PROVE  FillPage(x, c, w) \in Memories
    BY FillPageIs DEF Follows
<1>2. PICK f : IsWalk(Memories, m, G, num, f)
    <2>1. CanWalk(Memories, m, G, num)
        <3> SUFFICES ASSUME NEW n \in Nat, NEW x \in Memories PROVE G[n][x] \in Memories
            BY <1>0 DEF CanWalk
        <3>1. n # 0 => from + n - 1 \in Nat
            OBVIOUS
        <3> QED BY <1>1, <3>1
    <2> HIDE DEF G
    <2> QED BY <2>1, StepByStep
<1>3. IsAt(f)
    <2>1. ASSUME NEW i \in 1 .. num PROVE f[i] = FillPage(f[i - 1], c, from + i - 1)
        <3>1. f[i - 1] \in Memories
            BY <1>2 DEF IsWalk
        <3>2. G[i][f[i - 1]] = FillPage(f[i - 1], c, from + i - 1)
            BY <3>1
        <3> HIDE DEF G
        <3> QED BY <1>2, <3>2 DEF IsWalk
    <2> HIDE DEF G
    <2> QED BY <1>2, <2>1 DEF IsWalk, FillPage, Missing
<1>4. at = CHOOSE g : IsAt(g)
    OBVIOUS
<1>5. IsAt(at)
    <2> HIDE DEF at, IsAt
    <2> QED BY <1>3, <1>4
<1>6. Grown(m, c, from, to) = at[num]
    BY DEF Grown
<1> HIDE DEF at
<1>7. at[0] = m /\ \A i \in 1 .. num : at[i] = FillPage(at[i - 1], c, from + i - 1)
    BY <1>5 DEF FillPage, Missing
<1> DEFINE T == {i \in Nat : i <= num => Grows(m, at[i], c, from, from + i)}
<1>8. 0 \in T
    <2>1. Grows(m, at[0], c, from, from + 0)
        BY <1>7, FollowsSelf DEF Grows, AllPresent
    <2> QED BY <2>1
<1>9. ASSUME NEW i \in T PROVE i + 1 \in T
    <2> SUFFICES ASSUME i + 1 <= num PROVE Grows(m, at[i + 1], c, from, from + (i + 1))
        OBVIOUS
    <2>1. Grows(m, at[i], c, from, from + i)
        OBVIOUS
    <2>2. PICK x : x = at[i]
        OBVIOUS
    <2>3. PICK w \in Nat : w = from + i
        OBVIOUS
    <2>4. PICK y : y = FillPage(x, c, w) /\ y = at[i + 1]
        BY <1>7, <2>2, <2>3
    <2>5. x \in Memories
        BY <2>1, <2>2 DEF Grows, Follows
    <2>6. /\ Follows(x, y, c, {w}) /\ Present(y, c, w)
          /\ \A X : Ok(y) /\ Sound(x, X) => Sound(y, X)
        BY <2>4, <2>5, FillPageIs
    <2>7. {w} \subseteq from .. from + (i + 1) - 1 /\ from .. from + i - 1 \subseteq from .. from + (i + 1) - 1
        BY <2>3
    <2>8. Follows(m, y, c, from .. from + (i + 1) - 1)
        <3>1. PICK V : V = from .. from + (i + 1) - 1
            OBVIOUS
        <3>2. Follows(x, y, c, V) /\ Follows(m, x, c, V)
            BY <2>1, <2>2, <2>6, <2>7, <3>1, FollowsMore DEF Grows
        <3> QED BY <3>1, <3>2, FollowsOn
    <2>9. AllPresent(y, c, from, from + (i + 1))
        <3> SUFFICES ASSUME NEW u \in from .. from + (i + 1) - 1 PROVE Present(y, c, u)
            BY DEF AllPresent
        <3>1. u = w \/ u \in from .. from + i - 1
            BY <2>3
        <3> QED BY <2>1, <2>2, <2>6, <3>1 DEF Grows, AllPresent, Follows
    <2>10. \A X : Ok(y) /\ Sound(m, X) => Sound(y, X)
        BY <2>1, <2>2, <2>6 DEF Grows, Follows
    <2> QED BY <2>4, <2>8, <2>9, <2>10 DEF Grows
<1>10. T = Nat
    <2> HIDE DEF T
    <2>1. T \in SUBSET Nat
        BY DEF T
    <2> QED BY <1>8, <1>9, <2>1, CountingUp
<1>11. Grows(m, at[num], c, from, from + num) /\ from + num = to
    BY <1>0, <1>10
<1> QED BY <1>6, <1>11

LEMMA SetIopbIs ==
    ASSUME NEW m \in Memories, NEW c \in Nat, c # KernelContext, NEW iopb \in Int, NEW m2, m2 = SetIopb(m, c, iopb)
    PROVE  /\ Follows(m, m2, c, IopermPage .. IopermPage + 1)
           /\ \A X : Ok(m2) /\ Sound(m, X) => Sound(m2, X)
<1>1. PICK p \in Int, q \in Int : m2 = MapPage(MapPage(m, c, IopermPage, p), c, IopermPage + 1, q)
    BY DEF SetIopb, NoIopb, TssPage
<1>2. PICK m1 : m1 = MapPage(m, c, IopermPage, p)
    OBVIOUS
<1>3. PICK v \in Nat, w \in Nat : v = IopermPage /\ w = IopermPage + 1
    BY LayoutIs
<1>4. Follows(m, m1, c, {v}) /\ m1 \in Memories
    BY <1>2, <1>3, MapPageKeeps DEF Follows
<1>5. Follows(m1, m2, c, {w}) /\ m2 = MapPage(m1, c, w, q)
    BY <1>1, <1>2, <1>3, <1>4, MapPageKeeps
<1>6. PICK V : V = IopermPage .. IopermPage + 1
    OBVIOUS
<1>7. {v} \subseteq V /\ {w} \subseteq V
    BY <1>3, <1>6
<1>8. Follows(m, m2, c, V)
    <2>1. Follows(m, m1, c, V) /\ Follows(m1, m2, c, V)
        BY <1>4, <1>5, <1>7, FollowsMore
    <2> QED BY <2>1, FollowsOn
<1>9. ASSUME NEW X, Ok(m2), Sound(m, X) PROVE Sound(m2, X)
    <2>1. MayMap(c, v, p, X, X) /\ MayMap(c, w, q, X, X)
        BY <1>3 DEF MayMap, ShowsIopb
    <2>2. Ok(m1)
        BY <1>5, <1>9 DEF Follows
    <2>3. Sound(m1, X)
        BY <1>2, <1>3, <1>9, <2>1, <2>2, MapPageOwned
    <2> QED BY <1>4, <1>5, <1>9, <2>1, <2>3, MapPageOwned
<1> QED BY <1>6, <1>8, <1>9

-----------------------------------------------------------------------------
(* Copies of address spaces *)

LEMMA CopyPageIs ==
    ASSUME NEW m \in Memories, NEW c \in Nat, NEW d \in Nat, NEW v \in Nat, NEW m2, m2 = CopyPage(m, c, d, v)
    PROVE  /\ Follows(m, m2, d, {v}) /\ (Present(m, c, v) => Present(m2, d, v))
           /\ Present(m2, d, v) => Present(m, d, v) \/ Present(m, c, v)
           /\ \A X : Ok(m2) /\ Sound(m, X) => Sound(m2, X)
<1>1. PICK m1 : m1 = EnsureTable(m, d, v)
    OBVIOUS
<1>2. m2 = IF Present(m1, c, v) THEN MapNewPage(m1, d, v) ELSE m1
    BY <1>1 DEF CopyPage
<1>3. /\ Follows(m, m1, d, {v}) /\ m1.map = m.map
      /\ \A X : Ok(m1) /\ Sound(m, X) => Sound(m1, X)
    <2>1. Follows(m, m1, d, {}) /\ m1.map = m.map /\ {} \subseteq {v}
        BY <1>1, EnsureTableKeeps
    <2> QED BY <1>1, <2>1, FollowsMore, EnsureTableOwned
<1>4. m1 \in Memories /\ (Present(m1, c, v) <=> Present(m, c, v)) /\ (Present(m1, d, v) <=> Present(m, d, v))
    BY <1>3 DEF Follows, Present
<1>5. CASE Present(m1, c, v)
    <2>1. m2 = MapNewPage(m1, d, v)
        BY <1>2, <1>5
    <2>2. Follows(m1, m2, d, {v}) /\ Present(m2, d, v)
        BY <1>4, <2>1, MapNewPageKeeps
    <2>3. Follows(m, m2, d, {v})
        BY <1>3, <2>2, FollowsOn
    <2>4. ASSUME NEW X, Ok(m2), Sound(m, X) PROVE Sound(m2, X)
        <3>1. Sound(m1, X)
            BY <1>3, <2>2, <2>4 DEF Follows
        <3> QED BY <1>4, <2>1, <2>4, <3>1, MapNewPageOwned
    <2> QED BY <1>4, <1>5, <2>2, <2>3, <2>4
<1>6. CASE ~Present(m1, c, v)
    BY <1>2, <1>3, <1>4, <1>6
<1> QED BY <1>5, <1>6

-----------------------------------------------------------------------------
(* Tables and directories by number *)

LEMMA Exactly ==
    ASSUME NEW n \in Nat, NEW q \in Nat, NEW s \in Nat \ {0}, s * q = n
    PROVE  n \div s = q /\ n % s = 0
<1>1. q \in Int
    OBVIOUS
<1>2. n % s = 0
    BY <1>1, NoRemainder
<1>3. s * q <= n /\ n < s * q + s
    OBVIOUS
<1> QED BY <1>1, <1>2, <1>3, QuotientBetween

LEMMA Multiple ==
    ASSUME NEW n \in Nat, NEW s \in Nat \ {0}, n % s = 0
    PROVE  n \div s \in Nat /\ s * (n \div s) = n
<1>1. n \div s \in Nat /\ s * (n \div s) = n - (n % s)
    BY Division
<1> QED BY <1>1

\* The quotient of the next number.
LEMMA NextQuotient ==
    ASSUME NEW n \in Nat, NEW s \in Nat \ {0}
    PROVE  \/ (n + 1) \div s = n \div s
           \/ (n + 1) \div s = (n \div s) + 1 /\ (n + 1) % s = 0
<1>1. PICK q \in Nat, r \in 0 .. s - 1 : q = n \div s /\ r = n % s /\ s * q = n - r
    BY Division
<1>2. CASE r + 1 < s
    <2>1. s * q <= n + 1 /\ n + 1 < s * q + s
        BY <1>1, <1>2
    <2>2. PICK k \in Nat : k = n + 1
        OBVIOUS
    <2>3. s * q <= k /\ k < s * q + s
        BY <2>1, <2>2
    <2>4. k \div s = q
        BY <2>3, QuotientBetween
    <2> QED BY <1>1, <2>2, <2>4
<1>3. CASE r + 1 = s
    <2>1. s * (q + 1) = s * q + s
        OBVIOUS
    <2>2. s * (q + 1) = n + 1
        BY <1>1, <1>3, <2>1
    <2>3. PICK u \in Nat, k \in Nat : u = q + 1 /\ k = n + 1
        OBVIOUS
    <2>4. s * u = k
        BY <2>2, <2>3
    <2>5. k \div s = u /\ k % s = 0
        BY <2>4, Exactly
    <2> QED BY <1>1, <2>3, <2>5
<1> QED BY <1>1, <1>2, <1>3

\* The numbers from a multiple to the next one.
LEMMA WholeQuotient ==
    ASSUME NEW n \in Nat, NEW s \in Nat \ {0}, n % s = 0
    PROVE  /\ (n + s) \div s = (n \div s) + 1 /\ (n + s) % s = 0
           /\ \A w \in n .. n + s - 1 : w \div s = n \div s
<1>1. PICK q \in Nat : q = n \div s /\ s * q = n
    BY Multiple
<1>2. s * (q + 1) = s * q + s
    OBVIOUS
<1>3. PICK u \in Nat, k \in Nat : u = q + 1 /\ k = n + s
    OBVIOUS
<1>4. s * u = k
    BY <1>1, <1>2, <1>3
<1>5. k \div s = u /\ k % s = 0
    BY <1>4, Exactly
<1>6. ASSUME NEW w \in n .. n + s - 1 PROVE w \div s = q
    <2>1. w \in Nat /\ s * q <= w /\ w < s * q + s
        BY <1>1
    <2> QED BY <2>1, QuotientBetween
<1> QED BY <1>1, <1>3, <1>5, <1>6

LEMMA QuotientTwice ==
    ASSUME NEW n \in Nat, NEW s \in Nat \ {0}, NEW e \in Nat \ {0}
    PROVE  (n \div s) \div e = n \div (s * e)
<1>1. PICK t \in Nat, r \in 0 .. s - 1 : t = n \div s /\ s * t = n - r
    BY Division
<1>2. PICK q \in Nat, x \in 0 .. e - 1 : q = t \div e /\ e * q = t - x
    BY Division
<1>3. PICK a \in Nat \ {0} : a = s * e
    <2>1. s * 1 <= s * e
        BY TimesGrows
    <2> QED BY <2>1
<1>4. a * q = s * (e * q) /\ s * (e * q + e) = s * (e * q) + a /\ s * (t + 1) = s * t + s
    <2>1. PICK b \in Nat : b = e * q
        OBVIOUS
    <2>2. s * (b + e) = s * b + s * e
        OBVIOUS
    <2> QED BY <1>3, <2>1, <2>2
<1>5. PICK b \in Nat : b = e * q
    OBVIOUS
<1>6. s * b <= s * t
    <2>1. b <= t
        BY <1>2, <1>5
    <2> QED BY <2>1, TimesGrows
<1>7. s * (t + 1) <= s * (b + e)
    <2>1. t + 1 <= b + e
        BY <1>2, <1>5
    <2> QED BY <2>1, TimesGrows
<1>8. a * q <= n /\ n < a * q + a
    BY <1>1, <1>4, <1>5, <1>6, <1>7
<1>9. n \div a = q
    BY <1>8, QuotientBetween
<1> QED BY <1>1, <1>2, <1>3, <1>9

\* A multiple of a product is one of both.
LEMMA NoRemainders ==
    ASSUME NEW n \in Nat, NEW s \in Nat \ {0}, NEW e \in Nat \ {0}
    PROVE  n % (s * e) = 0 <=> n % s = 0 /\ (n \div s) % e = 0
<1>1. PICK a \in Nat \ {0} : a = s * e
    <2>1. s * 1 <= s * e
        BY TimesGrows
    <2> QED BY <2>1
<1>2. ASSUME n % a = 0 PROVE n % s = 0 /\ (n \div s) % e = 0
    <2>1. PICK k \in Nat : a * k = n
        BY <1>2, Multiple
    <2>2. PICK b \in Nat : b = e * k
        OBVIOUS
    <2>3. s * b = n
        BY <1>1, <2>1, <2>2
    <2>4. n \div s = b /\ n % s = 0
        BY <2>3, Exactly
    <2>5. b % e = 0
        BY <2>2, Exactly
    <2> QED BY <2>4, <2>5
<1>3. ASSUME n % s = 0, (n \div s) % e = 0 PROVE n % a = 0
    <2>1. PICK t \in Nat : t = n \div s /\ s * t = n
        BY <1>3, Multiple
    <2>2. PICK k \in Nat : e * k = t
        BY <1>3, <2>1, Multiple
    <2>3. a * k = n
        BY <1>1, <2>1, <2>2
    <2> QED BY <2>3, Exactly
<1> QED BY <1>1, <1>2, <1>3

LEMMA Widths == Span \in Nat \ {0} /\ Dirs \in Nat \ {0} /\ Dirs > 1 /\ Tops \in Nat \ {0} /\ Tops > 1 /\ Span * Dirs \in Nat \ {0}
<1>1. Span \in Nat \ {0} /\ Dirs \in Nat \ {0} /\ Dirs > 1 /\ Tops \in Nat \ {0} /\ Tops > 1
    BY PhysMemAssumption, VirtualMemoryAssumption
<1>2. Span * 1 <= Span * Dirs
    BY <1>1, TimesGrows
<1> QED BY <1>1, <1>2

\* Where page v is.
LEMMA PlaceOf ==
    ASSUME NEW v \in Nat
    PROVE  /\ PtOf(v) \in Nat /\ PdOf(v) \in Nat /\ PdOf(v) = v \div (Span * Dirs)
           /\ PtOf(v) * Span + (v % Span) = v /\ PdOf(v) * Dirs + (PtOf(v) % Dirs) = PtOf(v)
<1>1. PICK t \in Nat, r \in Nat : t = v \div Span /\ r = v % Span /\ Span * t = v - r
    <2>1. PICK s \in Nat \ {0} : s = Span
        BY Widths
    <2>2. v \div s \in Nat /\ v % s \in Nat /\ s * (v \div s) = v - (v % s)
        BY Division
    <2> QED BY <2>1, <2>2
<1>2. PICK p \in Nat, x \in Nat : p = t \div Dirs /\ x = t % Dirs /\ Dirs * p = t - x
    <2>1. ASSUME NEW y \in Nat PROVE y \div Dirs \in Nat /\ y % Dirs \in Nat /\ Dirs * (y \div Dirs) = y - (y % Dirs)
        <3>1. PICK s \in Nat \ {0} : s = Dirs
            BY Widths
        <3>2. y \div s \in Nat /\ y % s \in Nat /\ s * (y \div s) = y - (y % s)
            BY Division
        <3> QED BY <3>1, <3>2
    <2> QED BY <2>1
<1>3. p = v \div (Span * Dirs)
    BY <1>1, <1>2, Widths, QuotientTwice
<1>4. Span * t = t * Span /\ Dirs * p = p * Dirs
    BY Widths
<1> QED BY <1>1, <1>2, <1>3, <1>4 DEF PtOf, PdOf

LEMMA PlacesGrow ==
    ASSUME NEW v \in Nat, NEW w \in Nat, v <= w
    PROVE  PtOf(v) <= PtOf(w) /\ PdOf(v) <= PdOf(w)
<1>1. PICK a \in Nat \ {0} : a = Span * Dirs
    BY Widths
<1>2. v \div Span <= w \div Span /\ v \div a <= w \div a
    BY Widths, DivisionGrows
<1> QED BY <1>1, <1>2, PlaceOf DEF PtOf

\* The table behind table PtOf(v) is in the same directory, or begins one.
LEMMA TableBehind ==
    ASSUME NEW v \in Nat, NEW w \in Nat, PtOf(w) = PtOf(v) + 1, w % Span = 0
    PROVE  \/ PdOf(w) = PdOf(v)
           \/ PdOf(w) = PdOf(v) + 1 /\ w % (Span * Dirs) = 0
<1>1. PICK t \in Nat : t = PtOf(v) /\ PtOf(w) = t + 1
    BY PlaceOf
<1>2. \/ (t + 1) \div Dirs = t \div Dirs
      \/ (t + 1) \div Dirs = (t \div Dirs) + 1 /\ (t + 1) % Dirs = 0
    BY Widths, NextQuotient
<1>3. w % (Span * Dirs) = 0 <=> w % Span = 0 /\ (w \div Span) % Dirs = 0
    BY Widths, NoRemainders
<1> QED BY <1>1, <1>2, <1>3 DEF PdOf, PtOf

-----------------------------------------------------------------------------
(* Copying a range *)

Copying == [m : Memories, v : Nat, pd : Nat \cup {NoTable}, pt : Nat \cup {NoTable}]

CopyOf(m, v, pd, pt) == [m |-> m, v |-> v, pd |-> pd, pt |-> pt]

CopyOn(s, c, d, to) == IF s.v >= to \/ ~Ok(s.m) THEN s ELSE CopyStep(s, c, d)

LEMMA CachedType ==
    ASSUME NEW last \in Nat \cup {NoTable}, NEW t \in Nat, NEW n
    PROVE  Cached(last, t, n) \in Nat
BY DEF Cached

LEMMA CopyingReplaced ==
    ASSUME NEW s \in Copying, NEW y \in Memories, NEW n \in Nat, NEW p \in Nat
    PROVE  /\ [s EXCEPT !.m = y, !.v = n] = CopyOf(y, n, s.pd, s.pt)
           /\ [s EXCEPT !.v = n] = CopyOf(s.m, n, s.pd, s.pt)
           /\ [s EXCEPT !.v = n, !.pd = p] = CopyOf(s.m, n, p, s.pt)
<1>1. ASSUME NEW z \in Copying PROVE z = [m |-> z.m, v |-> z.v, pd |-> z.pd, pt |-> z.pt]
    BY DEF Copying
<1>2. PICK z : z = [s EXCEPT !.m = y, !.v = n]
    OBVIOUS
<1>3. z \in Copying /\ z.m = y /\ z.v = n /\ z.pd = s.pd /\ z.pt = s.pt
    BY <1>2 DEF Copying
<1>4. [s EXCEPT !.v = n] = [m |-> s.m, v |-> n, pd |-> s.pd, pt |-> s.pt]
    BY DEF Copying
<1>5. PICK z2 : z2 = [s EXCEPT !.v = n, !.pd = p]
    OBVIOUS
<1>6. z2 \in Copying /\ z2.m = s.m /\ z2.v = n /\ z2.pd = p /\ z2.pt = s.pt
    BY <1>5 DEF Copying
<1> QED BY <1>1, <1>2, <1>3, <1>4, <1>5, <1>6 DEF CopyOf

\* The outcomes of a round: no pdp, no directory, no table, or a page w.
Round(s, s2, x, v, c, d, pd, t, pt, w) ==
    \/ s2 = CopyOf(Stopped(x, "wild"), v + 1, s.pd, s.pt)
    \/ ~HasPd(x, c, PdOf(v)) /\ s2 = CopyOf(x, v + Span * Dirs, s.pd, s.pt)
    \/ HasPd(x, c, PdOf(v)) /\ ~HasPt(x, c, t) /\ s2 = CopyOf(x, v + Span, pd, s.pt)
    \/ HasPd(x, c, PdOf(v)) /\ HasPt(x, c, t) /\ s2 = CopyOf(CopyPage(x, c, d, w), v + 1, pd, pt)

LEMMA CopyStepCases ==
    ASSUME NEW s \in Copying, NEW c \in Nat, NEW d \in Nat,
           NEW x, NEW v, x = s.m, v = s.v
    PROVE  \E pd \in Nat, t \in Nat, pt \in Nat, w \in Nat :
              /\ pd = Cached(s.pd, PdOf(v), Tops) /\ t = pd * Dirs + (PtOf(v) % Dirs) /\ pt = Cached(s.pt, t, Dirs)
              /\ w = pt * Span + (v % Span)
              /\ Round(s, CopyStep(s, c, d), x, v, c, d, pd, t, pt, w)
<1>1. v \in Nat /\ PtOf(v) \in Nat /\ PdOf(v) \in Nat /\ s.pd \in Nat \cup {NoTable} /\ s.pt \in Nat \cup {NoTable}
    BY PlaceOf DEF Copying
<1>2. PICK pd \in Nat : pd = Cached(s.pd, PdOf(v), Tops)
    BY <1>1, CachedType
<1>3. PICK t \in Nat : t = pd * Dirs + (PtOf(v) % Dirs)
    <2>1. ASSUME NEW y \in Nat, NEW n \in Nat \ {0} PROVE y % n \in Nat
        BY <2>1, Division
    <2>2. PtOf(v) % Dirs \in Nat /\ pd * Dirs \in Nat
        BY <1>1, <2>1, Widths
    <2> QED BY <2>2
<1>4. PICK pt \in Nat : pt = Cached(s.pt, t, Dirs)
    BY <1>1, CachedType
<1>5. PICK w \in Nat : w = pt * Span + (v % Span)
    <2>1. ASSUME NEW y \in Nat, NEW n \in Nat \ {0} PROVE y % n \in Nat
        BY <2>1, Division
    <2>2. v % Span \in Nat /\ pt * Span \in Nat
        BY <1>1, <2>1, Widths
    <2> QED BY <2>2
<1>6. s = CopyOf(x, v, s.pd, s.pt)
    BY DEF Copying, CopyOf
<1>7. CopyStep(s, c, d) =
          IF ~HasPdp(x, c, PdpOf(v)) THEN [s EXCEPT !.m = Stopped(@, "wild"), !.v = @ + 1]
          ELSE IF ~HasPd(x, c, PdOf(v)) THEN [s EXCEPT !.v = @ + PdStride]
          ELSE IF ~HasPt(x, c, t) THEN [s EXCEPT !.v = @ + PtStride, !.pd = pd]
          ELSE CopyOf(CopyPage(x, c, d, w), v + 1, pd, pt)
    BY <1>2, <1>3, <1>4, <1>5, Zenon DEF CopyStep, CopyOf
<1>8. [s EXCEPT !.m = Stopped(@, "wild"), !.v = @ + 1] = CopyOf(Stopped(x, "wild"), v + 1, s.pd, s.pt)
    <2>1. PICK y \in Memories, n \in Nat : y = Stopped(s.m, "wild") /\ n = s.v + 1
        <3>1. s.m \in Memories /\ s.v + 1 \in Nat /\ "wild" \in States
            BY DEF Copying, States
        <3> QED BY <3>1, StoppedIs
    <2>2. [s EXCEPT !.m = y, !.v = n] = CopyOf(y, n, s.pd, s.pt)
        BY CopyingReplaced
    <2> QED BY <2>1, <2>2, Zenon
<1>9. [s EXCEPT !.v = @ + PdStride] = CopyOf(x, v + Span * Dirs, s.pd, s.pt)
    <2>1. PICK n \in Nat : n = s.v + PdStride
        BY Widths DEF Copying, PdStride
    <2>2. [s EXCEPT !.v = n] = CopyOf(x, n, s.pd, s.pt)
        <3>1. s.m \in Memories
            BY DEF Copying
        <3>2. [s EXCEPT !.v = n] = CopyOf(s.m, n, s.pd, s.pt)
            BY <3>1, CopyingReplaced
        <3> QED BY <3>2
    <2> QED BY <2>1, <2>2, Zenon DEF PdStride
<1>10. [s EXCEPT !.v = @ + PtStride, !.pd = pd] = CopyOf(x, v + Span, pd, s.pt)
    <2>1. PICK n \in Nat : n = s.v + PtStride
        BY Widths DEF Copying, PtStride
    <2>2. [s EXCEPT !.v = n, !.pd = pd] = CopyOf(x, n, pd, s.pt)
        <3>1. s.m \in Memories
            BY DEF Copying
        <3>2. [s EXCEPT !.v = n, !.pd = pd] = CopyOf(s.m, n, pd, s.pt)
            BY <3>1, CopyingReplaced
        <3> QED BY <3>2
    <2> QED BY <2>1, <2>2, Zenon DEF PtStride
<1>11. Round(s, CopyStep(s, c, d), x, v, c, d, pd, t, pt, w)
    BY <1>7, <1>8, <1>9, <1>10, Zenon DEF Round
<1> QED BY <1>2, <1>3, <1>4, <1>5, <1>11

LEMMA CopyingIs ==
    ASSUME NEW m \in Memories, NEW v \in Nat, NEW pd \in Nat \cup {NoTable}, NEW pt \in Nat \cup {NoTable}
    PROVE  /\ CopyOf(m, v, pd, pt) \in Copying /\ CopyOf(m, v, pd, pt).m = m /\ CopyOf(m, v, pd, pt).v = v
           /\ CopyOf(m, v, pd, pt).pd = pd /\ CopyOf(m, v, pd, pt).pt = pt
BY DEF Copying, CopyOf

LEMMA CopyOnType ==
    ASSUME NEW s \in Copying, NEW c \in Nat, NEW d \in Nat, NEW to
    PROVE  CopyOn(s, c, d, to) \in Copying
<1>1. PICK x \in Memories, v \in Nat : x = s.m /\ v = s.v
    BY DEF Copying
<1>2. PICK a \in Nat \cup {NoTable}, b \in Nat \cup {NoTable} : a = s.pd /\ b = s.pt
    BY DEF Copying
<1>3. PICK pd \in Nat, t \in Nat, pt \in Nat, w \in Nat : Round(s, CopyStep(s, c, d), x, v, c, d, pd, t, pt, w)
    BY <1>1, CopyStepCases
<1>4. CopyPage(x, c, d, w) \in Memories
    BY CopyPageIs DEF Follows
<1>5. Stopped(x, "wild") \in Memories
    BY StoppedIs DEF States
<1>6. v + 1 \in Nat /\ v + Span \in Nat /\ v + Span * Dirs \in Nat
    BY Widths
<1>7. CopyStep(s, c, d) \in Copying
    <2>1. PICK k \in Nat, l \in Nat, n \in Nat, y \in Memories, z \in Memories :
              k = v + 1 /\ l = v + Span /\ n = v + Span * Dirs /\ y = CopyPage(x, c, d, w) /\ z = Stopped(x, "wild")
        BY <1>4, <1>5, <1>6
    <2>2. \/ CopyStep(s, c, d) = CopyOf(z, k, a, b) \/ CopyStep(s, c, d) = CopyOf(x, n, a, b)
          \/ CopyStep(s, c, d) = CopyOf(x, l, pd, b) \/ CopyStep(s, c, d) = CopyOf(y, k, pd, pt)
        BY <1>2, <1>3, <2>1, Zenon DEF Round
    <2>3. pd \in Nat \cup {NoTable} /\ pt \in Nat \cup {NoTable}
        OBVIOUS
    <2>4. CopyOf(z, k, a, b) \in Copying /\ CopyOf(x, n, a, b) \in Copying
        BY CopyingIs
    <2>5. CopyOf(x, l, pd, b) \in Copying /\ CopyOf(y, k, pd, pt) \in Copying
        BY <2>3, CopyingIs
    <2> QED BY <2>2, <2>4, <2>5, Zenon
<1> QED BY <1>7 DEF CopyOn

\* Pages from .. to - 1 of c that m has are there for d in m2.
HasCopies(m, m2, c, d, from, to) == \A w \in from .. to - 1 : Present(m, c, w) => Present(m2, d, w)

\* What d has got, c had.
OnlyOf(m, m2, c, d) == \A w : Present(m2, d, w) => Present(m, d, w) \/ Present(m, c, w)

TablesIn(m, c, from, to) == {t \in {PtOf(v) : v \in from .. to - 1} : HasPt(m, c, t)}

DirectoriesIn(m, c, from, to) == {p \in {PdOf(v) : v \in from .. to - 1} : HasPd(m, c, p)}

\* The table looked at last: none of S is between it and the one now.
LastOf(S, last, now) == last # NoTable => last \in S /\ last <= now /\ \A z \in S : ~(last < z /\ z < now)

LEMMA CachedIs ==
    ASSUME NEW S, NEW n, IndicesChange(S, n), NEW last, NEW now, now \in S, LastOf(S, last, now), S \subseteq Nat
    PROVE  Cached(last, now, n) = now
<1>1. CASE last # NoTable /\ last % n = now % n
    <2>1. last \in S /\ last <= now /\ \A z \in S : ~(last < z /\ z < now)
        BY <1>1 DEF LastOf
    <2>2. ~(last < now)
        BY <1>1, <2>1, Zenon DEF IndicesChange
    <2>3. last \in Nat /\ now \in Nat
        BY <2>1
    <2>4. last = now
        BY <2>1, <2>2, <2>3
    <2> QED BY <1>1, <2>4 DEF Cached
<1>2. CASE ~(last # NoTable /\ last % n = now % n)
    BY <1>2, Zenon DEF Cached
<1> QED BY <1>1, <1>2

\* Page v is where its directory begins, or in one that c has and there where
\* its table begins, or in one that c has.
AtTable(m, c, v) ==
    \/ v % (Span * Dirs) = 0
    \/ HasPd(m, c, PdOf(v)) /\ (v % Span = 0 \/ HasPt(m, c, PtOf(v)))

LEMMA TablesInIs ==
    ASSUME NEW m, NEW c, NEW from \in Nat, NEW to \in Nat
    PROVE  /\ TablesIn(m, c, from, to) \subseteq Nat /\ DirectoriesIn(m, c, from, to) \subseteq Nat
           /\ \A v \in from .. to - 1 : HasPt(m, c, PtOf(v)) => PtOf(v) \in TablesIn(m, c, from, to)
           /\ \A v \in from .. to - 1 : HasPd(m, c, PdOf(v)) => PdOf(v) \in DirectoriesIn(m, c, from, to)
           /\ \A t \in TablesIn(m, c, from, to) : \E v \in from .. to - 1 : t = PtOf(v) /\ HasPt(m, c, t)
           /\ CachesHold(m, c, from, to) =>
                 /\ IndicesChange(TablesIn(m, c, from, to), Dirs) /\ IndicesChange(DirectoriesIn(m, c, from, to), Tops)
                 /\ AtTable(m, c, from)
<1>1. \A v \in from .. to - 1 : PtOf(v) \in Nat /\ PdOf(v) \in Nat
    BY PlaceOf
<1>2. HasPt(m, c, PtOf(from)) => HasPd(m, c, PdOf(from))
    BY DEF HasPt, HasPd, PdOf
<1> QED BY <1>1, <1>2 DEF TablesIn, DirectoriesIn, CachesHold, AtTable

\* Pages that are there have a table and a directory.
LEMMA TabledIs ==
    ASSUME NEW m, Tabled(m), NEW c, NEW v, Present(m, c, v)
    PROVE  HasPt(m, c, PtOf(v)) /\ HasPd(m, c, PdOf(v))
<1>1. PICK x \in DOMAIN m.map : x = <<c, v>>
    BY DEF Present
<1>2. <<c, v \div Span>> \in DOMAIN m.tab
    BY <1>1 DEF Tabled, HasTable
<1> QED BY <1>2 DEF HasPt, HasPd, PtOf, PdOf

\* A round without a directory at v.
LEMMA SkipDirectory ==
    ASSUME NEW m, Tabled(m), NEW c, NEW from \in Nat, NEW to \in Nat, NEW v \in Nat, v >= from,
           AtTable(m, c, v), ~HasPd(m, c, PdOf(v)), NEW pd, NEW pt,
           LastOf(DirectoriesIn(m, c, from, to), pd, PdOf(v)), LastOf(TablesIn(m, c, from, to), pt, PtOf(v))
    PROVE  LET v2 == v + Span * Dirs IN
           /\ v2 \in Nat /\ v2 >= v + 1 /\ AtTable(m, c, v2)
           /\ LastOf(DirectoriesIn(m, c, from, to), pd, PdOf(v2)) /\ LastOf(TablesIn(m, c, from, to), pt, PtOf(v2))
           /\ \A w \in v .. v2 - 1 : ~Present(m, c, w)
<1>1. PICK a \in Nat \ {0} : a = Span * Dirs
    BY Widths
<1>2. PICK u \in Nat : u = v + a
    OBVIOUS
<1>3. v % a = 0
    BY <1>1 DEF AtTable
<1>4. (v + a) \div a = (v \div a) + 1 /\ (v + a) % a = 0 /\ \A w \in v .. v + a - 1 : w \div a = v \div a
    BY <1>3, WholeQuotient
<1>5. AtTable(m, c, u)
    BY <1>1, <1>2, <1>4 DEF AtTable
<1>6. \A w \in v .. u - 1 : PdOf(w) = PdOf(v)
    BY <1>1, <1>2, <1>4, PlaceOf
<1>7. PdOf(u) = PdOf(v) + 1 /\ PdOf(v) \in Nat /\ PtOf(v) \in Nat /\ PtOf(u) \in Nat /\ PtOf(v) <= PtOf(u)
    BY <1>1, <1>2, <1>4, PlaceOf, PlacesGrow
<1>8. \A w \in v .. u - 1 : ~Present(m, c, w)
    BY <1>6, TabledIs
<1>9. LastOf(DirectoriesIn(m, c, from, to), pd, PdOf(u))
    <2> SUFFICES ASSUME pd # NoTable, NEW z \in DirectoriesIn(m, c, from, to), pd < z, z < PdOf(u) PROVE FALSE
        <3>1. pd # NoTable => pd \in DirectoriesIn(m, c, from, to) /\ pd \in Nat /\ pd <= PdOf(v)
            BY TablesInIs DEF LastOf
        <3>2. pd # NoTable => pd <= PdOf(u)
            BY <1>7, <3>1
        <3> QED BY <3>1, <3>2, Zenon DEF LastOf
    <2>1. z \in Nat /\ pd \in Nat /\ HasPd(m, c, z)
        BY TablesInIs DEF LastOf, DirectoriesIn
    <2>2. z # PdOf(v)
        BY <2>1
    <2>3. z < PdOf(v)
        BY <1>7, <2>1, <2>2
    <2> QED BY <2>3 DEF LastOf
<1>10. LastOf(TablesIn(m, c, from, to), pt, PtOf(u))
    <2> SUFFICES ASSUME pt # NoTable, NEW z \in TablesIn(m, c, from, to), pt < z, z < PtOf(u) PROVE FALSE
        <3>1. pt # NoTable => pt \in Nat /\ pt <= PtOf(v)
            BY TablesInIs DEF LastOf
        <3>2. pt # NoTable => pt <= PtOf(u)
            BY <1>7, <3>1
        <3> QED BY <3>2 DEF LastOf
    <2>1. PICK w \in from .. to - 1 : z = PtOf(w) /\ HasPt(m, c, z)
        BY TablesInIs
    <2>2. w < u
        <3> SUFFICES ASSUME u <= w PROVE FALSE
            BY <1>2
        <3>1. PtOf(u) <= PtOf(w) /\ PtOf(w) \in Nat
            BY PlacesGrow, PlaceOf
        <3> QED BY <1>7, <2>1, <3>1
    <2>3. HasPd(m, c, PdOf(w))
        BY <2>1 DEF HasPt, HasPd, PdOf
    <2>4. w < v
        <3> SUFFICES ASSUME v <= w PROVE FALSE
            OBVIOUS
        <3>1. w \in v .. u - 1
            BY <2>2
        <3> QED BY <1>6, <2>3, <3>1
    <2>5. PtOf(w) <= PtOf(v) /\ PtOf(w) \in Nat
        BY <2>4, PlacesGrow, PlaceOf
    <2>6. PtOf(w) # PtOf(v)
        BY <2>3 DEF PdOf
    <2>7. z < PtOf(v)
        BY <1>7, <2>1, <2>5, <2>6
    <2> QED BY <2>7 DEF LastOf
<1> QED BY <1>1, <1>2, <1>5, <1>8, <1>9, <1>10

\* Page w begins the table behind the one of page v.
LEMMA NextTable ==
    ASSUME NEW m, NEW c, NEW from \in Nat, NEW to \in Nat, NEW v \in Nat, NEW w \in Nat, HasPd(m, c, PdOf(v)),
           PtOf(w) = PtOf(v) + 1, w % Span = 0
    PROVE  AtTable(m, c, w) /\ \A z \in Nat : ~(PdOf(v) < z /\ z < PdOf(w))
<1>1. \/ PdOf(w) = PdOf(v)
      \/ PdOf(w) = PdOf(v) + 1 /\ w % (Span * Dirs) = 0
    BY TableBehind
<1> QED BY <1>1, PlaceOf DEF AtTable

\* A round without a table at v.
LEMMA SkipTable ==
    ASSUME NEW m, Tabled(m), NEW c, NEW from \in Nat, NEW to \in Nat, NEW v \in Nat, v \in from .. to - 1,
           AtTable(m, c, v), HasPd(m, c, PdOf(v)), ~HasPt(m, c, PtOf(v)), NEW pt,
           LastOf(TablesIn(m, c, from, to), pt, PtOf(v))
    PROVE  LET v2 == v + Span IN
           /\ v2 \in Nat /\ v2 >= v + 1 /\ AtTable(m, c, v2)
           /\ LastOf(DirectoriesIn(m, c, from, to), PdOf(v), PdOf(v2)) /\ LastOf(TablesIn(m, c, from, to), pt, PtOf(v2))
           /\ \A w \in v .. v2 - 1 : ~Present(m, c, w)
<1>1. Span \in Nat \ {0}
    BY Widths
<1>2. PICK u \in Nat : u = v + Span
    BY <1>1
<1>3. v % Span = 0
    BY Widths, NoRemainders DEF AtTable
<1>4. (v + Span) \div Span = (v \div Span) + 1 /\ (v + Span) % Span = 0 /\ \A w \in v .. v + Span - 1 : w \div Span = v \div Span
    BY <1>1, <1>3, WholeQuotient
<1>5. PtOf(u) = PtOf(v) + 1 /\ u % Span = 0 /\ \A w \in v .. u - 1 : PtOf(w) = PtOf(v)
    <2>1. u \div Span = (v \div Span) + 1 /\ u % Span = 0
        BY <1>2, <1>4, Zenon
    <2>2. ASSUME NEW w \in v .. u - 1 PROVE w \div Span = v \div Span
        <3>1. w \in v .. v + Span - 1
            BY <1>1, <1>2
        <3> QED BY <1>4, <3>1, Zenon
    <2> QED BY <2>1, <2>2, Zenon DEF PtOf
<1>6. AtTable(m, c, u) /\ \A z \in Nat : ~(PdOf(v) < z /\ z < PdOf(u))
    BY <1>5, NextTable
<1>7. PtOf(v) \in Nat /\ PdOf(v) \in Nat /\ PdOf(v) <= PdOf(u)
    BY <1>1, <1>2, PlaceOf, PlacesGrow
<1>8. \A w \in v .. u - 1 : ~Present(m, c, w)
    BY <1>5, TabledIs
<1>9. LastOf(DirectoriesIn(m, c, from, to), PdOf(v), PdOf(u))
    BY <1>6, <1>7, TablesInIs DEF LastOf
<1>10. LastOf(TablesIn(m, c, from, to), pt, PtOf(u))
    <2> SUFFICES ASSUME pt # NoTable, NEW z \in TablesIn(m, c, from, to), pt < z, z < PtOf(u) PROVE FALSE
        <3>1. pt # NoTable => pt \in TablesIn(m, c, from, to) /\ pt \in Nat /\ pt <= PtOf(v)
            BY TablesInIs DEF LastOf
        <3>2. pt # NoTable => pt <= PtOf(u)
            BY <1>5, <1>7, <3>1
        <3> QED BY <3>1, <3>2, Zenon DEF LastOf
    <2>1. z \in Nat /\ HasPt(m, c, z)
        BY TablesInIs
    <2>2. z # PtOf(v)
        BY <2>1
    <2>3. z < PtOf(v)
        BY <1>5, <1>7, <2>1, <2>2
    <2> QED BY <2>3 DEF LastOf
<1> QED BY <1>1, <1>2, <1>6, <1>8, <1>9, <1>10

\* A round at a page whose table c has.
LEMMA PageBehind ==
    ASSUME NEW m, NEW c, NEW from \in Nat, NEW to \in Nat, NEW v \in Nat, v \in from .. to - 1,
           HasPd(m, c, PdOf(v)), HasPt(m, c, PtOf(v)), NEW u \in Nat, u = v + 1
    PROVE  /\ AtTable(m, c, u)
           /\ LastOf(DirectoriesIn(m, c, from, to), PdOf(v), PdOf(u))
           /\ LastOf(TablesIn(m, c, from, to), PtOf(v), PtOf(u))
<1>2. \/ (v + 1) \div Span = v \div Span
      \/ (v + 1) \div Span = (v \div Span) + 1 /\ (v + 1) % Span = 0
    BY Widths, NextQuotient
<1>3. PtOf(u) = PtOf(v) \/ (PtOf(u) = PtOf(v) + 1 /\ u % Span = 0)
    BY <1>2 DEF PtOf
<1>4. PtOf(v) \in Nat /\ PdOf(v) \in Nat /\ PdOf(v) <= PdOf(u) /\ PtOf(v) <= PtOf(u) /\ PtOf(u) \in Nat
    BY PlaceOf, PlacesGrow
<1>5. AtTable(m, c, u) /\ \A z \in Nat : ~(PdOf(v) < z /\ z < PdOf(u))
    <2>1. CASE PtOf(u) = PtOf(v)
        <3>1. PdOf(u) = PdOf(v)
            BY <2>1 DEF PdOf
        <3> QED BY <1>4, <2>1, <3>1 DEF AtTable
    <2>2. CASE PtOf(u) = PtOf(v) + 1 /\ u % Span = 0
        BY <2>2, NextTable
    <2> QED BY <1>3, <2>1, <2>2
<1>6. LastOf(DirectoriesIn(m, c, from, to), PdOf(v), PdOf(u))
    BY <1>4, <1>5, TablesInIs DEF LastOf
<1>7. LastOf(TablesIn(m, c, from, to), PtOf(v), PtOf(u))
    <2>1. PtOf(v) \in TablesIn(m, c, from, to) /\ TablesIn(m, c, from, to) \subseteq Nat
        BY TablesInIs
    <2>2. \A z \in Nat : ~(PtOf(v) < z /\ z < PtOf(u))
        BY <1>3, <1>4
    <2> QED BY <1>4, <2>1, <2>2 DEF LastOf
<1> QED BY <1>5, <1>6, <1>7

\* How far the walk is after i rounds.
Walks(m, s, c, d, from, to, i) ==
    /\ s.v >= from /\ (s.v >= to \/ s.v >= from + i)
    /\ AtTable(m, c, s.v)
    /\ LastOf(DirectoriesIn(m, c, from, to), s.pd, PdOf(s.v))
    /\ LastOf(TablesIn(m, c, from, to), s.pt, PtOf(s.v))
    /\ \A w \in from .. to - 1 : w < s.v /\ Present(m, c, w) => Present(s.m, d, w)

\* What i rounds of copying m have done.
Copied(m, s, c, d, from, to, i) ==
    /\ s \in Copying
    /\ Follows(m, s.m, d, Nat) /\ OnlyOf(m, s.m, c, d)
    /\ \A X : Ok(s.m) /\ Sound(m, X) => Sound(s.m, X)
    /\ Ok(s.m) /\ Tabled(m) /\ CachesHold(m, c, from, to) => Walks(m, s, c, d, from, to, i)

\* A round where the tables are what they are taken for.
LEMMA CopyStepWalks ==
    ASSUME NEW m \in Memories, NEW c \in Nat, NEW d \in Nat, c # d, NEW from \in Nat, NEW to \in Nat,
           NEW i \in Nat, NEW s, Copied(m, s, c, d, from, to, i), ~(s.v >= to), Ok(CopyStep(s, c, d).m), Ok(s.m),
           Tabled(m), CachesHold(m, c, from, to)
    PROVE  Walks(m, CopyStep(s, c, d), c, d, from, to, i + 1)
<1>1. PICK x \in Memories, v \in Nat : x = s.m /\ v = s.v
    BY DEF Copying, Copied
<1>2. PICK s2 : s2 = CopyStep(s, c, d)
    OBVIOUS
<1>3. s \in Copying /\ Follows(m, x, d, Nat) /\ Walks(m, s, c, d, from, to, i)
    BY <1>1 DEF Copied
<1>4. PICK pd \in Nat, t \in Nat, pt \in Nat, w \in Nat :
          /\ pd = Cached(s.pd, PdOf(v), Tops) /\ t = pd * Dirs + (PtOf(v) % Dirs) /\ pt = Cached(s.pt, t, Dirs)
          /\ w = pt * Span + (v % Span)
          /\ Round(s, s2, x, v, c, d, pd, t, pt, w)
    BY <1>1, <1>2, <1>3, CopyStepCases
<1>5. /\ v >= from /\ v < to /\ (v >= to \/ v >= from + i) /\ AtTable(m, c, v)
      /\ LastOf(DirectoriesIn(m, c, from, to), s.pd, PdOf(v)) /\ LastOf(TablesIn(m, c, from, to), s.pt, PtOf(v))
      /\ \A u \in from .. to - 1 : u < v /\ Present(m, c, u) => Present(x, d, u)
    BY <1>1, <1>3 DEF Walks
<1>6. v \in from .. to - 1
    BY <1>5
<1>7. /\ \A y : HasPt(x, c, y) <=> HasPt(m, c, y)
      /\ \A y : HasPd(x, c, y) <=> HasPd(m, c, y)
    <2>1. \A y : <<c, y>> \in DOMAIN x.tab <=> <<c, y>> \in DOMAIN m.tab
        BY <1>3 DEF Follows, HasTable
    <2>2. ASSUME NEW y \in Memories, NEW z \in DOMAIN y.tab PROVE z = <<z[1], z[2]>>
        <3>1. z \in Places
            BY <2>2, MapIs DEF Memories
        <3> QED BY <3>1 DEF Places
    <2> QED BY <2>1, <2>2 DEF HasPt, HasPd
<1>8. /\ IndicesChange(TablesIn(m, c, from, to), Dirs) /\ IndicesChange(DirectoriesIn(m, c, from, to), Tops)
      /\ TablesIn(m, c, from, to) \subseteq Nat /\ DirectoriesIn(m, c, from, to) \subseteq Nat
    BY TablesInIs
<1>9. s.pd \in Nat \cup {NoTable} /\ s.pt \in Nat \cup {NoTable}
    BY <1>3 DEF Copying
<1>10. CASE s2 = CopyOf(Stopped(x, "wild"), v + 1, s.pd, s.pt)
    <2>1. s2.m = Stopped(x, "wild")
        BY <1>10 DEF CopyOf
    <2>2. s2.m.state = "wild"
        BY <2>1, StoppedIs DEF States
    <2> QED BY <1>2, <2>2 DEF Ok
<1>11. CASE ~HasPd(x, c, PdOf(v)) /\ s2 = CopyOf(x, v + Span * Dirs, s.pd, s.pt)
    <2>1. PICK v2 : v2 = v + Span * Dirs
        OBVIOUS
    <2>2. /\ v2 \in Nat /\ v2 >= v + 1 /\ AtTable(m, c, v2)
          /\ LastOf(DirectoriesIn(m, c, from, to), s.pd, PdOf(v2)) /\ LastOf(TablesIn(m, c, from, to), s.pt, PtOf(v2))
          /\ \A u \in v .. v2 - 1 : ~Present(m, c, u)
        <3>1. ~HasPd(m, c, PdOf(v))
            BY <1>7, <1>11
        <3> QED BY <1>5, <2>1, <3>1, SkipDirectory
    <2>3. s2.m = x /\ s2.v = v2 /\ s2.pd = s.pd /\ s2.pt = s.pt
        BY <1>11, <2>1 DEF CopyOf
    <2>4. ASSUME NEW u \in from .. to - 1, u < v2, Present(m, c, u) PROVE Present(x, d, u)
        <3>1. u < v \/ u \in v .. v2 - 1
            BY <2>2, <2>4
        <3> QED BY <1>5, <2>2, <2>4, <3>1
    <2>5. v2 >= from /\ (v2 >= to \/ v2 >= from + (i + 1))
        BY <1>5, <2>2
    <2> QED BY <1>2, <2>2, <2>3, <2>4, <2>5 DEF Walks
<1>12. ASSUME HasPd(x, c, PdOf(v)) PROVE HasPd(m, c, PdOf(v)) /\ pd = PdOf(v) /\ t = PtOf(v)
    <2>1. HasPd(m, c, PdOf(v))
        BY <1>7, <1>12
    <2>2. PdOf(v) \in DirectoriesIn(m, c, from, to)
        BY <1>6, <2>1, TablesInIs
    <2>3. pd = PdOf(v)
        BY <1>4, <1>5, <1>8, <2>2, CachedIs
    <2> QED BY <1>4, <2>1, <2>3, PlaceOf
<1>13. CASE HasPd(x, c, PdOf(v)) /\ ~HasPt(x, c, t) /\ s2 = CopyOf(x, v + Span, pd, s.pt)
    <2>1. PICK v2 : v2 = v + Span
        OBVIOUS
    <2>2. HasPd(m, c, PdOf(v)) /\ ~HasPt(m, c, PtOf(v)) /\ pd = PdOf(v)
        BY <1>7, <1>12, <1>13
    <2>3. /\ v2 \in Nat /\ v2 >= v + 1 /\ AtTable(m, c, v2)
          /\ LastOf(DirectoriesIn(m, c, from, to), pd, PdOf(v2)) /\ LastOf(TablesIn(m, c, from, to), s.pt, PtOf(v2))
          /\ \A u \in v .. v2 - 1 : ~Present(m, c, u)
        BY <1>5, <1>6, <2>1, <2>2, SkipTable
    <2>4. s2.m = x /\ s2.v = v2 /\ s2.pd = pd /\ s2.pt = s.pt
        BY <1>13, <2>1 DEF CopyOf
    <2>5. ASSUME NEW u \in from .. to - 1, u < v2, Present(m, c, u) PROVE Present(x, d, u)
        <3>1. u < v \/ u \in v .. v2 - 1
            BY <2>3, <2>5
        <3> QED BY <1>5, <2>3, <2>5, <3>1
    <2>6. v2 >= from /\ (v2 >= to \/ v2 >= from + (i + 1))
        BY <1>5, <2>3
    <2> QED BY <1>2, <2>3, <2>4, <2>5, <2>6 DEF Walks
<1>14. CASE HasPd(x, c, PdOf(v)) /\ HasPt(x, c, t) /\ s2 = CopyOf(CopyPage(x, c, d, w), v + 1, pd, pt)
    <2>1. PICK v2 \in Nat : v2 = v + 1
        OBVIOUS
    <2>2. HasPd(m, c, PdOf(v)) /\ HasPt(m, c, PtOf(v)) /\ pd = PdOf(v) /\ t = PtOf(v)
        BY <1>7, <1>12, <1>14
    <2>3. pt = PtOf(v)
        <3>1. PtOf(v) \in TablesIn(m, c, from, to)
            BY <1>6, <2>2, TablesInIs
        <3>2. Cached(s.pt, PtOf(v), Dirs) = PtOf(v)
            BY <1>5, <1>8, <3>1, CachedIs
        <3> QED BY <1>4, <2>2, <3>2
    <2>4. w = v
        BY <1>4, <2>3, PlaceOf
    <2>5. /\ AtTable(m, c, v2)
          /\ LastOf(DirectoriesIn(m, c, from, to), pd, PdOf(v2)) /\ LastOf(TablesIn(m, c, from, to), pt, PtOf(v2))
        <3>1. /\ AtTable(m, c, v2)
              /\ LastOf(DirectoriesIn(m, c, from, to), PdOf(v), PdOf(v2))
              /\ LastOf(TablesIn(m, c, from, to), PtOf(v), PtOf(v2))
            BY <1>6, <2>1, <2>2, PageBehind
        <3> QED BY <2>2, <2>3, <3>1, Zenon
    <2>6. PICK y : y = CopyPage(x, c, d, v)
        OBVIOUS
    <2>7. s2.m = y /\ s2.v = v2 /\ s2.pd = pd /\ s2.pt = pt
        BY <1>14, <2>1, <2>4, <2>6 DEF CopyOf
    <2>8. Follows(x, y, d, {v}) /\ (Present(x, c, v) => Present(y, d, v))
        BY <2>6, CopyPageIs
    <2>9. ASSUME NEW u \in from .. to - 1, u < v2, Present(m, c, u) PROVE Present(y, d, u)
        <3>1. u < v \/ u = v
            BY <2>1, <2>9
        <3>2. CASE u < v
            BY <1>5, <2>8, <2>9, <3>2 DEF Follows
        <3>3. CASE u = v
            BY <1>3, <2>8, <2>9, <3>3 DEF Follows
        <3> QED BY <3>1, <3>2, <3>3
    <2>10. v2 >= from /\ (v2 >= to \/ v2 >= from + (i + 1))
        BY <1>5, <2>1
    <2> QED BY <1>2, <2>5, <2>7, <2>9, <2>10 DEF Walks
<1> QED BY <1>4, <1>10, <1>11, <1>13, <1>14 DEF Round

LEMMA CopyOnIs ==
    ASSUME NEW m \in Memories, NEW c \in Nat, NEW d \in Nat, c # d, NEW from \in Nat, NEW to \in Nat,
           NEW i \in Nat, NEW s, Copied(m, s, c, d, from, to, i)
    PROVE  Copied(m, CopyOn(s, c, d, to), c, d, from, to, i + 1)
<1>1. CASE s.v >= to \/ ~Ok(s.m)
    <2>1. CopyOn(s, c, d, to) = s
        BY <1>1 DEF CopyOn
    <2>2. Walks(m, s, c, d, from, to, i) /\ Ok(s.m) => Walks(m, s, c, d, from, to, i + 1)
        BY <1>1 DEF Walks
    <2> QED BY <2>1, <2>2 DEF Copied
<1>2. CASE ~(s.v >= to) /\ Ok(s.m)
    <2>1. PICK x \in Memories, v \in Nat : x = s.m /\ v = s.v
        BY DEF Copying, Copied
    <2>2. PICK s2 : s2 = CopyStep(s, c, d) /\ s2 = CopyOn(s, c, d, to)
        BY <1>2 DEF CopyOn
    <2>3. s \in Copying /\ Follows(m, x, d, Nat) /\ OnlyOf(m, x, c, d)
        BY <2>1 DEF Copied
    <2>4. s2 \in Copying
        BY <2>2, <2>3, CopyOnType
    <2>5. PICK pd \in Nat, t \in Nat, pt \in Nat, w \in Nat : Round(s, s2, x, v, c, d, pd, t, pt, w)
        <3>1. PICK pd \in Nat, t \in Nat, pt \in Nat, w \in Nat : Round(s, CopyStep(s, c, d), x, v, c, d, pd, t, pt, w)
            BY <2>1, <2>3, CopyStepCases
        <3> QED BY <2>2, <3>1
    <2>6. PICK y : y = CopyPage(x, c, d, w)
        OBVIOUS
    <2>7. s2.m = x \/ s2.m = y \/ s2.m = Stopped(x, "wild")
        BY <2>5, <2>6 DEF Round, CopyOf
    <2>8. /\ Follows(m, s2.m, d, Nat) /\ OnlyOf(m, s2.m, c, d)
          /\ \A X : Ok(s2.m) /\ Sound(m, X) => Sound(s2.m, X)
        <3>1. CASE s2.m = x
            BY <2>1, <2>3, <3>1 DEF Copied
        <3>2. CASE s2.m = Stopped(x, "wild")
            <4>1. PICK z : z = Stopped(x, "wild")
                OBVIOUS
            <4>2. z \in Memories /\ z.map = x.map /\ z.tab = x.tab /\ ~Ok(z)
                BY <4>1, StoppedIs DEF States, Ok
            <4>3. Follows(m, z, d, Nat) /\ OnlyOf(m, z, c, d)
                BY <2>3, <4>2 DEF Follows, Present, PhysicalFor, HasTable, Tabled, OnlyOf
            <4> QED BY <3>2, <4>1, <4>2, <4>3
        <3>3. CASE s2.m = y
            <4>1. /\ Follows(x, y, d, {w}) /\ (Present(y, d, w) => Present(x, d, w) \/ Present(x, c, w))
                  /\ \A X : Ok(y) /\ Sound(x, X) => Sound(y, X)
                BY <2>6, CopyPageIs
            <4>2. {w} \subseteq Nat
                OBVIOUS
            <4>3. Follows(x, y, d, Nat)
                BY <4>1, <4>2, FollowsMore
            <4>4. Follows(m, y, d, Nat)
                BY <2>3, <4>3, FollowsOn
            <4>5. OnlyOf(m, y, c, d)
                <5> SUFFICES ASSUME NEW u, Present(y, d, u) PROVE Present(m, d, u) \/ Present(m, c, u)
                    BY DEF OnlyOf
                <5>1. Present(x, d, u) \/ Present(x, c, u)
                    BY <4>1 DEF Follows
                <5>2. Present(x, c, u) => Present(m, c, u)
                    BY <2>3 DEF Follows
                <5> QED BY <2>3, <5>1, <5>2 DEF OnlyOf
            <4>6. \A X : Ok(y) /\ Sound(m, X) => Sound(y, X)
                BY <2>1, <4>1 DEF Copied, Follows
            <4> QED BY <3>3, <4>4, <4>5, <4>6
        <3> QED BY <2>7, <3>1, <3>2, <3>3
    <2>9. Ok(s2.m) /\ Tabled(m) /\ CachesHold(m, c, from, to) => Walks(m, s2, c, d, from, to, i + 1)
        <3> SUFFICES ASSUME Ok(s2.m), Tabled(m), CachesHold(m, c, from, to) PROVE Walks(m, s2, c, d, from, to, i + 1)
            OBVIOUS
        <3>1. Ok(CopyStep(s, c, d).m)
            BY <2>2
        <3>2. Walks(m, CopyStep(s, c, d), c, d, from, to, i + 1)
            BY <1>2, <3>1, CopyStepWalks
        <3> QED BY <2>2, <3>2
    <2>10. Copied(m, s2, c, d, from, to, i + 1)
        BY <2>4, <2>8, <2>9 DEF Copied
    <2> QED BY <2>2, <2>10
<1> QED BY <1>1, <1>2

Copies(m, m2, c, d, from, to) ==
    /\ Follows(m, m2, d, Nat) /\ OnlyOf(m, m2, c, d)
    /\ \A X : Ok(m2) /\ Sound(m, X) => Sound(m2, X)
    /\ Ok(m2) /\ Tabled(m) /\ CachesHold(m, c, from, to) => HasCopies(m, m2, c, d, from, to)

LEMMA CopyRangeIs ==
    ASSUME NEW m \in Memories, NEW c \in Nat, NEW d \in Nat, c # d, NEW from \in Nat, NEW to \in Nat
    PROVE  Copies(m, CopyRange(m, c, d, from, to), c, d, from, to)
<1> DEFINE at[i \in 0 .. to] ==
               IF i = 0 THEN [m |-> m, v |-> from, pd |-> NoTable, pt |-> NoTable]
               ELSE LET s == at[i - 1] IN IF s.v >= to \/ ~Ok(s.m) THEN s ELSE CopyStep(s, c, d)
           IsAt(f) == f = [i \in 0 .. to |->
               IF i = 0 THEN [m |-> m, v |-> from, pd |-> NoTable, pt |-> NoTable]
               ELSE LET s == f[i - 1] IN IF s.v >= to \/ ~Ok(s.m) THEN s ELSE CopyStep(s, c, d)]
           G == [n \in Nat |-> [x \in Copying |-> CopyOn(x, c, d, to)]]
           start == CopyOf(m, from, NoTable, NoTable)
<1>1. start \in Copying
    BY CopyingIs
<1>2. PICK f : IsWalk(Copying, start, G, to, f)
    <2>1. CanWalk(Copying, start, G, to)
        <3> SUFFICES ASSUME NEW n \in Nat, NEW x \in Copying PROVE G[n][x] \in Copying
            BY <1>1 DEF CanWalk
        <3> QED BY CopyOnType
    <2> HIDE DEF G, start
    <2> QED BY <2>1, StepByStep
<1>3. IsAt(f)
    <2>1. ASSUME NEW i \in 1 .. to PROVE f[i] = CopyOn(f[i - 1], c, d, to)
        <3>1. f[i - 1] \in Copying
            BY <1>2 DEF IsWalk
        <3>2. G[i][f[i - 1]] = CopyOn(f[i - 1], c, d, to)
            BY <3>1
        <3> HIDE DEF G
        <3> QED BY <1>2, <3>2 DEF IsWalk
    <2>2. f = [i \in 0 .. to |-> f[i]] /\ f[0] = start
        <3> HIDE DEF G, start
        <3> QED BY <1>2 DEF IsWalk
    <2> HIDE DEF G
    <2>3. ASSUME NEW i \in 0 .. to PROVE f[i] = IF i = 0 THEN start ELSE CopyOn(f[i - 1], c, d, to)
        <3>1. i = 0 \/ i \in 1 .. to
            OBVIOUS
        <3>2. i = 0 => f[i] = start
            BY <2>2, Zenon
        <3>3. i # 0 => f[i] = CopyOn(f[i - 1], c, d, to)
            BY <2>1, <3>1
        <3> HIDE DEF start
        <3> QED BY <3>2, <3>3, Zenon
    <2>4. f = [i \in 0 .. to |-> IF i = 0 THEN start ELSE CopyOn(f[i - 1], c, d, to)]
        <3> HIDE DEF start
        <3> QED BY <2>2, <2>3
    <2> QED BY <2>4, Zenon DEF CopyOn, CopyOf
<1>4. at = CHOOSE g : IsAt(g)
    OBVIOUS
<1>5. IsAt(at)
    <2> HIDE DEF at, IsAt
    <2> QED BY <1>3, <1>4
<1>6. CopyRange(m, c, d, from, to) = at[to].m
    BY DEF CopyRange
<1> HIDE DEF at
<1>7. at[0] = start /\ \A i \in 1 .. to : at[i] = CopyOn(at[i - 1], c, d, to)
    BY <1>5 DEF CopyOn, CopyOf
<1> DEFINE T == {i \in Nat : i <= to => Copied(m, at[i], c, d, from, to, i)}
<1>8. 0 \in T
    <2>1. Copied(m, at[0], c, d, from, to, 0)
        <3>1. at[0] \in Copying /\ at[0].m = m /\ at[0].v = from /\ at[0].pd = NoTable /\ at[0].pt = NoTable
            BY <1>1, <1>7 DEF CopyOf
        <3>2. CachesHold(m, c, from, to) => AtTable(m, c, from)
            BY TablesInIs
        <3>3. CachesHold(m, c, from, to) => Walks(m, at[0], c, d, from, to, 0)
            BY <3>1, <3>2 DEF Walks, LastOf
        <3>4. Follows(m, m, d, Nat) /\ OnlyOf(m, m, c, d)
            BY FollowsSelf DEF OnlyOf
        <3> QED BY <3>1, <3>3, <3>4 DEF Copied
    <2> QED BY <2>1
<1>9. ASSUME NEW i \in T PROVE i + 1 \in T
    <2> SUFFICES ASSUME i + 1 <= to PROVE Copied(m, at[i + 1], c, d, from, to, i + 1)
        OBVIOUS
    <2>1. Copied(m, at[i], c, d, from, to, i)
        OBVIOUS
    <2>2. at[i + 1] = CopyOn(at[i], c, d, to)
        BY <1>7
    <2>3. i \in Nat
        OBVIOUS
    <2> HIDE DEF T
    <2> QED BY <2>1, <2>2, <2>3, CopyOnIs
<1>10. T = Nat
    <2> HIDE DEF T
    <2>1. T \in SUBSET Nat
        BY DEF T
    <2> QED BY <1>8, <1>9, <2>1, CountingUp
<1>11. Copied(m, at[to], c, d, from, to, to)
    BY <1>10
<1>12. Walks(m, at[to], c, d, from, to, to) => HasCopies(m, at[to].m, c, d, from, to)
    BY <1>11 DEF HasCopies, Walks, Copied, Copying
<1> QED BY <1>6, <1>11, <1>12 DEF Copies, Copied

\* The hardware pages of c are of a device.
HardwareIs(m, c) == \A v \in HardwarePages : Present(m, c, v) => PhysicalFor(m, c, v) = DevicePage

\* Hardware pages of c below end are mapped for d too.
Remapped(m, m2, c, d, end) ==
    /\ Follows(m, m2, d, HardwarePages)
    /\ OnlyOf(m, m2, c, d)
    /\ \A v \in HardwarePages : v < end /\ PhysicalFor(m, c, v) = DevicePage => PhysicalFor(m2, d, v) = DevicePage
    /\ \A X : HardwareIs(m, c) /\ Ok(m2) /\ Sound(m, X) => Sound(m2, X)

RemapPage(m, x, c, d, v) == IF Missing(m, c, v) THEN x ELSE MapPage(x, d, v, PhysicalFor(m, c, v))

RemapsPage(m, x, y, c, d, v) ==
    /\ y \in Memories
    /\ v \in HardwarePages => Follows(x, y, d, {v}) /\ Follows(x, y, d, HardwarePages)
    /\ Present(y, d, v) => Present(x, d, v) \/ Present(m, c, v)
    /\ PhysicalFor(m, c, v) = DevicePage => PhysicalFor(y, d, v) = DevicePage
    /\ \A X : v \in HardwarePages /\ HardwareIs(m, c) /\ Ok(y) /\ Sound(x, X) => Sound(y, X)

LEMMA RemapPageIs ==
    ASSUME NEW m \in Memories, NEW x \in Memories, NEW c \in Nat, NEW d \in Nat, c # KernelContext, d # KernelContext,
           NEW v \in Nat, NEW y, y = RemapPage(m, x, c, d, v)
    PROVE  RemapsPage(m, x, y, c, d, v)
<1>2. PICK p \in Int : p = PhysicalFor(m, c, v)
    BY MapIs DEF PhysicalFor, Present, Memories
<1>3. CASE Missing(m, c, v) /\ y = x
    BY <1>3, FollowsSelf DEF Missing, DevicePage, RemapsPage
<1>4. CASE ~Missing(m, c, v) /\ y = MapPage(x, d, v, p)
    <2>1. Follows(x, y, d, {v}) /\ PhysicalFor(y, d, v) = p /\ Present(m, c, v)
        BY <1>4, MapPageKeeps DEF Missing, PhysicalFor
    <2>2. ASSUME v \in HardwarePages PROVE Follows(x, y, d, HardwarePages)
        <3>1. {v} \subseteq HardwarePages
            BY <2>2
        <3> QED BY <2>1, <3>1, FollowsMore
    <2>3. ASSUME NEW X, HardwareIs(m, c), v \in HardwarePages, Ok(y), Sound(x, X) PROVE Sound(y, X)
        <3>1. p = DevicePage
            BY <1>2, <2>1, <2>3 DEF HardwareIs
        <3>2. MayMap(d, v, p, X, X)
            BY <3>1 DEF MayMap
        <3> QED BY <1>4, <2>3, <3>2, MapPageOwned
    <2> QED BY <1>2, <2>1, <2>2, <2>3 DEF Follows, RemapsPage
<1> QED BY <1>2, <1>3, <1>4 DEF RemapPage

LEMMA RemapIs ==
    ASSUME NEW m \in Memories, NEW c \in Nat, NEW d \in Nat, c # KernelContext, d # KernelContext, c # d,
           proc[c].hwEnd \in Min(HardwarePages) .. Max(HardwarePages) + 1
    PROVE  Remapped(m, RemapHardware(m, c, d), c, d, proc[c].hwEnd)
<1> DEFINE first == Min(HardwarePages)
           num == proc[c].hwEnd - first
           at[i \in 0 .. proc[c].hwEnd - first] ==
            IF i = 0 THEN m
            ELSE LET v == first + i - 1
                 IN  IF PhysicalFor(m, c, v) = 0 THEN at[i - 1]
                     ELSE MapPage(at[i - 1], d, v, PhysicalFor(m, c, v))
           IsAt(f) == f = [i \in 0 .. proc[c].hwEnd - first |->
            IF i = 0 THEN m
            ELSE LET v == first + i - 1
                 IN  IF PhysicalFor(m, c, v) = 0 THEN f[i - 1]
                     ELSE MapPage(f[i - 1], d, v, PhysicalFor(m, c, v))]
           G == [n \in Nat |-> [x \in Memories |-> IF n = 0 THEN m ELSE RemapPage(m, x, c, d, first + n - 1)]]
<1>0. /\ num \in Nat /\ first \in Nat
      /\ \A i \in Nat : i < num => first + i \in HardwarePages
    BY LayoutIs
<1>1. ASSUME NEW x \in Memories, NEW w \in Nat PROVE RemapPage(m, x, c, d, w) \in Memories
    BY RemapPageIs DEF RemapsPage
<1>2. PICK f : IsWalk(Memories, m, G, num, f)
    <2>1. CanWalk(Memories, m, G, num)
        <3> SUFFICES ASSUME NEW n \in Nat, NEW x \in Memories PROVE G[n][x] \in Memories
            BY <1>0 DEF CanWalk
        <3>1. n # 0 => first + n - 1 \in Nat
            BY <1>0
        <3> QED BY <1>1, <3>1
    <2> HIDE DEF G, num
    <2> QED BY <2>1, StepByStep
<1>3. IsAt(f)
    <2>1. ASSUME NEW i \in 1 .. num PROVE f[i] = RemapPage(m, f[i - 1], c, d, first + i - 1)
        <3>1. f[i - 1] \in Memories
            BY <1>0, <1>2 DEF IsWalk
        <3>2. G[i][f[i - 1]] = RemapPage(m, f[i - 1], c, d, first + i - 1)
            BY <1>0, <3>1
        <3> HIDE DEF G
        <3> QED BY <1>2, <3>2 DEF IsWalk
    <2> HIDE DEF G
    <2> QED BY <1>0, <1>2, <2>1 DEF IsWalk, RemapPage, Missing
<1>4. at = CHOOSE g : IsAt(g)
    OBVIOUS
<1>5. IsAt(at)
    <2> HIDE DEF at, IsAt
    <2> QED BY <1>3, <1>4
<1>6. RemapHardware(m, c, d) = at[num]
    BY DEF RemapHardware
<1> HIDE DEF at
<1>7. at[0] = m /\ \A i \in 1 .. num : at[i] = RemapPage(m, at[i - 1], c, d, first + i - 1)
    BY <1>0, <1>5 DEF RemapPage, Missing
<1> HIDE DEF first, num
<1> DEFINE T == {i \in Nat : i <= num => Remapped(m, at[i], c, d, first + i)}
<1>8. 0 \in T
    <2>1. \A v \in HardwarePages : ~(v < first + 0)
        BY LayoutIs DEF first
    <2>2. Remapped(m, at[0], c, d, first + 0)
        BY <1>7, <2>1, FollowsSelf DEF Remapped, OnlyOf
    <2> QED BY <2>2
<1>9. ASSUME NEW i \in T PROVE i + 1 \in T
    <2> SUFFICES ASSUME i + 1 <= num PROVE Remapped(m, at[i + 1], c, d, first + (i + 1))
        OBVIOUS
    <2>1. Remapped(m, at[i], c, d, first + i)
        BY <1>0
    <2>2. PICK x \in Memories : x = at[i]
        BY <2>1 DEF Remapped, Follows
    <2>3. PICK w \in Nat : w = first + i /\ w \in HardwarePages
        BY <1>0
    <2>4. at[i + 1] = RemapPage(m, x, c, d, w)
        BY <1>0, <1>7, <2>2, <2>3
    <2>5. PICK y : y = at[i + 1]
        OBVIOUS
    <2>6. /\ Follows(x, y, d, HardwarePages) /\ Follows(x, y, d, {w})
          /\ Present(y, d, w) => Present(x, d, w) \/ Present(m, c, w)
          /\ PhysicalFor(m, c, w) = DevicePage => PhysicalFor(y, d, w) = DevicePage
          /\ \A X : HardwareIs(m, c) /\ Ok(y) /\ Sound(x, X) => Sound(y, X)
        <3>1. y = RemapPage(m, x, c, d, w)
            BY <2>4, <2>5
        <3>2. RemapsPage(m, x, y, c, d, w)
            BY <3>1, RemapPageIs
        <3> QED BY <2>3, <3>2 DEF RemapsPage
    <2>7. Follows(m, y, d, HardwarePages)
        BY <2>1, <2>2, <2>6, FollowsOn DEF Remapped
    <2>8. \A X : HardwareIs(m, c) /\ Ok(y) /\ Sound(m, X) => Sound(y, X)
        BY <2>1, <2>2, <2>6 DEF Remapped, Follows
    <2>9. OnlyOf(m, y, c, d)
        BY <2>1, <2>2, <2>6 DEF Remapped, OnlyOf, Follows
    <2>10. ASSUME NEW v \in HardwarePages, v < first + (i + 1), PhysicalFor(m, c, v) = DevicePage
           PROVE  PhysicalFor(y, d, v) = DevicePage
        <3>1. CASE v = w
            BY <2>6, <2>10, <3>1
        <3>2. CASE v # w
            <4>1. v < first + i
                BY <1>0, <2>3, <2>10, <3>2, LayoutIs
            <4>2. PhysicalFor(x, d, v) = DevicePage
                BY <2>1, <2>2, <2>10, <4>1 DEF Remapped
            <4> QED BY <2>6, <3>2, <4>2 DEF Follows
        <3> QED BY <3>1, <3>2
    <2> QED BY <2>5, <2>7, <2>8, <2>9, <2>10 DEF Remapped
<1>10. T = Nat
    <2> HIDE DEF T
    <2>1. T \in SUBSET Nat
        BY DEF T
    <2> QED BY <1>8, <1>9, <2>1, CountingUp
<1>11. Remapped(m, at[num], c, d, first + num)
    BY <1>0, <1>10
<1>12. first + num = proc[c].hwEnd
    BY LayoutIs DEF first, num
<1> QED BY <1>6, <1>11, <1>12

-----------------------------------------------------------------------------
(* Where copies are complete *)

LEMMA NextIndex ==
    ASSUME NEW n \in Nat \ {0}, n > 1, NEW x \in Nat
    PROVE  x % n # (x + 1) % n
<1>1. PICK y \in Nat : y = x + 1
    OBVIOUS
<1>2. PICK q \in Nat, r \in 0 .. n - 1 : q = x \div n /\ r = x % n /\ n * q = x - r
    BY Division
<1>3. PICK p \in Nat, t \in 0 .. n - 1 : p = y \div n /\ t = y % n /\ n * p = y - t
    BY Division
<1>4. p = q \/ (p = q + 1 /\ t = 0)
    BY <1>1, <1>2, <1>3, NextQuotient
<1>5. n * (q + 1) = n * q + n
    OBVIOUS
<1>6. r # t
    BY <1>1, <1>2, <1>3, <1>4, <1>5
<1> QED BY <1>1, <1>2, <1>3, <1>6

LEMMA NumbersBetween ==
    ASSUME NEW S \in SUBSET Nat, NEW n \in Nat \ {0}, n > 1, \A y \in S : \A z \in 1 .. y - 1 : z \in S
    PROVE  IndicesChange(S, n)
<1> SUFFICES ASSUME NEW x \in S, NEW y \in S, x < y, x % n = y % n PROVE \E z \in S : x < z /\ z < y
    BY DEF IndicesChange
<1>1. x \in Nat /\ y \in Nat
    OBVIOUS
<1>2. y # x + 1
    BY <1>1, NextIndex
<1>3. y - 1 \in 1 .. y - 1 /\ x < y - 1 /\ y - 1 < y
    BY <1>1, <1>2
<1> QED BY <1>3

\* A page in the z-th of the parts of s pages, below a page that is further up.
LEMMA PageOfPart ==
    ASSUME NEW s \in Nat \ {0}, NEW v \in Nat, NEW z \in Nat \ {0}, z < v \div s
    PROVE  \E w \in 1 .. v - 1 : w \div s = z
<1>1. PICK y \in Nat : y = v \div s /\ s * y <= v
    BY Division
<1>2. s * (z + 1) <= s * y /\ s * 1 <= s * z
    BY <1>1, TimesGrows
<1>3. s * (z + 1) = s * z + s
    OBVIOUS
<1>4. PICK w \in Nat : w = s * z
    OBVIOUS
<1>5. w \div s = z
    BY <1>4, Exactly
<1>6. w \in 1 .. v - 1
    BY <1>1, <1>2, <1>3, <1>4
<1> QED BY <1>5, <1>6

\* With all pages from the first one on there are all tables.
LEMMA HeapCachesHold ==
    ASSUME NEW m \in Memories, Tabled(m), NEW c, NEW to \in Nat, AllPresent(m, c, ProgramPage, to)
    PROVE  CachesHold(m, c, 0, to)
<1> DEFINE tables == TablesIn(m, c, 0, to)
           directories == DirectoriesIn(m, c, 0, to)
<1>1. tables \in SUBSET Nat /\ directories \in SUBSET Nat
    BY TablesInIs
<1>2. \A w \in 1 .. to - 1 : HasPt(m, c, PtOf(w)) /\ HasPd(m, c, PdOf(w))
    BY TabledIs DEF AllPresent, ProgramPage
<1>3. ASSUME NEW y \in tables, NEW z \in 1 .. y - 1 PROVE z \in tables
    <2>1. PICK v \in 0 .. to - 1 : y = v \div Span
        BY DEF TablesIn, PtOf
    <2>2. y \in Nat /\ z \in Nat \ {0} /\ z < y /\ v \in Nat
        BY <1>1
    <2>3. PICK w \in 1 .. v - 1 : w \div Span = z
        BY <2>1, <2>2, Widths, PageOfPart
    <2>4. w \in 0 .. to - 1 /\ w \in 1 .. to - 1
        OBVIOUS
    <2> QED BY <1>2, <2>3, <2>4 DEF TablesIn, PtOf
<1>4. ASSUME NEW y \in directories, NEW z \in 1 .. y - 1 PROVE z \in directories
    <2>1. PICK v \in 0 .. to - 1 : y = PdOf(v)
        BY DEF DirectoriesIn
    <2>2. PICK a \in Nat \ {0} : a = Span * Dirs
        BY Widths
    <2>3. y = v \div a
        BY <2>1, <2>2, PlaceOf
    <2>4. y \in Nat /\ z \in Nat \ {0} /\ z < y /\ v \in Nat
        BY <1>1
    <2>5. PICK w \in 1 .. v - 1 : w \div a = z
        BY <2>3, <2>4, PageOfPart
    <2>6. w \in 0 .. to - 1 /\ w \in 1 .. to - 1 /\ PdOf(w) = z
        BY <2>2, <2>5, PlaceOf
    <2> QED BY <1>2, <2>6 DEF DirectoriesIn
<1> HIDE DEF tables, directories
<1>5. IndicesChange(tables, Dirs) /\ IndicesChange(directories, Tops)
    BY <1>1, <1>3, <1>4, Widths, NumbersBetween
<1>6. 0 % (Span * Dirs) = 0
    <2>1. PICK a \in Nat \ {0} : a = Span * Dirs
        BY Widths
    <2>2. a * 0 = 0
        OBVIOUS
    <2> QED BY <2>1, <2>2, Exactly
<1> QED BY <1>5, <1>6 DEF tables, directories, TablesIn, DirectoriesIn, CachesHold

LEMMA CachesSame ==
    ASSUME NEW m \in Memories, NEW m2 \in Memories, NEW c, \A t : HasTable(m2, c, t) <=> HasTable(m, c, t),
           NEW from, NEW to, CachesHold(m, c, from, to)
    PROVE  CachesHold(m2, c, from, to)
<1>1. \A t : HasPt(m2, c, t) <=> HasPt(m, c, t)
    BY DEF HasPt, HasTable
<1>2. DOMAIN m.tab \subseteq Places /\ DOMAIN m2.tab \subseteq Places
    BY MapIs DEF Memories
<1>3. \A p : HasPd(m2, c, p) <=> HasPd(m, c, p)
    <2> SUFFICES ASSUME NEW p, NEW m3 \in Memories, NEW m4 \in Memories, DOMAIN m3.tab \subseteq Places,
                        \A t : HasTable(m4, c, t) <=> HasTable(m3, c, t), HasPd(m3, c, p)
                 PROVE  HasPd(m4, c, p)
        BY <1>2
    <2>1. PICK x \in DOMAIN m3.tab : x[1] = c /\ x[2] \div Dirs = p
        BY DEF HasPd
    <2>2. x = <<c, x[2]>>
        BY <2>1 DEF Places
    <2>3. <<c, x[2]>> \in DOMAIN m4.tab
        BY <2>1, <2>2 DEF HasTable
    <2>4. PICK t : t = x[2]
        OBVIOUS
    <2> QED BY <2>1, <2>3, <2>4 DEF HasPd
<1>4. TablesIn(m2, c, from, to) = TablesIn(m, c, from, to) /\ DirectoriesIn(m2, c, from, to) = DirectoriesIn(m, c, from, to)
    BY <1>1, <1>3 DEF TablesIn, DirectoriesIn
<1> QED BY <1>1, <1>4, Zenon DEF CachesHold, TablesIn, DirectoriesIn

-----------------------------------------------------------------------------
(* The invariant *)

Process == [brk : 0 .. AddressBytes - 1,
            stack : Min(StackPages) .. Max(StackPages) + 1,
            hwEnd : Min(HardwarePages) .. Max(HardwarePages) + 1,
            iopb : Int, ports : SUBSET Ports, shared : BOOLEAN, wrapped : BOOLEAN]

Processes == UNION {[D -> Process] : D \in SUBSET Procs}

Blocks == {b \in [at : Nat \ {0}, pages : Nat \ {0}, size : BlockSizes \cup {NoSize}] :
              b.size # NoSize => b.pages = Pages(b.size + Overhead)}

IopbOf(p) == IF p.iopb = NoIopb THEN {} ELSE p.iopb .. p.iopb + 1

IopbPages(ps) == UNION {IopbOf(ps[c]) : c \in DOMAIN ps}

IopbsApart(ps) == \A c, d \in DOMAIN ps : c # d => IopbOf(ps[c]) \cap IopbOf(ps[d]) = {}

\* No page of the stack is below the one taken for the lowest, hardware is
\* where it is said to be, and unless it is shared or has wrapped, the heap is
\* there.
ProcSound(m, c, p) ==
    /\ \A v \in StackPages : Present(m, c, v) => v >= p.stack
    /\ \A v \in HardwarePages : Present(m, c, v) => v < p.hwEnd /\ PhysicalFor(m, c, v) = DevicePage
    /\ ~p.shared /\ ~p.wrapped => p.brk <= HeapTop /\ AllPresent(m, c, ProgramPage, Pages(p.brk))

NoStrangers(m, D) == \A c, v : c \notin D /\ c # KernelContext => ~Present(m, c, v)

ProcsSound(m, ps) ==
    /\ \A c \in DOMAIN ps : ProcSound(m, c, ps[c])
    /\ NoStrangers(m, DOMAIN ps)

BlocksSound(m, bs) ==
    /\ \A b \in bs : \A v \in BlockPages(b) : Present(m, KernelContext, v)
    /\ \A b1, b2 \in bs : b1 # b2 => BlockPages(b1) \cap BlockPages(b2) = {}

\* As long as no page has been lost to PageAllocator, and if the loader's
\* regions do not overlap, every page is owned once.
OwnedBy(m, ps, l) == RegionsApart /\ ~l => Sound(m, IopbPages(ps)) /\ IopbsApart(ps)

MemSound(m, ps, bs, l) == Tabled(m) /\ ProcsSound(m, ps) /\ BlocksSound(m, bs) /\ OwnedBy(m, ps, l)

VmInv ==
    /\ mem \in Memories /\ proc \in Processes /\ blocks \in SUBSET Blocks
    /\ dirty \in BOOLEAN /\ lost \in BOOLEAN
    /\ Ok(mem) => MemSound(mem, proc, blocks, lost)

LEMMA ProcessesAre ==
    ASSUME NEW ps \in Processes
    PROVE  /\ DOMAIN ps \subseteq Procs /\ \A c \in DOMAIN ps : ps[c] \in Process
           /\ \A c \in DOMAIN ps : c \in Nat /\ c # KernelContext
<1>1. Procs \subseteq Nat \ {KernelContext}
    BY VirtualMemoryAssumption
<1>2. DOMAIN ps \subseteq Procs /\ \A c \in DOMAIN ps : ps[c] \in Process
    BY DEF Processes
<1> QED BY <1>1, <1>2

LEMMA ProcessAdded ==
    ASSUME NEW ps \in Processes, NEW c \in Procs, NEW p \in Process
    PROVE  LET ps2 == Entered(ps, c, p) IN
           /\ ps2 \in Processes /\ DOMAIN ps2 = DOMAIN ps \cup {c} /\ ps2[c] = p
           /\ \A d \in DOMAIN ps : d # c => ps2[d] = ps[d]
<1> DEFINE ps2 == Entered(ps, c, p)
<1>1. /\ DOMAIN ps2 = DOMAIN ps \cup {c} /\ ps2[c] = p
      /\ \A d \in DOMAIN ps : d # c => ps2[d] = ps[d]
    BY DEF Entered
<1>2. ps2 \in [DOMAIN ps \cup {c} -> Process]
    BY ProcessesAre DEF Entered
<1>3. DOMAIN ps \cup {c} \in SUBSET Procs
    BY ProcessesAre
<1> HIDE DEF ps2
<1>4. ps2 \in Processes
    BY <1>2, <1>3 DEF Processes
<1> QED BY <1>1, <1>4 DEF ps2

\* A process that changes.
Changed(ps, c, p) == [ps EXCEPT ![c] = p]

LEMMA ProcessChanged ==
    ASSUME NEW ps \in Processes, NEW c \in DOMAIN ps, NEW p \in Process
    PROVE  LET ps2 == Changed(ps, c, p) IN
           /\ ps2 \in Processes /\ DOMAIN ps2 = DOMAIN ps /\ ps2[c] = p
           /\ \A d \in DOMAIN ps : d # c => ps2[d] = ps[d]
<1> DEFINE ps2 == Changed(ps, c, p)
<1>1. /\ DOMAIN ps2 = DOMAIN ps /\ ps2[c] = p
      /\ \A d \in DOMAIN ps : d # c => ps2[d] = ps[d]
    BY DEF Changed, Processes
<1>2. ps2 \in [DOMAIN ps -> Process]
    BY ProcessesAre DEF Changed, Processes
<1>3. DOMAIN ps \in SUBSET Procs
    BY ProcessesAre
<1> HIDE DEF ps2
<1>4. ps2 \in Processes
    BY <1>2, <1>3 DEF Processes
<1> QED BY <1>1, <1>4 DEF ps2

LEMMA PagesAre ==
    ASSUME NEW n \in Nat
    PROVE  /\ Pages(n) \in Nat /\ FirstToMap(n) \in Nat /\ FirstToMap(n) <= Pages(n)
           /\ \A k \in Nat : k >= n => Pages(n) <= Pages(k)
           /\ \A k \in Nat : n <= k * PageBytes => Pages(n) <= k
           /\ Pages(n) <= FirstToMap(n) + 1
BY DEF Pages, FirstToMap, PageBytes

\* Nothing changes but the kernel's pages.
SameElsewhere(m, m2) ==
    \A e, v : e # KernelContext => (Present(m2, e, v) <=> Present(m, e, v)) /\ PhysicalFor(m2, e, v) = PhysicalFor(m, e, v)

LEMMA ProcsStay ==
    ASSUME NEW m, NEW m2, NEW ps \in Processes, SameElsewhere(m, m2), ProcsSound(m, ps)
    PROVE  ProcsSound(m2, ps)
BY ProcessesAre DEF ProcsSound, ProcSound, NoStrangers, AllPresent, SameElsewhere

LEMMA FollowsElsewhere ==
    ASSUME NEW m, NEW m2, NEW V, Follows(m, m2, KernelContext, V)
    PROVE  SameElsewhere(m, m2)
BY DEF Follows, SameElsewhere

LEMMA BlocksStay ==
    ASSUME NEW m, NEW m2, NEW bs, \A e, v : Present(m, e, v) => Present(m2, e, v), BlocksSound(m, bs)
    PROVE  BlocksSound(m2, bs)
BY DEF BlocksSound

\* Only process c changes.
SameElse(ps, ps2, c) == DOMAIN ps2 = DOMAIN ps \cup {c} /\ \A d \in DOMAIN ps : d # c => ps2[d] = ps[d]

LEMMA OneChanges ==
    ASSUME NEW m, NEW m2, NEW ps \in Processes, NEW ps2, NEW c, NEW V, Follows(m, m2, c, V), ProcsSound(m, ps),
           SameElse(ps, ps2, c), ProcSound(m2, c, ps2[c])
    PROVE  ProcsSound(m2, ps2)
<1> USE DEF SameElse
<1>1. ASSUME NEW d \in DOMAIN ps2 PROVE ProcSound(m2, d, ps2[d])
    <2>1. CASE d = c
        BY <2>1
    <2>2. CASE d # c
        BY <2>2 DEF Follows, ProcsSound, ProcSound, AllPresent
    <2> QED BY <2>1, <2>2
<1>2. NoStrangers(m2, DOMAIN ps2)
    BY DEF Follows, ProcsSound, NoStrangers
<1> QED BY <1>1, <1>2 DEF ProcsSound

LEMMA IopbsSame ==
    ASSUME NEW ps, NEW ps2, DOMAIN ps \subseteq DOMAIN ps2, \A c \in DOMAIN ps : IopbOf(ps2[c]) = IopbOf(ps[c]),
           \A c \in DOMAIN ps2 : c \notin DOMAIN ps => IopbOf(ps2[c]) = {}
    PROVE  IopbPages(ps2) = IopbPages(ps) /\ (IopbsApart(ps) => IopbsApart(ps2))
<1>1. IopbPages(ps2) = IopbPages(ps)
    BY DEF IopbPages
<1>2. IopbsApart(ps) => IopbsApart(ps2)
    BY DEF IopbsApart
<1> QED BY <1>1, <1>2

\* What a process has when its memory follows, by its own pages at most.
LEMMA ProcFollows ==
    ASSUME NEW m, NEW m2, NEW c, NEW V, NEW p, NEW p2, Follows(m, m2, c, V), ProcSound(m, c, p),
           p2.stack = p.stack, p2.hwEnd = p.hwEnd, p2.shared = p.shared, p2.wrapped = p.wrapped, p2.brk = p.brk,
           \A v \in V : v \notin StackPages /\ v \notin HardwarePages
    PROVE  ProcSound(m2, c, p2)
<1>1. \A v \in StackPages : Present(m2, c, v) => v >= p2.stack
    BY DEF ProcSound, Follows
<1>2. \A v \in HardwarePages : Present(m2, c, v) => v < p2.hwEnd /\ PhysicalFor(m2, c, v) = DevicePage
    BY DEF ProcSound, Follows
<1>3. ~p2.shared /\ ~p2.wrapped => p2.brk <= HeapTop /\ AllPresent(m2, c, ProgramPage, Pages(p2.brk))
    BY DEF ProcSound, Follows, AllPresent
<1> QED BY <1>1, <1>2, <1>3 DEF ProcSound

LEMMA AddressesAre ==
    /\ AddressBytes \in Nat /\ AddressBytes > HeapTop + 8 /\ HeapTop \in Nat /\ HeapTop >= 8
    /\ HeapTop = (HeapPages + 2) * 4 /\ PageBytes = 4
<1>1. AddressPages \in Nat /\ HeapPages \in Nat /\ StackSize \in Nat /\ AddressPages > HeapPages + StackSize + 6
    BY VirtualMemoryAssumption
<1> QED BY <1>1 DEF AddressBytes, HeapTop, HeapBase, PageBytes

-----------------------------------------------------------------------------
(* The memory at boot *)

\* What reporting a region does.
Reports(m, r, m2) ==
    /\ m2 \in Memories /\ m2.map = m.map /\ m2.tab = m.tab
    /\ ListSound(m) /\ PagesOf(r) \subseteq RamPages /\ PagesOf(r) \cap FreePages(m) = {} => ListSound(m2)
    /\ FreePages(m2) \subseteq FreePages(m) \cup PagesOf(r)
    /\ Ok(m2) => Ok(m) /\ FreePages(m) \cup PagesOf(r) \subseteq FreePages(m2)

LEMMA ReportedIs ==
    ASSUME NEW m \in Memories, NEW r \in [start : Nat, count : Nat]
    PROVE  Reports(m, r, Reported(m, r))
<1> DEFINE range == [start |-> r.start, count |-> r.count]
           s == FirstUnused(m)
<1>1. PICK m2 : m2 = Reported(m, r)
    OBVIOUS
<1>2. CASE (r.count = 0 \/ Covered(m, r.start, r.count)) /\ m2 = m
    <2>1. PagesOf(r) \subseteq FreePages(m)
        <3>1. CASE r.count = 0
            BY <3>1 DEF PagesOf
        <3>2. CASE Covered(m, r.start, r.count)
            <4>1. PICK i \in DOMAIN m.list : m.list[i].start <= r.start
                                             /\ r.start + r.count <= m.list[i].start + m.list[i].count
                BY <3>2 DEF Covered
            <4>2. m.list[i] \in Entries
                BY <4>1 DEF Memories
            <4>3. PagesOf(r) \subseteq PagesOf(m.list[i])
                BY <4>1, <4>2 DEF PagesOf, Entries
            <4> QED BY <4>1, <4>3 DEF FreePages
        <3> QED BY <1>2, <3>1, <3>2
    <2> QED BY <1>1, <1>2, <2>1 DEF Reports
<1>3. CASE m2 = Stopped(m, "early")
    <2>1. "early" \in States
        BY DEF States
    <2>2. m2 \in Memories /\ m2.map = m.map /\ m2.tab = m.tab /\ m2.list = m.list /\ m2.state = "early"
        BY <1>3, <2>1, StoppedIs
    <2> QED BY <1>1, <2>2 DEF Reports, ListSound, FreePages, Ok
<1>4. CASE r.count # 0 /\ s # 0 /\ m2 = [m EXCEPT !.list[s] = range]
    <2>1. PICK l \in Seq(Entries) : l = m.list
        BY DEF Memories
    <2>2. s \in DOMAIN m.list /\ m.list[s] = UnusedEntry
        <3>1. s \in {i \in 1 .. Len(m.list) : m.list[i] = UnusedEntry}
            <4> DEFINE I == {i \in 1 .. Len(m.list) : m.list[i] = UnusedEntry}
            <4>1. s = (IF I # {} THEN Min(I) ELSE 0) /\ I \in SUBSET Nat
                BY DEF FirstUnused, SelectInSeq
            <4> HIDE DEF I
            <4>2. s \in I
                BY <1>4, <4>1, LeastNumber
            <4> QED BY <4>2 DEF I
        <3> QED BY <2>1, <3>1
    <2>3. PICK e \in [start : Nat, count : Nat] : e = range /\ e = r /\ e.count > 0
        BY <1>4
    <2>4. e \in Entries /\ m.got \in Int
        BY DEF Entries, Memories
    <2>5. m2 = WithRange(m, s, e, m.got)
        BY <1>4, <2>3 DEF WithRange, Memories
    <2> HIDE DEF s, range
    <2>6. /\ m2 \in Memories /\ m2.map = m.map /\ m2.tab = m.tab /\ m2.state = m.state
          /\ DOMAIN m2.list = DOMAIN m.list
          /\ m2.list[s] = e /\ \A i \in DOMAIN m.list : i # s => m2.list[i] = m.list[i]
        BY <2>2, <2>4, <2>5, RangeReplaced
    <2>7. FreePages(m2) \subseteq FreePages(m) \cup PagesOf(e)
        BY <2>6 DEF FreePages
    <2>8. FreePages(m) \cup PagesOf(e) \subseteq FreePages(m2)
        BY <2>2, <2>6, UnusedIs DEF FreePages
    <2>9. ASSUME ListSound(m), PagesOf(e) \subseteq RamPages, PagesOf(e) \cap FreePages(m) = {} PROVE ListSound(m2)
        <3>1. \A i \in DOMAIN m.list : PagesOf(m.list[i]) \cap PagesOf(e) = {}
            BY <2>9 DEF FreePages
        <3>2. \A i \in DOMAIN m2.list : /\ m2.list[i] \in [start : Nat, count : Nat]
                                        /\ PagesOf(m2.list[i]) \subseteq RamPages
                                        /\ m2.list[i].count = 0 => m2.list[i] = UnusedEntry
            BY <2>3, <2>6, <2>9 DEF ListSound
        <3>3. \A i, j \in DOMAIN m2.list : i # j => PagesOf(m2.list[i]) \cap PagesOf(m2.list[j]) = {}
            <4> SUFFICES ASSUME NEW i \in DOMAIN m.list, NEW j \in DOMAIN m.list, i # j
                         PROVE  PagesOf(m2.list[i]) \cap PagesOf(m2.list[j]) = {}
                BY <2>6
            <4>1. PagesOf(m.list[i]) \cap PagesOf(m.list[j]) = {}
                BY <2>9 DEF ListSound
            <4> QED BY <2>6, <3>1, <4>1
        <3>4. RegionsApart
            BY <2>9 DEF ListSound
        <3> QED BY <3>2, <3>3, <3>4 DEF ListSound
    <2> QED BY <1>1, <2>3, <2>6, <2>7, <2>8, <2>9 DEF Reports, Ok
<1> QED BY <1>1, <1>2, <1>3, <1>4 DEF Reported

LEMMA SequenceIs ==
    ASSUME NEW S, NEW s \in Seq(S)
    PROVE  Len(s) \in Nat /\ DOMAIN s = 1 .. Len(s) /\ \A i \in 1 .. Len(s) : s[i] \in S
OBVIOUS

LEMMA BootRegionsAre ==
    /\ Len(BootRegions) \in Nat /\ DOMAIN BootRegions = 1 .. Len(BootRegions)
    /\ \A i \in 1 .. Len(BootRegions) : BootRegions[i] \in [start : Nat, count : Nat]
<1>1. PICK S : S = [start : Nat, count : Nat]
    OBVIOUS
<1>2. BootRegions \in Seq(S)
    BY <1>1, Assumed
<1> QED BY <1>1, <1>2, SequenceIs, Zenon

\* The memory after the first i regions.
RegionPages(i) == UNION {PagesOf(BootRegions[k]) : k \in 1 .. i}

Booted(m, i) ==
    /\ m \in Memories /\ DOMAIN m.map = {} /\ DOMAIN m.tab = {}
    /\ RegionsApart => ListSound(m)
    /\ FreePages(m) \subseteq RegionPages(i)
    /\ Ok(m) => RegionPages(i) \subseteq FreePages(m)

LEMMA EmptyMemoryIs == Booted(EmptyMemory, 0)
<1>1. <<>> \in Maps
    <2>1. <<>> \in [{} -> Int]
        OBVIOUS
    <2> QED BY <2>1 DEF Maps
<1>2. PICK l \in Seq(Entries) : l = [i \in 1 .. ListSlots |-> UnusedEntry]
    <2>1. [i \in 1 .. ListSlots |-> UnusedEntry] \in Seq(Entries)
        BY Assumed, UnusedIs
    <2> QED BY <2>1
<1>3. PICK m : m = EmptyMemory
    OBVIOUS
<1>4. m \in Memories /\ DOMAIN m.map = {} /\ DOMAIN m.tab = {} /\ m.list = l
    BY <1>1, <1>2, <1>3 DEF EmptyMemory, Memories, States
<1>5. \A i \in DOMAIN l : l[i] = UnusedEntry
    BY <1>2
<1>6. FreePages(m) = {}
    BY <1>4, <1>5, UnusedIs DEF FreePages
<1>7. RegionsApart => ListSound(m)
    BY <1>4, <1>5, UnusedIs DEF ListSound
<1>8. RegionPages(0) = {}
    BY DEF RegionPages
<1> QED BY <1>3, <1>4, <1>6, <1>7, <1>8 DEF Booted

\* The next region, which has nothing of the ones before it.
LEMMA RegionIs ==
    ASSUME NEW i \in Nat, i + 1 \in DOMAIN BootRegions
    PROVE  /\ BootRegions[i + 1] \in [start : Nat, count : Nat]
           /\ PagesOf(BootRegions[i + 1]) \subseteq RamPages
           /\ RegionPages(i + 1) = RegionPages(i) \cup PagesOf(BootRegions[i + 1])
           /\ RegionsApart => PagesOf(BootRegions[i + 1]) \cap RegionPages(i) = {}
<1>2. \A k \in 1 .. i + 1 : k \in DOMAIN BootRegions /\ BootRegions[k] \in [start : Nat, count : Nat]
    <2>1. i + 1 \in 1 .. Len(BootRegions) /\ Len(BootRegions) \in Nat
        BY BootRegionsAre, Zenon
    <2>2. \A k \in 1 .. i + 1 : k \in 1 .. Len(BootRegions)
        BY <2>1
    <2> QED BY <2>2, BootRegionsAre, Zenon
<1>3. 1 .. i + 1 = 1 .. i \cup {i + 1}
    OBVIOUS
<1>4. RegionPages(i + 1) = RegionPages(i) \cup PagesOf(BootRegions[i + 1])
    BY <1>3 DEF RegionPages
<1>5. ASSUME RegionsApart, NEW k \in 1 .. i PROVE PagesOf(BootRegions[i + 1]) \cap PagesOf(BootRegions[k]) = {}
    <2>1. k \in DOMAIN BootRegions /\ BootRegions[k] \in [start : Nat, count : Nat] /\ k # i + 1
        BY <1>2
    <2>2. BootRegions[i + 1] \in [start : Nat, count : Nat]
        BY <1>2
    <2>3. \/ BootRegions[i + 1].start + BootRegions[i + 1].count <= BootRegions[k].start
          \/ BootRegions[k].start + BootRegions[k].count <= BootRegions[i + 1].start
        BY <1>5, <2>1, Zenon DEF RegionsApart
    <2>4. PICK e \in [start : Nat, count : Nat], f \in [start : Nat, count : Nat] : e = BootRegions[i + 1] /\ f = BootRegions[k]
        BY <2>1, <2>2
    <2> QED BY <2>3, <2>4 DEF PagesOf
<1>6. RegionsApart => PagesOf(BootRegions[i + 1]) \cap RegionPages(i) = {}
    BY <1>5 DEF RegionPages
<1> QED BY <1>2, <1>4, <1>6 DEF RamPages

LEMMA BootMemoryIs == Booted(BootMemory, Len(BootRegions)) /\ RegionPages(Len(BootRegions)) = RamPages
<1> DEFINE n == Len(BootRegions)
           at[i \in 0 .. Len(BootRegions)] ==
               IF i = 0 THEN EmptyMemory ELSE Reported(at[i - 1], BootRegions[i])
           IsAt(f) == f = [i \in 0 .. Len(BootRegions) |->
               IF i = 0 THEN EmptyMemory ELSE Reported(f[i - 1], BootRegions[i])]
           G == [i \in Nat |-> [x \in Memories |-> IF i \in 1 .. n THEN Reported(x, BootRegions[i]) ELSE x]]
<1>1. n \in Nat /\ DOMAIN BootRegions = 1 .. n /\ \A i \in 1 .. n : BootRegions[i] \in [start : Nat, count : Nat]
    BY BootRegionsAre, Zenon
<1>2. EmptyMemory \in Memories
    BY EmptyMemoryIs DEF Booted
<1>3. ASSUME NEW i \in 1 .. n, NEW x \in Memories PROVE Reported(x, BootRegions[i]) \in Memories
    BY <1>1, ReportedIs DEF Reports
<1>4. PICK f : IsWalk(Memories, EmptyMemory, G, n, f)
    <2>1. CanWalk(Memories, EmptyMemory, G, n)
        BY <1>1, <1>2, <1>3 DEF CanWalk
    <2> HIDE DEF G, n
    <2> QED BY <2>1, StepByStep
<1>5. IsAt(f)
    <2>1. ASSUME NEW i \in 1 .. n PROVE f[i] = Reported(f[i - 1], BootRegions[i])
        <3>1. f[i - 1] \in Memories
            <4>1. i - 1 \in 0 .. n
                BY <1>1
            <4> HIDE DEF G, n
            <4> QED BY <1>4, <4>1 DEF IsWalk
        <3>2. G[i][f[i - 1]] = Reported(f[i - 1], BootRegions[i])
            BY <1>1, <3>1
        <3> HIDE DEF G
        <3> QED BY <1>4, <3>2 DEF IsWalk
    <2> HIDE DEF G
    <2> QED BY <1>1, <1>4, <2>1 DEF IsWalk
<1>6. at = CHOOSE g : IsAt(g)
    OBVIOUS
<1>7. IsAt(at)
    <2> HIDE DEF at, IsAt
    <2> QED BY <1>5, <1>6
<1>8. BootMemory = at[n]
    BY DEF BootMemory
<1> HIDE DEF at
<1>9. at[0] = EmptyMemory /\ \A i \in 1 .. n : at[i] = Reported(at[i - 1], BootRegions[i])
    BY <1>1, <1>7
<1> HIDE DEF n
<1> DEFINE T == {i \in Nat : i <= n => Booted(at[i], i)}
<1>10. 0 \in T
    <2>1. Booted(at[0], 0)
        BY <1>9, EmptyMemoryIs
    <2> QED BY <2>1
<1>11. ASSUME NEW i \in T PROVE i + 1 \in T
    <2> SUFFICES ASSUME i + 1 <= n PROVE Booted(at[i + 1], i + 1)
        OBVIOUS
    <2>1. Booted(at[i], i) /\ i \in Nat /\ i + 1 \in DOMAIN BootRegions
        BY <1>1
    <2>2. PICK x \in Memories : x = at[i]
        BY <2>1 DEF Booted
    <2>3. PICK r \in [start : Nat, count : Nat] : r = BootRegions[i + 1]
        BY <2>1, RegionIs
    <2>4. PICK y : y = at[i + 1] /\ y = Reported(x, r)
        BY <1>1, <1>9, <2>1, <2>2, <2>3
    <2>5. Reports(x, r, y)
        BY <2>4, ReportedIs
    <2>6. /\ PagesOf(r) \subseteq RamPages /\ RegionPages(i + 1) = RegionPages(i) \cup PagesOf(r)
          /\ RegionsApart => PagesOf(r) \cap RegionPages(i) = {}
        BY <2>1, <2>3, RegionIs
    <2>7. Booted(x, i)
        BY <2>1, <2>2
    <2> HIDE DEF T
    <2>8. Booted(y, i + 1)
        BY <2>5, <2>6, <2>7 DEF Booted, Reports
    <2> QED BY <2>4, <2>8
<1>12. T = Nat
    <2> HIDE DEF T
    <2>1. T \in SUBSET Nat
        BY DEF T
    <2> QED BY <1>10, <1>11, <2>1, CountingUp
<1>13. Booted(at[n], n)
    BY <1>1, <1>12
<1>14. RegionPages(n) = RamPages
    BY <1>1 DEF RegionPages, RamPages
<1> QED BY <1>8, <1>13, <1>14 DEF n

LEMMA VmInitInv == VirtualMemoryInit => VmInv
<1> SUFFICES ASSUME VirtualMemoryInit PROVE VmInv
    OBVIOUS
<1>1. mem = BootMemory /\ blocks = {} /\ proc = <<>> /\ dirty \in BOOLEAN /\ lost = FALSE
    BY DEF VirtualMemoryInit
<1>2. mem \in Memories /\ DOMAIN mem.map = {} /\ DOMAIN mem.tab = {} /\ (RegionsApart => ListSound(mem)) /\ DOMAIN proc = {}
    BY <1>1, BootMemoryIs DEF Booted
<1>3. proc \in Processes
    <2>1. <<>> \in [{} -> Process] /\ {} \in SUBSET Procs
        OBVIOUS
    <2> QED BY <1>1, <2>1 DEF Processes
<1>4. IopbPages(proc) = {} /\ IopbsApart(proc)
    BY <1>2 DEF IopbPages, IopbsApart
<1>5. RegionsApart => Sound(mem, IopbPages(proc))
    BY <1>2, <1>4 DEF Sound, Owned, Mapped, MapSound
<1>6. ProcsSound(mem, proc) /\ BlocksSound(mem, blocks) /\ Tabled(mem)
    BY <1>1, <1>2 DEF ProcsSound, BlocksSound, NoStrangers, Present, Tabled
<1>7. MemSound(mem, proc, blocks, lost)
    BY <1>4, <1>5, <1>6 DEF MemSound, OwnedBy
<1> QED BY <1>1, <1>2, <1>3, <1>7 DEF VmInv

-----------------------------------------------------------------------------
(* Steps of the kernel heap *)

LEMMA BlockIs ==
    ASSUME NEW b \in Blocks
    PROVE  /\ b.at \in Nat /\ b.at > 0 /\ b.pages \in Nat /\ b.pages > 0
           /\ b.size # NoSize => Pages(b.size) \in Nat /\ Pages(b.size) <= b.pages
<1>1. /\ b.at \in Nat /\ b.at > 0 /\ b.pages \in Nat /\ b.pages > 0 /\ b.size \in BlockSizes \cup {NoSize}
      /\ b.size # NoSize => b.pages = Pages(b.size + Overhead)
    BY DEF Blocks
<1>2. ASSUME b.size # NoSize PROVE Pages(b.size) \in Nat /\ Pages(b.size) <= b.pages
    <2>1. PICK size \in BlockSizes : size = b.size
        BY <1>1, <1>2
    <2>2. size \in Nat /\ Overhead \in Nat
        BY VirtualMemoryAssumption DEF PageBytes
    <2> QED BY <1>1, <1>2, <2>1, <2>2 DEF Pages, PageBytes
<1> QED BY <1>1, <1>2

LEMMA TakeBlockInv ==
    ASSUME VmInv, Ok(mem), NEW n \in Nat \ {0}, NEW size \in BlockSizes \cup {NoSize}, TakeBlock(n, size),
           size # NoSize => n = Pages(size + Overhead), UNCHANGED dirty
    PROVE  VmInv'
<1>2. PICK m2 : m2 = mem'
    OBVIOUS
<1>4. AllocIs(mem, n, m2)
    BY <1>2, AllocPagesIs DEF TakeBlock, VmInv
<1>5. CASE ~Ok(m2)
    BY <1>2, <1>4, <1>5 DEF VmInv, TakeBlock, AllocIs, Follows
<1>6. CASE Ok(m2)
    <2>1. PICK b : b = [at |-> m2.got, pages |-> n, size |-> size]
        OBVIOUS
    <2>2. b \in Blocks /\ blocks' = blocks \cup {b} /\ proc' = proc /\ lost' = lost
        BY <1>2, <1>4, <1>6, <2>1 DEF AllocIs, Blocks, TakeBlock
    <2>3. BlockPages(b) = m2.got .. m2.got + n - 1
        BY <2>1 DEF BlockPages
    <2>4. \A v \in BlockPages(b) : Present(m2, KernelContext, v) /\ ~Present(mem, KernelContext, v)
        <3> SUFFICES ASSUME NEW v \in BlockPages(b) PROVE Present(m2, KernelContext, v) /\ ~Present(mem, KernelContext, v)
            OBVIOUS
        <3>1. m2.got \in Nat
            BY <1>4, <1>6 DEF AllocIs
        <3>2. v = m2.got + (v - m2.got) /\ v - m2.got \in 0 .. n - 1 /\ v \in m2.got .. m2.got + n - 1
            BY <2>3, <3>1
        <3>3. PICK i : i = v - m2.got
            OBVIOUS
        <3>4. Present(m2, KernelContext, v)
            <4>1. \A w \in m2.got .. (m2.got + n) - 1 : Present(m2, KernelContext, w)
                BY <1>4, <1>6, Zenon DEF AllocIs, AllPresent
            <4> QED BY <3>1, <3>2, <4>1
        <3>5. \A j \in 0 .. n - 1 : ~Present(mem, KernelContext, m2.got + j)
            BY <1>4, <1>6 DEF AllocIs, FreeIsNotPresent
        <3> QED BY <3>2, <3>3, <3>4, <3>5
    <2>5. BlocksSound(mem, blocks)
        BY DEF VmInv, MemSound
    <2>6. BlocksSound(m2, blocks \cup {b})
        <3>1. \A c \in blocks : \A v \in BlockPages(c) : Present(m2, KernelContext, v) /\ Present(mem, KernelContext, v)
            BY <1>4, <2>5 DEF BlocksSound, AllocIs, Follows
        <3> QED BY <2>4, <2>5, <3>1 DEF BlocksSound
    <2>7. ProcsSound(m2, proc) /\ Tabled(m2)
        BY <1>4, ProcsStay, FollowsElsewhere DEF AllocIs, Follows, VmInv, MemSound
    <2>8. OwnedBy(m2, proc, lost)
        BY <1>4, <1>6 DEF AllocIs, VmInv, MemSound, OwnedBy
    <2>9. MemSound(m2, proc, blocks \cup {b}, lost)
        BY <2>6, <2>7, <2>8 DEF MemSound
    <2>10. m2 \in Memories
        BY <1>4 DEF AllocIs, Follows
    <2> QED BY <1>2, <2>2, <2>9, <2>10 DEF VmInv
<1> QED BY <1>5, <1>6
LEMMA VmAllocInv ==
    ASSUME VmInv, Ok(mem), NEW size \in BlockSizes, VmAlloc(size), UNCHANGED dirty
    PROVE  VmInv'
<1>1. PICK n : n = Pages(size + Overhead)
    OBVIOUS
<1>2. n \in Nat \ {0}
    <2>1. size \in Nat \ {0} /\ Overhead \in Nat
        BY VirtualMemoryAssumption DEF PageBytes
    <2> QED BY <1>1, <2>1 DEF Pages, PageBytes
<1>3. TakeBlock(n, size) /\ size \in BlockSizes \cup {NoSize}
    BY <1>1 DEF VmAlloc
<1> QED BY <1>1, <1>2, <1>3, TakeBlockInv

LEMMA AllocatePagesInv ==
    ASSUME VmInv, Ok(mem), NEW n \in PageCounts, AllocatePages(n), UNCHANGED dirty
    PROVE  VmInv'
<1>1. n \in Nat \ {0}
    BY VirtualMemoryAssumption
<1>2. PICK size \in BlockSizes \cup {NoSize} : size = NoSize
    OBVIOUS
<1>3. TakeBlock(n, size)
    BY <1>2 DEF AllocatePages
<1> QED BY <1>1, <1>2, <1>3, TakeBlockInv

\* Block b is gone, and some of its pages.
LEMMA BlockGone ==
    ASSUME VmInv, Ok(mem), NEW b \in blocks, NEW m2, NEW V, Gives(mem, m2, V), V \subseteq BlockPages(b),
           NEW l, OwnedBy(m2, proc, l)
    PROVE  MemSound(m2, proc, blocks \ {b}, l)
<1>1. ProcsSound(mem, proc) /\ BlocksSound(mem, blocks) /\ Tabled(mem) /\ proc \in Processes
    BY DEF VmInv, MemSound
<1>2. SameElsewhere(mem, m2)
    <2> SUFFICES ASSUME NEW e, NEW v, e # KernelContext
                 PROVE  (Present(m2, e, v) <=> Present(mem, e, v)) /\ PhysicalFor(m2, e, v) = PhysicalFor(mem, e, v)
        BY DEF SameElsewhere
    <2> QED BY DEF Gives
<1>3. ProcsSound(m2, proc) /\ Tabled(m2)
    BY <1>1, <1>2, ProcsStay DEF Gives
<1>4. ASSUME NEW c \in blocks \ {b}, NEW w \in BlockPages(c) PROVE Present(m2, KernelContext, w)
    <2>1. w \notin V /\ Present(mem, KernelContext, w)
        BY <1>1, <1>4 DEF BlocksSound
    <2> QED BY <2>1 DEF Gives
<1>5. BlocksSound(m2, blocks \ {b})
    BY <1>1, <1>4 DEF BlocksSound
<1> QED BY <1>3, <1>5 DEF MemSound

LEMMA VmFreeInv ==
    ASSUME VmInv, Ok(mem), NEW b \in blocks, VmFree(b), UNCHANGED dirty
    PROVE  VmInv'
<1>1. b \in Blocks /\ b.size # NoSize
    BY DEF VmInv, VmFree
<1>2. PICK n \in Nat, v \in Nat : n = PagesToFree(b.size) /\ v = b.at
    BY <1>1, BlockIs DEF PagesToFree
<1>3. PICK m2 : m2 = mem'
    OBVIOUS
<1>4. /\ Gives(mem, m2, v .. v + n - 1)
      /\ \A X : Ok(m2) /\ Sound(mem, X) /\ AllPresent(mem, KernelContext, v, v + n) => Sound(m2, X)
    BY <1>2, <1>3, FreeWalk DEF VmFree, VmInv
<1>5. v .. v + n - 1 \subseteq BlockPages(b)
    BY <1>1, <1>2, BlockIs DEF BlockPages, PagesToFree
<1>6. m2 \in Memories /\ blocks' \in SUBSET Blocks /\ proc' = proc /\ lost' = lost /\ blocks' = blocks \ {b}
    BY <1>4 DEF Gives, VmFree, VmInv
<1>7. ASSUME Ok(m2) PROVE MemSound(m2, proc, blocks \ {b}, lost)
    <2>1. AllPresent(mem, KernelContext, v, v + n)
        BY <1>5 DEF AllPresent, BlocksSound, VmInv, MemSound
    <2>2. OwnedBy(m2, proc, lost)
        BY <1>4, <1>7, <2>1 DEF OwnedBy, VmInv, MemSound
    <2> QED BY <1>4, <1>5, <2>2, BlockGone
<1> QED BY <1>3, <1>6, <1>7 DEF VmInv

LEMMA DeallocatePagesInv ==
    ASSUME VmInv, Ok(mem), NEW b \in blocks, DeallocatePages(b), UNCHANGED dirty
    PROVE  VmInv'
<1>1. b \in Blocks /\ mem \in Memories /\ dirty \in BOOLEAN
    BY DEF VmInv
<1>2. PICK n \in Nat, v \in Nat : n = b.pages /\ v = b.at /\ n > 0
    BY <1>1, BlockIs
<1>3. PICK m2 : m2 = mem'
    OBVIOUS
<1>4. Gives(mem, m2, v .. v + n - 1) /\ (n = 1 => m2 = FreePage(mem, v))
    <2> DEFINE at[i \in 0 .. n] == IF i = 0 THEN mem ELSE GiveBack(at[i - 1], v, v + i - 1)
    <2>1. m2 = at[n]
        BY <1>2, <1>3, Zenon DEF DeallocatePages
    <2>2. Gives(mem, at[n], v .. v + n - 1) /\ (n = 1 => at[n] = FreePage(mem, v))
        BY <1>1, LoseWalk
    <2> HIDE DEF at
    <2> QED BY <2>1, <2>2
<1>5. v .. v + n - 1 \subseteq BlockPages(b) /\ v \in BlockPages(b)
    BY <1>2 DEF BlockPages
<1>6. m2 \in Memories /\ blocks' \in SUBSET Blocks /\ proc' = proc /\ blocks' = blocks \ {b}
    BY <1>4 DEF Gives, DeallocatePages, VmInv
<1>7. PICK l \in BOOLEAN : l = lost' /\ (~l => ~lost /\ n = 1)
    <2>1. lost' = (lost \/ b.pages > 1)
        BY DEF DeallocatePages
    <2>2. ~(n > 1) => n = 1
        BY <1>2
    <2> QED BY <1>2, <2>1, <2>2, Zenon
<1>8. ASSUME Ok(m2) PROVE MemSound(m2, proc, blocks \ {b}, l)
    <2>1. Present(mem, KernelContext, v)
        BY <1>5 DEF BlocksSound, VmInv, MemSound
    <2>2. OwnedBy(m2, proc, l)
        <3> SUFFICES ASSUME RegionsApart, ~l PROVE Sound(m2, IopbPages(proc)) /\ IopbsApart(proc)
            BY DEF OwnedBy
        <3>1. Sound(mem, IopbPages(proc)) /\ IopbsApart(proc)
            BY <1>7 DEF VmInv, MemSound, OwnedBy
        <3>2. m2 = FreePage(mem, v)
            BY <1>4, <1>7
        <3> QED BY <1>1, <1>8, <2>1, <3>1, <3>2, FreePageOwned
    <2> QED BY <1>4, <1>5, <2>2, BlockGone
<1> QED BY <1>1, <1>3, <1>6, <1>7, <1>8 DEF VmInv

-----------------------------------------------------------------------------
(* Steps of processes *)

\* Process c, old or new, changes from ps to ps2, but not its I/O bitmap.
Alters(ps, ps2, c) ==
    /\ ps \in Processes /\ ps2 \in Processes /\ c \in Procs
    /\ SameElse(ps, ps2, c)
    /\ IopbOf(ps2[c]) = IF c \in DOMAIN ps THEN IopbOf(ps[c]) ELSE {}

LEMMA AddedAlters ==
    ASSUME NEW ps \in Processes, NEW c \in Procs, c \notin DOMAIN ps, NEW p \in Process, IopbOf(p) = {}
    PROVE  Alters(ps, Entered(ps, c, p), c) /\ Entered(ps, c, p)[c] = p
<1>1. PICK ps2 : ps2 = Entered(ps, c, p)
    OBVIOUS
<1>2. /\ ps2 \in Processes /\ DOMAIN ps2 = DOMAIN ps \cup {c} /\ ps2[c] = p
      /\ \A d \in DOMAIN ps : d # c => ps2[d] = ps[d]
    BY <1>1, ProcessAdded
<1>3. Alters(ps, ps2, c) /\ ps2[c] = p
    BY <1>2 DEF Alters, SameElse
<1> QED BY <1>1, <1>3

LEMMA ChangedAlters ==
    ASSUME NEW ps \in Processes, NEW c \in DOMAIN ps, NEW p \in Process, p.iopb = ps[c].iopb
    PROVE  Alters(ps, Changed(ps, c, p), c) /\ Changed(ps, c, p)[c] = p
<1>1. PICK ps2 : ps2 = Changed(ps, c, p)
    OBVIOUS
<1>2. /\ ps2 \in Processes /\ DOMAIN ps2 = DOMAIN ps /\ ps2[c] = p
      /\ \A d \in DOMAIN ps : d # c => ps2[d] = ps[d]
    BY <1>1, ProcessChanged
<1>3. c \in Procs /\ IopbOf(p) = IopbOf(ps[c])
    BY ProcessesAre DEF IopbOf
<1>4. Alters(ps, ps2, c) /\ ps2[c] = p
    BY <1>2, <1>3 DEF Alters, SameElse
<1> QED BY <1>1, <1>4

LEMMA MemSoundOn ==
    ASSUME NEW m, NEW m2, NEW ps, NEW ps2, NEW bs, NEW c, NEW V, NEW l, MemSound(m, ps, bs, l), Follows(m, m2, c, V),
           Alters(ps, ps2, c), \A X : RegionsApart /\ Sound(m, X) => Sound(m2, X), ProcSound(m2, c, ps2[c])
    PROVE  MemSound(m2, ps2, bs, l)
<1>1. ProcsSound(m2, ps2)
    BY OneChanges DEF Alters, MemSound
<1>2. IopbPages(ps2) = IopbPages(ps) /\ (IopbsApart(ps) => IopbsApart(ps2))
    BY IopbsSame DEF Alters, SameElse
<1>3. BlocksSound(m2, bs) /\ Tabled(m2)
    BY BlocksStay DEF Follows, MemSound
<1>4. OwnedBy(m2, ps2, l)
    BY <1>2 DEF OwnedBy, MemSound
<1> QED BY <1>1, <1>3, <1>4 DEF MemSound

LEMMA MemSoundAlloc ==
    ASSUME NEW m, NEW m2, NEW n, NEW ps \in Processes, NEW bs, NEW l, MemSound(m, ps, bs, l), AllocIs(m, n, m2), Ok(m2)
    PROVE  MemSound(m2, ps, bs, l)
<1>1. ProcsSound(m2, ps)
    BY ProcsStay, FollowsElsewhere DEF AllocIs, MemSound
<1>2. BlocksSound(m2, bs) /\ Tabled(m2)
    BY BlocksStay DEF AllocIs, Follows, MemSound
<1>3. OwnedBy(m2, ps, l)
    BY DEF AllocIs, MemSound, OwnedBy
<1> QED BY <1>1, <1>2, <1>3 DEF MemSound

LEMMA NewProcessIs ==
    /\ NewProcess \in Process /\ IopbOf(NewProcess) = {} /\ NewProcess.stack = Max(StackPages) + 1
    /\ Pages(NewProcess.brk) = 2 /\ NewProcess.brk <= HeapTop
<1>1. HeapBase * PageBytes \in 0 .. AddressBytes - 1 /\ HeapBase * PageBytes <= HeapTop /\ HeapBase * PageBytes = 8
    BY AddressesAre DEF HeapBase, PageBytes
<1>2. /\ Max(StackPages) + 1 \in Min(StackPages) .. Max(StackPages) + 1
      /\ Min(HardwarePages) \in Min(HardwarePages) .. Max(HardwarePages) + 1
    BY LayoutIs
<1>3. /\ NewProcess.stack = Max(StackPages) + 1 /\ NewProcess.iopb = NoIopb /\ NewProcess.brk = HeapBase * PageBytes
    BY DEF NewProcess
<1>4. NewProcess \in Process
    BY <1>1, <1>2 DEF NewProcess, Process, NoIopb
<1>5. Pages(8) = 2
    BY DEF Pages, PageBytes
<1> QED BY <1>1, <1>3, <1>4, <1>5 DEF IopbOf

LEMMA StartTaskInv ==
    ASSUME VmInv, Ok(mem), NEW c \in Procs, StartTask(c), UNCHANGED dirty
    PROVE  VmInv'
<1>0. mem \in Memories /\ proc \in Processes /\ MemSound(mem, proc, blocks, lost)
    BY DEF VmInv
<1>1. PICK m1 : m1 = AllocPages(mem, 1)
    OBVIOUS
<1>2. AllocIs(mem, 1, m1) /\ m1 \in Memories
    BY <1>0, <1>1, AllocPagesIs DEF AllocIs, Follows
<1>3. PICK m2 : m2 = mem'
    OBVIOUS
<1>4. c \in Nat /\ c # KernelContext /\ ProgramPage \in Nat
    BY VirtualMemoryAssumption DEF ProgramPage
<1>5. m2 = MapNewPage(m1, c, ProgramPage)
    BY <1>1, <1>3 DEF StartTask
<1>6. Follows(m1, m2, c, {ProgramPage}) /\ m2 \in Memories /\ Present(m2, c, ProgramPage)
    BY <1>2, <1>4, <1>5, MapNewPageKeeps DEF Follows
<1>7. PICK ps : ps = Entered(proc, c, NewProcess)
    OBVIOUS
<1>8. Alters(proc, ps, c) /\ ps[c] = NewProcess
    BY <1>0, <1>7, NewProcessIs, AddedAlters DEF StartTask, IsFresh
<1>9. ASSUME Ok(m2) PROVE MemSound(m2, ps, blocks, lost)
    <2>1. Ok(m1)
        BY <1>6, <1>9 DEF Follows
    <2>2. MemSound(m1, proc, blocks, lost)
        BY <1>0, <1>2, <2>1, MemSoundAlloc
    <2>3. \A X : Sound(m1, X) => Sound(m2, X)
        BY <1>2, <1>4, <1>5, <1>9, MapNewPageOwned
    <2>4. ProcSound(m2, c, NewProcess)
        <3>1. \A v : ~Present(m1, c, v)
            BY <1>4, <2>2 DEF MemSound, ProcsSound, NoStrangers, StartTask, IsFresh
        <3>2. \A v : Present(m2, c, v) => v = ProgramPage
            BY <1>6, <3>1 DEF Follows
        <3>3. ProgramPage \notin StackPages /\ ProgramPage \notin HardwarePages
            BY LayoutIs DEF ProgramPage
        <3>4. AllPresent(m2, c, ProgramPage, Pages(NewProcess.brk))
            BY <1>6, NewProcessIs DEF AllPresent, ProgramPage
        <3> QED BY <3>2, <3>3, <3>4, NewProcessIs DEF ProcSound
    <2> QED BY <1>6, <1>8, <2>2, <2>3, <2>4, MemSoundOn
<1>10. CASE Ok(m2)
    BY <1>3, <1>6, <1>7, <1>8, <1>9, <1>10 DEF VmInv, StartTask, Alters
<1>11. CASE ~Ok(m2)
    BY <1>3, <1>6, <1>11 DEF VmInv, StartTask
<1> QED BY <1>10, <1>11

LEMMA BreakReplaced ==
    ASSUME NEW A, NEW B, NEW C, NEW D, NEW E,
           NEW p \in [brk : A, stack : B, hwEnd : C, iopb : D, ports : E, shared : BOOLEAN, wrapped : BOOLEAN],
           NEW a \in A, NEW w \in BOOLEAN
    PROVE  LET q == [p EXCEPT !.brk = a, !.wrapped = w] IN
           /\ q \in [brk : A, stack : B, hwEnd : C, iopb : D, ports : E, shared : BOOLEAN, wrapped : BOOLEAN]
           /\ q.stack = p.stack /\ q.brk = a /\ q.iopb = p.iopb /\ q.shared = p.shared /\ q.hwEnd = p.hwEnd /\ q.wrapped = w
OBVIOUS

WithBreak(ps, c, a, w) == [ps EXCEPT ![c].brk = a, ![c].wrapped = @ \/ w]

\* Process p with another end of its heap.
OtherBreak(p, p2, a, w) ==
    /\ p2.stack = p.stack /\ p2.brk = a /\ p2.iopb = p.iopb /\ p2.shared = p.shared
    /\ p2.hwEnd = p.hwEnd /\ p2.wrapped = (p.wrapped \/ w)

LEMMA BreakChanged ==
    ASSUME NEW ps \in Processes, NEW c \in DOMAIN ps, NEW a \in 0 .. AddressBytes - 1, NEW w \in BOOLEAN
    PROVE  \E p2 \in Process : WithBreak(ps, c, a, w) = Changed(ps, c, p2) /\ OtherBreak(ps[c], p2, a, w)
<1>1. PICK p \in Process : p = ps[c]
    BY ProcessesAre
<1>2. PICK b \in BOOLEAN : b = (p.wrapped \/ w)
    BY Zenon
<1>3. PICK p2 : p2 = [p EXCEPT !.brk = a, !.wrapped = b]
    OBVIOUS
<1>4. /\ p2 \in Process /\ p2.stack = p.stack /\ p2.brk = a /\ p2.iopb = p.iopb /\ p2.shared = p.shared
      /\ p2.hwEnd = p.hwEnd /\ p2.wrapped = b
    BY <1>3, BreakReplaced DEF Process
<1>5. PICK q : q = [ps EXCEPT ![c].brk = a, ![c].wrapped = @ \/ w]
    OBVIOUS
<1>6. ps \in [DOMAIN ps -> Process]
    BY DEF Processes
<1>7. /\ DOMAIN q = DOMAIN ps /\ \A d \in DOMAIN ps : d # c => q[d] = ps[d]
      /\ q[c] = [p EXCEPT !.brk = a, !.wrapped = @ \/ w]
    BY <1>1, <1>5, <1>6 DEF Process
<1>8. [p EXCEPT !.brk = a, !.wrapped = @ \/ w] = p2
    BY <1>2, <1>3 DEF Process
<1>9. q = Changed(ps, c, p2)
    BY <1>5, <1>6, <1>7, <1>8 DEF Changed
<1>10. OtherBreak(p, p2, a, w)
    BY <1>2, <1>4, Zenon DEF OtherBreak
<1> QED BY <1>1, <1>4, <1>5, <1>9, <1>10 DEF WithBreak

\* The end of the heap before and after sbrk.
LEMMA BreakIs ==
    ASSUME NEW old \in 0 .. AddressBytes - 1, NEW inc \in Int, NEW end, end = (old + inc) % AddressBytes,
           inc > 0 /\ old <= HeapTop => old + inc <= HeapTop
    PROVE  /\ end \in 0 .. AddressBytes - 1 /\ Pages(end) \in Nat /\ FirstToMap(old) \in Nat
           /\ FirstToMap(old) <= Pages(old) /\ Pages(old) \in Nat
           /\ end <= HeapTop => Pages(end) <= HeapPages + 2
           /\ old + inc \in 0 .. AddressBytes - 1 => end = old + inc /\ (inc <= 0 => Pages(end) <= Pages(old) /\ end <= old)
<1>1. PICK A \in Nat : A = AddressBytes /\ A > 0
    BY AddressesAre
<1>2. end \in 0 .. A - 1
    BY <1>1
<1>3. ASSUME old + inc \in 0 .. A - 1 PROVE end = old + inc
    <2>1. PICK x \in Nat : x = old + inc /\ x < A
        BY <1>3
    <2>2. x % A = x
        BY <1>1, <2>1
    <2> QED BY <1>1, <2>1, <2>2
<1>4. PICK x \in Nat, y \in Nat : x = old /\ y = end
    BY <1>1, <1>2
<1>5. Pages(y) \in Nat /\ Pages(x) \in Nat /\ FirstToMap(x) \in Nat /\ FirstToMap(x) <= Pages(x)
      /\ (y <= x => Pages(y) <= Pages(x))
    BY PagesAre
<1>6. y <= HeapTop => Pages(y) <= HeapPages + 2
    <2>1. HeapTop = (HeapPages + 2) * PageBytes /\ HeapPages + 2 \in Nat
        BY AddressesAre, LayoutIs
    <2> QED BY <2>1, PagesAre
<1> QED BY <1>1, <1>2, <1>3, <1>4, <1>5, <1>6

LEMMA ShrinksIs ==
    ASSUME NEW m \in Memories, NEW c, dirty \in BOOLEAN
    PROVE  ShrinksForEver(m, c) \in Memories /\ ~Ok(ShrinksForEver(m, c))
<1>1. PICK p \in Int : p = PhysicalFor(m, c, 0)
    BY MapIs DEF PhysicalFor, Present, Memories
<1>2. PICK u \in Memories : u = UnmapPage(m, c, 0)
    BY UnmapPageIs
<1>3. PICK k \in Int, why \in States : k = 1 /\ why = "hung"
    BY DEF States
<1>4. MarkFree(u, p, k, dirty) \in Memories
    BY MarkFreeKeeps DEF Follows
<1>5. ShrinksForEver(m, c) = Stopped(MarkFree(u, p, k, dirty), why)
    BY <1>1, <1>2, <1>3 DEF ShrinksForEver
<1> QED BY <1>3, <1>4, <1>5, StoppedIs DEF Ok

LEMMA SbrkInv ==
    ASSUME VmInv, Ok(mem), NEW c \in DOMAIN proc, NEW inc \in Increments, Sbrk(c, inc), UNCHANGED dirty
    PROVE  VmInv'
<1>0. mem \in Memories /\ proc \in Processes /\ MemSound(mem, proc, blocks, lost) /\ dirty \in BOOLEAN
    BY DEF VmInv
<1>1. PICK p \in Process : p = proc[c]
    BY <1>0, ProcessesAre
<1>2. PICK old \in 0 .. AddressBytes - 1 : old = p.brk
    BY DEF Process
<1>3. PICK end : end = (old + inc) % AddressBytes
    OBVIOUS
<1>4. PICK w \in BOOLEAN : w = (old + inc \notin 0 .. AddressBytes - 1)
    OBVIOUS
<1>5. inc \in Int /\ (inc > 0 /\ old <= HeapTop => old + inc <= HeapTop)
    BY <1>1, <1>2, VirtualMemoryAssumption DEF Sbrk
<1>6. /\ end \in 0 .. AddressBytes - 1 /\ Pages(end) \in Nat /\ FirstToMap(old) \in Nat
      /\ FirstToMap(old) <= Pages(old) /\ Pages(old) \in Nat
      /\ end <= HeapTop => Pages(end) <= HeapPages + 2
      /\ ~w => end = old + inc /\ (inc <= 0 => Pages(end) <= Pages(old) /\ end <= old)
    BY <1>3, <1>4, <1>5, BreakIs
<1>7. PICK m2 : m2 = mem'
    OBVIOUS
<1>8. c \in Nat /\ c # KernelContext /\ c \in Procs
    BY <1>0, ProcessesAre
<1>9. PICK p2 \in Process : WithBreak(proc, c, end, w) = Changed(proc, c, p2) /\ OtherBreak(p, p2, end, w)
    <2>1. PICK qs \in Processes : qs = proc
        BY <1>0
    <2>2. PICK k \in DOMAIN qs, a \in 0 .. AddressBytes - 1 : k = c /\ a = end
        BY <1>6, <2>1
    <2>3. \E q \in Process : WithBreak(qs, k, a, w) = Changed(qs, k, q) /\ OtherBreak(qs[k], q, a, w)
        BY BreakChanged
    <2> QED BY <1>1, <2>1, <2>2, <2>3
<1>10. PICK ps : ps = Changed(proc, c, p2)
    OBVIOUS
<1>11. Alters(proc, ps, c) /\ ps[c] = p2
    BY <1>0, <1>1, <1>9, <1>10, ChangedAlters DEF OtherBreak
<1>12. proc' = IF Ok(m2) THEN ps ELSE proc
    BY <1>1, <1>2, <1>3, <1>4, <1>7, <1>9, <1>10, Zenon DEF Sbrk, WithBreak
<1>13. PICK from \in Nat, to \in Nat : from = FirstToMap(old) /\ to = Pages(end)
    BY <1>6
<1>14. /\ m2 \in Memories
       /\ Ok(m2) => /\ Follows(mem, m2, c, from .. to - 1)
                    /\ \A X : Sound(mem, X) => Sound(m2, X)
                    /\ inc > 0 => AllPresent(m2, c, from, to) /\ end <= HeapTop
                    /\ ~(inc > 0) => m2 = mem
    <2>1. CASE inc > 0 /\ end > HeapTop
        <3>1. m2 = Stopped(mem, "wild") /\ "wild" \in States
            BY <1>1, <1>2, <1>3, <1>7, <2>1 DEF Sbrk, States
        <3> QED BY <1>0, <3>1, StoppedIs DEF Ok
    <2>2. CASE inc > 0 /\ ~(end > HeapTop)
        <3>1. m2 = Grown(mem, c, from, to)
            BY <1>1, <1>2, <1>3, <1>7, <1>13, <2>2 DEF Sbrk
        <3>2. end <= HeapTop
            BY <1>6, <2>2, AddressesAre
        <3>3. Grows(mem, m2, c, from, to)
            BY <1>0, <1>8, <3>1, GrownIs
        <3> QED BY <2>2, <3>2, <3>3 DEF Grows, Follows
    <2>3. CASE ~(inc > 0)
        <3>1. m2 = ShrinksForEver(mem, c) \/ m2 = mem
            BY <1>7, <2>3 DEF Sbrk
        <3> QED BY <1>0, <2>3, <3>1, ShrinksIs, FollowsSelf
    <2> QED BY <2>1, <2>2, <2>3
<1>15. ASSUME Ok(m2) PROVE MemSound(m2, ps, blocks, lost)
    <2>1. ProcSound(mem, c, p)
        BY <1>0, <1>1 DEF MemSound, ProcsSound
    <2>2. \A v \in StackPages \cup HardwarePages : Present(m2, c, v) => Present(mem, c, v) /\ PhysicalFor(m2, c, v) = PhysicalFor(mem, c, v)
        <3>1. CASE inc > 0
            <4>1. \A v \in StackPages \cup HardwarePages : v \notin from .. to - 1
                BY <1>6, <1>13, <1>14, <1>15, <3>1, LayoutIs
            <4> QED BY <1>14, <1>15, <4>1 DEF Follows
        <3>2. CASE ~(inc > 0)
            BY <1>14, <1>15, <3>2
        <3> QED BY <3>1, <3>2
    <2>3. /\ \A v \in StackPages : Present(m2, c, v) => v >= p2.stack
          /\ \A v \in HardwarePages : Present(m2, c, v) => v < p2.hwEnd /\ PhysicalFor(m2, c, v) = DevicePage
        BY <1>9, <2>1, <2>2 DEF ProcSound, OtherBreak
    <2>4. ASSUME ~p2.shared, ~p2.wrapped PROVE p2.brk <= HeapTop /\ AllPresent(m2, c, ProgramPage, Pages(p2.brk))
        <3>1. ~w /\ ~p.wrapped /\ ~p.shared
            BY <1>9, <2>4, Zenon DEF OtherBreak
        <3>2. old <= HeapTop /\ AllPresent(mem, c, ProgramPage, Pages(old))
            BY <1>2, <2>1, <3>1 DEF ProcSound
        <3>3. CASE inc > 0
            <4>1. ASSUME NEW v \in ProgramPage .. to - 1 PROVE Present(m2, c, v)
                <5>1. CASE v < Pages(old)
                    <6>1. v \in ProgramPage .. Pages(old) - 1
                        BY <1>6, <5>1 DEF ProgramPage
                    <6> QED BY <1>14, <1>15, <3>2, <6>1 DEF AllPresent, Follows
                <5>2. CASE ~(v < Pages(old))
                    <6>1. v \in from .. to - 1
                        BY <1>6, <1>13, <5>2 DEF ProgramPage
                    <6> QED BY <1>14, <1>15, <3>3, <6>1 DEF AllPresent
                <5> QED BY <5>1, <5>2
            <4> QED BY <1>9, <1>13, <1>14, <1>15, <3>3, <4>1 DEF AllPresent, OtherBreak
        <3>4. CASE ~(inc > 0)
            <4>1. to <= Pages(old) /\ end <= HeapTop
                BY <1>5, <1>6, <1>13, <3>1, <3>2, <3>4, AddressesAre
            <4>2. \A v \in ProgramPage .. to - 1 : v \in ProgramPage .. Pages(old) - 1
                BY <1>6, <4>1 DEF ProgramPage
            <4> QED BY <1>9, <1>13, <1>14, <1>15, <3>2, <3>4, <4>1, <4>2 DEF AllPresent, OtherBreak
        <3> QED BY <3>3, <3>4
    <2>5. ProcSound(m2, c, p2)
        BY <2>3, <2>4 DEF ProcSound
    <2>6. PICK V : Follows(mem, m2, c, V)
        BY <1>14, <1>15
    <2> QED BY <1>0, <1>11, <1>14, <1>15, <2>5, <2>6, MemSoundOn
<1> QED BY <1>7, <1>11, <1>12, <1>14, <1>15 DEF VmInv, Sbrk, Alters

LEMMA NothingAlters ==
    ASSUME NEW ps \in Processes, NEW c \in DOMAIN ps
    PROVE  Alters(ps, ps, c)
BY ProcessesAre DEF Alters, SameElse

\* Process p with another lowest page of its stack or last page of hardware.
OtherEnds(p, p2, stack, hwEnd) ==
    /\ p2 \in Process /\ p2.stack = stack /\ p2.hwEnd = hwEnd
    /\ p2.shared = p.shared /\ p2.wrapped = p.wrapped /\ p2.iopb = p.iopb /\ p2.brk = p.brk

LEMMA EndsReplaced ==
    ASSUME NEW A, NEW B, NEW C, NEW D, NEW E, NEW F, NEW G,
           NEW p \in [brk : A, stack : B, hwEnd : C, iopb : D, ports : E, shared : F, wrapped : G],
           NEW s \in B, NEW h \in C
    PROVE  /\ LET q == [p EXCEPT !.stack = s] IN
              /\ q \in [brk : A, stack : B, hwEnd : C, iopb : D, ports : E, shared : F, wrapped : G]
              /\ q.stack = s /\ q.brk = p.brk /\ q.iopb = p.iopb /\ q.shared = p.shared
              /\ q.hwEnd = p.hwEnd /\ q.wrapped = p.wrapped
           /\ LET q == [p EXCEPT !.hwEnd = h] IN
              /\ q \in [brk : A, stack : B, hwEnd : C, iopb : D, ports : E, shared : F, wrapped : G]
              /\ q.stack = p.stack /\ q.brk = p.brk /\ q.iopb = p.iopb /\ q.shared = p.shared
              /\ q.hwEnd = h /\ q.wrapped = p.wrapped
OBVIOUS

LEMMA OtherStack ==
    ASSUME NEW p \in Process, NEW s \in Min(StackPages) .. Max(StackPages) + 1
    PROVE  OtherEnds(p, [p EXCEPT !.stack = s], s, p.hwEnd)
<1>1. PICK h \in Min(HardwarePages) .. Max(HardwarePages) + 1 : h = p.hwEnd
    BY DEF Process
<1> QED BY EndsReplaced DEF OtherEnds, Process

LEMMA OtherHardware ==
    ASSUME NEW p \in Process, NEW h \in Min(HardwarePages) .. Max(HardwarePages) + 1
    PROVE  OtherEnds(p, [p EXCEPT !.hwEnd = h], p.stack, h)
<1>1. PICK s \in Min(StackPages) .. Max(StackPages) + 1 : s = p.stack
    BY DEF Process
<1> QED BY EndsReplaced DEF OtherEnds, Process

\* A page of its own that a process gets below the heap's end or above it.
LEMMA HeapFollows ==
    ASSUME NEW m, NEW m2, NEW c, NEW V, NEW p, NEW p2, NEW s, NEW h, Follows(m, m2, c, V), ProcSound(m, c, p),
           OtherEnds(p, p2, s, h)
    PROVE  ~p2.shared /\ ~p2.wrapped => p2.brk <= HeapTop /\ AllPresent(m2, c, ProgramPage, Pages(p2.brk))
BY DEF ProcSound, Follows, AllPresent, OtherEnds

LEMMA StackFaultInv ==
    ASSUME VmInv, Ok(mem), NEW c \in DOMAIN proc, NEW v \in StackTouched \cap StackPages, StackFault(c, v), UNCHANGED dirty
    PROVE  VmInv'
<1>0. mem \in Memories /\ proc \in Processes /\ MemSound(mem, proc, blocks, lost)
    BY DEF VmInv
<1>1. PICK p \in Process : p = proc[c]
    BY <1>0, ProcessesAre
<1>2. v \in StackPages /\ v \in Nat /\ v \notin HardwarePages
    BY LayoutIs
<1>3. c \in Nat /\ c # KernelContext
    BY <1>0, ProcessesAre
<1>4. PICK m2 : m2 = mem'
    OBVIOUS
<1>5. m2 = MapNewPage(mem, c, v)
    BY <1>4 DEF StackFault
<1>6. Follows(mem, m2, c, {v}) /\ m2 \in Memories
    BY <1>0, <1>2, <1>3, <1>5, MapNewPageKeeps DEF Follows
<1>7. Ok(m2) => \A X : Sound(mem, X) => Sound(m2, X)
    BY <1>0, <1>2, <1>3, <1>5, MapNewPageOwned
<1>8. ProcSound(mem, c, p)
    BY <1>0, <1>1 DEF MemSound, ProcsSound
<1>9. ASSUME NEW p2, NEW s \in Nat, OtherEnds(p, p2, s, p.hwEnd), s <= v, s <= p.stack PROVE ProcSound(m2, c, p2)
    <2>1. ASSUME NEW w \in StackPages, Present(m2, c, w) PROVE w >= s
        <3>1. w = v \/ Present(mem, c, w)
            BY <1>6, <2>1 DEF Follows
        <3>2. w \in Nat /\ p.stack \in Nat
            BY LayoutIs DEF Process
        <3> QED BY <1>2, <1>8, <1>9, <3>1, <3>2 DEF ProcSound
    <2>2. \A w \in HardwarePages : Present(m2, c, w) => w < p2.hwEnd /\ PhysicalFor(m2, c, w) = DevicePage
        BY <1>2, <1>6, <1>8, <1>9 DEF ProcSound, Follows, OtherEnds
    <2>3. ~p2.shared /\ ~p2.wrapped => p2.brk <= HeapTop /\ AllPresent(m2, c, ProgramPage, Pages(p2.brk))
        BY <1>6, <1>8, <1>9, HeapFollows
    <2>4. p2.stack = s
        BY <1>9 DEF OtherEnds
    <2> QED BY <2>1, <2>2, <2>3, <2>4 DEF ProcSound
<1>10. CASE Ok(m2) /\ v < p.stack
    <2>1. PICK p2 : p2 = [p EXCEPT !.stack = v]
        OBVIOUS
    <2>2. OtherEnds(p, p2, v, p.hwEnd)
        <3>1. v \in Min(StackPages) .. Max(StackPages) + 1
            BY <1>2, LayoutIs
        <3> QED BY <2>1, <3>1, OtherStack
    <2>3. PICK ps : ps = Changed(proc, c, p2)
        OBVIOUS
    <2>4. Alters(proc, ps, c) /\ ps[c] = p2
        BY <1>0, <1>1, <2>2, <2>3, ChangedAlters DEF OtherEnds
    <2>5. ProcSound(m2, c, p2)
        <3>1. v <= v /\ v <= p.stack
            BY <1>2, <1>10, LayoutIs DEF Process
        <3> QED BY <1>2, <1>9, <2>2, <3>1
    <2>6. MemSound(m2, ps, blocks, lost)
        BY <1>0, <1>6, <1>7, <1>10, <2>4, <2>5, MemSoundOn
    <2>7. proc' = ps
        BY <1>1, <1>4, <1>10, <2>1, <2>3 DEF StackFault, Changed
    <2> QED BY <1>4, <1>6, <2>4, <2>6, <2>7 DEF VmInv, StackFault, Alters
<1>11. CASE ~(Ok(m2) /\ v < p.stack)
    <2>1. proc' = proc
        BY <1>1, <1>4, <1>11 DEF StackFault
    <2>2. ASSUME Ok(m2) PROVE MemSound(m2, proc, blocks, lost)
        <3>1. p.stack <= v /\ p.stack \in Nat /\ p.stack <= p.stack
            BY <1>2, <1>11, <2>2, LayoutIs DEF Process
        <3>2. ProcSound(m2, c, p)
            <4>1. OtherEnds(p, p, p.stack, p.hwEnd)
                BY DEF OtherEnds
            <4> QED BY <1>9, <3>1, <4>1
        <3> QED BY <1>0, <1>1, <1>6, <1>7, <2>2, <3>2, MemSoundOn, NothingAlters
    <2> QED BY <1>4, <1>6, <2>1, <2>2 DEF VmInv, StackFault
<1> QED BY <1>10, <1>11

LEMMA MapHardwareInv ==
    ASSUME VmInv, Ok(mem), NEW c \in DOMAIN proc, MapHardware(c), UNCHANGED dirty
    PROVE  VmInv'
<1>0. mem \in Memories /\ proc \in Processes /\ MemSound(mem, proc, blocks, lost)
    BY DEF VmInv
<1>1. PICK p \in Process : p = proc[c]
    BY <1>0, ProcessesAre
<1>2. PICK v : v = FindFree(mem, c, HardwarePages, 1)
    OBVIOUS
<1>3. v # 0 /\ v \in HardwarePages /\ v \in Nat /\ v \notin StackPages
    <2>1. HardwarePages \in SUBSET (Nat \ {0})
        BY LayoutIs
    <2>2. v # 0 /\ v \in HardwarePages
        BY <1>2, <2>1, FindFreeIs DEF MapHardware
    <2> QED BY <2>2, LayoutIs
<1>4. c \in Nat /\ c # KernelContext /\ DevicePage \in Int
    BY <1>0, ProcessesAre DEF DevicePage
<1>5. PICK m2 : m2 = mem'
    OBVIOUS
<1>6. m2 = MapPage(mem, c, v, DevicePage)
    BY <1>2, <1>5 DEF MapHardware
<1>7. Follows(mem, m2, c, {v}) /\ m2 \in Memories /\ PhysicalFor(m2, c, v) = DevicePage
    BY <1>0, <1>3, <1>4, <1>6, MapPageKeeps DEF Follows
<1>8. Ok(m2) => \A X : Sound(mem, X) => Sound(m2, X)
    <2>1. \A X : MayMap(c, v, DevicePage, X, X)
        BY <1>4 DEF MayMap
    <2> QED BY <1>0, <1>3, <1>4, <1>6, <2>1, MapPageOwned
<1>9. ASSUME NEW p2, NEW h \in Nat, OtherEnds(p, p2, p.stack, h), v < h, p.hwEnd <= h PROVE ProcSound(m2, c, p2)
    <2>1. ProcSound(mem, c, p)
        BY <1>0, <1>1 DEF MemSound, ProcsSound
    <2>2. \A w \in StackPages : Present(m2, c, w) => w >= p2.stack
        BY <1>3, <1>7, <1>9, <2>1 DEF ProcSound, Follows, OtherEnds
    <2>3. ASSUME NEW w \in HardwarePages, Present(m2, c, w) PROVE w < h /\ PhysicalFor(m2, c, w) = DevicePage
        <3>1. CASE w = v
            BY <1>7, <1>9, <3>1
        <3>2. CASE w # v
            <4>1. Present(mem, c, w) /\ PhysicalFor(m2, c, w) = PhysicalFor(mem, c, w)
                BY <1>7, <2>3, <3>2 DEF Follows
            <4>2. w < p.hwEnd /\ PhysicalFor(mem, c, w) = DevicePage
                BY <2>1, <4>1 DEF ProcSound
            <4>3. w \in Nat /\ p.hwEnd \in Nat
                BY LayoutIs DEF Process
            <4> QED BY <1>9, <4>1, <4>2, <4>3
        <3> QED BY <3>1, <3>2
    <2>4. ~p2.shared /\ ~p2.wrapped => p2.brk <= HeapTop /\ AllPresent(m2, c, ProgramPage, Pages(p2.brk))
        BY <1>7, <1>9, <2>1, HeapFollows
    <2>5. p2.hwEnd = h
        BY <1>9 DEF OtherEnds
    <2> QED BY <2>2, <2>3, <2>4, <2>5 DEF ProcSound
<1>10. CASE Ok(m2) /\ v + 1 > p.hwEnd
    <2>0. PICK h \in Nat : h = v + 1
        BY <1>3
    <2>1. PICK p2 : p2 = [p EXCEPT !.hwEnd = h]
        OBVIOUS
    <2>2. OtherEnds(p, p2, p.stack, h)
        <3>1. h \in Min(HardwarePages) .. Max(HardwarePages) + 1
            BY <1>3, <2>0, LayoutIs
        <3> QED BY <2>1, <3>1, OtherHardware
    <2>3. PICK ps : ps = Changed(proc, c, p2)
        OBVIOUS
    <2>4. Alters(proc, ps, c) /\ ps[c] = p2
        BY <1>0, <1>1, <2>2, <2>3, ChangedAlters DEF OtherEnds
    <2>5. ProcSound(m2, c, p2)
        <3>1. v < h /\ p.hwEnd <= h
            BY <1>3, <1>10, <2>0, LayoutIs DEF Process
        <3> QED BY <1>9, <2>2, <3>1
    <2>6. MemSound(m2, ps, blocks, lost)
        BY <1>0, <1>7, <1>8, <1>10, <2>4, <2>5, MemSoundOn
    <2>7. proc' = ps
        BY <1>1, <1>2, <1>5, <1>10, <2>0, <2>1, <2>3 DEF MapHardware, Changed
    <2> QED BY <1>5, <1>7, <2>4, <2>6, <2>7 DEF VmInv, MapHardware, Alters
<1>11. CASE ~(Ok(m2) /\ v + 1 > p.hwEnd)
    <2>1. proc' = proc
        BY <1>1, <1>2, <1>5, <1>11 DEF MapHardware
    <2>2. ASSUME Ok(m2) PROVE MemSound(m2, proc, blocks, lost)
        <3>1. OtherEnds(p, p, p.stack, p.hwEnd) /\ p.hwEnd \in Nat /\ v < p.hwEnd /\ p.hwEnd <= p.hwEnd
            BY <1>3, <1>11, <2>2, LayoutIs DEF OtherEnds, Process
        <3>2. ProcSound(m2, c, p)
            BY <1>9, <3>1
        <3> QED BY <1>0, <1>1, <1>7, <1>8, <2>2, <3>2, MemSoundOn, NothingAlters
    <2> QED BY <1>5, <1>7, <2>1, <2>2 DEF VmInv, MapHardware
<1> QED BY <1>10, <1>11

-----------------------------------------------------------------------------
(* Clone *)

\* What context c has is the same in both memories.
SameFor(m, m2, c) ==
    /\ m \in Memories /\ m2 \in Memories
    /\ \A v : (Present(m2, c, v) <=> Present(m, c, v)) /\ PhysicalFor(m2, c, v) = PhysicalFor(m, c, v)
    /\ \A t : HasTable(m2, c, t) <=> HasTable(m, c, t)

LEMMA FollowsSame ==
    ASSUME NEW m \in Memories, NEW m2, NEW c, NEW d, c # d, NEW V, Follows(m, m2, d, V)
    PROVE  SameFor(m, m2, c)
BY DEF Follows, SameFor

LEMMA SameOn ==
    ASSUME NEW m, NEW m1, NEW m2, NEW c, SameFor(m, m1, c), SameFor(m1, m2, c)
    PROVE  SameFor(m, m2, c)
BY DEF SameFor

\* A copy, or none if the memory is to be shared.
CopiesUnless(share, m, m2, c, d, from, to) ==
    /\ Follows(m, m2, d, Nat) /\ OnlyOf(m, m2, c, d)
    /\ \A X : Ok(m2) /\ Sound(m, X) => Sound(m2, X)
    /\ ~share /\ Ok(m2) /\ Tabled(m) /\ CachesHold(m, c, from, to) => HasCopies(m, m2, c, d, from, to)

LEMMA CopiesOrNot ==
    ASSUME NEW m \in Memories, NEW c \in Nat, NEW d \in Nat, c # d, NEW from \in Nat, NEW to \in Nat, NEW share,
           NEW m2, share => m2 = m, ~share => m2 = CopyRange(m, c, d, from, to)
    PROVE  CopiesUnless(share, m, m2, c, d, from, to)
<1> USE DEF CopiesUnless
<1>1. CASE share
    BY <1>1, FollowsSelf DEF OnlyOf
<1>2. CASE ~share
    <2>1. Copies(m, m2, c, d, from, to)
        BY <1>2, CopyRangeIs
    <2> QED BY <2>1 DEF Copies
<1> QED BY <1>1, <1>2

\* What the copies make of memory m for d, the child of c.
Cloned(m, m1, m4, c, d, p, share) ==
    /\ Follows(m1, m4, d, Nat) /\ SameFor(m, m4, c)
    /\ \A X : HardwareIs(m, c) /\ Ok(m4) /\ Sound(m1, X) => Sound(m4, X)
    /\ \A v : Present(m4, d, v) => Present(m1, d, v) \/ Present(m, c, v)
    /\ \A v \in HardwarePages : v < p.hwEnd /\ PhysicalFor(m, c, v) = DevicePage => PhysicalFor(m4, d, v) = DevicePage
    /\ Ok(m4) /\ Tabled(m1) /\ ~share /\ CachesHold(m, c, 0, Pages(p.brk)) => HasCopies(m, m4, c, d, 0, Pages(p.brk))
    /\ Ok(m4) /\ Tabled(m1) /\ CachesHold(m, c, p.stack, Max(StackPages) + 1) =>
           HasCopies(m, m4, c, d, p.stack, Max(StackPages) + 1)

LEMMA CloneMemory ==
    ASSUME mem \in Memories, proc \in Processes,
           NEW c \in DOMAIN proc, NEW d \in Procs, NEW share \in BOOLEAN, Clone(c, d, share)
    PROVE  mem' \in Memories /\ Cloned(mem, AllocPages(mem, 1), mem', c, d, proc[c], share)
<1>1. PICK p \in Process : p = proc[c]
    BY ProcessesAre
<1>2. PICK m1, m2, m3, m4 :
          /\ m1 = AllocPages(mem, 1)
          /\ m2 = IF share THEN m1 ELSE CopyRange(m1, c, d, 0, Pages(p.brk))
          /\ m3 = CopyRange(m2, c, d, p.stack, Max(StackPages) + 1)
          /\ m4 = RemapHardware(m3, c, d) /\ m4 = mem'
    BY <1>1 DEF Clone
<1>3. c \in Nat /\ c # KernelContext /\ d \in Nat /\ d # KernelContext /\ c # d /\ d \notin DOMAIN proc
    BY ProcessesAre, VirtualMemoryAssumption DEF Clone, IsFresh
<1>4. PICK k \in Nat, s \in Nat, t \in Nat : k = Pages(p.brk) /\ s = p.stack /\ t = Max(StackPages) + 1
    <2>1. p.brk \in Nat /\ p.stack \in Nat /\ Max(StackPages) + 1 \in Nat
        BY LayoutIs, AddressesAre DEF Process
    <2>2. Pages(p.brk) \in Nat
        BY <2>1, PagesAre
    <2> QED BY <2>1, <2>2
<1>5. AllocIs(mem, 1, m1) /\ m1 \in Memories
    BY <1>2, AllocPagesIs DEF AllocIs, Follows
<1>6. PICK z \in Nat : z = 0
    OBVIOUS
<1>7. /\ Follows(m1, m2, d, Nat) /\ OnlyOf(m1, m2, c, d)
      /\ \A X : Ok(m2) /\ Sound(m1, X) => Sound(m2, X)
      /\ ~share /\ Ok(m2) /\ Tabled(m1) /\ CachesHold(m1, c, z, k) => HasCopies(m1, m2, c, d, z, k)
    <2>1. (share => m2 = m1) /\ (~share => m2 = CopyRange(m1, c, d, z, k))
        BY <1>2, <1>4, <1>6, Zenon
    <2>2. CopiesUnless(share, m1, m2, c, d, z, k)
        BY <1>3, <1>5, <2>1, CopiesOrNot, Zenon
    <2> QED BY <2>2 DEF CopiesUnless
<1>8. m2 \in Memories
    BY <1>7 DEF Follows
<1>9. Copies(m2, m3, c, d, s, t) /\ m3 \in Memories
    <2>1. m3 = CopyRange(m2, c, d, s, t)
        BY <1>2, <1>4
    <2>2. Copies(m2, m3, c, d, s, t)
        BY <1>3, <1>8, <2>1, CopyRangeIs
    <2> QED BY <2>2 DEF Copies, Follows
<1>10. Remapped(m3, m4, c, d, p.hwEnd) /\ m4 \in Memories
    <2>1. proc[c].hwEnd \in Min(HardwarePages) .. Max(HardwarePages) + 1
        BY <1>1 DEF Process
    <2>2. Remapped(m3, m4, c, d, p.hwEnd)
        BY <1>1, <1>2, <1>3, <1>9, <2>1, RemapIs
    <2> QED BY <2>2 DEF Remapped, Follows
<1>11. /\ Follows(m1, m2, d, Nat) /\ Follows(m2, m3, d, Nat) /\ Follows(m3, m4, d, Nat)
       /\ Follows(m1, m4, d, Nat)
    <2>1. HardwarePages \subseteq Nat
        BY LayoutIs
    <2>2. Follows(m1, m2, d, Nat) /\ Follows(m2, m3, d, Nat) /\ Follows(m3, m4, d, Nat)
        BY <1>7, <1>9, <1>10, <2>1, FollowsMore DEF Copies, Remapped
    <2> QED BY <2>2, FollowsOn
<1>12. SameFor(mem, m1, c) /\ SameFor(mem, m2, c) /\ SameFor(mem, m3, c) /\ SameFor(mem, m4, c)
    <2>1. SameFor(mem, m1, c)
        BY <1>3, <1>5, FollowsSame DEF AllocIs
    <2>2. SameFor(m1, m2, c) /\ SameFor(m2, m3, c) /\ SameFor(m3, m4, c)
        BY <1>3, <1>5, <1>8, <1>9, <1>11, FollowsSame
    <2> QED BY <2>1, <2>2, SameOn
<1>13. Ok(m4) => Ok(m3) /\ Ok(m2) /\ Ok(m1)
    BY <1>11 DEF Follows
<1>14. ASSUME NEW X, HardwareIs(mem, c), Ok(m4), Sound(m1, X) PROVE Sound(m4, X)
    <2>1. Sound(m2, X)
        BY <1>7, <1>13, <1>14
    <2>2. Sound(m3, X)
        BY <1>9, <1>13, <1>14, <2>1 DEF Copies
    <2>3. HardwareIs(m3, c)
        BY <1>12, <1>14 DEF HardwareIs, SameFor
    <2> QED BY <1>10, <1>14, <2>2, <2>3 DEF Remapped
<1>15. ASSUME NEW v, Present(m4, d, v) PROVE Present(m1, d, v) \/ Present(mem, c, v)
    <2>1. Present(m3, d, v) \/ Present(m3, c, v)
        BY <1>10, <1>15 DEF Remapped, OnlyOf
    <2>2. Present(m3, d, v) => Present(m2, d, v) \/ Present(m2, c, v)
        BY <1>9 DEF Copies, OnlyOf
    <2>3. Present(m2, d, v) => Present(m1, d, v) \/ Present(m1, c, v)
        BY <1>7 DEF OnlyOf
    <2> QED BY <1>12, <2>1, <2>2, <2>3 DEF SameFor
<1>16. ASSUME NEW v \in HardwarePages, v < p.hwEnd, PhysicalFor(mem, c, v) = DevicePage PROVE PhysicalFor(m4, d, v) = DevicePage
    <2>1. PhysicalFor(m3, c, v) = DevicePage
        BY <1>12, <1>16 DEF SameFor
    <2> QED BY <1>10, <1>16, <2>1 DEF Remapped
<1>17. ASSUME Ok(m4), Tabled(m1), ~share, CachesHold(mem, c, z, k) PROVE HasCopies(mem, m4, c, d, z, k)
    <2>1. CachesHold(m1, c, z, k)
        BY <1>12, <1>17, CachesSame DEF SameFor
    <2>2. HasCopies(m1, m2, c, d, z, k)
        BY <1>7, <1>13, <1>17, <2>1
    <2> QED BY <1>11, <1>12, <2>2 DEF HasCopies, SameFor, Follows
<1>18. ASSUME Ok(m4), Tabled(m1), CachesHold(mem, c, s, t) PROVE HasCopies(mem, m4, c, d, s, t)
    <2>1. CachesHold(m2, c, s, t)
        BY <1>12, <1>18, CachesSame DEF SameFor
    <2>2. Tabled(m2)
        BY <1>7, <1>18 DEF Follows
    <2>3. HasCopies(m2, m3, c, d, s, t)
        BY <1>9, <1>13, <1>18, <2>1, <2>2 DEF Copies
    <2> QED BY <1>11, <1>12, <2>3 DEF HasCopies, SameFor, Follows
<1>19. Cloned(mem, m1, m4, c, d, p, share)
    BY <1>4, <1>6, <1>11, <1>12, <1>14, <1>15, <1>16, <1>17, <1>18 DEF Cloned
<1> QED BY <1>1, <1>2, <1>10, <1>19

Child(p, share) == [p EXCEPT !.iopb = NoIopb, !.ports = {}, !.shared = share \/ @]

LEMMA FieldsReplaced ==
    ASSUME NEW A, NEW B, NEW C, NEW D, NEW E, NEW F, NEW G,
           NEW p \in [brk : A, stack : B, hwEnd : C, iopb : D, ports : E, shared : F, wrapped : G],
           NEW i \in D, NEW e \in E, NEW f \in F
    PROVE  LET q == [p EXCEPT !.iopb = i, !.ports = e, !.shared = f] IN
           /\ q \in [brk : A, stack : B, hwEnd : C, iopb : D, ports : E, shared : F, wrapped : G]
           /\ q.stack = p.stack /\ q.brk = p.brk /\ q.iopb = i /\ q.shared = f
           /\ q.hwEnd = p.hwEnd /\ q.wrapped = p.wrapped
OBVIOUS

IsChild(p, p2, share) ==
    /\ p2 \in Process /\ IopbOf(p2) = {}
    /\ p2.stack = p.stack /\ p2.brk = p.brk /\ p2.hwEnd = p.hwEnd /\ p2.wrapped = p.wrapped
    /\ ~p2.shared => ~share /\ ~p.shared

LEMMA ChildIs ==
    ASSUME NEW p \in Process, NEW share \in BOOLEAN
    PROVE  IsChild(p, Child(p, share), share)
<1>1. PICK b \in BOOLEAN : b = (share \/ p.shared)
    OBVIOUS
<1>2. Child(p, share) = [p EXCEPT !.iopb = NoIopb, !.ports = {}, !.shared = b]
    BY <1>1 DEF Child, Process
<1>3. PICK q : q = [p EXCEPT !.iopb = NoIopb, !.ports = {}, !.shared = b]
    OBVIOUS
<1>4. /\ q \in Process /\ q.stack = p.stack /\ q.brk = p.brk /\ q.iopb = NoIopb /\ q.shared = b
      /\ q.hwEnd = p.hwEnd /\ q.wrapped = p.wrapped
    <2>1. NoIopb \in Int /\ {} \in SUBSET Ports
        BY DEF NoIopb
    <2> QED BY <1>3, <2>1, FieldsReplaced DEF Process
<1>5. IopbOf(q) = {}
    BY <1>4 DEF IopbOf
<1>6. ~q.shared => ~share /\ ~p.shared
    BY <1>1, <1>4, Zenon
<1> QED BY <1>2, <1>3, <1>4, <1>5, <1>6 DEF IsChild

LEMMA CloneInv ==
    ASSUME VmInv, Ok(mem), NEW c \in DOMAIN proc, NEW d \in Procs, NEW share \in BOOLEAN, Clone(c, d, share),
           UNCHANGED dirty
    PROVE  VmInv'
<1>0. mem \in Memories /\ proc \in Processes /\ MemSound(mem, proc, blocks, lost)
    BY DEF VmInv
<1>1. PICK p \in Process : p = proc[c]
    BY <1>0, ProcessesAre
<1>2. PICK m1, m4 : m1 = AllocPages(mem, 1) /\ m4 = mem'
    OBVIOUS
<1>3. m4 \in Memories /\ Cloned(mem, m1, m4, c, d, p, share)
    BY <1>0, <1>1, <1>2, CloneMemory
<1>4. PICK p2 \in Process : p2 = Child(p, share) /\ IsChild(p, p2, share)
    BY ChildIs DEF IsChild
<1>5. d \notin DOMAIN proc /\ d # KernelContext
    BY VirtualMemoryAssumption DEF Clone, IsFresh
<1>6. PICK ps : ps = Entered(proc, d, p2)
    OBVIOUS
<1>7. Alters(proc, ps, d) /\ ps[d] = p2
    BY <1>0, <1>4, <1>5, <1>6, AddedAlters DEF IsChild
<1>8. proc' = IF Ok(m4) THEN ps ELSE proc
    BY <1>1, <1>2, <1>4, <1>6 DEF Clone, Child
<1>9. ASSUME Ok(m4) PROVE MemSound(m4, ps, blocks, lost)
    <2>1. ProcSound(mem, c, p)
        BY <1>0, <1>1 DEF MemSound, ProcsSound
    <2>2. Follows(m1, m4, d, Nat) /\ Ok(m1)
        BY <1>3, <1>9 DEF Cloned, Follows
    <2>3. MemSound(m1, proc, blocks, lost)
        <3>1. AllocIs(mem, 1, m1)
            BY <1>0, <1>2, AllocPagesIs
        <3> QED BY <1>0, <2>2, <3>1, MemSoundAlloc
    <2>4. \A v : Present(m4, d, v) => Present(mem, c, v)
        BY <1>3, <1>5, <2>3 DEF Cloned, MemSound, ProcsSound, NoStrangers
    <2>5. \A v \in StackPages : Present(m4, d, v) => v >= p2.stack
        BY <1>4, <2>1, <2>4 DEF ProcSound, IsChild
    <2>6. \A v \in HardwarePages : Present(m4, d, v) => v < p2.hwEnd /\ PhysicalFor(m4, d, v) = DevicePage
        BY <1>3, <1>4, <2>1, <2>4 DEF ProcSound, IsChild, Cloned
    <2>7. ASSUME ~p2.shared, ~p2.wrapped PROVE p2.brk <= HeapTop /\ AllPresent(m4, d, ProgramPage, Pages(p2.brk))
        <3>1. PICK k \in Nat : k = Pages(p.brk)
            <4>1. p.brk \in Nat
                BY AddressesAre DEF Process
            <4> QED BY <4>1, PagesAre
        <3>2. ~share /\ p.brk <= HeapTop /\ AllPresent(mem, c, ProgramPage, k)
            BY <1>4, <2>1, <2>7, <3>1 DEF ProcSound, IsChild
        <3>3. CachesHold(mem, c, 0, k)
            BY <1>0, <3>2, HeapCachesHold DEF MemSound
        <3>4. HasCopies(mem, m4, c, d, 0, k)
            BY <1>3, <1>9, <2>3, <3>1, <3>2, <3>3 DEF Cloned, MemSound
        <3>5. \A v \in ProgramPage .. k - 1 : v \in 0 .. k - 1
            BY <3>1 DEF ProgramPage
        <3> QED BY <1>4, <3>1, <3>2, <3>4, <3>5 DEF AllPresent, HasCopies, IsChild
    <2>8. ProcSound(m4, d, p2)
        BY <2>5, <2>6, <2>7 DEF ProcSound
    <2>9. \A X : Sound(m1, X) => Sound(m4, X)
        <3>1. HardwareIs(mem, c)
            BY <2>1 DEF ProcSound, HardwareIs
        <3> QED BY <1>3, <1>9, <3>1 DEF Cloned
    <2> QED BY <1>7, <2>2, <2>3, <2>8, <2>9, MemSoundOn
<1> QED BY <1>2, <1>3, <1>7, <1>8, <1>9 DEF VmInv, Clone, Alters

-----------------------------------------------------------------------------
(* The I/O permission bitmap *)

\* Process p with another bitmap.
OtherIopb(p, p2, i) ==
    /\ p2.iopb = i /\ p2.stack = p.stack /\ p2.brk = p.brk /\ p2.hwEnd = p.hwEnd
    /\ p2.shared = p.shared /\ p2.wrapped = p.wrapped

LEMMA IopbReplaced ==
    ASSUME NEW A, NEW B, NEW C, NEW D, NEW E, NEW F, NEW G,
           NEW p \in [brk : A, stack : B, hwEnd : C, iopb : D, ports : E, shared : F, wrapped : G],
           NEW i \in D, NEW e \in E
    PROVE  /\ LET q == [p EXCEPT !.iopb = i, !.ports = e] IN
              /\ q \in [brk : A, stack : B, hwEnd : C, iopb : D, ports : E, shared : F, wrapped : G]
              /\ q.stack = p.stack /\ q.brk = p.brk /\ q.iopb = i /\ q.shared = p.shared
              /\ q.hwEnd = p.hwEnd /\ q.wrapped = p.wrapped
           /\ LET q == [p EXCEPT !.ports = e] IN
              /\ q \in [brk : A, stack : B, hwEnd : C, iopb : D, ports : E, shared : F, wrapped : G]
              /\ q.stack = p.stack /\ q.brk = p.brk /\ q.iopb = p.iopb /\ q.shared = p.shared
              /\ q.hwEnd = p.hwEnd /\ q.wrapped = p.wrapped
OBVIOUS

LEMMA OtherIopbIs ==
    ASSUME NEW p \in Process, NEW i \in Int, NEW e \in SUBSET Ports
    PROVE  [p EXCEPT !.iopb = i, !.ports = e] \in Process /\ OtherIopb(p, [p EXCEPT !.iopb = i, !.ports = e], i)
BY IopbReplaced DEF Process, OtherIopb

LEMMA OtherPortsIs ==
    ASSUME NEW p \in Process, NEW e \in SUBSET Ports
    PROVE  [p EXCEPT !.ports = e] \in Process /\ OtherIopb(p, [p EXCEPT !.ports = e], p.iopb)
<1>1. PICK i \in Int : i = p.iopb
    BY DEF Process
<1> QED BY <1>1, IopbReplaced DEF Process, OtherIopb

LEMMA IopbChanged ==
    ASSUME NEW ps \in Processes, NEW c \in DOMAIN ps, NEW p \in Process, NEW ps2, ps2 = Changed(ps, c, p),
           IopbsApart(ps), IopbOf(p) \cap (IopbPages(ps) \ IopbOf(ps[c])) = {}
    PROVE  /\ IopbPages(ps2) = (IopbPages(ps) \ IopbOf(ps[c])) \cup IopbOf(p)
           /\ IopbsApart(ps2)
<1>1. /\ DOMAIN ps2 = DOMAIN ps /\ ps2[c] = p
      /\ \A d \in DOMAIN ps : d # c => ps2[d] = ps[d]
    BY ProcessChanged
<1>2. \A d \in DOMAIN ps : d # c => IopbOf(ps[d]) \subseteq IopbPages(ps) \ IopbOf(ps[c])
    BY DEF IopbPages, IopbsApart
<1>3. ASSUME NEW x \in IopbPages(ps) \ IopbOf(ps[c]) PROVE \E d \in DOMAIN ps : d # c /\ x \in IopbOf(ps[d])
    BY <1>3 DEF IopbPages
<1>4. ASSUME NEW x \in IopbPages(ps2) PROVE x \in (IopbPages(ps) \ IopbOf(ps[c])) \cup IopbOf(p)
    <2>1. PICK d \in DOMAIN ps : x \in IopbOf(ps2[d])
        BY <1>1, <1>4 DEF IopbPages
    <2> QED BY <1>1, <1>2, <2>1
<1>5. ASSUME NEW x \in (IopbPages(ps) \ IopbOf(ps[c])) \cup IopbOf(p) PROVE x \in IopbPages(ps2)
    <2>1. \E d \in DOMAIN ps : x \in IopbOf(ps2[d])
        BY <1>1, <1>3
    <2> QED BY <1>1, <2>1 DEF IopbPages
<1>6. IopbsApart(ps2)
    <2> SUFFICES ASSUME NEW d \in DOMAIN ps, NEW e \in DOMAIN ps, d # e
                 PROVE  IopbOf(ps2[d]) \cap IopbOf(ps2[e]) = {}
        BY <1>1 DEF IopbsApart
    <2>1. CASE d # c /\ e # c
        BY <1>1, <2>1 DEF IopbsApart
    <2>2. CASE d = c \/ e = c
        BY <1>1, <1>2, <2>2
    <2> QED BY <2>1, <2>2
<1> QED BY <1>4, <1>5, <1>6

\* What set_iopb does to a memory where the new pages of the bitmap are taken
\* or the old ones are free.
LEMMA IopermSound ==
    ASSUME NEW m \in Memories, NEW m2, NEW c \in DOMAIN proc, NEW iopb \in Int, m2 = SetIopb(m, c, iopb), Ok(m2),
           proc \in Processes, NEW p2 \in Process, NEW ps, ps = Changed(proc, c, p2), OtherIopb(proc[c], p2, p2.iopb),
           Tabled(m), OwnedBy(m, ps, lost), ProcsSound(m, proc), BlocksSound(m, blocks)
    PROVE  MemSound(m2, ps, blocks, lost)
<1>1. c \in Nat /\ c # KernelContext
    BY ProcessesAre
<1>2. /\ Follows(m, m2, c, IopermPage .. IopermPage + 1)
      /\ \A X : Ok(m2) /\ Sound(m, X) => Sound(m2, X)
    BY <1>1, SetIopbIs
<1>3. /\ DOMAIN ps = DOMAIN proc /\ ps[c] = p2
      /\ \A d \in DOMAIN proc : d # c => ps[d] = proc[d]
    BY ProcessChanged
<1>4. ProcSound(m2, c, p2)
    <2>1. PICK p : p = proc[c]
        OBVIOUS
    <2>2. ProcSound(m, c, p)
        BY <2>1 DEF ProcsSound
    <2>3. PICK V : V = IopermPage .. IopermPage + 1
        OBVIOUS
    <2>4. \A v \in V : v \notin StackPages /\ v \notin HardwarePages
        BY <2>3, LayoutIs
    <2>5. /\ p2.stack = p.stack /\ p2.hwEnd = p.hwEnd /\ p2.shared = p.shared /\ p2.wrapped = p.wrapped
          /\ p2.brk = p.brk
        BY <2>1 DEF OtherIopb
    <2> QED BY <1>2, <2>2, <2>3, <2>4, <2>5, ProcFollows
<1>5. ProcsSound(m2, ps)
    <2>1. SameElse(proc, ps, c)
        BY <1>3 DEF SameElse
    <2>2. PICK V : Follows(m, m2, c, V)
        BY <1>2
    <2>3. ProcSound(m2, c, ps[c])
        BY <1>3, <1>4
    <2> QED BY <1>3, <2>1, <2>2, <2>3, OneChanges
<1>6. BlocksSound(m2, blocks) /\ Tabled(m2)
    BY <1>2, BlocksStay DEF Follows
<1>7. OwnedBy(m2, ps, lost)
    BY <1>2 DEF OwnedBy
<1> QED BY <1>5, <1>6, <1>7 DEF MemSound

LEMMA IopermInv ==
    ASSUME VmInv, Ok(mem), NEW c \in DOMAIN proc, NEW ports \in SUBSET Ports, NEW on \in BOOLEAN, Ioperm(c, ports, on),
           UNCHANGED dirty
    PROVE  VmInv'
<1>0. /\ mem \in Memories /\ proc \in Processes /\ MemSound(mem, proc, blocks, lost)
      /\ dirty \in BOOLEAN /\ lost \in BOOLEAN /\ blocks \in SUBSET Blocks
    BY DEF VmInv
<1>1. PICK p \in Process : p = proc[c]
    BY <1>0, ProcessesAre
<1>2. PICK now \in SUBSET Ports : now = IF on THEN p.ports \cup ports ELSE p.ports \ ports
    BY DEF Process
<1>3. PICK m2 : m2 = mem'
    OBVIOUS
<1>4. blocks' = blocks /\ lost' = lost
    BY DEF Ioperm
<1>5. PICK X : X = IopbPages(proc)
    OBVIOUS
<1>6. /\ Tabled(mem) /\ ProcsSound(mem, proc) /\ BlocksSound(mem, blocks)
      /\ RegionsApart /\ ~lost => Sound(mem, X) /\ IopbsApart(proc)
    BY <1>0, <1>5 DEF MemSound, OwnedBy
<1>7. c \in Nat /\ c # KernelContext
    BY <1>0, ProcessesAre
<1>8. ASSUME NEW p2 \in Process, NEW ps, ps = Changed(proc, c, p2) PROVE ps \in Processes
    BY <1>0, <1>8, ProcessChanged
<1>9. CASE p.iopb = NoIopb /\ on
    <2>1. PICK m1 : m1 = Take(mem, 2)
        OBVIOUS
    <2>2. m1 \in Memories /\ m1.map = mem.map /\ m1.tab = mem.tab
        BY <1>0, <2>1, TakeKeeps
    <2>3. PICK g \in Int : g = m1.got
        BY <2>2 DEF Memories
    <2>4. m2 = SetIopb(m1, c, g)
        BY <1>1, <1>3, <1>9, <2>1, <2>3 DEF Ioperm
    <2>5. PICK V : Follows(m1, m2, c, V)
        BY <1>7, <2>2, <2>4, SetIopbIs
    <2>6. PICK p2 : p2 = [p EXCEPT !.iopb = g, !.ports = now]
        OBVIOUS
    <2>7. PICK ps : ps = Changed(proc, c, p2)
        OBVIOUS
    <2>8. proc' = IF Ok(m2) THEN ps ELSE proc
        BY <1>1, <1>2, <1>3, <1>9, <2>1, <2>3, <2>6, <2>7 DEF Ioperm, Changed
    <2>9. p2 \in Process /\ OtherIopb(p, p2, g)
        BY <2>6, OtherIopbIs
    <2>10. ASSUME Ok(m2) PROVE MemSound(m2, ps, blocks, lost)
        <3>1. Ok(m1)
            BY <2>5, <2>10 DEF Follows
        <3>2. ASSUME RegionsApart, ~lost PROVE Sound(m1, IopbPages(ps)) /\ IopbsApart(ps)
            <4>1. PICK Y : Y = TakenOf(mem, m1, 2)
                OBVIOUS
            <4>2. Sound(m1, X \cup Y) /\ X \cap Y = {} /\ g \in Nat /\ g > 0
                BY <1>0, <1>6, <2>1, <2>3, <3>1, <3>2, <4>1, TakeOwned, TakeIs DEF Sound
            <4>3. IopbOf(p2) = Y /\ IopbOf(p) = {}
                BY <1>9, <2>3, <2>9, <4>1, <4>2 DEF IopbOf, TakenOf, NoIopb, OtherIopb
            <4>4. IopbPages(ps) = X \cup Y /\ IopbsApart(ps)
                BY <1>0, <1>1, <1>5, <1>6, <2>7, <2>9, <3>2, <4>2, <4>3, IopbChanged
            <4> QED BY <4>2, <4>4
        <3>3. ProcsSound(m1, proc) /\ BlocksSound(m1, blocks) /\ Tabled(m1)
            BY <1>0, <1>6, <2>2, ProcsStay, BlocksStay DEF Present, PhysicalFor, SameElsewhere, Tabled, HasTable
        <3>4. OwnedBy(m1, ps, lost)
            BY <3>2 DEF OwnedBy
        <3>5. OtherIopb(proc[c], p2, p2.iopb)
            BY <1>1, <2>9 DEF OtherIopb
        <3> QED BY <1>0, <2>2, <2>4, <2>7, <2>9, <2>10, <3>3, <3>4, <3>5, IopermSound
    <2> QED BY <1>0, <1>3, <1>4, <1>8, <2>5, <2>7, <2>8, <2>9, <2>10 DEF VmInv, Follows
<1>10. CASE p.iopb # NoIopb /\ ~on /\ now = {}
    <2>0. PICK i \in Int : i = p.iopb /\ i # NoIopb
        BY <1>10 DEF Process
    <2>1. PICK m1 : m1 = MarkFree(mem, i, 2, dirty)
        OBVIOUS
    <2>2. PICK g \in Int : g = NoIopb
        BY DEF NoIopb
    <2>3. Follows(mem, m1, KernelContext, Nat) /\ m1 \in Memories
        BY <1>0, <2>1, MarkFreeKeeps DEF Follows
    <2>4. m2 = SetIopb(m1, c, g)
        BY <1>1, <1>2, <1>3, <1>10, <2>0, <2>1, <2>2 DEF Ioperm
    <2>5. PICK V : Follows(m1, m2, c, V)
        BY <1>7, <2>3, <2>4, SetIopbIs
    <2>6. PICK p2 : p2 = [p EXCEPT !.iopb = g, !.ports = now]
        OBVIOUS
    <2>7. p2 \in Process /\ OtherIopb(p, p2, g)
        BY <2>6, OtherIopbIs
    <2>8. PICK ps : ps = Changed(proc, c, p2)
        OBVIOUS
    <2>9. proc' = ps
        BY <1>1, <1>2, <1>10, <2>2, <2>6, <2>8 DEF Ioperm, Changed
    <2>10. ASSUME Ok(m2) PROVE MemSound(m2, ps, blocks, lost)
        <3>1. Ok(m1)
            BY <2>5, <2>10 DEF Follows
        <3>2. ASSUME RegionsApart, ~lost PROVE Sound(m1, IopbPages(ps)) /\ IopbsApart(ps)
            <4>1. PICK Y : Y = X \ IopbOf(p)
                OBVIOUS
            <4>2. IopbOf(p) = i .. i + 1 /\ IopbOf(p) \subseteq X /\ IopbOf(p2) = {}
                BY <1>1, <1>5, <2>0, <2>2, <2>7 DEF IopbOf, IopbPages, OtherIopb
            <4>3. i \in Nat
                BY <1>6, <2>0, <3>2, <4>2, RamIs DEF Sound, Owned
            <4>4. i .. i + 2 - 1 \subseteq X \ Y /\ Y \subseteq X
                BY <4>1, <4>2, <4>3
            <4>5. Sound(m1, Y)
                BY <1>0, <1>6, <2>1, <3>1, <3>2, <4>3, <4>4, MarkFreeOwned
            <4>6. IopbPages(ps) = Y /\ IopbsApart(ps)
                <5>1. IopbOf(p2) \cap (IopbPages(proc) \ IopbOf(proc[c])) = {}
                    BY <4>2
                <5>2. /\ IopbPages(ps) = (IopbPages(proc) \ IopbOf(proc[c])) \cup IopbOf(p2)
                      /\ IopbsApart(ps)
                    BY <1>0, <1>6, <2>7, <2>8, <3>2, <5>1, IopbChanged
                <5> QED BY <1>1, <1>5, <4>1, <4>2, <5>2
            <4> QED BY <4>5, <4>6
        <3>3. ProcsSound(m1, proc)
            BY <1>0, <1>6, <2>3, ProcsStay, FollowsElsewhere
        <3>4. BlocksSound(m1, blocks) /\ Tabled(m1)
            BY <1>6, <2>3, BlocksStay DEF Follows
        <3>5. OwnedBy(m1, ps, lost)
            BY <3>2 DEF OwnedBy
        <3>6. OtherIopb(proc[c], p2, p2.iopb)
            BY <1>1, <2>7 DEF OtherIopb
        <3> QED BY <1>0, <2>3, <2>4, <2>7, <2>8, <2>10, <3>3, <3>4, <3>5, <3>6, IopermSound
    <2> QED BY <1>0, <1>3, <1>4, <1>8, <2>5, <2>7, <2>8, <2>9, <2>10 DEF VmInv, Follows
<1>11. CASE p.iopb # NoIopb /\ ~(~on /\ now = {})
    <2>0. PICK i \in Int : i = p.iopb
        BY DEF Process
    <2>1. PICK p2 : p2 = [p EXCEPT !.ports = now]
        OBVIOUS
    <2>2. p2 \in Process /\ OtherIopb(p, p2, i)
        BY <2>0, <2>1, OtherPortsIs
    <2>3. PICK ps : ps = Changed(proc, c, p2)
        OBVIOUS
    <2>4. proc' = ps /\ mem' = mem
        BY <1>1, <1>2, <1>11, <2>1, <2>3 DEF Ioperm, Changed
    <2>5. Alters(proc, ps, c) /\ ps[c] = p2
        BY <1>0, <1>1, <2>0, <2>2, <2>3, ChangedAlters DEF OtherIopb
    <2>6. ProcSound(mem, c, p2)
        BY <1>1, <1>6, <2>2 DEF ProcsSound, ProcSound, OtherIopb
    <2>7. Follows(mem, mem, c, {})
        BY <1>0, FollowsSelf
    <2>8. MemSound(mem, ps, blocks, lost)
        BY <1>0, <2>5, <2>6, <2>7, MemSoundOn
    <2> QED BY <1>0, <1>4, <2>4, <2>5, <2>8 DEF VmInv, Alters
<1> QED BY <1>1, <1>2, <1>9, <1>10, <1>11 DEF Ioperm

LEMMA VmNextInv == VmInv /\ [MemoryNext]_memoryVars => VmInv'
<1> SUFFICES ASSUME VmInv, [MemoryNext]_memoryVars PROVE VmInv'
    OBVIOUS
<1>1. HeapStep \/ ProcessStep \/ UNCHANGED vmVars
    BY DEF MemoryNext, memoryVars
<1>2. CASE UNCHANGED vmVars
    <2>1. mem' = mem /\ proc' = proc /\ blocks' = blocks /\ dirty' = dirty /\ lost' = lost
        BY <1>2 DEF vmVars
    <2> QED BY <2>1 DEF VmInv
<1>3. CASE HeapStep
    <2>1. Ok(mem) /\ UNCHANGED dirty
        BY <1>3 DEF HeapStep
    <2>2. \/ \E size \in BlockSizes : VmAlloc(size)
          \/ \E n \in PageCounts : AllocatePages(n)
          \/ \E b \in blocks : VmFree(b)
          \/ \E b \in blocks : DeallocatePages(b)
          \/ \E c \in Procs : StartTask(c)
          \/ \E c \in DOMAIN proc, ports \in SUBSET Ports, on \in BOOLEAN : Ioperm(c, ports, on)
        BY <1>3 DEF HeapStep
    <2> QED BY <2>1, <2>2, VmAllocInv, AllocatePagesInv, VmFreeInv, DeallocatePagesInv, StartTaskInv, IopermInv
<1>4. CASE ProcessStep
    <2>1. Ok(mem) /\ UNCHANGED dirty
        BY <1>4 DEF ProcessStep
    <2>2. \/ \E c \in Procs : StartTask(c)
          \/ \E c \in DOMAIN proc :
                \/ \E inc \in Increments : Sbrk(c, inc)
                \/ \E v \in StackTouched \cap StackPages : StackFault(c, v)
                \/ MapHardware(c)
                \/ \E d \in Procs, share \in BOOLEAN : Clone(c, d, share)
        BY <1>4 DEF ProcessStep
    <2> QED BY <2>1, <2>2, StartTaskInv, SbrkInv, StackFaultInv, MapHardwareInv, CloneInv
<1> QED BY <1>1, <1>2, <1>3, <1>4

\* Once booted, the list had room for all regions.
MemInv == VmInv /\ (Ok(mem) => Ok(BootMemory))

LEMMA VmAlways == MemorySpec => []MemInv
<1>1. MemoryInit => MemInv
    BY VmInitInv DEF MemoryInit, VirtualMemoryInit, MemInv
<1>2. MemInv /\ [MemoryNext]_memoryVars => MemInv'
    <2> SUFFICES ASSUME MemInv, [MemoryNext]_memoryVars PROVE MemInv'
        OBVIOUS
    <2>1. VmInv'
        BY VmNextInv DEF MemInv
    <2>2. Ok(mem) \/ mem' = mem
        BY DEF MemoryNext, memoryVars, HeapStep, ProcessStep, vmVars
    <2>3. BootMemory' = BootMemory
        OBVIOUS
    <2> QED BY <2>1, <2>2 DEF MemInv, Ok
<1> QED BY <1>1, <1>2, PTL DEF MemorySpec, memoryVars

LEMMA UsesAre ==
    ASSUME VmInv, Ok(mem), NEW u \in MemoryUses
    PROVE  \/ \E x \in Mapped(mem) : u = <<"map", x, mem.map[x]>>
           \/ \E x \in DOMAIN mem.tab : u = <<"table", x, mem.tab[x]>>
           \/ \E c \in DOMAIN proc, i \in {0, 1} :
                 proc[c].iopb # NoIopb /\ u = <<"iopb", <<c, i>>, proc[c].iopb + i>>
BY DEF MemoryUses, Mapped

LEMMA OwnedOnce == VmInv => PagesOwnedOnce
<1> SUFFICES ASSUME VmInv, Ok(mem), RegionsApart, ~lost
             PROVE  /\ FreePages(mem) \subseteq RamPages
                    /\ \A i, j \in DOMAIN mem.list : i # j => PagesOf(mem.list[i]) \cap PagesOf(mem.list[j]) = {}
                    /\ \A u, w \in MemoryUses : u[3] = w[3] => u = w
                    /\ \A u \in MemoryUses : u[3] \in RamPages \ FreePages(mem)
    BY DEF PagesOwnedOnce
<1>1. PICK X : X = IopbPages(proc)
    OBVIOUS
<1>2. ListSound(mem) /\ Owned(mem, X) /\ IopbsApart(proc) /\ proc \in Processes
    BY <1>1 DEF VmInv, MemSound, OwnedBy, Sound
<1>3. FreePages(mem) \subseteq RamPages
    BY <1>2 DEF ListSound, FreePages
<1>4. \A i, j \in DOMAIN mem.list : i # j => PagesOf(mem.list[i]) \cap PagesOf(mem.list[j]) = {}
    BY <1>2 DEF ListSound
<1> DEFINE ByMap(u) == \E x \in Mapped(mem) : u = <<"map", x, mem.map[x]>>
           ByTable(u) == \E x \in DOMAIN mem.tab : u = <<"table", x, mem.tab[x]>>
           ByIopb(u) == \E c \in DOMAIN proc, i \in {0, 1} :
                            proc[c].iopb # NoIopb /\ u = <<"iopb", <<c, i>>, proc[c].iopb + i>>
<1>5. \A u \in MemoryUses : ByMap(u) \/ ByTable(u) \/ ByIopb(u)
    BY UsesAre
<1>6. ASSUME NEW u, ByMap(u) PROVE u[3] \in RamPages /\ u[3] \notin FreePages(mem) /\ u[3] \notin X
    BY <1>2, <1>6 DEF Owned, Mapped
<1>7. ASSUME NEW u, ByTable(u) PROVE u[3] \in RamPages /\ u[3] \notin FreePages(mem) /\ u[3] \notin X
    BY <1>2, <1>7 DEF Owned
<1>8. ASSUME NEW c \in DOMAIN proc, proc[c].iopb # NoIopb, NEW i \in {0, 1}
      PROVE  proc[c].iopb + i \in IopbOf(proc[c]) /\ proc[c].iopb \in Nat
    <2>1. PICK k \in Int : k = proc[c].iopb
        BY <1>2, ProcessesAre DEF Process
    <2>2. IopbOf(proc[c]) = k .. k + 1 /\ k \in k .. k + 1 /\ k + i \in k .. k + 1
        BY <1>8, <2>1 DEF IopbOf
    <2>3. k \in RamPages
        BY <1>1, <1>2, <2>2 DEF IopbPages, Owned
    <2> QED BY <2>1, <2>2, <2>3, RamIs
<1>9. ASSUME NEW u, ByIopb(u) PROVE u[3] \in RamPages /\ u[3] \notin FreePages(mem) /\ u[3] \in X
    <2>1. PICK c \in DOMAIN proc, i \in {0, 1} : proc[c].iopb # NoIopb /\ u = <<"iopb", <<c, i>>, proc[c].iopb + i>>
        BY <1>9
    <2>2. u[3] \in IopbOf(proc[c])
        BY <1>8, <2>1
    <2>3. u[3] \in X
        BY <1>1, <2>2 DEF IopbPages
    <2> QED BY <1>2, <2>3 DEF Owned
<1>10. ASSUME NEW u, NEW w, ByMap(u), ByMap(w), u[3] = w[3] PROVE u = w
    BY <1>2, <1>10 DEF Owned
<1>11. ASSUME NEW u, NEW w, ByTable(u), ByTable(w), u[3] = w[3] PROVE u = w
    BY <1>2, <1>11 DEF Owned
<1>12. ASSUME NEW u, NEW w, ByMap(u), ByTable(w) PROVE u[3] # w[3]
    BY <1>2, <1>12 DEF Owned
<1>13. ASSUME NEW u, NEW w, ByIopb(u), ByIopb(w), u[3] = w[3] PROVE u = w
    <2>1. PICK c \in DOMAIN proc, i \in {0, 1} : proc[c].iopb # NoIopb /\ u = <<"iopb", <<c, i>>, proc[c].iopb + i>>
        BY <1>13
    <2>2. PICK d \in DOMAIN proc, j \in {0, 1} : proc[d].iopb # NoIopb /\ w = <<"iopb", <<d, j>>, proc[d].iopb + j>>
        BY <1>13
    <2>3. proc[c].iopb + i \in IopbOf(proc[c]) /\ proc[d].iopb + j \in IopbOf(proc[d]) /\ proc[c].iopb \in Nat
        BY <1>8, <2>1, <2>2
    <2>4. proc[c].iopb + i = proc[d].iopb + j
        BY <1>13, <2>1, <2>2
    <2>5. c = d
        BY <1>2, <2>3, <2>4 DEF IopbsApart
    <2>6. i = j
        BY <2>3, <2>4, <2>5
    <2> QED BY <2>1, <2>2, <2>5, <2>6
<1> HIDE DEF ByMap, ByTable, ByIopb
<1>14. ASSUME NEW u \in MemoryUses, NEW w \in MemoryUses, u[3] = w[3] PROVE u = w
    BY <1>5, <1>6, <1>7, <1>9, <1>10, <1>11, <1>12, <1>13, <1>14
<1>15. ASSUME NEW u \in MemoryUses PROVE u[3] \in RamPages \ FreePages(mem)
    BY <1>5, <1>6, <1>7, <1>9
<1> QED BY <1>3, <1>4, <1>14, <1>15

-----------------------------------------------------------------------------
(* The direct mapping *)

Higher(e, x) == IF e.start * PageBytes + e.count > x THEN (e.start + e.count) * PageBytes ELSE x

\* x is where the highest of the first i ranges ends.
Top(l, x, i) ==
    /\ x \in Nat
    /\ x = 0 \/ \E k \in 1 .. i : l[k].count > 0 /\ x = (l[k].start + l[k].count) * PageBytes
    /\ \A k \in 1 .. i : l[k].count > 0 => (l[k].start + l[k].count) * PageBytes <= x

LEMMA RangesApart ==
    ASSUME NEW e \in [start : Nat, count : Nat], NEW f \in [start : Nat, count : Nat], e.count > 0, f.count > 0,
           PagesOf(e) \cap PagesOf(f) = {}
    PROVE  e.start + e.count <= f.start \/ f.start + f.count <= e.start
<1>1. e.start \in PagesOf(e) /\ f.start \in PagesOf(f)
    BY DEF PagesOf
<1>2. e.start \notin PagesOf(f) /\ f.start \notin PagesOf(e)
    BY <1>1
<1> QED BY <1>2 DEF PagesOf

LEMMA TopGrows ==
    ASSUME NEW m \in Memories, ListSound(m), NEW i \in Nat, i + 1 \in DOMAIN m.list, NEW x, Top(m.list, x, i)
    PROVE  Top(m.list, Higher(m.list[i + 1], x), i + 1)
<1>1. PICK l \in Seq(Entries) : l = m.list
    BY DEF Memories
<1>2. PICK e \in [start : Nat, count : Nat] : e = l[i + 1] /\ (e.count = 0 => e = UnusedEntry)
    BY <1>1 DEF ListSound
<1>3. 1 .. i + 1 \subseteq DOMAIN l /\ 1 .. i + 1 = 1 .. i \cup {i + 1} /\ i + 1 \notin 1 .. i
    BY <1>1
<1>4. \A k \in 1 .. i : l[k] \in [start : Nat, count : Nat] /\ PagesOf(l[k]) \cap PagesOf(e) = {}
    BY <1>1, <1>2, <1>3 DEF ListSound
<1>5. x \in Nat
    BY DEF Top
<1>6. CASE e.start * PageBytes + e.count > x
    <2>1. PICK y \in Nat : y = Higher(e, x) /\ y = (e.start + e.count) * PageBytes /\ y >= x
        BY <1>5, <1>6 DEF Higher, PageBytes
    <2>2. e.count > 0
        BY <1>2, <1>5, <1>6 DEF UnusedEntry, PageBytes
    <2>3. ASSUME NEW k \in 1 .. i, l[k].count > 0 PROVE (l[k].start + l[k].count) * PageBytes <= y
        <3>1. PICK f \in [start : Nat, count : Nat] : f = l[k]
            BY <1>4
        <3>2. (f.start + f.count) * PageBytes <= x
            BY <1>1, <2>3, <3>1 DEF Top
        <3>3. PICK z \in Nat : z = (f.start + f.count) * PageBytes
            BY DEF PageBytes
        <3> QED BY <1>5, <2>1, <3>1, <3>2, <3>3
    <2> QED BY <1>1, <1>2, <1>3, <2>1, <2>2, <2>3 DEF Top
<1>7. CASE ~(e.start * PageBytes + e.count > x)
    <2>1. Higher(e, x) = x
        BY <1>7 DEF Higher
    <2>2. ASSUME e.count > 0 PROVE (e.start + e.count) * PageBytes <= x
        <3>1. x # 0
            BY <1>7, <2>2 DEF PageBytes
        <3>2. PICK k \in 1 .. i : l[k].count > 0 /\ x = (l[k].start + l[k].count) * PageBytes
            BY <1>1, <3>1 DEF Top
        <3>3. PICK f \in [start : Nat, count : Nat] : f = l[k]
            BY <1>4
        <3>4. e.start + e.count <= f.start \/ f.start + f.count <= e.start
            BY <1>4, <2>2, <3>2, <3>3, RangesApart
        <3> QED BY <1>7, <2>2, <3>2, <3>3, <3>4 DEF PageBytes
    <2>3. \A k \in 1 .. i + 1 : l[k].count > 0 => (l[k].start + l[k].count) * PageBytes <= x
        BY <1>1, <1>2, <1>3, <2>2 DEF Top
    <2>4. x = 0 \/ \E k \in 1 .. i + 1 : l[k].count > 0 /\ x = (l[k].start + l[k].count) * PageBytes
        BY <1>1, <1>3 DEF Top
    <2> QED BY <1>1, <1>2, <1>5, <2>1, <2>3, <2>4 DEF Top
<1> QED BY <1>6, <1>7

LEMMA HighestIs ==
    ASSUME NEW m \in Memories, ListSound(m)
    PROVE  Top(m.list, HighestAddress(m.list), Len(m.list))
<1>1. PICK list \in Seq(Entries) : list = m.list
    BY DEF Memories
<1>2. PICK n \in Nat : n = Len(list) /\ DOMAIN list = 1 .. n
    BY <1>1
<1>3. \A i \in 1 .. n : list[i] \in [start : Nat, count : Nat]
    BY <1>1, <1>2 DEF ListSound
<1> DEFINE res[i \in 0 .. Len(list)] ==
               IF i = 0 THEN 0
               ELSE LET before == res[i - 1]
                    IN  IF list[i].start * PageBytes + list[i].count > before
                        THEN (list[i].start + list[i].count) * PageBytes ELSE before
           IsRes(f) == f = [i \in 0 .. Len(list) |->
               IF i = 0 THEN 0
               ELSE LET before == f[i - 1]
                    IN  IF list[i].start * PageBytes + list[i].count > before
                        THEN (list[i].start + list[i].count) * PageBytes ELSE before]
           G == [i \in Nat |-> [x \in Nat |-> IF i \in 1 .. n THEN Higher(list[i], x) ELSE x]]
<1>4. ASSUME NEW i \in 1 .. n, NEW x \in Nat PROVE Higher(list[i], x) \in Nat
    <2>1. PICK e \in [start : Nat, count : Nat] : e = list[i]
        BY <1>3
    <2>2. (e.start + e.count) * PageBytes \in Nat
        BY DEF PageBytes
    <2> QED BY <2>1, <2>2 DEF Higher
<1>5. PICK f : IsWalk(Nat, 0, G, n, f)
    <2>1. CanWalk(Nat, 0, G, n)
        BY <1>4 DEF CanWalk
    <2> HIDE DEF G
    <2> QED BY <2>1, StepByStep
<1>6. IsRes(f)
    <2>1. ASSUME NEW i \in 1 .. n PROVE f[i] = Higher(list[i], f[i - 1])
        <3>1. f[i - 1] \in Nat
            BY <1>5 DEF IsWalk
        <3>2. G[i][f[i - 1]] = Higher(list[i], f[i - 1])
            BY <3>1
        <3> HIDE DEF G
        <3> QED BY <1>5, <3>2 DEF IsWalk
    <2> HIDE DEF G
    <2> QED BY <1>2, <1>5, <2>1 DEF IsWalk, Higher
<1>7. res = CHOOSE g : IsRes(g)
    OBVIOUS
<1>8. IsRes(res)
    <2> HIDE DEF res, IsRes
    <2> QED BY <1>6, <1>7
<1>9. HighestAddress(list) = res[n]
    BY <1>2 DEF HighestAddress
<1> HIDE DEF res
<1>10. res[0] = 0 /\ \A i \in 1 .. n : res[i] = Higher(list[i], res[i - 1])
    BY <1>2, <1>8 DEF Higher
<1> DEFINE T == {i \in Nat : i <= n => Top(list, res[i], i)}
<1>11. 0 \in T
    <2>1. Top(list, res[0], 0)
        BY <1>10 DEF Top
    <2> QED BY <2>1
<1>12. ASSUME NEW i \in T PROVE i + 1 \in T
    <2> SUFFICES ASSUME i + 1 <= n PROVE Top(list, res[i + 1], i + 1)
        OBVIOUS
    <2>1. Top(list, res[i], i) /\ i \in Nat
        OBVIOUS
    <2>2. i + 1 \in DOMAIN m.list /\ res[i + 1] = Higher(list[i + 1], res[i])
        BY <1>1, <1>2, <1>10, <2>1
    <2> HIDE DEF T
    <2> QED BY <1>1, <2>1, <2>2, TopGrows
<1>13. T = Nat
    <2> HIDE DEF T
    <2>1. T \in SUBSET Nat
        BY DEF T
    <2> QED BY <1>11, <1>12, <2>1, CountingUp
<1>14. Top(list, res[n], n)
    BY <1>13
<1> QED BY <1>1, <1>2, <1>9, <1>14

LEMMA DirectlyMapped ==
    ASSUME NEW list, NEW end \in Nat, end = DirectEnd(list), NEW b \in Nat, b <= end
    PROVE  b \in DirectMapped(list)
<1> DEFINE size == IF end > LargeStep THEN LargeStep ELSE SmallStep
<1>1. size \in {8, 32}
    BY DEF LargeStep, SmallStep, PageBytes
<1>2. DirectMapped(list) = UNION {i .. i + size - 1 : i \in {k * size : k \in 0 .. end \div size}}
    BY DEF DirectMapped, DirectSteps
<1>3. \E i \in {k * size : k \in 0 .. end \div size} : b \in i .. i + size - 1
    <2> HIDE DEF size
    <2>1. CASE size = 8
        <3>1. b \div 8 \in 0 .. end \div 8 /\ b \in (b \div 8) * 8 .. (b \div 8) * 8 + 8 - 1
            OBVIOUS
        <3> QED BY <2>1, <3>1
    <2>2. CASE size = 32
        <3>1. b \div 32 \in 0 .. end \div 32 /\ b \in (b \div 32) * 32 .. (b \div 32) * 32 + 32 - 1
            OBVIOUS
        <3> QED BY <2>2, <3>1
    <2> QED BY <1>1, <2>1, <2>2
<1> HIDE DEF size
<1> QED BY <1>2, <1>3

LEMMA Covers == MemInv => DirectMappingCovers
<1> SUFFICES ASSUME MemInv, RegionsApart, ~lost, Ok(mem), NEW p \in FreePages(mem),
                    (p + 1) * PageBytes - 1 <= DirectRegion, NEW b \in p * PageBytes .. (p + 1) * PageBytes - 1
             PROVE  b \in DirectMapped(BootMemory.list)
    BY DEF DirectMappingCovers
<1>1. PICK m : m = BootMemory
    OBVIOUS
<1>2. m \in Memories /\ ListSound(m) /\ RamPages \subseteq FreePages(m)
    BY <1>1, BootMemoryIs DEF Booted, MemInv
<1>3. p \in FreePages(m)
    <2>1. ListSound(mem)
        BY DEF MemInv, VmInv, MemSound, OwnedBy, Sound
    <2>2. p \in RamPages
        BY <2>1 DEF ListSound, FreePages
    <2> QED BY <1>2, <2>2
<1>4. PICK i \in DOMAIN m.list : p \in PagesOf(m.list[i])
    BY <1>3 DEF FreePages
<1>5. PICK e \in [start : Nat, count : Nat] : e = m.list[i]
    BY <1>2, <1>4 DEF ListSound
<1>6. p \in Nat /\ e.count > 0 /\ p < e.start + e.count
    BY <1>4, <1>5 DEF PagesOf
<1>7. DOMAIN m.list = 1 .. Len(m.list)
    BY <1>2 DEF Memories
<1>8. Top(m.list, HighestAddress(m.list), Len(m.list))
    BY <1>2, HighestIs
<1>9. PICK top \in Nat : top = HighestAddress(m.list) /\ (e.start + e.count) * PageBytes <= top
    BY <1>4, <1>5, <1>6, <1>7, <1>8 DEF Top
<1>10. PICK end \in Nat : end = DirectEnd(m.list) /\ (end = top \/ end = DirectRegion)
    BY <1>9, Assumed DEF DirectEnd
<1>11. b \in Nat /\ b <= end
    <2>1. b \in Nat /\ b <= (p + 1) * PageBytes - 1
        BY <1>6 DEF PageBytes
    <2>2. (p + 1) * PageBytes - 1 <= top
        BY <1>6, <1>9 DEF PageBytes
    <2>3. (p + 1) * PageBytes - 1 \in Nat /\ DirectRegion \in Nat
        BY <1>6, Assumed DEF PageBytes
    <2> QED BY <1>10, <2>1, <2>2, <2>3
<1> QED BY <1>1, <1>10, <1>11, DirectlyMapped

-----------------------------------------------------------------------------
(* Theorems *)

\* Taking pages, mapping them, page tables, I/O bitmaps and the growth of the
\* list of free ranges out of itself never give a page to two users, and
\* never one that is free (mm_alloc_pages, mm_mark_physical_pages,
\* vm_context_map, sc_handle_hardware_ioperm), for all memory maps whose
\* regions do not overlap and as long as no large page was given back.
THEOREM PagesAreOwnedOnce == MemorySpec => []PagesOwnedOnce
<1>1. MemInv => PagesOwnedOnce
    BY OwnedOnce DEF MemInv
<1> QED BY <1>1, VmAlways, PTL

\* Blocks of the kernel heap keep all their pages and stay apart, for all
\* memory maps, sizes and orders of vm_alloc and vm_free, and also when
\* deallocate_pages marks pages free that it does not have.
THEOREM HeapBlocksStayIntact == MemorySpec => []HeapBlocksIntact
<1>1. MemInv => HeapBlocksIntact
    BY DEF MemInv, VmInv, MemSound, BlocksSound, HeapBlocksIntact
<1> QED BY <1>1, VmAlways, PTL

\* What sbrk has given a process stays mapped up to its break, for all
\* increments and all sequences of growing, shrinking and cloning, until the
\* break wraps at zero.
THEOREM HeapsStayBacked == MemorySpec => []BrkIsBacked
<1>1. MemInv => BrkIsBacked
    <2> SUFFICES ASSUME MemInv, Ok(mem), NEW c \in DOMAIN proc, ~proc[c].shared, ~proc[c].wrapped,
                        NEW v \in HeapBase .. Pages(proc[c].brk) - 1
                 PROVE  Present(mem, c, v)
        BY DEF BrkIsBacked
    <2>1. AllPresent(mem, c, ProgramPage, Pages(proc[c].brk))
        BY DEF MemInv, VmInv, MemSound, ProcsSound, ProcSound
    <2>2. PICK k \in Nat : k = Pages(proc[c].brk)
        <3>1. proc[c].brk \in Nat
            BY ProcessesAre, AddressesAre DEF MemInv, VmInv, Process
        <3> QED BY <3>1, PagesAre
    <2>3. v \in ProgramPage .. k - 1
        BY <2>2 DEF HeapBase, ProgramPage
    <2> QED BY <2>1, <2>2, <2>3 DEF AllPresent
<1> QED BY <1>1, VmAlways, PTL

\* mm_highest_address and the step sizes of vm_setup_direct_mapping_init leave
\* out no page that is free later on and lies in the region for the direct
\* mapping, whatever the order of the ranges and the size of the region.
THEOREM DirectMappingAlwaysCovers == MemorySpec => []DirectMappingCovers
BY VmAlways, Covers, PTL

\* A clone has every page of the stack and, unless it shares, of program and
\* heap, as long as the indices vm_copy_range compares tell the tables of the
\* range apart: then its strides over missing tables skip no page that is
\* there, for all sizes of the tables.
THEOREM ClonesAreComplete == MemorySpec => CloneIsComplete
<1>1. MemInv /\ [MemoryNext]_memoryVars =>
          [\A c \in DOMAIN proc, d \in Procs, share \in BOOLEAN :
              IsCloneOf(d, c, share) =>
                  \A r \in {StackRange(c)} \cup (IF share THEN {} ELSE {HeapRange(c)}) :
                      CachesHold(mem, c, r.from, r.to) => HasRange(c, d, r)]_vmVars
    <2> SUFFICES ASSUME MemInv, [MemoryNext]_memoryVars, ~UNCHANGED vmVars,
                        NEW c \in DOMAIN proc, NEW d \in Procs, NEW share \in BOOLEAN, IsCloneOf(d, c, share),
                        NEW r \in {StackRange(c)} \cup (IF share THEN {} ELSE {HeapRange(c)}),
                        CachesHold(mem, c, r.from, r.to)
                 PROVE  HasRange(c, d, r)
        BY DEF vmVars
    <2>1. Ok(mem) /\ Ok(mem') /\ Clone(c, d, share)
        BY DEF MemoryNext, memoryVars, HeapStep, ProcessStep, IsCloneOf
    <2>2. mem \in Memories /\ proc \in Processes /\ Tabled(mem)
        BY <2>1 DEF MemInv, VmInv, MemSound
    <2>3. PICK m1 : m1 = AllocPages(mem, 1)
        OBVIOUS
    <2>4. Cloned(mem, m1, mem', c, d, proc[c], share)
        BY <2>1, <2>2, <2>3, CloneMemory
    <2>5. Tabled(m1)
        <3>1. AllocIs(mem, 1, m1)
            BY <2>2, <2>3, AllocPagesIs
        <3> QED BY <2>2, <3>1 DEF AllocIs, Follows
    <2>6. CASE r = StackRange(c)
        <3>1. r.from = proc[c].stack /\ r.to = Max(StackPages) + 1
            BY <2>6 DEF StackRange
        <3> QED BY <2>1, <2>4, <2>5, <3>1 DEF Cloned, HasCopies, HasRange
    <2>7. CASE ~share /\ r = HeapRange(c)
        <3>1. r.from = 0 /\ r.to = Pages(proc[c].brk)
            BY <2>7 DEF HeapRange
        <3> QED BY <2>1, <2>4, <2>5, <2>7, <3>1 DEF Cloned, HasCopies, HasRange
    <2> QED BY <2>6, <2>7
<1> QED BY <1>1, VmAlways, PTL DEF MemorySpec, memoryVars, CloneIsComplete

===============================================================================
