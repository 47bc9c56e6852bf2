-------------------------------- MODULE PhysMem ------------------------------
(****************************************************************************)
(* Physical pages (src/kernel/mm.cpp) and page tables (vm.cpp).  The kernel *)
(* keeps the free pages as ranges in a list; when the list is full it needs *)
(* a page of the kernel heap, which takes pages from the very list.  So one *)
(* operation of the kernel is a sequence of steps on the same memory, and   *)
(* the operators below map a memory to the memory after them.               *)
(*                                                                          *)
(* Addresses are page numbers.  Of the four levels of tables only the page  *)
(* tables, of Span pages each, take pages of memory: vm_ensure_table treats *)
(* every level alike.  A table above is there as soon as one below it is;   *)
(* VirtualMemory walks all of them.                                         *)
(****************************************************************************)
EXTENDS Integers, Sequences, FiniteSets, FiniteSetsExt, SequencesExt

CONSTANTS
    BootRegions,   \* usable regions the loader reports: [start, count]
    ListSlots,     \* entries of the page list per page
    KernelHeap,    \* pages of ALLOCATOR_REGION_KERNEL_HEAP
    Span,          \* pages below one page table
    DirectRegion   \* last byte of ALLOCATOR_REGION_DIRECT_MAPPING, from its start

ASSUME PhysMemAssumption ==
    /\ BootRegions \in Seq([start : Nat, count : Nat])
    /\ ListSlots \in Nat \ {0}
    /\ KernelHeap \in Nat /\ Span \in Nat \ {0} /\ DirectRegion \in Nat

\* What the loader should report and does not always: regions that do not
\* overlap, without page 0, whose address means "not mapped" to the kernel.
RegionsApart ==
    /\ \A i \in DOMAIN BootRegions : BootRegions[i].start > 0
    /\ \A i, j \in DOMAIN BootRegions :
          i # j => \/ BootRegions[i].start + BootRegions[i].count <= BootRegions[j].start
                   \/ BootRegions[j].start + BootRegions[j].count <= BootRegions[i].start

KernelContext == 0

\* An entry that is MM_UNKNOWN with start and count 0.
UnusedEntry == [start |-> 0, count |-> 0]

\* mm_bootstrap: a page of entries.  list: mm_physical_page_list; open: its
\* last next is not null but whatever the page held; map: pages mapped, by
\* context and virtual page; tab: pages that hold tables; got: the page the
\* last step returned; state: "ok", or why the kernel has stopped.  Once it
\* has, the rest of the memory says nothing.
EmptyMemory == [list |-> [i \in 1 .. ListSlots |-> UnusedEntry], open |-> FALSE,
                map |-> <<>>, tab |-> <<>>, got |-> 0, state |-> "ok"]

Ok(m) == m.state = "ok"

\* Walking off the end of the list: nothing, or garbage taken for an entry.
FellOff(m, why) == [m EXCEPT !.got = 0, !.state = IF m.open THEN "wild" ELSE why]

\* Mutant: the entry keeps its start.
ShrunkAtEnd(e, n) == [e EXCEPT !.count = @ - n]

\* The entry after n pages were taken from its start.
Shrunk(e, n) ==
    IF e.count = n THEN UnusedEntry ELSE [start |-> e.start + n, count |-> e.count - n]

\* mm_alloc_pages: first fit.
Take(m, n) ==
    LET s == SelectInSeq(m.list, LAMBDA e : e.count >= n)
    IN  IF s = 0 THEN FellOff(m, "oom")
        ELSE [m EXCEPT !.list[s] = Shrunk(@, n), !.got = m.list[s].start]

Stopped(m, why) == [m EXCEPT !.state = why]

\* A table with x entered, in place of what it had there.
Entered(f, x, y) == [z \in DOMAIN f \cup {x} |-> IF z = x THEN y ELSE f[z]]

Present(m, c, v) == <<c, v>> \in DOMAIN m.map

\* vm_context_get_physical_for_virtual; 0 if the page is not mapped.
PhysicalFor(m, c, v) == IF Present(m, c, v) THEN m.map[<<c, v>>] ELSE 0

\* vm_ensure_table for the table page v is entered in.
EnsureTable(m, c, v) ==
    LET t == <<c, v \div Span>>
        m1 == Take(m, 1)
    IN  IF t \in DOMAIN m.tab THEN m ELSE [m1 EXCEPT !.tab = Entered(@, t, m1.got)]

\* vm_context_map; an existing mapping is replaced.
MapPage(m, c, v, p) == [EnsureTable(m, c, v) EXCEPT !.map = Entered(@, <<c, v>>, p)]

\* vm_context_unmap
UnmapPage(m, c, v) ==
    [m EXCEPT !.map = [x \in DOMAIN m.map \ {<<c, v>>} |-> m.map[x]]]

\* A new page mapped at v, its table after it.
MapNewPage(m, c, v) ==
    LET m1 == Take(m, 1) IN MapPage(m1, c, v, m1.got)

\* Mutant: only the first of the pages is looked at.
FreeAtStart(m, c, region, num) ==
    {v \in region : ~Present(m, c, v)}

\* Where num pages fit; they may reach beyond the region.
FreeStarts(m, c, region, num) ==
    {v \in region : \A i \in 0 .. num - 1 : ~Present(m, c, v + i)}

\* vm_context_find_free
FindFree(m, c, region, num) ==
    LET starts == FreeStarts(m, c, region, num)
    IN  IF starts = {} THEN 0 ELSE Min(starts)

\* vm_context_alloc_pages in the kernel heap, got is the first virtual page.
\* Without room it returns 0, which every caller goes on to use.
AllocPages(m, num) ==
    LET v == FindFree(m, KernelContext, 1 .. KernelHeap, num)
        at[i \in 0 .. num] ==
            IF i = 0 THEN m ELSE MapNewPage(at[i - 1], KernelContext, v + i - 1)
    IN  IF v = 0 THEN [m EXCEPT !.state = "null"] ELSE [at[num] EXCEPT !.got = v]

\* mm_get_page_list_entry without an unused entry: a page of new entries, of
\* which the last one's next is not written.
ExtendList(m, dirty) ==
    [AllocPages(m, 1) EXCEPT !.list = @ \o [i \in 1 .. ListSlots |-> UnusedEntry], !.open = dirty]

\* Whether the n pages from p are inside a free range already.
Covered(m, p, n) ==
    \E i \in DOMAIN m.list : m.list[i].start <= p /\ p + n <= m.list[i].start + m.list[i].count

FirstUnused(m) == SelectInSeq(m.list, LAMBDA e : e = UnusedEntry)

\* mm_mark_physical_pages(p, n, MM_FREE).  The walk goes to the end of the
\* list, then the range takes the first unused entry: after ExtendList the
\* first new one, even if taking the page for it has emptied another.
MarkFree(m, p, n, dirty) ==
    LET range == [start |-> p, count |-> n]
    IN  IF Covered(m, p, n) THEN m
        ELSE IF m.open THEN FellOff(m, "wild")
        ELSE IF FirstUnused(m) # 0 THEN [m EXCEPT !.list[FirstUnused(m)] = range]
        ELSE [ExtendList(m, dirty) EXCEPT !.list[Len(m.list) + 1] = range]

\* The same at boot: a list that is full asks for a page of the kernel heap
\* before there is a direct mapping to reach it.
Reported(m, r) ==
    IF r.count = 0 \/ Covered(m, r.start, r.count) THEN m
    ELSE IF FirstUnused(m) = 0 THEN Stopped(m, "early")
    ELSE [m EXCEPT !.list[FirstUnused(m)] = [start |-> r.start, count |-> r.count]]

\* init_mm
BootMemory ==
    LET at[i \in 0 .. Len(BootRegions)] ==
            IF i = 0 THEN EmptyMemory ELSE Reported(at[i - 1], BootRegions[i])
    IN  at[Len(BootRegions)]

PagesOf(e) == e.start .. e.start + e.count - 1

FreePages(m) == UNION {PagesOf(m.list[i]) : i \in DOMAIN m.list}

RamPages == UNION {PagesOf(BootRegions[i]) : i \in DOMAIN BootRegions}

-----------------------------------------------------------------------------
(* The direct mapping of all memory *)

\* Bytes, scaled down: a page, the small and the large size of direct mappings.
PageBytes == 4

SmallStep == 2 * PageBytes

LargeStep == 4 * SmallStep

\* mm_highest_address, which compares start + count, not the end in bytes.
HighestAddress(list) ==
    LET res[i \in 0 .. Len(list)] ==
            IF i = 0 THEN 0
            ELSE LET before == res[i - 1]
                 IN  IF list[i].start * PageBytes + list[i].count > before
                     THEN (list[i].start + list[i].count) * PageBytes ELSE before
    IN  res[Len(list)]

\* Mutant: a list that ends on a boundary gets no last mapping.
DirectStepsShort(end) ==
    LET size == IF end > LargeStep THEN LargeStep ELSE SmallStep
    IN  {i * size : i \in 0 .. (end \div size) - 1}

\* vm_setup_direct_mapping_init: large pages above a limit, small ones below.
DirectSteps(end) ==
    LET size == IF end > LargeStep THEN LargeStep ELSE SmallStep
    IN  {i * size : i \in 0 .. end \div size}

\* How far it goes: not beyond the region for it.
DirectEnd(list) ==
    IF HighestAddress(list) > DirectRegion THEN DirectRegion ELSE HighestAddress(list)

DirectMapped(list) ==
    LET end == DirectEnd(list)
        size == IF end > LargeStep THEN LargeStep ELSE SmallStep
    IN  UNION {i .. i + size - 1 : i \in DirectSteps(end)}

=============================================================================
