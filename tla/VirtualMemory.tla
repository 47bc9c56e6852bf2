---------------------------- MODULE VirtualMemory ----------------------------
(****************************************************************************)
(* The kernel heap (vm_alloc, vm_free in vm.cpp) and the memory of          *)
(* processes (scheduler.cpp): program, heap, stack, mapped hardware and the *)
(* I/O permission bitmap, and what clone makes of them; and the pages that  *)
(* PageAllocator (allocator/page.h) takes from the kernel heap.  Nothing    *)
(* frees the memory of a process that ended.                                *)
(****************************************************************************)
EXTENDS PhysMem

CONSTANTS
    Overhead,       \* bytes vm_alloc adds to a block: size before, check value behind
    BlockSizes,     \* sizes of kernel heap blocks
    PageCounts,     \* pages PageAllocator takes at a time
    MaxBlocks,      \* bound: blocks at a time
    Procs,          \* contexts of processes, 1 is the first
    Increments,     \* arguments of sbrk, in bytes
    AddressPages,   \* pages of the address space, where addresses wrap
    HeapPages,      \* bound: pages of a process heap
    StackSize,      \* pages of the stack region
    StackTouched,   \* bound: pages of it that processes touch
    Dirs, Tops,     \* page tables below a directory, directories below a pdp
    Ports,          \* I/O ports
    MaxVmOps        \* bound: operations from boot on

ASSUME VirtualMemoryAssumption ==
    /\ Overhead \in 1 .. PageBytes
    /\ BlockSizes \subseteq Nat \ {0}
    /\ PageCounts \subseteq Nat \ {0}
    /\ Procs \subseteq Nat \ {KernelContext}
    /\ HeapPages \in Nat /\ StackSize \in Nat \ {0}
    /\ AddressPages \in Nat /\ AddressPages > HeapPages + StackSize + 6
    /\ Increments \subseteq Int
    /\ Dirs \in Nat /\ Dirs > 1 /\ Tops \in Nat /\ Tops > 1
    /\ MaxVmOps \in Nat

VARIABLES
    mem,      \* the memory, see BootMemory
    blocks,   \* blocks of the kernel heap in use: [at, pages, size]
    lost,     \* whether PageAllocator has marked pages free that it did not have
    proc,     \* the processes started so far
    dirty,    \* whether pages handed out hold old data
    vmOps     \* operations so far

vmVars == <<mem, blocks, lost, proc, dirty, vmOps>>

\* Layout of an address space, in pages: the program, the heap behind it, the
\* stack, MMIO and the bitmap.
ProgramPage == 1

HeapBase == 2

HeapTop == (HeapBase + HeapPages) * PageBytes

StackPages == HeapBase + HeapPages .. HeapBase + HeapPages + StackSize - 1

AddressBytes == AddressPages * PageBytes

HardwarePages == Max(StackPages) + 1 .. Max(StackPages) + 2

IopermPage == Max(HardwarePages) + 1

NoIopb == 0

\* Physical pages that are not usable memory: a device and the bitmap of the
\* kernel's TSS that all processes share.
DevicePage == -1

TssPage == -2

NewProcess == [brk |-> HeapBase * PageBytes, stack |-> Max(StackPages) + 1,
               hwEnd |-> Min(HardwarePages), iopb |-> NoIopb, ports |-> {},
               shared |-> FALSE, wrapped |-> FALSE]

VirtualMemoryInit ==
    /\ mem = BootMemory
    /\ blocks = {}
    /\ lost = FALSE
    /\ proc = <<>>
    /\ dirty \in BOOLEAN
    /\ vmOps = 0

-----------------------------------------------------------------------------
(* Kernel heap *)

Pages(bytes) == (bytes + PageBytes - 1) \div PageBytes

\* The size of a block that PageAllocator has.
NoSize == 0

\* A new block: what of the memory is in it, unless there is none.
TakeBlock(pages, size) ==
    /\ Cardinality(blocks) < MaxBlocks
    /\ mem' = AllocPages(mem, pages)
    /\ blocks' = IF Ok(mem') THEN blocks \cup {[at |-> mem'.got, pages |-> pages, size |-> size]} ELSE blocks
    /\ UNCHANGED <<proc, lost>>

VmAlloc(size) == TakeBlock(Pages(size + Overhead), size)

\* vm_free does not count the overhead: a page that only holds some of it
\* stays mapped for ever.
PagesToFree(size) == Pages(size)

\* Page v is unmapped, the memory of page first marked free.
GiveBack(m, first, v) ==
    MarkFree(UnmapPage(m, KernelContext, v), PhysicalFor(m, KernelContext, first), 1, dirty)

FreePage(m, v) == GiveBack(m, v, v)

VmFree(b) ==
    LET at[i \in 0 .. PagesToFree(b.size)] ==
            IF i = 0 THEN mem ELSE FreePage(at[i - 1], b.at + i - 1)
    IN  /\ b.size # NoSize
        /\ mem' = at[PagesToFree(b.size)]
        /\ blocks' = blocks \ {b}
        /\ UNCHANGED <<proc, lost>>

\* PageAllocator::allocate_pages: the block is the pages.
AllocatePages(n) == TakeBlock(n, NoSize)

\* PageAllocator::deallocate_pages unmaps page after page but always looks up
\* the first one, which is not mapped any more: instead of the others it
\* marks page 0 as free, or what the list of free pages has put there.
DeallocatePages(b) ==
    LET at[i \in 0 .. b.pages] ==
            IF i = 0 THEN mem
            ELSE GiveBack(at[i - 1], b.at, b.at + i - 1)
    IN  /\ b.size = NoSize
        /\ mem' = at[b.pages]
        /\ blocks' = blocks \ {b}
        /\ lost' = (lost \/ b.pages > 1)
        /\ UNCHANGED proc

-----------------------------------------------------------------------------
(* Processes *)

\* free_pid: the lowest one.
IsFresh(c) == c \notin DOMAIN proc /\ \A d \in Procs : d < c => d \in DOMAIN proc

\* vm_context_new and load_elf of a program of one page.
StartTask(c) ==
    /\ IsFresh(c)
    /\ mem' = MapNewPage(AllocPages(mem, 1), c, ProgramPage)
    /\ proc' = IF Ok(mem') THEN Entered(proc, c, NewProcess) ELSE proc
    /\ UNCHANGED <<blocks, lost>>

\* Mutant: the page the old end lies in is taken for granted.
GrowFrom(end) == Pages(end) + 1

FirstToMap(end) == end \div PageBytes

\* The memory with what is missing of the pages from .. to - 1.
Grown(m, c, from, to) ==
    LET at[i \in 0 .. to - from] ==
            IF i = 0 THEN m
            ELSE LET before == at[i - 1]
                     v == from + i - 1
                 IN  IF PhysicalFor(before, c, v) = 0 THEN MapNewPage(before, c, v) ELSE before
    IN  IF from < to THEN at[to - from] ELSE m

\* The loop that shrinks meets an address in the first page: it unmaps that
\* page, marks its memory free - or page 0 - and goes on below zero, where it
\* never gets down to the new end.  Interrupts are off.
ShrinksForEver(m, c) ==
    Stopped(MarkFree(UnmapPage(m, c, 0), PhysicalFor(m, c, 0), 1, dirty), "hung")

\* sc_handle_memory_sbrk, with addresses that wrap.  Growing maps what is
\* missing from the page of the old end on; with an old end in the kernel's
\* half this changes the kernel's tables.  Shrinking frees nothing above the
\* first page of memory, and below zero nothing at all.
Sbrk(c, inc) ==
    LET brk == proc[c].brk
        end == (brk + inc) % AddressBytes
        wraps == brk + inc \notin 0 .. AddressBytes - 1
    IN
    /\ inc > 0 /\ brk <= HeapTop => brk + inc <= HeapTop
    /\ mem' = IF inc > 0
              THEN IF end > HeapTop THEN Stopped(mem, "wild") ELSE Grown(mem, c, FirstToMap(brk), Pages(end))
              ELSE IF inc < 0 /\ ~wraps /\ brk % PageBytes > end THEN ShrinksForEver(mem, c) ELSE mem
    /\ proc' = IF Ok(mem') THEN [proc EXCEPT ![c].brk = end, ![c].wrapped = @ \/ wraps] ELSE proc
    /\ UNCHANGED <<blocks, lost>>

\* scheduler_handle_pf: a missing page of the stack region, anywhere in it.
StackFault(c, v) ==
    /\ ~Present(mem, c, v)
    /\ mem' = MapNewPage(mem, c, v)
    /\ proc' = IF Ok(mem') /\ v < proc[c].stack THEN [proc EXCEPT ![c].stack = v] ELSE proc
    /\ UNCHANGED <<blocks, lost>>

\* scheduler_map_hardware with vm_map_hardware, one page at a time.
MapHardware(c) ==
    LET v == FindFree(mem, c, HardwarePages, 1) IN
    /\ v # 0
    /\ mem' = MapPage(mem, c, v, DevicePage)
    /\ proc' = IF Ok(mem') /\ v + 1 > proc[c].hwEnd THEN [proc EXCEPT ![c].hwEnd = v + 1] ELSE proc
    /\ UNCHANGED <<blocks, lost>>

\* set_iopb: the two pages of the bitmap.  The second one is mapped from
\* new_iopb * 4 KiB, far away from the page behind new_iopb.
SetIopb(m, c, iopb) ==
    LET first == IF iopb = NoIopb THEN TssPage ELSE iopb
        second == IF iopb = NoIopb THEN TssPage ELSE iopb * 4096
    IN  MapPage(MapPage(m, c, IopermPage, first), c, IopermPage + 1, second)

\* sc_handle_hardware_ioperm: the bitmap is made with the first port that is
\* turned on and freed with the last one.
Ioperm(c, ports, on) ==
    LET p == proc[c]
        now == IF on THEN p.ports \cup ports ELSE p.ports \ ports
        m1 == Take(mem, 2)
    IN
    /\ UNCHANGED <<blocks, lost>>
    /\ \/ /\ p.iopb = NoIopb /\ on
          /\ mem' = SetIopb(m1, c, m1.got)
          /\ proc' = IF Ok(mem') THEN [proc EXCEPT ![c].iopb = m1.got, ![c].ports = now] ELSE proc
       \/ /\ p.iopb # NoIopb
          /\ IF ~on /\ now = {}
             THEN /\ mem' = SetIopb(MarkFree(mem, p.iopb, 2, dirty), c, NoIopb)
                  /\ proc' = [proc EXCEPT ![c].iopb = NoIopb, ![c].ports = {}]
             ELSE proc' = [proc EXCEPT ![c].ports = now] /\ UNCHANGED mem

\* The tables page v is entered in: page table, directory and pdp.
PtOf(v) == v \div Span

PdOf(v) == PtOf(v) \div Dirs

PdpOf(v) == PdOf(v) \div Tops

HasPt(m, c, t) == <<c, t>> \in DOMAIN m.tab

HasPd(m, c, p) == \E x \in DOMAIN m.tab : x[1] = c /\ x[2] \div Dirs = p

HasPdp(m, c, q) == \E x \in DOMAIN m.tab : x[1] = c /\ (x[2] \div Dirs) \div Tops = q

\* No table is looked at yet.
NoTable == -1

\* The table vm_copy_range goes on with: the one it looked at last, if that
\* has the same index in the n entries of whatever table is above it.
Cached(last, t, n) == IF last # NoTable /\ last % n = t % n THEN last ELSE t

\* Mutant: a missing page table is taken for a missing directory.
PtStrideOfPd == Span * Dirs

\* How far it goes on from a page without a page table or directory, wherever
\* in it that page is.
PtStride == Span

PdStride == Span * Dirs

\* Page w of c, in place of what d had there, which is not freed.
CopyPage(m, c, d, w) ==
    LET m1 == EnsureTable(m, d, w)
    IN  IF Present(m1, c, w) THEN MapNewPage(m1, d, w) ELSE m1

\* One round of the loop of vm_copy_range at page s.v.  Whether the source has
\* a pdp is not checked: page 0 of the memory is taken for a missing one.
CopyStep(s, c, d) ==
    LET pd == Cached(s.pd, PdOf(s.v), Tops)
        t == pd * Dirs + (PtOf(s.v) % Dirs)
        pt == Cached(s.pt, t, Dirs)
    IN  IF ~HasPdp(s.m, c, PdpOf(s.v)) THEN [s EXCEPT !.m = Stopped(@, "wild"), !.v = @ + 1]
        ELSE IF ~HasPd(s.m, c, PdOf(s.v)) THEN [s EXCEPT !.v = @ + PdStride]
        ELSE IF ~HasPt(s.m, c, t) THEN [s EXCEPT !.v = @ + PtStride, !.pd = pd]
        ELSE [m |-> CopyPage(s.m, c, d, pt * Span + (s.v % Span)), v |-> s.v + 1, pd |-> pd, pt |-> pt]

\* vm_copy_range of the pages from .. to - 1.
CopyRange(m, c, d, from, to) ==
    LET at[i \in 0 .. to] ==
            IF i = 0 THEN [m |-> m, v |-> from, pd |-> NoTable, pt |-> NoTable]
            ELSE LET s == at[i - 1] IN IF s.v >= to \/ ~Ok(s.m) THEN s ELSE CopyStep(s, c, d)
    IN  at[to].m

\* The hardware pages of c, mapped for d too.
RemapHardware(m, c, d) ==
    LET first == Min(HardwarePages)
        at[i \in 0 .. proc[c].hwEnd - first] ==
            IF i = 0 THEN m
            ELSE LET v == first + i - 1
                 IN  IF PhysicalFor(m, c, v) = 0 THEN at[i - 1]
                     ELSE MapPage(at[i - 1], d, v, PhysicalFor(m, c, v))
    IN  at[proc[c].hwEnd - first]

\* sc_handle_scheduler_clone: with share_memory the heap is neither copied nor
\* mapped.  The I/O bitmap is not inherited.
Clone(c, d, share) ==
    LET p == proc[c]
        m1 == AllocPages(mem, 1)
        m2 == IF share THEN m1 ELSE CopyRange(m1, c, d, 0, Pages(p.brk))
        m3 == CopyRange(m2, c, d, p.stack, Max(StackPages) + 1)
        m4 == RemapHardware(m3, c, d)
    IN
    /\ IsFresh(d)
    /\ mem' = m4
    /\ proc' = IF Ok(mem')
               THEN Entered(proc, d, [p EXCEPT !.iopb = NoIopb, !.ports = {}, !.shared = share \/ @])
               ELSE proc
    /\ UNCHANGED <<blocks, lost>>

\* The kernel's own allocations, and those of processes that free again.
HeapStep ==
    /\ Ok(mem)
    /\ vmOps < MaxVmOps
    /\ vmOps' = vmOps + 1
    /\ UNCHANGED dirty
    /\ \/ \E size \in BlockSizes : VmAlloc(size)
       \/ \E n \in PageCounts : AllocatePages(n)
       \/ \E b \in blocks : VmFree(b) \/ DeallocatePages(b)
       \/ \E c \in Procs : StartTask(c)
       \/ \E c \in DOMAIN proc, ports \in SUBSET Ports, on \in BOOLEAN : Ioperm(c, ports, on)

ProcessStep ==
    /\ Ok(mem)
    /\ vmOps < MaxVmOps
    /\ vmOps' = vmOps + 1
    /\ UNCHANGED dirty
    /\ \/ \E c \in Procs : StartTask(c)
       \/ \E c \in DOMAIN proc :
             \/ \E inc \in Increments : Sbrk(c, inc)
             \/ \E v \in StackTouched \cap StackPages : StackFault(c, v)
             \/ MapHardware(c)
             \/ \E d \in Procs, share \in BOOLEAN : Clone(c, d, share)

-----------------------------------------------------------------------------
(* Properties *)

\* Whether page v of context c shows an I/O bitmap: such a mapping is not what
\* a page is used for.
ShowsIopb(c, v) == c # KernelContext /\ v \in IopermPage .. IopermPage + 1

\* Every use of a page of memory: mapped by a context, holding a table, part
\* of an I/O bitmap.
MemoryUses ==
    LET mapped == {x \in DOMAIN mem.map : mem.map[x] \in RamPages /\ ~ShowsIopb(x[1], x[2])}
    IN  {<<"map", x, mem.map[x]>> : x \in mapped} \cup
        {<<"table", x, mem.tab[x]>> : x \in DOMAIN mem.tab} \cup
        {<<"iopb", <<c, i>>, proc[c].iopb + i>> : c \in {d \in DOMAIN proc : proc[d].iopb # NoIopb}, i \in {0, 1}}

\* No page of memory is used twice: not by two processes, not by a process and
\* a page table, and none in use is among the free ones, which do not overlap
\* either - also while the list of free ranges takes pages from itself.  This
\* needs regions that do not overlap, and ends with the first large page that
\* is given back.
PagesOwnedOnce ==
    RegionsApart /\ ~lost /\ Ok(mem) =>
        /\ FreePages(mem) \subseteq RamPages
        /\ \A i, j \in DOMAIN mem.list :
              i # j => PagesOf(mem.list[i]) \cap PagesOf(mem.list[j]) = {}
        /\ LET uses == MemoryUses IN
           /\ \A u, w \in uses : u[3] = w[3] => u = w
           /\ \A u \in uses : u[3] \in RamPages \ FreePages(mem)

BlockPages(b) == b.at .. b.at + b.pages - 1

\* Blocks of the kernel heap keep their memory: all pages up to the check
\* value at the end stay mapped until the block is freed, and blocks do not
\* overlap, although other blocks, lists and contexts come and go around them.
HeapBlocksIntact ==
    Ok(mem) =>
        /\ \A b \in blocks : \A v \in BlockPages(b) : Present(mem, KernelContext, v)
        /\ \A b1, b2 \in blocks : b1 # b2 => BlockPages(b1) \cap BlockPages(b2) = {}

\* The memory a process has got from sbrk is there, whatever sequence of
\* growing, shrinking and cloning led to its heap, unless clone was asked to
\* share it or the break has once wrapped at zero.
BrkIsBacked ==
    \A c \in DOMAIN proc :
        Ok(mem) /\ ~proc[c].shared /\ ~proc[c].wrapped =>
            \A v \in HeapBase .. Pages(proc[c].brk) - 1 : Present(mem, c, v)

\* Sbrk "increments the data segment by inc bytes": the last inc bytes below
\* the new end are there, as far down as there are addresses.
IncrementIsThere ==
    [][\A c \in DOMAIN proc, inc \in Increments :
          inc > 0 /\ Sbrk(c, inc) /\ Ok(mem') =>
              LET end == proc'[c].brk
                  from == IF end < inc THEN 0 ELSE FirstToMap(end - inc)
              IN  \A v \in from .. Pages(end) - 1 : Present(mem', c, v)]_vmVars

\* No member of S has the index of the one before it in tables of n entries.
IndicesChange(S, n) ==
    \A x, y \in S : x < y /\ x % n = y % n => \E z \in S : x < z /\ z < y

\* Whether vm_copy_range meets every table of c between two pages: it begins at
\* a table or a directory, and the tables it looks at one after the other, of
\* which it compares the index only, differ in it.
CachesHold(m, c, from, to) ==
    LET pages == from .. to - 1
        tables == {t \in {PtOf(v) : v \in pages} : HasPt(m, c, t)}
        directories == {p \in {PdOf(v) : v \in pages} : HasPd(m, c, p)}
    IN  /\ from % (Span * Dirs) = 0 \/ HasPt(m, c, PtOf(from))
        /\ IndicesChange(tables, Dirs) /\ IndicesChange(directories, Tops)

\* The pages clone should copy, from and to.
HeapRange(c) == [from |-> 0, to |-> Pages(proc[c].brk)]

StackRange(c) == [from |-> proc[c].stack, to |-> Max(StackPages) + 1]

\* What a new process d has of a range of pages of the one it was cloned from.
HasRange(c, d, r) == \A v \in r.from .. r.to - 1 : Present(mem, c, v) => Present(mem', d, v)

IsCloneOf(d, c, share) == d \notin DOMAIN proc /\ Ok(mem') /\ Clone(c, d, share)

\* A child has every page its parent had of the stack and, unless shared, of
\* program and heap up to the break, with holes and missing tables in between
\* or not - as long as the caches hold.
CloneIsComplete ==
    [][\A c \in DOMAIN proc, d \in Procs, share \in BOOLEAN :
          IsCloneOf(d, c, share) =>
              \A r \in {StackRange(c)} \cup (IF share THEN {} ELSE {HeapRange(c)}) :
                  CachesHold(mem, c, r.from, r.to) => HasRange(c, d, r)]_vmVars

\* Clone copies the stack: "Clone the process into a new process".
StackIsCloned ==
    [][\A c \in DOMAIN proc, d \in Procs, share \in BOOLEAN :
          IsCloneOf(d, c, share) => HasRange(c, d, StackRange(c))]_vmVars

\* The direct mapping, set up at boot, reaches every page of the list that
\* lies in the region for it: the comparison in mm_highest_address and the
\* step sizes leave nothing out.
DirectMappingCovers ==
    RegionsApart /\ ~lost /\ Ok(mem) =>
        \A p \in FreePages(mem) :
            (p + 1) * PageBytes - 1 <= DirectRegion =>
                p * PageBytes .. (p + 1) * PageBytes - 1 \subseteq DirectMapped(BootMemory.list)

\* Of more memory than that region holds "only" so much "will be usable": no
\* page outside of the direct mapping is in use.
OnlyMappedIsUsed ==
    Ok(mem) => \A u \in MemoryUses : u[3] * PageBytes \in DirectMapped(BootMemory.list)

\* PageAllocator counts the pages "allocated right now": those it gives back
\* are free again.
PagesComeBack ==
    [][\A b \in blocks \ blocks' :
          b.size = NoSize /\ Ok(mem') =>
              \A v \in BlockPages(b) : PhysicalFor(mem, KernelContext, v) \in FreePages(mem')]_vmVars

=============================================================================
