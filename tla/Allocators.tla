------------------------------ MODULE Allocators -----------------------------
(****************************************************************************)
(* Objects of the C++ part of the kernel: SizedAllocator (allocator/sized.h)*)
(* cuts pages into slots of one size, PageAllocator (allocator/page.h)      *)
(* provides the pages, operator new (cpp_runtime.cpp) chooses the size; and *)
(* the slab allocator (slab.cpp) the boot code uses.                        *)
(****************************************************************************)
EXTENDS Integers, Sequences, FiniteSets, FiniteSetsExt, SequencesExt

CONSTANTS
    Classes,        \* slot sizes: [size, bits, entries], ascending
    Lengths,        \* arguments of operator new
    Counts,         \* slots a container asks for
    BootPages,      \* num_bootstrap_pages
    HeapPageIds,    \* pages of the kernel heap
    MaxObjects,     \* bound: allocations at a time
    SlabRegions     \* memory for slabs: [total, size] in bytes

\* max_entries is less than the bits of the bitmap: header, bitmap and list
\* node take at least one slot.  Objects of a slab are not empty.
ASSUME AllocatorsAssumption ==
    /\ Classes \in Seq([size : Nat, bits : Nat, entries : Nat])
    /\ \A k \in DOMAIN Classes : Classes[k].entries \in 1 .. Classes[k].bits - 1
    /\ \A k \in 2 .. Len(Classes) : Classes[k - 1].size < Classes[k].size
    /\ Counts \subseteq Nat \ {0}
    /\ BootPages \in Nat
    /\ HeapPageIds \subseteq Nat
    /\ \A p \in HeapPageIds : p >= BootPages
    /\ SlabRegions \subseteq [total : Nat, size : Nat \ {0}]

VARIABLES
    sized,       \* per class: its list of pages [at, used, longest]
    bootStatus,  \* bootstrap_page_status
    bootUp,      \* memory_management_bootstrapped
    objects,     \* what was handed out: [class, page, at, n]
    allocState,  \* "ok", or why the kernel has stopped
    slab,        \* the slab: [size, entries, bitmap], its region's size
    slabUsed     \* bits set in its bitmap

allocVars == <<sized, bootStatus, bootUp, objects, allocState, slab, slabUsed>>

-----------------------------------------------------------------------------
(* Bits *)

\* Mutant: the search goes on behind the whole streak it has looked for.
SkipWholeStreak(bits, used, n, c) == c + n

\* Behind a candidate c that failed: after the first bit that is set.
NextCandidate(bits, used, n, c) == Min({i \in c .. c + n - 1 : i \in used}) + 1

\* bitset_helpers::find_continuous_unset; the last possible start is never
\* looked at.
FindContinuousUnset(bits, used, n) ==
    LET candidate[i \in 0 .. bits] ==
            IF i = 0 THEN 0
            ELSE LET c == candidate[i - 1]
                 IN  IF c >= bits - n \/ used \cap (c .. c + n - 1) = {} THEN c
                     ELSE NextCandidate(bits, used, n, c)
    IN  IF candidate[bits] < bits - n THEN candidate[bits] ELSE bits + 1

\* page_t::update_header: the longest run of bits that are not set.
UpdateHeader(entries, used) ==
    LET cur[i \in 0 .. entries] == IF i = 0 THEN 0 ELSE IF i - 1 \in used THEN 0 ELSE cur[i - 1] + 1
    IN  Max({cur[i] : i \in 0 .. entries})

NewPage(k, at) == [at |-> at, used |-> {}, longest |-> Classes[k].entries]

\* page_t::allocate, -1 if it returns null.
SlotIn(k, page, n) ==
    LET start == FindContinuousUnset(Classes[k].bits, page.used, n)
    IN  IF page.longest < n \/ start >= Classes[k].entries THEN -1 ELSE start

\* set_range and update_header
WithUsed(k, page, used) ==
    [page EXCEPT !.used = used, !.longest = UpdateHeader(Classes[k].entries, used)]

-----------------------------------------------------------------------------
(* Pages and objects *)

NoSlab == [total |-> 0, size |-> 0, entries |-> 0, bitmap |-> 0]

AllocatorsInit ==
    /\ sized = [k \in DOMAIN Classes |-> <<>>]
    /\ bootStatus = {}
    /\ bootUp = FALSE
    /\ objects = {}
    /\ allocState = "ok"
    /\ slab = NoSlab
    /\ slabUsed = {}

PagesInUse == UNION {{p.at : p \in Range(sized[k])} : k \in DOMAIN Classes}

\* PageAllocator::allocate_pages(1), -1 for null: before memory management is
\* up from the bootstrap pages, which are never given back.
FreshPage ==
    LET start == FindContinuousUnset(BootPages, bootStatus, 1)
        free == HeapPageIds \ PagesInUse
    IN  IF ~bootUp THEN (IF start >= BootPages THEN -1 ELSE start)
        ELSE IF free = {} THEN -1 ELSE Min(free)

\* Mutant: the bootstrap page is not marked.
BootPageUnmarked(at) == bootStatus

BootPageMarked(at) == bootStatus \cup {at}

\* SizedAllocator::allocate: the first page with room, or a new one at the end.
Allocate(k, n) ==
    LET i == SelectInSeq(sized[k], LAMBDA p : SlotIn(k, p, n) # -1)
        page == IF i # 0 THEN sized[k][i] ELSE NewPage(k, FreshPage)
        slot == SlotIn(k, page, n)
        after == WithUsed(k, page, page.used \cup (slot .. slot + n - 1))
    IN
    /\ n <= Classes[k].entries
    /\ Cardinality(objects) < MaxObjects
    /\ IF page.at = -1
       THEN allocState' = "null" /\ UNCHANGED <<sized, bootStatus, objects>>
       ELSE /\ sized' = [sized EXCEPT ![k] = IF i # 0 THEN [@ EXCEPT ![i] = after] ELSE Append(@, after)]
            /\ bootStatus' = IF i = 0 /\ ~bootUp THEN BootPageMarked(page.at) ELSE bootStatus
            /\ objects' = objects \cup {[class |-> k, page |-> page.at, at |-> slot, n |-> n]}
            /\ UNCHANGED allocState
    /\ UNCHANGED <<bootUp, slab, slabUsed>>

\* SizedAllocator::deallocate; a page that is empty then is given back, one page
\* of 4 KiB (what deallocate_pages does with several is in VirtualMemory).
Deallocate(o) ==
    LET k == o.class
        i == SelectInSeq(sized[k], LAMBDA p : p.at = o.page)
        after == WithUsed(k, sized[k][i], sized[k][i].used \ (o.at .. o.at + o.n - 1))
    IN
    /\ sized' = [sized EXCEPT ![k] = IF after.used = {} THEN RemoveAt(@, i) ELSE [@ EXCEPT ![i] = after]]
    /\ objects' = objects \ {o}
    /\ UNCHANGED <<bootStatus, bootUp, allocState, slab, slabUsed>>

\* get_allocator, 0 if the object is too large.
GetAllocator(len) == SelectInSeq(Classes, LAMBDA c : c.size >= len)

New(len) == GetAllocator(len) # 0 /\ Allocate(GetAllocator(len), 1)

\* init_mm is done.
MemoryIsUp ==
    /\ ~bootUp
    /\ bootUp' = TRUE
    /\ UNCHANGED <<sized, bootStatus, objects, allocState, slab, slabUsed>>

AllocatorStep ==
    /\ allocState = "ok"
    /\ \/ \E len \in Lengths : New(len)
       \/ \E k \in DOMAIN Classes, n \in Counts : Allocate(k, n)
       \/ \E o \in objects : Deallocate(o)
       \/ MemoryIsUp

-----------------------------------------------------------------------------
(* Slab *)

SlabHeaderSize == 8

BitmapSize(entries) == (entries + 7) \div 8

\* Mutant: overhead is rounded down.
EntriesRoundedDown(total, size) ==
    (total \div size) - ((BitmapSize(total \div size) + SlabHeaderSize) \div size)

\* What init_slab leaves for objects.
SlabEntries(total, size) ==
    (total \div size) - ((BitmapSize(total \div size) + SlabHeaderSize + size) \div size)

\* A region that has no room for an object is not handled: the count wraps.
InitSlab(r) ==
    LET entries == SlabEntries(r.total, r.size) IN
    /\ slab = NoSlab
    /\ entries > 0
    /\ slab' = [total |-> r.total, size |-> r.size, entries |-> entries, bitmap |-> BitmapSize(entries)]
    /\ UNCHANGED <<sized, bootStatus, bootUp, objects, allocState, slabUsed>>

SlabOverhead ==
    LET overhead == SlabHeaderSize + slab.bitmap
    IN  overhead + (slab.size - (overhead % slab.size))

SlabMem(idx) == idx * slab.size + SlabOverhead

SlabIndex(mem) == (mem - SlabOverhead) \div slab.size

\* slab_alloc: the first entry that is not in use; a full slab is a panic.
SlabAlloc ==
    LET free == (0 .. slab.entries - 1) \ slabUsed IN
    /\ slab # NoSlab
    /\ IF free = {} THEN allocState' = "panic" /\ UNCHANGED slabUsed
       ELSE slabUsed' = slabUsed \cup {Min(free)} /\ UNCHANGED allocState
    /\ UNCHANGED <<sized, bootStatus, bootUp, objects, slab>>

SlabFree(mem) ==
    /\ slabUsed' = slabUsed \ {SlabIndex(mem)}
    /\ UNCHANGED <<sized, bootStatus, bootUp, objects, allocState, slab>>

SlabStep ==
    /\ allocState = "ok"
    /\ \/ \E r \in SlabRegions : InitSlab(r)
       \/ SlabAlloc
       \/ \E idx \in slabUsed : SlabFree(SlabMem(idx))

-----------------------------------------------------------------------------
(* Properties *)

SlotsOf(o) == o.at .. o.at + o.n - 1

\* Objects never overlap and lie inside their page, the bitmap of a page is
\* exactly its objects, a page is in one list once, and no page without
\* objects is kept: after any sequence of allocations, frees and the switch
\* from bootstrap pages to the heap.
ObjectsAreSeparate ==
    /\ \A k \in DOMAIN Classes : \A i \in DOMAIN sized[k] :
          LET p == sized[k][i]
              here == {o \in objects : o.class = k /\ o.page = p.at}
          IN  /\ p.used = UNION {SlotsOf(o) : o \in here}
              /\ \A o, q \in here : o # q => SlotsOf(o) \cap SlotsOf(q) = {}
              /\ p.used # {} /\ p.used \subseteq 0 .. Classes[k].entries - 1
    /\ \A o \in objects : \E i \in DOMAIN sized[o.class] : sized[o.class][i].at = o.page
    /\ \A k, l \in DOMAIN Classes : \A i \in DOMAIN sized[k], j \in DOMAIN sized[l] :
          sized[k][i].at = sized[l][j].at => k = l /\ i = j

\* The question allocate and find_continuous_unset ask in a comment ("can we
\* get here, with the check if we have enough continues entries"): a page
\* whose header promises n slots in a row has them, and the search finds them
\* although it never looks at the last start.
HeaderIsHonest ==
    \A k \in DOMAIN Classes : \A i \in DOMAIN sized[k] : \A n \in 1 .. Classes[k].entries :
        LET p == sized[k][i]
            start == FindContinuousUnset(Classes[k].bits, p.used, n)
            room(c) == (c .. c + n - 1) \cap p.used = {}
        IN  /\ n <= p.longest <=> \E c \in 0 .. Classes[k].entries - n : room(c)
            /\ n <= p.longest => start \in 0 .. Classes[k].entries - n /\ room(start)

\* All objects of a slab lie behind its header and bitmap and inside its
\* region, and an address leads back to the bit of its object.
SlabObjectsFit ==
    slab # NoSlab =>
        \A idx \in 0 .. slab.entries - 1 :
            /\ SlabMem(idx) >= SlabHeaderSize + slab.bitmap
            /\ SlabMem(idx) + slab.size <= slab.total
            /\ SlabIndex(SlabMem(idx)) = idx

=============================================================================
