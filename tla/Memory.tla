-------------------------------- MODULE Memory -------------------------------
(****************************************************************************)
(* Memory for TLC, from the firmware's map to the memory of processes.  A   *)
(* behaviour is about one part: the loader, its network files, the ACPI     *)
(* tables, the kernel heap, the memory of processes, the allocators for     *)
(* objects, the slab or the program loader.                                 *)
(****************************************************************************)
EXTENDS VirtualMemory, Allocators, Elf, Loader, Pxe, Acpi

VARIABLE part

TwoRegions == << [start |-> 8, count |-> 16], [start |-> 2, count |-> 5] >>

\* The third and the fourth bring the break below zero and back.
GrowAndShrink == {-3, 3, -9, 12}

TwoClasses ==
    << [size |-> 8, bits |-> 6, entries |-> 5], [size |-> 16, bits |-> 4, entries |-> 3] >>

SlabSizes == [total : {24, 40}, size : {3, 4, 8}] \cup [total : {1000}, size : {96}]

SomeSegments ==
    {s \in [type : {PT_LOAD}, vaddr : {1, 4}, file : {0, 2, 4}, mem : {2, 6}] : s.file <= s.mem} \cup
    {s \in [type : {PT_LOAD, PT_TLS, 2}, vaddr : {8, 11}, file : {0, 5}, mem : {5}] : s.file <= s.mem}

SmallMachine ==
    [p \in 1 .. 24 |-> IF p \in {4, 15} THEN "runtime" ELSE IF p = 16 THEN "boot" ELSE "free"]

ShortKernel == <<111, 5, 118>>

SomeFiles ==
    << [dir |-> 0, name |-> <<11, 5, 18>>, size |-> 3], [dir |-> 0, name |-> <<20, 9, 18, 3>>, size |-> 4],
       [dir |-> 0, name |-> <<6>>, size |-> 0] >>

KernelAndDemo ==
    << [dir |-> 2, name |-> <<11, 5, 18>>, size |-> 3], [dir |-> 2, name |-> <<6, 2>>, size |-> 1] >>

SomeTables ==
    {[hpet |-> TRUE, valid |-> TRUE, memory |-> TRUE, period |-> 20],
     [hpet |-> TRUE, valid |-> TRUE, memory |-> TRUE, period |-> 9],
     [hpet |-> TRUE, valid |-> TRUE, memory |-> FALSE, period |-> 10],
     [hpet |-> TRUE, valid |-> FALSE, memory |-> TRUE, period |-> 10],
     [hpet |-> FALSE, valid |-> TRUE, memory |-> TRUE, period |-> 10]}

MemoryInit ==
    /\ part \in {"loader", "network", "acpi", "heap", "processes", "objects", "slab", "elf"}
    /\ VirtualMemoryInit
    /\ dirty \/ part = "heap"
    /\ AllocatorsInit
    /\ ElfInit
    /\ LoaderInit
    /\ PxeInit
    /\ AcpiInit

\* What the parts of the kernel's own memory share: nothing of the boot.
BootVars == <<loaderVars, pxeVars, acpiVars>>

MemoryNext ==
    /\ UNCHANGED part
    /\ \/ part = "loader" /\ LoaderStep /\ UNCHANGED <<vmVars, allocVars, elfVars, pxeVars, acpiVars>>
       \/ part = "network" /\ PxeStep /\ UNCHANGED <<vmVars, allocVars, elfVars, loaderVars, acpiVars>>
       \/ part = "acpi" /\ AcpiStep /\ UNCHANGED <<vmVars, allocVars, elfVars, loaderVars, pxeVars>>
       \/ part = "heap" /\ HeapStep /\ UNCHANGED <<allocVars, elfVars, BootVars>>
       \/ part = "processes" /\ ProcessStep /\ UNCHANGED <<allocVars, elfVars, BootVars>>
       \/ part = "objects" /\ AllocatorStep /\ UNCHANGED <<vmVars, elfVars, BootVars>>
       \/ part = "slab" /\ SlabStep /\ UNCHANGED <<vmVars, elfVars, BootVars>>
       \/ part = "elf" /\ ElfStep /\ UNCHANGED <<vmVars, allocVars, BootVars>>

MemorySpec == MemoryInit /\ [][MemoryNext]_<<part, vmVars, allocVars, elfVars, BootVars>>

=============================================================================
