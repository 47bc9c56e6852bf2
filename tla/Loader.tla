-------------------------------- MODULE Loader -------------------------------
(****************************************************************************)
(* The UEFI loader (src/loader/loader.c): it loads the files of the system, *)
(* takes the firmware's memory map, leaves the boot services and hands      *)
(* everything over to the kernel; the start of the kernel's main            *)
(* (arch/amd64/main.cpp) that reads what it was given.                      *)
(*                                                                          *)
(* The firmware is external: it owns the memory (a type per page) and may   *)
(* change it, and with it the map's key, until boot services end.           *)
(****************************************************************************)
EXTENDS Integers, Sequences, FiniteSets, FiniteSetsExt, SequencesExt

CONSTANTS
    FirmwareMap,    \* type of each page of memory at the start
    Splits,         \* pages where the firmware starts a new descriptor anyway
    PageB,          \* bytes of a page
    Directory,      \* files of the system's directory: [dir, name, size], dir being
                    \* how many characters of the path are before the name
    StaticList,     \* files loaded if the directory cannot be read
    KernelName,     \* "kernel", as the loader spells it
    KernelBytes,    \* what the kernel's program headers need
    FramebufferB,   \* bytes of the framebuffer
    ScratchB,       \* bytes of the scratchpad the kernel gets
    TablePages,     \* pages of the loader's own scratchpad
    RecordsPerPage, \* regions and file descriptors that fit a page
    TableSpan,      \* pages below one page table
    EventPages,     \* bound: pages the firmware itself takes and gives back
    MaxEvents       \* bound: how often it does

ASSUME LoaderAssumption ==
    /\ FirmwareMap \in [DOMAIN FirmwareMap -> {"free", "boot", "runtime", "loader"}]
    /\ Max(DOMAIN FirmwareMap) \in Nat /\ DOMAIN FirmwareMap \subseteq 1 .. Max(DOMAIN FirmwareMap)
    /\ PageB \in Nat \ {0} /\ TableSpan \in Nat \ {0} /\ RecordsPerPage \in Nat \ {0}
    /\ {KernelBytes, FramebufferB, ScratchB, TablePages, MaxEvents} \subseteq Nat
    /\ EventPages \subseteq DOMAIN FirmwareMap
    /\ {Directory, StaticList} \subseteq Seq([dir : Nat, name : Seq(Nat), size : Nat])

VARIABLES
    bootPhase,   \* where efi_main is
    fw,          \* the firmware's memory, and the key of its map
    toLoad,      \* files still to load
    ld,          \* what LoaderState says
    tries,       \* try_counter
    bootTable,   \* the page table for the kernel: virtual to physical page
    handed,      \* the LoaderStruct the kernel gets
    kernel       \* what the kernel has done so far

loaderVars == <<bootPhase, fw, toLoad, ld, tries, bootTable, handed, kernel>>

PagesFor(bytes) == (bytes + PageB - 1) \div PageB

RecordPages(n) == (n + RecordsPerPage - 1) \div RecordsPerPage

LoaderInit ==
    /\ bootPhase = "start"
    /\ fw = [mem |-> FirmwareMap, key |-> 0, exited |-> FALSE, events |-> 0]
    /\ toLoad = <<>>
    /\ ld = [scratch |-> 0, tables |-> 0, used |-> 0, kernelAt |-> 0, files |-> <<>>, fb |-> FALSE,
             regions |-> <<>>, mapKey |-> -1, failed |-> FALSE]
    /\ tries = 3
    /\ bootTable = <<>>
    /\ handed = <<>>
    /\ kernel = [usable |-> {}, tasks |-> <<>>]

-----------------------------------------------------------------------------
(* Firmware *)

\* AllocatePages and AllocatePool: the first n free pages in a row, 0 if none.
FreeRun(f, n) ==
    LET starts == {p \in DOMAIN f.mem :
                       \A q \in p .. p + n - 1 : q \in DOMAIN f.mem /\ f.mem[q] = "free"}
    IN  IF starts = {} THEN 0 ELSE Min(starts)

Allocated(f, n) ==
    LET p == FreeRun(f, n)
    IN  [f EXCEPT !.mem = [q \in DOMAIN f.mem |-> IF q \in p .. p + n - 1 THEN "loader" ELSE f.mem[q]],
                  !.key = @ + 1]

\* The firmware's own work, until ExitBootServices.
FirmwareEvent ==
    /\ ~fw.exited
    /\ fw.events < MaxEvents
    /\ \E p \in EventPages :
          /\ fw.mem[p] \in {"free", "boot"}
          /\ fw' = [fw EXCEPT !.mem[p] = IF @ = "free" THEN "boot" ELSE "free",
                              !.key = @ + 1, !.events = @ + 1]
    /\ UNCHANGED <<bootPhase, toLoad, ld, tries, bootTable, handed, kernel>>

\* The descriptors of a memory map with one more page: pages of the same type
\* are one, as far as the firmware puts them together.
Described(f, ds, p) ==
    IF p \notin DOMAIN f.mem THEN ds
    ELSE IF p - 1 \in DOMAIN f.mem /\ f.mem[p - 1] = f.mem[p] /\ p \notin Splits
    THEN [ds EXCEPT ![Len(ds)].count = @ + 1]
    ELSE Append(ds, [start |-> p, count |-> 1, type |-> f.mem[p]])

Descriptors(f) ==
    LET at[p \in 0 .. Max(DOMAIN f.mem)] == IF p = 0 THEN <<>> ELSE Described(f, at[p - 1], p)
    IN  at[Max(DOMAIN f.mem)]

-----------------------------------------------------------------------------
(* Files *)

\* Mallocs of efi_main.  What follows without that memory, which is written to
\* unchecked, is undefined ("wild").
StartLoader ==
    LET f1 == Allocated(fw, PagesFor(ScratchB))
        scratch == FreeRun(fw, PagesFor(ScratchB))
        tables == FreeRun(f1, TablePages)
    IN
    /\ bootPhase = "start"
    /\ IF scratch = 0 \/ tables = 0
       THEN bootPhase' = "wild" /\ UNCHANGED <<fw, ld>>
       ELSE /\ fw' = Allocated(f1, TablePages)
            /\ ld' = [ld EXCEPT !.scratch = scratch, !.tables = tables]
            /\ bootPhase' = "open"
    /\ UNCHANGED <<toLoad, tries, bootTable, handed, kernel>>

\* load_files opens the directory; without one a fixed list is loaded.
OpenDirectory(readable) ==
    /\ bootPhase = "open"
    /\ readable => Directory # <<>>
    /\ toLoad' = IF readable THEN Directory ELSE StaticList
    /\ bootPhase' = "files"
    /\ UNCHANGED <<fw, ld, tries, bootTable, handed, kernel>>

\* There are no files in it: the fixed list is opened with a handle that is
\* closed by then, and what the firmware makes of that is its own affair.
DirectoryWithoutFiles ==
    /\ bootPhase = "open"
    /\ bootPhase' = "closed"
    /\ UNCHANGED <<fw, toLoad, ld, tries, bootTable, handed, kernel>>

\* wcscasecmp is 0: it stops behind the first difference and compares what
\* follows there.  Letters are numbers, upper case ones above 100.
SameLetter(a, b) == a % 100 = b % 100

SameName(a, b) ==
    LET n == Min({Len(a), Len(b)})
        differ == {i \in 1 .. n : ~SameLetter(a[i], b[i])}
        stop == IF differ = {} THEN n + 1 ELSE Min(differ) + 1
        at(s) == IF stop <= Len(s) THEN s[stop] ELSE 0
    IN  at(a) = at(b)

\* strcasecmp of the kernel is 0.
EqualNames(a, b) == Len(a) = Len(b) /\ \A i \in DOMAIN a : SameLetter(a[i], b[i])

\* handle_loaded_file compares the length of the whole path.
IsKernel(f) == f.dir + Len(f.name) >= Len(KernelName) /\ SameName(f.name, KernelName)

\* load_file and handle_loaded_file: a buffer nobody uses, the kernel's image,
\* and a copy of the file.
LoadFile ==
    LET f == Head(toLoad)
        f1 == Allocated(fw, PagesFor(f.size))
        f2 == IF IsKernel(f) THEN Allocated(f1, PagesFor(KernelBytes)) ELSE f1
        f3 == Allocated(f2, PagesFor(f.size))
        at == FreeRun(f2, PagesFor(f.size))
        image == FreeRun(f1, PagesFor(KernelBytes))
    IN
    /\ bootPhase = "files"
    /\ toLoad # <<>>
    /\ IF at = 0 \/ FreeRun(fw, PagesFor(f.size)) = 0 \/ (IsKernel(f) /\ image = 0)
       THEN bootPhase' = "returned" /\ UNCHANGED <<fw, ld, toLoad>>
       ELSE /\ fw' = f3
            /\ ld' = [ld EXCEPT !.files = Append(@, [name |-> f.name, size |-> f.size, at |-> at]),
                                !.kernelAt = IF IsKernel(f) THEN image ELSE @]
            /\ toLoad' = Tail(toLoad)
            /\ UNCHANGED bootPhase
    /\ UNCHANGED <<tries, bootTable, handed, kernel>>

\* A call of the firmware fails: efi_main returns.
LoadFails ==
    /\ bootPhase = "files"
    /\ toLoad # <<>>
    /\ bootPhase' = "returned"
    /\ UNCHANGED <<fw, toLoad, ld, tries, bootTable, handed, kernel>>

\* prepare_framebuffer
PrepareFramebuffer(present) ==
    /\ bootPhase = "files"
    /\ toLoad = <<>>
    /\ ld' = [ld EXCEPT !.fb = present]
    /\ bootPhase' = "map"
    /\ UNCHANGED <<fw, toLoad, tries, bootTable, handed, kernel>>

-----------------------------------------------------------------------------
(* Memory map and the end of the boot services *)

\* Mutant: what the loader has allocated is given to the kernel.
FlagsWithLoader(type) ==
    CASE type \in {"free", "loader"} -> "usable" [] type = "runtime" -> "firmware" [] OTHER -> ""

FlagsOf(type) == CASE type = "free" -> "usable" [] type = "runtime" -> "firmware" [] OTHER -> ""

\* The regions for the kernel.  A descriptor that follows directly is added to
\* the region before it and, as it is then looked at again, is a region of its
\* own as well.
AddRegion(regions, d) ==
    LET flags == FlagsOf(d.type)
        n == Len(regions)
        follows == n > 0 /\ regions[n].start + regions[n].count = d.start /\ regions[n].flags = flags
        merged == IF follows THEN [regions EXCEPT ![n].count = @ + d.count] ELSE regions
    IN  IF flags = "" THEN regions
        ELSE Append(merged, [start |-> d.start, count |-> d.count, flags |-> flags])

RegionsOf(ds) ==
    LET at[i \in 0 .. Len(ds)] == IF i = 0 THEN <<>> ELSE AddRegion(at[i - 1], ds[i])
    IN  at[Len(ds)]

\* retrieve_memory_map: room for the map first, then the map.  The regions go
\* to the loader's scratchpad; there are fewer of them than descriptors, as
\* the loader's own memory is no region, so `completed' stays 1.
RetrieveMap ==
    LET f == Allocated(fw, 1)
        used == ld.used + RecordPages(Len(Descriptors(f)))
    IN
    /\ bootPhase = "map"
    /\ tries > 0
    /\ FreeRun(fw, 1) # 0
    /\ fw' = f
    /\ tries' = tries - 1
    /\ IF used > TablePages
       THEN bootPhase' = "stuck" /\ UNCHANGED ld
       ELSE /\ ld' = [ld EXCEPT !.regions = RegionsOf(Descriptors(f)),
                                !.mapKey = f.key, !.used = used]
            /\ bootPhase' = "exit"
    /\ UNCHANGED <<toLoad, bootTable, handed, kernel>>

\* GetMemoryMap fails: on to the next try, the status of the one before counts.
RetrieveFails ==
    /\ bootPhase = "map"
    /\ tries > 0
    /\ tries' = tries - 1
    /\ UNCHANGED <<bootPhase, fw, toLoad, ld, bootTable, handed, kernel>>

\* ExitBootServices, which the firmware refuses if the map has changed.
ExitBootServices ==
    /\ bootPhase = "exit"
    /\ IF ld.mapKey = fw.key
       THEN /\ fw' = [fw EXCEPT !.exited = TRUE]
            /\ ld' = [ld EXCEPT !.failed = FALSE]
            /\ bootPhase' = "paging"
       ELSE /\ ld' = [ld EXCEPT !.failed = TRUE]
            /\ bootPhase' = "map"
            /\ UNCHANGED fw
    /\ UNCHANGED <<toLoad, tries, bootTable, handed, kernel>>

\* The tries are used up; after three times no map the loader goes on.
TriesUsedUp ==
    /\ bootPhase = "map"
    /\ tries = 0
    /\ bootPhase' = IF ld.failed THEN "stuck" ELSE "paging"
    /\ UNCHANGED <<fw, toLoad, ld, tries, bootTable, handed, kernel>>

-----------------------------------------------------------------------------
(* Handing over *)

\* Mutant: an area that ends inside a page lacks it.
PagesRoundedDown(bytes) == bytes \div PageB

\* Pages one of the loops over an area maps.
MappedPages(bytes) == PagesFor(bytes)

\* Pages of an area [at, bytes, phys] of the address space.
AreaPages(a) == a.at .. a.at + MappedPages(a.bytes) - 1

\* map_page for all pages of some areas: the last one counts.
Table(areas) ==
    [v \in UNION {AreaPages(areas[i]) : i \in DOMAIN areas} |->
        LET a == areas[Max({i \in DOMAIN areas : v \in AreaPages(areas[i])})] IN a.phys + (v - a.at)]

\* Page tables for some areas; the first one also stands for the loader's
\* memory, which is mapped where it is.
TablesOf(areas) == 1 + Cardinality({v \div TableSpan : v \in DOMAIN Table(areas)})

Behind(a) == a.at + MappedPages(a.bytes)

\* initialize_virtual_memory: scratchpad, kernel and framebuffer (physical
\* pages below 0), one behind the other; without a kernel its size is 0.
FirstAreas ==
    LET scratch == [at |-> 0, bytes |-> ScratchB, phys |-> ld.scratch]
        image == [at |-> Behind(scratch), bytes |-> IF ld.kernelAt = 0 THEN 0 ELSE KernelBytes,
                  phys |-> ld.kernelAt]
    IN  <<scratch, image, [at |-> Behind(image), bytes |-> IF ld.fb THEN FramebufferB ELSE 0,
                           phys |-> -PagesFor(FramebufferB)]>>

\* What the kernel is told, in the loader's scratchpad behind the page tables
\* there are so far, and the files.
Areas ==
    LET structs == [at |-> Behind(FirstAreas[3]),
                    bytes |-> PageB * RecordPages(1 + Len(ld.regions) + Len(ld.files)),
                    phys |-> ld.tables + ld.used + TablesOf(FirstAreas)]
        filesStart[i \in 0 .. Len(ld.files)] ==
            IF i = 0 THEN Behind(structs) ELSE filesStart[i - 1] + MappedPages(ld.files[i].size)
    IN  Append(FirstAreas, structs) \o
        [i \in 1 .. Len(ld.files) |->
            [at |-> filesStart[i - 1], bytes |-> ld.files[i].size, phys |-> ld.files[i].at]]

\* The scratchpad is never extended: allocate_from_loader_scratchpad stops in
\* an endless loop when it is used up.  Without a kernel the jump leads nowhere.
BuildTables ==
    LET structs == Areas[4]
        needed == ld.used + TablesOf(Areas) + PagesFor(structs.bytes)
    IN
    /\ bootPhase = "paging"
    /\ IF needed > TablePages
       THEN bootPhase' = "stuck" /\ UNCHANGED <<bootTable, handed>>
       ELSE /\ bootTable' = Table(Areas)
            /\ handed' = [at |-> structs.at, regions |-> ld.regions,
                          files |-> [i \in DOMAIN ld.files |->
                              [name |-> ld.files[i].name, size |-> ld.files[i].size,
                               offset |-> Areas[4 + i].at - structs.at]]]
            /\ bootPhase' = IF ld.kernelAt = 0 THEN "wild" ELSE "kernel"
    /\ UNCHANGED <<fw, toLoad, ld, tries, kernel>>

\* init_mm: all usable regions are free.
InitMm ==
    /\ bootPhase = "kernel"
    /\ kernel' = [kernel EXCEPT !.usable =
           UNION {handed.regions[i].start .. handed.regions[i].start + handed.regions[i].count - 1 :
                      i \in {j \in DOMAIN handed.regions : handed.regions[j].flags = "usable"}}]
    /\ bootPhase' = "init"
    /\ UNCHANGED <<fw, toLoad, ld, tries, bootTable, handed>>

\* init_init: every file but the kernel is a program.
InitInit ==
    /\ bootPhase = "init"
    /\ kernel' = [kernel EXCEPT !.tasks =
           SelectSeq(handed.files, LAMBDA f : ~EqualNames(f.name, KernelName))]
    /\ bootPhase' = "done"
    /\ UNCHANGED <<fw, toLoad, ld, tries, bootTable, handed>>

LoaderStep ==
    \/ FirmwareEvent
    \/ StartLoader
    \/ \E readable \in BOOLEAN : OpenDirectory(readable)
    \/ DirectoryWithoutFiles
    \/ LoadFile
    \/ LoadFails
    \/ \E present \in BOOLEAN : PrepareFramebuffer(present)
    \/ RetrieveMap
    \/ RetrieveFails
    \/ ExitBootServices
    \/ TriesUsedUp
    \/ BuildTables
    \/ InitMm
    \/ InitInit

-----------------------------------------------------------------------------
(* Properties *)

\* Pages the kernel needs from the loader: its image, what it was given, and
\* its page tables.
HandedPages == {bootTable[v] : v \in DOMAIN bootTable} \cup (ld.tables .. ld.tables + TablePages - 1)

\* The kernel takes no page for free memory that the loader has put something
\* into or the firmware still uses, although the map was read before the boot
\* services ended and the firmware changes memory until then.
UsableIsUnused ==
    bootPhase \in {"init", "done"} =>
        /\ kernel.usable \cap HandedPages = {}
        /\ \A p \in kernel.usable : fw.mem[p] = "free"

\* The kernel finds all of every file at the offset it is told, and areas do
\* not overlap: not for empty files, files of exactly some pages, or without a
\* framebuffer.
FilesAreMapped ==
    bootPhase \in {"kernel", "init", "done"} =>
        /\ \A i \in DOMAIN handed.files :
              \A k \in 0 .. PagesFor(handed.files[i].size) - 1 :
                  LET v == handed.at + handed.files[i].offset + k
                  IN  v \in DOMAIN bootTable /\ bootTable[v] = ld.files[i].at + k
        /\ \A k \in 0 .. RecordPages(1 + Len(handed.regions) + Len(handed.files)) - 1 :
              bootTable[handed.at + k] \in ld.tables .. ld.tables + TablePages - 1
        /\ \A k \in 0 .. PagesFor(KernelBytes) - 1 :
              bootTable[PagesFor(ScratchB) + k] = ld.kernelAt + k

\* The comment in retrieve_memory_map: "merge with previous region if
\* following directly after and flags match" - a page is in one region then.
RegionsAreDisjoint ==
    \A i, j \in DOMAIN ld.regions :
        i # j => \/ ld.regions[i].start + ld.regions[i].count <= ld.regions[j].start
                 \/ ld.regions[j].start + ld.regions[j].count <= ld.regions[i].start

=============================================================================
