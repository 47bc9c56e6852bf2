---------------------------------- MODULE Elf --------------------------------
(****************************************************************************)
(* load_elf (src/kernel/elf.cpp): the program headers of a file, one after  *)
(* the other, become pages of a new address space.                          *)
(****************************************************************************)
EXTENDS Integers, Sequences, FiniteSets, FiniteSetsExt, SequencesExt

CONSTANTS
    ElfPage,     \* bytes of a page
    Segments,    \* program headers: [type, vaddr, file, mem]
    MaxSegments  \* bound: headers of a file

ASSUME ElfAssumption ==
    /\ ElfPage \in Nat \ {0}
    /\ MaxSegments \in Nat
    /\ Segments \subseteq [type : Nat, vaddr : Nat, file : Nat, mem : Nat]
    /\ \A s \in Segments : s.file <= s.mem

VARIABLES
    elfHeaders,  \* the program headers of the file
    elfNext,     \* the one load_elf looks at next, 0 before the call
    elfImage,    \* bytes mapped: 0 or <<header, offset>>
    dataStart,   \* stays 0, where init_init starts it
    dataEnd

elfVars == <<elfHeaders, elfNext, elfImage, dataStart, dataEnd>>

PT_LOAD == 1

PT_TLS == 7

ElfInit ==
    /\ elfHeaders = <<>>
    /\ elfNext = 0
    /\ elfImage = <<>>
    /\ dataStart = 0
    /\ dataEnd = 0

\* load_elf of a file whose ELF header is right; others are refused at once.
StartLoad(headers) ==
    /\ elfNext = 0
    /\ elfHeaders' = headers
    /\ elfNext' = 1
    /\ UNCHANGED <<elfImage, dataStart, dataEnd>>

IsLoaded(s) == s.type \in {PT_LOAD, PT_TLS}

FirstByte(b) == (b \div ElfPage) * ElfPage

\* What the page mapped at offset j of segment i has at b: zero, or what the
\* file has for it.
PageByte(s, i, j, b) ==
    LET offset == (s.vaddr + j) % ElfPage
        toCopy == IF j < s.file THEN Min({s.file - j, ElfPage - offset}) ELSE 0
        at == b - FirstByte(s.vaddr + j)
    IN  IF at \in offset .. offset + toCopy - 1 THEN <<i, j + (at - offset)>> ELSE <<>>

\* Mutant: pages are counted from the address of the segment.
FullStep(s, j) == j + ElfPage

\* The next page starts at a boundary, if something was copied to this one.
NextOffset(s, j) ==
    IF j < s.file THEN j + ElfPage - ((s.vaddr + j) % ElfPage) ELSE j + ElfPage

\* The offsets at which the loop maps pages.
PageOffsets(s) ==
    LET at[n \in 0 .. s.mem] == IF n = 0 THEN 0 ELSE NextOffset(s, at[n - 1])
    IN  {at[n] : n \in 0 .. s.mem} \cap (0 .. s.mem - 1)

\* Each page is mapped over what was there, in ascending order.
LoadSegment(image, s, i) ==
    LET over(b) == {j \in PageOffsets(s) : FirstByte(s.vaddr + j) = FirstByte(b)}
        mapped == UNION {FirstByte(s.vaddr + j) .. FirstByte(s.vaddr + j) + ElfPage - 1 : j \in PageOffsets(s)}
    IN  [b \in DOMAIN image \cup mapped |->
            IF b \in mapped THEN PageByte(s, i, Max(over(b)), b) ELSE image[b]]

LoadHeader ==
    LET s == elfHeaders[elfNext] IN
    /\ elfNext \in DOMAIN elfHeaders
    /\ elfNext' = elfNext + 1
    /\ IF IsLoaded(s)
       THEN /\ elfImage' = LoadSegment(elfImage, s, elfNext)
            /\ dataEnd' = Max({dataEnd, s.vaddr + s.mem + 1})
            /\ dataStart' = Min({dataStart, s.vaddr})
       ELSE UNCHANGED <<elfImage, dataStart, dataEnd>>
    /\ UNCHANGED elfHeaders

\* The end of the data is the start of the heap.
FinishLoad ==
    /\ elfNext > 0 /\ elfNext = Len(elfHeaders) + 1
    /\ elfNext' = elfNext + 1
    /\ dataEnd' = ((dataEnd + ElfPage) \div ElfPage) * ElfPage
    /\ UNCHANGED <<elfHeaders, elfImage, dataStart>>

ElfStep ==
    \/ \E n \in 1 .. MaxSegments : \E headers \in [1 .. n -> Segments] : StartLoad(headers)
    \/ LoadHeader
    \/ FinishLoad

-----------------------------------------------------------------------------

SegmentPages(s) == {b \div ElfPage : b \in s.vaddr .. s.vaddr + s.mem - 1}

\* What the loader needs of a file: each page in one segment only, since it
\* maps a new page for each, and no segment that starts inside a page and has
\* nothing in the file, since that one misses its last page.
Loadable ==
    LET loaded == {i \in DOMAIN elfHeaders : IsLoaded(elfHeaders[i])} IN
    /\ \A i \in loaded : elfHeaders[i].file > 0 \/ elfHeaders[i].vaddr % ElfPage = 0
    /\ \A i, j \in loaded : i # j => SegmentPages(elfHeaders[i]) \cap SegmentPages(elfHeaders[j]) = {}

\* A file the loader can handle ends up in memory as its headers say, for any
\* alignment of a segment and of the end of its data: every byte of the file
\* at its address, zero behind it, and the heap begins behind all of it.
ProgramIsLoaded ==
    Loadable /\ elfNext > Len(elfHeaders) + 1 =>
        \A i \in DOMAIN elfHeaders :
            LET s == elfHeaders[i] IN
            IsLoaded(s) =>
                /\ \A o \in 0 .. s.mem - 1 :
                      /\ s.vaddr + o \in DOMAIN elfImage
                      /\ elfImage[s.vaddr + o] = IF o < s.file THEN <<i, o>> ELSE <<>>
                      /\ s.vaddr + o \in dataStart .. dataEnd - 1
                /\ dataEnd % ElfPage = 0

=============================================================================
