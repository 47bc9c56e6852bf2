\* The memory of run data, for blocks of several pages.
CONSTANTS
    BootRegions <- TwoRegions
    ListSlots = 3
    KernelHeap = 6
    Span = 2
    Dirs = 3
    Tops = 2
    DirectRegion = 63
    AddressPages = 64
    StackSize = 16
    StackTouched = {7, 11, 13, 19}
    PageCounts = {1, 2}
    Overhead = 2
    BlockSizes = {3, 7}
    MaxBlocks = 3
    Procs = {1, 2}
    Increments <- GrowAndShrink
    HeapPages = 2
    Ports = {1}
    MaxVmOps = 6
    Classes <- TwoClasses
    Lengths = {6, 12}
    Counts = {2}
    BootPages = 3
    HeapPageIds = {3, 4}
    MaxObjects = 3
    SlabRegions <- SlabSizes
    ElfPage = 4
    Segments <- SomeSegments
    MaxSegments = 2
    FirmwareMap <- SmallMachine
    Splits = {24}
    PageB = 2
    Directory <- SomeFiles
    StaticList <- KernelAndDemo
    KernelName <- ShortKernel
    KernelBytes = 3
    FramebufferB = 3
    ScratchB = 2
    TablePages = 7
    RecordsPerPage = 12
    TableSpan = 4
    EventPages = {2, 13, 16, 20, 22}
    MaxEvents = 2
    FileSizes = {0, 3, 5}
    BufferStep = 2
    MaxOpens = 2
    AcpiTables <- SomeTables
    MaxTables = 2
    MaxTicks = 2
    CounterWrap = 2
SPECIFICATION MemorySpec
PROPERTIES
    PagesComeBack
CHECK_DEADLOCK FALSE
