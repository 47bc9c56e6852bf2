\* A screen of two lines with four columns and three commands.
CONSTANTS
    Bytes = {10}
    MaxChunk = 2
    KeptBytes = 2
    CsiArgsMax = 2
    MaxParts = 1
    Rows = 2
    Cols = 4
    Letters = {8}
    Counts = {1, 2, 5}
    DecModes = {5, 6, 7, 69, 1049}
    Leftover = {0, 5}
    Started <- Screens
    MaxTermOps = 3
    SgrArgs <- SomeSgr
    Behind <- SomeMemory
    MaxPenOps = 3
    Keys = {"lshift", "rctrl", "ralt", "i", "enter", "tab", "up", "delete", "pause"}
    ReadSizes = {1, 3}
    NewLine = TRUE
    CursorMode = FALSE
    KeypadMode = FALSE
    MaxPresses = 3
    LogPageSize = 9
    LogMaxPages = 2
    LogOverhead = 2
    MessageSizes = {2, 5, 8}
    LevelColours = {8, 15}
    ConsoleRows = 3
    ConsoleCols = 4
    PanicSizes <- TwoLines
    MaxMessages = 8
SPECIFICATION TerminalSpec
INVARIANT MarginsHoldSomething
CHECK_DEADLOCK FALSE
