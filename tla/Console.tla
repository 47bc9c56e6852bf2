------------------------------- MODULE Console -------------------------------
(****************************************************************************)
(* The kernel log (log.cpp), the framebuffer console that shows it          *)
(* (drivers/fbconsole.cpp) and panic (arch/amd64/panic.cpp).  The           *)
(* framebuffer is a grid of characters; 0 is a cell in background colour.   *)
(*                                                                          *)
(* The serial port and the firmware variable get every message too; when    *)
(* the firmware fails, that is logged from within log_append.               *)
(****************************************************************************)
EXTENDS Integers, Sequences, SequencesExt

CONSTANTS
    LogPageSize,     \* bytes of messages in a page of the log
    LogMaxPages,     \* LOG_MAX_BUFFER in pages
    LogOverhead,     \* level, tabs and terminator
    MessageSizes,    \* characters of messages
    LevelColours,    \* colours of the levels messages are logged with
    ConsoleRows,
    ConsoleCols,
    PanicSizes,      \* characters of the messages of a panic, a sequence
    MaxMessages      \* bound on messages

ASSUME ConsoleAssumption ==
    /\ {LogMaxPages, ConsoleRows, ConsoleCols} \subseteq Nat \ {0}
    /\ LogPageSize \in Nat /\ LogOverhead \in Nat /\ MaxMessages \in Nat /\ LevelColours \subseteq Nat
    /\ MessageSizes \subseteq Nat /\ PanicSizes \in Seq(Nat) /\ PanicSizes # <<>>

VARIABLES
    klog,      \* [pages, count, wild, logged]: log_first to log_last, log_count,
               \* has something behind a page been overwritten, history
    con,       \* fbconsole and the two buffers
    paper,     \* every line the console has shown since it was cleared
    memory,    \* is memory management up?
    halted

consoleVars == <<klog, con, paper, memory, halted>>

Cells == (1 .. ConsoleRows) \X (1 .. ConsoleCols)
EmptyGrid == [p \in Cells |-> 0]
EmptyLine == [c \in 1 .. ConsoleCols |-> 0]

ConsoleInit ==
    /\ klog = [pages |-> << <<>> >>, count |-> 0, wild |-> FALSE, logged |-> 0]
    /\ con = [fb |-> FALSE, active |-> FALSE, row |-> 1, col |-> 1, colour |-> 15,
              front |-> EmptyGrid, back |-> EmptyGrid]
    /\ paper = <<EmptyLine>>
    /\ memory = FALSE
    /\ halted = FALSE

-----------------------------------------------------------------------------
(* The console.  Its state goes with the paper: [con, paper]. *)

\* fbconsole_setpixel for the pixels of a character: both buffers.
SetCell(grid, r, c, v) == [p \in Cells |-> IF p = <<r, c>> THEN v ELSE grid[p]]

\* Mutant: only the back buffer is scrolled.
FrontKept(s) == s.front

\* The framebuffer after a scroll: all of the back buffer.
FrontScrolled(s) == s.back

\* fbconsole_scroll by one line
FbScroll(s) ==
    LET up == [s EXCEPT !.back = [p \in Cells |->
                    IF p[1] = ConsoleRows THEN 0 ELSE s.back[<<p[1] + 1, p[2]>>]]]
    IN  [up EXCEPT !.front = FrontScrolled(up)]

\* fbconsole_next_line; the paper gets longer.
NextLine(s) ==
    LET down == [s.con EXCEPT !.col = 1, !.row = @ + 1]
    IN  [con |-> IF down.row > ConsoleRows THEN [FbScroll(down) EXCEPT !.row = @ - 1] ELSE down,
         paper |-> Append(s.paper, EmptyLine)]

\* A character of fbconsole_write, in the colour of the moment.
DrawChar(s, ch) ==
    LET v == 100 * s.con.colour + ch
        drawn == [con |-> [s.con EXCEPT !.front = SetCell(@, s.con.row, s.con.col, v),
                                        !.back = SetCell(@, s.con.row, s.con.col, v), !.col = @ + 1],
                  paper |-> [s.paper EXCEPT ![Len(s.paper)][s.con.col] = v]]
    IN  IF drawn.con.col > ConsoleCols THEN NextLine(drawn) ELSE drawn

\* fbconsole_write of a colour sequence, some characters and a newline.
FbWrite(s, colour, n) ==
    LET drawn[i \in 0 .. n] ==
            IF i = 0 THEN [s EXCEPT !.con.colour = colour] ELSE DrawChar(drawn[i - 1], 1 + (i % 9))
    IN  IF s.con.fb THEN NextLine(drawn[n]) ELSE s

\* fbconsole_clear
FbClear(s) ==
    [con |-> [s.con EXCEPT !.front = EmptyGrid, !.back = EmptyGrid, !.row = 1, !.col = 1, !.active = TRUE],
     paper |-> <<EmptyLine>>]

-----------------------------------------------------------------------------
(* The log *)

PageBytes(page) ==
    LET upTo[i \in 0 .. Len(page)] == IF i = 0 THEN 0 ELSE upTo[i - 1] + page[i].len
    IN  upTo[Len(page)]

\* Mutant: the counter keeps the messages of pages that are gone.
CountKept(l) == l.count

\* log_count after the first page is gone: one terminator less per message.
CountAfterDrop(l) == l.count - Len(Head(l.pages))

\* log_append_page: the oldest page is given up when there are too many.
AppendPage(l) ==
    LET more == [l EXCEPT !.pages = Append(@, <<>>)]
    IN  IF Len(more.pages) <= LogMaxPages THEN more
        ELSE [more EXCEPT !.pages = Tail(@), !.count = CountAfterDrop(more)]

\* current_end is behind the page: what is left of it is an unsigned number,
\* and very large.
Overrun(page) == PageBytes(page) > LogPageSize

\* log_append to the pages.  The end of a message that is longer than a page is
\* cut off, but its length counts; the next one is written behind the page.
Appended(l, n) ==
    LET len == n + LogOverhead
        over == Overrun(Last(l.pages))
        room == IF ~over /\ len > LogPageSize - PageBytes(Last(l.pages)) THEN AppendPage(l) ELSE l
        id == l.logged + 1
    IN  [room EXCEPT !.pages[Len(room.pages)] = Append(@, [id |-> id, len |-> len]),
                     !.logged = id, !.count = @ + 1, !.wild = @ \/ over]

\* Everything log_append does with a message; s is [log, con, paper].
LogAppend(s, n, colour) ==
    LET shown == IF s.con.active THEN FbWrite([con |-> s.con, paper |-> s.paper], colour, n)
                 ELSE [con |-> s.con, paper |-> s.paper]
    IN  [log |-> Appended(s.log, n), con |-> shown.con, paper |-> shown.paper]

\* efi_append_log fails and says so; no_log keeps that message from the firmware.
EfiError == 2

Kernel == [log |-> klog, con |-> con, paper |-> paper]

\* Before memory management is up, there is no other page than the first; what
\* happens once memory has been overwritten is not followed.
Becomes(s) ==
    /\ ~klog.wild
    /\ memory \/ Len(s.log.pages) = 1
    /\ s.log.logged <= MaxMessages
    /\ klog' = s.log
    /\ con' = s.con
    /\ paper' = s.paper

-----------------------------------------------------------------------------
(* Operations *)

\* log and sc_handle_debug_print; "Hello world!" comes before the console.
Log ==
    /\ klog.logged = 0 \/ con.active \/ memory
    /\ \E n \in MessageSizes, colour \in LevelColours, fails \in {FALSE, memory} :
         LET told == LogAppend(Kernel, n, colour)
         IN  Becomes(IF fails THEN LogAppend(told, EfiError, 1) ELSE told)
    /\ ~halted
    /\ UNCHANGED <<memory, halted>>

\* fbconsole_init; without a framebuffer nothing is drawn.
FbInit ==
    /\ ~con.active /\ ~memory /\ klog.logged = 1
    /\ \E fb \in BOOLEAN :
         LET s == [Kernel EXCEPT !.con.fb = fb, !.con.active = TRUE]
             cleared == IF fb THEN FbClear([con |-> s.con, paper |-> s.paper]) ELSE s
         IN  Becomes(LogAppend([s EXCEPT !.con = cleared.con, !.paper = cleared.paper], 2,
                               IF fb THEN 8 ELSE 15))
    /\ UNCHANGED <<memory, halted>>

\* init_mm, and with it fbconsole_init_backbuffer
MemoryUp ==
    /\ ~memory /\ con.active /\ ~halted
    /\ memory' = TRUE
    /\ con' = IF con.fb THEN [con EXCEPT !.back = con.front] ELSE con
    /\ UNCHANGED <<klog, paper, halted>>

\* sc_handle_hardware_framebuffer: a process gets the framebuffer.
Framebuffer ==
    /\ con.active /\ memory /\ ~halted
    /\ LET cleared == IF con.fb THEN FbClear([con |-> con, paper |-> paper]) ELSE [con |-> con, paper |-> paper]
       IN  Becomes(LogAppend([log |-> klog, con |-> [cleared.con EXCEPT !.active = ~con.fb],
                              paper |-> cleared.paper], 2, 8))
    /\ UNCHANGED <<memory, halted>>

\* The process that has it draws.
ProcessDraws ==
    /\ con.fb /\ ~con.active /\ memory /\ ~halted
    /\ con' = [con EXCEPT !.front = [p \in Cells |-> 7]]
    /\ UNCHANGED <<klog, paper, memory, halted>>

\* panic_message_impl: the console is the kernel's again and the messages are
\* logged; then the CPU is halted.
Halt(sizes) ==
    LET said[i \in 0 .. Len(sizes)] ==
            IF i = 0 THEN [Kernel EXCEPT !.con.active = TRUE] ELSE LogAppend(said[i - 1], sizes[i], 5)
    IN
    /\ ~halted
    /\ Becomes(said[Len(sizes)])
    /\ halted' = TRUE
    /\ UNCHANGED memory

\* panic_message, and panic_cpu, which shows the registers as well.
PanicMessage == Halt(PanicSizes)
PanicCpu == Halt(Append(PanicSizes, Last(PanicSizes)))

ConsoleStep == Log \/ FbInit \/ MemoryUp \/ Framebuffer \/ ProcessDraws \/ PanicMessage \/ PanicCpu

-----------------------------------------------------------------------------
(* Properties *)

\* The log holds the last messages, all of them from some message on, in
\* order; log_count is their number, the pages stay within LOG_MAX_BUFFER and
\* messages within their page.  Excepted is a message that is longer than a
\* page: it is the last one, and after the next nothing is known.
LogKeepsLatest ==
    LET upTo[i \in 0 .. Len(klog.pages)] == IF i = 0 THEN <<>> ELSE upTo[i - 1] \o klog.pages[i]
        kept == upTo[Len(klog.pages)]
    IN  ~klog.wild =>
        /\ \A i \in DOMAIN kept : kept[i].id = klog.logged - Len(kept) + i
        /\ klog.count = Len(kept)
        /\ Len(klog.pages) <= LogMaxPages
        /\ \A i \in DOMAIN klog.pages :
             Overrun(klog.pages[i]) => i = Len(klog.pages) /\ Last(klog.pages[i]).len > LogPageSize

\* Messages stay in the pages of the log.
LogStaysInPages == ~klog.wild

\* The console shows the end of what has been written to it, and all of it is
\* in the framebuffer while the kernel has control, also when it took control
\* back from a process for a panic.
ConsoleShowsLatest ==
    LET above == IF Len(paper) > ConsoleRows THEN Len(paper) - ConsoleRows ELSE 0
    IN  con.fb =>
        /\ con.row = Len(paper) - above
        /\ \A p \in Cells :
             /\ con.back[p] = IF above + p[1] <= Len(paper) THEN paper[above + p[1]][p[2]] ELSE 0
             /\ con.active /\ con.back[p] # 0 => con.front[p] = con.back[p]

=============================================================================
