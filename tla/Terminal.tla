------------------------------- MODULE Terminal ------------------------------
(****************************************************************************)
(* What a user sees and types, for TLC: the terminal program with libvterm, *)
(* and the kernel's own console.  A behaviour is about one part: the        *)
(* parser, the screen, the pen, the keyboard or the console.                *)
(****************************************************************************)
EXTENDS Parser, VTermState, Pen, Keyboard, Console

VARIABLE part

Letter(ch) == <<"text", ch, Missing>>

\* Two lines, the second one full.
Filled == Append([i \in 1 .. 7 |-> Letter(i)], <<"SM", 20, Missing>>)

\* A new terminal, one with an empty corner, margins with the cursor in them,
\* and a double-width line.
Screens ==
    {<<>>, Filled,
     Filled \o << <<"DECSET", 69, Missing>>, <<"DECSLRM", 2, 3>>, <<"DECSTBM", 2, 2>>, <<"DECSET", 6, Missing>> >>,
     Filled \o << <<"DECDWL", Missing, Missing>> >>}

\* Every attribute alone, colours with and without their arguments, and the
\* longest report there is.
SomeSgr ==
    {<<Arg(n)>> : n \in {1, 3, 5, 7, 8, 9, 22, 27, 4, 21, 24, 19, 10, 31, 97, 42, 107, 39, 49, 73, 74, 75}} \cup
    {<<More(4), Arg(3)>>, <<More(4), Arg(0)>>,
     <<Arg(38), Arg(5), Arg(200), Arg(48), Arg(2), Arg(1), Arg(2), Arg(300)>>,
     <<More(38), More(2), More(1), More(2), Arg(3)>>,
     <<Arg(38)>>, <<Arg(1), Arg(48)>>, <<More(38), Arg(5)>>, <<Arg(48), Arg(2), Arg(7)>>, <<Arg(0), Arg(38), Arg(5), Arg(NotGiven), Arg(7)>>,
     <<Arg(1), Arg(3), More(4), Arg(3), Arg(5), Arg(7), Arg(8), Arg(9), Arg(12),
       Arg(38), Arg(2), Arg(1), Arg(2), Arg(3), Arg(48), Arg(2), Arg(4), Arg(5), Arg(6), Arg(74)>>}

\* Behind the arguments: a colour, a missing one, three more, or nothing known.
SomeMemory == {<<Arg(5), Arg(9)>>, <<Arg(5), Arg(NotGiven)>>, <<Arg(2), More(1), Arg(1)>>, <<Arg(77), Arg(0)>>}

TwoLines == <<3, 5>>

TerminalInit ==
    /\ part \in {"parser", "screen", "pen", "keyboard", "console"}
    /\ ParserInit
    /\ TermInit
    /\ part # "screen" => term = After(Filled)
    /\ PenInit
    /\ KeyboardInit
    /\ ConsoleInit

TerminalNext ==
    /\ UNCHANGED part
    /\ \/ part = "parser" /\ ParserStep /\ UNCHANGED <<screenVars, penVars, keyboardVars, consoleVars>>
       \/ part = "screen" /\ TermStep /\ UNCHANGED <<parserVars, penVars, keyboardVars, consoleVars>>
       \/ part = "pen" /\ PenStep /\ UNCHANGED <<parserVars, screenVars, keyboardVars, consoleVars>>
       \/ part = "keyboard" /\ KeyboardStep /\ UNCHANGED <<parserVars, screenVars, penVars, consoleVars>>
       \/ part = "console" /\ ConsoleStep /\ UNCHANGED <<parserVars, screenVars, penVars, keyboardVars>>

TerminalSpec ==
    TerminalInit /\ [][TerminalNext]_<<part, parserVars, screenVars, penVars, keyboardVars, consoleVars>>

-----------------------------------------------------------------------------

\* What request_status_string reports (DECRQSS) is the state: a program that
\* sends it back as the sequence that sets it has region, margins in effect,
\* cursor shape, protection and, after a reset, the pen as they were, and the
\* report fits the array that vterm_state_getpen fills.  Excepted: empty
\* margins, a shape that was never set, and a pen of more than 16 arguments.
ReportsAreTrue == StatusIsTrue /\ PenIsTold

=============================================================================
