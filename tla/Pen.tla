--------------------------------- MODULE Pen ---------------------------------
(****************************************************************************)
(* The pen of libvterm (src/pen.c): select graphic rendition, the pen that  *)
(* is saved with the cursor, and the report of the pen (DECRQSS of SGR).    *)
(* An argument of a sequence is [value, more]; more says that the next one  *)
(* belongs to it (a colon behind it).                                       *)
(****************************************************************************)
EXTENDS Integers, Sequences

CONSTANTS
    SgrArgs,     \* arguments of the sequences that are written
    Behind,      \* bound: what may be in memory behind the arguments
    MaxPenOps    \* bound on sequences

ASSUME PenAssumption == MaxPenOps \in Nat

VARIABLES
    pen,        \* pen of the state and, told attribute by attribute, of the screen
    savedPen,
    penOps

penVars == <<pen, savedPen, penOps>>

Arg(n) == [value |-> n, more |-> FALSE]
More(n) == [value |-> n, more |-> TRUE]
NotGiven == -1

\* Size of the array that request_status_string has for the report, and of
\* the one that the parser has for arguments (CSI_ARGS_MAX).
MaxReport == 20
MaxArgs == 16

DefaultColour == <<"default">>
Indexed(n) == <<"indexed", n % 256>>
Rgb(r, g, b) == <<"rgb", r % 256, g % 256, b % 256>>

\* vterm_state_resetpen
PlainPen == [on |-> {}, underline |-> 0, font |-> 0, fg |-> DefaultColour, bg |-> DefaultColour, baseline |-> 0]

\* vterm_allocator_malloc clears what has never been saved.
NoPen == [PlainPen EXCEPT !.fg = Rgb(0, 0, 0), !.bg = Rgb(0, 0, 0)]

PenInit == pen = PlainPen /\ savedPen = NoPen /\ penOps = 0

\* Attributes that are on or off, and the argument that sets them.
Flag == [bold |-> 1, italic |-> 3, blink |-> 5, reverse |-> 7, conceal |-> 8, strike |-> 9]
OffArg(f) == IF f = "bold" THEN 22 ELSE 20 + Flag[f]

\* lookup_colour behind 38 or 48 at i: the colour, if there is one, and the
\* argument it ends with.  Of args, count are arguments; behind a lone 38 or
\* 48 is what memory holds.
LookupColour(old, args, count, i) ==
    LET rest == count - i - 1
        value(k) == args[i + 1 + k].value
    IN  CASE args[i + 1].value = 2 ->
                IF rest < 3 THEN [colour |-> old, last |-> i + 1 + rest]
                ELSE [colour |-> Rgb(value(1), value(2), value(3)), last |-> i + 4]
          [] args[i + 1].value = 5 ->
                IF rest = 0 THEN [colour |-> old, last |-> i + 1]
                ELSE [colour |-> IF value(1) = NotGiven THEN old ELSE Indexed(value(1)), last |-> i + 2]
          [] OTHER -> [colour |-> old, last |-> i + 1]

\* Underline with the kind of line behind a colon.
Underline(args, i) ==
    IF args[i].more THEN [line |-> IF args[i + 1].value \in 0 .. 3 THEN args[i + 1].value ELSE 1, last |-> i + 1]
    ELSE [line |-> 1, last |-> i]

\* What the argument at i does: the pen, and the argument that was read last.
SetAttr(p, args, count, i) ==
    LET n == args[i].value
        done(q) == [pen |-> q, last |-> i]
    IN  CASE n \in {NotGiven, 0} -> done(PlainPen)
          [] \E f \in DOMAIN Flag : n = Flag[f] ->
                done([p EXCEPT !.on = @ \cup {f \in DOMAIN Flag : n = Flag[f]}])
          [] \E f \in DOMAIN Flag : n = OffArg(f) ->
                done([p EXCEPT !.on = @ \ {f \in DOMAIN Flag : n = OffArg(f)}])
          [] n = 4 -> LET u == Underline(args, i) IN [pen |-> [p EXCEPT !.underline = u.line], last |-> u.last]
          [] n = 21 -> done([p EXCEPT !.underline = 2])
          [] n = 24 -> done([p EXCEPT !.underline = 0])
          [] n \in 10 .. 19 -> done([p EXCEPT !.font = n - 10])
          [] n \in 30 .. 37 -> done([p EXCEPT !.fg = Indexed(n - 30)])
          [] n \in 40 .. 47 -> done([p EXCEPT !.bg = Indexed(n - 40)])
          [] n \in 90 .. 97 -> done([p EXCEPT !.fg = Indexed(n - 90 + 8)])
          [] n \in 100 .. 107 -> done([p EXCEPT !.bg = Indexed(n - 100 + 8)])
          [] n = 38 -> LET c == LookupColour(p.fg, args, count, i) IN [pen |-> [p EXCEPT !.fg = c.colour], last |-> c.last]
          [] n = 48 -> LET c == LookupColour(p.bg, args, count, i) IN [pen |-> [p EXCEPT !.bg = c.colour], last |-> c.last]
          [] n = 39 -> done([p EXCEPT !.fg = DefaultColour])
          [] n = 49 -> done([p EXCEPT !.bg = DefaultColour])
          [] n \in 73 .. 75 -> done([p EXCEPT !.baseline = (n - 72) % 3])
          [] OTHER -> done(p)

\* vterm_state_setpen, once through its loop for the argument at.next: what
\* belongs to the argument that was read last is skipped.
SetPenFrom(at, args, count) ==
    LET s == SetAttr(at.pen, args, count, at.next)
        end == CHOOSE j \in s.last .. Len(args) : ~args[j].more /\ \A k \in s.last .. j - 1 : args[k].more
    IN  IF at.next > count THEN at ELSE [pen |-> s.pen, next |-> end + 1]

\* behind: memory behind the arguments
SetPen(p, args, behind) ==
    LET at[n \in 0 .. Len(args)] ==
            IF n = 0 THEN [pen |-> p, next |-> 1] ELSE SetPenFrom(at[n - 1], args \o behind, Len(args))
    IN  at[Len(args)].pen

\* Mutant: colours of high intensity are reported as the normal ones.
ColourArgsDim(c, fg) ==
    IF c[1] = "indexed" THEN <<Arg((c[2] % 8) + (IF fg THEN 30 ELSE 40))>> ELSE <<>>

\* vterm_state_getpen_color
ColourArgs(c, fg) ==
    LET first == More(IF fg THEN 38 ELSE 48) IN
    CASE c = DefaultColour -> <<>>
      [] c[1] = "indexed" ->
            IF c[2] < 8 THEN <<Arg(c[2] + (IF fg THEN 30 ELSE 40))>>
            ELSE IF c[2] < 16 THEN <<Arg(c[2] - 8 + (IF fg THEN 90 ELSE 100))>>
            ELSE <<first, More(5), Arg(c[2])>>
      [] c[1] = "rgb" -> <<first, More(2), More(c[2]), More(c[3]), Arg(c[4])>>

Only(condition, args) == IF condition THEN args ELSE <<>>

\* vterm_state_getpen
GetPen(p) ==
    Only("bold" \in p.on, <<Arg(1)>>) \o Only("italic" \in p.on, <<Arg(3)>>)
    \o Only(p.underline = 1, <<Arg(4)>>) \o Only(p.underline = 3, <<More(4), Arg(3)>>)
    \o Only("blink" \in p.on, <<Arg(5)>>) \o Only("reverse" \in p.on, <<Arg(7)>>)
    \o Only("conceal" \in p.on, <<Arg(8)>>) \o Only("strike" \in p.on, <<Arg(9)>>)
    \o Only(p.font # 0, <<Arg(10 + p.font)>>) \o Only(p.underline = 2, <<Arg(21)>>)
    \o ColourArgs(p.fg, TRUE) \o ColourArgs(p.bg, FALSE)
    \o Only(p.baseline = 1, <<Arg(73)>>) \o Only(p.baseline = 2, <<Arg(74)>>)

-----------------------------------------------------------------------------

Draw(p, saved) ==
    /\ penOps < MaxPenOps
    /\ penOps' = penOps + 1
    /\ pen' = p
    /\ savedPen' = saved

\* SGR; DECSGR passes on its arguments as 73, 74 and 75.
Sgr == \E args \in SgrArgs, behind \in Behind : Draw(SetPen(pen, args, behind), savedPen)
ResetPen == Draw(PlainPen, savedPen)
SavePen == Draw(pen, pen)
RestorePen == Draw(savedPen, savedPen)

PenStep == Sgr \/ ResetPen \/ SavePen \/ RestorePen

-----------------------------------------------------------------------------
(* Properties *)

\* A program that asks for the pen and later resets it and sends back what it
\* was told has the same pen again, if it was told no more than the parser has
\* room for; the report fits the array it is put in.
PenIsTold ==
    LET report == GetPen(pen)
    IN  /\ Len(report) <= MaxReport
        /\ Len(report) <= MaxArgs => \A behind \in Behind : SetPen(PlainPen, report, behind) = pen

=============================================================================
