------------------------------ MODULE VTermState -----------------------------
(****************************************************************************)
(* libvterm's terminal state (src/state.c): what text, controls, escapes    *)
(* and control sequences do to cursor, margins, tab stops, modes and        *)
(* screen.  A command is <<name, first argument, second argument>>, with    *)
(* Missing for an argument that is not there.  Characters that are not one  *)
(* column wide are left out.                                                *)
(*                                                                          *)
(* Two fields of the terminal are not in the code.  ghosts: positions where *)
(* a cursor is drawn that is not there, or one is missing.  hung: a         *)
(* sequence is processed for ever.                                          *)
(****************************************************************************)
EXTENDS Screen, SequencesExt

CONSTANTS
    Letters,     \* characters that are written
    Counts,      \* arguments that are given
    DecModes,    \* private modes that are set and reset
    Leftover,    \* bound: what an uninitialized number may be
    Started,     \* commands processed before, a set of sequences
    MaxTermOps   \* bound on commands

ASSUME StateAssumption ==
    MaxTermOps \in Nat /\ Letters \cup Counts \cup DecModes \subseteq Nat /\ Leftover \subseteq Int

Missing == -1
Args == Counts \cup {Missing}

\* CSI_ARG_COUNT and CSI_ARG_OR
Count(a) == IF a \in {Missing, 0} THEN 1 ELSE a
ArgOr(a, default) == IF a = Missing THEN default ELSE a

\* LBOUND, then UBOUND
Bound(x, least, most) ==
    LET y == IF x < least THEN least ELSE x IN IF y > most THEN most ELSE y

-----------------------------------------------------------------------------
(* Geometry *)

Row(t) == t.pos[1]
Col(t) == t.pos[2]
Has(t, mode) == mode \in t.modes
Put(t, mode, on) == [t EXCEPT !.modes = IF on THEN @ \cup {mode} ELSE @ \ {mode}]

\* ROWWIDTH, SCROLLREGION_BOTTOM, SCROLLREGION_LEFT and SCROLLREGION_RIGHT
RowWidth(t, row) == IF t.info[row].dw THEN Cols \div 2 ELSE Cols
ThisWidth(t) == RowWidth(t, Row(t))
Bottom(t) == IF t.bottom > -1 THEN t.bottom ELSE Rows
Left(t) == IF Has(t, "leftright") THEN t.left ELSE 0
Right(t) == IF Has(t, "leftright") /\ t.right > -1 THEN t.right ELSE Cols
Region(t) == Rect(t.top, Bottom(t), Left(t), Right(t))

\* is_cursor_in_scrollregion
InRegion(t) == t.pos \in Region(t)

Home(t) == IF Has(t, "origin") THEN <<t.top, Left(t)>> ELSE <<0, 0>>

\* updatecursor
UpdateCursor(t, old, cancel) ==
    IF t.pos = old THEN t
    ELSE MoveCursor([t EXCEPT !.phantom = @ /\ ~cancel], t.pos, old)

\* scroll: the amount is limited to the rectangle; full lines take what is
\* known of them along.
Scroll(t, r0, r1, c0, c1, down, right) ==
    LET n == Bound(down, r0 - r1, r1 - r0)
        m == Bound(right, c0 - c1, c1 - c0)
        lines == [row \in DOMAIN t.info |->
                    IF row \notin r0 .. r1 - 1 THEN t.info[row]
                    ELSE IF row + n \in r0 .. r1 - 1 THEN t.info[row + n] ELSE SingleLine]
        u == IF c0 = 0 /\ c1 = Cols /\ m = 0 THEN [t EXCEPT !.info = lines] ELSE t
    IN  IF down = 0 /\ right = 0 THEN t ELSE ScrollRect(u, Rect(r0, r1, c0, c1), n, m)

ScrollRegion(t, down) == Scroll(t, t.top, Bottom(t), Left(t), Right(t), down, 0)

LineFeed(t) ==
    IF Row(t) = Bottom(t) - 1 THEN ScrollRegion(t, 1)
    ELSE IF Row(t) < Rows - 1 THEN [t EXCEPT !.pos[1] = @ + 1]
    ELSE t

ReverseIndex(t) ==
    IF Row(t) = t.top THEN ScrollRegion(t, -1)
    ELSE IF Row(t) > 0 THEN [t EXCEPT !.pos[1] = @ - 1]
    ELSE t

CarriageReturn(t) == [t EXCEPT !.pos[2] = 0]

\* tab: to the n-th tab stop, or to the end or beginning of the line.
Tab(t, n) ==
    LET nth == {c \in t.tabs : c > Col(t) /\ Cardinality(t.tabs \cap (Col(t) + 1 .. c)) = n}
        last == ThisWidth(t) - 1
    IN  IF Col(t) >= last THEN t
        ELSE [t EXCEPT !.pos[2] = CHOOSE c \in nth \cup {last} : \A d \in nth \cup {last} : c <= d]

BackTab(t, n) ==
    LET nth == {c \in t.tabs : c < Col(t) /\ Cardinality(t.tabs \cap (c .. Col(t) - 1)) = n}
    IN  [t EXCEPT !.pos[2] = CHOOSE c \in nth \cup {0} : \A d \in nth \cup {0} : c >= d]

\* set_lineinfo of several lines
SetLines(t, rows, info) ==
    LET upTo[n \in 0 .. Rows] ==
            IF n = 0 THEN t
            ELSE IF n - 1 \in rows THEN SetLineInfo(upTo[n - 1], n - 1, info) ELSE upTo[n - 1]
    IN  upTo[Rows]

-----------------------------------------------------------------------------
(* Modes and reset *)

\* savecursor; before the first time nothing is saved but zeroes.
SaveCursor(t) ==
    [t EXCEPT !.saved = [pos |-> t.pos, pen |-> t.pen, shape |-> t.shape,
                         modes |-> t.modes \cap {"visible", "blink"}]]

RestoreCursor(t) ==
    UpdateCursor([t EXCEPT !.pos = t.saved.pos, !.pen = t.saved.pen, !.shape = t.saved.shape,
                           !.modes = (@ \ {"visible", "blink"}) \cup t.saved.modes], t.pos, TRUE)

\* Private modes that are no more than a flag.
FlagOf(num) ==
    CASE num = 1 -> "cursor" [] num = 7 -> "autowrap" [] num = 12 -> "blink" [] num = 25 -> "visible"
      [] num = 1004 -> "focus" [] num = 2004 -> "paste" [] num = 69 -> "leftright" [] num = 6 -> "origin"
      [] OTHER -> "none"

\* set_dec_mode and vterm_state_set_termprop; the alternate screen is refused.
SetDecMode(t, num, on) ==
    CASE num = 5 -> SetReverse(t, on)
      [] num = 6 -> LET u == Put(t, "origin", on) IN UpdateCursor([u EXCEPT !.pos = Home(u)], t.pos, TRUE)
      [] num = 69 -> IF on THEN SetLines(Put(t, "leftright", TRUE), 0 .. Rows - 1, SingleLine)
                     ELSE Put(t, "leftright", FALSE)
      [] num \in {1000, 1002, 1003} -> [t EXCEPT !.mouse = IF on THEN num ELSE 0]
      [] num \in {1005, 1006, 1015} -> [t EXCEPT !.protocol = IF on THEN num ELSE 0]
      [] num = 1047 -> IF on THEN t ELSE Damage(t, Positions)
      [] num = 1048 -> IF on THEN SaveCursor(t) ELSE RestoreCursor(t)
      [] num = 1049 -> IF on THEN SaveCursor(t) ELSE RestoreCursor(Damage(t, Positions))
      [] num \in {1, 7, 12, 25, 1004, 2004} -> Put(t, FlagOf(num), on)
      [] OTHER -> t

\* set_mode
SetMode(t, num, on) ==
    CASE num = 4 -> Put(t, "insert", on) [] num = 20 -> Put(t, "newline", on) [] OTHER -> t

\* request_dec_mode: 1 set, 2 reset, 0 not known.
RequestDecMode(t, num) ==
    LET set == CASE num = 5 -> t.reverse
                 [] num \in {1000, 1002, 1003} -> t.mouse = num
                 [] num \in {1005, 1006, 1015} -> t.protocol = num
                 [] num = 1047 -> FALSE
                 [] OTHER -> Has(t, FlagOf(num))
    IN  IF num \in {5, 1000, 1002, 1003, 1005, 1006, 1015, 1047} \/ FlagOf(num) # "none"
        THEN IF set THEN 1 ELSE 2 ELSE 0

\* vterm_state_reset; the reverse screen stays as it is.
Reset(t, hard) ==
    LET soft == [SetLines(t, 0 .. Rows - 1, SingleLine) EXCEPT
                    !.top = 0, !.bottom = -1, !.left = 0, !.right = -1,
                    !.modes = {"autowrap", "visible", "blink"}, !.mouse = 0,
                    !.tabs = {c \in 0 .. Cols - 1 : c % 8 = 0},
                    !.pen = DefaultPen, !.protected = FALSE, !.shape = "block",
                    !.charset = [i \in 0 .. 3 |-> "utf8"], !.gl = 0, !.single = 0]
    IN  IF hard THEN Erase([soft EXCEPT !.pos = <<0, 0>>, !.phantom = FALSE], Positions, FALSE) ELSE soft

\* vterm_new and main of term: the screen is reset before anybody draws, and
\* the cursor is drawn when it moves for the first time.
NewTerm ==
    LET zero == [reverse |-> FALSE, colour |-> 0]
        blank == [ch |-> Blank, colour |-> 1, reverse |-> FALSE]
        new == [pos |-> <<0, 0>>, phantom |-> FALSE, top |-> 0, bottom |-> -1, left |-> 0, right |-> -1,
                tabs |-> {}, modes |-> {}, mouse |-> 0, protocol |-> 0, shape |-> "none", pen |-> zero,
                protected |-> FALSE, gl |-> 0, single |-> 0, charset |-> [i \in 0 .. 3 |-> "utf8"],
                saved |-> [pos |-> <<0, 0>>, pen |-> zero, shape |-> "none", modes |-> {}],
                last |-> [ch |-> Blank, pos |-> <<0, 0>>], reply |-> <<>>,
                info |-> [row \in 0 .. Rows - 1 |-> SingleLine],
                cells |-> [p \in Positions |-> ClearCell(zero)], reverse |-> FALSE,
                cursor |-> <<0, 0>>, ghosts |-> {<<0, 0>>}, hung |-> FALSE,
                picture |-> [p \in Positions |-> blank]]
    IN  [Reset(new, TRUE) EXCEPT !.picture = new.picture]

-----------------------------------------------------------------------------
(* Text, controls and escapes *)

\* The character a set of graphics stands for.
Glyph(t, ch) ==
    LET set == t.charset[IF t.single # 0 THEN t.single ELSE t.gl]
    IN  IF set = "drawing" THEN ch + 100 ELSE ch

\* A character in the last column leaves the cursor there; the next one wraps.
Advance(t) ==
    IF Col(t) + 1 < ThisWidth(t) THEN [t EXCEPT !.pos[2] = @ + 1]
    ELSE [t EXCEPT !.phantom = @ \/ Has(t, "autowrap")]

\* on_text of one character
OnText(t, ch) ==
    LET wrapped == IF t.phantom \/ Col(t) + 1 > ThisWidth(t)
                   THEN [CarriageReturn(LineFeed(t)) EXCEPT !.phantom = FALSE] ELSE t
        room == IF Has(t, "insert")
                THEN Scroll(wrapped, Row(wrapped), Row(wrapped) + 1, Col(wrapped), ThisWidth(wrapped), 0, -1)
                ELSE wrapped
        put == PutGlyph([room EXCEPT !.single = 0], Glyph(t, ch), room.pos)
    IN  UpdateCursor(Advance([put EXCEPT !.last = [ch |-> Glyph(t, ch), pos |-> room.pos]]), t.pos, FALSE)

\* on_text of a combining character behind the one it belongs to, which is
\* written again.
Combines(t) == t.last.ch # Blank /\ t.pos = <<t.last.pos[1], t.last.pos[2] + 1>>
OnCombining(t) == PutGlyph(t, t.last.ch, t.last.pos)

Controls == {"BEL", "BS", "HT", "LF", "CR", "LS1", "LS0", "IND", "NEL", "HTS", "RI", "SS2"}

\* on_control
OnControl(t, name) ==
    LET u == CASE name = "BS" -> [t EXCEPT !.pos[2] = IF @ > 0 THEN @ - 1 ELSE @]
               [] name = "HT" -> Tab(t, 1)
               [] name = "LF" -> IF Has(t, "newline") THEN CarriageReturn(LineFeed(t)) ELSE LineFeed(t)
               [] name = "CR" -> CarriageReturn(t)
               [] name = "LS1" -> [t EXCEPT !.gl = 1]
               [] name = "LS0" -> [t EXCEPT !.gl = 0]
               [] name = "IND" -> LineFeed(t)
               [] name = "NEL" -> CarriageReturn(LineFeed(t))
               [] name = "HTS" -> [t EXCEPT !.tabs = @ \cup {Col(t)}]
               [] name = "RI" -> ReverseIndex(t)
               [] name = "SS2" -> [t EXCEPT !.single = 2]
               [] OTHER -> t
    IN  UpdateCursor(u, t.pos, TRUE)

Escapes == {"S8C1T", "S7C1T", "DECDHLtop", "DECDHLbottom", "DECSWL", "DECDWL", "DECALN", "SCS1", "SCS2",
            "DECSC", "DECRC", "DECKPAM", "DECKPNM", "RIS", "LS2"}

\* Double height and width of the cursor's line, unless there are margins.
ThisLine(t, dw, dh) ==
    IF Has(t, "leftright") THEN t ELSE SetLineInfo(t, Row(t), [dw |-> dw, dh |-> dh])

\* DECALN: the screen is full of E.
AlignRow(t, row) ==
    LET upTo[n \in 0 .. RowWidth(t, row)] ==
            IF n = 0 THEN t ELSE PutGlyph(upTo[n - 1], 69, <<row, n - 1>>)
    IN  upTo[RowWidth(t, row)]

Align(t) ==
    LET upTo[n \in 0 .. Rows] == IF n = 0 THEN t ELSE AlignRow(upTo[n - 1], n - 1)
    IN  upTo[Rows]

\* on_escape
OnEscape(t, name) ==
    CASE name = "S8C1T" -> Put(t, "ctrl8bit", TRUE)
      [] name = "S7C1T" -> Put(t, "ctrl8bit", FALSE)
      [] name = "DECDHLtop" -> ThisLine(t, TRUE, 1)
      [] name = "DECDHLbottom" -> ThisLine(t, TRUE, 2)
      [] name = "DECSWL" -> ThisLine(t, FALSE, 0)
      [] name = "DECDWL" -> ThisLine(t, TRUE, 0)
      [] name = "DECALN" -> Align(t)
      [] name = "SCS1" -> [t EXCEPT !.charset[1] = "drawing"]
      [] name = "SCS2" -> [t EXCEPT !.charset[2] = "drawing"]
      [] name = "DECSC" -> SaveCursor(t)
      [] name = "DECRC" -> RestoreCursor(t)
      [] name = "DECKPAM" -> Put(t, "keypad", TRUE)
      [] name = "DECKPNM" -> Put(t, "keypad", FALSE)
      [] name = "RIS" -> LET u == Reset(t, TRUE) IN MoveCursor(u, u.pos, t.pos)
      [] name = "LS2" -> [t EXCEPT !.gl = 2]

-----------------------------------------------------------------------------
(* Control sequences *)

Moves == {"CUU", "CUD", "CUF", "CUB", "CNL", "CPL", "CHA", "VPA", "CUP"}

\* Where a sequence moves the cursor to, before it is bounded.  HPR, VPR, HPB,
\* VPB, HPA and HVP are the same as CUF, CUD, CUB, CUU, CHA and CUP.
Moved(t, name, a, b) ==
    LET n == Count(a) IN
    CASE name = "CUU" -> <<Row(t) - n, Col(t)>>
      [] name = "CUD" -> <<Row(t) + n, Col(t)>>
      [] name = "CUF" -> <<Row(t), Col(t) + n>>
      [] name = "CUB" -> <<Row(t), Col(t) - n>>
      [] name = "CNL" -> <<Row(t) + n, 0>>
      [] name = "CPL" -> <<Row(t) - n, 0>>
      [] name = "CHA" -> <<Row(t), ArgOr(a, 1) - 1>>
      [] name = "VPA" -> <<Home(t)[1] + ArgOr(a, 1) - 1, Col(t)>>
      [] name = "CUP" -> <<Home(t)[1] + ArgOr(a, 1) - 1, Home(t)[2] + ArgOr(b, 1) - 1>>

Scrolls == {"ICH", "DCH", "IL", "DL", "SU", "SD", "DECIC", "DECDC"}

\* The sequences that move a part of the screen; behind the end of a
\* double-width line ICH and DCH move nothing.
Scrolled(t, name, n) ==
    LET end == IF Has(t, "leftright") THEN Right(t) ELSE ThisWidth(t) IN
    IF name \in {"SU", "SD"} THEN ScrollRegion(t, IF name = "SU" THEN n ELSE -n)
    ELSE IF ~InRegion(t) THEN t
    ELSE CASE name \in {"ICH", "DCH"} ->
                Scroll(t, Row(t), Row(t) + 1, Col(t), end, 0, IF name = "DCH" THEN n ELSE -n)
           [] name \in {"IL", "DL"} ->
                Scroll(t, Row(t), Bottom(t), Left(t), Right(t), IF name = "DL" THEN n ELSE -n, 0)
           [] name \in {"DECIC", "DECDC"} ->
                Scroll(t, t.top, Bottom(t), Col(t), Right(t), 0, IF name = "DECDC" THEN n ELSE -n)

Erasures == {"ED", "DECSED", "EL", "DECSEL", "ECH"}

\* ED and DECSED
EraseDisplay(t, what, selective) ==
    LET below == Row(t) + 1 .. Rows - 1
        above == 0 .. Row(t) - 1
    IN  CASE what \in {Missing, 0} ->
                Erase(SetLines(Erase(t, Rect(Row(t), Row(t) + 1, Col(t), Cols), selective), below, SingleLine),
                      Rect(Row(t) + 1, Rows, 0, Cols), selective)
          [] what = 1 ->
                Erase(Erase(SetLines(t, above, SingleLine), Rect(0, Row(t), 0, Cols), selective),
                      Rect(Row(t), Row(t) + 1, 0, Col(t) + 1), selective)
          [] what = 2 -> Erase(SetLines(t, 0 .. Rows - 1, SingleLine), Positions, selective)
          [] OTHER -> t

\* EL, DECSEL and ECH
EraseInLine(t, c0, c1, selective) == Erase(t, Rect(Row(t), Row(t) + 1, c0, c1), selective)

Erased(t, name, a) ==
    LET selective == name \in {"DECSED", "DECSEL"} IN
    IF name \in {"ED", "DECSED"} THEN EraseDisplay(t, a, selective)
    ELSE IF name = "ECH" THEN EraseInLine(t, Col(t), Bound(Col(t) + Count(a), 0, ThisWidth(t)), FALSE)
    ELSE CASE a \in {Missing, 0} -> EraseInLine(t, Col(t), ThisWidth(t), selective)
           [] a = 1 -> EraseInLine(t, 0, Col(t) + 1, selective)
           [] a = 2 -> EraseInLine(t, 0, ThisWidth(t), selective)

\* DECSTBM: an empty region is none.
SetRegion(t, a, b) ==
    LET top == Bound(ArgOr(a, 1) - 1, 0, Rows)
        given == IF b = Missing THEN -1 ELSE b
        bottom == IF top = 0 /\ given = Rows THEN -1 ELSE Bound(given, -1, Rows)
        valid == (IF bottom > -1 THEN bottom ELSE Rows) > top
        u == [t EXCEPT !.top = IF valid THEN top ELSE 0, !.bottom = IF valid THEN bottom ELSE -1]
    IN  [u EXCEPT !.pos = Home(u)]

\* DECSLRM; only a right margin that is given is compared with the left one.
SetMargins(t, a, b) ==
    LET left == Bound(ArgOr(a, 1) - 1, 0, Cols)
        given == IF b = Missing THEN -1 ELSE b
        right == IF left = 0 /\ given = Cols THEN -1 ELSE Bound(given, -1, Cols)
        valid == right = -1 \/ right > left
        u == [t EXCEPT !.left = IF valid THEN left ELSE 0, !.right = IF valid THEN right ELSE -1]
    IN  [u EXCEPT !.pos = Home(u)]

\* combine_width: before any text there is nothing to repeat, and it has no
\* width.
LastWidth(t) == IF t.last.ch = Blank THEN 0 ELSE 1

\* Nothing is put at the cursor again and again, and never drawn.
Hang(t) ==
    [t EXCEPT !.hung = TRUE,
              !.cells = [p \in Positions |-> IF p = t.pos THEN [t.cells[p] EXCEPT !.ch = Blank] ELSE t.cells[p]]]

\* REP
Repeated(t, n) ==
    LET end == Bound(Col(t) + n, 0, ThisWidth(t))
        times == IF end > Col(t) THEN end - Col(t) ELSE 0
        upTo[i \in 0 .. times] ==
            IF i = 0 THEN t ELSE [PutGlyph(upTo[i - 1], t.last.ch, upTo[i - 1].pos) EXCEPT !.pos[2] = @ + 1]
    IN  IF times > 0 /\ LastWidth(t) = 0 THEN Hang(t) ELSE upTo[times]

\* Does REP leave the cursor where the next character wraps?
RepeatWraps(t) == Col(t) + LastWidth(t) >= ThisWidth(t) /\ Has(t, "autowrap")

\* DECSCUSR
Shapes == <<"block", "underline", "bar">>
SetShape(t, a) ==
    LET n == IF ArgOr(a, 1) = 0 THEN 1 ELSE ArgOr(a, 1)
    IN  IF n > 6 THEN t ELSE [Put(t, "blink", n % 2 = 1) EXCEPT !.shape = Shapes[(n + 1) \div 2]]

\* DECSCA
Protect(t, a) ==
    [t EXCEPT !.protected = IF a \in {Missing, 0, 2} THEN FALSE ELSE IF a = 1 THEN TRUE ELSE @]

\* request_status_string of DECSTBM, DECSLRM, DECSCUSR and DECSCA.  A shape
\* that was restored without having been saved has no number; what is left on
\* the stack is reported.
RegionReport(t) == <<t.top + 1, Bottom(t)>>
ShapeNumber(t, left) == IF t.shape = "none" THEN left ELSE 2 * (CHOOSE i \in 1 .. 3 : Shapes[i] = t.shape)
StatusString(t, what, left) ==
    CASE what = "DECSTBM" -> RegionReport(t)
      [] what = "DECSLRM" -> <<Left(t) + 1, Right(t)>>
      [] what = "DECSCUSR" -> <<ShapeNumber(t, left) - (IF Has(t, "blink") THEN 1 ELSE 0)>>
      [] what = "DECSCA" -> <<IF t.protected THEN 1 ELSE 2>>

StatusStrings == {"DECSTBM", "DECSLRM", "DECSCUSR", "DECSCA"}

Reply(t, values) == [t EXCEPT !.reply = values]

\* Mutant: the cursor may be on the column behind the last one.
BoundedLoosely(t) ==
    LET row == Bound(Row(t), 0, Rows - 1)
    IN  [t EXCEPT !.pos = <<row, Bound(@[2], 0, RowWidth(t, row))>>]

\* Where the cursor may be after a control sequence.
Bounded(t) ==
    IF Has(t, "origin")
    THEN [t EXCEPT !.pos = <<Bound(@[1], t.top, Bottom(t) - 1), Bound(@[2], Left(t), Right(t) - 1)>>]
    ELSE LET row == Bound(Row(t), 0, Rows - 1)
         IN  [t EXCEPT !.pos = <<row, Bound(@[2], 0, RowWidth(t, row) - 1)>>]

SequenceNames ==
    Moves \cup Scrolls \cup Erasures
    \cup {"CHT", "CBT", "REP", "TBC", "SM", "RM", "DECSET", "DECRST", "SGR", "DSR", "DECRQM", "DECSTR",
          "DECSCUSR", "DECSCA", "DECSTBM", "DECSLRM"}

\* The switch of on_csi.
Switch(t, name, a, b) ==
    CASE name \in Moves -> [t EXCEPT !.pos = Moved(t, name, a, b), !.phantom = FALSE]
      [] name \in Scrolls -> Scrolled(t, name, Count(a))
      [] name \in Erasures -> Erased(t, name, a)
      [] name = "CHT" -> Tab(t, Count(a))
      [] name = "CBT" -> BackTab(t, Count(a))
      [] name = "REP" -> Repeated(t, Count(a))
      [] name = "TBC" -> [t EXCEPT !.tabs = IF a \in {3, 5} THEN {}
                                            ELSE IF a \in {Missing, 0} THEN @ \ {Col(t)} ELSE @]
      [] name = "SM" -> SetMode(t, a, TRUE)
      [] name = "RM" -> SetMode(t, a, FALSE)
      [] name = "DECSET" -> SetDecMode(t, a, TRUE)
      [] name = "DECRST" -> SetDecMode(t, a, FALSE)
      [] name = "SGR" -> [t EXCEPT !.pen = IF a = 7 THEN [@ EXCEPT !.reverse = TRUE]
                                           ELSE IF a = Missing THEN DefaultPen ELSE [@ EXCEPT !.colour = a]]
      [] name = "DSR" -> IF a = 6 THEN Reply(t, <<Row(t) + 1, Col(t) + 1>>) ELSE t
      [] name = "DECRQM" -> Reply(t, <<a, RequestDecMode(t, a)>>)
      [] name = "DECSTR" -> Reset(t, FALSE)
      [] name = "DECSCUSR" -> SetShape(t, a)
      [] name = "DECSCA" -> Protect(t, a)
      [] name = "DECSTBM" -> SetRegion(t, a, b)
      [] name = "DECSLRM" -> SetMargins(t, a, b)

\* EL, DECSEL and TBC return early for an argument they do not know.
Refused(name, a) ==
    \/ name \in {"EL", "DECSEL"} /\ a > 2
    \/ name = "TBC" /\ a > 5

\* The mode that moved the cursor has drawn it already; when it is bounded
\* after that, it stays drawn there.
LeftBehind(t, done, pos) ==
    IF done.pos # t.pos /\ done.cursor = done.pos THEN {done.pos} \ {pos} ELSE {}

\* on_csi
OnCsi(t, name, a, b) ==
    LET done == Switch(t, name, a, b)
        wraps == name = "REP" /\ RepeatWraps(done)
        pos == Bounded(done).pos
        end == [done EXCEPT !.pos = pos, !.phantom = @ \/ wraps, !.ghosts = @ \cup LeftBehind(t, done, pos)]
    IN  IF Refused(name, a) THEN t
        ELSE IF done.hung THEN done
        ELSE UpdateCursor(end, t.pos, ~wraps)

-----------------------------------------------------------------------------
(* What programs write *)

\* Sequences with the arguments they are given.
SequencesWritten ==
    ({"CUU", "CUF", "CHA", "CHT", "CBT", "REP"} \cup Scrolls) \X Counts \X {Missing}
    \cup {"CUD", "CUB", "CNL", "CPL", "VPA", "DECSTR"} \X {Missing} \X {Missing}
    \cup {"CUP", "DECSTBM", "DECSLRM"} \X Args \X Args
    \cup Erasures \X {Missing, 1, 2, 3} \X {Missing}
    \cup {"TBC"} \X {Missing, 3, 6} \X {Missing}
    \cup {"SM", "RM"} \X {4, 20} \X {Missing}
    \cup {"DECSET", "DECRST", "DECRQM"} \X DecModes \X {Missing}
    \cup {"SGR"} \X {Missing, 2, 7} \X {Missing}
    \cup {"DSR"} \X {6} \X {Missing}
    \cup {"DECSCUSR"} \X {Missing, 4} \X {Missing}
    \cup {"DECSCA"} \X {Missing, 1} \X {Missing}

Commands ==
    {"text"} \X Nat \X {Missing}
    \cup (Controls \cup Escapes \cup SequenceNames) \X (Nat \cup {Missing}) \X (Nat \cup {Missing})

ASSUME StartedAssumption == Started \subseteq Seq(Commands)

\* One command of a program that ran before.
Command(t, c) ==
    IF t.hung THEN t
    ELSE IF c[1] = "text" THEN OnText(t, c[2])
    ELSE IF c[1] \in Controls THEN OnControl(t, c[1])
    ELSE IF c[1] \in Escapes THEN OnEscape(t, c[1])
    ELSE OnCsi(t, c[1], c[2], c[3])

\* The terminal before and after each of some commands.
Ran(start) ==
    LET ran[i \in 0 .. Len(start)] == IF i = 0 THEN NewTerm ELSE Command(ran[i - 1], start[i])
    IN  ran

After(start) == Ran(start)[Len(start)]

TermInit ==
    /\ \E start \in Started : term = After(start)
    /\ termOps = 0

Become(t) ==
    /\ ~term.hung
    /\ termOps < MaxTermOps
    /\ termOps' = termOps + 1
    /\ term' = t

WriteText == \E ch \in Letters : Become(OnText(term, ch))

WriteCombining == Combines(term) /\ Become(OnCombining(term))

WriteControl == \E name \in Controls : Become(OnControl(term, name))

WriteEscape == \E name \in Escapes : Become(OnEscape(term, name))

WriteSequence == \E c \in SequencesWritten : Become(OnCsi(term, c[1], c[2], c[3]))

AskStatus ==
    \E what \in StatusStrings, left \in Leftover : Become(Reply(term, StatusString(term, what, left)))

TermStep == WriteText \/ WriteCombining \/ WriteControl \/ WriteEscape \/ WriteSequence \/ AskStatus

-----------------------------------------------------------------------------
(* Properties *)

\* What term has drawn is what is on the screen: no cell of the visible part
\* of a line shows an older character, colour or cursor, whatever order of
\* moves, scrolls, erasures and modes led there.  Excepted are the ghosts: the
\* corner before the cursor has moved, and where a mode has put the cursor
\* (DECRST 1048 and 1049, DECSET 6) and the same sequence has moved it on.
PictureIsCurrent ==
    ~term.hung =>
    /\ term.cursor \in {term.pos} \cup term.ghosts
    /\ \A p \in Positions \ term.ghosts :
         p[2] < RowWidth(term, p[1]) => term.picture[p] = Rendered(term, p)

\* What state.c checks after text, controls and sequences when it is built
\* for debugging: the cursor is on the screen and the scroll region has
\* neither height nor width zero, unless the left margin has been set behind
\* the last column.
CursorInBounds ==
    /\ term.pos \in Positions
    /\ Bottom(term) > term.top
    /\ Left(term) < Cols => Right(term) > Left(term)

\* The check of state.c without the exception: the scroll region is never
\* without width (DECSLRM compares a right margin only when it is given).
MarginsHoldSomething == Right(term) > Left(term)

\* A program that asks for region, margins, cursor shape or protection and
\* later sets what it was told changes none of them.  Excepted are margins
\* that hold nothing, margins that are stored and not in effect, of which the
\* report knows nothing, and a shape that was never set.
StatusIsTrue ==
    LET region == RegionReport(term)
        r == SetRegion(term, region[1], region[2])
    IN  /\ r.top = term.top /\ Bottom(r) = Bottom(term)
        /\ \A left \in Leftover :
             LET margins == StatusString(term, "DECSLRM", left)
                 m == SetMargins(term, margins[1], margins[2])
                 c == SetShape(term, StatusString(term, "DECSCUSR", left)[1])
             IN  /\ Has(term, "leftright") /\ Left(term) < Cols => m.left = term.left /\ Right(m) = Right(term)
                 /\ term.shape # "none" => c.shape = term.shape /\ c.modes = term.modes
                 /\ Protect(term, StatusString(term, "DECSCA", left)[1]).protected = term.protected

=============================================================================
