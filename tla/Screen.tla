-------------------------------- MODULE Screen -------------------------------
(****************************************************************************)
(* libvterm's screen (src/screen.c, vterm_scroll_rect of src/vterm.c) and   *)
(* the picture the term program draws of it (term/main.c).  A position is   *)
(* <<row, column>>, a rectangle the set of its positions.  Operators map a  *)
(* terminal, a record, to the terminal after the call.                      *)
(*                                                                          *)
(* term asks for neither merged damage, scrollback, reflow nor the          *)
(* alternate screen: every damage is drawn at once.  A cell holds one       *)
(* character that is one column wide and in the font.                       *)
(****************************************************************************)
EXTENDS Integers, Sequences, FiniteSets

CONSTANTS Rows, Cols    \* size of the terminal

\* Half a line is a line, for double width.
ASSUME ScreenAssumption == Rows \in Nat \ {0} /\ Cols \in Nat \ {0, 1}

VARIABLES
    term,      \* the terminal: state, screen and picture
    termOps    \* bound: sequences and characters processed

screenVars == <<term, termOps>>

Positions == (0 .. Rows - 1) \X (0 .. Cols - 1)

\* Rows r0 to r1 - 1 and columns c0 to c1 - 1.
Rect(r0, r1, c0, c1) == (r0 .. r1 - 1) \X (c0 .. c1 - 1)

Blank == 0
DefaultPen == [reverse |-> FALSE, colour |-> 1]

\* A line that is neither double width nor double height.
SingleLine == [dw |-> FALSE, dh |-> 0]

\* clearcell
ClearCell(pen) == [ch |-> Blank, pen |-> pen, protected |-> FALSE]

\* What render_cell draws for vterm_screen_get_cell: reverse video is that of
\* the cell, of the screen and of the cursor, one inverting the other.
Rendered(t, p) ==
    LET c == t.cells[p]
    IN  [ch |-> c.ch, colour |-> c.pen.colour,
         reverse |-> ((c.pen.reverse # t.reverse) # (t.cursor = p))]

\* damagerect: vterm_damage draws every cell of the rectangle.
Damage(t, rect) ==
    [t EXCEPT !.picture = [p \in Positions |-> IF p \in rect THEN Rendered(t, p) ELSE t.picture[p]]]

\* putglyph of a character in pen and protection of the moment.
PutGlyph(t, ch, p) ==
    LET cell == [ch |-> ch, pen |-> t.pen, protected |-> t.protected]
    IN  Damage([t EXCEPT !.cells = [q \in Positions |-> IF q = p THEN cell ELSE t.cells[q]]], {p})

\* erase_internal: colours stay, all other attributes are reset.
EraseInternal(t, rect, selective) ==
    LET empty == ClearCell([DefaultPen EXCEPT !.colour = t.pen.colour])
    IN  [t EXCEPT !.cells = [p \in Positions |->
            IF p \in rect /\ ~(selective /\ t.cells[p].protected) THEN empty ELSE t.cells[p]]]

Erase(t, rect, selective) == Damage(EraseInternal(t, rect, selective), rect)

\* Positions of a rectangle that are filled from others when it is scrolled.
Target(rect, down, right) == {p \in rect : <<p[1] + down, p[2] + right>> \in rect}

\* Mutant: only what has been moved is drawn again.
DamagedMoved(rect, down, right) == Target(rect, down, right)

\* moverect_user and erase_user: what is drawn again after a scroll.
Damaged(rect, down, right) == Target(rect, down, right) \cup (rect \ Target(rect, down, right))

\* scrollrect with vterm_scroll_rect, moverect_internal and erase_internal.
ScrollRect(t, rect, down, right) ==
    LET moved == [t EXCEPT !.cells = [p \in Positions |->
                    IF p \in Target(rect, down, right) THEN t.cells[<<p[1] + down, p[2] + right>>] ELSE t.cells[p]]]
    IN  Damage(EraseInternal(moved, rect \ Target(rect, down, right), FALSE), Damaged(rect, down, right))

\* movecursor and vterm_movecursor of term: where the cursor was and where it
\* is are drawn again, and are no longer among the ghosts.
MoveCursor(t, p, old) == Damage([t EXCEPT !.cursor = p, !.ghosts = @ \ {p, old}], {p, old})

\* settermprop of the reverse screen.
SetReverse(t, on) == Damage([t EXCEPT !.reverse = on], Positions)

\* setlineinfo: the right half of a line that becomes double width is erased,
\* and is no longer seen.
SetLineInfo(t, row, info) ==
    LET half == Cols \div 2
        seen == Rect(row, row + 1, 0, IF info.dw THEN half ELSE Cols)
        rest == IF info.dw THEN Rect(row, row + 1, half, Cols) ELSE {}
    IN  IF t.info[row] = info THEN t
        ELSE [EraseInternal(Damage(t, seen), rest, FALSE) EXCEPT !.info[row] = info]

=============================================================================
