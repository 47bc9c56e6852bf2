------------------------------- MODULE Keyboard ------------------------------
(****************************************************************************)
(* Input of the terminal: scan codes of the keyboard become key presses     *)
(* (term/keyboard.c), key presses become bytes (libvterm src/keyboard.c),   *)
(* and bytes wait until the program reads them (term/main.c).               *)
(*                                                                          *)
(* The keyboard sends one interrupt for every byte.  Keys do not repeat: a  *)
(* repeated modifier would be counted twice and released once.              *)
(****************************************************************************)
EXTENDS Integers, Sequences

CONSTANTS
    Keys,        \* keys of the keyboard, names in the domain of MakeCode
    ReadSizes,   \* bytes programs ask for
    NewLine,     \* mode of the terminal: ENTER is CR LF
    CursorMode,  \* mode of the terminal: cursor keys are SS3
    KeypadMode,  \* mode of the terminal: the keypad is SS3
    MaxPresses   \* bound on key presses

ASSUME KeyboardAssumption ==
    /\ {NewLine, CursorMode, KeypadMode} \subseteq BOOLEAN /\ MaxPresses \in Nat /\ ReadSizes \subseteq Nat \ {0}
    /\ Keys \subseteq {"lshift", "rshift", "lctrl", "rctrl", "ralt", "i", "enter", "tab", "f1", "kp8", "delete",
                      "up", "pause"}

VARIABLES
    held,      \* keys that are down
    wire,      \* bytes sent by the keyboard and not yet read
    kbd,       \* the static variables of keyboard.c
    input,     \* input_buffer, input_buffer_current and input_buffer_len
    got,       \* what programs have read
    typed,     \* what the keys stand for, in the order they were pressed
    presses

keyboardVars == <<held, wire, kbd, input, got, typed, presses>>

\* Bytes a key sends when it is pressed (external: scan code set 1).  UP comes
\* with a shift that is none.
MakeCode ==
    [lshift |-> <<42>>, rshift |-> <<54>>, lctrl |-> <<29>>, rctrl |-> <<224, 29>>, ralt |-> <<224, 56>>,
     i |-> <<23>>, enter |-> <<28>>, tab |-> <<15>>, f1 |-> <<59>>, kp8 |-> <<72>>, delete |-> <<224, 83>>, up |-> <<224, 42, 224, 72>>, pause |-> <<225, 29, 69, 225, 157, 197>>]

\* ... and when it is released; PAUSE sends nothing then.
BreakCode(k) ==
    CASE k = "pause" -> <<>>
      [] k = "up" -> <<224, 200, 224, 170>>
      [] OTHER -> [n \in DOMAIN MakeCode[k] |-> IF MakeCode[k][n] = 224 THEN 224 ELSE MakeCode[k][n] + 128]

KeyboardInit ==
    /\ held = {}
    /\ wire = <<>>
    /\ kbd = [shift |-> 0, alt |-> 0, ctrl |-> 0, caps |-> FALSE, e0 |-> FALSE, e1 |-> 0]
    /\ input = [data |-> <<>>, at |-> 0, len |-> 0]
    /\ got = <<>>
    /\ typed = <<>>
    /\ presses = 0

-----------------------------------------------------------------------------
(* libvterm: keys to bytes.  A CSI and an SS3 count as one byte. *)

EscapeByte == 27
CSI == 155
SS3 == 143

\* Number of a set of modifiers.
ModCode(mod) ==
    (IF "shift" \in mod THEN 1 ELSE 0) + (IF "alt" \in mod THEN 2 ELSE 0) + (IF "ctrl" \in mod THEN 4 ELSE 0)

\* vterm_keyboard_unichar of a letter, of which some have no control character.
Unichar(c, modifiers) ==
    LET mod == modifiers \ {"shift"}
        csiu == c \in {91, 105, 106, 109} \/ (c \notin 92 .. 95 /\ c \notin 97 .. 122)
        byte == IF "ctrl" \in mod THEN c % 32 ELSE c
    IN  IF mod = {} THEN <<c>>
        ELSE IF csiu /\ mod # {"alt"} THEN <<CSI, c, ModCode(mod) + 1, 117>>
        ELSE IF "alt" \in mod THEN <<EscapeByte, byte>> ELSE <<byte>>

\* vterm_keyboard_key, a kind of key each
Literal(c, mod) ==
    IF mod \cap {"shift", "ctrl"} # {} THEN <<CSI, c, ModCode(mod) + 1, 117>>
    ELSE IF "alt" \in mod THEN <<EscapeByte, c>> ELSE <<c>>

TabKey(mod) ==
    IF mod = {"shift"} THEN <<CSI, 90>>
    ELSE IF "shift" \in mod THEN <<CSI, 1, ModCode(mod) + 1, 90>> ELSE Literal(9, mod)

EnterKey(mod) == IF NewLine THEN <<13, 10>> ELSE Literal(13, mod)

CsiKey(c, mod) == IF mod = {} THEN <<CSI, c>> ELSE <<CSI, 1, ModCode(mod) + 1, c>>

Ss3Key(c, mod) == IF mod = {} THEN <<SS3, c>> ELSE CsiKey(c, mod)

NumberKey(n, mod) == IF mod = {} THEN <<CSI, n, 126>> ELSE <<CSI, n, ModCode(mod) + 1, 126>>

CursorKey(c, mod) == IF CursorMode THEN Ss3Key(c, mod) ELSE CsiKey(c, mod)

KeypadKey(c, application, mod) == IF KeypadMode THEN Ss3Key(application, mod) ELSE Literal(c, mod)

\* What each key sends: the tables of both keyboard.c.
Sends(key, shift, mod) ==
    CASE key = "i" -> Unichar(IF shift THEN 73 ELSE 105, mod)
      [] key = "enter" -> EnterKey(mod)
      [] key = "tab" -> TabKey(mod)
      [] key = "f1" -> Ss3Key(80, mod)
      [] key = "kp8" -> KeypadKey(56, 120, mod)
      [] key = "up" -> CursorKey(65, mod)
      [] key = "delete" -> NumberKey(3, mod)
      [] OTHER -> <<>>

-----------------------------------------------------------------------------
(* term: scan codes to keys *)

\* The modifiers in force; caps lock counts as shift.
ModifiersOf(k) ==
    (IF k.shift # 0 \/ k.caps THEN {"shift"} ELSE {}) \cup (IF k.alt # 0 THEN {"alt"} ELSE {})
    \cup (IF k.ctrl # 0 THEN {"ctrl"} ELSE {})

\* The key in a line and column of translate_and_feed_scancode's table.
KeyAt(set, code) ==
    CASE set = 0 /\ code = 15 -> "tab" [] set = 0 /\ code = 23 -> "i" [] set = 0 /\ code = 28 -> "enter"
      [] set = 0 /\ code = 59 -> "f1" [] set = 0 /\ code = 72 -> "kp8"
      [] set = 1 /\ code = 72 -> "up" [] set = 1 /\ code = 83 -> "delete"
      [] OTHER -> "none"

KeyOf(k, set, code) == Sends(KeyAt(set, code), k.shift # 0, ModifiersOf(k))

\* translate_and_feed_scancode: a modifier changes its counter.
Counted(k, set, code) ==
    CASE set = 0 /\ code \in {42, 54} -> [k EXCEPT !.shift = @ + 1]
      [] set = 0 /\ code \in {170, 182} -> [k EXCEPT !.shift = @ - 1]
      [] set = 0 /\ code = 186 -> [k EXCEPT !.caps = ~@]
      [] set \in {0, 1} /\ code = 56 -> [k EXCEPT !.alt = @ + 1]
      [] set \in {0, 1} /\ code = 184 -> [k EXCEPT !.alt = @ - 1]
      [] set \in {0, 1} /\ code = 29 -> [k EXCEPT !.ctrl = @ + 1]
      [] set \in {0, 1} /\ code = 157 -> [k EXCEPT !.ctrl = @ - 1]
      [] OTHER -> k

\* Mutant: what has been read is delivered once more.
UnreadFromStart(buffer) == SubSeq(buffer.data, 1, buffer.len)

\* input_buffer_current
Unread(buffer) == SubSeq(buffer.data, buffer.at + 1, buffer.at + buffer.len)

\* vterm_output_callback: a new buffer with the old rest in front.
OutputCallback(buffer, bytes) ==
    [data |-> Unread(buffer) \o bytes, at |-> 0, len |-> buffer.len + Len(bytes)]

\* One code: modifier or key, never both.
Feed(k, set, code) ==
    /\ kbd' = Counted(k, set, code)
    /\ input' = IF KeyOf(k, set, code) = <<>> THEN input ELSE OutputCallback(input, KeyOf(k, set, code))

Swallow(k) == kbd' = k /\ UNCHANGED input

\* kbd_handle_input of the byte that waits, for one interrupt.
HandleInput ==
    /\ wire # <<>>
    /\ wire' = Tail(wire)
    /\ LET code == Head(wire) IN
       IF kbd.e0 THEN IF code \in {42, 54} THEN Swallow([kbd EXCEPT !.e0 = FALSE])
                      ELSE Feed([kbd EXCEPT !.e0 = FALSE], 1, code)
       ELSE IF kbd.e1 = 2 THEN Feed([kbd EXCEPT !.e1 = 0], 2, code)
       ELSE IF kbd.e1 = 1 THEN Swallow([kbd EXCEPT !.e1 = 2])
       ELSE IF code = 224 THEN Swallow([kbd EXCEPT !.e0 = TRUE])
       ELSE IF code = 225 THEN Swallow([kbd EXCEPT !.e1 = 1])
       ELSE Feed(kbd, 0, code)
    /\ UNCHANGED <<held, got, typed, presses>>

\* read_lfos: kbd_read has taken all interrupts that were there.
Read ==
    /\ wire = <<>>
    /\ input.len > 0
    /\ \E len \in ReadSizes :
         LET n == IF len > input.len THEN input.len ELSE len IN
         /\ got' = got \o SubSeq(input.data, input.at + 1, input.at + n)
         /\ input' = [input EXCEPT !.at = @ + n, !.len = @ - n]
    /\ UNCHANGED <<held, wire, kbd, typed, presses>>

\* What a key stands for with the keys that are down.
Meaning(k) ==
    LET shift == held \cap {"lshift", "rshift"} # {}
        mod == (IF shift THEN {"shift"} ELSE {}) \cup (IF "ralt" \in held THEN {"alt"} ELSE {})
               \cup (IF held \cap {"lctrl", "rctrl"} # {} THEN {"ctrl"} ELSE {})
    IN  Sends(k, shift, mod)

\* A user presses and releases keys (external).
Press ==
    /\ presses < MaxPresses
    /\ \E k \in Keys \ held :
         /\ held' = held \cup {k}
         /\ wire' = wire \o MakeCode[k]
         /\ typed' = typed \o Meaning(k)
    /\ presses' = presses + 1
    /\ UNCHANGED <<kbd, input, got>>

Release ==
    /\ \E k \in held :
         /\ held' = held \ {k}
         /\ wire' = wire \o BreakCode(k)
    /\ UNCHANGED <<kbd, input, got, typed, presses>>

KeyboardStep == HandleInput \/ Read \/ Press \/ Release

-----------------------------------------------------------------------------
(* Properties *)

\* Programs read what was typed, every byte once and in order, with the
\* modifiers that were down when the key was pressed, however reads are cut
\* and however late the interrupts are handled.
InputAsTyped ==
    wire = <<>> => got \o SubSeq(input.data, input.at + 1, input.at + input.len) = typed

=============================================================================
