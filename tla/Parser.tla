-------------------------------- MODULE Parser -------------------------------
(****************************************************************************)
(* libvterm's input parser (src/parser.c) with the UTF-8 decoder            *)
(* (src/encoding.c) behind it: bytes a program writes become text,          *)
(* controls, escapes, control sequences and strings.  A byte is a number.   *)
(*                                                                          *)
(* vterm_input_write hands over the part of a string it has at the end of   *)
(* every write; the receiver collects the parts, as request_status_string   *)
(* (src/state.c) does with the first bytes.                                *)
(****************************************************************************)
EXTENDS Integers, Sequences, SequencesExt

CONSTANTS
    Bytes,      \* bytes that are written
    MaxChunk,   \* bound: bytes of one write
    KeptBytes,  \* bytes of a string the receiver keeps (3 for DECRQSS)
    CsiArgsMax, \* CSI_ARGS_MAX: room for arguments (16)
    MaxParts    \* bound: bytes of each other part of a sequence

ASSUME ParserAssumption ==
    Bytes \subseteq 0 .. 255 /\ {MaxChunk, KeptBytes, MaxParts} \subseteq Nat /\ CsiArgsMax \in Nat \ {0}

VARIABLES
    whole,    \* parser that gets every write as it is
    single,   \* parser that gets the same bytes one by one
    agree,    \* have both reported the same so far?
    clean,    \* has nothing been written that they may tell apart?
    torn      \* has a write ended inside a character behind ASCII text?

parserVars == <<whole, single, agree, clean, torn>>

NUL == 0
BEL == 7
CAN == 24
SUB == 26
ESC == 27
DEL == 127
Digits == 48 .. 57
Semicolon == 59
Colon == 58
Leaders == 60 .. 63
Intermediates == 32 .. 47
Finals == 64 .. 126
ST == 156

CsiStates == {"CSI_LEADER", "CSI_ARGS", "CSI_INTERMED"}
StringStates == {"OSC", "DCS", "APC", "PM", "SOS"}
InString(p) == p.st \in StringStates \cup {"OSC_COMMAND"}

NoDecoder == [left |-> 0, total |-> 0, cp |-> 0]
NoValue == -1

\* parser of struct VTerm.  part: what has been read since string_start,
\* while that is set; enc: decoder of the run of text that is being read;
\* wild: what is behind the arguments, the callbacks, has been overwritten.
NewParser ==
    [st |-> "NORMAL", inEsc |-> FALSE, intermed |-> <<>>, leader |-> <<>>, args |-> <<>>,
     osc |-> -1, dcs |-> <<>>, initial |-> FALSE, started |-> FALSE, part |-> <<>>,
     kept |-> <<>>, enc |-> "", dec |-> [gl |-> NoDecoder, utf8 |-> NoDecoder], wild |-> FALSE,
     events |-> <<>>]

ParserInit ==
    /\ whole = NewParser
    /\ single = NewParser
    /\ agree = TRUE
    /\ clean = TRUE
    /\ torn = FALSE

Report(p, e) == [p EXCEPT !.events = Append(@, e)]

Enter(p, st) == [p EXCEPT !.st = st, !.started = FALSE, !.part = <<>>]

\* string_start = the byte behind this one.
StartString(p) == [p EXCEPT !.started = TRUE, !.part = <<>>]

\* This byte belongs to the string that has been started.
Keep(p, c) == IF p.started THEN [p EXCEPT !.part = Append(@, c)] ELSE p

\* string_fragment; the receiver keeps the first bytes, from the first fragment on.
StringFragment(p, str, final) ==
    LET all == (IF p.initial THEN <<>> ELSE p.kept) \o str
        kept == SubSeq(all, 1, IF Len(all) < KeptBytes THEN Len(all) ELSE KeptBytes)
        told == [p EXCEPT !.kept = kept, !.initial = FALSE]
    IN  IF p.st \notin StringStates THEN [p EXCEPT !.initial = FALSE]
        ELSE IF final THEN Report(told, <<p.st, kept, IF p.st = "OSC" THEN <<p.osc>> ELSE p.dcs>>)
        ELSE told

-----------------------------------------------------------------------------
(* Text *)

\* Bytes of a sequence that starts with c, and its first bits.
LeadBytes(c) ==
    IF c < 224 THEN 2 ELSE IF c < 240 THEN 3 ELSE IF c < 248 THEN 4 ELSE IF c < 252 THEN 5 ELSE 6

LeadBits(c) == c % (2 ^ (7 - LeadBytes(c)))

Invalid == 65533

\* Not the shortest form, or not a character.
Checked(cp, total) ==
    LET least == <<0, 128, 2048, 65536, 2097152, 67108864>>
    IN  IF cp < least[total] \/ cp \in 55296 .. 57343 \cup {65534, 65535} THEN Invalid ELSE cp

\* decode_utf8 of one byte that is neither C0 nor DEL: [dec, out].
Decode(d, c) ==
    LET broken == IF d.left > 0 THEN <<Invalid>> ELSE <<>>
        cp == d.cp * 64 + (c % 64)
    IN  IF c < 128 THEN [dec |-> [d EXCEPT !.left = 0], out |-> Append(broken, c)]
        ELSE IF (c < 192 /\ d.left = 0) \/ c >= 254 THEN [dec |-> d, out |-> <<Invalid>>]
        ELSE IF c < 192
        THEN [dec |-> [d EXCEPT !.left = @ - 1, !.cp = cp],
              out |-> IF d.left = 1 THEN <<Checked(cp, d.total)>> ELSE <<>>]
        ELSE [dec |-> [left |-> LeadBytes(c) - 1, total |-> LeadBytes(c), cp |-> LeadBits(c)],
              out |-> broken]

\* on_text eats all bytes up to a control; the first one says which decoder is
\* used.  In UTF-8 mode the one for bytes below 128 is a UTF-8 decoder too.
TextByte(p, c) ==
    LET enc == IF p.enc # "" THEN p.enc ELSE IF c < 128 THEN "gl" ELSE "utf8"
        d == Decode(p.dec[enc], c)
    IN  [p EXCEPT !.enc = enc, !.dec[enc] = d.dec, !.events = @ \o [i \in DOMAIN d.out |-> <<"text", d.out[i]>>]]

-----------------------------------------------------------------------------
(* Sequences *)

\* The first characters of C1, which start something; all others are controls.
C1(p, c) ==
    CASE c = 144 -> Enter([p EXCEPT !.initial = TRUE, !.dcs = <<>>], "DCS_COMMAND")
      [] c = 152 -> StartString(Enter([p EXCEPT !.initial = TRUE], "SOS"))
      [] c = 155 -> Enter([p EXCEPT !.leader = <<>>], "CSI_LEADER")
      [] c = 157 -> Enter([p EXCEPT !.initial = TRUE, !.osc = -1], "OSC_COMMAND")
      [] c = 158 -> StartString(Enter([p EXCEPT !.initial = TRUE], "PM"))
      [] c = 159 -> StartString(Enter([p EXCEPT !.initial = TRUE], "APC"))
      [] OTHER   -> Report(p, <<"control", c>>)

CsiIntermed(p, c) ==
    IF c \in Intermediates THEN [p EXCEPT !.intermed = Append(@, c)]
    ELSE IF c \in Finals THEN Enter(Report(p, <<"csi", p.leader, p.args, p.intermed, c>>), "NORMAL")
    ELSE Enter(p, "NORMAL")

\* Arguments are numbers, whether more belongs to them, or missing.  Nothing
\* keeps one more from being begun behind the last there is room for.
CsiArgs(p, c) ==
    LET n == Len(p.args) IN
    IF c \in Digits
    THEN [p EXCEPT !.args[n].value = (IF @ = NoValue THEN 0 ELSE @ * 10) + c - 48]
    ELSE IF c \in {Colon, Semicolon}
    THEN IF n = CsiArgsMax THEN [p EXCEPT !.wild = TRUE]
         ELSE [p EXCEPT !.args = Append([@ EXCEPT ![n].more = (c = Colon)], [value |-> NoValue, more |-> FALSE])]
    ELSE CsiIntermed([p EXCEPT !.st = "CSI_INTERMED", !.intermed = <<>>], c)

CsiLeader(p, c) ==
    IF c \in Leaders THEN [p EXCEPT !.leader = Append(@, c)]
    ELSE CsiArgs([p EXCEPT !.st = "CSI_ARGS", !.args = << [value |-> NoValue, more |-> FALSE] >>], c)

\* A string ends with BEL or ST.
InStringState(p, c, st) ==
    IF c = BEL \/ (st /\ c = ST) THEN Enter(StringFragment(p, p.part, TRUE), "NORMAL") ELSE Keep(p, c)

OscCommand(p, c, st) ==
    IF c \in Digits THEN [Keep(p, c) EXCEPT !.osc = (IF @ = -1 THEN 0 ELSE @ * 10) + c - 48]
    ELSE IF c = Semicolon THEN StartString([p EXCEPT !.st = "OSC"])
    ELSE InStringState(StartString([p EXCEPT !.st = "OSC"]), c, st)

DcsCommand(p, c) ==
    LET q == [p EXCEPT !.dcs = Append(@, c)]
    IN  IF c \in Finals THEN StartString([q EXCEPT !.st = "DCS"]) ELSE Keep(q, c)

Escape(p, c) ==
    IF c \in Intermediates THEN [p EXCEPT !.intermed = Append(@, c)]
    ELSE IF c \in 48 .. 126
    THEN Enter([Report(p, <<"escape", p.intermed, c>>) EXCEPT !.inEsc = FALSE], "NORMAL")
    ELSE p

\* The switch over the state of the parser; c1: is this byte one of C1?
InState(p, c, c1) ==
    CASE p.st = "CSI_LEADER"   -> CsiLeader(p, c)
      [] p.st = "CSI_ARGS"     -> CsiArgs(p, c)
      [] p.st = "CSI_INTERMED" -> CsiIntermed(p, c)
      [] p.st = "OSC_COMMAND"  -> OscCommand(p, c, c1)
      [] p.st = "DCS_COMMAND"  -> DcsCommand(p, c)
      [] p.st \in StringStates -> InStringState(p, c, c1)
      [] p.st = "NORMAL"       -> IF p.inEsc THEN Escape(p, c) ELSE IF c1 THEN C1(p, c) ELSE TextByte(p, c)

\* The byte behind an ESC: a letter stands for a C1, in a string only ST does;
\* everything else ends a string.
AfterEscape(p, c) ==
    IF p.intermed = <<>> /\ c \in 64 .. 95 /\ (~InString(p) \/ c = 92)
    THEN InState([p EXCEPT !.inEsc = FALSE, !.part = IF @ = <<>> THEN @ ELSE Front(@)], c + 64, TRUE)
    ELSE InState(Enter(p, "NORMAL"), c, FALSE)

\* One round of vterm_input_write's loop (UTF-8 mode, emit_nul off).
Byte(r, c) ==
    LET p == IF c < 32 \/ c = DEL THEN [r EXCEPT !.enc = ""] ELSE r
        told == IF InString(p) THEN StringFragment(p, p.part, FALSE) ELSE p
    IN  IF r.wild THEN r
        ELSE CASE c \in {NUL, DEL} -> IF InString(p) THEN StartString(told) ELSE p
               [] c \in {CAN, SUB} -> [Enter(p, "NORMAL") EXCEPT !.inEsc = FALSE]
               [] c = ESC -> [Keep(p, c) EXCEPT !.intermed = <<>>, !.inEsc = TRUE,
                                                !.st = IF InString(p) THEN @ ELSE "NORMAL"]
               [] c < 32 /\ c \notin {NUL, CAN, SUB, ESC} /\ ~(c = BEL /\ InString(p)) ->
                     IF p.st = "SOS" THEN Keep(p, c)
                     ELSE IF InString(p) THEN StartString(Report(told, <<"control", c>>))
                     ELSE Report(p, <<"control", c>>)
               [] OTHER -> IF p.inEsc THEN AfterEscape(p, c) ELSE InState(p, c, FALSE)

\* Mutant: an ESC at the end of a write is taken for part of the string.
PartWithEscape(p) == p.part

\* What the rest of a string is at the end of a write.
PartAtEnd(p) == IF p.inEsc /\ p.part # <<>> THEN Front(p.part) ELSE p.part

\* What is set again before it is read is forgotten.
Forget(p) ==
    [p EXCEPT !.leader = IF p.st \in CsiStates THEN @ ELSE <<>>,
              !.args = IF p.st \in CsiStates THEN @ ELSE <<>>,
              !.intermed = IF p.inEsc \/ p.st = "CSI_INTERMED" THEN @ ELSE <<>>,
              !.dcs = IF p.st \in {"DCS_COMMAND", "DCS"} THEN @ ELSE <<>>,
              !.osc = IF p.st \in {"OSC_COMMAND", "OSC"} THEN @ ELSE -1,
              !.kept = IF p.st \in StringStates THEN @ ELSE <<>>,
              !.initial = @ /\ (InString(p) \/ p.st = "DCS_COMMAND")]

\* vterm_input_write
InputWrite(p, bytes) ==
    LET begin == [p EXCEPT !.enc = "", !.events = <<>>, !.part = <<>>, !.started = p.st \in StringStates]
        read[i \in 0 .. Len(bytes)] == IF i = 0 THEN begin ELSE Byte(read[i - 1], bytes[i])
        end == read[Len(bytes)]
        left == IF end.started THEN StringFragment(end, PartAtEnd(end), FALSE) ELSE end
    IN  Forget([left EXCEPT !.started = FALSE, !.part = <<>>, !.enc = ""])

-----------------------------------------------------------------------------

\* What the parser that gets it byte by byte may take for something else: a
\* control inside the beginning of a sequence (between ESC and the byte that
\* belongs to it, or in the number in front of a string), and ASCII text
\* behind a character that has not been finished.
Awkward(p, c) ==
    \/ /\ c < 32 /\ c \notin {CAN, SUB}
       /\ \/ p.inEsc /\ (c # ESC \/ InString(p))
          \/ c # ESC /\ p.st = "OSC_COMMAND"
    \/ c \in 32 .. 126 /\ p.st = "NORMAL" /\ ~p.inEsc /\ p.dec.utf8.left > 0

\* A write that ended inside a character of a run of text that began with an
\* ASCII character: the rest of it is given to the other decoder.
Torn(p) == p.dec.gl.left > 0

\* Within the bounds, and numbers have one digit.
Small(p) ==
    /\ \A n \in {Len(p.leader), Len(p.intermed), Len(p.dcs)} : n <= MaxParts
    /\ \A i \in DOMAIN p.args : p.args[i].value < 10
    /\ p.osc < 10

OneByOne(a, c) ==
    LET p == InputWrite(a.p, <<c>>)
    IN  [p |-> p, out |-> a.out \o p.events, ok |-> a.ok /\ ~Awkward(a.p, c)]

\* A program writes some bytes at once; parsers that are no longer clean, that
\* disagree or that are wild are followed no further.
WriteBytes(bytes) ==
    LET one == FoldLeft(OneByOne, [p |-> single, out |-> <<>>, ok |-> TRUE], bytes)
        all == InputWrite(whole, bytes)
    IN
    /\ clean /\ agree /\ ~whole.wild
    /\ Small(all)
    /\ whole' = [all EXCEPT !.events = <<>>]
    /\ single' = [one.p EXCEPT !.events = <<>>]
    /\ agree' = (all.events = one.out)
    /\ clean' = one.ok
    /\ torn' = (torn \/ Torn(all))

ParserStep == \E n \in 1 .. MaxChunk : \E bytes \in [1 .. n -> Bytes] : WriteBytes(bytes)

-----------------------------------------------------------------------------
(* Properties *)

\* Where a write ends makes no difference (the tests "Split write", "Split
\* write of 7bit ST" and "Title split write"): escapes, control sequences with
\* their arguments, text, and strings with their first bytes are the same, as
\* long as no control is put into the beginning of a sequence, no character is
\* broken off, and no write ends inside a character behind ASCII text.
WritesMayBeSplit == clean /\ ~torn => agree

\* The same wherever writes end (the test "UTF-8 split writes").
CharactersMayBeSplit == clean => agree

\* The arguments of a sequence stay in the array that is there for them.
ArgsFit == ~whole.wild

=============================================================================
