---------------------------- MODULE TerminalProofs ---------------------------
(****************************************************************************)
(* Proofs about the parts of Terminal: the keyboard, the kernel's log and   *)
(* console, and libvterm's screen.                                          *)
(****************************************************************************)
EXTENDS Terminal, SequenceTheorems, WellFoundedInduction, TLAPS

terminalVars == <<part, parserVars, screenVars, penVars, keyboardVars, consoleVars>>

-----------------------------------------------------------------------------
(* Numbers *)

\* Induction, for sets of numbers instead of the predicates of the library.
LEMMA CountingUp ==
    ASSUME NEW S \in SUBSET Nat, 0 \in S, \A n \in S : n + 1 \in S
    PROVE  S = Nat
<1> SUFFICES ASSUME Nat \ S # {} PROVE FALSE
    OBVIOUS
<1> DEFINE less == {ss \in Nat \X Nat : ss[1] < ss[2]}
<1>1. IsWellFoundedOn(less, Nat)
    BY NatLessThanWellFounded DEF OpToRel
<1>2. PICK n \in Nat \ S : \A m \in Nat \ S : <<m, n>> \notin less
    <2>1. Nat \ S \in SUBSET Nat
        OBVIOUS
    <2> HIDE DEF less
    <2> QED BY <1>1, <2>1, WFMin
<1>3. n # 0 /\ n - 1 \in Nat /\ n - 1 \notin S
    <2>1. n # 0 /\ n - 1 \in Nat
        OBVIOUS
    <2>2. (n - 1) + 1 = n
        OBVIOUS
    <2> QED BY <2>1, <2>2
<1>4. <<n - 1, n>> \in less
    BY <1>3
<1> HIDE DEF less
<1> QED BY <1>2, <1>3, <1>4

-----------------------------------------------------------------------------
(* What the keyboard's bytes do *)

\* kbd_handle_input as a function: the static variables after a byte, ...
KbdAfter(k, code) ==
    IF k.e0 THEN IF code \in {42, 54} THEN [k EXCEPT !.e0 = FALSE]
                 ELSE Counted([k EXCEPT !.e0 = FALSE], 1, code)
    ELSE IF k.e1 = 2 THEN Counted([k EXCEPT !.e1 = 0], 2, code)
    ELSE IF k.e1 = 1 THEN [k EXCEPT !.e1 = 2]
    ELSE IF code = 224 THEN [k EXCEPT !.e0 = TRUE]
    ELSE IF code = 225 THEN [k EXCEPT !.e1 = 1]
    ELSE Counted(k, 0, code)

\* ... and what it makes of the byte for programs.
BytesOf(k, code) ==
    IF k.e0 THEN IF code \in {42, 54} THEN <<>> ELSE KeyOf([k EXCEPT !.e0 = FALSE], 1, code)
    ELSE IF k.e1 = 2 THEN KeyOf([k EXCEPT !.e1 = 0], 2, code)
    ELSE IF k.e1 = 1 \/ code \in {224, 225} THEN <<>>
    ELSE KeyOf(k, 0, code)

DecodeKey(s, code) == [kbd |-> KbdAfter(s.kbd, code), out |-> s.out \o BytesOf(s.kbd, code)]

\* From s, the bytes lead to t, one after the other.
Leads(s, bytes, t) ==
    \E q : /\ q[0] = s /\ q[Len(bytes)] = t
           /\ \A i \in 1 .. Len(bytes) : q[i] = DecodeKey(q[i - 1], bytes[i])

LEMMA LeadsNothing ==
    ASSUME NEW s
    PROVE  Leads(s, <<>>, s)
<1>1. \E q : q[0] = s /\ q[Len(<<>>)] = s
           /\ \A i \in 1 .. Len(<<>>) : q[i] = DecodeKey(q[i - 1], <<>>[i])
    <2> WITNESS [i \in {0} |-> s]
    <2> QED OBVIOUS
<1> QED BY <1>1 DEF Leads

LEMMA LeadsNowhere ==
    ASSUME NEW s, NEW t, Leads(s, <<>>, t)
    PROVE  s = t
BY DEF Leads

LEMMA LeadsFirst ==
    ASSUME NEW s, NEW t, NEW bytes \in Seq(Int), bytes # <<>>, Leads(s, bytes, t)
    PROVE  Leads(DecodeKey(s, Head(bytes)), Tail(bytes), t)
<1>1. PICK q : /\ q[0] = s /\ q[Len(bytes)] = t
               /\ \A i \in 1 .. Len(bytes) : q[i] = DecodeKey(q[i - 1], bytes[i])
    BY DEF Leads
<1>2. /\ Len(bytes) \in Nat \ {0} /\ Len(Tail(bytes)) = Len(bytes) - 1
      /\ \A i \in 1 .. Len(bytes) - 1 : Tail(bytes)[i] = bytes[i + 1]
      /\ Head(bytes) = bytes[1]
    BY HeadTailProperties
<1> DEFINE r == [i \in 0 .. Len(bytes) - 1 |-> q[i + 1]]
<1>3. r[0] = DecodeKey(s, Head(bytes)) /\ r[Len(Tail(bytes))] = t
    <2>1. r[0] = q[1] /\ q[1] = DecodeKey(q[0], bytes[1])
        BY <1>1, <1>2
    <2>2. r[Len(bytes) - 1] = q[Len(bytes)]
        BY <1>2
    <2> QED BY <1>1, <1>2, <2>1, <2>2
<1>4. ASSUME NEW i \in 1 .. Len(Tail(bytes)) PROVE r[i] = DecodeKey(r[i - 1], Tail(bytes)[i])
    <2>1. i \in 1 .. Len(bytes) - 1 /\ i + 1 \in 1 .. Len(bytes) /\ (i + 1) - 1 = i /\ (i - 1) + 1 = i
        BY <1>2
    <2>2. r[i] = q[i + 1] /\ r[i - 1] = q[i]
        BY <1>2, <2>1
    <2>3. q[i + 1] = DecodeKey(q[i], bytes[i + 1])
        BY <1>1, <2>1
    <2> QED BY <1>2, <2>1, <2>2, <2>3
<1> HIDE DEF r
<1> QED BY <1>3, <1>4 DEF Leads

LEMMA LeadsLast ==
    ASSUME NEW s, NEW t, NEW bytes \in Seq(Int), NEW code \in Int, Leads(s, bytes, t)
    PROVE  Leads(s, Append(bytes, code), DecodeKey(t, code))
<1>1. PICK q : /\ q[0] = s /\ q[Len(bytes)] = t
               /\ \A i \in 1 .. Len(bytes) : q[i] = DecodeKey(q[i - 1], bytes[i])
    BY DEF Leads
<1> DEFINE n == Len(bytes) + 1
           more == Append(bytes, code)
           r == [i \in 0 .. n |-> IF i = n THEN DecodeKey(t, code) ELSE q[i]]
<1>2. n \in Nat \ {0} /\ Len(more) = n /\ more[n] = code /\ \A i \in 1 .. n - 1 : more[i] = bytes[i]
    BY AppendProperties
<1>3. r[0] = s /\ r[n] = DecodeKey(t, code) /\ r[n - 1] = t
    BY <1>1, <1>2
<1>4. ASSUME NEW i \in 1 .. n PROVE r[i] = DecodeKey(r[i - 1], more[i])
    <2>1. CASE i = n
        BY <1>2, <1>3, <2>1
    <2>2. CASE i # n
        <3>1. i \in 1 .. Len(bytes) /\ i \in 1 .. n - 1 /\ i - 1 \in 0 .. n /\ i - 1 # n
            BY <1>2, <2>2
        <3>2. r[i] = q[i] /\ r[i - 1] = q[i - 1]
            BY <2>2, <3>1
        <3> HIDE DEF r, more
        <3> QED BY <1>1, <1>2, <3>1, <3>2
    <2> QED BY <2>1, <2>2
<1> HIDE DEF r, more
<1>5. r[0] = s /\ r[Len(more)] = DecodeKey(t, code) /\ \A i \in 1 .. Len(more) : r[i] = DecodeKey(r[i - 1], more[i])
    BY <1>2, <1>3, <1>4
<1>6. Leads(s, more, DecodeKey(t, code))
    BY <1>5 DEF Leads
<1> QED BY <1>6 DEF more
LEMMA LeadsOn ==
    ASSUME NEW s, NEW t, NEW u, NEW first \in Seq(Int), NEW next \in Seq(Int),
           Leads(s, first, t), Leads(t, next, u)
    PROVE  Leads(s, first \o next, u)
<1>1. PICK q : /\ q[0] = s /\ q[Len(first)] = t
               /\ \A i \in 1 .. Len(first) : q[i] = DecodeKey(q[i - 1], first[i])
    BY DEF Leads
<1>2. PICK p : /\ p[0] = t /\ p[Len(next)] = u
               /\ \A i \in 1 .. Len(next) : p[i] = DecodeKey(p[i - 1], next[i])
    BY DEF Leads
<1>3. PICK m \in Nat : m = Len(first)
    OBVIOUS
<1>4. PICK n \in Nat : n = Len(next)
    OBVIOUS
<1> DEFINE all == first \o next
           r == [i \in 0 .. m + n |-> IF i <= m THEN q[i] ELSE p[i - m]]
<1>5. Len(all) = m + n /\ \A i \in 1 .. m + n : all[i] = IF i <= m THEN first[i] ELSE next[i - m]
    BY <1>3, <1>4, ConcatProperties
<1>6. r[0] = s /\ r[m] = t /\ r[m + n] = u
    <2>1. CASE n = 0
        BY <1>1, <1>2, <1>3, <1>4, <2>1
    <2>2. CASE n # 0
        <3>1. (m + n) - m = n /\ ~(m + n <= m) /\ m + n \in 0 .. m + n
            BY <2>2
        <3>2. r[m + n] = p[n]
            BY <3>1
        <3> QED BY <1>1, <1>2, <1>3, <1>4, <3>2
    <2> QED BY <2>1, <2>2
<1>7. ASSUME NEW i \in 1 .. m + n PROVE r[i] = DecodeKey(r[i - 1], all[i])
    <2>1. CASE i <= m
        <3>1. i \in 1 .. m /\ i - 1 <= m /\ i - 1 \in 0 .. m + n
            BY <2>1
        <3>2. r[i] = q[i] /\ r[i - 1] = q[i - 1] /\ all[i] = first[i]
            BY <1>5, <3>1
        <3> HIDE DEF r, all
        <3> QED BY <1>1, <1>3, <3>1, <3>2
    <2>2. CASE i = m + 1
        <3>1. i - 1 = m /\ i - m = 1 /\ 1 \in 1 .. n /\ ~(i <= m)
            BY <2>2
        <3>2. r[i] = p[1] /\ all[i] = next[1]
            BY <1>5, <3>1
        <3> HIDE DEF r, all
        <3>3. p[1] = DecodeKey(p[0], next[1])
            <4>1. 1 - 1 = 0
                OBVIOUS
            <4> QED BY <1>2, <1>4, <3>1, <4>1
        <3> QED BY <1>2, <1>6, <3>1, <3>2, <3>3
    <2>3. CASE i > m + 1
        <3>1. i - m \in 1 .. n /\ (i - m) - 1 = (i - 1) - m /\ ~(i - 1 <= m) /\ i - 1 \in 0 .. m + n /\ ~(i <= m)
            BY <2>3
        <3>2. r[i] = p[i - m] /\ r[i - 1] = p[(i - 1) - m] /\ all[i] = next[i - m]
            BY <1>5, <3>1
        <3> HIDE DEF r, all
        <3>3. p[i - m] = DecodeKey(p[(i - m) - 1], next[i - m])
            BY <1>2, <1>4, <3>1
        <3> QED BY <3>1, <3>2, <3>3
    <2>4. i <= m \/ i = m + 1 \/ i > m + 1
        OBVIOUS
    <2> HIDE DEF r, all
    <2> QED BY <2>1, <2>2, <2>3, <2>4
<1> HIDE DEF r, all
<1>8. Leads(s, all, u)
    BY <1>3, <1>4, <1>5, <1>6, <1>7 DEF Leads
<1> QED BY <1>8 DEF all

\* The sequences keys send: one, two, four or six bytes.
LEMMA LeadsOne ==
    ASSUME NEW s, NEW a \in Int
    PROVE  <<a>> \in Seq(Int) /\ Leads(s, <<a>>, DecodeKey(s, a))
<1>1. <<>> \in Seq(Int) /\ Append(<<>>, a) = <<a>>
    OBVIOUS
<1>2. Leads(s, <<>>, s)
    BY LeadsNothing
<1>3. Leads(s, Append(<<>>, a), DecodeKey(s, a))
    BY <1>1, <1>2, LeadsLast
<1> QED BY <1>1, <1>3

LEMMA LeadsTwo ==
    ASSUME NEW s, NEW a \in Int, NEW b \in Int,
           NEW t1, NEW t2,
           t1 = DecodeKey(s, a), t2 = DecodeKey(t1, b)
    PROVE  <<a, b>> \in Seq(Int) /\ Leads(s, <<a, b>>, t2)
<1> DEFINE q == [i \in 0 .. 2 |-> IF i = 0 THEN s ELSE IF i = 1 THEN t1 ELSE t2]
<1>1. q[0] = s /\ q[1] = t1 /\ q[2] = t2
    OBVIOUS
<1> HIDE DEF q
<1>2. <<a, b>> \in Seq(Int)
    OBVIOUS
<1> DEFINE bytes == <<a, b>>
<1>3. Len(bytes) = 2 /\ bytes[1] = a /\ bytes[2] = b
    OBVIOUS
<1> HIDE DEF bytes
<1>4. ASSUME NEW i \in 1 .. 2 PROVE q[i] = DecodeKey(q[i - 1], bytes[i])
    <2>1. (i = 1 /\ i - 1 = 0) \/ (i = 2 /\ i - 1 = 1)
        OBVIOUS
    <2> QED BY <1>1, <1>3, <2>1
<1>5. Leads(s, bytes, t2)
    BY <1>1, <1>3, <1>4 DEF Leads
<1> QED BY <1>2, <1>5 DEF bytes

LEMMA LeadsFour ==
    ASSUME NEW s, NEW a \in Int, NEW b \in Int, NEW c \in Int, NEW d \in Int,
           NEW t1, NEW t2, NEW t3, NEW t4,
           t1 = DecodeKey(s, a), t2 = DecodeKey(t1, b), t3 = DecodeKey(t2, c), t4 = DecodeKey(t3, d)
    PROVE  <<a, b, c, d>> \in Seq(Int) /\ Leads(s, <<a, b, c, d>>, t4)
<1> DEFINE q == [i \in 0 .. 4 |-> IF i = 0 THEN s ELSE IF i = 1 THEN t1 ELSE IF i = 2 THEN t2 ELSE IF i = 3 THEN t3 ELSE t4]
<1>1. q[0] = s /\ q[1] = t1 /\ q[2] = t2 /\ q[3] = t3 /\ q[4] = t4
    OBVIOUS
<1> HIDE DEF q
<1>2. <<a, b, c, d>> \in Seq(Int)
    OBVIOUS
<1> DEFINE bytes == <<a, b, c, d>>
<1>3. Len(bytes) = 4 /\ bytes[1] = a /\ bytes[2] = b /\ bytes[3] = c /\ bytes[4] = d
    OBVIOUS
<1> HIDE DEF bytes
<1>4. ASSUME NEW i \in 1 .. 4 PROVE q[i] = DecodeKey(q[i - 1], bytes[i])
    <2>1. (i = 1 /\ i - 1 = 0) \/ (i = 2 /\ i - 1 = 1) \/ (i = 3 /\ i - 1 = 2) \/ (i = 4 /\ i - 1 = 3)
        OBVIOUS
    <2> QED BY <1>1, <1>3, <2>1
<1>5. Leads(s, bytes, t4)
    BY <1>1, <1>3, <1>4 DEF Leads
<1> QED BY <1>2, <1>5 DEF bytes

LEMMA LeadsSix ==
    ASSUME NEW s, NEW a \in Int, NEW b \in Int, NEW c \in Int, NEW d \in Int, NEW e \in Int, NEW f \in Int,
           NEW t1, NEW t2, NEW t3, NEW t4, NEW t5, NEW t6,
           t1 = DecodeKey(s, a), t2 = DecodeKey(t1, b), t3 = DecodeKey(t2, c), t4 = DecodeKey(t3, d), t5 = DecodeKey(t4, e), t6 = DecodeKey(t5, f)
    PROVE  <<a, b, c, d, e, f>> \in Seq(Int) /\ Leads(s, <<a, b, c, d, e, f>>, t6)
<1> DEFINE q == [i \in 0 .. 6 |-> IF i = 0 THEN s ELSE IF i = 1 THEN t1 ELSE IF i = 2 THEN t2 ELSE IF i = 3 THEN t3 ELSE IF i = 4 THEN t4 ELSE IF i = 5 THEN t5 ELSE t6]
<1>1. q[0] = s /\ q[1] = t1 /\ q[2] = t2 /\ q[3] = t3 /\ q[4] = t4 /\ q[5] = t5 /\ q[6] = t6
    OBVIOUS
<1> HIDE DEF q
<1>2. <<a, b, c, d, e, f>> \in Seq(Int)
    OBVIOUS
<1> DEFINE bytes == <<a, b, c, d, e, f>>
<1>3. Len(bytes) = 6 /\ bytes[1] = a /\ bytes[2] = b /\ bytes[3] = c /\ bytes[4] = d /\ bytes[5] = e /\ bytes[6] = f
    OBVIOUS
<1> HIDE DEF bytes
<1>4. ASSUME NEW i \in 1 .. 6 PROVE q[i] = DecodeKey(q[i - 1], bytes[i])
    <2>1. (i = 1 /\ i - 1 = 0) \/ (i = 2 /\ i - 1 = 1) \/ (i = 3 /\ i - 1 = 2) \/ (i = 4 /\ i - 1 = 3) \/ (i = 5 /\ i - 1 = 4) \/ (i = 6 /\ i - 1 = 5)
        OBVIOUS
    <2> QED BY <1>1, <1>3, <2>1
<1>5. Leads(s, bytes, t6)
    BY <1>1, <1>3, <1>4 DEF Leads
<1> QED BY <1>2, <1>5 DEF bytes

-----------------------------------------------------------------------------
(* Keys that are pressed and released *)

\* The static variables between two keys, after 0xE0, and within 0xE1.
Counts3(k, a, b, c) ==
    /\ DOMAIN k = {"shift", "alt", "ctrl", "caps", "e0", "e1"}
    /\ a \in Int /\ b \in Int /\ c \in Int
    /\ k.shift = a /\ k.alt = b /\ k.ctrl = c /\ ~k.caps
Between(k, a, b, c) == Counts3(k, a, b, c) /\ ~k.e0 /\ k.e1 = 0
Prefixed(k, a, b, c) == Counts3(k, a, b, c) /\ k.e0 /\ k.e1 = 0
Pausing(k, a, b, c, n) == Counts3(k, a, b, c) /\ ~k.e0 /\ k.e1 = n

\* What a key sends with those modifiers.
Spoken(key, a, b, c) ==
    Sends(key, a # 0, (IF a # 0 THEN {"shift"} ELSE {}) \cup (IF b # 0 THEN {"alt"} ELSE {})
                      \cup (IF c # 0 THEN {"ctrl"} ELSE {}))

LEMMA KeyOfSpoken ==
    ASSUME NEW k, NEW a \in Int, NEW b \in Int, NEW c \in Int, Counts3(k, a, b, c), NEW set, NEW code
    PROVE  KeyOf(k, set, code) = Spoken(KeyAt(set, code), a, b, c)
BY DEF KeyOf, Spoken, ModifiersOf, Counts3

LEMMA PlainByte ==
    ASSUME NEW k, NEW a \in Int, NEW b \in Int, NEW c \in Int, Between(k, a, b, c),
           NEW code \in Int, code \notin {224, 225}
    PROVE  /\ KbdAfter(k, code) = Counted(k, 0, code)
           /\ BytesOf(k, code) = Spoken(KeyAt(0, code), a, b, c)
<1>1. KeyOf(k, 0, code) = Spoken(KeyAt(0, code), a, b, c)
    BY KeyOfSpoken DEF Between
<1> QED BY <1>1 DEF KbdAfter, BytesOf, Between

LEMMA PrefixByte ==
    ASSUME NEW k, NEW a \in Int, NEW b \in Int, NEW c \in Int, Between(k, a, b, c)
    PROVE  Prefixed(KbdAfter(k, 224), a, b, c) /\ BytesOf(k, 224) = <<>>
BY DEF KbdAfter, BytesOf, Between, Prefixed, Counts3

LEMMA PrefixGone ==
    ASSUME NEW k, NEW a \in Int, NEW b \in Int, NEW c \in Int, Prefixed(k, a, b, c)
    PROVE  Between([k EXCEPT !.e0 = FALSE], a, b, c) /\ k.e0
BY DEF Between, Prefixed, Counts3

LEMMA PrefixedByte ==
    ASSUME NEW k, NEW a \in Int, NEW b \in Int, NEW c \in Int, Prefixed(k, a, b, c),
           NEW code \in Int, code \notin {42, 54}
    PROVE  /\ \E l : Between(l, a, b, c) /\ KbdAfter(k, code) = Counted(l, 1, code)
           /\ BytesOf(k, code) = Spoken(KeyAt(1, code), a, b, c)
<1>1. Between([k EXCEPT !.e0 = FALSE], a, b, c) /\ k.e0
    BY PrefixGone
<1>2. KeyOf([k EXCEPT !.e0 = FALSE], 1, code) = Spoken(KeyAt(1, code), a, b, c)
    BY <1>1, KeyOfSpoken DEF Between
<1> QED BY <1>1, <1>2, Zenon DEF KbdAfter, BytesOf

\* The shift that comes with a cursor key is none.
LEMMA PrefixedShift ==
    ASSUME NEW k, NEW a \in Int, NEW b \in Int, NEW c \in Int, Prefixed(k, a, b, c)
    PROVE  Between(KbdAfter(k, 42), a, b, c) /\ BytesOf(k, 42) = <<>>
BY PrefixGone DEF KbdAfter, BytesOf

LEMMA PauseFirst ==
    ASSUME NEW k, NEW a \in Int, NEW b \in Int, NEW c \in Int, Between(k, a, b, c)
    PROVE  Pausing(KbdAfter(k, 225), a, b, c, 1) /\ BytesOf(k, 225) = <<>>
BY DEF KbdAfter, BytesOf, Between, Pausing, Counts3

LEMMA PauseSecond ==
    ASSUME NEW k, NEW a \in Int, NEW b \in Int, NEW c \in Int, Pausing(k, a, b, c, 1), NEW code
    PROVE  Pausing(KbdAfter(k, code), a, b, c, 2) /\ BytesOf(k, code) = <<>>
BY DEF KbdAfter, BytesOf, Pausing, Counts3

LEMMA PauseThird ==
    ASSUME NEW k, NEW a \in Int, NEW b \in Int, NEW c \in Int, Pausing(k, a, b, c, 2), NEW code \in {69, 197}
    PROVE  Between(KbdAfter(k, code), a, b, c) /\ BytesOf(k, code) = <<>>
<1> DEFINE l == [k EXCEPT !.e1 = 0]
<1>1. Between(l, a, b, c) /\ ~k.e0 /\ k.e1 = 2
    BY DEF Between, Pausing, Counts3
<1> HIDE DEF l
<1>2. Counted(l, 2, code) = l
    BY DEF Counted
<1>3. KeyAt(2, code) = "none"
    BY DEF KeyAt
<1>4. KeyOf(l, 2, code) = <<>>
    BY <1>3 DEF KeyOf, Sends
<1> QED BY <1>1, <1>2, <1>4 DEF KbdAfter, BytesOf, l

\* The codes that count modifiers, ...
LEMMA CountedCodes ==
    ASSUME NEW k, NEW a \in Int, NEW b \in Int, NEW c \in Int, Between(k, a, b, c), NEW set \in {0, 1}
    PROVE  /\ Between(Counted(k, set, 56), a, b + 1, c)
           /\ Between(Counted(k, set, 184), a, b - 1, c)
           /\ Between(Counted(k, set, 29), a, b, c + 1)
           /\ Between(Counted(k, set, 157), a, b, c - 1)
<1> USE DEF Between, Counts3
<1>1. Counted(k, set, 56) = [k EXCEPT !.alt = @ + 1] /\ Counted(k, set, 184) = [k EXCEPT !.alt = @ - 1]
    BY DEF Counted
<1>2. Counted(k, set, 29) = [k EXCEPT !.ctrl = @ + 1] /\ Counted(k, set, 157) = [k EXCEPT !.ctrl = @ - 1]
    BY DEF Counted
<1> QED BY <1>1, <1>2

LEMMA CountedShifts ==
    ASSUME NEW k, NEW a \in Int, NEW b \in Int, NEW c \in Int, Between(k, a, b, c)
    PROVE  /\ \A code \in {42, 54} : Between(Counted(k, 0, code), a + 1, b, c)
           /\ Between(Counted(k, 0, 170), a - 1, b, c)
           /\ Between(Counted(k, 0, 182), a - 1, b, c)
<1> USE DEF Between, Counts3
<1>1. \A code \in {42, 54} : Counted(k, 0, code) = [k EXCEPT !.shift = @ + 1]
    BY DEF Counted
<1>2. Counted(k, 0, 170) = [k EXCEPT !.shift = @ - 1] /\ Counted(k, 0, 182) = [k EXCEPT !.shift = @ - 1]
    BY DEF Counted
<1> QED BY <1>1, <1>2

\* ... and those that do not.
LEMMA OtherCodes ==
    ASSUME NEW k, NEW set \in {0, 1}, NEW code \in {15, 23, 28, 59, 72, 83, 143, 151, 156, 187, 200, 211}
    PROVE  Counted(k, set, code) = k
BY DEF Counted

LEMMA QuietCodes ==
    ASSUME NEW set \in {0, 1}, NEW code \in {42, 54, 56, 29, 170, 182, 184, 157, 143, 151, 156, 187, 200, 211},
           NEW a, NEW b, NEW c
    PROVE  Spoken(KeyAt(set, code), a, b, c) = <<>>
<1>1. KeyAt(set, code) = "none"
    BY DEF KeyAt
<1> QED BY <1>1 DEF Spoken, Sends

\* From t the bytes lead between two keys again, with these modifiers.
Reaches(t, bytes, a, b, c, out) == \E u : Leads(t, bytes, u) /\ Between(u.kbd, a, b, c) /\ u.out = out

LEMMA DecodeFields ==
    ASSUME NEW s, NEW code
    PROVE  DecodeKey(s, code).kbd = KbdAfter(s.kbd, code) /\ DecodeKey(s, code).out = s.out \o BytesOf(s.kbd, code)
BY DEF DecodeKey

LEMMA DecodeQuietly ==
    ASSUME NEW s, NEW code, BytesOf(s.kbd, code) = <<>>, s.out \in Seq(Int)
    PROVE  DecodeKey(s, code).kbd = KbdAfter(s.kbd, code) /\ DecodeKey(s, code).out = s.out
<1>1. s.out \o <<>> = s.out
    BY ConcatEmptySeq
<1> QED BY <1>1, DecodeFields

\* The bytes of a key without and with 0xE0.
Alone(code) == <<code>>
WithPrefix(code) == <<224, code>>
MayBeAlone(code) == code \in Int /\ code \notin {224, 225}
MayBePrefixed(code) == code \in Int /\ code \notin {42, 54}

LEMMA PlainKey ==
    ASSUME NEW t, NEW a, NEW b, NEW c, Between(t.kbd, a, b, c), NEW code, MayBeAlone(code),
           NEW a2, NEW b2, NEW c2, Between(Counted(t.kbd, 0, code), a2, b2, c2)
    PROVE  /\ Alone(code) \in Seq(Int)
           /\ Reaches(t, Alone(code), a2, b2, c2, t.out \o Spoken(KeyAt(0, code), a, b, c))
<1> USE DEF MayBeAlone
<1>1. /\ KbdAfter(t.kbd, code) = Counted(t.kbd, 0, code)
      /\ BytesOf(t.kbd, code) = Spoken(KeyAt(0, code), a, b, c)
    <2>1. a \in Int /\ b \in Int /\ c \in Int
        BY DEF Between, Counts3
    <2> QED BY <2>1, PlainByte
<1>2. Alone(code) \in Seq(Int) /\ Leads(t, Alone(code), DecodeKey(t, code))
    BY LeadsOne DEF Alone
<1> QED BY <1>1, <1>2, DecodeFields DEF Reaches

LEMMA PrefixedKey ==
    ASSUME NEW t, NEW a, NEW b, NEW c, Between(t.kbd, a, b, c), t.out \in Seq(Int), NEW code, MayBePrefixed(code),
           NEW a2, NEW b2, NEW c2, \A k : Between(k, a, b, c) => Between(Counted(k, 1, code), a2, b2, c2)
    PROVE  /\ WithPrefix(code) \in Seq(Int)
           /\ Reaches(t, WithPrefix(code), a2, b2, c2, t.out \o Spoken(KeyAt(1, code), a, b, c))
<1> USE DEF MayBePrefixed
<1>1. a \in Int /\ b \in Int /\ c \in Int
    BY DEF Between, Counts3
<1>2. PICK t1 : t1 = DecodeKey(t, 224)
    OBVIOUS
<1>3. PICK t2 : t2 = DecodeKey(t1, code)
    OBVIOUS
<1>4. Prefixed(t1.kbd, a, b, c) /\ t1.out = t.out
    <2>1. Prefixed(KbdAfter(t.kbd, 224), a, b, c) /\ BytesOf(t.kbd, 224) = <<>>
        BY <1>1, PrefixByte
    <2> QED BY <1>2, <2>1, DecodeQuietly
<1>5. Between(t2.kbd, a2, b2, c2) /\ t2.out = t1.out \o Spoken(KeyAt(1, code), a, b, c)
    <2>1. PICK k : Between(k, a, b, c) /\ KbdAfter(t1.kbd, code) = Counted(k, 1, code)
        BY <1>1, <1>4, PrefixedByte
    <2>2. BytesOf(t1.kbd, code) = Spoken(KeyAt(1, code), a, b, c)
        BY <1>1, <1>4, PrefixedByte
    <2> QED BY <1>3, <2>1, <2>2, DecodeFields
<1>6. WithPrefix(code) \in Seq(Int) /\ Leads(t, WithPrefix(code), t2)
    BY <1>2, <1>3, LeadsTwo DEF WithPrefix
<1> QED BY <1>4, <1>5, <1>6 DEF Reaches

\* 0xE0 and the shift that is none, then 0xE0 and the key; the other way
\* round when it is released.
LEMMA CursorKeyDown ==
    ASSUME NEW t, NEW a \in Int, NEW b \in Int, NEW c \in Int, Between(t.kbd, a, b, c), t.out \in Seq(Int)
    PROVE  Reaches(t, <<224, 42, 224, 72>>, a, b, c, t.out \o Spoken("up", a, b, c))
<1>1. PICK t1 : t1 = DecodeKey(t, 224)
    OBVIOUS
<1>2. PICK t2 : t2 = DecodeKey(t1, 42)
    OBVIOUS
<1>3. PICK t3 : t3 = DecodeKey(t2, 224)
    OBVIOUS
<1>4. PICK t4 : t4 = DecodeKey(t3, 72)
    OBVIOUS
<1>5. Prefixed(t1.kbd, a, b, c) /\ t1.out = t.out
    BY <1>1, PrefixByte, DecodeQuietly
<1>6. Between(t2.kbd, a, b, c) /\ t2.out = t.out
    BY <1>2, <1>5, PrefixedShift, DecodeQuietly
<1>7. Prefixed(t3.kbd, a, b, c) /\ t3.out = t.out
    BY <1>3, <1>6, PrefixByte, DecodeQuietly
<1>8. Between(t4.kbd, a, b, c) /\ t4.out = t.out \o Spoken("up", a, b, c)
    <2>1. PICK code : code = 72
        OBVIOUS
    <2>2. code \in Int /\ code \notin {42, 54}
        BY <2>1
    <2>3. PICK old : old = t3.kbd
        OBVIOUS
    <2>4. Prefixed(old, a, b, c)
        BY <1>7, <2>3
    <2>5. PICK k : Between(k, a, b, c) /\ KbdAfter(old, code) = Counted(k, 1, code)
        BY <2>2, <2>4, PrefixedByte
    <2>6. BytesOf(old, code) = Spoken(KeyAt(1, code), a, b, c)
        BY <2>2, <2>4, PrefixedByte
    <2>7. Counted(k, 1, code) = k
        BY <2>1, OtherCodes
    <2>8. KeyAt(1, code) = "up"
        BY <2>1 DEF KeyAt
    <2>9. t4.kbd = KbdAfter(old, code) /\ t4.out = t3.out \o BytesOf(old, code)
        BY <1>4, <2>1, <2>3, DecodeFields
    <2> QED BY <1>7, <2>5, <2>6, <2>7, <2>8, <2>9
<1>9. Leads(t, <<224, 42, 224, 72>>, t4)
    BY <1>1, <1>2, <1>3, <1>4, LeadsFour
<1> QED BY <1>8, <1>9 DEF Reaches

LEMMA CursorKeyUp ==
    ASSUME NEW t, NEW a \in Int, NEW b \in Int, NEW c \in Int, Between(t.kbd, a, b, c), t.out \in Seq(Int)
    PROVE  Reaches(t, <<224, 200, 224, 170>>, a, b, c, t.out)
<1>1. PICK t1 : t1 = DecodeKey(t, 224)
    OBVIOUS
<1>2. PICK t2 : t2 = DecodeKey(t1, 200)
    OBVIOUS
<1>3. PICK t3 : t3 = DecodeKey(t2, 224)
    OBVIOUS
<1>4. PICK t4 : t4 = DecodeKey(t3, 170)
    OBVIOUS
<1>5. ASSUME NEW s, NEW u, NEW code \in {200, 170}, Prefixed(s.kbd, a, b, c), s.out = t.out, u = DecodeKey(s, code)
      PROVE  Between(u.kbd, a, b, c) /\ u.out = t.out
    <2>1. code \in Int /\ code \notin {42, 54}
        OBVIOUS
    <2>2. PICK k : Between(k, a, b, c) /\ KbdAfter(s.kbd, code) = Counted(k, 1, code)
        <3>1. Prefixed(s.kbd, a, b, c)
            BY <1>5
        <3> QED BY <2>1, <3>1, PrefixedByte
    <2>3. BytesOf(s.kbd, code) = Spoken(KeyAt(1, code), a, b, c)
        BY <1>5, <2>1, PrefixedByte
    <2>4. Counted(k, 1, code) = k
        BY DEF Counted
    <2>5. Spoken(KeyAt(1, code), a, b, c) = <<>>
        BY QuietCodes
    <2> QED BY <1>5, <2>2, <2>3, <2>4, <2>5, DecodeQuietly
<1>6. Prefixed(t1.kbd, a, b, c) /\ t1.out = t.out
    BY <1>1, PrefixByte, DecodeQuietly
<1>7. Between(t2.kbd, a, b, c) /\ t2.out = t.out
    BY <1>2, <1>5, <1>6
<1>8. Prefixed(t3.kbd, a, b, c) /\ t3.out = t.out
    BY <1>3, <1>7, PrefixByte, DecodeQuietly
<1>9. Between(t4.kbd, a, b, c) /\ t4.out = t.out
    BY <1>4, <1>5, <1>8
<1>10. Leads(t, <<224, 200, 224, 170>>, t4)
    BY <1>1, <1>2, <1>3, <1>4, LeadsFour
<1> QED BY <1>9, <1>10 DEF Reaches

LEMMA PauseKey ==
    ASSUME NEW t, NEW a \in Int, NEW b \in Int, NEW c \in Int, Between(t.kbd, a, b, c), t.out \in Seq(Int)
    PROVE  Reaches(t, <<225, 29, 69, 225, 157, 197>>, a, b, c, t.out)
<1>1. PICK t1 : t1 = DecodeKey(t, 225)
    OBVIOUS
<1>2. PICK t2 : t2 = DecodeKey(t1, 29)
    OBVIOUS
<1>3. PICK t3 : t3 = DecodeKey(t2, 69)
    OBVIOUS
<1>4. PICK t4 : t4 = DecodeKey(t3, 225)
    OBVIOUS
<1>5. PICK t5 : t5 = DecodeKey(t4, 157)
    OBVIOUS
<1>6. PICK t6 : t6 = DecodeKey(t5, 197)
    OBVIOUS
<1>7. Pausing(t1.kbd, a, b, c, 1) /\ t1.out = t.out
    BY <1>1, PauseFirst, DecodeQuietly
<1>8. Pausing(t2.kbd, a, b, c, 2) /\ t2.out = t.out
    BY <1>2, <1>7, PauseSecond, DecodeQuietly
<1>9. Between(t3.kbd, a, b, c) /\ t3.out = t.out
    BY <1>3, <1>8, PauseThird, DecodeQuietly
<1>10. Pausing(t4.kbd, a, b, c, 1) /\ t4.out = t.out
    BY <1>4, <1>9, PauseFirst, DecodeQuietly
<1>11. Pausing(t5.kbd, a, b, c, 2) /\ t5.out = t.out
    BY <1>5, <1>10, PauseSecond, DecodeQuietly
<1>12. Between(t6.kbd, a, b, c) /\ t6.out = t.out
    BY <1>6, <1>11, PauseThird, DecodeQuietly
<1>13. Leads(t, <<225, 29, 69, 225, 157, 197>>, t6)
    BY <1>1, <1>2, <1>3, <1>4, <1>5, <1>6, LeadsSix
<1> QED BY <1>12, <1>13 DEF Reaches

\* The modifiers that are down among the keys h, as keyboard.c counts them.
Down(k, h) == IF k \in h THEN 1 ELSE 0
Shifts(h) == Down("lshift", h) + Down("rshift", h)
Alts(h) == Down("ralt", h)
Ctrls(h) == Down("lctrl", h) + Down("rctrl", h)

AllKeys ==
    {"lshift", "rshift", "lctrl", "rctrl", "ralt", "i", "enter", "tab", "f1", "kp8", "delete", "up", "pause"}

LEMMA CountsOfKeys ==
    ASSUME NEW h
    PROVE  Shifts(h) \in Int /\ Alts(h) \in Int /\ Ctrls(h) \in Int
BY DEF Shifts, Alts, Ctrls, Down

LEMMA MeaningIs ==
    ASSUME NEW k
    PROVE  Meaning(k) = Spoken(k, Shifts(held), Alts(held), Ctrls(held))
<1>1. held \cap {"lshift", "rshift"} # {} <=> Shifts(held) # 0
    BY DEF Shifts, Down
<1>2. "ralt" \in held <=> Alts(held) # 0
    BY DEF Alts, Down
<1>3. held \cap {"lctrl", "rctrl"} # {} <=> Ctrls(held) # 0
    BY DEF Ctrls, Down
<1> QED BY <1>1, <1>2, <1>3, Zenon DEF Meaning, Spoken

\* What a key sends are bytes.
LEMMA SendsBytes ==
    ASSUME NEW key, NEW shift, NEW mods
    PROVE  Sends(key, shift, mods) \in Seq(Int)
<1>1. ASSUME NEW mod PROVE ModCode(mod) \in Int
    BY DEF ModCode
<1>2. EscapeByte \in Int /\ CSI \in Int /\ SS3 \in Int
    BY DEF EscapeByte, CSI, SS3
<1>3. ASSUME NEW mod, NEW x \in Int PROVE Literal(x, mod) \in Seq(Int)
    BY <1>1, <1>2 DEF Literal
<1>4. ASSUME NEW mod, NEW x \in Int PROVE Unichar(x, mod) \in Seq(Int)
    <2> DEFINE m == mod \ {"shift"}
    <2>1. Unichar(x, mod) \in {<<x>>, <<CSI, x, ModCode(m) + 1, 117>>, <<EscapeByte, x>>, <<EscapeByte, x % 32>>, <<x % 32>>}
        BY DEF Unichar
    <2> HIDE DEF m
    <2>2. ModCode(m) + 1 \in Int /\ x % 32 \in Int
        BY <1>1
    <2>3. ASSUME NEW y \in Int, NEW z \in Int, NEW e \in Int, NEW d \in Int
          PROVE  {<<x>>, <<d, x, z, 117>>, <<e, x>>, <<e, y>>, <<y>>} \subseteq Seq(Int)
        OBVIOUS
    <2>4. {<<x>>, <<CSI, x, ModCode(m) + 1, 117>>, <<EscapeByte, x>>, <<EscapeByte, x % 32>>, <<x % 32>>} \subseteq Seq(Int)
        BY <1>2, <2>2, <2>3
    <2> QED BY <2>1, <2>4, Zenon
<1>5. ASSUME NEW mod PROVE TabKey(mod) \in Seq(Int)
    BY <1>1, <1>2, <1>3 DEF TabKey
<1>6. ASSUME NEW mod PROVE EnterKey(mod) \in Seq(Int)
    BY <1>3 DEF EnterKey
<1>7. ASSUME NEW mod, NEW x \in Int PROVE CsiKey(x, mod) \in Seq(Int)
    BY <1>1, <1>2 DEF CsiKey
<1>8. ASSUME NEW mod, NEW x \in Int PROVE Ss3Key(x, mod) \in Seq(Int)
    BY <1>2, <1>7 DEF Ss3Key
<1>9. ASSUME NEW mod, NEW x \in Int PROVE NumberKey(x, mod) \in Seq(Int)
    BY <1>1, <1>2 DEF NumberKey
<1>10. ASSUME NEW mod, NEW x \in Int PROVE CursorKey(x, mod) \in Seq(Int)
    BY <1>7, <1>8 DEF CursorKey
<1>11. ASSUME NEW mod, NEW x \in Int, NEW y \in Int PROVE KeypadKey(x, y, mod) \in Seq(Int)
    BY <1>3, <1>8 DEF KeypadKey
<1>12. 3 \in Int /\ 56 \in Int /\ 65 \in Int /\ 73 \in Int /\ 80 \in Int /\ 105 \in Int /\ 120 \in Int
    OBVIOUS
<1>13. ASSUME NEW sh, NEW mod PROVE Sends(key, sh, mod) \in Seq(Int)
    <2>1. CASE key = "i"
        <3>1. Unichar(73, mod) \in Seq(Int) /\ Unichar(105, mod) \in Seq(Int)
            BY <1>4, <1>12, Zenon
        <3>2. Sends(key, sh, mod) \in {Unichar(73, mod), Unichar(105, mod)}
            BY <2>1 DEF Sends
        <3> QED BY <3>1, <3>2
    <2>2. CASE key = "enter"
        BY <1>6, <2>2 DEF Sends
    <2>3. CASE key = "tab"
        BY <1>5, <2>3 DEF Sends
    <2>4. CASE key = "f1"
        <3>1. Ss3Key(80, mod) \in Seq(Int)
            BY <1>8, <1>12, Zenon
        <3>2. Sends(key, sh, mod) = Ss3Key(80, mod)
            BY <2>4 DEF Sends
        <3> QED BY <3>1, <3>2
    <2>5. CASE key = "kp8"
        <3>1. KeypadKey(56, 120, mod) \in Seq(Int)
            BY <1>11, <1>12, Zenon
        <3>2. Sends(key, sh, mod) = KeypadKey(56, 120, mod)
            BY <2>5 DEF Sends
        <3> QED BY <3>1, <3>2
    <2>6. CASE key = "up"
        <3>1. CursorKey(65, mod) \in Seq(Int)
            BY <1>10, <1>12, Zenon
        <3>2. Sends(key, sh, mod) = CursorKey(65, mod)
            BY <2>6 DEF Sends
        <3> QED BY <3>1, <3>2
    <2>7. CASE key = "delete"
        <3>1. NumberKey(3, mod) \in Seq(Int)
            BY <1>9, <1>12, Zenon
        <3>2. Sends(key, sh, mod) = NumberKey(3, mod)
            BY <2>7 DEF Sends
        <3> QED BY <3>1, <3>2
    <2>8. CASE key \notin {"i", "enter", "tab", "f1", "kp8", "up", "delete"}
        BY <2>8 DEF Sends
    <2> QED BY <2>1, <2>2, <2>3, <2>4, <2>5, <2>6, <2>7, <2>8
<1> QED BY <1>13

\* What modifiers and PAUSE send to programs: nothing.
LEMMA SpokenNot ==
    ASSUME NEW k \in {"lshift", "rshift", "lctrl", "rctrl", "ralt", "pause"}, NEW a, NEW b, NEW c
    PROVE  Spoken(k, a, b, c) = <<>>
BY DEF Spoken, Sends

LEMMA SpokenKeys ==
    /\ KeyAt(0, 15) = "tab" /\ KeyAt(0, 23) = "i" /\ KeyAt(0, 28) = "enter" /\ KeyAt(0, 59) = "f1"
    /\ KeyAt(0, 72) = "kp8" /\ KeyAt(1, 83) = "delete"
BY DEF KeyAt

LEMMA BreakCodes ==
    /\ BreakCode("lshift") = <<170>> /\ BreakCode("rshift") = <<182>> /\ BreakCode("lctrl") = <<157>>
    /\ BreakCode("rctrl") = <<224, 157>> /\ BreakCode("ralt") = <<224, 184>> /\ BreakCode("i") = <<151>>
    /\ BreakCode("enter") = <<156>> /\ BreakCode("tab") = <<143>> /\ BreakCode("f1") = <<187>>
    /\ BreakCode("kp8") = <<200>> /\ BreakCode("delete") = <<224, 211>>
    /\ BreakCode("up") = <<224, 200, 224, 170>> /\ BreakCode("pause") = <<>>
<1>1. ASSUME NEW x \in Int, x # 224
      PROVE  [n \in DOMAIN <<x>> |-> IF <<x>>[n] = 224 THEN 224 ELSE <<x>>[n] + 128] = <<x + 128>>
    BY <1>1
<1>2. ASSUME NEW x \in Int, x # 224
      PROVE  [n \in DOMAIN <<224, x>> |-> IF <<224, x>>[n] = 224 THEN 224 ELSE <<224, x>>[n] + 128]
             = <<224, x + 128>>
    BY <1>2
<1> QED BY <1>1, <1>2 DEF BreakCode, MakeCode

\* Pressed with the keys h down, ...
LEMMA KeyPressed ==
    ASSUME NEW h, NEW k \in AllKeys, k \notin h, NEW t,
           Between(t.kbd, Shifts(h), Alts(h), Ctrls(h)), t.out \in Seq(Int)
    PROVE  /\ MakeCode[k] \in Seq(Int)
           /\ Reaches(t, MakeCode[k], Shifts(h \cup {k}), Alts(h \cup {k}), Ctrls(h \cup {k}),
                      t.out \o Spoken(k, Shifts(h), Alts(h), Ctrls(h)))
<1>1. PICK a \in Int : a = Shifts(h)
    BY CountsOfKeys
<1>2. PICK b \in Int : b = Alts(h)
    BY CountsOfKeys
<1>3. PICK c \in Int : c = Ctrls(h)
    BY CountsOfKeys
<1>4. a \in Int /\ b \in Int /\ c \in Int /\ Between(t.kbd, a, b, c)
    BY <1>1, <1>2, <1>3
<1> DEFINE Says == t.out \o Spoken(k, a, b, c)
           Goal == /\ MakeCode[k] \in Seq(Int)
                   /\ Reaches(t, MakeCode[k], Shifts(h \cup {k}), Alts(h \cup {k}), Ctrls(h \cup {k}), Says)
<1>7. k \notin {"lshift", "rshift"} => Shifts(h \cup {k}) = a
    BY <1>1 DEF Shifts, Down
<1>8. k # "ralt" => Alts(h \cup {k}) = b
    BY <1>2 DEF Alts, Down
<1>9. k \notin {"lctrl", "rctrl"} => Ctrls(h \cup {k}) = c
    BY <1>3 DEF Ctrls, Down
<1> HIDE DEF Goal, Says
<1>10. ASSUME k \in {"lshift", "rshift"} PROVE Goal
    <2>1. PICK code : code \in {42, 54} /\ MakeCode[k] = Alone(code)
        BY <1>10 DEF MakeCode, Alone
    <2>0. code \in {42, 54}
        BY <2>1
    <2>2. Shifts(h \cup {k}) = a + 1
        BY <1>1, <1>10 DEF Shifts, Down
    <2>3. Between(Counted(t.kbd, 0, code), a + 1, b, c)
        BY <1>4, <2>0, CountedShifts
    <2>4. Spoken(KeyAt(0, code), a, b, c) = <<>> /\ Spoken(k, a, b, c) = <<>>
        BY <1>10, <2>0, QuietCodes, SpokenNot
    <2>5. MakeCode[k] \in Seq(Int) /\ Reaches(t, MakeCode[k], a + 1, b, c, t.out \o Spoken(k, a, b, c))
        <3>1. MayBeAlone(code)
            BY <2>0 DEF MayBeAlone
        <3>2. Alone(code) \in Seq(Int) /\ Reaches(t, Alone(code), a + 1, b, c, t.out \o Spoken(KeyAt(0, code), a, b, c))
            BY <1>4, <2>3, <3>1, PlainKey
        <3> QED BY <2>1, <2>4, <3>2
    <2> QED BY <1>8, <1>9, <1>10, <2>2, <2>5 DEF Goal, Says
<1>11. ASSUME k = "lctrl" PROVE Goal
    <2>1. MakeCode[k] = Alone(29)
        BY <1>11 DEF MakeCode, Alone
    <2>2. Ctrls(h \cup {k}) = c + 1
        BY <1>3, <1>11 DEF Ctrls, Down
    <2>3. Between(Counted(t.kbd, 0, 29), a, b, c + 1)
        BY <1>4, CountedCodes
    <2>4. Spoken(KeyAt(0, 29), a, b, c) = <<>> /\ Spoken(k, a, b, c) = <<>>
        BY <1>11, QuietCodes, SpokenNot
    <2>5. MakeCode[k] \in Seq(Int) /\ Reaches(t, MakeCode[k], a, b, c + 1, t.out \o Spoken(k, a, b, c))
        <3>1. MayBeAlone(29)
            BY DEF MayBeAlone
        <3>2. Alone(29) \in Seq(Int) /\ Reaches(t, Alone(29), a, b, c + 1, t.out \o Spoken(KeyAt(0, 29), a, b, c))
            BY <1>4, <2>3, <3>1, PlainKey
        <3> QED BY <2>1, <2>4, <3>2
    <2> QED BY <1>7, <1>8, <1>11, <2>2, <2>5 DEF Goal, Says
<1>12. ASSUME k = "rctrl" PROVE Goal
    <2>1. MakeCode[k] = WithPrefix(29)
        BY <1>12 DEF MakeCode, WithPrefix
    <2>2. Ctrls(h \cup {k}) = c + 1
        BY <1>3, <1>12 DEF Ctrls, Down
    <2>3. \A l : Between(l, a, b, c) => Between(Counted(l, 1, 29), a, b, c + 1)
        BY <1>4, CountedCodes
    <2>4. Spoken(KeyAt(1, 29), a, b, c) = <<>> /\ Spoken(k, a, b, c) = <<>>
        BY <1>12, QuietCodes, SpokenNot
    <2>5. MakeCode[k] \in Seq(Int) /\ Reaches(t, MakeCode[k], a, b, c + 1, t.out \o Spoken(k, a, b, c))
        <3>1. MayBePrefixed(29)
            BY DEF MayBePrefixed
        <3>2. WithPrefix(29) \in Seq(Int) /\ Reaches(t, WithPrefix(29), a, b, c + 1, t.out \o Spoken(KeyAt(1, 29), a, b, c))
            BY <1>4, <2>3, <3>1, PrefixedKey
        <3> QED BY <2>1, <2>4, <3>2
    <2> QED BY <1>7, <1>8, <1>12, <2>2, <2>5 DEF Goal, Says
<1>13. ASSUME k = "ralt" PROVE Goal
    <2>1. MakeCode[k] = WithPrefix(56)
        BY <1>13 DEF MakeCode, WithPrefix
    <2>2. Alts(h \cup {k}) = b + 1
        BY <1>2, <1>13 DEF Alts, Down
    <2>3. \A l : Between(l, a, b, c) => Between(Counted(l, 1, 56), a, b + 1, c)
        BY <1>4, CountedCodes
    <2>4. Spoken(KeyAt(1, 56), a, b, c) = <<>> /\ Spoken(k, a, b, c) = <<>>
        BY <1>13, QuietCodes, SpokenNot
    <2>5. MakeCode[k] \in Seq(Int) /\ Reaches(t, MakeCode[k], a, b + 1, c, t.out \o Spoken(k, a, b, c))
        <3>1. MayBePrefixed(56)
            BY DEF MayBePrefixed
        <3>2. WithPrefix(56) \in Seq(Int) /\ Reaches(t, WithPrefix(56), a, b + 1, c, t.out \o Spoken(KeyAt(1, 56), a, b, c))
            BY <1>4, <2>3, <3>1, PrefixedKey
        <3> QED BY <2>1, <2>4, <3>2
    <2> QED BY <1>7, <1>9, <1>13, <2>2, <2>5 DEF Goal, Says
<1>14. ASSUME k \in {"i", "enter", "tab", "f1", "kp8"} PROVE Goal
    <2>1. PICK code : code \in {15, 23, 28, 59, 72} /\ MakeCode[k] = Alone(code) /\ KeyAt(0, code) = k
        BY <1>14, SpokenKeys DEF MakeCode, Alone
    <2>0. code \in {15, 23, 28, 59, 72}
        BY <2>1
    <2>2. Between(Counted(t.kbd, 0, code), a, b, c)
        BY <1>4, <2>0, OtherCodes
    <2>3. MakeCode[k] \in Seq(Int) /\ Reaches(t, MakeCode[k], a, b, c, t.out \o Spoken(k, a, b, c))
        <3>1. MayBeAlone(code)
            BY <2>0 DEF MayBeAlone
        <3>2. Alone(code) \in Seq(Int) /\ Reaches(t, Alone(code), a, b, c, t.out \o Spoken(KeyAt(0, code), a, b, c))
            BY <1>4, <2>2, <3>1, PlainKey
        <3> QED BY <2>1, <3>2
    <2> QED BY <1>7, <1>8, <1>9, <1>14, <2>2, <2>3 DEF Goal, Says
<1>15. ASSUME k = "delete" PROVE Goal
    <2>1. MakeCode[k] = WithPrefix(83) /\ KeyAt(1, 83) = k
        BY <1>15, SpokenKeys DEF MakeCode, WithPrefix
    <2>2. \A l : Between(l, a, b, c) => Between(Counted(l, 1, 83), a, b, c)
        BY OtherCodes
    <2>3. MakeCode[k] \in Seq(Int) /\ Reaches(t, MakeCode[k], a, b, c, t.out \o Spoken(k, a, b, c))
        <3>1. MayBePrefixed(83)
            BY DEF MayBePrefixed
        <3>2. WithPrefix(83) \in Seq(Int) /\ Reaches(t, WithPrefix(83), a, b, c, t.out \o Spoken(KeyAt(1, 83), a, b, c))
            BY <1>4, <2>2, <3>1, PrefixedKey
        <3> QED BY <2>1, <3>2
    <2> QED BY <1>7, <1>8, <1>9, <1>15, <2>2, <2>3 DEF Goal, Says
<1>16. ASSUME k = "up" PROVE Goal
    <2>1. MakeCode[k] = <<224, 42, 224, 72>>
        BY <1>16 DEF MakeCode
    <2>2. Reaches(t, <<224, 42, 224, 72>>, a, b, c, t.out \o Spoken(k, a, b, c))
        BY <1>4, <1>16, CursorKeyDown
    <2>3. <<224, 42, 224, 72>> \in Seq(Int)
        OBVIOUS
    <2> QED BY <1>7, <1>8, <1>9, <1>16, <2>1, <2>2, <2>3 DEF Goal, Says
<1>17. ASSUME k = "pause" PROVE Goal
    <2>1. MakeCode[k] = <<225, 29, 69, 225, 157, 197>>
        BY <1>17 DEF MakeCode
    <2>2. Reaches(t, <<225, 29, 69, 225, 157, 197>>, a, b, c, t.out)
        BY <1>4, PauseKey
    <2>3. <<225, 29, 69, 225, 157, 197>> \in Seq(Int)
        OBVIOUS
    <2>4. Says = t.out
        <3>1. Spoken(k, a, b, c) = <<>>
            BY <1>17, SpokenNot
        <3> QED BY <3>1, ConcatEmptySeq DEF Says
    <2> QED BY <1>7, <1>8, <1>9, <1>17, <2>1, <2>2, <2>3, <2>4 DEF Goal
<1>18. Goal
    BY <1>10, <1>11, <1>12, <1>13, <1>14, <1>15, <1>16, <1>17 DEF AllKeys
<1> QED BY <1>1, <1>2, <1>3, <1>18 DEF Goal, Says

\* ... and released.
LEMMA KeyReleased ==
    ASSUME NEW h, NEW k \in AllKeys, k \in h, NEW t,
           Between(t.kbd, Shifts(h), Alts(h), Ctrls(h)), t.out \in Seq(Int)
    PROVE  /\ BreakCode(k) \in Seq(Int)
           /\ Reaches(t, BreakCode(k), Shifts(h \ {k}), Alts(h \ {k}), Ctrls(h \ {k}), t.out)
<1>1. PICK a \in Int : a = Shifts(h)
    BY CountsOfKeys
<1>2. PICK b \in Int : b = Alts(h)
    BY CountsOfKeys
<1>3. PICK c \in Int : c = Ctrls(h)
    BY CountsOfKeys
<1>4. a \in Int /\ b \in Int /\ c \in Int /\ Between(t.kbd, a, b, c)
    BY <1>1, <1>2, <1>3
<1>5. t.out \o <<>> = t.out
    BY ConcatEmptySeq
<1> DEFINE Goal == /\ BreakCode(k) \in Seq(Int)
                   /\ Reaches(t, BreakCode(k), Shifts(h \ {k}), Alts(h \ {k}), Ctrls(h \ {k}), t.out)
<1>8. k \notin {"lshift", "rshift"} => Shifts(h \ {k}) = a
    BY <1>1 DEF Shifts, Down
<1>9. k # "ralt" => Alts(h \ {k}) = b
    BY <1>2 DEF Alts, Down
<1>10. k \notin {"lctrl", "rctrl"} => Ctrls(h \ {k}) = c
    BY <1>3 DEF Ctrls, Down
<1> HIDE DEF Goal
<1>11. ASSUME k \in {"lshift", "rshift"} PROVE Goal
    <2>1. PICK code : code \in {170, 182} /\ BreakCode(k) = Alone(code)
        BY <1>11, BreakCodes DEF Alone
    <2>0. code \in {170, 182}
        BY <2>1
    <2>2. Shifts(h \ {k}) = a - 1
        BY <1>1, <1>11 DEF Shifts, Down
    <2>3. Between(Counted(t.kbd, 0, code), a - 1, b, c)
        <3>1. Between(Counted(t.kbd, 0, 170), a - 1, b, c) /\ Between(Counted(t.kbd, 0, 182), a - 1, b, c)
            BY <1>4, CountedShifts
        <3>2. code = 170 \/ code = 182
            BY <2>0
        <3> QED BY <3>1, <3>2
    <2>4. BreakCode(k) \in Seq(Int) /\ Reaches(t, BreakCode(k), a - 1, b, c, t.out)
        <3>1. MayBeAlone(code)
            BY <2>0 DEF MayBeAlone
        <3>2. Alone(code) \in Seq(Int) /\ Reaches(t, Alone(code), a - 1, b, c, t.out \o Spoken(KeyAt(0, code), a, b, c))
            BY <1>4, <2>3, <3>1, PlainKey
        <3>3. Spoken(KeyAt(0, code), a, b, c) = <<>>
            BY <2>0, QuietCodes
        <3> QED BY <1>5, <2>1, <3>2, <3>3
    <2> QED BY <1>9, <1>10, <1>11, <2>2, <2>4 DEF Goal
<1>12. ASSUME k = "lctrl" PROVE Goal
    <2>1. BreakCode(k) = Alone(157)
        BY <1>12, BreakCodes DEF Alone
    <2>2. Ctrls(h \ {k}) = c - 1
        BY <1>3, <1>12 DEF Ctrls, Down
    <2>3. Between(Counted(t.kbd, 0, 157), a, b, c - 1)
        BY <1>4, CountedCodes
    <2>4. BreakCode(k) \in Seq(Int) /\ Reaches(t, BreakCode(k), a, b, c - 1, t.out)
        <3>1. MayBeAlone(157)
            BY DEF MayBeAlone
        <3>2. Alone(157) \in Seq(Int) /\ Reaches(t, Alone(157), a, b, c - 1, t.out \o Spoken(KeyAt(0, 157), a, b, c))
            BY <1>4, <2>3, <3>1, PlainKey
        <3>3. Spoken(KeyAt(0, 157), a, b, c) = <<>>
            BY QuietCodes
        <3> QED BY <1>5, <2>1, <3>2, <3>3
    <2> QED BY <1>8, <1>9, <1>12, <2>2, <2>4 DEF Goal
<1>13. ASSUME k = "rctrl" PROVE Goal
    <2>1. BreakCode(k) = WithPrefix(157)
        BY <1>13, BreakCodes DEF WithPrefix
    <2>2. Ctrls(h \ {k}) = c - 1
        BY <1>3, <1>13 DEF Ctrls, Down
    <2>3. \A l : Between(l, a, b, c) => Between(Counted(l, 1, 157), a, b, c - 1)
        BY <1>4, CountedCodes
    <2>4. BreakCode(k) \in Seq(Int) /\ Reaches(t, BreakCode(k), a, b, c - 1, t.out)
        <3>1. MayBePrefixed(157)
            BY DEF MayBePrefixed
        <3>2. WithPrefix(157) \in Seq(Int) /\ Reaches(t, WithPrefix(157), a, b, c - 1, t.out \o Spoken(KeyAt(1, 157), a, b, c))
            BY <1>4, <2>3, <3>1, PrefixedKey
        <3>3. Spoken(KeyAt(1, 157), a, b, c) = <<>>
            BY QuietCodes
        <3> QED BY <1>5, <2>1, <3>2, <3>3
    <2> QED BY <1>8, <1>9, <1>13, <2>2, <2>4 DEF Goal
<1>14. ASSUME k = "ralt" PROVE Goal
    <2>1. BreakCode(k) = WithPrefix(184)
        BY <1>14, BreakCodes DEF WithPrefix
    <2>2. Alts(h \ {k}) = b - 1
        BY <1>2, <1>14 DEF Alts, Down
    <2>3. \A l : Between(l, a, b, c) => Between(Counted(l, 1, 184), a, b - 1, c)
        BY <1>4, CountedCodes
    <2>4. BreakCode(k) \in Seq(Int) /\ Reaches(t, BreakCode(k), a, b - 1, c, t.out)
        <3>1. MayBePrefixed(184)
            BY DEF MayBePrefixed
        <3>2. WithPrefix(184) \in Seq(Int) /\ Reaches(t, WithPrefix(184), a, b - 1, c, t.out \o Spoken(KeyAt(1, 184), a, b, c))
            BY <1>4, <2>3, <3>1, PrefixedKey
        <3>3. Spoken(KeyAt(1, 184), a, b, c) = <<>>
            BY QuietCodes
        <3> QED BY <1>5, <2>1, <3>2, <3>3
    <2> QED BY <1>8, <1>10, <1>14, <2>2, <2>4 DEF Goal
<1>15. ASSUME k \in {"i", "enter", "tab", "f1", "kp8"} PROVE Goal
    <2>1. PICK code : code \in {143, 151, 156, 187, 200} /\ BreakCode(k) = Alone(code)
        BY <1>15, BreakCodes DEF Alone
    <2>0. code \in {143, 151, 156, 187, 200}
        BY <2>1
    <2>2. Between(Counted(t.kbd, 0, code), a, b, c)
        BY <1>4, <2>0, OtherCodes
    <2>3. BreakCode(k) \in Seq(Int) /\ Reaches(t, BreakCode(k), a, b, c, t.out)
        <3>1. MayBeAlone(code)
            BY <2>0 DEF MayBeAlone
        <3>2. Alone(code) \in Seq(Int) /\ Reaches(t, Alone(code), a, b, c, t.out \o Spoken(KeyAt(0, code), a, b, c))
            BY <1>4, <2>2, <3>1, PlainKey
        <3>3. Spoken(KeyAt(0, code), a, b, c) = <<>>
            BY <2>0, QuietCodes
        <3> QED BY <1>5, <2>1, <3>2, <3>3
    <2> QED BY <1>8, <1>9, <1>10, <1>15, <2>2, <2>3 DEF Goal
<1>16. ASSUME k = "delete" PROVE Goal
    <2>1. BreakCode(k) = WithPrefix(211)
        BY <1>16, BreakCodes DEF WithPrefix
    <2>2. \A l : Between(l, a, b, c) => Between(Counted(l, 1, 211), a, b, c)
        BY OtherCodes
    <2>3. BreakCode(k) \in Seq(Int) /\ Reaches(t, BreakCode(k), a, b, c, t.out)
        <3>1. MayBePrefixed(211)
            BY DEF MayBePrefixed
        <3>2. WithPrefix(211) \in Seq(Int) /\ Reaches(t, WithPrefix(211), a, b, c, t.out \o Spoken(KeyAt(1, 211), a, b, c))
            BY <1>4, <2>2, <3>1, PrefixedKey
        <3>3. Spoken(KeyAt(1, 211), a, b, c) = <<>>
            BY QuietCodes
        <3> QED BY <1>5, <2>1, <3>2, <3>3
    <2> QED BY <1>8, <1>9, <1>10, <1>16, <2>2, <2>3 DEF Goal
<1>17. ASSUME k = "up" PROVE Goal
    <2>1. BreakCode(k) = <<224, 200, 224, 170>>
        BY <1>17, BreakCodes
    <2>2. Reaches(t, <<224, 200, 224, 170>>, a, b, c, t.out)
        BY <1>4, CursorKeyUp
    <2>3. <<224, 200, 224, 170>> \in Seq(Int)
        OBVIOUS
    <2> QED BY <1>8, <1>9, <1>10, <1>17, <2>1, <2>2, <2>3 DEF Goal
<1>18. ASSUME k = "pause" PROVE Goal
    <2>1. BreakCode(k) = <<>> /\ <<>> \in Seq(Int)
        BY <1>18, BreakCodes
    <2>2. Reaches(t, <<>>, a, b, c, t.out)
        BY <1>4, LeadsNothing DEF Reaches
    <2> QED BY <1>8, <1>9, <1>10, <1>18, <2>1, <2>2 DEF Goal
<1>19. Goal
    BY <1>11, <1>12, <1>13, <1>14, <1>15, <1>16, <1>17, <1>18 DEF AllKeys
<1> QED BY <1>19 DEF Goal

-----------------------------------------------------------------------------
(* The keyboard *)

InputOK ==
    /\ input \in [data : Seq(Int), at : Nat, len : Nat]
    /\ input.at + input.len <= Len(input.data)

\* What programs have read and can read, and then what the bytes that wait
\* will be, is what was typed; then the counters are those of the keys that
\* are down.
WireIsTyped ==
    Reaches([kbd |-> kbd, out |-> got \o Unread(input)], wire,
            Shifts(held), Alts(held), Ctrls(held), typed)

KeyboardInv ==
    /\ held \subseteq AllKeys
    /\ wire \in Seq(Int) /\ got \in Seq(Int) /\ typed \in Seq(Int)
    /\ InputOK
    /\ WireIsTyped

LEMMA KeyboardInitInv == KeyboardInit => KeyboardInv
<1> SUFFICES ASSUME KeyboardInit PROVE KeyboardInv
    OBVIOUS
<1>1. InputOK /\ held = {} /\ wire = <<>> /\ got = <<>> /\ typed = <<>>
    BY DEF KeyboardInit, InputOK
<1>2. Unread(input) = <<>>
    BY SubSeqEmpty DEF Unread, KeyboardInit
<1>3. Between(kbd, 0, 0, 0)
    BY DEF KeyboardInit, Between, Counts3
<1>4. Shifts({}) = 0 /\ Alts({}) = 0 /\ Ctrls({}) = 0
    BY DEF Shifts, Alts, Ctrls, Down
<1>5. <<>> \in Seq(Int) /\ <<>> \o <<>> = <<>>
    BY ConcatEmptySeq
<1> DEFINE s == [kbd |-> kbd, out |-> got \o Unread(input)]
<1>6. s.kbd = kbd /\ s.out = <<>>
    BY <1>1, <1>2, <1>5
<1>7. Leads(s, <<>>, s)
    BY LeadsNothing
<1> HIDE DEF s
<1>8. Reaches(s, <<>>, 0, 0, 0, <<>>)
    BY <1>3, <1>6, <1>7 DEF Reaches
<1>9. WireIsTyped
    BY <1>1, <1>4, <1>8 DEF WireIsTyped, s
<1> QED BY <1>1, <1>5, <1>9 DEF KeyboardInv

LEMMA UnreadIs ==
    ASSUME NEW buffer \in [data : Seq(Int), at : Nat, len : Nat],
           buffer.at + buffer.len <= Len(buffer.data)
    PROVE  Unread(buffer) \in Seq(Int) /\ Len(Unread(buffer)) = buffer.len
<1>1. PICK d \in Seq(Int) : d = buffer.data
    OBVIOUS
<1>2. PICK m \in Nat : m = buffer.at
    OBVIOUS
<1>3. PICK n \in Nat : n = buffer.len
    OBVIOUS
<1>4. m + n <= Len(d) /\ m + 1 \in Int /\ m + n \in Int
    BY <1>1, <1>2, <1>3
<1>5. \A i \in m + 1 .. m + n : d[i] \in Int
    <2> SUFFICES ASSUME NEW i \in m + 1 .. m + n PROVE d[i] \in Int
        OBVIOUS
    <2>1. i \in 1 .. Len(d)
        BY <1>2, <1>3, <1>4
    <2> QED BY <1>1, <2>1, ElementOfSeq
<1>6. /\ SubSeq(d, m + 1, m + n) \in Seq(Int)
      /\ Len(SubSeq(d, m + 1, m + n)) = IF m + 1 <= m + n THEN (m + n) - (m + 1) + 1 ELSE 0
    BY <1>4, <1>5, SubSeqProperties
<1>7. Len(SubSeq(d, m + 1, m + n)) = n
    <2>1. (IF m + 1 <= m + n THEN (m + n) - (m + 1) + 1 ELSE 0) = n
        BY <1>2, <1>3
    <2> QED BY <1>6, <2>1
<1> QED BY <1>1, <1>2, <1>3, <1>6, <1>7 DEF Unread

\* vterm_output_callback loses nothing and puts new bytes behind the old.
LEMMA OutputIs ==
    ASSUME InputOK, NEW bytes \in Seq(Int), NEW after, after = OutputCallback(input, bytes)
    PROVE  /\ after \in [data : Seq(Int), at : Nat, len : Nat]
           /\ after.at + after.len <= Len(after.data)
           /\ Unread(after) = Unread(input) \o bytes
<1>1. PICK u \in Seq(Int) : u = Unread(input) /\ Len(u) = input.len
    BY UnreadIs DEF InputOK
<1>2. u \o bytes \in Seq(Int) /\ Len(u \o bytes) = Len(u) + Len(bytes)
    BY <1>1, ConcatProperties
<1>3. after = [data |-> u \o bytes, at |-> 0, len |-> Len(u) + Len(bytes)]
    BY <1>1 DEF OutputCallback
<1>4. Len(u) \in Nat /\ Len(bytes) \in Nat
    BY <1>1
<1>5. SubSeq(u \o bytes, 1, Len(u \o bytes)) = u \o bytes
    BY <1>2, SubSeqFull
<1>6. PICK all \in Seq(Int) : all = u \o bytes
    BY <1>2
<1>7. after.data = all /\ after.at = 0 /\ after.len = Len(all)
    BY <1>2, <1>3, <1>6
<1>8. Unread(after) = SubSeq(all, 1, Len(all))
    <2>1. 0 + 1 = 1 /\ 0 + Len(all) = Len(all)
        BY <1>6
    <2> QED BY <1>7, <2>1 DEF Unread
<1>9. after \in [data : Seq(Int), at : Nat, len : Nat]
    BY <1>2, <1>3, <1>4
<1> QED BY <1>1, <1>5, <1>6, <1>7, <1>8, <1>9

LEMMA Regrouped ==
    ASSUME NEW s \in Seq(Int), NEW t \in Seq(Int), NEW u \in Seq(Int)
    PROVE  (s \o t) \o u = s \o (t \o u)
BY ConcatAssociative

LEMMA BytesOfBytes ==
    ASSUME NEW k, NEW code
    PROVE  BytesOf(k, code) \in Seq(Int)
<1>1. ASSUME NEW l, NEW set PROVE KeyOf(l, set, code) \in Seq(Int)
    BY SendsBytes DEF KeyOf
<1>2. <<>> \in Seq(Int)
    OBVIOUS
<1> QED BY <1>1, <1>2, Zenon DEF BytesOf

LEMMA HandleInputIs ==
    ASSUME HandleInput, KeyboardInv
    PROVE  /\ kbd' = KbdAfter(kbd, Head(wire))
           /\ input' = IF BytesOf(kbd, Head(wire)) = <<>> THEN input
                       ELSE OutputCallback(input, BytesOf(kbd, Head(wire)))
<1>1. PICK code : code = Head(wire)
    OBVIOUS
<1>2. IF kbd.e0 THEN IF code \in {42, 54} THEN Swallow([kbd EXCEPT !.e0 = FALSE])
                      ELSE Feed([kbd EXCEPT !.e0 = FALSE], 1, code)
       ELSE IF kbd.e1 = 2 THEN Feed([kbd EXCEPT !.e1 = 0], 2, code)
       ELSE IF kbd.e1 = 1 THEN Swallow([kbd EXCEPT !.e1 = 2])
       ELSE IF code = 224 THEN Swallow([kbd EXCEPT !.e0 = TRUE])
       ELSE IF code = 225 THEN Swallow([kbd EXCEPT !.e1 = 1])
       ELSE Feed(kbd, 0, code)
    BY <1>1, Zenon DEF HandleInput
<1>3. ASSUME NEW k, Swallow(k), KbdAfter(kbd, code) = k, BytesOf(kbd, code) = <<>>
      PROVE  /\ kbd' = KbdAfter(kbd, code)
             /\ input' = IF BytesOf(kbd, code) = <<>> THEN input ELSE OutputCallback(input, BytesOf(kbd, code))
    BY <1>3, Zenon DEF Swallow
<1>4. ASSUME NEW k, NEW set, Feed(k, set, code), KbdAfter(kbd, code) = Counted(k, set, code),
             BytesOf(kbd, code) = KeyOf(k, set, code)
      PROVE  /\ kbd' = KbdAfter(kbd, code)
             /\ input' = IF BytesOf(kbd, code) = <<>> THEN input ELSE OutputCallback(input, BytesOf(kbd, code))
    BY <1>4, Zenon DEF Feed
<1>5. CASE kbd.e0 /\ code \in {42, 54}
    <2>1. KbdAfter(kbd, code) = [kbd EXCEPT !.e0 = FALSE] /\ BytesOf(kbd, code) = <<>>
        BY <1>5, Zenon DEF KbdAfter, BytesOf
    <2> QED BY <1>1, <1>2, <1>3, <1>5, <2>1
<1>6. CASE kbd.e0 /\ code \notin {42, 54}
    <2>1. /\ KbdAfter(kbd, code) = Counted([kbd EXCEPT !.e0 = FALSE], 1, code)
          /\ BytesOf(kbd, code) = KeyOf([kbd EXCEPT !.e0 = FALSE], 1, code)
        BY <1>6, Zenon DEF KbdAfter, BytesOf
    <2> QED BY <1>1, <1>2, <1>4, <1>6, <2>1
<1>7. CASE ~kbd.e0 /\ kbd.e1 = 2
    <2>1. /\ KbdAfter(kbd, code) = Counted([kbd EXCEPT !.e1 = 0], 2, code)
          /\ BytesOf(kbd, code) = KeyOf([kbd EXCEPT !.e1 = 0], 2, code)
        BY <1>7, Zenon DEF KbdAfter, BytesOf
    <2> QED BY <1>1, <1>2, <1>4, <1>7, <2>1
<1>8. CASE ~kbd.e0 /\ kbd.e1 = 1
    <2>1. KbdAfter(kbd, code) = [kbd EXCEPT !.e1 = 2] /\ BytesOf(kbd, code) = <<>>
        BY <1>8 DEF KbdAfter, BytesOf
    <2> QED BY <1>1, <1>2, <1>3, <1>8, <2>1
<1>9. CASE ~kbd.e0 /\ kbd.e1 \notin {1, 2} /\ code = 224
    <2>1. KbdAfter(kbd, code) = [kbd EXCEPT !.e0 = TRUE] /\ BytesOf(kbd, code) = <<>>
        BY <1>9 DEF KbdAfter, BytesOf
    <2>2. kbd.e1 # 2 /\ kbd.e1 # 1
        BY <1>9
    <2>3. Swallow([kbd EXCEPT !.e0 = TRUE])
        BY <1>2, <1>9, <2>2, Zenon
    <2> QED BY <1>1, <1>3, <2>1, <2>3, Zenon
<1>10. CASE ~kbd.e0 /\ kbd.e1 \notin {1, 2} /\ code = 225
    <2>1. KbdAfter(kbd, code) = [kbd EXCEPT !.e1 = 1] /\ BytesOf(kbd, code) = <<>>
        BY <1>10 DEF KbdAfter, BytesOf
    <2> QED BY <1>1, <1>2, <1>3, <1>10, <2>1
<1>11. CASE ~kbd.e0 /\ kbd.e1 \notin {1, 2} /\ code \notin {224, 225}
    <2>1. KbdAfter(kbd, code) = Counted(kbd, 0, code) /\ BytesOf(kbd, code) = KeyOf(kbd, 0, code)
        BY <1>11, Zenon DEF KbdAfter, BytesOf
    <2> QED BY <1>1, <1>2, <1>4, <1>11, <2>1
<1> QED BY <1>5, <1>6, <1>7, <1>8, <1>9, <1>10, <1>11

\* A byte that is handled moves from the wire to what programs can read.
LEMMA HandleInputInv ==
    ASSUME KeyboardInv, HandleInput
    PROVE  KeyboardInv'
<1> DEFINE code == Head(wire)
           bytes == BytesOf(kbd, code)
           s == [kbd |-> kbd, out |-> got \o Unread(input)]
<1>1. bytes \in Seq(Int) /\ wire \in Seq(Int) /\ wire # <<>> /\ wire' = Tail(wire) /\ Tail(wire) \in Seq(Int)
    BY BytesOfBytes, HeadTailProperties DEF HandleInput, KeyboardInv
<1>2. Unread(input) \in Seq(Int) /\ got \in Seq(Int) /\ InputOK
    BY UnreadIs DEF KeyboardInv, InputOK
<1>3. kbd' = KbdAfter(kbd, code) /\ input' = IF bytes = <<>> THEN input ELSE OutputCallback(input, bytes)
    BY HandleInputIs
<1> HIDE DEF bytes, code
<1>4. InputOK' /\ Unread(input)' = Unread(input) \o bytes
    <2>1. CASE bytes = <<>>
        <3>1. Unread(input) \o <<>> = Unread(input)
            BY <1>2, ConcatEmptySeq
        <3> QED BY <1>2, <1>3, <2>1, <3>1 DEF InputOK, Unread
    <2>2. CASE bytes # <<>>
        <3>1. /\ input' \in [data : Seq(Int), at : Nat, len : Nat]
              /\ input'.at + input'.len <= Len(input'.data)
              /\ Unread(input') = Unread(input) \o bytes
            BY <1>1, <1>2, <1>3, <2>2, OutputIs
        <3> QED BY <3>1 DEF InputOK, Unread
    <2> QED BY <2>1, <2>2
<1>5. got' = got /\ typed' = typed /\ held' = held
    BY DEF HandleInput
<1>6. (got \o Unread(input)) \o bytes = got \o (Unread(input) \o bytes)
    BY <1>1, <1>2, Regrouped
<1>7. [kbd |-> kbd', out |-> got' \o Unread(input)'] = DecodeKey(s, code)
    <2>1. s.kbd = kbd /\ s.out = got \o Unread(input)
        OBVIOUS
    <2> HIDE DEF s
    <2> QED BY <1>3, <1>4, <1>5, <1>6, <2>1 DEF DecodeKey, bytes
<1>8. WireIsTyped'
    <2>1. PICK u : Leads(s, wire, u) /\ Between(u.kbd, Shifts(held), Alts(held), Ctrls(held)) /\ u.out = typed
        BY Zenon DEF KeyboardInv, WireIsTyped, Reaches
    <2> HIDE DEF s
    <2>2. Leads(DecodeKey(s, code), Tail(wire), u)
        BY <1>1, <2>1, LeadsFirst DEF code
    <2>3. Reaches(DecodeKey(s, code), wire', Shifts(held), Alts(held), Ctrls(held), typed)
        BY <1>1, <2>1, <2>2 DEF Reaches
    <2> QED BY <1>5, <1>7, <2>3, Zenon DEF WireIsTyped
<1> QED BY <1>1, <1>4, <1>5, <1>8 DEF KeyboardInv

\* A read moves the first bytes that wait to what has been read.
LEMMA ReadInv ==
    ASSUME KeyboardInv, Read
    PROVE  KeyboardInv'
<1>1. PICK d \in Seq(Int) : d = input.data
    BY DEF KeyboardInv, InputOK
<1>2. PICK m \in Nat : m = input.at
    BY DEF KeyboardInv, InputOK
<1>3. PICK n \in Nat : n = input.len
    BY DEF KeyboardInv, InputOK
<1>4. PICK r \in Nat : /\ r <= n
                       /\ got' = got \o SubSeq(d, m + 1, m + r)
                       /\ input' = [input EXCEPT !.at = @ + r, !.len = @ - r]
    <2>1. PICK len \in ReadSizes :
              /\ got' = got \o SubSeq(d, m + 1, m + (IF len > n THEN n ELSE len))
              /\ input' = [input EXCEPT !.at = @ + (IF len > n THEN n ELSE len),
                                        !.len = @ - (IF len > n THEN n ELSE len)]
        BY <1>1, <1>2, <1>3 DEF Read
    <2>2. len \in Nat
        BY <2>1, KeyboardAssumption
    <2>3. PICK r \in Nat : r = IF len > n THEN n ELSE len
        BY <1>3, <2>2
    <2>4. r <= n
        BY <1>3, <2>2, <2>3
    <2> QED BY <2>1, <2>3, <2>4
<1>5. m \in Nat /\ n \in Nat /\ r \in Nat /\ r <= n
    BY <1>2, <1>3, <1>4
<1>6. input' = [data |-> d, at |-> m + r, len |-> n - r] /\ m + n <= Len(d)
    BY <1>1, <1>2, <1>3, <1>4 DEF KeyboardInv, InputOK
<1>7. n - r \in Nat /\ m + r \in Nat /\ (m + r) + (n - r) = m + n
    BY <1>5
<1>8. InputOK'
    BY <1>1, <1>6, <1>7 DEF InputOK
<1> DEFINE first == SubSeq(d, m + 1, m + r)
           rest == SubSeq(d, (m + r) + 1, m + n)
<1>9. Unread(input) = SubSeq(d, m + 1, m + n) /\ Unread(input)' = rest
    <2>1. Unread(input) = SubSeq(d, m + 1, m + n)
        BY <1>1, <1>2, <1>3 DEF Unread
    <2>2. input'.data = d /\ input'.at = m + r /\ input'.len = n - r
        BY <1>6
    <2> QED BY <1>7, <2>1, <2>2 DEF Unread
<1>10. first \in Seq(Int) /\ rest \in Seq(Int) /\ first \o rest = SubSeq(d, m + 1, m + n)
    <2>1. m + 1 \in 1 .. Len(d) + 1 /\ m + r \in (m + 1) - 1 .. Len(d) /\ m + n \in m + r .. Len(d)
        <3>1. PICK l \in Nat : l = Len(d)
            BY <1>1
        <3>2. m + n <= l
            BY <1>6, <3>1
        <3>3. m + 1 \in 1 .. l + 1 /\ m + r \in (m + 1) - 1 .. l /\ m + n \in m + r .. l
            BY <1>5, <3>1, <3>2
        <3> QED BY <3>1, <3>3
    <2>2. first \o rest = SubSeq(d, m + 1, m + n)
        BY <1>1, <2>1, ConcatAdjacentSubSeq
    <2>3. \A i \in m + 1 .. m + n : d[i] \in Int
        <3> SUFFICES ASSUME NEW i \in m + 1 .. m + n PROVE d[i] \in Int
            OBVIOUS
        <3>1. i \in 1 .. Len(d)
            BY <1>2, <1>3, <1>6
        <3> QED BY <1>1, <3>1, ElementOfSeq
    <2>4. first \in Seq(Int)
        <3>1. \A i \in m + 1 .. m + r : d[i] \in Int
            BY <1>5, <2>3
        <3>2. m + 1 \in Int /\ m + r \in Int
            BY <1>5
        <3> QED BY <3>1, <3>2, SubSeqProperties
    <2>5. rest \in Seq(Int)
        <3>1. \A i \in (m + r) + 1 .. m + n : d[i] \in Int
            BY <1>5, <2>3
        <3>2. (m + r) + 1 \in Int /\ m + n \in Int
            BY <1>5
        <3> QED BY <3>1, <3>2, SubSeqProperties
    <2> QED BY <2>2, <2>4, <2>5
<1> HIDE DEF first, rest
<1>11. got \in Seq(Int) /\ got' = got \o first
    BY <1>4 DEF KeyboardInv, first
<1>12. got' \in Seq(Int)
    BY <1>10, <1>11, ConcatProperties
<1>13. got' \o Unread(input)' = got \o Unread(input)
    <2>1. (got \o first) \o rest = got \o (first \o rest)
        BY <1>10, <1>11, Regrouped
    <2> QED BY <1>9, <1>10, <1>11, <2>1, Zenon
<1>14. UNCHANGED <<held, wire, kbd, typed>>
    BY DEF Read
<1>15. WireIsTyped'
    BY <1>13, <1>14, Zenon DEF KeyboardInv, WireIsTyped
<1> QED BY <1>8, <1>12, <1>14, <1>15 DEF KeyboardInv

LEMMA ReachesOn ==
    ASSUME NEW s, NEW first \in Seq(Int), NEW next \in Seq(Int), NEW u, Leads(s, first, u),
           NEW a, NEW b, NEW c, NEW out, Reaches(u, next, a, b, c, out)
    PROVE  Reaches(s, first \o next, a, b, c, out)
<1>1. PICK v : Leads(u, next, v) /\ Between(v.kbd, a, b, c) /\ v.out = out
    BY DEF Reaches
<1>2. Leads(s, first \o next, v)
    BY <1>1, LeadsOn
<1> QED BY <1>1, <1>2 DEF Reaches

\* A key that is pressed or released puts bytes behind those that wait.
LEMMA PressInv ==
    ASSUME KeyboardInv, Press
    PROVE  KeyboardInv'
<1>1. PICK k \in Keys : /\ k \notin held /\ held' = held \cup {k} /\ wire' = wire \o MakeCode[k]
                        /\ typed' = typed \o Meaning(k)
    BY DEF Press
<1>2. UNCHANGED <<kbd, input, got>>
    BY DEF Press
<1>3. k \in AllKeys
    BY <1>1, KeyboardAssumption DEF AllKeys
<1>4. wire \in Seq(Int) /\ typed \in Seq(Int) /\ got \in Seq(Int) /\ InputOK /\ held \subseteq AllKeys
    BY DEF KeyboardInv
<1> DEFINE s == [kbd |-> kbd, out |-> got \o Unread(input)]
<1>5. PICK u : Leads(s, wire, u) /\ Between(u.kbd, Shifts(held), Alts(held), Ctrls(held)) /\ u.out = typed
    BY Zenon DEF KeyboardInv, WireIsTyped, Reaches
<1> HIDE DEF s
<1>6. Meaning(k) = Spoken(k, Shifts(held), Alts(held), Ctrls(held))
    BY MeaningIs
<1>7. Meaning(k) \in Seq(Int)
    BY <1>6, SendsBytes DEF Spoken
<1>8. /\ MakeCode[k] \in Seq(Int)
      /\ Reaches(u, MakeCode[k], Shifts(held'), Alts(held'), Ctrls(held'), typed')
    BY <1>1, <1>3, <1>4, <1>5, <1>6, KeyPressed
<1>9. Reaches(s, wire', Shifts(held'), Alts(held'), Ctrls(held'), typed')
    BY <1>1, <1>4, <1>5, <1>8, ReachesOn
<1>10. WireIsTyped'
    <2>1. s = [kbd |-> kbd', out |-> got' \o Unread(input)']
        BY <1>2 DEF s, Unread
    <2> QED BY <1>9, <2>1, Zenon DEF WireIsTyped
<1>11. wire' \in Seq(Int) /\ typed' \in Seq(Int)
    BY <1>1, <1>4, <1>7, <1>8, ConcatProperties
<1>12. held' \subseteq AllKeys
    BY <1>1, <1>3, <1>4
<1>13. InputOK'
    BY <1>2, <1>4 DEF InputOK
<1> QED BY <1>2, <1>4, <1>10, <1>11, <1>12, <1>13 DEF KeyboardInv

LEMMA ReleaseInv ==
    ASSUME KeyboardInv, Release
    PROVE  KeyboardInv'
<1>1. PICK k \in held : held' = held \ {k} /\ wire' = wire \o BreakCode(k)
    BY DEF Release
<1>2. UNCHANGED <<kbd, input, got, typed>>
    BY DEF Release
<1>3. wire \in Seq(Int) /\ typed \in Seq(Int) /\ got \in Seq(Int) /\ InputOK /\ held \subseteq AllKeys
    BY DEF KeyboardInv
<1> DEFINE s == [kbd |-> kbd, out |-> got \o Unread(input)]
<1>4. PICK u : Leads(s, wire, u) /\ Between(u.kbd, Shifts(held), Alts(held), Ctrls(held)) /\ u.out = typed
    BY Zenon DEF KeyboardInv, WireIsTyped, Reaches
<1> HIDE DEF s
<1>5. /\ BreakCode(k) \in Seq(Int)
      /\ Reaches(u, BreakCode(k), Shifts(held'), Alts(held'), Ctrls(held'), typed)
    BY <1>1, <1>3, <1>4, KeyReleased
<1>6. Reaches(s, wire', Shifts(held'), Alts(held'), Ctrls(held'), typed)
    BY <1>1, <1>3, <1>4, <1>5, ReachesOn
<1>7. WireIsTyped'
    <2>1. s = [kbd |-> kbd', out |-> got' \o Unread(input)'] /\ typed' = typed
        BY <1>2 DEF s, Unread
    <2> QED BY <1>6, <2>1, Zenon DEF WireIsTyped
<1>8. wire' \in Seq(Int)
    BY <1>1, <1>3, <1>5, ConcatProperties
<1>9. held' \subseteq AllKeys
    BY <1>1, <1>3
<1>10. InputOK'
    BY <1>2, <1>3 DEF InputOK
<1> QED BY <1>2, <1>3, <1>7, <1>8, <1>9, <1>10 DEF KeyboardInv

LEMMA KeyboardAlways == TerminalSpec => []KeyboardInv
<1>1. TerminalInit => KeyboardInv
    BY KeyboardInitInv DEF TerminalInit
<1>2. KeyboardInv /\ [TerminalNext]_terminalVars => KeyboardInv'
    <2> SUFFICES ASSUME KeyboardInv, [TerminalNext]_terminalVars PROVE KeyboardInv'
        OBVIOUS
    <2>1. KeyboardStep \/ UNCHANGED keyboardVars
        BY Zenon DEF TerminalNext, terminalVars
    <2>2. CASE UNCHANGED keyboardVars
        BY <2>2, Zenon DEF keyboardVars, KeyboardInv, InputOK, WireIsTyped, Unread
    <2> QED BY <2>1, <2>2, HandleInputInv, ReadInv, PressInv, ReleaseInv DEF KeyboardStep
<1> QED BY <1>1, <1>2, PTL DEF TerminalSpec, terminalVars

\* Whatever keys are pressed and released, however late their bytes are
\* handled and however programs cut their reads: they read what was typed,
\* every byte once, in order and with the modifiers of the moment of typing.
THEOREM KeysAreRead == TerminalSpec => []InputAsTyped
<1>1. KeyboardInv => InputAsTyped
    <2> SUFFICES ASSUME KeyboardInv, wire = <<>> PROVE got \o Unread(input) = typed
        BY DEF InputAsTyped, Unread
    <2> DEFINE s == [kbd |-> kbd, out |-> got \o Unread(input)]
    <2>1. PICK u : Leads(s, wire, u) /\ u.out = typed
        BY Zenon DEF KeyboardInv, WireIsTyped, Reaches
    <2>2. s = u
        <3> HIDE DEF s
        <3> QED BY <2>1, LeadsNowhere
    <2> QED BY <2>1, <2>2
<1> QED BY <1>1, KeyboardAlways, PTL

-----------------------------------------------------------------------------
(* The kernel's log *)

Message == [id : Nat, len : Nat]

\* The bytes of a page up to every message.
Sums(page, f) ==
    f \in [0 .. Len(page) -> Nat] /\ f[0] = 0 /\ \A i \in 1 .. Len(page) : f[i] = f[i - 1] + page[i].len

LEMMA SumsAre ==
    ASSUME NEW page \in Seq(Message), NEW f, Sums(page, f)
    PROVE  PageBytes(page) = f[Len(page)]
<1> DEFINE upTo[i \in 0 .. Len(page)] == IF i = 0 THEN 0 ELSE upTo[i - 1] + page[i].len
           IsUpTo(g) == g = [i \in 0 .. Len(page) |-> IF i = 0 THEN 0 ELSE g[i - 1] + page[i].len]
<1>1. IsUpTo(f)
    <2>1. f = [i \in 0 .. Len(page) |-> f[i]]
        BY DEF Sums
    <2>2. ASSUME NEW i \in 0 .. Len(page) PROVE f[i] = IF i = 0 THEN 0 ELSE f[i - 1] + page[i].len
        BY DEF Sums
    <2> QED BY <2>1, <2>2
<1>2. upTo = CHOOSE g : IsUpTo(g)
    OBVIOUS
<1>3. IsUpTo(upTo)
    <2> HIDE DEF upTo, IsUpTo
    <2> QED BY <1>1, <1>2
<1>4. PageBytes(page) = upTo[Len(page)]
    BY DEF PageBytes
<1>5. Len(page) \in Nat
    OBVIOUS
<1>6. /\ upTo[0] = 0
      /\ \A i \in 1 .. Len(page) : upTo[i] = upTo[i - 1] + page[i].len
    <2> HIDE DEF upTo
    <2> QED BY <1>3, <1>5
<1> HIDE DEF upTo, IsUpTo
<1> DEFINE T == {n \in Nat : n <= Len(page) => upTo[n] = f[n]}
<1>7. 0 \in T
    BY <1>6 DEF Sums
<1>8. ASSUME NEW n \in T PROVE n + 1 \in T
    <2>1. n \in Nat
        OBVIOUS
    <2> SUFFICES ASSUME n + 1 <= Len(page) PROVE upTo[n + 1] = f[n + 1]
        BY <2>1
    <2>2. n + 1 \in 1 .. Len(page) /\ (n + 1) - 1 = n /\ upTo[n] = f[n]
        BY <1>5, <2>1
    <2>3. f[n + 1] = f[n] + page[n + 1].len
        BY <2>2 DEF Sums
    <2>4. upTo[n + 1] = upTo[n] + page[n + 1].len
        BY <1>6, <2>2
    <2> QED BY <2>2, <2>3, <2>4
<1> HIDE DEF T
<1>9. T = Nat
    <2>1. T \in SUBSET Nat
        BY DEF T
    <2> QED BY <1>7, <1>8, <2>1, CountingUp
<1>10. upTo[Len(page)] = f[Len(page)]
    BY <1>5, <1>9 DEF T
<1> QED BY <1>4, <1>10

LEMMA HasSums ==
    ASSUME NEW page \in Seq(Message)
    PROVE  \E f : Sums(page, f)
<1> DEFINE Up(f, n) == f \in [0 .. n -> Nat] /\ f[0] = 0 /\ \A i \in 1 .. n : f[i] = f[i - 1] + page[i].len
           T == {n \in Nat : n <= Len(page) => \E f : Up(f, n)}
<1>1. 0 \in T
    <2>1. Up([i \in 0 .. 0 |-> 0], 0)
        OBVIOUS
    <2> QED BY <2>1
<1>2. ASSUME NEW n \in T PROVE n + 1 \in T
    <2>1. n \in Nat
        OBVIOUS
    <2> SUFFICES ASSUME n + 1 <= Len(page) PROVE \E f : Up(f, n + 1)
        <3> HIDE DEF Up
        <3> QED BY <2>1
    <2>2. PICK f : Up(f, n)
        <3> HIDE DEF Up
        <3>1. n <= Len(page)
            BY <2>1
        <3> QED BY <3>1
    <2>3. page[n + 1].len \in Nat
        <3>1. n + 1 \in 1 .. Len(page)
            BY <2>1
        <3>2. page[n + 1] \in Message
            BY <3>1, ElementOfSeq
        <3> QED BY <3>2 DEF Message
    <2> DEFINE g == [i \in 0 .. n + 1 |-> IF i = n + 1 THEN f[n] + page[n + 1].len ELSE f[i]]
    <2>4. f[n] \in Nat /\ f[n] + page[n + 1].len \in Nat
        BY <2>1, <2>2, <2>3
    <2>5. g \in [0 .. n + 1 -> Nat] /\ g[0] = 0
        BY <2>1, <2>2, <2>4
    <2>6. ASSUME NEW i \in 1 .. n + 1 PROVE g[i] = g[i - 1] + page[i].len
        <3>1. CASE i = n + 1
            BY <2>1, <3>1
        <3>2. CASE i # n + 1
            <4>1. i \in 1 .. n /\ i - 1 # n + 1 /\ i - 1 \in 0 .. n + 1
                BY <2>1, <3>2
            <4> QED BY <2>2, <3>2, <4>1
        <3> QED BY <3>1, <3>2
    <2> HIDE DEF g
    <2>7. Up(g, n + 1)
        BY <2>5, <2>6
    <2> QED BY <2>7
<1> HIDE DEF T
<1>3. T = Nat
    <2>1. T \in SUBSET Nat
        BY DEF T
    <2> QED BY <1>1, <1>2, <2>1, CountingUp
<1>4. Len(page) \in Nat /\ Len(page) <= Len(page)
    OBVIOUS
<1>5. PICK f : Up(f, Len(page))
    BY <1>3, <1>4 DEF T
<1> QED BY <1>5 DEF Sums

LEMMA BytesOfPage ==
    ASSUME NEW page \in Seq(Message)
    PROVE  PageBytes(page) \in Nat
<1>1. PICK f : Sums(page, f)
    BY HasSums
<1>2. Len(page) \in 0 .. Len(page)
    OBVIOUS
<1> QED BY <1>1, <1>2, SumsAre DEF Sums

LEMMA BytesOfNone == PageBytes(<<>>) = 0
<1>1. Sums(<<>>, [i \in {0} |-> 0])
    BY DEF Sums
<1>2. <<>> \in Seq(Message)
    OBVIOUS
<1>3. PageBytes(<<>>) = [i \in {0} |-> 0][Len(<<>>)]
    BY <1>1, <1>2, SumsAre
<1> QED BY <1>3

LEMMA BytesOfAppend ==
    ASSUME NEW page \in Seq(Message), NEW m \in Message
    PROVE  PageBytes(Append(page, m)) = PageBytes(page) + m.len
<1>1. PICK f : Sums(page, f)
    BY HasSums
<1>2. PICK n \in Nat : n = Len(page)
    OBVIOUS
<1> DEFINE more == Append(page, m)
           g == [i \in 0 .. n + 1 |-> IF i = n + 1 THEN f[n] + m.len ELSE f[i]]
<1>3. more \in Seq(Message) /\ Len(more) = n + 1 /\ more[n + 1] = m /\ \A i \in 1 .. n : more[i] = page[i]
    BY <1>2, AppendProperties
<1>4. m.len \in Nat /\ f[n] \in Nat
    BY <1>1, <1>2 DEF Message, Sums
<1>5. g \in [0 .. n + 1 -> Nat] /\ g[0] = 0 /\ g[n + 1] = f[n] + m.len
    BY <1>1, <1>2, <1>4 DEF Sums
<1> HIDE DEF more
<1>6. ASSUME NEW i \in 1 .. n + 1 PROVE g[i] = g[i - 1] + more[i].len
    <2>1. CASE i = n + 1
        BY <1>2, <1>3, <2>1
    <2>2. CASE i # n + 1
        <3>1. i \in 1 .. n /\ i - 1 # n + 1 /\ i - 1 \in 0 .. n + 1
            BY <1>2, <2>2
        <3>2. f[i] = f[i - 1] + page[i].len
            BY <1>1, <1>2, <3>1 DEF Sums
        <3> QED BY <1>3, <2>2, <3>1, <3>2
    <2> QED BY <2>1, <2>2
<1> HIDE DEF g
<1>7. Sums(more, g)
    BY <1>3, <1>5, <1>6 DEF Sums
<1>8. PageBytes(more) = g[n + 1] /\ PageBytes(page) = f[n]
    BY <1>1, <1>2, <1>3, <1>7, SumsAre
<1> QED BY <1>5, <1>8 DEF more

\* f[i] is the number of the last message in page i, and f[0] that of the last
\* message before the first page.
PagesAre(pages, f) ==
    /\ pages \in Seq(Seq(Message))
    /\ f \in [0 .. Len(pages) -> Nat]
    /\ \A i \in 1 .. Len(pages) :
         /\ f[i] = f[i - 1] + Len(pages[i])
         /\ \A j \in 1 .. Len(pages[i]) : pages[i][j].id = f[i - 1] + j

\* One page of them.
PageIs(page, before, last) ==
    /\ last = before + Len(page)
    /\ \A j \in 1 .. Len(page) : page[j].id = before + j

LEMMA PagesArePages ==
    ASSUME NEW pages, NEW f
    PROVE  PagesAre(pages, f) <=> /\ pages \in Seq(Seq(Message)) /\ f \in [0 .. Len(pages) -> Nat]
                                  /\ \A i \in 1 .. Len(pages) : PageIs(pages[i], f[i - 1], f[i])
BY Zenon DEF PagesAre, PageIs

LEMMA PagesHave ==
    ASSUME NEW pages, NEW f, PagesAre(pages, f), NEW n, n = Len(pages)
    PROVE  /\ pages \in Seq(Seq(Message)) /\ f \in [0 .. n -> Nat] /\ n \in Nat
           /\ \A i \in 1 .. n : PageIs(pages[i], f[i - 1], f[i])
<1>1. pages \in Seq(Seq(Message)) /\ f \in [0 .. n -> Nat]
    BY DEF PagesAre
<1>2. n \in Nat
    BY <1>1
<1>3. \A i \in 1 .. n : PageIs(pages[i], f[i - 1], f[i])
    BY Zenon DEF PagesAre, PageIs
<1> QED BY <1>1, <1>2, <1>3

LEMMA NoPage ==
    ASSUME NEW n \in Nat
    PROVE  PageIs(<<>>, n, n)
<1>1. Len(<<>>) = 0
    OBVIOUS
<1> QED BY <1>1 DEF PageIs

LEMMA PagesMore ==
    ASSUME NEW pages, NEW f, PagesAre(pages, f), NEW n, n = Len(pages),
           NEW h, h = [i \in 0 .. n + 1 |-> IF i = n + 1 THEN f[n] ELSE f[i]]
    PROVE  PagesAre(Append(pages, <<>>), h)
<1> DEFINE more == Append(pages, <<>>)
           g == [i \in 0 .. n + 1 |-> IF i = n + 1 THEN f[n] ELSE f[i]]
<1>1. /\ pages \in Seq(Seq(Message)) /\ f \in [0 .. n -> Nat] /\ n \in Nat
      /\ \A i \in 1 .. n : PageIs(pages[i], f[i - 1], f[i])
    BY PagesHave
<1>2. <<>> \in Seq(Message)
    OBVIOUS
<1>3. more \in Seq(Seq(Message)) /\ Len(more) = n + 1 /\ more[n + 1] = <<>> /\ \A i \in 1 .. n : more[i] = pages[i]
    BY <1>1, <1>2, AppendProperties
<1> HIDE DEF more
<1>4. g \in [0 .. n + 1 -> Nat]
    <2>1. ASSUME NEW i \in 0 .. n + 1 PROVE (IF i = n + 1 THEN f[n] ELSE f[i]) \in Nat
        <3>1. n \in 0 .. n /\ (i # n + 1 => i \in 0 .. n)
            BY <1>1
        <3> QED BY <1>1, <3>1
    <2> QED BY <2>1
<1>5. ASSUME NEW i \in 1 .. n + 1 PROVE PageIs(more[i], g[i - 1], g[i])
    <2>1. CASE i = n + 1
        <3>1. g[i - 1] = f[n] /\ g[i] = f[n] /\ f[n] \in Nat
            BY <1>1, <2>1
        <3> QED BY <1>3, <2>1, <3>1, NoPage
    <2>2. CASE i # n + 1
        <3>1. i \in 1 .. n /\ i - 1 # n + 1 /\ i - 1 \in 0 .. n + 1
            BY <1>1, <2>2
        <3>2. g[i] = f[i] /\ g[i - 1] = f[i - 1] /\ more[i] = pages[i]
            BY <1>3, <2>2, <3>1
        <3> HIDE DEF g
        <3> QED BY <1>1, <3>1, <3>2
    <2> QED BY <2>1, <2>2
<1> HIDE DEF g
<1>6. PagesAre(more, g)
    BY <1>3, <1>4, <1>5, PagesArePages
<1> QED BY <1>6 DEF more, g

LEMMA PagesLess ==
    ASSUME NEW pages, NEW f, PagesAre(pages, f), NEW n, n = Len(pages), n > 0
    PROVE  /\ PagesAre(Tail(pages), [i \in 0 .. n - 1 |-> f[i + 1]]) /\ Len(Tail(pages)) = n - 1
           /\ Len(Head(pages)) = f[1] - f[0]
<1> DEFINE less == Tail(pages)
           g == [i \in 0 .. n - 1 |-> f[i + 1]]
<1>1. /\ pages \in Seq(Seq(Message)) /\ f \in [0 .. n -> Nat] /\ n \in Nat
      /\ \A i \in 1 .. n : PageIs(pages[i], f[i - 1], f[i])
    BY PagesHave
<1>2. /\ less \in Seq(Seq(Message)) /\ Len(less) = n - 1 /\ \A i \in 1 .. n - 1 : less[i] = pages[i + 1]
      /\ Head(pages) = pages[1]
    <2>1. pages # <<>>
        BY <1>1
    <2> QED BY <1>1, <2>1, HeadTailProperties
<1> HIDE DEF less
<1>3. g \in [0 .. n - 1 -> Nat]
    BY <1>1
<1>4. ASSUME NEW i \in 1 .. n - 1 PROVE PageIs(less[i], g[i - 1], g[i])
    <2>1. i + 1 \in 1 .. n /\ (i + 1) - 1 = i /\ (i - 1) + 1 = i /\ i - 1 \in 0 .. n - 1 /\ i \in 0 .. n - 1
        BY <1>1
    <2>2. g[i] = f[i + 1] /\ g[i - 1] = f[i] /\ less[i] = pages[i + 1]
        BY <1>2, <2>1
    <2>3. PageIs(pages[i + 1], f[i], f[i + 1])
        BY <1>1, <2>1
    <2> QED BY <2>2, <2>3
<1> HIDE DEF g
<1>5. PagesAre(less, g)
    BY <1>2, <1>3, <1>4, PagesArePages
<1>6. Len(Head(pages)) = f[1] - f[0]
    <2>1. 1 \in 1 .. n /\ 1 - 1 = 0 /\ f[0] \in Nat /\ f[1] \in Nat
        <3>1. 1 \in 1 .. n /\ 1 - 1 = 0 /\ 0 \in 0 .. n /\ 1 \in 0 .. n
            BY <1>1
        <3> QED BY <1>1, <3>1
    <2>2. PageIs(pages[1], f[0], f[1])
        BY <1>1, <2>1
    <2>3. Len(pages[1]) \in Nat
        <3>1. pages[1] \in Seq(Message)
            BY <1>1, <2>1, ElementOfSeq
        <3> QED BY <3>1
    <2> QED BY <1>2, <2>1, <2>2, <2>3 DEF PageIs
<1> QED BY <1>2, <1>5, <1>6 DEF less, g

LEMMA PageGets ==
    ASSUME NEW page \in Seq(Message), NEW a \in Nat, NEW b \in Nat, PageIs(page, a, b), NEW m \in Message,
           m.id = b + 1
    PROVE  Append(page, m) \in Seq(Message) /\ PageIs(Append(page, m), a, b + 1)
<1> DEFINE more == Append(page, m)
<1>1. PICK n \in Nat : n = Len(page)
    OBVIOUS
<1>2. more \in Seq(Message) /\ Len(more) = n + 1 /\ more[n + 1] = m /\ \A i \in 1 .. n : more[i] = page[i]
    BY <1>1, AppendProperties
<1> HIDE DEF more
<1>4. b = a + n /\ \A j \in 1 .. n : page[j].id = a + j
    BY <1>1 DEF PageIs
<1>5. ASSUME NEW j \in 1 .. n + 1 PROVE more[j].id = a + j
    <2>1. CASE j = n + 1
        <3>1. a + j = b + 1
            BY <1>1, <1>4, <2>1
        <3> QED BY <1>2, <2>1, <3>1
    <2>2. CASE j # n + 1
        <3>1. j \in 1 .. n
            BY <1>1, <2>2
        <3> QED BY <1>2, <1>4, <3>1
    <2> QED BY <2>1, <2>2
<1>6. b + 1 = a + (n + 1)
    BY <1>1, <1>4
<1> QED BY <1>2, <1>5, <1>6 DEF PageIs, more

LEMMA PagesGet ==
    ASSUME NEW pages, NEW f, PagesAre(pages, f), NEW n, n = Len(pages), n > 0, NEW m \in Message,
           m.id = f[n] + 1
    PROVE  PagesAre([pages EXCEPT ![n] = Append(pages[n], m)], [f EXCEPT ![n] = f[n] + 1])
<1> DEFINE new == [pages EXCEPT ![n] = Append(pages[n], m)]
           g == [f EXCEPT ![n] = f[n] + 1]
<1>1. /\ pages \in Seq(Seq(Message)) /\ f \in [0 .. n -> Nat] /\ n \in Nat
      /\ \A i \in 1 .. n : PageIs(pages[i], f[i - 1], f[i])
    BY PagesHave
<1>2. n \in 1 .. n /\ n - 1 \in 0 .. n /\ n \in 0 .. n /\ n - 1 # n
    BY <1>1
<1>3. pages[n] \in Seq(Message) /\ f[n] \in Nat /\ f[n - 1] \in Nat /\ PageIs(pages[n], f[n - 1], f[n])
    BY <1>1, <1>2, ElementOfSeq
<1>4. Append(pages[n], m) \in Seq(Message) /\ PageIs(Append(pages[n], m), f[n - 1], f[n] + 1)
    BY <1>3, PageGets
<1>5. /\ new \in Seq(Seq(Message)) /\ Len(new) = n /\ new[n] = Append(pages[n], m)
      /\ \A i \in 1 .. n : i # n => new[i] = pages[i]
    BY <1>1, <1>2, <1>4, ExceptSeq
<1> HIDE DEF new
<1>6. g \in [0 .. n -> Nat] /\ g[n] = f[n] + 1 /\ \A i \in 0 .. n : i # n => g[i] = f[i]
    BY <1>1, <1>2, <1>3
<1> HIDE DEF g
<1>7. ASSUME NEW i \in 1 .. n PROVE PageIs(new[i], g[i - 1], g[i])
    <2>1. i - 1 \in 0 .. n /\ i - 1 # n /\ i \in 0 .. n
        BY <1>1
    <2>2. CASE i = n
        BY <1>4, <1>5, <1>6, <2>1, <2>2
    <2>3. CASE i # n
        BY <1>1, <1>5, <1>6, <2>1, <2>3
    <2> QED BY <2>2, <2>3
<1>8. PagesAre(new, g)
    BY <1>5, <1>6, <1>7, PagesArePages
<1> QED BY <1>8 DEF new, g

LogFields == {"pages", "count", "wild", "logged"}

\* Only the last page can be overrun, by its last message.
InPages(pages) ==
    \A i \in 1 .. Len(pages) : Overrun(pages[i]) => i = Len(pages) /\ Last(pages[i]).len > LogPageSize

LogIs(l, f) ==
    /\ PagesAre(l.pages, f)
    /\ Len(l.pages) \in 1 .. LogMaxPages
    /\ l.logged = f[Len(l.pages)]
    /\ l.count = f[Len(l.pages)] - f[0]
    /\ InPages(l.pages)

LogOK(l) == DOMAIN l = LogFields /\ l.wild \in BOOLEAN /\ (~l.wild => \E f : LogIs(l, f))

\* A page more, and when there are too many then one less at the other end.
LEMMA AppendPageOK ==
    ASSUME NEW l, NEW f, LogIs(l, f), DOMAIN l = LogFields, l.wild \in BOOLEAN, ~Overrun(Last(l.pages)),
           NEW r, r = AppendPage(l)
    PROVE  /\ \E g : LogIs(r, g)
           /\ \A i \in 1 .. Len(r.pages) : ~Overrun(r.pages[i])
           /\ r.logged = l.logged /\ r.pages[Len(r.pages)] = <<>>
           /\ DOMAIN r = LogFields /\ r.wild = l.wild
<1>1. PICK n \in Nat : n = Len(l.pages)
    BY PagesHave DEF LogIs
<1>2. /\ l.pages \in Seq(Seq(Message)) /\ f \in [0 .. n -> Nat]
      /\ n >= 1 /\ n <= LogMaxPages /\ LogMaxPages \in Nat
    BY <1>1, PagesHave, ConsoleAssumption DEF LogIs
<1> DEFINE more == [l EXCEPT !.pages = Append(@, <<>>)]
           pages == Append(l.pages, <<>>)
           g == [i \in 0 .. n + 1 |-> IF i = n + 1 THEN f[n] ELSE f[i]]
<1>3. PagesAre(pages, g)
    <2>1. PagesAre(l.pages, f)
        BY DEF LogIs
    <2>2. PICK old : old = l.pages
        OBVIOUS
    <2>3. PagesAre(old, f) /\ n = Len(old)
        BY <1>1, <2>1, <2>2
    <2>4. PICK h : h = [i \in 0 .. n + 1 |-> IF i = n + 1 THEN f[n] ELSE f[i]]
        OBVIOUS
    <2>5. PagesAre(Append(old, <<>>), h)
        BY <2>3, <2>4, PagesMore
    <2> QED BY <2>2, <2>4, <2>5
<1>4. more.pages = pages /\ more.logged = l.logged /\ more.count = l.count /\ DOMAIN more = LogFields
    BY DEF LogFields
<1>41. more.wild = l.wild
    BY DEF LogFields
<1>5. Len(pages) = n + 1 /\ pages[n + 1] = <<>> /\ \A i \in 1 .. n : pages[i] = l.pages[i]
    <2>1. <<>> \in Seq(Message)
        OBVIOUS
    <2> QED BY <1>1, <1>2, <2>1, AppendProperties
<1>51. \A i \in 1 .. n + 1 : ~Overrun(pages[i])
    <2> SUFFICES ASSUME NEW i \in 1 .. n + 1 PROVE ~Overrun(pages[i])
        OBVIOUS
    <2>1. ~Overrun(<<>>)
        BY BytesOfNone, ConsoleAssumption DEF Overrun
    <2>2. CASE i = n + 1
        BY <1>5, <2>1, <2>2
    <2>3. CASE i # n + 1
        <3>1. i \in 1 .. n
            BY <1>1, <2>3
        <3>2. Overrun(l.pages[i]) => i = n
            BY <1>1, <3>1, Zenon DEF LogIs, InPages
        <3>3. ~Overrun(l.pages[n])
            BY <1>1 DEF Last
        <3> QED BY <1>5, <3>1, <3>2, <3>3
    <2> QED BY <2>2, <2>3
<1>6. g[n + 1] = f[n] /\ g[0] = f[0] /\ f[0] \in Nat /\ f[n] \in Nat /\ g[1] \in Nat
    <2>1. 0 \in 0 .. n + 1 /\ 1 \in 0 .. n + 1 /\ n + 1 \in 0 .. n + 1 /\ 0 \in 0 .. n /\ n \in 0 .. n /\ 0 # n + 1
        BY <1>1, <1>2
    <2>2. f[0] \in Nat /\ f[n] \in Nat
        BY <1>2, <2>1
    <2>3. g[1] \in Nat
        <3>1. 1 = n + 1 \/ 1 \in 0 .. n
            BY <1>1, <1>2
        <3> QED BY <1>2, <2>1, <2>2, <3>1
    <2> QED BY <2>1, <2>2, <2>3
<1>7. l.logged = f[n] /\ l.count = f[n] - f[0]
    BY <1>1 DEF LogIs
<1>8. r = IF Len(more.pages) <= LogMaxPages THEN more
          ELSE [more EXCEPT !.pages = Tail(@), !.count = CountAfterDrop(more)]
    BY DEF AppendPage
<1> HIDE DEF more, pages, g
<1>9. CASE n + 1 <= LogMaxPages
    <2>1. r = more
        BY <1>4, <1>5, <1>8, <1>9
    <2>2. n + 1 \in 1 .. LogMaxPages
        BY <1>1, <1>2, <1>9
    <2>3. InPages(pages)
        BY <1>5, <1>51 DEF InPages
    <2>4. LogIs(r, g)
        BY <1>3, <1>4, <1>5, <1>6, <1>7, <2>1, <2>2, <2>3 DEF LogIs
    <2> QED BY <1>4, <1>41, <1>5, <1>51, <2>1, <2>4
<1>10. CASE ~(n + 1 <= LogMaxPages)
    <2> DEFINE h == [i \in 0 .. (n + 1) - 1 |-> g[i + 1]]
    <2>1. PagesAre(Tail(pages), h) /\ Len(Tail(pages)) = (n + 1) - 1 /\ Len(Head(pages)) = g[1] - g[0]
        <3>1. n + 1 > 0
            BY <1>1
        <3> QED BY <1>3, <1>5, <3>1, PagesLess
    <2>2. /\ r.pages = Tail(pages) /\ r.logged = l.logged /\ r.count = CountAfterDrop(more)
          /\ DOMAIN r = LogFields
        <3>1. r = [more EXCEPT !.pages = Tail(@), !.count = CountAfterDrop(more)]
            BY <1>4, <1>5, <1>8, <1>10
        <3> QED BY <1>4, <3>1 DEF LogFields
    <2>21. r.wild = l.wild
        <3>1. r = [more EXCEPT !.pages = Tail(@), !.count = CountAfterDrop(more)]
            BY <1>4, <1>5, <1>8, <1>10
        <3> QED BY <1>4, <1>41, <3>1 DEF LogFields
    <2>3. CountAfterDrop(more) = l.count - (g[1] - g[0])
        BY <1>4, <2>1 DEF CountAfterDrop
    <2>4. h[0] = g[1] /\ h[n] = f[n]
        <3>1. 0 \in 0 .. (n + 1) - 1 /\ n \in 0 .. (n + 1) - 1 /\ 0 + 1 = 1
            BY <1>1
        <3> QED BY <1>6, <3>1
    <2>5. (n + 1) - 1 = n /\ n \in 1 .. LogMaxPages
        BY <1>1, <1>2
    <2>6. r.count = h[n] - h[0]
        BY <1>6, <1>7, <2>2, <2>3, <2>4
    <2>7. \A i \in 1 .. n : Tail(pages)[i] = pages[i + 1]
        <3>1. pages \in Seq(Seq(Message)) /\ pages # <<>>
            <4>1. pages \in Seq(Seq(Message))
                BY <1>3 DEF PagesAre
            <4>2. Len(pages) # 0
                BY <1>1, <1>5
            <4> QED BY <4>1, <4>2
        <3> QED BY <2>1, <2>5, <3>1, HeadTailProperties
    <2>8. \A i \in 1 .. n : ~Overrun(Tail(pages)[i])
        <3> SUFFICES ASSUME NEW i \in 1 .. n PROVE ~Overrun(Tail(pages)[i])
            OBVIOUS
        <3>1. i + 1 \in 1 .. n + 1
            BY <1>1
        <3> QED BY <1>51, <2>7, <3>1
    <2>9. Tail(pages)[n] = <<>>
        <3>1. n \in 1 .. n
            BY <1>1, <1>2
        <3> QED BY <1>5, <2>7, <3>1
    <2>10. InPages(Tail(pages))
        BY <2>1, <2>5, <2>8 DEF InPages
    <2>11. LogIs(r, h)
        <3> HIDE DEF h
        <3> QED BY <1>7, <2>1, <2>2, <2>4, <2>5, <2>6, <2>10 DEF LogIs
    <2> QED BY <2>1, <2>2, <2>21, <2>5, <2>8, <2>9, <2>11
<1> QED BY <1>9, <1>10

\* log_append numbers the message on, and it is in its page unless that has
\* been overrun before.
LEMMA AppendedOK ==
    ASSUME NEW l, LogOK(l), NEW n \in Nat
    PROVE  LogOK(Appended(l, n))
<1> DEFINE len == n + LogOverhead
           over == Overrun(Last(l.pages))
           room == IF ~over /\ len > LogPageSize - PageBytes(Last(l.pages)) THEN AppendPage(l) ELSE l
<1>1. PICK r : r = room
    OBVIOUS
<1>2. PICK a : a = Appended(l, n)
    OBVIOUS
<1>3. a = [r EXCEPT !.pages[Len(r.pages)] = Append(@, [id |-> l.logged + 1, len |-> len]),
                    !.logged = l.logged + 1, !.count = @ + 1, !.wild = @ \/ over]
    BY <1>1, <1>2, Zenon DEF Appended
<1>4. DOMAIN l = LogFields /\ l.wild \in BOOLEAN
    BY DEF LogOK
<1>5. DOMAIN r = LogFields /\ r.wild = l.wild
    <2>1. DOMAIN AppendPage(l) = LogFields /\ AppendPage(l).wild = l.wild
        BY <1>4 DEF AppendPage, LogFields
    <2> QED BY <1>1, <1>4, <2>1
<1>6. over \in BOOLEAN
    BY DEF Overrun
<1>7. DOMAIN a = LogFields /\ a.wild = (l.wild \/ over)
    <2> HIDE DEF len, over, room
    <2> QED BY <1>3, <1>5, Zenon DEF LogFields
<1>8. a.wild \in BOOLEAN
    BY <1>4, <1>6, <1>7
<1>9. SUFFICES ASSUME ~l.wild, ~over PROVE \E g : LogIs(a, g)
    <2> HIDE DEF over
    <2> QED BY <1>2, <1>7, <1>8, Zenon DEF LogOK
<1>10. PICK f0 : LogIs(l, f0)
    BY <1>9 DEF LogOK
<1>11. len \in Nat /\ LogPageSize \in Nat
    BY ConsoleAssumption
<1>12. /\ \E g : LogIs(r, g)
       /\ r.logged = l.logged
       /\ \A i \in 1 .. Len(r.pages) : ~Overrun(r.pages[i])
       /\ PageBytes(r.pages[Len(r.pages)]) + len <= LogPageSize \/ len > LogPageSize
    <2>1. CASE len > LogPageSize - PageBytes(Last(l.pages))
        <3>1. r = AppendPage(l)
            BY <1>1, <1>9, <2>1
        <3>2. /\ \E g : LogIs(r, g)
              /\ \A i \in 1 .. Len(r.pages) : ~Overrun(r.pages[i])
              /\ r.logged = l.logged /\ r.pages[Len(r.pages)] = <<>>
            BY <1>4, <1>9, <1>10, <3>1, AppendPageOK
        <3> HIDE DEF len
        <3>3. PageBytes(r.pages[Len(r.pages)]) + len <= LogPageSize \/ len > LogPageSize
            BY <1>11, <3>2, BytesOfNone
        <3> QED BY <3>2, <3>3
    <2>2. CASE ~(len > LogPageSize - PageBytes(Last(l.pages)))
        <3>1. r = l
            BY <1>1, <2>2
        <3>2. l.pages \in Seq(Seq(Message)) /\ Len(l.pages) \in 1 .. Len(l.pages)
            BY <1>10 DEF LogIs, PagesAre
        <3>3. PageBytes(l.pages[Len(l.pages)]) \in Nat
            <4>1. l.pages[Len(l.pages)] \in Seq(Message)
                BY <3>2, ElementOfSeq
            <4> QED BY <4>1, BytesOfPage
        <3>4. ~(len > LogPageSize - PageBytes(l.pages[Len(l.pages)]))
            BY <2>2 DEF Last
        <3>5. ASSUME NEW i \in 1 .. Len(l.pages) PROVE ~Overrun(l.pages[i])
            <4>1. Overrun(l.pages[i]) => i = Len(l.pages)
                BY <1>10, Zenon DEF LogIs, InPages
            <4>2. ~Overrun(l.pages[Len(l.pages)])
                BY <1>9 DEF Last
            <4> QED BY <4>1, <4>2
        <3> HIDE DEF len, over, room
        <3>6. PageBytes(l.pages[Len(l.pages)]) + len <= LogPageSize
            BY <1>11, <3>3, <3>4
        <3> QED BY <1>10, <3>1, <3>5, <3>6
    <2> QED BY <2>1, <2>2
<1>13. PICK f : LogIs(r, f)
    BY <1>12
<1>14. PICK k : k = Len(r.pages)
    OBVIOUS
<1>15. /\ PagesAre(r.pages, f) /\ k > 0 /\ k \in 1 .. LogMaxPages /\ r.logged = f[k] /\ r.count = f[k] - f[0]
       /\ r.pages \in Seq(Seq(Message)) /\ f \in [0 .. k -> Nat]
    BY <1>13, <1>14, PagesHave, ConsoleAssumption DEF LogIs
<1> HIDE DEF over, room
<1> DEFINE m == [id |-> f[k] + 1, len |-> len]
           new == [r.pages EXCEPT ![k] = Append(r.pages[k], m)]
           g == [f EXCEPT ![k] = f[k] + 1]
<1>16. k \in 0 .. k /\ 0 \in 0 .. k /\ k # 0 /\ k \in 1 .. k
    BY <1>15
<1>17. f[k] \in Nat /\ f[0] \in Nat /\ g[k] = f[k] + 1 /\ g[0] = f[0]
    BY <1>15, <1>16
<1>18. m \in Message /\ m.id = f[k] + 1 /\ m.len = len
    <2> HIDE DEF len
    <2> QED BY <1>11, <1>17 DEF Message
<1>19. PagesAre(new, g)
    <2> HIDE DEF m
    <2> QED BY <1>14, <1>15, <1>18, PagesGet
<1>20. /\ r.pages[k] \in Seq(Message) /\ Len(new) = k /\ new[k] = Append(r.pages[k], m)
       /\ \A i \in 1 .. k : i # k => new[i] = r.pages[i]
    <2> HIDE DEF m
    <2>1. r.pages[k] \in Seq(Message)
        BY <1>14, <1>15, <1>16, ElementOfSeq
    <2>2. Append(r.pages[k], m) \in Seq(Message)
        BY <1>18, <2>1, AppendProperties
    <2> QED BY <1>14, <1>15, <1>16, <2>1, <2>2, ExceptSeq
<1>21. InPages(new)
    <2> SUFFICES ASSUME NEW i \in 1 .. k, Overrun(new[i]) PROVE i = k /\ Last(new[i]).len > LogPageSize
        <3> HIDE DEF new
        <3> QED BY <1>20, Zenon DEF InPages
    <2> HIDE DEF new, m, len
    <2>1. i = k
        <3> SUFFICES ASSUME i # k PROVE FALSE
            OBVIOUS
        <3> QED BY <1>12, <1>14, <1>20
    <2>2. PageBytes(new[k]) = PageBytes(r.pages[k]) + len
        BY <1>18, <1>20, BytesOfAppend
    <2>3. PageBytes(r.pages[k]) \in Nat
        BY <1>20, BytesOfPage
    <2>4. len > LogPageSize
        BY <1>11, <1>12, <1>14, <2>1, <2>2, <2>3 DEF Overrun
    <2>5. Last(Append(r.pages[k], m)) = m
        BY <1>18, <1>20, AppendProperties DEF Last
    <2> QED BY <1>18, <1>20, <2>1, <2>4, <2>5
<1>22. a.pages = new /\ a.logged = f[k] + 1 /\ a.count = (f[k] - f[0]) + 1
    <2>1. l.logged = f[k]
        BY <1>12, <1>15
    <2> HIDE DEF len
    <2> QED BY <1>3, <1>5, <1>14, <1>15, <2>1 DEF LogFields
<1> HIDE DEF new, g
<1>23. a.logged = g[k] /\ a.count = g[k] - g[0]
    BY <1>17, <1>22
<1>24. LogIs(a, g)
    BY <1>15, <1>19, <1>20, <1>21, <1>22, <1>23 DEF LogIs
<1> QED BY <1>24

\* What is kept are the messages of all pages.
LEMMA LogOKKeeps == LogOK(klog) => LogKeepsLatest
<1> SUFFICES ASSUME LogOK(klog), ~klog.wild PROVE LogKeepsLatest
    BY Zenon DEF LogKeepsLatest
<1>1. PICK f : LogIs(klog, f)
    BY DEF LogOK
<1>2. PICK pages : pages = klog.pages
    OBVIOUS
<1>3. PICK n : n = Len(pages)
    OBVIOUS
<1>4. /\ pages \in Seq(Seq(Message)) /\ f \in [0 .. n -> Nat] /\ n \in Nat
      /\ \A i \in 1 .. n : PageIs(pages[i], f[i - 1], f[i])
    BY <1>1, <1>2, <1>3, PagesHave DEF LogIs
<1> DEFINE upTo[i \in 0 .. n] == IF i = 0 THEN <<>> ELSE upTo[i - 1] \o pages[i]
           IsUpTo(g) == g = [i \in 0 .. n |-> IF i = 0 THEN <<>> ELSE g[i - 1] \o pages[i]]
           Up(g, k) == /\ g \in [0 .. k -> Seq(Message)] /\ g[0] = <<>>
                       /\ \A i \in 1 .. k : g[i] = g[i - 1] \o pages[i]
           T == {k \in Nat : k <= n => \E g : Up(g, k)}
<1>5. 0 \in T
    <2>1. Up([i \in 0 .. 0 |-> <<>>], 0)
        OBVIOUS
    <2> QED BY <2>1
<1>6. ASSUME NEW k \in T PROVE k + 1 \in T
    <2>1. k \in Nat
        OBVIOUS
    <2> SUFFICES ASSUME k + 1 <= n PROVE \E g : Up(g, k + 1)
        <3> HIDE DEF Up
        <3> QED BY <2>1
    <2>2. PICK g : Up(g, k)
        <3> HIDE DEF Up
        <3>1. k <= n
            BY <1>4, <2>1
        <3> QED BY <3>1
    <2>3. pages[k + 1] \in Seq(Message)
        <3>1. k + 1 \in 1 .. Len(pages)
            BY <1>3, <1>4, <2>1
        <3> QED BY <1>4, <3>1, ElementOfSeq
    <2> DEFINE new == g[k] \o pages[k + 1]
               h == [i \in 0 .. k + 1 |-> IF i = k + 1 THEN new ELSE g[i]]
    <2>4. g[k] \in Seq(Message) /\ new \in Seq(Message)
        BY <2>1, <2>2, <2>3, ConcatProperties
    <2> HIDE DEF new
    <2>5. h \in [0 .. k + 1 -> Seq(Message)] /\ h[0] = <<>>
        BY <2>1, <2>2, <2>4
    <2>6. ASSUME NEW i \in 1 .. k + 1 PROVE h[i] = h[i - 1] \o pages[i]
        <3>1. CASE i = k + 1
            <4>1. h[i] = new /\ h[i - 1] = g[k]
                BY <2>1, <3>1
            <4> QED BY <3>1, <4>1 DEF new
        <3>2. CASE i # k + 1
            <4>1. i \in 1 .. k /\ i - 1 # k + 1 /\ i - 1 \in 0 .. k + 1
                BY <2>1, <3>2
            <4>2. h[i] = g[i] /\ h[i - 1] = g[i - 1]
                BY <3>2, <4>1
            <4> QED BY <2>2, <4>1, <4>2
        <3> QED BY <3>1, <3>2
    <2> HIDE DEF h
    <2>7. Up(h, k + 1)
        BY <2>5, <2>6
    <2> QED BY <2>7
<1>7. PICK g : Up(g, n)
    <2> HIDE DEF T, Up
    <2>1. T \in SUBSET Nat
        BY DEF T
    <2>2. T = Nat
        BY <1>5, <1>6, <2>1, CountingUp
    <2>3. n \in Nat /\ n <= n
        BY <1>4
    <2> QED BY <2>2, <2>3 DEF T
<1>8. IsUpTo(upTo)
    <2>1. IsUpTo(g)
        <3>1. g = [i \in 0 .. n |-> g[i]]
            BY <1>7
        <3>2. ASSUME NEW i \in 0 .. n PROVE g[i] = IF i = 0 THEN <<>> ELSE g[i - 1] \o pages[i]
            <4>1. i = 0 \/ i \in 1 .. n
                BY <1>4
            <4> QED BY <1>7, <4>1
        <3> HIDE DEF Up
        <3> QED BY <3>1, <3>2
    <2>2. upTo = CHOOSE h : IsUpTo(h)
        OBVIOUS
    <2> HIDE DEF upTo, IsUpTo
    <2> QED BY <2>1, <2>2
<1>9. upTo[0] = <<>> /\ \A i \in 1 .. n : upTo[i] = upTo[i - 1] \o pages[i]
    <2> HIDE DEF upTo
    <2>1. 0 \in 0 .. n
        BY <1>4
    <2>2. ASSUME NEW i \in 1 .. n PROVE i \in 0 .. n /\ i # 0
        BY <1>4
    <2> QED BY <1>8, <2>1, <2>2
<1> DEFINE Is(k) == /\ upTo[k] \in Seq(Message) /\ Len(upTo[k]) = f[k] - f[0]
                    /\ \A j \in 1 .. Len(upTo[k]) : upTo[k][j].id = f[0] + j
           U == {k \in Nat : k <= n => Is(k)}
<1> HIDE DEF upTo, IsUpTo, Up, T
<1>10. 0 \in U
    <2>1. 0 \in 0 .. n
        BY <1>4
    <2>2. f[0] \in Nat
        BY <1>4, <2>1
    <2>3. upTo[0] = <<>>
        BY <1>9
    <2>4. upTo[0] \in Seq(Message) /\ Len(upTo[0]) = 0 /\ 1 .. Len(upTo[0]) = {}
        BY <2>3
    <2>5. Len(upTo[0]) = f[0] - f[0]
        BY <2>2, <2>4
    <2>6. Is(0)
        BY <2>4, <2>5
    <2> HIDE DEF Is
    <2> QED BY <2>6
<1>11. ASSUME NEW k \in U PROVE k + 1 \in U
    <2>1. k \in Nat
        OBVIOUS
    <2> SUFFICES ASSUME k + 1 <= n PROVE Is(k + 1)
        <3> HIDE DEF Is
        <3> QED BY <2>1
    <2>2. k \in 0 .. n /\ k + 1 \in 1 .. n /\ (k + 1) - 1 = k /\ 0 \in 0 .. n /\ k + 1 \in 0 .. n
        <3>1. n \in Nat
            BY <1>4
        <3> HIDE DEF U, Is
        <3> QED BY <2>1, <3>1
    <2>3. PICK old : old = upTo[k]
        OBVIOUS
    <2>4. old \in Seq(Message) /\ Len(old) = f[k] - f[0] /\ \A j \in 1 .. Len(old) : old[j].id = f[0] + j
        <3>1. Is(k)
            <4> HIDE DEF Is
            <4>1. k <= n
                BY <2>2
            <4> QED BY <4>1
        <3> QED BY <2>3, <3>1
    <2>5. PICK page : page = pages[k + 1]
        OBVIOUS
    <2>6. page \in Seq(Message) /\ PageIs(page, f[k], f[k + 1])
        <3>1. k + 1 \in 1 .. Len(pages)
            BY <1>3, <2>2
        <3> QED BY <1>4, <2>2, <2>5, <3>1, ElementOfSeq
    <2>7. PICK new : new = old \o page
        OBVIOUS
    <2>8. upTo[k + 1] = new
        BY <1>9, <2>2, <2>3, <2>5, <2>7
    <2>9. PICK a \in Nat : a = f[0]
        BY <1>4, <2>2
    <2>10. PICK b \in Nat : b = f[k]
        BY <1>4, <2>2
    <2>11. PICK c \in Nat : c = f[k + 1]
        BY <1>4, <2>2
    <2>12. PICK x \in Nat : x = Len(old)
        BY <2>4
    <2>13. PICK y \in Nat : y = Len(page)
        BY <2>6
    <2>14. /\ new \in Seq(Message) /\ Len(new) = x + y
           /\ \A j \in 1 .. x + y : new[j] = IF j <= x THEN old[j] ELSE page[j - x]
        BY <2>4, <2>6, <2>7, <2>12, <2>13, ConcatProperties
    <2>15. x = b - a /\ c = b + y
        BY <2>4, <2>6, <2>9, <2>10, <2>11, <2>12, <2>13 DEF PageIs
    <2>16. x + y = c - a
        BY <2>9, <2>10, <2>11, <2>12, <2>13, <2>15
    <2>17. ASSUME NEW j \in 1 .. x + y PROVE new[j].id = a + j
        <3>1. CASE j <= x
            <4>1. j \in 1 .. x
                BY <2>12, <3>1
            <4> QED BY <2>4, <2>9, <2>12, <2>14, <3>1, <4>1
        <3>2. CASE ~(j <= x)
            <4>1. j - x \in 1 .. y /\ b + (j - x) = a + j
                <5>1. a \in Nat /\ b \in Nat /\ x \in Nat /\ y \in Nat /\ x = b - a
                    BY <2>9, <2>10, <2>12, <2>13, <2>15
                <5> HIDE DEF U, Is
                <5>2. j \in Int /\ j <= x + y /\ j > x
                    BY <3>2, <5>1
                <5>3. j - x \in 1 .. y
                    BY <5>1, <5>2
                <5>4. b = x + a
                    BY <5>1
                <5> QED BY <5>1, <5>2, <5>3, <5>4
            <4>2. page[j - x].id = b + (j - x)
                BY <2>6, <2>10, <2>13, <4>1 DEF PageIs
            <4> QED BY <2>14, <3>2, <4>1, <4>2
        <3> QED BY <3>1, <3>2
    <2> QED BY <2>8, <2>9, <2>11, <2>14, <2>16, <2>17
<1>12. Is(n)
    <2> HIDE DEF U, Is
    <2>1. U \in SUBSET Nat
        BY DEF U
    <2>2. U = Nat
        BY <1>10, <1>11, <2>1, CountingUp
    <2>3. n \in Nat /\ n <= n
        BY <1>4
    <2> QED BY <2>2, <2>3 DEF U
<1>13. PICK kept : kept = upTo[n]
    OBVIOUS
<1>14. f[0] \in Nat /\ f[n] \in Nat /\ klog.logged = f[n] /\ klog.count = f[n] - f[0]
    <2>1. 0 \in 0 .. n /\ n \in 0 .. n
        BY <1>4
    <2> QED BY <1>1, <1>2, <1>3, <1>4, <2>1 DEF LogIs
<1>15. /\ \A i \in DOMAIN kept : kept[i].id = klog.logged - Len(kept) + i
       /\ klog.count = Len(kept)
    <2>1. kept \in Seq(Message) /\ Len(kept) = f[n] - f[0] /\ \A j \in 1 .. Len(kept) : kept[j].id = f[0] + j
        BY <1>12, <1>13
    <2>2. DOMAIN kept = 1 .. Len(kept)
        BY <2>1
    <2>3. ASSUME NEW i \in 1 .. Len(kept) PROVE klog.logged - Len(kept) + i = f[0] + i
        <3>1. i \in Int
            BY <2>1
        <3>2. klog.logged - Len(kept) = f[0]
            BY <1>14, <2>1
        <3> QED BY <3>1, <3>2
    <2> QED BY <1>14, <2>1, <2>2, <2>3
<1>16. Len(klog.pages) <= LogMaxPages
    BY <1>1, ConsoleAssumption DEF LogIs
<1>17. \A i \in DOMAIN klog.pages :
           Overrun(klog.pages[i]) => i = Len(klog.pages) /\ Last(klog.pages[i]).len > LogPageSize
    <2>1. DOMAIN pages = 1 .. n
        BY <1>3, <1>4
    <2> QED BY <1>1, <1>2, <1>3, <2>1, Zenon DEF LogIs, InPages
<1> QED BY <1>2, <1>3, <1>13, <1>15, <1>16, <1>17, Zenon DEF LogKeepsLatest, upTo

\* The messages of a panic, one after the other.
LEMMA HaltSays ==
    ASSUME NEW sizes \in Seq(Nat), Halt(sizes)
    PROVE  \E g : /\ g[0] = [Kernel EXCEPT !.con.active = TRUE]
                  /\ \A i \in 1 .. Len(sizes) : g[i] = LogAppend(g[i - 1], sizes[i], 5)
                  /\ Becomes(g[Len(sizes)])
<1>1. PICK n : n = Len(sizes)
    OBVIOUS
<1>2. n \in Nat
    BY <1>1
<1>3. PICK s : s = [Kernel EXCEPT !.con.active = TRUE]
    OBVIOUS
<1> DEFINE said[i \in 0 .. n] == IF i = 0 THEN s ELSE LogAppend(said[i - 1], sizes[i], 5)
           IsSaid(g) == g = [i \in 0 .. n |-> IF i = 0 THEN s ELSE LogAppend(g[i - 1], sizes[i], 5)]
           Up(g, k) == /\ g = [i \in 0 .. k |-> g[i]] /\ g[0] = s
                       /\ \A i \in 1 .. k : g[i] = LogAppend(g[i - 1], sizes[i], 5)
           T == {k \in Nat : k <= n => \E g : Up(g, k)}
<1>4. 0 \in T
    <2> DEFINE g == [i \in 0 .. 0 |-> s]
    <2>1. g = [i \in 0 .. 0 |-> g[i]] /\ g[0] = s
        OBVIOUS
    <2>2. 1 .. 0 = {}
        OBVIOUS
    <2> HIDE DEF g
    <2>3. Up(g, 0)
        BY <2>1, <2>2
    <2> HIDE DEF Up
    <2> QED BY <2>3
<1>5. ASSUME NEW k \in T PROVE k + 1 \in T
    <2>1. k \in Nat
        OBVIOUS
    <2> SUFFICES ASSUME k + 1 <= n PROVE \E g : Up(g, k + 1)
        <3> HIDE DEF Up
        <3> QED BY <2>1
    <2>2. PICK g : Up(g, k)
        <3> HIDE DEF Up
        <3>1. k <= n
            BY <1>2, <2>1
        <3> QED BY <3>1
    <2>3. PICK new : new = LogAppend(g[k], sizes[k + 1], 5)
        OBVIOUS
    <2> DEFINE h == [i \in 0 .. k + 1 |-> IF i = k + 1 THEN new ELSE g[i]]
    <2>4. h = [i \in 0 .. k + 1 |-> h[i]] /\ h[0] = s
        <3>1. 0 \in 0 .. k + 1 /\ 0 # k + 1
            BY <2>1
        <3> QED BY <2>2, <3>1
    <2>5. ASSUME NEW i \in 1 .. k + 1 PROVE h[i] = LogAppend(h[i - 1], sizes[i], 5)
        <3>1. CASE i = k + 1
            <4>1. i \in 0 .. k + 1 /\ i - 1 \in 0 .. k + 1 /\ i - 1 = k /\ k # k + 1
                BY <2>1, <3>1
            <4>2. h[i] = new /\ h[i - 1] = g[k]
                BY <3>1, <4>1
            <4> QED BY <2>3, <3>1, <4>2
        <3>2. CASE i # k + 1
            <4>1. i \in 1 .. k /\ i \in 0 .. k + 1 /\ i - 1 # k + 1 /\ i - 1 \in 0 .. k + 1
                BY <2>1, <3>2
            <4>2. h[i] = g[i] /\ h[i - 1] = g[i - 1]
                BY <3>2, <4>1
            <4> QED BY <2>2, <4>1, <4>2
        <3> QED BY <3>1, <3>2
    <2> HIDE DEF h
    <2>6. Up(h, k + 1)
        BY <2>4, <2>5
    <2> HIDE DEF Up
    <2> QED BY <2>6
<1>6. PICK g : Up(g, n)
    <2> HIDE DEF T, Up
    <2>1. T \in SUBSET Nat
        BY DEF T
    <2>2. T = Nat
        BY <1>4, <1>5, <2>1, CountingUp
    <2>3. n \in Nat /\ n <= n
        BY <1>2
    <2> QED BY <2>2, <2>3 DEF T
<1>7. IsSaid(said)
    <2>1. IsSaid(g)
        <3>1. g = [i \in 0 .. n |-> g[i]]
            BY <1>6
        <3>2. ASSUME NEW i \in 0 .. n
              PROVE  g[i] = IF i = 0 THEN s ELSE LogAppend(g[i - 1], sizes[i], 5)
            <4>1. i = 0 \/ i \in 1 .. n
                BY <1>2
            <4> QED BY <1>6, <4>1
        <3> HIDE DEF Up
        <3> QED BY <3>1, <3>2
    <2>2. said = CHOOSE h : IsSaid(h)
        OBVIOUS
    <2> HIDE DEF said, IsSaid
    <2> QED BY <2>1, <2>2
<1>8. said[0] = s /\ \A i \in 1 .. n : said[i] = LogAppend(said[i - 1], sizes[i], 5)
    <2> HIDE DEF said
    <2>1. 0 \in 0 .. n
        BY <1>2
    <2>2. ASSUME NEW i \in 1 .. n PROVE i \in 0 .. n /\ i # 0
        BY <1>2
    <2> QED BY <1>7, <2>1, <2>2
<1>9. Becomes(said[n])
    BY <1>1, <1>3, Zenon DEF Halt
<1> HIDE DEF said
<1> QED BY <1>1, <1>3, <1>8, <1>9

LEMMA LogAppendOK ==
    ASSUME NEW s, NEW n \in Nat, NEW colour, LogOK(s.log)
    PROVE  LogOK(LogAppend(s, n, colour).log)
<1>1. LogAppend(s, n, colour).log = Appended(s.log, n)
    BY DEF LogAppend
<1> QED BY <1>1, AppendedOK

LEMMA MoreMessages == Append(PanicSizes, Last(PanicSizes)) \in Seq(Nat)
<1>1. PICK n : n = Len(PanicSizes)
    OBVIOUS
<1>2. n \in 1 .. n
    BY <1>1, ConsoleAssumption, EmptySeq
<1>3. Last(PanicSizes) \in Nat
    BY <1>1, <1>2, ConsoleAssumption, ElementOfSeq DEF Last
<1> QED BY <1>3, ConsoleAssumption, AppendProperties

LEMMA HaltLogs ==
    ASSUME NEW sizes \in Seq(Nat), LogOK(klog), Halt(sizes)
    PROVE  LogOK(klog')
<1>1. PICK g : /\ g[0] = [Kernel EXCEPT !.con.active = TRUE]
               /\ \A i \in 1 .. Len(sizes) : g[i] = LogAppend(g[i - 1], sizes[i], 5)
               /\ Becomes(g[Len(sizes)])
    BY HaltSays
<1>2. PICK n : n = Len(sizes)
    OBVIOUS
<1>3. n \in Nat
    BY <1>2
<1> DEFINE T == {k \in Nat : k <= n => LogOK(g[k].log)}
<1>4. 0 \in T
    <2>1. g[0].log = klog
        BY <1>1 DEF Kernel
    <2> QED BY <2>1
<1>5. ASSUME NEW k \in T PROVE k + 1 \in T
    <2>1. k \in Nat
        OBVIOUS
    <2> SUFFICES ASSUME k + 1 <= n PROVE LogOK(g[k + 1].log)
        BY <2>1
    <2>2. k <= n /\ k + 1 \in 1 .. n /\ (k + 1) - 1 = k
        BY <1>3, <2>1
    <2>3. LogOK(g[k].log)
        BY <2>2
    <2>4. g[k + 1] = LogAppend(g[k], sizes[k + 1], 5)
        BY <1>1, <1>2, <2>2
    <2>5. sizes[k + 1] \in Nat
        BY <1>2, <2>2, ElementOfSeq
    <2> QED BY <2>3, <2>4, <2>5, LogAppendOK
<1> HIDE DEF T
<1>6. n \in T
    <2>1. T \in SUBSET Nat
        BY DEF T
    <2> QED BY <1>3, <1>4, <1>5, <2>1, CountingUp
<1>7. LogOK(g[n].log)
    BY <1>3, <1>6 DEF T
<1> QED BY <1>1, <1>2, <1>7 DEF Becomes

LEMMA LogInitOK == ConsoleInit => LogOK(klog)
<1> SUFFICES ASSUME ConsoleInit PROVE LogOK(klog)
    OBVIOUS
<1> DEFINE pages == << <<>> >>
           f == [i \in 0 .. 1 |-> 0]
<1>1. /\ klog.pages = pages /\ klog.count = 0 /\ klog.logged = 0
      /\ DOMAIN klog = LogFields /\ klog.wild \in BOOLEAN
    BY DEF ConsoleInit, LogFields
<1>2. pages \in Seq(Seq(Message)) /\ Len(pages) = 1 /\ pages[1] = <<>>
    OBVIOUS
<1>3. f \in [0 .. 1 -> Nat] /\ f[0] = 0 /\ f[1] = 0
    OBVIOUS
<1> HIDE DEF pages, f
<1>4. PageIs(<<>>, 0, 0)
    BY NoPage
<1>5. PagesAre(pages, f)
    <2>1. ASSUME NEW i \in 1 .. 1 PROVE PageIs(pages[i], f[i - 1], f[i])
        <3>1. i = 1 /\ i - 1 = 0
            OBVIOUS
        <3> QED BY <1>2, <1>3, <1>4, <3>1
    <2> QED BY <1>2, <1>3, <2>1, PagesArePages
<1>6. 1 \in 1 .. LogMaxPages
    BY ConsoleAssumption
<1>7. InPages(pages)
    <2>1. ~Overrun(<<>>)
        BY BytesOfNone, ConsoleAssumption DEF Overrun
    <2>2. ASSUME NEW i \in 1 .. Len(pages) PROVE ~Overrun(pages[i])
        <3>1. i = 1
            BY <1>2
        <3> QED BY <1>2, <2>1, <3>1
    <2> QED BY <2>2 DEF InPages
<1>8. LogIs(klog, f)
    BY <1>1, <1>2, <1>3, <1>5, <1>6, <1>7 DEF LogIs
<1> QED BY <1>1, <1>8 DEF LogOK

LEMMA LogStepOK ==
    ASSUME LogOK(klog), ConsoleStep
    PROVE  LogOK(klog')
<1>1. CASE Log
    <2>1. PICK n \in MessageSizes, colour \in LevelColours, fails \in {FALSE, memory} :
              Becomes(IF fails THEN LogAppend(LogAppend(Kernel, n, colour), EfiError, 1) ELSE LogAppend(Kernel, n, colour))
        BY <1>1, Zenon DEF Log
    <2>2. PICK told : told = LogAppend(Kernel, n, colour)
        OBVIOUS
    <2>3. LogOK(told.log)
        <3>1. Kernel.log = klog
            BY DEF Kernel
        <3>2. n \in Nat
            BY <2>1, ConsoleAssumption
        <3> QED BY <2>2, <3>1, <3>2, LogAppendOK
    <2>4. LogOK(LogAppend(told, EfiError, 1).log)
        BY <2>3, LogAppendOK DEF EfiError
    <2>5. CASE fails
        <3>1. Becomes(LogAppend(told, EfiError, 1))
            BY <2>1, <2>2, <2>5, Zenon
        <3> QED BY <2>4, <3>1 DEF Becomes
    <2>6. CASE ~fails
        <3>1. Becomes(told)
            BY <2>1, <2>2, <2>6, Zenon
        <3> QED BY <2>3, <3>1 DEF Becomes
    <2> QED BY <2>5, <2>6
<1>2. CASE FbInit
    <2> DEFINE before(fb) == [Kernel EXCEPT !.con.fb = fb, !.con.active = TRUE]
               cleared(fb) == IF fb THEN FbClear([con |-> before(fb).con, paper |-> before(fb).paper]) ELSE before(fb)
               ready(fb) == [before(fb) EXCEPT !.con = cleared(fb).con, !.paper = cleared(fb).paper]
    <2>1. PICK fb \in BOOLEAN : Becomes(LogAppend(ready(fb), 2, IF fb THEN 8 ELSE 15))
        BY <1>2, Zenon DEF FbInit
    <2>2. PICK b : b = before(fb)
        OBVIOUS
    <2>3. b.log = klog /\ DOMAIN b = {"log", "con", "paper"}
        BY <2>2 DEF Kernel
    <2>4. ready(fb).log = klog
        <3> HIDE DEF cleared
        <3>1. ready(fb) = [b EXCEPT !.con = cleared(fb).con, !.paper = cleared(fb).paper]
            BY <2>2
        <3> HIDE DEF ready, before
        <3> QED BY <2>3, <3>1
    <2> HIDE DEF ready, cleared, before
    <2>5. PICK s, colour : Becomes(LogAppend(s, 2, colour)) /\ s.log = klog
        BY <2>1, <2>4
    <2> QED BY <2>5, LogAppendOK DEF Becomes
<1>3. CASE Framebuffer
    <2>1. PICK s : Becomes(LogAppend(s, 2, 8)) /\ s.log = klog
        BY <1>3 DEF Framebuffer
    <2> QED BY <2>1, LogAppendOK DEF Becomes
<1>4. CASE PanicMessage
    BY <1>4, HaltLogs, ConsoleAssumption DEF PanicMessage
<1>5. CASE PanicCpu
    <2>1. PICK more : more = Append(PanicSizes, Last(PanicSizes))
        OBVIOUS
    <2> QED BY <1>5, <2>1, HaltLogs, MoreMessages DEF PanicCpu
<1>6. CASE MemoryUp \/ ProcessDraws
    BY <1>6 DEF MemoryUp, ProcessDraws
<1> QED BY <1>1, <1>2, <1>3, <1>4, <1>5, <1>6 DEF ConsoleStep

LEMMA LogAlways == TerminalSpec => []LogOK(klog)
<1>1. TerminalInit => LogOK(klog)
    BY LogInitOK DEF TerminalInit
<1>2. LogOK(klog) /\ [TerminalNext]_terminalVars => LogOK(klog)'
    <2> SUFFICES ASSUME LogOK(klog), [TerminalNext]_terminalVars PROVE LogOK(klog')
        BY DEF LogOK, LogIs, PagesAre, InPages
    <2>1. ConsoleStep \/ UNCHANGED consoleVars
        BY Zenon DEF TerminalNext, terminalVars
    <2>2. CASE UNCHANGED consoleVars
        BY <2>2, Zenon DEF consoleVars
    <2> QED BY <2>1, <2>2, LogStepOK
<1> QED BY <1>1, <1>2, PTL DEF TerminalSpec, terminalVars

\* Whatever is logged, by whom and how often, and however many pages have
\* been given up: the log holds the latest messages without a gap, its
\* counter is their number, and it stays within its pages, up to a message
\* that is longer than a page and the one that follows it.
THEOREM LogIsLatest == TerminalSpec => []LogKeepsLatest
BY LogAlways, LogOKKeeps, PTL


-----------------------------------------------------------------------------
(* The kernel's console *)

Line == [1 .. ConsoleCols -> Int]

ConFields == {"fb", "active", "row", "col", "colour", "front", "back"}

\* The lines that have left the screen, and what a cell has to show.
Above(pap) == IF Len(pap) > ConsoleRows THEN Len(pap) - ConsoleRows ELSE 0
Wanted(pap, r, c) == IF Above(pap) + r <= Len(pap) THEN pap[Above(pap) + r][c] ELSE 0

\* The back buffer holds the end of the paper and the next character comes
\* into the last line.
Lines(c, pap) ==
    /\ DOMAIN c = ConFields /\ c.colour \in Int
    /\ pap \in Seq(Line) /\ Len(pap) > 0
    /\ c.row = Len(pap) - Above(pap)
    /\ \A r \in 1 .. ConsoleRows, k \in 1 .. ConsoleCols : c.back[<<r, k>>] = Wanted(pap, r, k)

Fine(c, pap) == Lines(c, pap) /\ c.col \in 1 .. ConsoleCols

Same(c) == \A r \in 1 .. ConsoleRows, k \in 1 .. ConsoleCols : c.front[<<r, k>>] = c.back[<<r, k>>]
InFront(c) == \A r \in 1 .. ConsoleRows, k \in 1 .. ConsoleCols :
                c.back[<<r, k>>] # 0 => c.front[<<r, k>>] = c.back[<<r, k>>]

\* What drawing keeps.
Kept(c, d) ==
    /\ d.fb = c.fb /\ d.active = c.active
    /\ Same(c) => Same(d)
    /\ InFront(c) => InFront(d)

LEMMA KeptOn ==
    ASSUME NEW c, NEW d, NEW e, Kept(c, d), Kept(d, e)
    PROVE  Kept(c, e)
BY Zenon DEF Kept

LEMMA SizesAre == ConsoleRows \in Nat /\ ConsoleCols \in Nat /\ ConsoleRows > 0 /\ ConsoleCols > 0
BY ConsoleAssumption

LEMMA EmptyLineIs == EmptyLine \in Line /\ \A k \in 1 .. ConsoleCols : EmptyLine[k] = 0
BY DEF EmptyLine, Line

\* A scroll moves the lines up.
LEMMA FbScrolls ==
    ASSUME NEW c, NEW d, d = FbScroll(c), DOMAIN c = ConFields
    PROVE  /\ DOMAIN d = ConFields /\ d.colour = c.colour /\ d.row = c.row /\ d.col = c.col
           /\ d.fb = c.fb /\ d.active = c.active
           /\ \A r \in 1 .. ConsoleRows, k \in 1 .. ConsoleCols :
                /\ d.back[<<r, k>>] = IF r = ConsoleRows THEN 0 ELSE c.back[<<r + 1, k>>]
                /\ d.front[<<r, k>>] = d.back[<<r, k>>]
<1> DEFINE grid == [p \in Cells |-> IF p[1] = ConsoleRows THEN 0 ELSE c.back[<<p[1] + 1, p[2]>>]]
           up == [c EXCEPT !.back = grid]
<1>1. d = [up EXCEPT !.front = up.back]
    BY DEF FbScroll, FrontScrolled
<1>2. ASSUME NEW r \in 1 .. ConsoleRows, NEW k \in 1 .. ConsoleCols
      PROVE  grid[<<r, k>>] = IF r = ConsoleRows THEN 0 ELSE c.back[<<r + 1, k>>]
    BY DEF Cells
<1> HIDE DEF grid
<1>3. /\ DOMAIN d = ConFields /\ d.colour = c.colour /\ d.row = c.row /\ d.col = c.col
      /\ d.back = grid /\ d.front = grid
    BY <1>1 DEF ConFields
<1>4. d.fb = c.fb /\ d.active = c.active
    BY <1>1 DEF ConFields
<1> QED BY <1>2, <1>3, <1>4

LEMMA NextLineOK ==
    ASSUME NEW s, NEW t, t = NextLine(s), Lines(s.con, s.paper)
    PROVE  Fine(t.con, t.paper) /\ Kept(s.con, t.con)
<1>1. PICK c, pap : c = s.con /\ pap = s.paper
    OBVIOUS
<1>2. PICK n : n = Len(pap)
    OBVIOUS
<1>3. PICK rows, cols : rows = ConsoleRows /\ cols = ConsoleCols
    OBVIOUS
<1>4. rows \in Nat /\ cols \in Nat /\ rows > 0 /\ cols > 0
    BY <1>3, SizesAre
<1>5. pap \in Seq(Line) /\ n \in Nat /\ n > 0 /\ DOMAIN c = ConFields /\ c.colour \in Int
    BY <1>1, <1>2 DEF Lines
<1> DEFINE down == [c EXCEPT !.col = 1, !.row = @ + 1]
           new == Append(pap, EmptyLine)
<1>6. t.paper = new /\ t.con = IF down.row > ConsoleRows THEN [FbScroll(down) EXCEPT !.row = @ - 1] ELSE down
    BY <1>1 DEF NextLine
<1>7. /\ new \in Seq(Line) /\ Len(new) = n + 1 /\ new[n + 1] = EmptyLine
      /\ \A i \in 1 .. n : new[i] = pap[i]
    BY <1>2, <1>5, EmptyLineIs, AppendProperties
<1>8. /\ DOMAIN down = ConFields /\ down.colour = c.colour /\ down.col = 1 /\ down.row = c.row + 1
      /\ down.front = c.front /\ down.back = c.back
    BY <1>5 DEF ConFields
<1>9. down.fb = c.fb /\ down.active = c.active
    BY <1>5 DEF ConFields
<1> HIDE DEF down, new
<1>10. c.row = IF n > rows THEN rows ELSE n
    <2>1. c.row = n - Above(pap)
        BY <1>1, <1>2 DEF Lines
    <2> QED BY <1>2, <1>3, <1>4, <1>5, <2>1 DEF Above
<1>11. 1 \in 1 .. ConsoleCols
    BY SizesAre
<1>12. CASE n >= rows
    <2>1. c.row = rows
        BY <1>4, <1>5, <1>10, <1>12
    <2>2. down.row > ConsoleRows /\ (c.row + 1) - 1 = rows
        BY <1>3, <1>4, <1>8, <2>1
    <2>3. PICK up : up = FbScroll(down)
        OBVIOUS
    <2>4. t.con = [up EXCEPT !.row = @ - 1]
        BY <1>6, <2>2, <2>3
    <2>5. /\ DOMAIN up = ConFields /\ up.colour = c.colour /\ up.row = c.row + 1 /\ up.col = 1
          /\ up.fb = c.fb /\ up.active = c.active
          /\ \A r \in 1 .. ConsoleRows, k \in 1 .. ConsoleCols :
               /\ up.back[<<r, k>>] = IF r = ConsoleRows THEN 0 ELSE c.back[<<r + 1, k>>]
               /\ up.front[<<r, k>>] = up.back[<<r, k>>]
        BY <1>8, <1>9, <2>3, FbScrolls
    <2>6. PICK d : d = t.con
        OBVIOUS
    <2>7. /\ DOMAIN d = ConFields /\ d.colour = c.colour /\ d.row = rows /\ d.col = 1
          /\ d.front = up.front /\ d.back = up.back
        BY <2>2, <2>4, <2>5, <2>6 DEF ConFields
    <2>8. d.fb = c.fb /\ d.active = c.active
        BY <2>4, <2>5, <2>6 DEF ConFields
    <2>9. Above(new) = (n + 1) - rows /\ Len(new) = n + 1
        BY <1>3, <1>4, <1>5, <1>7, <1>12 DEF Above
    <2>10. Above(pap) = n - rows
        BY <1>2, <1>3, <1>4, <1>5, <1>12 DEF Above
    <2>11. ASSUME NEW r \in 1 .. ConsoleRows, NEW k \in 1 .. ConsoleCols
           PROVE  d.back[<<r, k>>] = Wanted(new, r, k) /\ d.front[<<r, k>>] = d.back[<<r, k>>]
        <3>1. r \in Int /\ r >= 1 /\ r <= rows
            BY <1>3, <1>4
        <3>2. ((n + 1) - rows) + r <= n + 1
            BY <1>4, <1>5, <3>1
        <3>3. Wanted(new, r, k) = new[((n + 1) - rows) + r][k]
            BY <2>9, <3>2 DEF Wanted
        <3>4. d.back[<<r, k>>] = IF r = ConsoleRows THEN 0 ELSE c.back[<<r + 1, k>>]
            BY <2>5, <2>7
        <3>5. d.front[<<r, k>>] = d.back[<<r, k>>]
            BY <2>5, <2>7
        <3>6. CASE r = rows
            <4>1. ((n + 1) - rows) + r = n + 1
                BY <1>4, <1>5, <3>6
            <4> QED BY <1>3, <1>7, <3>3, <3>4, <3>5, <3>6, <4>1, EmptyLineIs
        <3>7. CASE r # rows
            <4>1. PICK i : i = ((n + 1) - rows) + r
                OBVIOUS
            <4>2. i \in 1 .. n /\ (n - rows) + (r + 1) = i /\ i <= n /\ r + 1 \in 1 .. rows
                BY <1>4, <1>5, <1>12, <3>1, <3>7, <4>1
            <4>3. c.back[<<r + 1, k>>] = Wanted(pap, r + 1, k)
                BY <1>1, <1>3, <4>2 DEF Lines
            <4>4. Wanted(pap, r + 1, k) = pap[i][k]
                BY <1>2, <2>10, <4>2 DEF Wanted
            <4>5. new[i] = pap[i]
                BY <1>7, <4>2
            <4> QED BY <1>3, <3>3, <3>4, <3>5, <3>7, <4>1, <4>3, <4>4, <4>5
        <3> QED BY <3>6, <3>7
    <2>12. d.row = Len(new) - Above(new)
        BY <1>4, <1>5, <2>7, <2>9
    <2>13. Fine(d, new)
        BY <1>5, <1>7, <1>11, <2>7, <2>9, <2>11, <2>12 DEF Fine, Lines
    <2>14. Same(d) /\ InFront(d)
        BY <2>11 DEF Same, InFront
    <2> QED BY <1>1, <1>6, <2>6, <2>8, <2>13, <2>14 DEF Kept
<1>13. CASE ~(n >= rows)
    <2>1. c.row = n /\ n < rows
        BY <1>4, <1>5, <1>10, <1>13
    <2>2. t.con = down
        BY <1>3, <1>4, <1>5, <1>6, <1>8, <2>1
    <2>3. Above(new) = 0 /\ Above(pap) = 0 /\ Len(new) = n + 1
        BY <1>2, <1>3, <1>4, <1>5, <1>7, <2>1 DEF Above
    <2>4. ASSUME NEW r \in 1 .. ConsoleRows, NEW k \in 1 .. ConsoleCols
          PROVE  down.back[<<r, k>>] = Wanted(new, r, k)
        <3>1. r \in Int /\ r >= 1 /\ 0 + r = r
            BY <1>3, <1>4
        <3>2. down.back[<<r, k>>] = Wanted(pap, r, k)
            BY <1>1, <1>8 DEF Lines
        <3>3. Wanted(pap, r, k) = IF r <= n THEN pap[r][k] ELSE 0
            BY <1>2, <2>3, <3>1 DEF Wanted
        <3>4. Wanted(new, r, k) = IF r <= n + 1 THEN new[r][k] ELSE 0
            BY <2>3, <3>1 DEF Wanted
        <3>5. r \in 1 .. n \/ r = n + 1 \/ ~(r <= n + 1)
            BY <1>5, <3>1
        <3>6. r \in 1 .. n => r <= n /\ r <= n + 1
            BY <1>5, <3>1
        <3>7. n + 1 <= n + 1 /\ ~(n + 1 <= n) /\ (~(r <= n + 1) => ~(r <= n))
            BY <1>5, <3>1
        <3> QED BY <1>7, <3>2, <3>3, <3>4, <3>5, <3>6, <3>7, EmptyLineIs
    <2>5. down.row = Len(new) - Above(new)
        BY <1>5, <1>8, <2>1, <2>3
    <2>6. Fine(down, new)
        BY <1>5, <1>7, <1>8, <1>11, <2>3, <2>4, <2>5 DEF Fine, Lines
    <2>7. Kept(c, down)
        BY <1>8, <1>9 DEF Kept, Same, InFront
    <2> QED BY <1>1, <1>6, <2>2, <2>6, <2>7
<1> QED BY <1>12, <1>13

\* A character in the last line, which is shown in the row of the cursor.
LEMMA DrawCharOK ==
    ASSUME NEW s, NEW ch \in Int, NEW t, t = DrawChar(s, ch), Fine(s.con, s.paper)
    PROVE  Fine(t.con, t.paper) /\ Kept(s.con, t.con)
<1>1. PICK c, pap : c = s.con /\ pap = s.paper
    OBVIOUS
<1>2. PICK n : n = Len(pap)
    OBVIOUS
<1>3. PICK row, col : row = c.row /\ col = c.col
    OBVIOUS
<1>4. PICK v : v = 100 * c.colour + ch
    OBVIOUS
<1>5. /\ pap \in Seq(Line) /\ n \in Nat /\ n > 0 /\ DOMAIN c = ConFields /\ c.colour \in Int
      /\ col \in 1 .. ConsoleCols /\ row = n - Above(pap)
    BY <1>1, <1>2, <1>3 DEF Fine, Lines
<1>6. v \in Int
    BY <1>4, <1>5
<1> DEFINE d == [c EXCEPT !.front = SetCell(@, row, col, v), !.back = SetCell(@, row, col, v), !.col = @ + 1]
           new == [pap EXCEPT ![n][col] = v]
           drawn == [con |-> d, paper |-> new]
<1>7. t = IF drawn.con.col > ConsoleCols THEN NextLine(drawn) ELSE drawn
    BY <1>1, <1>2, <1>3, <1>4 DEF DrawChar
<1>8. /\ DOMAIN d = ConFields /\ d.colour = c.colour /\ d.row = row /\ d.col = col + 1
      /\ d.front = SetCell(c.front, row, col, v) /\ d.back = SetCell(c.back, row, col, v)
    BY <1>3, <1>5 DEF ConFields
<1>9. d.fb = c.fb /\ d.active = c.active
    BY <1>5 DEF ConFields
<1>10. n \in 1 .. n
    BY <1>5
<1>11. pap[n] \in Line
    BY <1>2, <1>5, <1>10, ElementOfSeq
<1>12. PICK line : line = [pap[n] EXCEPT ![col] = v]
    OBVIOUS
<1>13. line \in Line /\ line[col] = v /\ \A k \in 1 .. ConsoleCols : k # col => line[k] = pap[n][k]
    BY <1>5, <1>6, <1>11, <1>12 DEF Line
<1>14. new = [pap EXCEPT ![n] = line]
    BY <1>12
<1>15. new \in Seq(Line) /\ Len(new) = n /\ new[n] = line /\ \A i \in 1 .. n : i # n => new[i] = pap[i]
    <2> HIDE DEF new
    <2> QED BY <1>2, <1>5, <1>10, <1>13, <1>14, ExceptSeq
<1>16. drawn.con = d /\ drawn.paper = new
    OBVIOUS
<1> HIDE DEF d, new, drawn
<1>17. ASSUME NEW grid, NEW r \in 1 .. ConsoleRows, NEW k \in 1 .. ConsoleCols
       PROVE  SetCell(grid, row, col, v)[<<r, k>>] = IF r = row /\ k = col THEN v ELSE grid[<<r, k>>]
    BY DEF SetCell, Cells
<1>18. PICK a : a = Above(pap)
    OBVIOUS
<1>19. a \in Nat /\ Above(new) = a /\ row = n - a /\ a + row = n
    <2>1. a \in Nat
        BY <1>2, <1>5, <1>18, SizesAre DEF Above
    <2>2. Above(new) = a
        BY <1>2, <1>15, <1>18 DEF Above
    <2>3. row = n - a
        BY <1>5, <1>18
    <2> QED BY <1>5, <2>1, <2>2, <2>3
<1>20. ASSUME NEW r \in 1 .. ConsoleRows, NEW k \in 1 .. ConsoleCols
       PROVE  /\ d.back[<<r, k>>] = Wanted(new, r, k)
              /\ d.back[<<r, k>>] = IF r = row /\ k = col THEN v ELSE c.back[<<r, k>>]
              /\ d.front[<<r, k>>] = IF r = row /\ k = col THEN v ELSE c.front[<<r, k>>]
    <2>1. /\ d.back[<<r, k>>] = IF r = row /\ k = col THEN v ELSE c.back[<<r, k>>]
          /\ d.front[<<r, k>>] = IF r = row /\ k = col THEN v ELSE c.front[<<r, k>>]
        BY <1>8, <1>17
    <2>2. Wanted(new, r, k) = IF a + r <= n THEN new[a + r][k] ELSE 0
        BY <1>15, <1>19 DEF Wanted
    <2>3. Wanted(pap, r, k) = IF a + r <= n THEN pap[a + r][k] ELSE 0
        BY <1>2, <1>18 DEF Wanted
    <2>4. c.back[<<r, k>>] = Wanted(pap, r, k)
        BY <1>1 DEF Fine, Lines
    <2>5. CASE r = row
        <3>1. a + r = n /\ n <= n
            BY <1>5, <1>19, <2>5
        <3>2. Wanted(new, r, k) = line[k] /\ Wanted(pap, r, k) = pap[n][k]
            BY <1>15, <2>2, <2>3, <3>1
        <3> QED BY <1>13, <2>1, <2>4, <2>5, <3>2
    <2>6. CASE r # row
        <3>1. r \in Int /\ r >= 1
            BY SizesAre
        <3>2. a + r # n /\ (a + r <= n => a + r \in 1 .. n)
            BY <1>5, <1>19, <2>6, <3>1
        <3>3. Wanted(new, r, k) = Wanted(pap, r, k)
            BY <1>15, <2>2, <2>3, <3>2
        <3> QED BY <2>1, <2>4, <2>6, <3>3
    <2> QED BY <2>1, <2>5, <2>6
<1>21. d.row = Len(new) - Above(new)
    BY <1>8, <1>15, <1>19
<1>22. Lines(d, new)
    BY <1>5, <1>8, <1>15, <1>20, <1>21 DEF Lines
<1>23. Kept(c, d)
    <2>1. Same(c) => Same(d)
        BY <1>20 DEF Same
    <2>2. InFront(c) => InFront(d)
        BY <1>20 DEF InFront
    <2> QED BY <1>9, <2>1, <2>2 DEF Kept
<1>24. CASE d.col > ConsoleCols
    <2>1. t = NextLine(drawn)
        BY <1>7, <1>16, <1>24
    <2>2. Fine(t.con, t.paper) /\ Kept(drawn.con, t.con)
        BY <1>16, <1>22, <2>1, NextLineOK
    <2> QED BY <1>1, <1>16, <1>23, <2>2, KeptOn
<1>25. CASE ~(d.col > ConsoleCols)
    <2>1. t = drawn
        BY <1>7, <1>16, <1>25
    <2>2. d.col \in 1 .. ConsoleCols
        BY <1>5, <1>8, <1>25, SizesAre
    <2> QED BY <1>1, <1>16, <1>22, <1>23, <2>1, <2>2 DEF Fine
<1> QED BY <1>24, <1>25

\* A message: its characters one by one, and the next line.
LEMMA FbWriteOK ==
    ASSUME NEW s, NEW colour \in Int, NEW n \in Nat, NEW t, t = FbWrite(s, colour, n),
           DOMAIN s = {"con", "paper"}, s.con.fb, Fine(s.con, s.paper)
    PROVE  Fine(t.con, t.paper) /\ Kept(s.con, t.con)
<1>1. PICK first : first = [s EXCEPT !.con.colour = colour]
    OBVIOUS
<1>2. Fine(first.con, first.paper) /\ Kept(s.con, first.con)
    <2>1. PICK c : c = s.con
        OBVIOUS
    <2>2. PICK d : d = first.con
        OBVIOUS
    <2>3. d = [c EXCEPT !.colour = colour] /\ first.paper = s.paper
        BY <1>1, <2>1, <2>2
    <2>4. DOMAIN c = ConFields
        BY <2>1 DEF Fine, Lines
    <2>5. /\ DOMAIN d = ConFields /\ d.colour = colour /\ d.row = c.row /\ d.col = c.col
          /\ d.front = c.front /\ d.back = c.back
        BY <2>3, <2>4 DEF ConFields
    <2>6. d.fb = c.fb /\ d.active = c.active
        BY <2>3, <2>4 DEF ConFields
    <2>7. Fine(d, s.paper)
        BY <2>1, <2>5 DEF Fine, Lines
    <2>8. Kept(c, d)
        BY <2>5, <2>6 DEF Kept, Same, InFront
    <2> QED BY <2>1, <2>2, <2>3, <2>7, <2>8
<1> DEFINE drawn[i \in 0 .. n] == IF i = 0 THEN first ELSE DrawChar(drawn[i - 1], 1 + (i % 9))
           IsDrawn(g) == g = [i \in 0 .. n |-> IF i = 0 THEN first ELSE DrawChar(g[i - 1], 1 + (i % 9))]
           Good(x) == Fine(x.con, x.paper) /\ Kept(s.con, x.con)
           Up(g, k) == /\ g = [i \in 0 .. k |-> g[i]] /\ g[0] = first
                       /\ \A i \in 1 .. k : g[i] = DrawChar(g[i - 1], 1 + (i % 9))
           T == {k \in Nat : \E g : Up(g, k)}
<1>3. 0 \in T
    <2> DEFINE g == [i \in 0 .. 0 |-> first]
    <2>1. g = [i \in 0 .. 0 |-> g[i]] /\ g[0] = first /\ \A i \in 0 .. 0 : g[i] = first
        OBVIOUS
    <2>2. 1 .. 0 = {}
        OBVIOUS
    <2> HIDE DEF g
    <2>3. Up(g, 0)
        BY <2>1, <2>2
    <2> HIDE DEF Up
    <2> QED BY <2>3
<1>4. ASSUME NEW k \in T PROVE k + 1 \in T
    <2>1. k \in Nat
        OBVIOUS
    <2>2. PICK g : Up(g, k)
        <3> HIDE DEF Up
        <3> QED OBVIOUS
    <2>3. PICK ch : ch = 1 + ((k + 1) % 9)
        OBVIOUS
    <2>4. PICK new : new = DrawChar(g[k], ch)
        OBVIOUS
    <2> DEFINE h == [i \in 0 .. k + 1 |-> IF i = k + 1 THEN new ELSE g[i]]
    <2>5. h = [i \in 0 .. k + 1 |-> h[i]] /\ h[0] = first
        <3>1. 0 \in 0 .. k + 1 /\ 0 # k + 1
            BY <2>1
        <3> QED BY <2>2, <3>1
    <2>6. ASSUME NEW i \in 1 .. k + 1 PROVE h[i] = DrawChar(h[i - 1], 1 + (i % 9))
        <3>1. CASE i = k + 1
            <4>1. i \in 0 .. k + 1 /\ i - 1 \in 0 .. k + 1 /\ i - 1 = k /\ k # k + 1
                BY <2>1, <3>1
            <4>2. h[i] = new /\ h[i - 1] = g[k]
                BY <3>1, <4>1
            <4> QED BY <2>3, <2>4, <3>1, <4>2
        <3>2. CASE i # k + 1
            <4>1. i \in 1 .. k /\ i \in 0 .. k + 1 /\ i - 1 # k + 1 /\ i - 1 \in 0 .. k + 1
                BY <2>1, <3>2
            <4>2. h[i] = g[i] /\ h[i - 1] = g[i - 1]
                BY <3>2, <4>1
            <4> QED BY <2>2, <4>1, <4>2
        <3> QED BY <3>1, <3>2
    <2> HIDE DEF h
    <2>7. Up(h, k + 1)
        BY <2>5, <2>6
    <2> HIDE DEF Up
    <2> QED BY <2>1, <2>7
<1>5. PICK g : Up(g, n)
    <2> HIDE DEF T, Up
    <2>1. T \in SUBSET Nat
        BY DEF T
    <2>2. T = Nat
        BY <1>3, <1>4, <2>1, CountingUp
    <2> QED BY <2>2 DEF T
<1>6. IsDrawn(drawn)
    <2>1. IsDrawn(g)
        <3>1. g = [i \in 0 .. n |-> g[i]]
            BY <1>5
        <3>2. ASSUME NEW i \in 0 .. n
              PROVE  g[i] = IF i = 0 THEN first ELSE DrawChar(g[i - 1], 1 + (i % 9))
            <4>1. i = 0 \/ i \in 1 .. n
                OBVIOUS
            <4> HIDE DEF Good
            <4> QED BY <1>5, <4>1
        <3> HIDE DEF Up
        <3> QED BY <3>1, <3>2
    <2>2. drawn = CHOOSE h : IsDrawn(h)
        OBVIOUS
    <2> HIDE DEF drawn, IsDrawn
    <2> QED BY <2>1, <2>2
<1>7. drawn[0] = first /\ \A i \in 1 .. n : drawn[i] = DrawChar(drawn[i - 1], 1 + (i % 9))
    <2> HIDE DEF drawn
    <2>1. 0 \in 0 .. n
        OBVIOUS
    <2>2. ASSUME NEW i \in 1 .. n PROVE i \in 0 .. n /\ i # 0
        OBVIOUS
    <2> QED BY <1>6, <2>1, <2>2
<1>8. t = NextLine(drawn[n])
    BY <1>1, Zenon DEF FbWrite
<1> DEFINE U == {k \in Nat : k <= n => Good(drawn[k])}
<1> HIDE DEF drawn, Good, T, Up, IsDrawn
<1>9. 0 \in U
    BY <1>2, <1>7 DEF Good
<1>10. ASSUME NEW k \in U PROVE k + 1 \in U
    <2>1. k \in Nat
        OBVIOUS
    <2> SUFFICES ASSUME k + 1 <= n PROVE Good(drawn[k + 1])
        BY <2>1
    <2>2. k <= n /\ k + 1 \in 1 .. n /\ (k + 1) - 1 = k
        BY <2>1
    <2>3. PICK ch : ch = 1 + ((k + 1) % 9)
        OBVIOUS
    <2>4. ch \in Int
        BY <2>1, <2>3
    <2>5. PICK old, new : old = drawn[k] /\ new = DrawChar(old, ch)
        OBVIOUS
    <2>6. drawn[k + 1] = new
        BY <1>7, <2>2, <2>3, <2>5
    <2>7. Good(old)
        BY <2>2, <2>5
    <2>8. Fine(new.con, new.paper) /\ Kept(old.con, new.con)
        BY <2>4, <2>5, <2>7, DrawCharOK DEF Good
    <2> QED BY <2>6, <2>7, <2>8, KeptOn DEF Good
<1> HIDE DEF U
<1>11. Good(drawn[n])
    <2>1. U \in SUBSET Nat
        BY DEF U
    <2>2. U = Nat
        BY <1>9, <1>10, <2>1, CountingUp
    <2> QED BY <2>2 DEF U
<1>12. PICK last : last = drawn[n]
    OBVIOUS
<1>13. Fine(t.con, t.paper) /\ Kept(last.con, t.con)
    BY <1>8, <1>11, <1>12, NextLineOK DEF Good, Fine
<1> QED BY <1>11, <1>12, <1>13, KeptOn DEF Good

Wiped(c) == \A r \in 1 .. ConsoleRows, k \in 1 .. ConsoleCols : c.back[<<r, k>>] = 0

\* What is on the paper is on the screen.  While a process has the
\* framebuffer there is nothing to show, so that a panic may just go on; and
\* until there is memory for a back buffer, both buffers are one.
Showing(c, pap, mem) ==
    /\ DOMAIN c = ConFields /\ c.colour \in Int
    /\ c.fb => /\ Fine(c, pap)
               /\ c.active => InFront(c)
               /\ ~c.active => Wiped(c)
               /\ ~mem => Same(c)

LEMMA WipedInFront ==
    ASSUME NEW c, Wiped(c)
    PROVE  InFront(c)
BY DEF Wiped, InFront

LEMMA FbClears ==
    ASSUME NEW s, NEW t, t = FbClear(s), DOMAIN s.con = ConFields, s.con.colour \in Int
    PROVE  /\ Fine(t.con, t.paper) /\ Same(t.con) /\ Wiped(t.con)
           /\ t.con.fb = s.con.fb /\ t.con.active
<1>1. PICK c, d : c = s.con /\ d = t.con
    OBVIOUS
<1>2. /\ d = [c EXCEPT !.front = EmptyGrid, !.back = EmptyGrid, !.row = 1, !.col = 1, !.active = TRUE]
      /\ t.paper = <<EmptyLine>>
    BY <1>1 DEF FbClear
<1>3. DOMAIN c = ConFields /\ c.colour \in Int
    BY <1>1
<1>4. /\ DOMAIN d = ConFields /\ d.colour = c.colour /\ d.row = 1 /\ d.col = 1
      /\ d.front = EmptyGrid /\ d.back = EmptyGrid
    BY <1>2, <1>3 DEF ConFields
<1>5. d.fb = c.fb
    BY <1>2, <1>3 DEF ConFields
<1>6. d.active
    BY <1>2, <1>3, Zenon DEF ConFields
<1>7. ASSUME NEW r \in 1 .. ConsoleRows, NEW k \in 1 .. ConsoleCols PROVE EmptyGrid[<<r, k>>] = 0
    BY DEF EmptyGrid, Cells
<1>8. PICK pap : pap = <<EmptyLine>>
    OBVIOUS
<1>9. pap \in Seq(Line) /\ Len(pap) = 1 /\ pap[1] = EmptyLine
    BY <1>8, EmptyLineIs
<1>10. Above(pap) = 0
    BY <1>9, SizesAre DEF Above
<1>11. ASSUME NEW r \in 1 .. ConsoleRows, NEW k \in 1 .. ConsoleCols PROVE Wanted(pap, r, k) = 0
    <2>1. r \in Int /\ r >= 1 /\ 0 + r = r /\ (r <= 1 => r = 1)
        BY SizesAre
    <2>2. Wanted(pap, r, k) = IF r <= 1 THEN pap[r][k] ELSE 0
        BY <1>9, <1>10, <2>1 DEF Wanted
    <2> QED BY <1>9, <2>1, <2>2, EmptyLineIs
<1>12. 1 \in 1 .. ConsoleCols
    BY SizesAre
<1>13. Lines(d, pap)
    BY <1>3, <1>4, <1>7, <1>9, <1>10, <1>11 DEF Lines
<1>14. Fine(d, pap)
    BY <1>4, <1>12, <1>13 DEF Fine
<1>15. Same(d) /\ Wiped(d)
    BY <1>4, <1>7 DEF Same, Wiped
<1> QED BY <1>1, <1>2, <1>5, <1>6, <1>8, <1>14, <1>15

LEMMA LogAppendShows ==
    ASSUME NEW s, NEW n \in Nat, NEW colour \in Int, NEW mem, NEW t, t = LogAppend(s, n, colour),
           Showing(s.con, s.paper, mem)
    PROVE  Showing(t.con, t.paper, mem)
<1>1. PICK at : at = [con |-> s.con, paper |-> s.paper]
    OBVIOUS
<1>2. DOMAIN at = {"con", "paper"} /\ at.con = s.con /\ at.paper = s.paper
    BY <1>1
<1>3. PICK to : to = IF s.con.active THEN FbWrite(at, colour, n) ELSE at
    OBVIOUS
<1>4. t.con = to.con /\ t.paper = to.paper
    BY <1>1, <1>3 DEF LogAppend
<1>5. CASE ~s.con.active
    <2>1. to = at
        BY <1>3, <1>5
    <2> QED BY <1>2, <1>4, <2>1
<1>6. CASE s.con.active /\ ~s.con.fb
    <2>1. FbWrite(at, colour, n) = at
        BY <1>2, <1>6 DEF FbWrite
    <2>2. to = at
        BY <1>3, <1>6, <2>1
    <2> QED BY <1>2, <1>4, <2>2
<1>7. CASE s.con.active /\ s.con.fb
    <2>1. to = FbWrite(at, colour, n)
        BY <1>3, <1>7
    <2>2. Fine(at.con, at.paper) /\ at.con.fb
        BY <1>2, <1>7 DEF Showing
    <2>3. Fine(to.con, to.paper) /\ Kept(at.con, to.con)
        BY <1>2, <2>1, <2>2, FbWriteOK
    <2>4. InFront(s.con) /\ (~mem => Same(s.con))
        BY <1>7 DEF Showing
    <2>5. to.con.active /\ InFront(to.con) /\ (~mem => Same(to.con))
        BY <1>2, <1>7, <2>3, <2>4, Zenon DEF Kept
    <2>6. DOMAIN to.con = ConFields /\ to.con.colour \in Int
        BY <2>3 DEF Fine, Lines
    <2>7. Showing(to.con, to.paper, mem)
        BY <2>3, <2>5, <2>6 DEF Showing
    <2> QED BY <1>4, <2>7
<1> QED BY <1>5, <1>6, <1>7

ConsoleInv == Showing(con, paper, memory)

LEMMA ShowingShows == ConsoleInv => ConsoleShowsLatest
<1> SUFFICES ASSUME ConsoleInv, con.fb PROVE ConsoleShowsLatest
    BY DEF ConsoleShowsLatest
<1>1. Fine(con, paper) /\ (con.active => InFront(con))
    BY DEF ConsoleInv, Showing
<1>2. con.row = Len(paper) - Above(paper)
    BY <1>1 DEF Fine, Lines
<1>3. ASSUME NEW p \in Cells
      PROVE  /\ con.back[p] = IF Above(paper) + p[1] <= Len(paper) THEN paper[Above(paper) + p[1]][p[2]] ELSE 0
             /\ con.active /\ con.back[p] # 0 => con.front[p] = con.back[p]
    <2>1. PICK r \in 1 .. ConsoleRows, k \in 1 .. ConsoleCols : p = <<r, k>>
        BY DEF Cells
    <2>2. p[1] = r /\ p[2] = k
        BY <2>1
    <2>3. con.back[<<r, k>>] = Wanted(paper, r, k)
        BY <1>1 DEF Fine, Lines
    <2>4. con.active /\ con.back[<<r, k>>] # 0 => con.front[<<r, k>>] = con.back[<<r, k>>]
        BY <1>1 DEF InFront
    <2> QED BY <2>1, <2>2, <2>3, <2>4 DEF Wanted
<1> QED BY <1>2, <1>3, Zenon DEF ConsoleShowsLatest, Above

LEMMA HaltShows ==
    ASSUME NEW sizes \in Seq(Nat), ConsoleInv, Halt(sizes)
    PROVE  Showing(con', paper', memory)
<1>1. PICK g : /\ g[0] = [Kernel EXCEPT !.con.active = TRUE]
               /\ \A i \in 1 .. Len(sizes) : g[i] = LogAppend(g[i - 1], sizes[i], 5)
               /\ Becomes(g[Len(sizes)])
    BY HaltSays
<1>2. PICK n : n = Len(sizes)
    OBVIOUS
<1>3. n \in Nat
    BY <1>2
<1> DEFINE Is(x) == Showing(x.con, x.paper, memory)
           T == {k \in Nat : k <= n => Is(g[k])}
<1>4. Is(g[0])
    <2>1. PICK c : c = g[0].con
        OBVIOUS
    <2>2. c = [con EXCEPT !.active = TRUE] /\ g[0].paper = paper
        BY <1>1, <2>1 DEF Kernel
    <2>3. DOMAIN con = ConFields /\ con.colour \in Int
        BY DEF ConsoleInv, Showing
    <2>4. /\ DOMAIN c = ConFields /\ c.colour = con.colour /\ c.row = con.row /\ c.col = con.col
          /\ c.front = con.front /\ c.back = con.back
        BY <2>2, <2>3 DEF ConFields
    <2>5. c.fb = con.fb
        BY <2>2, <2>3 DEF ConFields
    <2>6. c.active
        BY <2>2, <2>3, Zenon DEF ConFields
    <2>7. ASSUME con.fb PROVE Fine(c, paper) /\ InFront(c) /\ (~memory => Same(c))
        <3>1. Fine(con, paper) /\ InFront(con) /\ (~memory => Same(con))
            BY <2>7, WipedInFront, Zenon DEF ConsoleInv, Showing
        <3>2. Fine(c, paper)
            BY <2>4, <3>1 DEF Fine, Lines
        <3>3. InFront(c) /\ (~memory => Same(c))
            BY <2>4, <3>1 DEF InFront, Same
        <3> QED BY <3>2, <3>3
    <2>8. Showing(c, paper, memory)
        BY <2>3, <2>4, <2>5, <2>6, <2>7 DEF Showing
    <2> QED BY <2>1, <2>2, <2>8
<1> HIDE DEF Is
<1>5. 0 \in T
    BY <1>4
<1>6. ASSUME NEW k \in T PROVE k + 1 \in T
    <2>1. k \in Nat
        OBVIOUS
    <2> SUFFICES ASSUME k + 1 <= n PROVE Is(g[k + 1])
        BY <2>1
    <2>2. k <= n /\ k + 1 \in 1 .. n /\ (k + 1) - 1 = k
        BY <1>3, <2>1
    <2>3. Is(g[k])
        BY <2>2
    <2>4. PICK x, y : x = g[k] /\ y = g[k + 1]
        OBVIOUS
    <2>5. PICK m : m = sizes[k + 1]
        OBVIOUS
    <2>6. y = LogAppend(x, m, 5)
        BY <1>1, <1>2, <2>2, <2>4, <2>5
    <2>7. m \in Nat
        BY <1>2, <2>2, <2>5, ElementOfSeq
    <2>8. Showing(x.con, x.paper, memory) /\ 5 \in Int
        BY <2>3, <2>4 DEF Is
    <2>9. PICK five, mem : five = 5 /\ mem = memory
        OBVIOUS
    <2>10. Showing(y.con, y.paper, mem)
        <3>1. five \in Int /\ y = LogAppend(x, m, five) /\ Showing(x.con, x.paper, mem)
            BY <2>6, <2>8, <2>9
        <3> QED BY <2>7, <3>1, LogAppendShows
    <2> QED BY <2>4, <2>9, <2>10 DEF Is
<1> HIDE DEF T
<1>7. n \in T
    <2>1. T \in SUBSET Nat
        BY DEF T
    <2> QED BY <1>3, <1>5, <1>6, <2>1, CountingUp
<1>8. Is(g[n])
    BY <1>3, <1>7 DEF T
<1> QED BY <1>1, <1>2, <1>8 DEF Becomes, Is

LEMMA ConsoleInitInv == ConsoleInit => ConsoleInv
<1> SUFFICES ASSUME ConsoleInit PROVE ConsoleInv
    OBVIOUS
<1>1. DOMAIN con = ConFields /\ con.colour = 15
    BY DEF ConsoleInit, ConFields
<1>2. ~con.fb
    BY Zenon DEF ConsoleInit
<1> QED BY <1>1, <1>2 DEF ConsoleInv, Showing

LEMMA ConsoleStepInv ==
    ASSUME ConsoleInv, ConsoleStep
    PROVE  ConsoleInv'
<1>1. DOMAIN con = ConFields /\ con.colour \in Int
    BY DEF ConsoleInv, Showing
<1> SUFFICES Showing(con', paper', memory')
    BY DEF ConsoleInv
<1>2. CASE Log
    <2>1. PICK n \in MessageSizes, colour \in LevelColours, fails \in {FALSE, memory} :
              Becomes(IF fails THEN LogAppend(LogAppend(Kernel, n, colour), EfiError, 1) ELSE LogAppend(Kernel, n, colour))
        BY <1>2, Zenon DEF Log
    <2>2. n \in Nat /\ colour \in Int
        BY <2>1, ConsoleAssumption
    <2>3. PICK told : told = LogAppend(Kernel, n, colour)
        OBVIOUS
    <2>4. Showing(told.con, told.paper, memory)
        <3>1. Kernel.con = con /\ Kernel.paper = paper
            BY DEF Kernel
        <3> QED BY <2>2, <2>3, <3>1, LogAppendShows DEF ConsoleInv
    <2>5. PICK both : both = LogAppend(told, 2, 1)
        OBVIOUS
    <2>6. Showing(both.con, both.paper, memory)
        <3>1. 2 \in Nat /\ 1 \in Int
            OBVIOUS
        <3> QED BY <2>4, <2>5, <3>1, LogAppendShows
    <2>7. memory' = memory
        BY <1>2 DEF Log
    <2>8. CASE fails
        <3>1. Becomes(both)
            BY <2>1, <2>3, <2>5, <2>8, Zenon DEF EfiError
        <3> QED BY <2>6, <2>7, <3>1 DEF Becomes
    <2>9. CASE ~fails
        <3>1. Becomes(told)
            BY <2>1, <2>3, <2>9, Zenon
        <3> QED BY <2>4, <2>7, <3>1 DEF Becomes
    <2> QED BY <2>8, <2>9
<1>3. CASE FbInit
    <2> DEFINE before(fb) == [Kernel EXCEPT !.con.fb = fb, !.con.active = TRUE]
               cleared(fb) == IF fb THEN FbClear([con |-> before(fb).con, paper |-> before(fb).paper]) ELSE before(fb)
               ready(fb) == [before(fb) EXCEPT !.con = cleared(fb).con, !.paper = cleared(fb).paper]
    <2>1. PICK fb \in BOOLEAN : Becomes(LogAppend(ready(fb), 2, IF fb THEN 8 ELSE 15))
        BY <1>3, Zenon DEF FbInit
    <2>2. memory' = memory
        BY <1>3 DEF FbInit
    <2>3. PICK b, e, x : b = before(fb) /\ e = cleared(fb) /\ x = ready(fb)
        OBVIOUS
    <2>4. PICK c : c = b.con
        OBVIOUS
    <2>5. DOMAIN b = {"log", "con", "paper"} /\ c = [[con EXCEPT !.fb = fb] EXCEPT !.active = TRUE]
        BY <2>3, <2>4 DEF Kernel
    <2>6. DOMAIN c = ConFields /\ c.colour \in Int
        BY <1>1, <2>5 DEF ConFields
    <2>7. c.fb = fb
        BY <1>1, <2>5, Zenon DEF ConFields
    <2>8. x.con = e.con /\ x.paper = e.paper
        <3>1. x = [b EXCEPT !.con = e.con, !.paper = e.paper]
            BY <2>3
        <3> HIDE DEF before, cleared, ready
        <3> QED BY <2>5, <3>1
    <2>9. Showing(e.con, e.paper, memory)
        <3>1. CASE fb
            <4>1. PICK w : w = [con |-> b.con, paper |-> b.paper]
                OBVIOUS
            <4>2. e = FbClear(w) /\ w.con = c
                BY <2>3, <2>4, <3>1, <4>1
            <4> HIDE DEF before, cleared, ready
            <4>3. Fine(e.con, e.paper) /\ Same(e.con) /\ Wiped(e.con) /\ e.con.active
                BY <2>6, <4>2, FbClears
            <4>4. DOMAIN e.con = ConFields /\ e.con.colour \in Int
                BY <4>3 DEF Fine, Lines
            <4> QED BY <4>3, <4>4, WipedInFront DEF Showing
        <3>2. CASE ~fb
            <4>1. e.con = c
                BY <2>3, <2>4, <3>2
            <4> HIDE DEF before, cleared, ready
            <4>2. ~c.fb
                BY <2>7, <3>2
            <4> QED BY <2>6, <4>1, <4>2 DEF Showing
        <3> QED BY <3>1, <3>2
    <2>10. PICK colour, to : colour = (IF fb THEN 8 ELSE 15) /\ to = LogAppend(x, 2, colour)
        OBVIOUS
    <2>11. Becomes(to)
        BY <2>1, <2>3, <2>10, Zenon
    <2> HIDE DEF before, cleared, ready
    <2>12. colour \in Int /\ 2 \in Nat
        BY <2>10
    <2>13. Showing(to.con, to.paper, memory)
        BY <2>8, <2>9, <2>10, <2>12, LogAppendShows
    <2> QED BY <2>2, <2>11, <2>13 DEF Becomes
<1>4. CASE MemoryUp
    <2>1. paper' = paper /\ memory' /\ ~memory /\ con.active
        BY <1>4 DEF MemoryUp
    <2>2. CASE con.fb
        <3>1. PICK c : c = con'
            OBVIOUS
        <3>2. c = [con EXCEPT !.back = con.front]
            BY <1>4, <2>2, <3>1 DEF MemoryUp
        <3>3. /\ DOMAIN c = ConFields /\ c.colour = con.colour /\ c.row = con.row /\ c.col = con.col
              /\ c.front = con.front /\ c.back = con.front
            BY <1>1, <3>2 DEF ConFields
        <3>4. c.fb = con.fb /\ c.active = con.active
            BY <1>1, <3>2 DEF ConFields
        <3>5. Fine(con, paper) /\ Same(con)
            BY <2>1, <2>2, Zenon DEF ConsoleInv, Showing
        <3>6. Fine(c, paper)
            BY <3>3, <3>5 DEF Fine, Lines, Same
        <3>7. InFront(c) /\ Same(c)
            BY <3>3 DEF InFront, Same
        <3>8. c.active
            BY <2>1, <3>4, Zenon
        <3>9. Showing(c, paper, memory')
            BY <1>1, <3>3, <3>6, <3>7, <3>8 DEF Showing
        <3> QED BY <2>1, <3>1, <3>9
    <2>3. CASE ~con.fb
        <3>1. con' = con
            BY <1>4, <2>3 DEF MemoryUp
        <3> QED BY <1>1, <2>3, <3>1 DEF Showing
    <2> QED BY <2>2, <2>3
<1>5. CASE Framebuffer
    <2>1. PICK w : w = [con |-> con, paper |-> paper]
        OBVIOUS
    <2>2. PICK e : e = IF con.fb THEN FbClear(w) ELSE w
        OBVIOUS
    <2>3. PICK c : c = [e.con EXCEPT !.active = ~con.fb]
        OBVIOUS
    <2>4. PICK s : s = [log |-> klog, con |-> c, paper |-> e.paper]
        OBVIOUS
    <2>5. PICK to : to = LogAppend(s, 2, 8)
        OBVIOUS
    <2>6. Becomes(to) /\ memory' = memory /\ memory
        BY <1>5, <2>1, <2>2, <2>3, <2>4, <2>5, Zenon DEF Framebuffer
    <2>7. w.con = con
        BY <2>1
    <2>8. Showing(c, e.paper, memory)
        <3>1. CASE con.fb
            <4>1. e = FbClear(w)
                BY <2>2, <3>1
            <4>2. Fine(e.con, e.paper) /\ Same(e.con) /\ Wiped(e.con)
                BY <1>1, <2>7, <4>1, FbClears
            <4>3. PICK d : d = e.con
                OBVIOUS
            <4>4. DOMAIN d = ConFields /\ d.colour \in Int
                BY <4>2, <4>3 DEF Fine, Lines
            <4>5. c = [d EXCEPT !.active = FALSE]
                BY <2>3, <3>1, <4>3, Zenon
            <4>6. /\ DOMAIN c = ConFields /\ c.colour = d.colour /\ c.row = d.row /\ c.col = d.col
                  /\ c.front = d.front /\ c.back = d.back
                BY <4>4, <4>5 DEF ConFields
            <4>7. ~c.active
                BY <4>4, <4>5, Zenon DEF ConFields
            <4>8. Fine(c, e.paper)
                BY <4>2, <4>3, <4>6 DEF Fine, Lines
            <4>9. Same(c) /\ Wiped(c)
                BY <4>2, <4>3, <4>6 DEF Same, Wiped
            <4> QED BY <4>4, <4>6, <4>7, <4>8, <4>9 DEF Showing
        <3>2. CASE ~con.fb
            <4>1. e = w
                BY <2>2, <3>2
            <4>2. c = [con EXCEPT !.active = ~con.fb]
                BY <2>3, <2>7, <4>1
            <4>3. DOMAIN c = ConFields /\ c.colour \in Int
                BY <1>1, <4>2 DEF ConFields
            <4>4. c.fb = con.fb
                BY <1>1, <4>2 DEF ConFields
            <4>5. ~c.fb
                BY <3>2, <4>4
            <4> QED BY <4>3, <4>5 DEF Showing
        <3> QED BY <3>1, <3>2
    <2>9. s.con = c /\ s.paper = e.paper /\ 2 \in Nat /\ 8 \in Int
        BY <2>4
    <2>10. Showing(to.con, to.paper, memory)
        BY <2>5, <2>8, <2>9, LogAppendShows
    <2> QED BY <2>6, <2>10 DEF Becomes
<1>6. CASE ProcessDraws
    <2>1. paper' = paper /\ memory' = memory /\ memory /\ ~con.active /\ con.fb
        BY <1>6 DEF ProcessDraws
    <2>2. PICK c : c = con'
        OBVIOUS
    <2>3. c = [con EXCEPT !.front = [p \in Cells |-> 7]]
        BY <1>6, <2>2 DEF ProcessDraws
    <2>4. /\ DOMAIN c = ConFields /\ c.colour = con.colour /\ c.row = con.row /\ c.col = con.col
          /\ c.back = con.back
        BY <1>1, <2>3 DEF ConFields
    <2>5. c.active = con.active
        BY <1>1, <2>3 DEF ConFields
    <2>6. Fine(con, paper) /\ Wiped(con)
        BY <2>1, Zenon DEF ConsoleInv, Showing
    <2>7. Fine(c, paper)
        BY <2>4, <2>6 DEF Fine, Lines
    <2>8. Wiped(c) /\ ~c.active
        BY <2>1, <2>4, <2>5, <2>6 DEF Wiped
    <2>9. Showing(c, paper, memory)
        BY <1>1, <2>1, <2>4, <2>7, <2>8 DEF Showing
    <2> QED BY <2>1, <2>2, <2>9
<1>7. CASE PanicMessage
    <2>1. memory' = memory
        BY <1>7 DEF PanicMessage, Halt
    <2> QED BY <1>7, <2>1, HaltShows, ConsoleAssumption DEF PanicMessage
<1>8. CASE PanicCpu
    <2>1. PICK more : more = Append(PanicSizes, Last(PanicSizes))
        OBVIOUS
    <2>2. Halt(more)
        BY <1>8, <2>1 DEF PanicCpu
    <2>3. memory' = memory
        BY <2>2 DEF Halt
    <2> QED BY <2>1, <2>2, <2>3, HaltShows, MoreMessages
<1> QED BY <1>2, <1>3, <1>4, <1>5, <1>6, <1>7, <1>8 DEF ConsoleStep

LEMMA ConsoleAlways == TerminalSpec => []ConsoleInv
<1>1. TerminalInit => ConsoleInv
    BY ConsoleInitInv DEF TerminalInit
<1>2. ConsoleInv /\ [TerminalNext]_terminalVars => ConsoleInv'
    <2> SUFFICES ASSUME ConsoleInv, [TerminalNext]_terminalVars PROVE ConsoleInv'
        OBVIOUS
    <2>1. ConsoleStep \/ UNCHANGED consoleVars
        BY Zenon DEF TerminalNext, terminalVars
    <2>2. CASE UNCHANGED consoleVars
        BY <2>2, Zenon DEF consoleVars, ConsoleInv
    <2> QED BY <2>1, <2>2, ConsoleStepInv
<1> QED BY <1>1, <1>2, PTL DEF TerminalSpec, terminalVars

\* Whatever is written, in any order of messages, scrolls, a process that
\* takes the framebuffer and draws, and a panic that takes it back: the
\* console shows the end of what was written.
THEOREM ConsoleIsCurrent == TerminalSpec => []ConsoleShowsLatest
BY ConsoleAlways, ShowingShows, PTL

-----------------------------------------------------------------------------
(* libvterm's screen: what is drawn *)


TermFields ==
    {"pos", "phantom", "top", "bottom", "left", "right", "tabs", "modes", "mouse", "protocol", "shape", "pen",
     "protected", "gl", "single", "charset", "saved", "last", "reply", "info", "cells", "reverse", "cursor",
     "picture", "ghosts", "hung"}

Shaped(t) == DOMAIN t = TermFields /\ DOMAIN t.info = 0 .. Rows - 1

RowNumbers == 0 .. Rows - 1
ColNumbers == 0 .. Cols - 1

\* The picture is right, but for some positions.
RightAt(t, p) == t.picture[p] = Rendered(t, p)
CurrentBut(t, but) ==
    \A r \in RowNumbers, c \in ColNumbers : c < RowWidth(t, r) /\ <<r, c>> \notin but => RightAt(t, <<r, c>>)

\* What the picture depends on.
Looks(t, u) ==
    /\ u.cells = t.cells /\ u.picture = t.picture /\ u.reverse = t.reverse /\ u.cursor = t.cursor /\ u.ghosts = t.ghosts
    /\ u.info = t.info

\* What is no concern of the screen.
Stays(t, u) ==
    /\ u.pos = t.pos /\ u.top = t.top /\ u.bottom = t.bottom /\ u.left = t.left /\ u.right = t.right
    /\ u.tabs = t.tabs /\ u.saved = t.saved /\ u.hung = t.hung

\* Something was drawn: what was right stays right.
Drawn(t, u) ==
    /\ Shaped(u) /\ Stays(t, u) /\ u.cursor = t.cursor /\ u.ghosts = t.ghosts
    /\ \A but : CurrentBut(t, but) => CurrentBut(u, but)

LEMMA DrawnOn ==
    ASSUME NEW t, NEW u, NEW v, Drawn(t, u), Drawn(u, v)
    PROVE  Drawn(t, v)
BY Zenon DEF Drawn, Stays

LEMMA DrawnNothing ==
    ASSUME NEW t, Shaped(t)
    PROVE  Drawn(t, t)
BY Zenon DEF Drawn, Stays

LEMMA RenderedSame ==
    ASSUME NEW t, NEW u, NEW p, u.cells[p] = t.cells[p], u.reverse = t.reverse, u.cursor = t.cursor
    PROVE  Rendered(u, p) = Rendered(t, p)
BY Zenon DEF Rendered

LEMMA WidthsAre ==
    ASSUME NEW t, NEW r
    PROVE  /\ RowWidth(t, r) \in 1 .. Cols
           /\ Rows \in Nat /\ Cols \in Nat /\ Rows > 0 /\ Cols > 1
           /\ Cols \div 2 \in 1 .. Cols
<1>1. Rows \in Nat /\ Cols \in Nat /\ Rows > 0 /\ Cols > 1
    BY ScreenAssumption
<1>2. Cols \div 2 \in 1 .. Cols
    BY <1>1
<1>3. Cols \in 1 .. Cols
    BY <1>1
<1> QED BY <1>1, <1>2, <1>3 DEF RowWidth

LEMMA LooksCurrent ==
    ASSUME NEW t, NEW u, Looks(t, u), NEW but, CurrentBut(t, but)
    PROVE  CurrentBut(u, but)
<1> SUFFICES ASSUME NEW r \in RowNumbers, NEW c \in ColNumbers, c < RowWidth(u, r), <<r, c>> \notin but
             PROVE  RightAt(u, <<r, c>>)
    BY DEF CurrentBut
<1>1. RowWidth(u, r) = RowWidth(t, r)
    BY DEF Looks, RowWidth
<1>2. RightAt(t, <<r, c>>)
    BY <1>1 DEF CurrentBut
<1>3. Rendered(u, <<r, c>>) = Rendered(t, <<r, c>>)
    BY RenderedSame, Zenon DEF Looks
<1> QED BY <1>2, <1>3 DEF RightAt, Looks

\* Damage makes a rectangle right.
LEMMA DamageRights ==
    ASSUME NEW t, Shaped(t), NEW rect, NEW but, NEW rest, CurrentBut(t, but), but \subseteq rest \cup rect,
           NEW u, u = Damage(t, rect)
    PROVE  CurrentBut(u, rest)
<1> DEFINE new == [p \in Positions |-> IF p \in rect THEN Rendered(t, p) ELSE t.picture[p]]
<1>1. u = [t EXCEPT !.picture = new]
    BY DEF Damage
<1>2. DOMAIN t = TermFields
    BY DEF Shaped
<1>3. u.picture = new /\ u.cells = t.cells /\ u.cursor = t.cursor /\ u.ghosts = t.ghosts /\ u.info = t.info
    <2> HIDE DEF new
    <2> QED BY <1>1, <1>2 DEF TermFields
<1>4. u.reverse = t.reverse
    <2> HIDE DEF new
    <2> QED BY <1>1, <1>2 DEF TermFields
<1> SUFFICES ASSUME NEW r \in RowNumbers, NEW c \in ColNumbers, c < RowWidth(u, r), <<r, c>> \notin rest
             PROVE  RightAt(u, <<r, c>>)
    BY DEF CurrentBut
<1>5. PICK p : p = <<r, c>>
    OBVIOUS
<1>6. p \in Positions
    BY <1>5 DEF Positions, RowNumbers, ColNumbers
<1>7. new[p] = IF p \in rect THEN Rendered(t, p) ELSE t.picture[p]
    BY <1>6
<1> HIDE DEF new
<1>8. RowWidth(u, r) = RowWidth(t, r)
    BY <1>3 DEF RowWidth
<1>9. Rendered(u, p) = Rendered(t, p)
    BY <1>3, <1>4, RenderedSame
<1>10. p \in rect \/ t.picture[p] = Rendered(t, p)
    BY <1>5, <1>8 DEF CurrentBut, RightAt
<1>11. u.picture[p] = Rendered(t, p)
    BY <1>3, <1>7, <1>10
<1> QED BY <1>5, <1>9, <1>11 DEF RightAt

LEMMA DamageStays ==
    ASSUME NEW t, Shaped(t), NEW rect, NEW u, u = Damage(t, rect)
    PROVE  Shaped(u) /\ Stays(t, u) /\ u.cursor = t.cursor /\ u.ghosts = t.ghosts /\ u.info = t.info /\ u.modes = t.modes
<1>1. PICK new : u = [t EXCEPT !.picture = new]
    BY DEF Damage
<1> QED BY <1>1 DEF Shaped, Stays, TermFields

LEMMA DamageDraws ==
    ASSUME NEW t, Shaped(t), NEW rect, NEW u, u = Damage(t, rect)
    PROVE  Drawn(t, u)
<1>1. ASSUME NEW but, CurrentBut(t, but) PROVE CurrentBut(u, but)
    <2>1. but \subseteq but \cup rect
        OBVIOUS
    <2> QED BY <1>1, <2>1, DamageRights
<1> QED BY <1>1, DamageStays DEF Drawn

AsOutside(t, cells, rect) ==
    \A r \in RowNumbers, c \in ColNumbers : <<r, c>> \notin rect => cells[<<r, c>>] = t.cells[<<r, c>>]

\* Cells that have changed have to be drawn.
LEMMA CellsChange ==
    ASSUME NEW t, Shaped(t), NEW cells, NEW rect, AsOutside(t, cells, rect),
           NEW u, u = [t EXCEPT !.cells = cells]
    PROVE  /\ Shaped(u) /\ Stays(t, u) /\ u.cursor = t.cursor /\ u.ghosts = t.ghosts /\ u.info = t.info
           /\ \A but : CurrentBut(t, but) => CurrentBut(u, but \cup rect)
<1>1. DOMAIN t = TermFields
    BY DEF Shaped
<1>2. u.cells = cells /\ u.picture = t.picture /\ u.cursor = t.cursor /\ u.ghosts = t.ghosts /\ u.info = t.info
    BY <1>1 DEF TermFields
<1>3. u.reverse = t.reverse
    BY <1>1 DEF TermFields
<1>4. Shaped(u) /\ Stays(t, u)
    BY DEF Shaped, Stays, TermFields
<1>5. ASSUME NEW but, CurrentBut(t, but), NEW r \in RowNumbers, NEW c \in ColNumbers, c < RowWidth(u, r),
             <<r, c>> \notin but \cup rect
      PROVE  RightAt(u, <<r, c>>)
    <2>1. PICK p : p = <<r, c>>
        OBVIOUS
    <2>2. RowWidth(u, r) = RowWidth(t, r)
        BY <1>2 DEF RowWidth
    <2>3. t.picture[p] = Rendered(t, p)
        BY <1>5, <2>1, <2>2 DEF CurrentBut, RightAt
    <2>4. u.cells[p] = t.cells[p]
        BY <1>2, <1>5, <2>1 DEF AsOutside
    <2>5. Rendered(u, p) = Rendered(t, p)
        BY <1>2, <1>3, <2>4, RenderedSame
    <2> QED BY <1>2, <2>1, <2>3, <2>5 DEF RightAt
<1> QED BY <1>2, <1>4, <1>5 DEF CurrentBut

LEMMA PutGlyphDraws ==
    ASSUME NEW t, Shaped(t), NEW ch, NEW p, NEW u, u = PutGlyph(t, ch, p)
    PROVE  Drawn(t, u) /\ \A but : CurrentBut(t, but) => CurrentBut(u, but \ {p})
<1> DEFINE cell == [ch |-> ch, pen |-> t.pen, protected |-> t.protected]
           cells == [q \in Positions |-> IF q = p THEN cell ELSE t.cells[q]]
<1>1. PICK v : v = [t EXCEPT !.cells = cells]
    OBVIOUS
<1>2. u = Damage(v, {p})
    BY <1>1 DEF PutGlyph
<1>3. ASSUME NEW r \in RowNumbers, NEW c \in ColNumbers, <<r, c>> \notin {p}
      PROVE  cells[<<r, c>>] = t.cells[<<r, c>>]
    <2> HIDE DEF cell
    <2>1. <<r, c>> \in Positions
        BY DEF Positions, RowNumbers, ColNumbers
    <2> QED BY <1>3, <2>1
<1> HIDE DEF cells
<1>4. /\ Shaped(v) /\ Stays(t, v) /\ v.cursor = t.cursor /\ v.ghosts = t.ghosts /\ v.info = t.info
      /\ \A but : CurrentBut(t, but) => CurrentBut(v, but \cup {p})
    <2>1. PICK rect : rect = {p}
        OBVIOUS
    <2>2. AsOutside(t, cells, rect)
        BY <1>3, <2>1 DEF AsOutside
    <2>3. /\ Shaped(v) /\ Stays(t, v) /\ v.cursor = t.cursor /\ v.ghosts = t.ghosts /\ v.info = t.info
          /\ \A but : CurrentBut(t, but) => CurrentBut(v, but \cup rect)
        BY <1>1, <2>2, CellsChange
    <2> QED BY <2>1, <2>3
<1>5. Shaped(u) /\ Stays(v, u) /\ u.cursor = v.cursor /\ u.ghosts = v.ghosts
    BY <1>2, <1>4, DamageStays
<1>6. ASSUME NEW but, CurrentBut(t, but) PROVE CurrentBut(u, but) /\ CurrentBut(u, but \ {p})
    <2>1. CurrentBut(v, but \cup {p})
        BY <1>4, <1>6
    <2>2. but \cup {p} \subseteq but \cup {p} /\ but \cup {p} \subseteq (but \ {p}) \cup {p}
        OBVIOUS
    <2> QED BY <1>2, <1>4, <2>1, <2>2, DamageRights
<1> QED BY <1>4, <1>5, <1>6, Zenon DEF Drawn, Stays

LEMMA EraseInternalChanges ==
    ASSUME NEW t, Shaped(t), NEW rect, NEW selective, NEW u, u = EraseInternal(t, rect, selective)
    PROVE  /\ Shaped(u) /\ Stays(t, u) /\ u.cursor = t.cursor /\ u.ghosts = t.ghosts /\ u.info = t.info
           /\ \A but : CurrentBut(t, but) => CurrentBut(u, but \cup rect)
<1> DEFINE empty == ClearCell([DefaultPen EXCEPT !.colour = t.pen.colour])
           cells == [p \in Positions |->
                       IF p \in rect /\ ~(selective /\ t.cells[p].protected) THEN empty ELSE t.cells[p]]
<1>1. u = [t EXCEPT !.cells = cells]
    BY Zenon DEF EraseInternal
<1>2. ASSUME NEW r \in RowNumbers, NEW c \in ColNumbers, <<r, c>> \notin rect
      PROVE  cells[<<r, c>>] = t.cells[<<r, c>>]
    <2> HIDE DEF empty
    <2>1. <<r, c>> \in Positions
        BY DEF Positions, RowNumbers, ColNumbers
    <2> QED BY <1>2, <2>1
<1> HIDE DEF cells
<1>3. AsOutside(t, cells, rect)
    BY <1>2 DEF AsOutside
<1> QED BY <1>1, <1>3, CellsChange

LEMMA EraseDraws ==
    ASSUME NEW t, Shaped(t), NEW rect, NEW selective, NEW u, u = Erase(t, rect, selective)
    PROVE  Drawn(t, u)
<1>1. PICK v : v = EraseInternal(t, rect, selective)
    OBVIOUS
<1>2. u = Damage(v, rect)
    BY <1>1 DEF Erase
<1>3. /\ Shaped(v) /\ Stays(t, v) /\ v.cursor = t.cursor /\ v.ghosts = t.ghosts /\ v.info = t.info
      /\ \A but : CurrentBut(t, but) => CurrentBut(v, but \cup rect)
    BY <1>1, EraseInternalChanges
<1>4. Shaped(u) /\ Stays(v, u) /\ u.cursor = v.cursor /\ u.ghosts = v.ghosts
    BY <1>2, <1>3, DamageStays
<1>5. ASSUME NEW but, CurrentBut(t, but) PROVE CurrentBut(u, but)
    <2>1. CurrentBut(v, but \cup rect)
        BY <1>3, <1>5
    <2>2. but \cup rect \subseteq but \cup rect
        OBVIOUS
    <2> QED BY <1>2, <1>3, <2>1, <2>2, DamageRights
<1> QED BY <1>3, <1>4, <1>5, Zenon DEF Drawn, Stays

\* Everything a scroll touches is drawn again.
LEMMA ScrollRectRights ==
    ASSUME NEW t, Shaped(t), NEW rect, NEW down, NEW right, NEW u, u = ScrollRect(t, rect, down, right),
           NEW but, CurrentBut(t, but \cup rect)
    PROVE  CurrentBut(u, but)
<1>1. PICK target : target = Target(rect, down, right) /\ target \subseteq rect
    BY DEF Target
<1> DEFINE cells == [p \in Positions |-> IF p \in target THEN t.cells[<<p[1] + down, p[2] + right>>] ELSE t.cells[p]]
<1>2. PICK moved : moved = [t EXCEPT !.cells = cells]
    OBVIOUS
<1>3. PICK v : v = EraseInternal(moved, rect \ target, FALSE)
    OBVIOUS
<1>4. u = Damage(v, rect)
    <2>1. Damaged(rect, down, right) = rect
        BY <1>1 DEF Damaged
    <2> QED BY <1>1, <1>2, <1>3, <2>1, Zenon DEF ScrollRect
<1>5. ASSUME NEW r \in RowNumbers, NEW c \in ColNumbers, <<r, c>> \notin rect
      PROVE  cells[<<r, c>>] = t.cells[<<r, c>>]
    <2>1. <<r, c>> \in Positions
        BY DEF Positions, RowNumbers, ColNumbers
    <2> QED BY <1>1, <1>5, <2>1
<1> HIDE DEF cells
<1>6. Shaped(moved) /\ CurrentBut(moved, (but \cup rect) \cup rect)
    <2>1. AsOutside(t, cells, rect)
        BY <1>5 DEF AsOutside
    <2> QED BY <1>2, <2>1, CellsChange
<1>7. Shaped(v) /\ CurrentBut(v, ((but \cup rect) \cup rect) \cup (rect \ target))
    BY <1>3, <1>6, EraseInternalChanges
<1>8. ((but \cup rect) \cup rect) \cup (rect \ target) \subseteq but \cup rect
    OBVIOUS
<1> QED BY <1>4, <1>7, <1>8, DamageRights

LEMMA ScrollRectStays ==
    ASSUME NEW t, Shaped(t), NEW rect, NEW down, NEW right, NEW u, u = ScrollRect(t, rect, down, right)
    PROVE  Shaped(u) /\ Stays(t, u) /\ u.cursor = t.cursor /\ u.ghosts = t.ghosts
<1>1. PICK cells, rest, damaged : u = Damage(EraseInternal([t EXCEPT !.cells = cells], rest, FALSE), damaged)
    BY Zenon DEF ScrollRect
<1>2. PICK moved : moved = [t EXCEPT !.cells = cells]
    OBVIOUS
<1>3. Shaped(moved) /\ Stays(t, moved) /\ moved.cursor = t.cursor /\ moved.ghosts = t.ghosts
    BY <1>2 DEF Shaped, Stays, TermFields
<1>4. PICK v, no : v = EraseInternal(moved, rest, no) /\ no = FALSE
    OBVIOUS
<1>5. Shaped(v) /\ Stays(moved, v) /\ v.cursor = moved.cursor /\ v.ghosts = moved.ghosts
    BY <1>3, <1>4, EraseInternalChanges
<1>6. Shaped(u) /\ Stays(v, u) /\ u.cursor = v.cursor /\ u.ghosts = v.ghosts
    <2>1. u = Damage(v, damaged)
        BY <1>1, <1>2, <1>4
    <2> QED BY <1>5, <2>1, DamageStays
<1> QED BY <1>3, <1>5, <1>6, Zenon DEF Stays

LEMMA DamagedIsRight ==
    ASSUME NEW t, Shaped(t), NEW rect, NEW p, p \in rect, p \in Positions, NEW u, u = Damage(t, rect)
    PROVE  RightAt(u, p)
<1> DEFINE new == [q \in Positions |-> IF q \in rect THEN Rendered(t, q) ELSE t.picture[q]]
<1>1. u = [t EXCEPT !.picture = new]
    BY DEF Damage
<1>2. new[p] = Rendered(t, p)
    OBVIOUS
<1> HIDE DEF new
<1>3. DOMAIN t = TermFields
    BY DEF Shaped
<1>4. u.picture = new /\ u.cells = t.cells /\ u.cursor = t.cursor /\ u.ghosts = t.ghosts
    BY <1>1, <1>3 DEF TermFields
<1>5. u.reverse = t.reverse
    BY <1>1, <1>3 DEF TermFields
<1>6. Rendered(u, p) = Rendered(t, p)
    BY <1>4, <1>5, RenderedSame
<1> QED BY <1>2, <1>4, <1>6 DEF RightAt

LEMMA EraseKeeps ==
    ASSUME NEW t, Shaped(t), NEW rect, NEW selective, NEW p, p \notin rect, p \in Positions, RightAt(t, p),
           NEW u, u = EraseInternal(t, rect, selective)
    PROVE  RightAt(u, p)
<1> DEFINE empty == ClearCell([DefaultPen EXCEPT !.colour = t.pen.colour])
           cells == [q \in Positions |->
                       IF q \in rect /\ ~(selective /\ t.cells[q].protected) THEN empty ELSE t.cells[q]]
<1>1. u = [t EXCEPT !.cells = cells]
    BY Zenon DEF EraseInternal
<1>2. cells[p] = t.cells[p]
    <2> HIDE DEF empty
    <2> QED OBVIOUS
<1> HIDE DEF cells
<1>3. DOMAIN t = TermFields
    BY DEF Shaped
<1>4. u.cells = cells /\ u.picture = t.picture /\ u.cursor = t.cursor /\ u.ghosts = t.ghosts
    BY <1>1, <1>3 DEF TermFields
<1>5. u.reverse = t.reverse
    BY <1>1, <1>3 DEF TermFields
<1>6. Rendered(u, p) = Rendered(t, p)
    BY <1>2, <1>4, <1>5, RenderedSame
<1> QED BY <1>4, <1>6 DEF RightAt

LEMMA CurrentLess ==
    ASSUME NEW t, NEW but, NEW more, CurrentBut(t, but)
    PROVE  CurrentBut(t, but \cup more)
BY Zenon DEF CurrentBut

\* Lines that are scrolled in full take their width along: all of them is drawn.
LEMMA ScrollDraws ==
    ASSUME NEW t, Shaped(t), NEW r0, NEW r1, NEW c0, NEW c1, NEW down, NEW right,
           NEW u, u = Scroll(t, r0, r1, c0, c1, down, right)
    PROVE  Drawn(t, u)
<1>1. PICK n, m : n = Bound(down, r0 - r1, r1 - r0) /\ m = Bound(right, c0 - c1, c1 - c0)
    OBVIOUS
<1> DEFINE lines == [row \in DOMAIN t.info |->
                       IF row \notin r0 .. r1 - 1 THEN t.info[row]
                       ELSE IF row + n \in r0 .. r1 - 1 THEN t.info[row + n] ELSE SingleLine]
<1>2. PICK rect : rect = Rect(r0, r1, c0, c1)
    OBVIOUS
<1>3. PICK w : w = IF c0 = 0 /\ c1 = Cols /\ m = 0 THEN [t EXCEPT !.info = lines] ELSE t
    OBVIOUS
<1>4. u = IF down = 0 /\ right = 0 THEN t ELSE ScrollRect(w, rect, n, m)
    BY <1>1, <1>2, <1>3, Zenon DEF Scroll
<1>5. DOMAIN t = TermFields /\ DOMAIN t.info = RowNumbers
    BY DEF Shaped, RowNumbers
<1>6. DOMAIN lines = RowNumbers /\ \A row \in RowNumbers : row \notin r0 .. r1 - 1 => lines[row] = t.info[row]
    BY <1>5
<1> HIDE DEF lines
<1>7. /\ Shaped(w) /\ Stays(t, w) /\ w.cursor = t.cursor /\ w.ghosts = t.ghosts
      /\ \A but : CurrentBut(t, but) => CurrentBut(w, but \cup rect)
    <2>1. CASE c0 = 0 /\ c1 = Cols /\ m = 0
        <3>1. w = [t EXCEPT !.info = lines]
            BY <1>3, <2>1
        <3>2. w.cells = t.cells /\ w.picture = t.picture /\ w.cursor = t.cursor /\ w.ghosts = t.ghosts /\ w.info = lines
            BY <1>5, <3>1 DEF TermFields
        <3>3. w.reverse = t.reverse
            BY <1>5, <3>1 DEF TermFields
        <3>4. Shaped(w) /\ Stays(t, w)
            BY <1>5, <1>6, <3>1 DEF Shaped, Stays, TermFields, RowNumbers
        <3>5. ASSUME NEW but, CurrentBut(t, but), NEW r \in RowNumbers, NEW c \in ColNumbers, c < RowWidth(w, r),
                     <<r, c>> \notin but \cup rect
              PROVE  RightAt(w, <<r, c>>)
            <4>1. PICK p : p = <<r, c>>
                OBVIOUS
            <4>2. r \notin r0 .. r1 - 1
                BY <1>2, <2>1, <3>5 DEF Rect, ColNumbers
            <4>3. RowWidth(w, r) = RowWidth(t, r)
                BY <1>6, <3>2, <4>2 DEF RowWidth
            <4>4. t.picture[p] = Rendered(t, p)
                BY <3>5, <4>1, <4>3 DEF CurrentBut, RightAt
            <4>5. Rendered(w, p) = Rendered(t, p)
                BY <3>2, <3>3, RenderedSame
            <4> QED BY <3>2, <4>1, <4>4, <4>5 DEF RightAt
        <3> QED BY <3>2, <3>4, <3>5 DEF CurrentBut
    <2>2. CASE ~(c0 = 0 /\ c1 = Cols /\ m = 0)
        <3>1. w = t
            BY <1>3, <2>2
        <3> QED BY <3>1, CurrentLess, Zenon DEF Stays
    <2> QED BY <2>1, <2>2
<1>8. CASE down = 0 /\ right = 0
    BY <1>4, <1>8, DrawnNothing
<1>9. CASE ~(down = 0 /\ right = 0)
    <2>1. u = ScrollRect(w, rect, n, m)
        BY <1>4, <1>9
    <2>2. Shaped(u) /\ Stays(w, u) /\ u.cursor = w.cursor /\ u.ghosts = w.ghosts
        BY <1>7, <2>1, ScrollRectStays
    <2>3. ASSUME NEW but, CurrentBut(t, but) PROVE CurrentBut(u, but)
        BY <1>7, <2>1, <2>3, ScrollRectRights
    <2> QED BY <1>7, <2>2, <2>3, Zenon DEF Drawn, Stays
<1> QED BY <1>8, <1>9

\* Away from the cursor it does not matter where the cursor is.
LEMMA RenderedElsewhere ==
    ASSUME NEW t, NEW u, NEW p, u.cells[p] = t.cells[p], u.reverse = t.reverse, u.cursor # p, t.cursor # p
    PROVE  Rendered(u, p) = Rendered(t, p)
<1>1. (u.cursor = p) = (t.cursor = p)
    OBVIOUS
<1> QED BY <1>1, Zenon DEF Rendered

\* The picture is right outside the ghosts, before and after.
Shows(t, u) == CurrentBut(t, t.ghosts) => CurrentBut(u, u.ghosts)

\* The cursor is drawn where it comes to and where it was.
LEMMA MoveCursorDraws ==
    ASSUME NEW t, Shaped(t), NEW p, NEW old, t.cursor \in {p, old} \cup t.ghosts, NEW u, u = MoveCursor(t, p, old)
    PROVE  /\ Shaped(u) /\ Stays(t, u) /\ u.cursor = p /\ u.info = t.info /\ u.modes = t.modes
           /\ Shows(t, u)
<1>1. PICK rect : rect = {p, old}
    OBVIOUS
<1>2. PICK rest : rest = t.ghosts \ rect
    OBVIOUS
<1>3. PICK v : v = [t EXCEPT !.cursor = p, !.ghosts = rest]
    OBVIOUS
<1>4. u = Damage(v, rect)
    BY <1>1, <1>2, <1>3, Zenon DEF MoveCursor
<1>5. DOMAIN t = TermFields
    BY DEF Shaped
<1>6. v.cells = t.cells /\ v.picture = t.picture /\ v.cursor = p /\ v.info = t.info
    BY <1>3, <1>5 DEF TermFields
<1>7. v.reverse = t.reverse /\ v.ghosts = rest
    BY <1>3, <1>5 DEF TermFields
<1>8. Shaped(v) /\ Stays(t, v) /\ v.modes = t.modes
    BY <1>3 DEF Shaped, Stays, TermFields
<1>9. ASSUME CurrentBut(t, t.ghosts) PROVE CurrentBut(v, t.ghosts \cup rect)
    <2> SUFFICES ASSUME NEW r \in RowNumbers, NEW c \in ColNumbers, c < RowWidth(v, r),
                        <<r, c>> \notin t.ghosts \cup rect
                 PROVE  RightAt(v, <<r, c>>)
        BY DEF CurrentBut
    <2>1. PICK q : q = <<r, c>>
        OBVIOUS
    <2>2. RowWidth(v, r) = RowWidth(t, r)
        BY <1>6 DEF RowWidth
    <2>3. t.picture[q] = Rendered(t, q)
        BY <1>9, <2>1, <2>2 DEF CurrentBut, RightAt
    <2>4. v.cursor # q /\ t.cursor # q
        BY <1>1, <1>6, <2>1
    <2>5. Rendered(v, q) = Rendered(t, q)
        BY <1>6, <1>7, <2>4, RenderedElsewhere
    <2> QED BY <1>6, <2>1, <2>3, <2>5 DEF RightAt
<1>10. /\ Shaped(u) /\ Stays(v, u) /\ u.cursor = v.cursor /\ u.ghosts = v.ghosts
       /\ u.info = v.info /\ u.modes = v.modes
    BY <1>4, <1>8, DamageStays
<1>11. ASSUME CurrentBut(t, t.ghosts) PROVE CurrentBut(u, u.ghosts)
    <2>1. PICK but : but = t.ghosts \cup rect
        OBVIOUS
    <2>2. CurrentBut(v, but)
        BY <1>9, <1>11, <2>1
    <2>3. but \subseteq rest \cup rect
        BY <1>2, <2>1
    <2>4. CurrentBut(u, rest)
        BY <1>4, <1>8, <2>2, <2>3, DamageRights
    <2> QED BY <1>7, <1>10, <2>4
<1> QED BY <1>6, <1>8, <1>10, <1>11, Zenon DEF Stays, Shows

\* updatecursor leaves the cursor drawn where it is, provided it was drawn
\* where it had been, or is already.
LEMMA UpdateCursorDraws ==
    ASSUME NEW t, Shaped(t), NEW old, NEW cancel, t.cursor \in {t.pos, old} \cup t.ghosts,
           NEW u, u = UpdateCursor(t, old, cancel)
    PROVE  /\ Shaped(u) /\ Stays(t, u) /\ u.info = t.info /\ u.modes = t.modes
           /\ Shows(t, u)
           /\ u.cursor = u.pos \/ (t.pos = old /\ u.cursor = t.cursor /\ u.ghosts = t.ghosts)
           /\ u.cursor \in {u.pos} \cup u.ghosts
<1>1. CASE t.pos = old
    <2>1. u = t
        BY <1>1 DEF UpdateCursor
    <2>2. t.cursor \in {t.pos} \cup t.ghosts
        BY <1>1
    <2> QED BY <1>1, <2>1, <2>2, Zenon DEF Stays, Shows
<1>2. CASE t.pos # old
    <2>1. PICK v : v = [t EXCEPT !.phantom = @ /\ ~cancel]
        OBVIOUS
    <2>2. PICK p : p = t.pos
        OBVIOUS
    <2>3. u = MoveCursor(v, p, old)
        BY <1>2, <2>1, <2>2, Zenon DEF UpdateCursor
    <2>4. PICK x : v = [t EXCEPT !.phantom = x]
        BY <2>1, Zenon
    <2>5. /\ Shaped(v) /\ Stays(t, v) /\ v.cursor = t.cursor /\ v.ghosts = t.ghosts
          /\ v.info = t.info /\ v.modes = t.modes
        BY <2>4 DEF Shaped, Stays, TermFields
    <2>6. Looks(t, v)
        BY <2>4 DEF Shaped, Looks, TermFields
    <2>7. v.cursor \in {p, old} \cup v.ghosts
        BY <2>2, <2>5, Zenon
    <2>8. /\ Shaped(u) /\ Stays(v, u) /\ u.cursor = p /\ u.info = v.info /\ u.modes = v.modes
          /\ Shows(v, u)
        BY <2>3, <2>5, <2>7, MoveCursorDraws
    <2>9. Shows(t, u)
        <3>1. CurrentBut(t, t.ghosts) => CurrentBut(v, v.ghosts)
            BY <2>5, <2>6, LooksCurrent
        <3> QED BY <2>8, <3>1 DEF Shows
    <2>10. u.pos = t.pos /\ u.cursor = u.pos
        BY <2>2, <2>5, <2>8 DEF Stays
    <2>11. u.cursor \in {u.pos} \cup u.ghosts
        BY <2>10
    <2> QED BY <2>5, <2>8, <2>9, <2>10, <2>11, Zenon DEF Stays
<1> QED BY <1>1, <1>2

LEMMA SetReverseDraws ==
    ASSUME NEW t, Shaped(t), NEW on, NEW u, u = SetReverse(t, on)
    PROVE  Drawn(t, u)
<1>1. PICK v : v = [t EXCEPT !.reverse = on]
    OBVIOUS
<1>2. u = Damage(v, Positions)
    BY <1>1 DEF SetReverse
<1>3. Shaped(v) /\ Stays(t, v) /\ v.cursor = t.cursor /\ v.ghosts = t.ghosts
    BY <1>1 DEF Shaped, Stays, TermFields
<1>4. Shaped(u) /\ Stays(v, u) /\ u.cursor = v.cursor /\ u.ghosts = v.ghosts
    BY <1>2, <1>3, DamageStays
<1>5. CurrentBut(v, Positions)
    BY DEF CurrentBut, Positions, RowNumbers, ColNumbers
<1>6. ASSUME NEW but PROVE CurrentBut(u, but)
    <2>1. Positions \subseteq but \cup Positions
        OBVIOUS
    <2> QED BY <1>2, <1>3, <1>5, <2>1, DamageRights
<1> QED BY <1>3, <1>4, <1>6, Zenon DEF Drawn, Stays

\* The part of a line that is seen from now on is drawn.
LEMMA SetLineInfoDraws ==
    ASSUME NEW t, Shaped(t), NEW row \in RowNumbers, NEW info, NEW u, u = SetLineInfo(t, row, info)
    PROVE  Drawn(t, u)
<1>1. PICK half, no : half = Cols \div 2 /\ no = FALSE
    OBVIOUS
<1>2. PICK seen, rest : /\ seen = Rect(row, row + 1, 0, IF info.dw THEN half ELSE Cols)
                        /\ rest = IF info.dw THEN Rect(row, row + 1, half, Cols) ELSE {}
    OBVIOUS
<1>3. PICK v, w : v = Damage(t, seen) /\ w = EraseInternal(v, rest, no)
    OBVIOUS
<1>4. u = IF t.info[row] = info THEN t ELSE [w EXCEPT !.info[row] = info]
    BY <1>1, <1>2, <1>3, Zenon DEF SetLineInfo
<1>5. CASE t.info[row] = info
    BY <1>4, <1>5, DrawnNothing
<1>6. CASE t.info[row] # info
    <2>1. u = [w EXCEPT !.info[row] = info]
        BY <1>4, <1>6
    <2>2. Drawn(t, v) /\ Shaped(v)
        BY <1>3, DamageDraws DEF Drawn
    <2>3. /\ Shaped(w) /\ Stays(v, w) /\ w.cursor = v.cursor /\ w.ghosts = v.ghosts /\ w.info = v.info
          /\ \A but : CurrentBut(v, but) => CurrentBut(w, but \cup rest)
        BY <1>3, <2>2, EraseInternalChanges
    <2>4. v.info = t.info
        BY <1>3, DamageStays
    <2>5. DOMAIN w = TermFields /\ DOMAIN w.info = RowNumbers
        BY <2>3 DEF Shaped, RowNumbers
    <2>6. u.cells = w.cells /\ u.picture = w.picture /\ u.cursor = w.cursor /\ u.ghosts = w.ghosts /\ u.info = [w.info EXCEPT ![row] = info]
        BY <2>1, <2>5 DEF TermFields
    <2>7. u.reverse = w.reverse
        BY <2>1, <2>5 DEF TermFields
    <2>8. Shaped(u) /\ Stays(w, u)
        BY <2>1, <2>5 DEF Shaped, Stays, TermFields, RowNumbers
    <2>9. u.info[row] = info /\ \A r \in RowNumbers : r # row => u.info[r] = w.info[r]
        BY <2>5, <2>6
    <2>10. half \in 1 .. Cols /\ Cols \in Nat /\ Rows \in Nat
        BY <1>1, WidthsAre
    <2>11. ASSUME NEW but, CurrentBut(t, but), NEW r \in RowNumbers, NEW c \in ColNumbers, c < RowWidth(u, r),
                  <<r, c>> \notin but
           PROVE  RightAt(u, <<r, c>>)
        <3>1. PICK p : p = <<r, c>>
            OBVIOUS
        <3>2. Rendered(u, p) = Rendered(w, p)
            BY <2>6, <2>7, RenderedSame
        <3>3. RightAt(w, p)
            <4>1. CASE r # row
                <5>1. RowWidth(u, r) = RowWidth(w, r)
                    BY <2>9, <4>1 DEF RowWidth
                <5>2. CurrentBut(w, but \cup rest)
                    BY <2>2, <2>3, <2>11 DEF Drawn
                <5>3. p \notin rest
                    BY <1>2, <2>10, <3>1, <4>1 DEF Rect, RowNumbers
                <5> QED BY <2>11, <3>1, <5>1, <5>2, <5>3 DEF CurrentBut
            <4>2. CASE r = row
                <5>1. c < IF info.dw THEN half ELSE Cols
                    BY <1>1, <2>9, <2>11, <4>2 DEF RowWidth
                <5>2. p \in seen /\ p \notin rest
                    BY <1>2, <2>10, <3>1, <4>2, <5>1 DEF Rect, RowNumbers, ColNumbers
                <5>3. p \in Positions
                    BY <3>1 DEF Positions, RowNumbers, ColNumbers
                <5>4. RightAt(v, p)
                    BY <1>3, <5>2, <5>3, DamagedIsRight
                <5> QED BY <1>3, <2>2, <5>2, <5>3, <5>4, EraseKeeps
            <4> QED BY <4>1, <4>2
        <3> QED BY <2>6, <3>1, <3>2, <3>3 DEF RightAt
    <2> QED BY <2>2, <2>3, <2>6, <2>8, <2>11, Zenon DEF Drawn, Stays, CurrentBut
<1> QED BY <1>5, <1>6

\* The lines one after the other.
LEMMA SetLinesUpTo ==
    ASSUME NEW t, NEW rows, NEW info
    PROVE  \E g : /\ g[0] = t
                  /\ \A i \in 1 .. Rows : g[i] = (IF i - 1 \in rows THEN SetLineInfo(g[i - 1], i - 1, info) ELSE g[i - 1])
                  /\ SetLines(t, rows, info) = g[Rows]
<1>1. PICK n : n = Rows
    OBVIOUS
<1>2. n \in Nat
    BY <1>1, ScreenAssumption
<1> DEFINE upTo[i \in 0 .. n] == IF i = 0 THEN t ELSE (IF i - 1 \in rows THEN SetLineInfo(upTo[i - 1], i - 1, info) ELSE upTo[i - 1])
           IsUpTo(g) == g = [i \in 0 .. n |-> IF i = 0 THEN t ELSE (IF i - 1 \in rows THEN SetLineInfo(g[i - 1], i - 1, info) ELSE g[i - 1])]
           Up(g, k) == /\ g = [i \in 0 .. k |-> g[i]] /\ g[0] = t
                       /\ \A i \in 1 .. k : g[i] = (IF i - 1 \in rows THEN SetLineInfo(g[i - 1], i - 1, info) ELSE g[i - 1])
           T == {k \in Nat : \E g : Up(g, k)}
<1>3. 0 \in T
    <2> DEFINE g == [i \in 0 .. 0 |-> t]
    <2>1. g = [i \in 0 .. 0 |-> g[i]] /\ g[0] = t
        OBVIOUS
    <2>2. 1 .. 0 = {}
        OBVIOUS
    <2> HIDE DEF g
    <2>3. Up(g, 0)
        BY <2>1, <2>2
    <2> HIDE DEF Up
    <2> QED BY <2>3
<1>4. ASSUME NEW k \in T PROVE k + 1 \in T
    <2>1. k \in Nat
        OBVIOUS
    <2>2. PICK g : Up(g, k)
        <3> HIDE DEF Up
        <3> QED OBVIOUS
    <2>3. PICK new : new = (IF (k + 1) - 1 \in rows THEN SetLineInfo(g[k], (k + 1) - 1, info) ELSE g[k])
        OBVIOUS
    <2> DEFINE h == [i \in 0 .. k + 1 |-> IF i = k + 1 THEN new ELSE g[i]]
    <2>4. h = [i \in 0 .. k + 1 |-> h[i]] /\ h[0] = t
        <3>1. 0 \in 0 .. k + 1 /\ 0 # k + 1
            BY <2>1
        <3> QED BY <2>2, <3>1
    <2>5. ASSUME NEW i \in 1 .. k + 1 PROVE h[i] = (IF i - 1 \in rows THEN SetLineInfo(h[i - 1], i - 1, info) ELSE h[i - 1])
        <3>1. CASE i = k + 1
            <4>1. i \in 0 .. k + 1 /\ i - 1 \in 0 .. k + 1 /\ i - 1 = k /\ k # k + 1
                BY <2>1, <3>1
            <4>2. h[i] = new /\ h[i - 1] = g[k]
                BY <3>1, <4>1
            <4> QED BY <2>3, <3>1, <4>1, <4>2
        <3>2. CASE i # k + 1
            <4>1. i \in 1 .. k /\ i \in 0 .. k + 1 /\ i - 1 # k + 1 /\ i - 1 \in 0 .. k + 1
                BY <2>1, <3>2
            <4>2. h[i] = g[i] /\ h[i - 1] = g[i - 1]
                BY <3>2, <4>1
            <4> QED BY <2>2, <4>1, <4>2
        <3> QED BY <3>1, <3>2
    <2> HIDE DEF h
    <2>6. Up(h, k + 1)
        BY <2>4, <2>5
    <2> HIDE DEF Up
    <2> QED BY <2>1, <2>6
<1>5. PICK g : Up(g, n)
    <2> HIDE DEF T, Up
    <2>1. T \in SUBSET Nat
        BY DEF T
    <2>2. T = Nat
        BY <1>3, <1>4, <2>1, CountingUp
    <2> QED BY <1>2, <2>2 DEF T
<1>6. IsUpTo(upTo)
    <2>1. IsUpTo(g)
        <3>1. g = [i \in 0 .. n |-> g[i]]
            BY <1>5
        <3>2. ASSUME NEW i \in 0 .. n
              PROVE  g[i] = IF i = 0 THEN t ELSE (IF i - 1 \in rows THEN SetLineInfo(g[i - 1], i - 1, info) ELSE g[i - 1])
            <4>1. i = 0 \/ i \in 1 .. n
                BY <1>2
            <4> QED BY <1>5, <4>1
        <3> HIDE DEF Up
        <3> QED BY <3>1, <3>2
    <2>2. upTo = CHOOSE h : IsUpTo(h)
        OBVIOUS
    <2> HIDE DEF upTo, IsUpTo
    <2> QED BY <2>1, <2>2
<1>7. upTo[0] = t /\ \A i \in 1 .. n : upTo[i] = (IF i - 1 \in rows THEN SetLineInfo(upTo[i - 1], i - 1, info) ELSE upTo[i - 1])
    <2> HIDE DEF upTo
    <2>1. 0 \in 0 .. n
        BY <1>2
    <2>2. ASSUME NEW i \in 1 .. n PROVE i \in 0 .. n /\ i # 0
        BY <1>2
    <2> QED BY <1>6, <2>1, <2>2
<1>8. SetLines(t, rows, info) = upTo[n]
    BY <1>1, Zenon DEF SetLines
<1> HIDE DEF upTo
<1> QED BY <1>1, <1>7, <1>8

\* The characters of a line, and the lines of the screen.
LEMMA AlignRowUpTo ==
    ASSUME NEW t, NEW row
    PROVE  \E g : /\ g[0] = t
                  /\ \A i \in 1 .. RowWidth(t, row) : g[i] = PutGlyph(g[i - 1], 69, <<row, i - 1>>)
                  /\ AlignRow(t, row) = g[RowWidth(t, row)]
<1>1. PICK n : n = RowWidth(t, row)
    OBVIOUS
<1>2. n \in Nat
    BY <1>1, WidthsAre
<1> DEFINE upTo[i \in 0 .. n] == IF i = 0 THEN t ELSE PutGlyph(upTo[i - 1], 69, <<row, i - 1>>)
           IsUpTo(g) == g = [i \in 0 .. n |-> IF i = 0 THEN t ELSE PutGlyph(g[i - 1], 69, <<row, i - 1>>)]
           Up(g, k) == /\ g = [i \in 0 .. k |-> g[i]] /\ g[0] = t
                       /\ \A i \in 1 .. k : g[i] = PutGlyph(g[i - 1], 69, <<row, i - 1>>)
           T == {k \in Nat : \E g : Up(g, k)}
<1>3. 0 \in T
    <2> DEFINE g == [i \in 0 .. 0 |-> t]
    <2>1. g = [i \in 0 .. 0 |-> g[i]] /\ g[0] = t
        OBVIOUS
    <2>2. 1 .. 0 = {}
        OBVIOUS
    <2> HIDE DEF g
    <2>3. Up(g, 0)
        BY <2>1, <2>2
    <2> HIDE DEF Up
    <2> QED BY <2>3
<1>4. ASSUME NEW k \in T PROVE k + 1 \in T
    <2>1. k \in Nat
        OBVIOUS
    <2>2. PICK g : Up(g, k)
        <3> HIDE DEF Up
        <3> QED OBVIOUS
    <2>3. PICK new : new = PutGlyph(g[k], 69, <<row, (k + 1) - 1>>)
        OBVIOUS
    <2> DEFINE h == [i \in 0 .. k + 1 |-> IF i = k + 1 THEN new ELSE g[i]]
    <2>4. h = [i \in 0 .. k + 1 |-> h[i]] /\ h[0] = t
        <3>1. 0 \in 0 .. k + 1 /\ 0 # k + 1
            BY <2>1
        <3> QED BY <2>2, <3>1
    <2>5. ASSUME NEW i \in 1 .. k + 1 PROVE h[i] = PutGlyph(h[i - 1], 69, <<row, i - 1>>)
        <3>1. CASE i = k + 1
            <4>1. i \in 0 .. k + 1 /\ i - 1 \in 0 .. k + 1 /\ i - 1 = k /\ k # k + 1
                BY <2>1, <3>1
            <4>2. h[i] = new /\ h[i - 1] = g[k]
                BY <3>1, <4>1
            <4> QED BY <2>3, <3>1, <4>1, <4>2
        <3>2. CASE i # k + 1
            <4>1. i \in 1 .. k /\ i \in 0 .. k + 1 /\ i - 1 # k + 1 /\ i - 1 \in 0 .. k + 1
                BY <2>1, <3>2
            <4>2. h[i] = g[i] /\ h[i - 1] = g[i - 1]
                BY <3>2, <4>1
            <4> QED BY <2>2, <4>1, <4>2
        <3> QED BY <3>1, <3>2
    <2> HIDE DEF h
    <2>6. Up(h, k + 1)
        BY <2>4, <2>5
    <2> HIDE DEF Up
    <2> QED BY <2>1, <2>6
<1>5. PICK g : Up(g, n)
    <2> HIDE DEF T, Up
    <2>1. T \in SUBSET Nat
        BY DEF T
    <2>2. T = Nat
        BY <1>3, <1>4, <2>1, CountingUp
    <2> QED BY <1>2, <2>2 DEF T
<1>6. IsUpTo(upTo)
    <2>1. IsUpTo(g)
        <3>1. g = [i \in 0 .. n |-> g[i]]
            BY <1>5
        <3>2. ASSUME NEW i \in 0 .. n
              PROVE  g[i] = IF i = 0 THEN t ELSE PutGlyph(g[i - 1], 69, <<row, i - 1>>)
            <4>1. i = 0 \/ i \in 1 .. n
                BY <1>2
            <4> QED BY <1>5, <4>1
        <3> HIDE DEF Up
        <3> QED BY <3>1, <3>2
    <2>2. upTo = CHOOSE h : IsUpTo(h)
        OBVIOUS
    <2> HIDE DEF upTo, IsUpTo
    <2> QED BY <2>1, <2>2
<1>7. upTo[0] = t /\ \A i \in 1 .. n : upTo[i] = PutGlyph(upTo[i - 1], 69, <<row, i - 1>>)
    <2> HIDE DEF upTo
    <2>1. 0 \in 0 .. n
        BY <1>2
    <2>2. ASSUME NEW i \in 1 .. n PROVE i \in 0 .. n /\ i # 0
        BY <1>2
    <2> QED BY <1>6, <2>1, <2>2
<1>8. AlignRow(t, row) = upTo[n]
    BY <1>1, Zenon DEF AlignRow
<1> HIDE DEF upTo
<1> QED BY <1>1, <1>7, <1>8

LEMMA AlignUpTo ==
    ASSUME NEW t
    PROVE  \E g : /\ g[0] = t
                  /\ \A i \in 1 .. Rows : g[i] = AlignRow(g[i - 1], i - 1)
                  /\ Align(t) = g[Rows]
<1>1. PICK n : n = Rows
    OBVIOUS
<1>2. n \in Nat
    BY <1>1, ScreenAssumption
<1> DEFINE upTo[i \in 0 .. n] == IF i = 0 THEN t ELSE AlignRow(upTo[i - 1], i - 1)
           IsUpTo(g) == g = [i \in 0 .. n |-> IF i = 0 THEN t ELSE AlignRow(g[i - 1], i - 1)]
           Up(g, k) == /\ g = [i \in 0 .. k |-> g[i]] /\ g[0] = t
                       /\ \A i \in 1 .. k : g[i] = AlignRow(g[i - 1], i - 1)
           T == {k \in Nat : \E g : Up(g, k)}
<1>3. 0 \in T
    <2> DEFINE g == [i \in 0 .. 0 |-> t]
    <2>1. g = [i \in 0 .. 0 |-> g[i]] /\ g[0] = t
        OBVIOUS
    <2>2. 1 .. 0 = {}
        OBVIOUS
    <2> HIDE DEF g
    <2>3. Up(g, 0)
        BY <2>1, <2>2
    <2> HIDE DEF Up
    <2> QED BY <2>3
<1>4. ASSUME NEW k \in T PROVE k + 1 \in T
    <2>1. k \in Nat
        OBVIOUS
    <2>2. PICK g : Up(g, k)
        <3> HIDE DEF Up
        <3> QED OBVIOUS
    <2>3. PICK new : new = AlignRow(g[k], (k + 1) - 1)
        OBVIOUS
    <2> DEFINE h == [i \in 0 .. k + 1 |-> IF i = k + 1 THEN new ELSE g[i]]
    <2>4. h = [i \in 0 .. k + 1 |-> h[i]] /\ h[0] = t
        <3>1. 0 \in 0 .. k + 1 /\ 0 # k + 1
            BY <2>1
        <3> QED BY <2>2, <3>1
    <2>5. ASSUME NEW i \in 1 .. k + 1 PROVE h[i] = AlignRow(h[i - 1], i - 1)
        <3>1. CASE i = k + 1
            <4>1. i \in 0 .. k + 1 /\ i - 1 \in 0 .. k + 1 /\ i - 1 = k /\ k # k + 1
                BY <2>1, <3>1
            <4>2. h[i] = new /\ h[i - 1] = g[k]
                BY <3>1, <4>1
            <4> QED BY <2>3, <3>1, <4>1, <4>2
        <3>2. CASE i # k + 1
            <4>1. i \in 1 .. k /\ i \in 0 .. k + 1 /\ i - 1 # k + 1 /\ i - 1 \in 0 .. k + 1
                BY <2>1, <3>2
            <4>2. h[i] = g[i] /\ h[i - 1] = g[i - 1]
                BY <3>2, <4>1
            <4> QED BY <2>2, <4>1, <4>2
        <3> QED BY <3>1, <3>2
    <2> HIDE DEF h
    <2>6. Up(h, k + 1)
        BY <2>4, <2>5
    <2> HIDE DEF Up
    <2> QED BY <2>1, <2>6
<1>5. PICK g : Up(g, n)
    <2> HIDE DEF T, Up
    <2>1. T \in SUBSET Nat
        BY DEF T
    <2>2. T = Nat
        BY <1>3, <1>4, <2>1, CountingUp
    <2> QED BY <1>2, <2>2 DEF T
<1>6. IsUpTo(upTo)
    <2>1. IsUpTo(g)
        <3>1. g = [i \in 0 .. n |-> g[i]]
            BY <1>5
        <3>2. ASSUME NEW i \in 0 .. n
              PROVE  g[i] = IF i = 0 THEN t ELSE AlignRow(g[i - 1], i - 1)
            <4>1. i = 0 \/ i \in 1 .. n
                BY <1>2
            <4> QED BY <1>5, <4>1
        <3> HIDE DEF Up
        <3> QED BY <3>1, <3>2
    <2>2. upTo = CHOOSE h : IsUpTo(h)
        OBVIOUS
    <2> HIDE DEF upTo, IsUpTo
    <2> QED BY <2>1, <2>2
<1>7. upTo[0] = t /\ \A i \in 1 .. n : upTo[i] = AlignRow(upTo[i - 1], i - 1)
    <2> HIDE DEF upTo
    <2>1. 0 \in 0 .. n
        BY <1>2
    <2>2. ASSUME NEW i \in 1 .. n PROVE i \in 0 .. n /\ i # 0
        BY <1>2
    <2> QED BY <1>6, <2>1, <2>2
<1>8. Align(t) = upTo[n]
    BY <1>1, Zenon DEF Align
<1> HIDE DEF upTo
<1> QED BY <1>1, <1>7, <1>8

LEMMA SetLinesDraws ==
    ASSUME NEW t, Shaped(t), NEW rows, NEW info, NEW u, u = SetLines(t, rows, info)
    PROVE  Drawn(t, u)
<1>1. PICK g : /\ g[0] = t
               /\ \A i \in 1 .. Rows : g[i] = (IF i - 1 \in rows THEN SetLineInfo(g[i - 1], i - 1, info) ELSE g[i - 1])
               /\ SetLines(t, rows, info) = g[Rows]
    BY SetLinesUpTo
<1>2. Rows \in Nat
    BY ScreenAssumption
<1> DEFINE T == {k \in Nat : k <= Rows => Drawn(t, g[k])}
<1>3. 0 \in T
    BY <1>1, DrawnNothing
<1>4. ASSUME NEW k \in T PROVE k + 1 \in T
    <2>1. k \in Nat
        OBVIOUS
    <2> SUFFICES ASSUME k + 1 <= Rows PROVE Drawn(t, g[k + 1])
        BY <2>1
    <2>2. k <= Rows /\ k + 1 \in 1 .. Rows /\ (k + 1) - 1 = k /\ k \in RowNumbers
        BY <1>2, <2>1 DEF RowNumbers
    <2>3. PICK v, w : v = g[k] /\ w = g[k + 1]
        OBVIOUS
    <2>4. w = IF k \in rows THEN SetLineInfo(v, k, info) ELSE v
        BY <1>1, <2>2, <2>3
    <2>5. Drawn(t, v)
        BY <2>2, <2>3
    <2>6. Drawn(v, w)
        <3>1. Shaped(v)
            BY <2>5 DEF Drawn
        <3> QED BY <2>2, <2>4, <3>1, DrawnNothing, SetLineInfoDraws
    <2> QED BY <2>3, <2>5, <2>6, DrawnOn
<1> HIDE DEF T
<1>5. T = Nat
    <2>1. T \in SUBSET Nat
        BY DEF T
    <2> QED BY <1>3, <1>4, <2>1, CountingUp
<1> QED BY <1>1, <1>2, <1>5 DEF T

LEMMA AlignRowDraws ==
    ASSUME NEW t, Shaped(t), NEW row, NEW u, u = AlignRow(t, row)
    PROVE  Drawn(t, u)
<1>1. PICK n : n = RowWidth(t, row)
    OBVIOUS
<1>2. PICK g : /\ g[0] = t
               /\ \A i \in 1 .. n : g[i] = PutGlyph(g[i - 1], 69, <<row, i - 1>>)
               /\ AlignRow(t, row) = g[n]
    BY <1>1, AlignRowUpTo
<1>3. n \in Nat
    BY <1>1, WidthsAre
<1> DEFINE T == {k \in Nat : k <= n => Drawn(t, g[k])}
<1>4. 0 \in T
    BY <1>2, DrawnNothing
<1>5. ASSUME NEW k \in T PROVE k + 1 \in T
    <2>1. k \in Nat
        OBVIOUS
    <2> SUFFICES ASSUME k + 1 <= n PROVE Drawn(t, g[k + 1])
        BY <2>1
    <2>2. k <= n /\ k + 1 \in 1 .. n /\ (k + 1) - 1 = k
        BY <1>3, <2>1
    <2>3. PICK v, w, p, ch : v = g[k] /\ w = g[k + 1] /\ p = <<row, k>> /\ ch = 69
        OBVIOUS
    <2>4. w = PutGlyph(v, ch, p)
        BY <1>2, <2>2, <2>3
    <2>5. Drawn(t, v)
        BY <2>2, <2>3
    <2>6. Drawn(v, w)
        <3>1. Shaped(v)
            BY <2>5 DEF Drawn
        <3> QED BY <2>4, <3>1, PutGlyphDraws
    <2> QED BY <2>3, <2>5, <2>6, DrawnOn
<1> HIDE DEF T
<1>6. T = Nat
    <2>1. T \in SUBSET Nat
        BY DEF T
    <2> QED BY <1>4, <1>5, <2>1, CountingUp
<1> QED BY <1>2, <1>3, <1>6 DEF T

LEMMA AlignDraws ==
    ASSUME NEW t, Shaped(t), NEW u, u = Align(t)
    PROVE  Drawn(t, u)
<1>1. PICK g : /\ g[0] = t
               /\ \A i \in 1 .. Rows : g[i] = AlignRow(g[i - 1], i - 1)
               /\ Align(t) = g[Rows]
    BY AlignUpTo
<1>2. Rows \in Nat
    BY ScreenAssumption
<1> DEFINE T == {k \in Nat : k <= Rows => Drawn(t, g[k])}
<1>3. 0 \in T
    BY <1>1, DrawnNothing
<1>4. ASSUME NEW k \in T PROVE k + 1 \in T
    <2>1. k \in Nat
        OBVIOUS
    <2> SUFFICES ASSUME k + 1 <= Rows PROVE Drawn(t, g[k + 1])
        BY <2>1
    <2>2. k <= Rows /\ k + 1 \in 1 .. Rows /\ (k + 1) - 1 = k
        BY <1>2, <2>1
    <2>3. PICK v, w : v = g[k] /\ w = g[k + 1]
        OBVIOUS
    <2>4. w = AlignRow(v, k)
        BY <1>1, <2>2, <2>3
    <2>5. Drawn(t, v)
        BY <2>2, <2>3
    <2>6. Drawn(v, w)
        <3>1. Shaped(v)
            BY <2>5 DEF Drawn
        <3> QED BY <2>4, <3>1, AlignRowDraws
    <2> QED BY <2>3, <2>5, <2>6, DrawnOn
<1> HIDE DEF T
<1>5. T = Nat
    <2>1. T \in SUBSET Nat
        BY DEF T
    <2> QED BY <1>3, <1>4, <2>1, CountingUp
<1> QED BY <1>1, <1>2, <1>5 DEF T

-----------------------------------------------------------------------------
(* libvterm's state: where the cursor is *)

\* The region has a line.  The left margin may be set behind the last column,
\* with no right margin; otherwise there is a column between them.  The saved
\* cursor is on the screen.
Margins(t) ==
    /\ t.top \in RowNumbers
    /\ t.bottom = -1 \/ t.bottom \in t.top + 1 .. Rows
    /\ t.left \in 0 .. Cols
    /\ t.right = -1 \/ t.right \in t.left + 1 .. Cols
    /\ t.tabs \subseteq Nat
    /\ t.saved.pos \in Positions /\ t.saved.modes \subseteq {"visible", "blink"}

Keeps(t, u) == \A but : CurrentBut(t, but) => CurrentBut(u, but)

Sound(t) == Shaped(t) /\ Margins(t) /\ t.pos \in Positions

\* Text and controls: the cursor has moved, and is not drawn yet.
Went(t, u) ==
    /\ Sound(u) /\ u.cursor = t.cursor /\ u.ghosts = t.ghosts /\ u.hung = t.hung
    /\ Keeps(t, u)

\* What control sequences leave behind before the cursor is bounded: it is
\* drawn where it was, already where it is, or among the ghosts.
Switched(t, u) ==
    /\ Shaped(u) /\ Margins(u) /\ u.pos \in Int \X Int /\ u.hung = t.hung
    /\ Shows(t, u)
    /\ u.cursor \in {t.pos, u.pos} \cup u.ghosts

LEMMA MarginsStay ==
    ASSUME NEW t, NEW u, Margins(t), Stays(t, u)
    PROVE  Margins(u)
BY Zenon DEF Margins, Stays

LEMMA PositionsAre == Positions = RowNumbers \X ColNumbers
BY DEF Positions, RowNumbers, ColNumbers

LEMMA MarginsAre ==
    ASSUME NEW t, Margins(t)
    PROVE  /\ t.top \in RowNumbers /\ Bottom(t) \in t.top + 1 .. Rows
           /\ Left(t) \in 0 .. Cols /\ Right(t) \in 1 .. Cols
           /\ Left(t) < Cols => Right(t) > Left(t)
           /\ ~(Left(t) < Cols) => Right(t) = Cols
<1>1. Rows \in Nat /\ Cols \in Nat /\ Rows > 0 /\ Cols > 1
    BY WidthsAre
<1>2. Bottom(t) \in t.top + 1 .. Rows
    BY <1>1 DEF Margins, Bottom, RowNumbers
<1>3. PICK on : on = Has(t, "leftright")
    OBVIOUS
<1>4. PICK left, right : left = t.left /\ right = t.right
    OBVIOUS
<1>5. PICK l, r : l = Left(t) /\ r = Right(t)
    OBVIOUS
<1>6. l = (IF on THEN left ELSE 0) /\ r = (IF on /\ right > -1 THEN right ELSE Cols)
    BY <1>3, <1>4, <1>5 DEF Left, Right
<1>7. left \in 0 .. Cols /\ (right = -1 \/ right \in left + 1 .. Cols)
    BY <1>4 DEF Margins
<1>8. l \in 0 .. Cols /\ r \in 1 .. Cols /\ (l < Cols => r > l) /\ (~(l < Cols) => r = Cols)
    BY <1>1, <1>6, <1>7
<1> QED BY <1>2, <1>5, <1>8 DEF Margins

LEMMA DrawnWent ==
    ASSUME NEW t, Sound(t), NEW u, Drawn(t, u)
    PROVE  Went(t, u) /\ u.pos = t.pos
<1>1. Margins(u)
    BY MarginsStay DEF Sound, Drawn
<1> QED BY <1>1 DEF Went, Sound, Drawn, Stays, Keeps

LEMMA WentOn ==
    ASSUME NEW t, NEW u, NEW v, Went(t, u), Went(u, v)
    PROVE  Went(t, v)
BY Zenon DEF Went, Keeps

LEMMA DrawnSwitched ==
    ASSUME NEW t, Sound(t), t.cursor \in {t.pos} \cup t.ghosts, NEW u, Drawn(t, u)
    PROVE  Switched(t, u)
<1>1. Margins(u)
    BY MarginsStay DEF Sound, Drawn
<1>2. u.pos \in Int \X Int
    BY PositionsAre, WidthsAre DEF Sound, Drawn, Stays, RowNumbers, ColNumbers
<1>3. u.cursor \in {t.pos, u.pos} \cup u.ghosts
    BY Zenon DEF Drawn
<1>4. Shows(t, u)
    BY Zenon DEF Drawn, Shows
<1> QED BY <1>1, <1>2, <1>3, <1>4 DEF Switched, Drawn, Stays

\* A change that the screen does not see.
LEMMA LookAlike ==
    ASSUME NEW t, Shaped(t), NEW u, DOMAIN u = TermFields, Looks(t, u), Stays(t, u)
    PROVE  Drawn(t, u)
<1>1. Shaped(u)
    BY DEF Shaped, Looks
<1>2. \A but : CurrentBut(t, but) => CurrentBut(u, but)
    BY LooksCurrent
<1> QED BY <1>1, <1>2 DEF Drawn, Looks

LEMMA LookKeeps ==
    ASSUME NEW t, NEW u, Looks(t, u)
    PROVE  Keeps(t, u)
BY LooksCurrent DEF Keeps

LEMMA ScreenSizes == Rows \in Nat /\ Cols \in Nat /\ Rows > 0 /\ Cols > 1
BY ScreenAssumption

\* The cursor is put somewhere on the screen.
LEMMA PutsCursor ==
    ASSUME NEW t, Shaped(t), NEW p, NEW u, u = [t EXCEPT !.pos = p]
    PROVE  /\ Shaped(u) /\ Looks(t, u) /\ u.pos = p /\ u.top = t.top /\ u.bottom = t.bottom
           /\ u.left = t.left /\ u.right = t.right /\ u.tabs = t.tabs /\ u.saved = t.saved /\ u.hung = t.hung /\ u.modes = t.modes
<1>1. DOMAIN t = TermFields
    BY DEF Shaped
<1>2. /\ u.cells = t.cells /\ u.picture = t.picture /\ u.cursor = t.cursor /\ u.ghosts = t.ghosts /\ u.info = t.info
      /\ u.pos = p /\ u.top = t.top /\ u.bottom = t.bottom
      /\ u.left = t.left /\ u.right = t.right /\ u.tabs = t.tabs /\ u.saved = t.saved /\ u.hung = t.hung /\ u.modes = t.modes
    BY <1>1 DEF TermFields
<1>3. u.reverse = t.reverse
    BY <1>1, Zenon DEF TermFields
<1>4. Shaped(u)
    BY <1>2 DEF Shaped, TermFields
<1> QED BY <1>2, <1>3, <1>4 DEF Looks

LEMMA MarginsAlike ==
    ASSUME NEW t, NEW u, Margins(t), u.top = t.top, u.bottom = t.bottom,
           u.left = t.left, u.right = t.right, u.tabs = t.tabs, u.saved = t.saved
    PROVE  Margins(u)
BY Zenon DEF Margins

LEMMA GoesTo ==
    ASSUME NEW t, Sound(t), NEW p \in Positions, NEW u, u = [t EXCEPT !.pos = p]
    PROVE  Went(t, u)
<1>1. /\ Shaped(u) /\ Looks(t, u) /\ u.pos = p /\ u.top = t.top /\ u.bottom = t.bottom
      /\ u.left = t.left /\ u.right = t.right /\ u.tabs = t.tabs /\ u.saved = t.saved /\ u.hung = t.hung
    BY PutsCursor DEF Sound
<1>2. Margins(u)
    BY <1>1, MarginsAlike DEF Sound
<1> QED BY <1>1, <1>2, LookKeeps DEF Went, Sound, Looks

LEMMA PositionIs ==
    ASSUME NEW t, Sound(t)
    PROVE  Row(t) \in RowNumbers /\ Col(t) \in ColNumbers /\ t.pos = <<Row(t), Col(t)>>
BY PositionsAre DEF Sound, Row, Col

\* A row or a column of the cursor changes.
LEMMA GoesToRow ==
    ASSUME NEW t, Sound(t), NEW r \in RowNumbers, NEW u, u = [t EXCEPT !.pos[1] = r]
    PROVE  Went(t, u)
<1>1. PICK p : p = <<r, Col(t)>>
    OBVIOUS
<1>2. [t.pos EXCEPT ![1] = r] = p
    BY <1>1, PositionIs DEF Row, Col
<1>3. u = [t EXCEPT !.pos = p]
    BY <1>2, Zenon DEF Sound, Shaped, TermFields
<1>4. p \in Positions
    BY <1>1, PositionIs, PositionsAre
<1> QED BY <1>3, <1>4, GoesTo

LEMMA GoesToColumn ==
    ASSUME NEW t, Sound(t), NEW c \in ColNumbers, NEW u, u = [t EXCEPT !.pos[2] = c]
    PROVE  Went(t, u)
<1>1. PICK p : p = <<Row(t), c>>
    OBVIOUS
<1>2. [t.pos EXCEPT ![2] = c] = p
    BY <1>1, PositionIs DEF Row, Col
<1>3. u = [t EXCEPT !.pos = p]
    BY <1>2, Zenon DEF Sound, Shaped, TermFields
<1>4. p \in Positions
    BY <1>1, PositionIs, PositionsAre
<1> QED BY <1>3, <1>4, GoesTo

LEMMA WentNowhere ==
    ASSUME NEW t, Sound(t)
    PROVE  Went(t, t)
BY Zenon DEF Went, Keeps

LEMMA ScrollRegionDraws ==
    ASSUME NEW t, Shaped(t), NEW down, NEW u, u = ScrollRegion(t, down)
    PROVE  Drawn(t, u)
<1>1. PICK r0, r1, c0, c1, right : /\ u = Scroll(t, r0, r1, c0, c1, down, right)
    BY DEF ScrollRegion
<1> QED BY <1>1, ScrollDraws

LEMMA LineFeedGoes ==
    ASSUME NEW t, Sound(t), NEW u, u = LineFeed(t)
    PROVE  Went(t, u)
<1>1. CASE Row(t) = Bottom(t) - 1
    <2>1. PICK one : one = 1
        OBVIOUS
    <2>2. u = ScrollRegion(t, one)
        BY <1>1, <2>1 DEF LineFeed
    <2> QED BY <2>2, ScrollRegionDraws, DrawnWent DEF Sound
<1>2. CASE Row(t) # Bottom(t) - 1 /\ Row(t) < Rows - 1
    <2>1. PICK r : r = Row(t) + 1
        OBVIOUS
    <2>2. r \in RowNumbers
        BY <1>2, <2>1, PositionIs, ScreenSizes DEF RowNumbers
    <2>3. u = [t EXCEPT !.pos[1] = r]
        BY <1>2, <2>1, Zenon DEF LineFeed, Row
    <2> QED BY <2>2, <2>3, GoesToRow
<1>3. CASE Row(t) # Bottom(t) - 1 /\ ~(Row(t) < Rows - 1)
    BY <1>3, WentNowhere DEF LineFeed
<1> QED BY <1>1, <1>2, <1>3

LEMMA ReverseIndexGoes ==
    ASSUME NEW t, Sound(t), NEW u, u = ReverseIndex(t)
    PROVE  Went(t, u)
<1>1. CASE Row(t) = t.top
    <2>1. PICK one : one = -1
        OBVIOUS
    <2>2. u = ScrollRegion(t, one)
        BY <1>1, <2>1 DEF ReverseIndex
    <2> QED BY <2>2, ScrollRegionDraws, DrawnWent DEF Sound
<1>2. CASE Row(t) # t.top /\ Row(t) > 0
    <2>1. PICK r : r = Row(t) - 1
        OBVIOUS
    <2>2. r \in RowNumbers
        <3>1. PICK row : row = Row(t) /\ row \in RowNumbers
            BY PositionIs
        <3> QED BY <1>2, <2>1, <3>1, ScreenSizes DEF RowNumbers
    <2>3. u = [t EXCEPT !.pos[1] = r]
        BY <1>2, <2>1, Zenon DEF ReverseIndex, Row
    <2> QED BY <2>2, <2>3, GoesToRow
<1>3. CASE Row(t) # t.top /\ ~(Row(t) > 0)
    BY <1>3, WentNowhere DEF ReverseIndex
<1> QED BY <1>1, <1>2, <1>3

LEMMA ZeroIsColumn == 0 \in ColNumbers /\ 0 \in RowNumbers /\ <<0, 0>> \in Positions
<1>1. 0 \in ColNumbers /\ 0 \in RowNumbers
    BY ScreenSizes DEF ColNumbers, RowNumbers
<1> QED BY <1>1, PositionsAre

LEMMA CarriageReturnGoes ==
    ASSUME NEW t, Sound(t), NEW u, u = CarriageReturn(t)
    PROVE  Went(t, u)
<1>1. PICK c : c = 0
    OBVIOUS
<1> QED BY <1>1, ZeroIsColumn, GoesToColumn DEF CarriageReturn

LEMMA LeastOf ==
    ASSUME NEW S \in SUBSET Nat, NEW s \in S
    PROVE  \E c \in S : \A d \in S : c <= d
<1> SUFFICES ASSUME \A c \in S : \E d \in S : ~(c <= d) PROVE FALSE
    OBVIOUS
<1> DEFINE T == {k \in Nat : \A d \in S : k <= d}
<1>1. 0 \in T
    OBVIOUS
<1>2. ASSUME NEW k \in T PROVE k + 1 \in T
    <2>1. k \in Nat /\ \A d \in S : k <= d
        OBVIOUS
    <2>2. k \notin S
        BY <2>1
    <2>3. ASSUME NEW d \in S PROVE k + 1 <= d
        <3>1. d \in Nat /\ k <= d /\ d # k
            BY <2>1, <2>2
        <3> QED BY <2>1, <3>1
    <2> QED BY <2>1, <2>3
<1>3. T = Nat
    <2>1. T \in SUBSET Nat
        OBVIOUS
    <2> HIDE DEF T
    <2> QED BY <1>1, <1>2, <2>1, CountingUp
<1>4. s \in Nat /\ s + 1 \in Nat
    OBVIOUS
<1>5. s + 1 <= s
    BY <1>3, <1>4
<1> QED BY <1>4, <1>5

LEMMA GreatestOf ==
    ASSUME NEW S \in SUBSET Nat, NEW s \in S, NEW n \in Nat, \A d \in S : d <= n
    PROVE  \E c \in S : \A d \in S : c >= d
<1> DEFINE D == {n - d : d \in S}
<1>1. D \in SUBSET Nat
    OBVIOUS
<1>2. n - s \in D
    OBVIOUS
<1>3. PICK e \in D : \A f \in D : e <= f
    <2> HIDE DEF D
    <2> QED BY <1>1, <1>2, LeastOf
<1>4. PICK c \in S : e = n - c
    BY <1>3
<1>5. ASSUME NEW d \in S PROVE c >= d
    <2>1. n - c <= n - d
        BY <1>3, <1>4
    <2>2. c \in Nat /\ d \in Nat
        BY <1>4
    <2> QED BY <2>1, <2>2
<1> QED BY <1>4, <1>5

\* A tab stop beyond the end of the line is not gone to.
LEMMA TabGoes ==
    ASSUME NEW t, Sound(t), NEW n, NEW u, u = Tab(t, n)
    PROVE  Went(t, u)
<1>1. PICK nth : nth = {c \in t.tabs : c > Col(t) /\ Cardinality(t.tabs \cap (Col(t) + 1 .. c)) = n}
    OBVIOUS
<1>2. PICK last : last = ThisWidth(t) - 1
    OBVIOUS
<1>3. PICK stops : stops = nth \cup {last}
    OBVIOUS
<1>4. PICK least : least = CHOOSE c \in stops : \A d \in stops : c <= d
    OBVIOUS
<1>5. u = IF Col(t) >= last THEN t ELSE [t EXCEPT !.pos[2] = least]
    <2>1. u = IF Col(t) >= last THEN t
              ELSE [t EXCEPT !.pos[2] = CHOOSE c \in stops : \A d \in stops : c <= d]
        BY <1>1, <1>2, <1>3 DEF Tab
    <2> QED BY <1>4, <2>1, Zenon
<1>6. last \in ColNumbers
    <2>1. ThisWidth(t) \in 1 .. Cols
        BY WidthsAre DEF ThisWidth
    <2> QED BY <1>2, <2>1, ScreenSizes DEF ColNumbers
<1>7. nth \subseteq Nat
    BY <1>1 DEF Sound, Margins
<1>8. stops \in SUBSET Nat /\ last \in stops
    BY <1>3, <1>6, <1>7, ScreenSizes DEF ColNumbers
<1>9. least \in stops /\ least <= last
    <2>1. \E c \in stops : \A d \in stops : c <= d
        BY <1>8, LeastOf
    <2>2. least \in stops /\ \A d \in stops : least <= d
        BY <1>4, <2>1, Zenon
    <2> QED BY <1>8, <2>2
<1>10. least \in ColNumbers
    <2>1. least \in Nat
        BY <1>8, <1>9
    <2> QED BY <1>6, <1>9, <2>1, ScreenSizes DEF ColNumbers
<1>11. CASE Col(t) >= last
    BY <1>5, <1>11, WentNowhere
<1>12. CASE ~(Col(t) >= last)
    BY <1>5, <1>10, <1>12, GoesToColumn
<1> QED BY <1>11, <1>12

LEMMA BackTabGoes ==
    ASSUME NEW t, Sound(t), NEW n, NEW u, u = BackTab(t, n)
    PROVE  Went(t, u)
<1>1. PICK nth : nth = {c \in t.tabs : c < Col(t) /\ Cardinality(t.tabs \cap (c .. Col(t) - 1)) = n}
    OBVIOUS
<1>2. PICK stops : stops = nth \cup {0}
    OBVIOUS
<1>3. PICK most : most = CHOOSE c \in stops : \A d \in stops : c >= d
    OBVIOUS
<1>4. u = [t EXCEPT !.pos[2] = most]
    BY <1>1, <1>2, <1>3, Zenon DEF BackTab
<1>5. PICK col : col = Col(t) /\ col \in ColNumbers
    BY PositionIs
<1>6. nth \subseteq Nat /\ \A d \in nth : d < col
    BY <1>1, <1>5 DEF Sound, Margins
<1>7. stops \in SUBSET Nat /\ 0 \in stops
    BY <1>2, <1>6
<1>8. col \in Nat /\ col \in 0 .. Cols - 1 /\ Cols \in Nat
    BY <1>5, ScreenSizes DEF ColNumbers
<1>9. \A d \in stops : d <= col
    BY <1>2, <1>6, <1>8
<1>10. most \in stops
    <2>1. \E c \in stops : \A d \in stops : c >= d
        BY <1>7, <1>8, <1>9, GreatestOf
    <2> QED BY <1>3, <2>1, Zenon
<1>11. most \in ColNumbers
    BY <1>7, <1>8, <1>9, <1>10 DEF ColNumbers
<1> QED BY <1>4, <1>11, GoesToColumn

\* What the screen does not depend on.
LEMMA Unseen ==
    ASSUME NEW t, Shaped(t), NEW x, NEW u,
           \/ u = [t EXCEPT !.gl = x]
           \/ u = [t EXCEPT !.single = x]
           \/ u = [t EXCEPT !.mouse = x]
           \/ u = [t EXCEPT !.protocol = x]
           \/ u = [t EXCEPT !.shape = x]
           \/ u = [t EXCEPT !.pen = x]
           \/ u = [t EXCEPT !.protected = x]
           \/ u = [t EXCEPT !.charset = x]
           \/ u = [t EXCEPT !.reply = x]
           \/ u = [t EXCEPT !.last = x]
           \/ u = [t EXCEPT !.phantom = x]
           \/ u = [t EXCEPT !.modes = x]
    PROVE  Drawn(t, u)
<1>1. DOMAIN t = TermFields
    BY DEF Shaped
<1>2. CASE u = [t EXCEPT !.gl = x]
    <2>1. DOMAIN u = TermFields /\ Stays(t, u)
        BY <1>1, <1>2 DEF Stays, TermFields
    <2>2. u.cells = t.cells /\ u.picture = t.picture /\ u.cursor = t.cursor /\ u.ghosts = t.ghosts /\ u.info = t.info
        BY <1>1, <1>2 DEF TermFields
    <2>3. u.reverse = t.reverse
        BY <1>1, <1>2, Zenon DEF TermFields
    <2> QED BY <2>1, <2>2, <2>3, LookAlike DEF Looks
<1>3. CASE u = [t EXCEPT !.single = x]
    <2>1. DOMAIN u = TermFields /\ Stays(t, u)
        BY <1>1, <1>3 DEF Stays, TermFields
    <2>2. u.cells = t.cells /\ u.picture = t.picture /\ u.cursor = t.cursor /\ u.ghosts = t.ghosts /\ u.info = t.info
        BY <1>1, <1>3 DEF TermFields
    <2>3. u.reverse = t.reverse
        BY <1>1, <1>3, Zenon DEF TermFields
    <2> QED BY <2>1, <2>2, <2>3, LookAlike DEF Looks
<1>4. CASE u = [t EXCEPT !.mouse = x]
    <2>1. DOMAIN u = TermFields /\ Stays(t, u)
        BY <1>1, <1>4 DEF Stays, TermFields
    <2>2. u.cells = t.cells /\ u.picture = t.picture /\ u.cursor = t.cursor /\ u.ghosts = t.ghosts /\ u.info = t.info
        BY <1>1, <1>4 DEF TermFields
    <2>3. u.reverse = t.reverse
        BY <1>1, <1>4, Zenon DEF TermFields
    <2> QED BY <2>1, <2>2, <2>3, LookAlike DEF Looks
<1>5. CASE u = [t EXCEPT !.protocol = x]
    <2>1. DOMAIN u = TermFields /\ Stays(t, u)
        BY <1>1, <1>5 DEF Stays, TermFields
    <2>2. u.cells = t.cells /\ u.picture = t.picture /\ u.cursor = t.cursor /\ u.ghosts = t.ghosts /\ u.info = t.info
        BY <1>1, <1>5 DEF TermFields
    <2>3. u.reverse = t.reverse
        BY <1>1, <1>5, Zenon DEF TermFields
    <2> QED BY <2>1, <2>2, <2>3, LookAlike DEF Looks
<1>6. CASE u = [t EXCEPT !.shape = x]
    <2>1. DOMAIN u = TermFields /\ Stays(t, u)
        BY <1>1, <1>6 DEF Stays, TermFields
    <2>2. u.cells = t.cells /\ u.picture = t.picture /\ u.cursor = t.cursor /\ u.ghosts = t.ghosts /\ u.info = t.info
        BY <1>1, <1>6 DEF TermFields
    <2>3. u.reverse = t.reverse
        BY <1>1, <1>6, Zenon DEF TermFields
    <2> QED BY <2>1, <2>2, <2>3, LookAlike DEF Looks
<1>7. CASE u = [t EXCEPT !.pen = x]
    <2>1. DOMAIN u = TermFields /\ Stays(t, u)
        BY <1>1, <1>7 DEF Stays, TermFields
    <2>2. u.cells = t.cells /\ u.picture = t.picture /\ u.cursor = t.cursor /\ u.ghosts = t.ghosts /\ u.info = t.info
        BY <1>1, <1>7 DEF TermFields
    <2>3. u.reverse = t.reverse
        BY <1>1, <1>7, Zenon DEF TermFields
    <2> QED BY <2>1, <2>2, <2>3, LookAlike DEF Looks
<1>8. CASE u = [t EXCEPT !.protected = x]
    <2>1. DOMAIN u = TermFields /\ Stays(t, u)
        BY <1>1, <1>8 DEF Stays, TermFields
    <2>2. u.cells = t.cells /\ u.picture = t.picture /\ u.cursor = t.cursor /\ u.ghosts = t.ghosts /\ u.info = t.info
        BY <1>1, <1>8 DEF TermFields
    <2>3. u.reverse = t.reverse
        BY <1>1, <1>8, Zenon DEF TermFields
    <2> QED BY <2>1, <2>2, <2>3, LookAlike DEF Looks
<1>9. CASE u = [t EXCEPT !.charset = x]
    <2>1. DOMAIN u = TermFields /\ Stays(t, u)
        BY <1>1, <1>9 DEF Stays, TermFields
    <2>2. u.cells = t.cells /\ u.picture = t.picture /\ u.cursor = t.cursor /\ u.ghosts = t.ghosts /\ u.info = t.info
        BY <1>1, <1>9 DEF TermFields
    <2>3. u.reverse = t.reverse
        BY <1>1, <1>9, Zenon DEF TermFields
    <2> QED BY <2>1, <2>2, <2>3, LookAlike DEF Looks
<1>10. CASE u = [t EXCEPT !.reply = x]
    <2>1. DOMAIN u = TermFields /\ Stays(t, u)
        BY <1>1, <1>10 DEF Stays, TermFields
    <2>2. u.cells = t.cells /\ u.picture = t.picture /\ u.cursor = t.cursor /\ u.ghosts = t.ghosts /\ u.info = t.info
        BY <1>1, <1>10 DEF TermFields
    <2>3. u.reverse = t.reverse
        BY <1>1, <1>10, Zenon DEF TermFields
    <2> QED BY <2>1, <2>2, <2>3, LookAlike DEF Looks
<1>11. CASE u = [t EXCEPT !.last = x]
    <2>1. DOMAIN u = TermFields /\ Stays(t, u)
        BY <1>1, <1>11 DEF Stays, TermFields
    <2>2. u.cells = t.cells /\ u.picture = t.picture /\ u.cursor = t.cursor /\ u.ghosts = t.ghosts /\ u.info = t.info
        BY <1>1, <1>11 DEF TermFields
    <2>3. u.reverse = t.reverse
        BY <1>1, <1>11, Zenon DEF TermFields
    <2> QED BY <2>1, <2>2, <2>3, LookAlike DEF Looks
<1>12. CASE u = [t EXCEPT !.phantom = x]
    <2>1. DOMAIN u = TermFields /\ Stays(t, u)
        BY <1>1, <1>12 DEF Stays, TermFields
    <2>2. u.cells = t.cells /\ u.picture = t.picture /\ u.cursor = t.cursor /\ u.ghosts = t.ghosts /\ u.info = t.info
        BY <1>1, <1>12 DEF TermFields
    <2>3. u.reverse = t.reverse
        BY <1>1, <1>12, Zenon DEF TermFields
    <2> QED BY <2>1, <2>2, <2>3, LookAlike DEF Looks
<1>13. CASE u = [t EXCEPT !.modes = x]
    <2>1. DOMAIN u = TermFields /\ Stays(t, u)
        BY <1>1, <1>13 DEF Stays, TermFields
    <2>2. u.cells = t.cells /\ u.picture = t.picture /\ u.cursor = t.cursor /\ u.ghosts = t.ghosts /\ u.info = t.info
        BY <1>1, <1>13 DEF TermFields
    <2>3. u.reverse = t.reverse
        BY <1>1, <1>13, Zenon DEF TermFields
    <2> QED BY <2>1, <2>2, <2>3, LookAlike DEF Looks
<1> QED BY <1>2, <1>3, <1>4, <1>5, <1>6, <1>7, <1>8, <1>9, <1>10, <1>11, <1>12, <1>13

\* Between two commands: the cursor is drawn where it is, or among the ghosts.
Settled(t) == Sound(t) /\ t.cursor \in {t.pos} \cup t.ghosts

\* A command leads from one such state to another.
Leaves(t, v) == Settled(v) /\ v.hung = t.hung /\ Shows(t, v)

LEMMA WentShows ==
    ASSUME NEW t, NEW u, Went(t, u)
    PROVE  Shows(t, u)
BY Zenon DEF Went, Keeps, Shows

LEMMA ShowsOn ==
    ASSUME NEW t, NEW u, NEW v, Shows(t, u), Shows(u, v)
    PROVE  Shows(t, v)
BY DEF Shows

LEMMA WentSettles ==
    ASSUME NEW t, Settled(t), NEW u, Went(t, u), NEW cancel, NEW v, v = UpdateCursor(u, t.pos, cancel)
    PROVE  Leaves(t, v)
<1>1. PICK old : old = t.pos
    OBVIOUS
<1>2. Shaped(u) /\ u.cursor \in {u.pos, old} \cup u.ghosts /\ v = UpdateCursor(u, old, cancel)
    BY <1>1, Zenon DEF Settled, Went, Sound
<1>3. Shaped(v) /\ Stays(u, v) /\ v.cursor \in {v.pos} \cup v.ghosts /\ Shows(u, v)
    BY <1>2, UpdateCursorDraws
<1>4. Margins(v)
    BY <1>3, MarginsStay DEF Went, Sound
<1>5. Shows(t, v)
    BY <1>3, WentShows, ShowsOn
<1>6. v.pos = u.pos /\ u.pos \in Positions /\ v.hung = t.hung
    BY <1>3, Zenon DEF Stays, Went, Sound
<1> QED BY <1>3, <1>4, <1>5, <1>6 DEF Leaves, Settled, Sound

LEMMA SetTabGoes ==
    ASSUME NEW t, Sound(t), NEW tabs, tabs \subseteq Nat, NEW u, u = [t EXCEPT !.tabs = tabs]
    PROVE  Went(t, u) /\ u.pos = t.pos
<1>1. DOMAIN t = TermFields
    BY DEF Sound, Shaped
<1>2. /\ u.cells = t.cells /\ u.picture = t.picture /\ u.cursor = t.cursor /\ u.ghosts = t.ghosts /\ u.info = t.info /\ u.tabs = tabs
      /\ DOMAIN u = TermFields /\ u.pos = t.pos /\ u.saved = t.saved /\ u.hung = t.hung
      /\ u.top = t.top /\ u.bottom = t.bottom /\ u.left = t.left /\ u.right = t.right
    BY <1>1 DEF TermFields
<1>3. u.reverse = t.reverse
    BY <1>1, Zenon DEF TermFields
<1>4. Margins(u)
    BY <1>2, Zenon DEF Sound, Margins
<1>5. Keeps(t, u)
    BY <1>2, <1>3, LookKeeps DEF Looks
<1> QED BY <1>2, <1>4, <1>5 DEF Went, Sound, Shaped

\* A control leaves the cursor on the screen, and the picture right.
LEMMA OnControlSettles ==
    ASSUME NEW t, Settled(t), NEW name, NEW v, v = OnControl(t, name)
    PROVE  Leaves(t, v)
<1>1. PICK u : u = CASE name = "BS" -> [t EXCEPT !.pos[2] = IF @ > 0 THEN @ - 1 ELSE @]
               [] name = "HT" -> Tab(t, 1)
               [] name = "LF" -> IF Has(t, "newline") THEN CarriageReturn(LineFeed(t)) ELSE LineFeed(t)
               [] name = "CR" -> CarriageReturn(t)
               [] name = "LS1" -> [t EXCEPT !.gl = 1]
               [] name = "LS0" -> [t EXCEPT !.gl = 0]
               [] name = "IND" -> LineFeed(t)
               [] name = "NEL" -> CarriageReturn(LineFeed(t))
               [] name = "HTS" -> [t EXCEPT !.tabs = @ \cup {Col(t)}]
               [] name = "RI" -> ReverseIndex(t)
               [] name = "SS2" -> [t EXCEPT !.single = 2]
               [] OTHER -> t
    OBVIOUS
<1>2. PICK cancel : v = UpdateCursor(u, t.pos, cancel)
    BY <1>1, Zenon DEF OnControl
<1>3. Sound(t)
    BY DEF Settled
<1>4. PICK fed : fed = LineFeed(t) /\ Went(t, fed)
    BY <1>3, LineFeedGoes
<1>5. PICK nel : nel = CarriageReturn(fed) /\ Went(t, nel)
    <2>1. PICK nel : nel = CarriageReturn(fed)
        OBVIOUS
    <2>2. Went(fed, nel)
        BY <1>4, <2>1, CarriageReturnGoes DEF Went
    <2> QED BY <1>4, <2>1, <2>2, WentOn
<1>6. Went(t, u)
    <2>1. CASE name = "BS"
        <3>1. PICK c : c = IF Col(t) > 0 THEN Col(t) - 1 ELSE Col(t)
            OBVIOUS
        <3>2. u = [t EXCEPT !.pos[2] = c]
            BY <1>1, <2>1, <3>1, Zenon DEF Col
        <3>3. c \in ColNumbers
            <4>1. PICK col : col = Col(t) /\ col \in ColNumbers
                BY <1>3, PositionIs
            <4> QED BY <3>1, <4>1, ScreenSizes DEF ColNumbers
        <3> QED BY <1>3, <3>2, <3>3, GoesToColumn
    <2>2. CASE name = "HT"
        <3>1. PICK one : one = 1
            OBVIOUS
        <3>2. u = Tab(t, one)
            BY <1>1, <2>2, <3>1
        <3> QED BY <1>3, <3>2, TabGoes
    <2>3. CASE name = "LF"
        <3>1. u = fed \/ u = nel
            BY <1>1, <1>4, <1>5, <2>3
        <3> QED BY <1>4, <1>5, <3>1
    <2>4. CASE name = "CR"
        BY <1>1, <1>3, <2>4, CarriageReturnGoes
    <2>5. CASE name = "LS1"
        <3>1. PICK x : u = [t EXCEPT !.gl = x]
            BY <1>1, <2>5
        <3> QED BY <1>3, <3>1, Unseen, DrawnWent DEF Sound
    <2>6. CASE name = "LS0"
        <3>1. PICK x : u = [t EXCEPT !.gl = x]
            BY <1>1, <2>6
        <3> QED BY <1>3, <3>1, Unseen, DrawnWent DEF Sound
    <2>7. CASE name = "IND"
        BY <1>1, <1>4, <2>7
    <2>8. CASE name = "NEL"
        BY <1>1, <1>4, <1>5, <2>8
    <2>9. CASE name = "HTS"
        <3>1. PICK tabs : tabs = t.tabs \cup {Col(t)}
            OBVIOUS
        <3>2. u = [t EXCEPT !.tabs = tabs]
            BY <1>1, <2>9, <3>1
        <3>3. tabs \subseteq Nat
            <4>1. Col(t) \in Nat
                BY <1>3, PositionIs, ScreenSizes DEF ColNumbers
            <4> QED BY <1>3, <3>1, <4>1 DEF Sound, Margins
        <3> QED BY <1>3, <3>2, <3>3, SetTabGoes
    <2>10. CASE name = "RI"
        BY <1>1, <1>3, <2>10, ReverseIndexGoes
    <2>11. CASE name = "SS2"
        <3>1. PICK x : u = [t EXCEPT !.single = x]
            BY <1>1, <2>11
        <3> QED BY <1>3, <3>1, Unseen, DrawnWent DEF Sound
    <2>12. CASE name \notin {"BS", "HT", "LF", "CR", "LS1", "LS0", "IND", "NEL", "HTS", "RI", "SS2"}
        BY <1>1, <1>3, <2>12, WentNowhere
    <2> QED BY <2>1, <2>2, <2>3, <2>4, <2>5, <2>6, <2>7, <2>8, <2>9, <2>10, <2>11, <2>12
<1> QED BY <1>2, <1>6, WentSettles

LEMMA AdvanceGoes ==
    ASSUME NEW t, Sound(t), NEW u, u = Advance(t)
    PROVE  Went(t, u)
<1>1. CASE Col(t) + 1 < ThisWidth(t)
    <2>1. PICK c : c = Col(t) + 1
        OBVIOUS
    <2>2. u = [t EXCEPT !.pos[2] = c]
        BY <1>1, <2>1, Zenon DEF Advance, Col
    <2>3. c \in ColNumbers
        <3>1. PICK col : col = Col(t) /\ col \in ColNumbers
            BY PositionIs
        <3>2. PICK width : width = ThisWidth(t) /\ width \in 1 .. Cols
            BY WidthsAre DEF ThisWidth
        <3> QED BY <1>1, <2>1, <3>1, <3>2, ScreenSizes DEF ColNumbers
    <2> QED BY <2>2, <2>3, GoesToColumn
<1>2. CASE ~(Col(t) + 1 < ThisWidth(t))
    <2>1. PICK x : u = [t EXCEPT !.phantom = x]
        BY <1>2 DEF Advance
    <2> QED BY <2>1, Unseen, DrawnWent DEF Sound
<1> QED BY <1>1, <1>2

\* A character is put where the cursor is, after a wrap and an insertion.
LEMMA OnTextSettles ==
    ASSUME NEW t, Settled(t), NEW ch, NEW v, v = OnText(t, ch)
    PROVE  Leaves(t, v)
<1>1. PICK wrapped : wrapped = IF t.phantom \/ Col(t) + 1 > ThisWidth(t)
                               THEN [CarriageReturn(LineFeed(t)) EXCEPT !.phantom = FALSE] ELSE t
    OBVIOUS
<1>2. PICK room : room = IF Has(t, "insert")
                         THEN Scroll(wrapped, Row(wrapped), Row(wrapped) + 1, Col(wrapped), ThisWidth(wrapped), 0, -1)
                         ELSE wrapped
    OBVIOUS
<1>3. PICK put : put = PutGlyph([room EXCEPT !.single = 0], Glyph(t, ch), room.pos)
    OBVIOUS
<1>4. PICK last, no : v = UpdateCursor(Advance([put EXCEPT !.last = last]), t.pos, no)
    BY <1>1, <1>2, <1>3, Zenon DEF OnText
<1>5. Sound(t)
    BY DEF Settled
<1>6. Went(t, wrapped)
    <2>1. CASE t.phantom \/ Col(t) + 1 > ThisWidth(t)
        <3>1. PICK fed, nel : fed = LineFeed(t) /\ nel = CarriageReturn(fed)
            OBVIOUS
        <3>2. PICK no1 : wrapped = [nel EXCEPT !.phantom = no1]
            BY <1>1, <2>1, <3>1
        <3>3. Went(t, fed)
            BY <1>5, <3>1, LineFeedGoes
        <3>4. Went(fed, nel)
            BY <3>1, <3>3, CarriageReturnGoes DEF Went
        <3>5. Went(nel, wrapped)
            BY <3>2, <3>4, Unseen, DrawnWent DEF Went, Sound
        <3> QED BY <3>3, <3>4, <3>5, WentOn
    <2>2. CASE ~(t.phantom \/ Col(t) + 1 > ThisWidth(t))
        BY <1>1, <1>5, <2>2, WentNowhere
    <2> QED BY <2>1, <2>2
<1>7. Went(wrapped, room)
    <2>1. CASE Has(t, "insert")
        <3>1. PICK r0, r1, c0, c1, down, right : room = Scroll(wrapped, r0, r1, c0, c1, down, right)
            BY <1>2, <2>1
        <3> QED BY <1>6, <3>1, ScrollDraws, DrawnWent DEF Went, Sound
    <2>2. CASE ~Has(t, "insert")
        BY <1>2, <1>6, <2>2, WentNowhere DEF Went
    <2> QED BY <2>1, <2>2
<1>8. PICK zero, glyph, p : p = room.pos /\ put = PutGlyph([room EXCEPT !.single = zero], glyph, p)
    BY <1>3
<1>9. PICK lone : lone = [room EXCEPT !.single = zero]
    OBVIOUS
<1>10. Went(room, lone)
    BY <1>7, <1>9, Unseen, DrawnWent DEF Went, Sound
<1>11. Drawn(lone, put)
    <2>1. put = PutGlyph(lone, glyph, p) /\ Shaped(lone)
        BY <1>8, <1>9, <1>10 DEF Went, Sound
    <2> QED BY <2>1, PutGlyphDraws
<1>12. Went(lone, put)
    BY <1>10, <1>11, DrawnWent DEF Went
<1>13. PICK told : told = [put EXCEPT !.last = last]
    OBVIOUS
<1>14. Went(put, told)
    BY <1>12, <1>13, Unseen, DrawnWent DEF Went, Sound
<1>15. PICK u : u = Advance(told)
    OBVIOUS
<1>16. Went(told, u)
    BY <1>14, <1>15, AdvanceGoes DEF Went
<1>17. Went(t, lone) /\ Went(put, u)
    BY <1>6, <1>7, <1>10, <1>14, <1>16, WentOn
<1>18. Went(t, u)
    BY <1>12, <1>17, WentOn
<1>19. v = UpdateCursor(u, t.pos, no)
    BY <1>4, <1>13, <1>15
<1> QED BY <1>18, <1>19, WentSettles

LEMMA DrawnSettles ==
    ASSUME NEW t, Settled(t), NEW v, Drawn(t, v)
    PROVE  Leaves(t, v)
<1>1. Sound(v) /\ v.pos = t.pos
    BY DrawnWent DEF Settled, Went
<1>2. v.cursor \in {v.pos} \cup v.ghosts
    BY <1>1, Zenon DEF Settled, Drawn
<1>3. Shows(t, v) /\ v.hung = t.hung
    BY Zenon DEF Drawn, Shows, Stays
<1> QED BY <1>1, <1>2, <1>3 DEF Leaves, Settled

LEMMA OnCombiningSettles ==
    ASSUME NEW t, Settled(t), NEW v, v = OnCombining(t)
    PROVE  Leaves(t, v)
<1>1. PICK ch, p : v = PutGlyph(t, ch, p)
    BY DEF OnCombining
<1>2. Drawn(t, v)
    BY <1>1, PutGlyphDraws DEF Settled, Sound
<1> QED BY <1>2, DrawnSettles

LEMMA SaveCursorSettles ==
    ASSUME NEW t, Settled(t), NEW v, v = SaveCursor(t)
    PROVE  Leaves(t, v)
<1>1. PICK saved : saved = [pos |-> t.pos, pen |-> t.pen, shape |-> t.shape,
                            modes |-> t.modes \cap {"visible", "blink"}]
    OBVIOUS
<1>2. v = [t EXCEPT !.saved = saved]
    BY <1>1 DEF SaveCursor
<1>3. saved.pos \in Positions /\ saved.modes \subseteq {"visible", "blink"}
    BY <1>1 DEF Settled, Sound
<1>4. DOMAIN t = TermFields
    BY DEF Settled, Sound, Shaped
<1>5. /\ v.cells = t.cells /\ v.picture = t.picture /\ v.cursor = t.cursor /\ v.ghosts = t.ghosts /\ v.info = t.info /\ v.tabs = t.tabs
      /\ DOMAIN v = TermFields /\ v.pos = t.pos /\ v.saved = saved /\ v.hung = t.hung
      /\ v.top = t.top /\ v.bottom = t.bottom /\ v.left = t.left /\ v.right = t.right
    BY <1>2, <1>4 DEF TermFields
<1>6. v.reverse = t.reverse
    BY <1>2, <1>4, Zenon DEF TermFields
<1>7. Margins(v)
    BY <1>3, <1>5, Zenon DEF Settled, Sound, Margins
<1>8. Keeps(t, v)
    BY <1>5, <1>6, LookKeeps DEF Looks
<1>9. Sound(v)
    BY <1>5, <1>7 DEF Settled, Sound, Shaped
<1>10. v.cursor \in {v.pos} \cup v.ghosts
    BY <1>5, Zenon DEF Settled
<1>11. Shows(t, v)
    BY <1>5, <1>8, Zenon DEF Keeps, Shows
<1> QED BY <1>5, <1>9, <1>10, <1>11 DEF Leaves, Settled

\* What was saved was on the screen.
LEMMA RestoreCursorSettles ==
    ASSUME NEW t, Settled(t), NEW v, v = RestoreCursor(t)
    PROVE  Leaves(t, v)
<1>1. PICK u : u = [t EXCEPT !.pos = t.saved.pos, !.pen = t.saved.pen, !.shape = t.saved.shape,
                             !.modes = (@ \ {"visible", "blink"}) \cup t.saved.modes]
    OBVIOUS
<1>2. PICK yes : v = UpdateCursor(u, t.pos, yes)
    BY <1>1 DEF RestoreCursor
<1>3. DOMAIN t = TermFields
    BY DEF Settled, Sound, Shaped
<1>4. PICK pos, ink, shape, modes : /\ pos = t.saved.pos
                                    /\ u = [t EXCEPT !.pos = pos, !.pen = ink, !.shape = shape, !.modes = modes]
    BY <1>1
<1>5. /\ u.cells = t.cells /\ u.picture = t.picture /\ u.cursor = t.cursor /\ u.ghosts = t.ghosts /\ u.info = t.info /\ u.tabs = t.tabs
      /\ DOMAIN u = TermFields /\ u.pos = pos /\ u.saved = t.saved /\ u.hung = t.hung
      /\ u.top = t.top /\ u.bottom = t.bottom /\ u.left = t.left /\ u.right = t.right
    BY <1>3, <1>4 DEF TermFields
<1>6. u.reverse = t.reverse
    BY <1>3, <1>4, Zenon DEF TermFields
<1>7. Margins(u)
    BY <1>5, MarginsAlike DEF Settled, Sound
<1>8. Keeps(t, u)
    BY <1>5, <1>6, LookKeeps DEF Looks
<1>9. pos \in Positions
    BY <1>4 DEF Settled, Sound, Margins
<1>10. Went(t, u)
    BY <1>5, <1>7, <1>8, <1>9 DEF Went, Settled, Sound, Shaped
<1> QED BY <1>2, <1>10, WentSettles

\* vterm_state_reset
LEMMA ResetGoes ==
    ASSUME NEW t, Sound(t), NEW hard, NEW u, u = Reset(t, hard)
    PROVE  Went(t, u) /\ (~hard => u.pos = t.pos) /\ (hard => u.pos = <<0, 0>>)
<1>1. PICK w : w = SetLines(t, 0 .. Rows - 1, SingleLine)
    OBVIOUS
<1>2. PICK soft : soft = [w EXCEPT
                    !.top = 0, !.bottom = -1, !.left = 0, !.right = -1,
                    !.modes = {"autowrap", "visible", "blink"}, !.mouse = 0,
                    !.tabs = {c \in 0 .. Cols - 1 : c % 8 = 0},
                    !.pen = DefaultPen, !.protected = FALSE, !.shape = "block",
                    !.charset = [i \in 0 .. 3 |-> "utf8"], !.gl = 0, !.single = 0]
    OBVIOUS
<1>3. u = IF hard THEN Erase([soft EXCEPT !.pos = <<0, 0>>, !.phantom = FALSE], Positions, FALSE) ELSE soft
    BY <1>1, <1>2, Zenon DEF Reset
<1>4. Went(t, w) /\ w.pos = t.pos
    <2>1. PICK rows, info : w = SetLines(t, rows, info)
        BY <1>1
    <2>2. Drawn(t, w)
        BY <2>1, SetLinesDraws DEF Sound
    <2> QED BY <2>2, DrawnWent
<1>5. PICK top, bottom, left, right, modes, mouse, tabs, ink, protected, shape, charset, gl, lone :
        /\ top = 0 /\ bottom = -1 /\ left = 0 /\ right = -1 /\ modes = {"autowrap", "visible", "blink"}
        /\ mouse = 0 /\ tabs = {c \in 0 .. Cols - 1 : c % 8 = 0} /\ ink = DefaultPen /\ protected = FALSE
        /\ shape = "block" /\ charset = [i \in 0 .. 3 |-> "utf8"] /\ gl = 0 /\ lone = 0
    OBVIOUS
<1>5a. soft = [w EXCEPT !.top = top, !.bottom = bottom, !.left = left, !.right = right, !.modes = modes,
                        !.mouse = mouse, !.tabs = tabs, !.pen = ink, !.protected = protected, !.shape = shape,
                        !.charset = charset, !.gl = gl, !.single = lone]
    BY <1>2, <1>5, Zenon
<1>6. DOMAIN w = TermFields
    BY <1>4 DEF Went, Sound, Shaped
<1>7. /\ soft.cells = w.cells /\ soft.picture = w.picture /\ soft.cursor = w.cursor /\ soft.ghosts = w.ghosts /\ soft.info = w.info
      /\ soft.tabs = tabs /\ DOMAIN soft = TermFields /\ soft.pos = w.pos /\ soft.saved = w.saved /\ soft.hung = w.hung
      /\ soft.top = top /\ soft.bottom = bottom /\ soft.left = left /\ soft.right = right
    BY <1>5a, <1>6 DEF TermFields
<1>8. soft.reverse = w.reverse
    BY <1>5a, <1>6, Zenon DEF TermFields
<1>9. Margins(soft)
    <2>1. top \in RowNumbers /\ left \in 0 .. Cols
        BY <1>5, ZeroIsColumn, ScreenSizes
    <2>2. tabs \subseteq Nat
        BY <1>5, ScreenSizes
    <2>3. w.saved.pos \in Positions /\ w.saved.modes \subseteq {"visible", "blink"}
        BY <1>4 DEF Went, Sound, Margins
    <2> QED BY <1>5, <1>7, <2>1, <2>2, <2>3, Zenon DEF Margins
<1>10. Keeps(w, soft)
    BY <1>7, <1>8, LookKeeps DEF Looks
<1>11. Went(t, soft) /\ soft.pos = t.pos
    <2>1. Went(w, soft)
        BY <1>4, <1>7, <1>9, <1>10 DEF Went, Sound, Shaped
    <2> QED BY <1>4, <1>7, <2>1, WentOn
<1>12. CASE ~hard
    BY <1>3, <1>11, <1>12
<1>13. CASE hard
    <2>1. PICK zero, no : zero = <<0, 0>> /\ u = Erase([soft EXCEPT !.pos = zero, !.phantom = no], Positions, no)
        BY <1>3, <1>13
    <2>2. PICK home, m : home = [soft EXCEPT !.pos = zero] /\ m = [home EXCEPT !.phantom = no]
        OBVIOUS
    <2>3. m = [soft EXCEPT !.pos = zero, !.phantom = no]
        BY <1>7, <2>2, Zenon DEF TermFields
    <2>4. Went(soft, home) /\ home.pos = zero
        BY <1>11, <2>1, <2>2, GoesTo, PutsCursor, ZeroIsColumn DEF Went, Sound
    <2>5. Went(home, m) /\ m.pos = zero
        <3>1. Drawn(home, m)
            BY <2>2, <2>4, Unseen DEF Went, Sound
        <3> QED BY <2>4, <3>1, DrawnWent DEF Went
    <2>6. Went(m, u) /\ u.pos = zero
        <3>1. PICK rect : u = Erase(m, rect, no)
            BY <2>1, <2>3
        <3>2. Drawn(m, u)
            BY <2>5, <3>1, EraseDraws DEF Went, Sound
        <3> QED BY <2>5, <3>2, DrawnWent DEF Went
    <2> QED BY <1>11, <1>13, <2>1, <2>4, <2>5, <2>6, WentOn
<1> QED BY <1>12, <1>13

LEMMA PutMode ==
    ASSUME NEW t, Shaped(t), NEW mode, NEW on, NEW u, u = Put(t, mode, on)
    PROVE  Drawn(t, u)
<1>1. PICK x : u = [t EXCEPT !.modes = x]
    BY DEF Put
<1> QED BY <1>1, Unseen

LEMMA ThisLineDraws ==
    ASSUME NEW t, Sound(t), NEW dw, NEW dh, NEW u, u = ThisLine(t, dw, dh)
    PROVE  Drawn(t, u)
<1>1. CASE Has(t, "leftright")
    BY <1>1, DrawnNothing DEF ThisLine, Sound
<1>2. CASE ~Has(t, "leftright")
    <2>1. PICK info, row : u = SetLineInfo(t, row, info) /\ row = Row(t)
        BY <1>2 DEF ThisLine
    <2> QED BY <2>1, PositionIs, SetLineInfoDraws DEF Sound
<1> QED BY <1>1, <1>2

LEMMA OnEscapeSettles ==
    ASSUME NEW t, Settled(t), NEW name \in Escapes, NEW v, v = OnEscape(t, name)
    PROVE  Leaves(t, v)
<1>1. Sound(t) /\ Shaped(t)
    BY DEF Settled, Sound
<1>2. CASE name = "S8C1T"
    <2>1. PICK mode, on : v = Put(t, mode, on)
        BY <1>2 DEF OnEscape
    <2> QED BY <1>1, <2>1, PutMode, DrawnSettles
<1>3. CASE name = "S7C1T"
    <2>1. PICK mode, on : v = Put(t, mode, on)
        BY <1>3 DEF OnEscape
    <2> QED BY <1>1, <2>1, PutMode, DrawnSettles
<1>4. CASE name = "DECKPAM"
    <2>1. PICK mode, on : v = Put(t, mode, on)
        BY <1>4 DEF OnEscape
    <2> QED BY <1>1, <2>1, PutMode, DrawnSettles
<1>5. CASE name = "DECKPNM"
    <2>1. PICK mode, on : v = Put(t, mode, on)
        BY <1>5 DEF OnEscape
    <2> QED BY <1>1, <2>1, PutMode, DrawnSettles
<1>6. CASE name = "DECDHLtop"
    <2>1. PICK dw, dh : v = ThisLine(t, dw, dh)
        BY <1>6 DEF OnEscape
    <2> QED BY <1>1, <2>1, ThisLineDraws, DrawnSettles
<1>7. CASE name = "DECDHLbottom"
    <2>1. PICK dw, dh : v = ThisLine(t, dw, dh)
        BY <1>7 DEF OnEscape
    <2> QED BY <1>1, <2>1, ThisLineDraws, DrawnSettles
<1>8. CASE name = "DECSWL"
    <2>1. PICK dw, dh : v = ThisLine(t, dw, dh)
        BY <1>8 DEF OnEscape
    <2> QED BY <1>1, <2>1, ThisLineDraws, DrawnSettles
<1>9. CASE name = "DECDWL"
    <2>1. PICK dw, dh : v = ThisLine(t, dw, dh)
        BY <1>9 DEF OnEscape
    <2> QED BY <1>1, <2>1, ThisLineDraws, DrawnSettles
<1>10. CASE name = "DECALN"
    <2>1. v = Align(t)
        BY <1>10 DEF OnEscape
    <2> QED BY <1>1, <2>1, AlignDraws, DrawnSettles
<1>11. CASE name = "SCS1"
    <2>1. PICK x : x = [t.charset EXCEPT ![1] = "drawing"]
        OBVIOUS
    <2>2. v = [t EXCEPT !.charset = x]
        BY <1>1, <1>11, <2>1 DEF OnEscape, Shaped, TermFields
    <2> QED BY <1>1, <2>2, Unseen, DrawnSettles
<1>12. CASE name = "SCS2"
    <2>1. PICK x : x = [t.charset EXCEPT ![2] = "drawing"]
        OBVIOUS
    <2>2. v = [t EXCEPT !.charset = x]
        BY <1>1, <1>12, <2>1 DEF OnEscape, Shaped, TermFields
    <2> QED BY <1>1, <2>2, Unseen, DrawnSettles
<1>13. CASE name = "DECSC"
    <2>1. v = SaveCursor(t)
        BY <1>13 DEF OnEscape
    <2> QED BY <2>1, SaveCursorSettles
<1>14. CASE name = "DECRC"
    <2>1. v = RestoreCursor(t)
        BY <1>14 DEF OnEscape
    <2> QED BY <2>1, RestoreCursorSettles
<1>15. CASE name = "RIS"
    <2>1. PICK u, hard : u = Reset(t, hard) /\ v = MoveCursor(u, u.pos, t.pos)
        BY <1>15 DEF OnEscape
    <2>2. Went(t, u)
        BY <1>1, <2>1, ResetGoes
    <2>3. PICK p, old : p = u.pos /\ old = t.pos
        OBVIOUS
    <2>4. Shaped(u) /\ u.cursor \in {p, old} \cup u.ghosts /\ v = MoveCursor(u, p, old)
        BY <2>1, <2>2, <2>3, Zenon DEF Settled, Went, Sound
    <2>5. Shaped(v) /\ Stays(u, v) /\ v.cursor = p /\ Shows(u, v)
        BY <2>4, MoveCursorDraws
    <2>6. Margins(v)
        BY <2>2, <2>5, MarginsStay DEF Went, Sound
    <2>7. Shows(t, v)
        BY <2>2, <2>5, WentShows, ShowsOn
    <2>8. v.pos = p /\ p \in Positions /\ v.hung = t.hung
        BY <2>2, <2>3, <2>5, Zenon DEF Stays, Went, Sound
    <2>9. v.cursor \in {v.pos} \cup v.ghosts
        BY <2>5, <2>8
    <2> QED BY <2>5, <2>6, <2>7, <2>8, <2>9 DEF Leaves, Settled, Sound
<1>16. CASE name = "LS2"
    <2>1. PICK x : v = [t EXCEPT !.gl = x]
        BY <1>16 DEF OnEscape
    <2> QED BY <1>1, <2>1, Unseen, DrawnSettles
<1> QED BY <1>2, <1>3, <1>4, <1>5, <1>6, <1>7, <1>8, <1>9, <1>10, <1>11, <1>12, <1>13, <1>14, <1>15, <1>16 DEF Escapes

LEMMA PositionOf ==
    ASSUME NEW r \in RowNumbers, NEW c \in ColNumbers, NEW p, p = <<r, c>>
    PROVE  p \in Positions
BY PositionsAre

\* Bounding brings the cursor to the screen.
LEMMA BoundIs ==
    ASSUME NEW x \in Int, NEW least \in Int, NEW most \in Int
    PROVE  /\ Bound(x, least, most) \in Int
           /\ least <= most => Bound(x, least, most) \in least .. most
           /\ most < least => Bound(x, least, most) = most
           /\ x \in least .. most => Bound(x, least, most) = x
BY DEF Bound

LEMMA BoundedBounds ==
    ASSUME NEW t, Shaped(t), Margins(t), t.pos \in Int \X Int, NEW u, u = Bounded(t)
    PROVE  \E p \in Positions : u = [t EXCEPT !.pos = p]
<1>1. t.pos[1] \in Int /\ t.pos[2] \in Int
    OBVIOUS
<1>2. CASE Has(t, "origin")
    <2>1. PICK top, bottom, left, right : top = t.top /\ bottom = Bottom(t) /\ left = Left(t) /\ right = Right(t)
        OBVIOUS
    <2>2. top \in 0 .. Rows - 1 /\ bottom \in top + 1 .. Rows /\ left \in 0 .. Cols /\ right \in 1 .. Cols
        BY <2>1, MarginsAre DEF RowNumbers
    <2>3. PICK r, c : r = Bound(t.pos[1], top, bottom - 1) /\ c = Bound(t.pos[2], left, right - 1)
        OBVIOUS
    <2>4. r \in RowNumbers /\ c \in ColNumbers
        <3>1. /\ top \in Int /\ bottom - 1 \in Int /\ left \in Int /\ right - 1 \in Int
              /\ top <= bottom - 1
            BY <2>2, ScreenSizes
        <3>2. r \in top .. bottom - 1 /\ (c \in left .. right - 1 \/ c = right - 1)
            <4>1. PICK x, y, low, high : x = t.pos[1] /\ y = t.pos[2] /\ low = bottom - 1 /\ high = right - 1
                OBVIOUS
            <4>2. r = Bound(x, top, low) /\ c = Bound(y, left, high) /\ x \in Int /\ y \in Int
                BY <1>1, <2>3, <4>1
            <4>3. low \in Int /\ high \in Int /\ top <= low /\ (left <= high \/ high < left)
                BY <3>1, <4>1
            <4>4. r \in top .. low
                BY <3>1, <4>2, <4>3, BoundIs
            <4>5. c \in left .. high \/ c = high
                BY <3>1, <4>2, <4>3, BoundIs
            <4> QED BY <4>1, <4>4, <4>5
        <3> QED BY <2>2, <3>2, ScreenSizes DEF RowNumbers, ColNumbers
    <2>5. PICK p : p = <<r, c>>
        OBVIOUS
    <2>5a. p \in Positions
        BY <2>4, <2>5, PositionOf
    <2>6. u = [t EXCEPT !.pos = p]
        BY <1>2, <2>1, <2>3, <2>5 DEF Bounded
    <2> QED BY <2>5a, <2>6
<1>3. CASE ~Has(t, "origin")
    <2>1. PICK r : r = Bound(t.pos[1], 0, Rows - 1)
        OBVIOUS
    <2>2. PICK width, c : width = RowWidth(t, r) /\ c = Bound(t.pos[2], 0, width - 1)
        OBVIOUS
    <2>3. r \in RowNumbers
        <3>1. 0 \in Int /\ Rows - 1 \in Int /\ 0 <= Rows - 1
            BY ScreenSizes
        <3> QED BY <1>1, <2>1, <3>1, BoundIs DEF RowNumbers
    <2>4. c \in ColNumbers
        <3>1. width \in 1 .. Cols
            BY <2>2, WidthsAre
        <3>2. 0 \in Int /\ width - 1 \in Int /\ 0 <= width - 1
            BY <3>1, ScreenSizes
        <3>3. c \in 0 .. width - 1
            BY <1>1, <2>2, <3>2, BoundIs
        <3> QED BY <3>1, <3>3, ScreenSizes DEF ColNumbers
    <2>5. PICK p : p = <<r, c>>
        OBVIOUS
    <2>5a. p \in Positions
        BY <2>3, <2>4, <2>5, PositionOf
    <2>6. u = [t EXCEPT !.pos = p]
        BY <1>3, <2>1, <2>2, <2>5 DEF Bounded, Row
    <2> QED BY <2>5a, <2>6
<1> QED BY <1>2, <1>3

\* Which positions are ghosts changes nothing on the screen.
LEMMA GhostsChange ==
    ASSUME NEW t, Shaped(t), NEW ghosts, NEW u, u = [t EXCEPT !.ghosts = ghosts]
    PROVE  Shaped(u) /\ Stays(t, u) /\ u.cursor = t.cursor /\ u.ghosts = ghosts /\ Keeps(t, u)
<1>1. DOMAIN t = TermFields
    BY DEF Shaped
<1>2. /\ u.cells = t.cells /\ u.picture = t.picture /\ u.cursor = t.cursor /\ u.info = t.info
      /\ u.ghosts = ghosts
    BY <1>1 DEF TermFields
<1>3. u.reverse = t.reverse
    BY <1>1, Zenon DEF TermFields
<1>4. Shaped(u) /\ Stays(t, u)
    BY DEF Shaped, Stays, TermFields
<1>5. ASSUME NEW but, CurrentBut(t, but), NEW r \in RowNumbers, NEW c \in ColNumbers, c < RowWidth(u, r),
             <<r, c>> \notin but
      PROVE  RightAt(u, <<r, c>>)
    <2>1. RowWidth(u, r) = RowWidth(t, r)
        BY <1>2 DEF RowWidth
    <2>2. RightAt(t, <<r, c>>)
        BY <1>5, <2>1 DEF CurrentBut
    <2>3. Rendered(u, <<r, c>>) = Rendered(t, <<r, c>>)
        BY <1>2, <1>3, RenderedSame, Zenon
    <2> QED BY <1>2, <2>2, <2>3 DEF RightAt
<1> QED BY <1>2, <1>4, <1>5 DEF Keeps, CurrentBut

\* Where it has been drawn on the way it is a ghost.
LEMMA LeavesGhost ==
    ASSUME NEW t, NEW done, Switched(t, done), NEW y, Shaped(y), y.cursor = done.cursor, Keeps(done, y),
           NEW rest, rest = LeftBehind(t, done, y.pos), NEW ghosts, ghosts = done.ghosts \cup rest,
           NEW end, Shaped(end), Stays(y, end), end.cursor = y.cursor, end.ghosts = ghosts, Keeps(y, end)
    PROVE  Shows(t, end) /\ end.cursor \in {end.pos, t.pos} \cup end.ghosts
<1>1. Shows(done, end)
    <2>1. ASSUME CurrentBut(done, done.ghosts) PROVE CurrentBut(end, ghosts)
        <3>1. CurrentBut(done, ghosts)
            BY <2>1, CurrentLess
        <3> QED BY <3>1, Zenon DEF Keeps
    <2> QED BY <2>1, Zenon DEF Shows
<1>2. Shows(t, end)
    BY <1>1, ShowsOn, Zenon DEF Switched
<1>3. PICK c, d, g, old, pos : c = done.cursor /\ d = done.pos /\ g = done.ghosts /\ old = t.pos /\ pos = y.pos
    OBVIOUS
<1>4. c \in {old, d} \cup g
    BY <1>3 DEF Switched
<1>5. rest = IF d # old /\ c = d THEN {d} \ {pos} ELSE {}
    BY <1>3 DEF LeftBehind
<1>6. c \in {pos, old} \cup (g \cup rest)
    BY <1>4, <1>5
<1>7. end.pos = pos /\ end.cursor = c
    BY <1>3 DEF Stays
<1> QED BY <1>2, <1>3, <1>6, <1>7

\* What is to be drawn in the end.
Ends(t, end) ==
    /\ Sound(end) /\ end.hung = t.hung /\ Shows(t, end)
    /\ end.cursor \in {end.pos, t.pos} \cup end.ghosts

LEMMA EndSettles ==
    ASSUME NEW t, NEW end, Ends(t, end), NEW cancel, NEW v, v = UpdateCursor(end, t.pos, cancel)
    PROVE  Leaves(t, v)
<1>1. PICK old : old = t.pos
    OBVIOUS
<1>2. Shaped(end) /\ end.cursor \in {end.pos, old} \cup end.ghosts /\ v = UpdateCursor(end, old, cancel)
    BY <1>1 DEF Ends, Sound
<1>3. Shaped(v) /\ Stays(end, v) /\ v.cursor \in {v.pos} \cup v.ghosts /\ Shows(end, v)
    BY <1>2, UpdateCursorDraws
<1>4. Margins(v)
    BY <1>3, MarginsStay DEF Ends, Sound
<1>5. Shows(t, v)
    BY <1>3, ShowsOn DEF Ends
<1>6. v.pos = end.pos /\ end.pos \in Positions /\ v.hung = t.hung
    BY <1>3 DEF Stays, Ends, Sound
<1> QED BY <1>3, <1>4, <1>5, <1>6 DEF Leaves, Settled, Sound

\* The part of on_csi behind its switch.
LEMMA SwitchedSettles ==
    ASSUME NEW t, NEW done, Switched(t, done), NEW phantom,
           NEW pos, pos = Bounded(done).pos, NEW ghosts, ghosts = done.ghosts \cup LeftBehind(t, done, pos)
    PROVE  Ends(t, [done EXCEPT !.pos = pos, !.phantom = phantom, !.ghosts = ghosts])
<1>1. Shaped(done) /\ Margins(done) /\ done.pos \in Int \X Int /\ done.hung = t.hung
    BY DEF Switched
<1>2. PICK x, y : x = [done EXCEPT !.pos = pos] /\ y = [x EXCEPT !.phantom = phantom]
    OBVIOUS
<1>3. PICK end : end = [y EXCEPT !.ghosts = ghosts]
    OBVIOUS
<1>4. /\ pos \in Positions /\ Margins(y) /\ Shaped(y) /\ y.pos = pos
      /\ y.cursor = done.cursor /\ y.hung = done.hung /\ Keeps(done, y)
    <2>1. pos \in Positions
        <3>1. PICK w : w = Bounded(done)
            OBVIOUS
        <3>2. PICK p \in Positions : w = [done EXCEPT !.pos = p]
            BY <1>1, <3>1, BoundedBounds
        <3>3. w.pos = p
            BY <1>1, <3>2 DEF Shaped, TermFields
        <3> QED BY <3>1, <3>2, <3>3
    <2>2. /\ Shaped(x) /\ Looks(done, x) /\ x.pos = pos /\ x.top = done.top /\ x.bottom = done.bottom
          /\ x.left = done.left /\ x.right = done.right /\ x.tabs = done.tabs /\ x.saved = done.saved
          /\ x.hung = done.hung
        BY <1>1, <1>2, PutsCursor
    <2>3. Margins(x) /\ Keeps(done, x) /\ x.cursor = done.cursor
        BY <1>1, <2>2, MarginsAlike, LookKeeps DEF Looks
    <2>4. Drawn(x, y)
        BY <1>2, <2>2, Unseen
    <2>5. Margins(y)
        BY <2>3, <2>4, MarginsStay DEF Drawn
    <2>6. Shaped(y) /\ y.pos = x.pos /\ y.hung = x.hung /\ y.cursor = x.cursor /\ Keeps(x, y)
        BY <2>4 DEF Drawn, Stays, Keeps
    <2>7. Keeps(done, y)
        BY <2>3, <2>6 DEF Keeps
    <2> QED BY <2>1, <2>2, <2>3, <2>5, <2>6, <2>7
<1>5. Shaped(end) /\ Stays(y, end) /\ end.cursor = y.cursor /\ end.ghosts = ghosts /\ Keeps(y, end)
    <2>1. Shaped(y)
        BY <1>4
    <2>2. PICK g, e : g = ghosts /\ e = [y EXCEPT !.ghosts = g]
        OBVIOUS
    <2>3. Shaped(e) /\ Stays(y, e) /\ e.cursor = y.cursor /\ e.ghosts = g /\ Keeps(y, e)
        BY <2>1, <2>2, GhostsChange
    <2> QED BY <1>3, <2>2, <2>3
<1>6. PICK rest : rest = LeftBehind(t, done, y.pos) /\ ghosts = done.ghosts \cup rest
    BY <1>4
<1>7. Shows(t, end) /\ end.cursor \in {end.pos, t.pos} \cup end.ghosts
    BY <1>4, <1>5, <1>6, LeavesGhost, Zenon
<1>8. Margins(end) /\ end.pos = pos /\ end.hung = t.hung
    BY <1>1, <1>4, <1>5, MarginsStay DEF Stays
<1>9. Ends(t, end)
    BY <1>4, <1>5, <1>7, <1>8 DEF Ends, Sound
<1>10. end = [done EXCEPT !.pos = pos, !.phantom = phantom, !.ghosts = ghosts]
    BY <1>1, <1>2, <1>3, Zenon DEF Shaped, TermFields
<1> QED BY <1>9, <1>10, Zenon

LEMMA OnScreenIsInt ==
    ASSUME NEW p \in Positions
    PROVE  p \in Int \X Int
BY PositionsAre, ScreenSizes DEF RowNumbers, ColNumbers

LEMMA WentSwitched ==
    ASSUME NEW t, Settled(t), NEW u, Went(t, u)
    PROVE  Switched(t, u)
<1>1. u.pos \in Int \X Int
    BY OnScreenIsInt DEF Went, Sound
<1>2. u.cursor \in {t.pos, u.pos} \cup u.ghosts
    BY Zenon DEF Went, Settled
<1> QED BY <1>1, <1>2, WentShows DEF Switched, Went, Sound

LEMMA LeavesSwitched ==
    ASSUME NEW t, NEW u, Leaves(t, u)
    PROVE  Switched(t, u)
<1>1. u.pos \in Int \X Int
    BY OnScreenIsInt DEF Leaves, Settled, Sound
<1>2. u.cursor \in {t.pos, u.pos} \cup u.ghosts
    BY Zenon DEF Leaves, Settled
<1> QED BY <1>1, <1>2 DEF Switched, Leaves, Settled, Sound

ArgValues == Nat \cup {-1}

LEMMA ArgsAre ==
    ASSUME NEW a \in ArgValues
    PROVE  Count(a) \in Nat /\ ArgOr(a, 1) \in Nat
BY DEF ArgValues, Count, ArgOr, Missing

\* With a left margin behind the last column, home is there too.
LEMMA HomeIs ==
    ASSUME NEW t, Margins(t)
    PROVE  Home(t) \in Int \X Int
<1>1. t.top \in Int /\ Left(t) \in Int
    BY MarginsAre, ScreenSizes DEF RowNumbers
<1>2. <<t.top, Left(t)>> \in Int \X Int /\ <<0, 0>> \in Int \X Int
    BY <1>1
<1> QED BY <1>2 DEF Home

LEMMA MovedIsInt ==
    ASSUME NEW t, Sound(t), NEW name \in Moves, NEW a \in ArgValues, NEW b \in ArgValues
    PROVE  Moved(t, name, a, b) \in Int \X Int
<1>1. PICK r, c, n, h, a1, b1 : /\ r = Row(t) /\ c = Col(t) /\ n = Count(a) /\ h = Home(t)
                                /\ a1 = ArgOr(a, 1) /\ b1 = ArgOr(b, 1)
    OBVIOUS
<1>2. r \in Int /\ c \in Int /\ n \in Int /\ a1 \in Int /\ b1 \in Int
    BY <1>1, PositionIs, ArgsAre, ScreenSizes DEF RowNumbers, ColNumbers
<1>3. h[1] \in Int /\ h[2] \in Int
    <2>1. h \in Int \X Int
        BY <1>1, HomeIs DEF Sound
    <2> QED BY <2>1
<1>4. PICK h1, h2 : h1 = h[1] /\ h2 = h[2]
    OBVIOUS
<1>5. Moved(t, name, a, b) \in
          {<<r - n, c>>, <<r + n, c>>, <<r, c + n>>, <<r, c - n>>, <<r + n, 0>>, <<r - n, 0>>, <<r, a1 - 1>>,
           <<h1 + a1 - 1, c>>, <<h1 + a1 - 1, h2 + b1 - 1>>}
    BY <1>1, <1>4 DEF Moves, Moved
<1>6. h1 \in Int /\ h2 \in Int
    BY <1>3, <1>4
<1> QED BY <1>2, <1>5, <1>6

LEMMA MovesSwitch ==
    ASSUME NEW t, Settled(t), NEW name \in Moves, NEW a \in ArgValues, NEW b \in ArgValues,
           NEW u, u = [t EXCEPT !.pos = Moved(t, name, a, b), !.phantom = FALSE]
    PROVE  Switched(t, u)
<1>1. PICK p, no : p = Moved(t, name, a, b) /\ no = FALSE
    OBVIOUS
<1>2. p \in Int \X Int
    BY <1>1, MovedIsInt DEF Settled
<1>3. PICK m : m = [t EXCEPT !.pos = p]
    OBVIOUS
<1>4. u = [m EXCEPT !.phantom = no]
    BY <1>1, <1>3, Zenon DEF Settled, Sound, Shaped, TermFields
<1>5. /\ Shaped(m) /\ Looks(t, m) /\ m.pos = p /\ m.top = t.top /\ m.bottom = t.bottom
      /\ m.left = t.left /\ m.right = t.right /\ m.tabs = t.tabs /\ m.saved = t.saved /\ m.hung = t.hung
    BY <1>3, PutsCursor DEF Settled, Sound
<1>6. Margins(m)
    BY <1>5, MarginsAlike DEF Settled, Sound
<1>7. Drawn(m, u)
    BY <1>4, <1>5, Unseen
<1>8. Margins(u) /\ Shaped(u) /\ u.pos = p /\ u.cursor = t.cursor /\ u.ghosts = t.ghosts /\ u.hung = t.hung
    BY <1>5, <1>6, <1>7, MarginsStay DEF Drawn, Stays, Looks
<1>9. Shows(t, u)
    <2>1. Keeps(t, m)
        BY <1>5, LookKeeps
    <2> QED BY <1>7, <1>8, <2>1, Zenon DEF Keeps, Drawn, Shows
<1>10. u.cursor \in {t.pos, u.pos} \cup u.ghosts
    BY <1>8, Zenon DEF Settled
<1> QED BY <1>2, <1>8, <1>9, <1>10 DEF Switched

LEMMA ScrolledDraws ==
    ASSUME NEW t, Shaped(t), NEW name \in Scrolls, NEW n, NEW u, u = Scrolled(t, name, n)
    PROVE  Drawn(t, u)
<1>1. \/ u = t
      \/ \E down : u = ScrollRegion(t, down)
      \/ \E r0, r1, c0, c1, down, right : u = Scroll(t, r0, r1, c0, c1, down, right)
    BY DEF Scrolls, Scrolled
<1> QED BY <1>1, DrawnNothing, ScrollRegionDraws, ScrollDraws

LEMMA EraseDisplayDraws ==
    ASSUME NEW t, Shaped(t), NEW what, NEW selective, NEW u, u = EraseDisplay(t, what, selective)
    PROVE  Drawn(t, u)
<1>1. CASE what \in {Missing, 0}
    <2>0. u = Erase(SetLines(Erase(t, Rect(Row(t), Row(t) + 1, Col(t), Cols), selective),
                             Row(t) + 1 .. Rows - 1, SingleLine),
                    Rect(Row(t) + 1, Rows, 0, Cols), selective)
        BY <1>1 DEF EraseDisplay, Missing
    <2>1. PICK r1, rows, info, r2, e, s : /\ e = Erase(t, r1, selective)
                                         /\ s = SetLines(e, rows, info)
                                         /\ u = Erase(s, r2, selective)
        BY <2>0
    <2>2. Drawn(t, e)
        BY <2>1, EraseDraws
    <2>3. Drawn(e, s)
        BY <2>1, <2>2, SetLinesDraws DEF Drawn
    <2>4. Drawn(s, u)
        BY <2>1, <2>3, EraseDraws DEF Drawn
    <2> QED BY <2>2, <2>3, <2>4, DrawnOn
<1>2. CASE what \notin {Missing, 0} /\ what = 1
    <2>0. u = Erase(Erase(SetLines(t, 0 .. Row(t) - 1, SingleLine), Rect(0, Row(t), 0, Cols), selective),
                    Rect(Row(t), Row(t) + 1, 0, Col(t) + 1), selective)
        BY <1>2 DEF EraseDisplay, Missing
    <2>1. PICK r1, rows, info, r2, e, s : /\ s = SetLines(t, rows, info)
                                         /\ e = Erase(s, r1, selective)
                                         /\ u = Erase(e, r2, selective)
        BY <2>0
    <2>2. Drawn(t, s)
        BY <2>1, SetLinesDraws
    <2>3. Drawn(s, e)
        BY <2>1, <2>2, EraseDraws DEF Drawn
    <2>4. Drawn(e, u)
        BY <2>1, <2>3, EraseDraws DEF Drawn
    <2> QED BY <2>2, <2>3, <2>4, DrawnOn
<1>3. CASE what \notin {Missing, 0, 1} /\ what = 2
    <2>1. PICK r1, rows, info, s : /\ s = SetLines(t, rows, info)
                                  /\ u = Erase(s, r1, selective)
        BY <1>3 DEF EraseDisplay, Missing
    <2>2. Drawn(t, s)
        BY <2>1, SetLinesDraws
    <2>3. Drawn(s, u)
        BY <2>1, <2>2, EraseDraws DEF Drawn
    <2> QED BY <2>2, <2>3, DrawnOn
<1>4. CASE what \notin {Missing, 0, 1, 2}
    BY <1>4, DrawnNothing DEF EraseDisplay
<1> QED BY <1>1, <1>2, <1>3, <1>4

LEMMA ErasedDraws ==
    ASSUME NEW t, Shaped(t), NEW name \in Erasures, NEW a \in ArgValues, ~Refused(name, a),
           NEW u, u = Erased(t, name, a)
    PROVE  Drawn(t, u)
<1>0. PICK sel : sel = (name \in {"DECSED", "DECSEL"})
    OBVIOUS
<1>1. CASE name \in {"ED", "DECSED"}
    <2>1. PICK selective : u = EraseDisplay(t, a, selective)
        <3>1. u = EraseDisplay(t, a, sel)
            BY <1>0, <1>1 DEF Erased
        <3> QED BY <3>1
    <2> QED BY <2>1, EraseDisplayDraws
<1>2. CASE name \notin {"ED", "DECSED"}
    <2>1. \E c0, c1, selective : u = EraseInLine(t, c0, c1, selective)
        <3>1. CASE name = "ECH"
            <4>1. PICK no : no = FALSE
                OBVIOUS
            <4>2. u = EraseInLine(t, Col(t), Bound(Col(t) + Count(a), 0, ThisWidth(t)), no)
                BY <1>2, <3>1, <4>1 DEF Erased
            <4> QED BY <4>2
        <3>2. CASE name # "ECH" /\ a \in {Missing, 0}
            BY <1>2, <3>2 DEF Erased, Missing
        <3>3. CASE name # "ECH" /\ a \notin {Missing, 0} /\ a = 1
            BY <1>2, <3>3 DEF Erased
        <3>4. CASE name # "ECH" /\ a \notin {Missing, 0} /\ a # 1
            <4>1. a = 2
                BY <1>2, <3>4 DEF ArgValues, Missing, Refused, Erasures
            <4> QED BY <1>2, <3>4, <4>1 DEF Erased, Missing
        <3> QED BY <3>1, <3>2, <3>3, <3>4
    <2>2. PICK rect, selective : u = Erase(t, rect, selective)
        BY <2>1 DEF EraseInLine
    <2> QED BY <2>2, EraseDraws
<1> QED BY <1>1, <1>2

\* One more time the last character.
Again(t, v) == [PutGlyph(v, t.last.ch, v.pos) EXCEPT !.pos[2] = @ + 1]

\* The characters of REP one after the other.
LEMMA RepeatedUpTo ==
    ASSUME NEW t, NEW m, NEW times \in Nat,
           times = IF Bound(Col(t) + m, 0, ThisWidth(t)) > Col(t) THEN Bound(Col(t) + m, 0, ThisWidth(t)) - Col(t) ELSE 0
    PROVE  \E g : /\ g[0] = t
                  /\ \A i \in 1 .. times : g[i] = Again(t, g[i - 1])
                  /\ Repeated(t, m) = IF times > 0 /\ LastWidth(t) = 0 THEN Hang(t) ELSE g[times]
<1>1. PICK n : n = times
    OBVIOUS
<1>2. n \in Nat
    BY <1>1
<1> DEFINE upTo[i \in 0 .. n] == IF i = 0 THEN t ELSE Again(t, upTo[i - 1])
           IsUpTo(g) == g = [i \in 0 .. n |-> IF i = 0 THEN t ELSE Again(t, g[i - 1])]
           Up(g, k) == /\ g = [i \in 0 .. k |-> g[i]] /\ g[0] = t
                       /\ \A i \in 1 .. k : g[i] = Again(t, g[i - 1])
           T == {k \in Nat : \E g : Up(g, k)}
<1>3. 0 \in T
    <2> DEFINE g == [i \in 0 .. 0 |-> t]
    <2>1. g = [i \in 0 .. 0 |-> g[i]] /\ g[0] = t
        OBVIOUS
    <2>2. 1 .. 0 = {}
        OBVIOUS
    <2> HIDE DEF g
    <2>3. Up(g, 0)
        BY <2>1, <2>2
    <2> HIDE DEF Up
    <2> QED BY <2>3
<1>4. ASSUME NEW k \in T PROVE k + 1 \in T
    <2>1. k \in Nat
        OBVIOUS
    <2>2. PICK g : Up(g, k)
        <3> HIDE DEF Up
        <3> QED OBVIOUS
    <2>3. PICK new : new = Again(t, g[k])
        OBVIOUS
    <2> DEFINE h == [i \in 0 .. k + 1 |-> IF i = k + 1 THEN new ELSE g[i]]
    <2>4. h = [i \in 0 .. k + 1 |-> h[i]] /\ h[0] = t
        <3>1. 0 \in 0 .. k + 1 /\ 0 # k + 1
            BY <2>1
        <3> QED BY <2>2, <3>1
    <2>5. ASSUME NEW i \in 1 .. k + 1 PROVE h[i] = Again(t, h[i - 1])
        <3>1. CASE i = k + 1
            <4>1. i \in 0 .. k + 1 /\ i - 1 \in 0 .. k + 1 /\ i - 1 = k /\ k # k + 1
                BY <2>1, <3>1
            <4>2. h[i] = new /\ h[i - 1] = g[k]
                BY <3>1, <4>1
            <4> QED BY <2>3, <3>1, <4>1, <4>2
        <3>2. CASE i # k + 1
            <4>1. i \in 1 .. k /\ i \in 0 .. k + 1 /\ i - 1 # k + 1 /\ i - 1 \in 0 .. k + 1
                BY <2>1, <3>2
            <4>2. h[i] = g[i] /\ h[i - 1] = g[i - 1]
                BY <3>2, <4>1
            <4> QED BY <2>2, <4>1, <4>2
        <3> QED BY <3>1, <3>2
    <2> HIDE DEF h
    <2>6. Up(h, k + 1)
        BY <2>4, <2>5
    <2> HIDE DEF Up
    <2> QED BY <2>1, <2>6
<1>5. PICK g : Up(g, n)
    <2> HIDE DEF T, Up
    <2>1. T \in SUBSET Nat
        BY DEF T
    <2>2. T = Nat
        BY <1>3, <1>4, <2>1, CountingUp
    <2> QED BY <1>2, <2>2 DEF T
<1>6. IsUpTo(upTo)
    <2>1. IsUpTo(g)
        <3>1. g = [i \in 0 .. n |-> g[i]]
            BY <1>5
        <3>2. ASSUME NEW i \in 0 .. n
              PROVE  g[i] = IF i = 0 THEN t ELSE Again(t, g[i - 1])
            <4>1. i = 0 \/ i \in 1 .. n
                BY <1>2
            <4> QED BY <1>5, <4>1
        <3> HIDE DEF Up
        <3> QED BY <3>1, <3>2
    <2>2. upTo = CHOOSE h : IsUpTo(h)
        OBVIOUS
    <2> HIDE DEF upTo, IsUpTo
    <2> QED BY <2>1, <2>2
<1>7. upTo[0] = t /\ \A i \in 1 .. n : upTo[i] = Again(t, upTo[i - 1])
    <2> HIDE DEF upTo
    <2>1. 0 \in 0 .. n
        BY <1>2
    <2>2. ASSUME NEW i \in 1 .. n PROVE i \in 0 .. n /\ i # 0
        BY <1>2
    <2> QED BY <1>6, <2>1, <2>2
<1>8. Repeated(t, m) = IF n > 0 /\ LastWidth(t) = 0 THEN Hang(t) ELSE upTo[n]
    <2>1. CASE n > 0 /\ LastWidth(t) = 0
        <3>1. Repeated(t, m) = Hang(t)
            BY <1>1, <2>1, Zenon DEF Repeated
        <3> HIDE DEF upTo
        <3> QED BY <2>1, <3>1
    <2>2. CASE ~(n > 0 /\ LastWidth(t) = 0)
        <3>1. Repeated(t, m) = upTo[n]
            BY <1>1, <2>2, Zenon DEF Repeated, Again
        <3> HIDE DEF upTo
        <3> QED BY <2>2, <3>1
    <2> QED BY <2>1, <2>2
<1> HIDE DEF upTo
<1> QED BY <1>1, <1>7, <1>8

\* Behind k of the repeated characters the cursor is k columns further.
Further(t, u, k) ==
    /\ Shaped(u) /\ Margins(u) /\ u.cursor = t.cursor /\ u.ghosts = t.ghosts /\ u.hung = t.hung /\ Keeps(t, u)
    /\ u.pos = <<Row(t), Col(t) + k>>

LEMMA RepeatedOne ==
    ASSUME NEW t, Sound(t), NEW k \in Nat, NEW u, Further(t, u, k),
           NEW v, v = Again(t, u)
    PROVE  Further(t, v, k + 1)
<1>1. PICK ch, p, put : put = PutGlyph(u, ch, p) /\ v = [put EXCEPT !.pos[2] = @ + 1]
    BY DEF Again
<1>2. Drawn(u, put)
    BY <1>1, PutGlyphDraws DEF Further
<1>3. PICK r, c : r = Row(t) /\ c = Col(t) /\ c \in Int
    BY PositionIs, ScreenSizes DEF ColNumbers
<1>4. put.pos = <<r, c + k>>
    BY <1>2, <1>3 DEF Further, Drawn, Stays
<1>5. PICK q : q = <<r, c + (k + 1)>>
    OBVIOUS
<1>6. [put.pos EXCEPT ![2] = @ + 1] = q
    BY <1>3, <1>4, <1>5
<1>7. v = [put EXCEPT !.pos = q]
    BY <1>1, <1>2, <1>6, Zenon DEF Drawn, Shaped, TermFields
<1>8. /\ Shaped(v) /\ Looks(put, v) /\ v.pos = q /\ v.top = put.top /\ v.bottom = put.bottom
      /\ v.left = put.left /\ v.right = put.right /\ v.tabs = put.tabs /\ v.saved = put.saved /\ v.hung = put.hung
    BY <1>2, <1>7, PutsCursor DEF Drawn
<1>9. Margins(put)
    BY <1>2, MarginsStay DEF Further, Drawn
<1>10. Margins(v)
    BY <1>8, <1>9, MarginsAlike
<1>11. Keeps(put, v) /\ v.cursor = put.cursor /\ v.ghosts = put.ghosts
    BY <1>8, LookKeeps DEF Looks
<1>12. Keeps(t, v) /\ v.cursor = t.cursor /\ v.ghosts = t.ghosts /\ v.hung = t.hung
    BY <1>2, <1>8, <1>11, Zenon DEF Keeps, Drawn, Further, Stays
<1> QED BY <1>3, <1>5, <1>8, <1>10, <1>12 DEF Further

LEMMA RepeatedSwitches ==
    ASSUME NEW t, Settled(t), NEW m \in Nat, NEW u, u = Repeated(t, m)
    PROVE  Switched(t, u) \/ u = Hang(t)
<1>1. PICK col, width, end, times :
        /\ col = Col(t) /\ width = ThisWidth(t) /\ end = Bound(col + m, 0, width)
        /\ times = IF end > col THEN end - col ELSE 0
    OBVIOUS
<1>2. Sound(t)
    BY DEF Settled
<1>3. col \in Nat /\ width \in Nat
    BY <1>1, <1>2, PositionIs, WidthsAre, ScreenSizes DEF ThisWidth, ColNumbers
<1>4. times \in Nat
    <2>1. end \in Int
        BY <1>1, <1>3 DEF Bound
    <2> QED BY <1>1, <1>3, <2>1
<1>5. PICK g : /\ g[0] = t
               /\ \A i \in 1 .. times : g[i] = Again(t, g[i - 1])
               /\ Repeated(t, m) = IF times > 0 /\ LastWidth(t) = 0 THEN Hang(t) ELSE g[times]
    <2>1. times = IF Bound(Col(t) + m, 0, ThisWidth(t)) > Col(t)
                  THEN Bound(Col(t) + m, 0, ThisWidth(t)) - Col(t) ELSE 0
        BY <1>1
    <2> QED BY <1>4, <2>1, RepeatedUpTo
<1> DEFINE T == {k \in Nat : k <= times => Further(t, g[k], k)}
<1>6. 0 \in T
    <2>1. t.pos = <<Row(t), Col(t) + 0>>
        BY <1>1, <1>2, <1>3, PositionIs
    <2>2. Further(t, t, 0)
        BY <1>2, <2>1 DEF Further, Sound, Keeps
    <2> QED BY <1>5, <2>2
<1>7. ASSUME NEW k \in T PROVE k + 1 \in T
    <2>1. k \in Nat
        OBVIOUS
    <2> SUFFICES ASSUME k + 1 <= times PROVE Further(t, g[k + 1], k + 1)
        BY <2>1
    <2>2. k <= times /\ k + 1 \in 1 .. times /\ (k + 1) - 1 = k
        BY <1>4, <2>1
    <2>3. PICK v, w : v = g[k] /\ w = g[k + 1]
        OBVIOUS
    <2>4. w = Again(t, v)
        BY <1>5, <2>2, <2>3
    <2>5. Further(t, v, k)
        BY <2>2, <2>3
    <2> QED BY <1>2, <2>1, <2>3, <2>4, <2>5, RepeatedOne
<1> HIDE DEF T
<1>8. T = Nat
    <2>1. T \in SUBSET Nat
        BY DEF T
    <2> QED BY <1>6, <1>7, <2>1, CountingUp
<1>9. CASE u = g[times]
    <2>1. Further(t, u, times)
        BY <1>4, <1>8, <1>9 DEF T
    <2>2. u.pos \in Int \X Int
        <3>1. Row(t) \in Int
            BY <1>2, PositionIs, ScreenSizes DEF RowNumbers
        <3> QED BY <1>1, <1>3, <1>4, <2>1, <3>1 DEF Further
    <2>3. u.cursor \in {t.pos, u.pos} \cup u.ghosts
        BY <2>1, Zenon DEF Further, Settled
    <2>4. Shows(t, u)
        BY <2>1, Zenon DEF Further, Keeps, Shows
    <2> QED BY <2>1, <2>2, <2>3, <2>4 DEF Switched, Further
<1> QED BY <1>5, <1>9

\* REP before any text: nothing moves any more.
LEMMA Hangs ==
    ASSUME NEW t, Sound(t), NEW u, u = Hang(t)
    PROVE  Sound(u) /\ u.hung
<1>1. PICK yes, cells : yes = TRUE /\ u = [t EXCEPT !.hung = yes, !.cells = cells]
    BY DEF Hang
<1>2. DOMAIN t = TermFields
    BY DEF Sound, Shaped
<1>3. /\ DOMAIN u = TermFields /\ u.info = t.info /\ u.pos = t.pos /\ u.hung = yes
      /\ u.top = t.top /\ u.bottom = t.bottom /\ u.left = t.left /\ u.right = t.right
      /\ u.tabs = t.tabs /\ u.saved = t.saved
    BY <1>1, <1>2 DEF TermFields
<1>4. Margins(u)
    BY <1>3, MarginsAlike DEF Sound
<1> QED BY <1>1, <1>3, <1>4 DEF Sound, Shaped

\* The cursor may have left the screen, and is not drawn yet.
Strayed(t, u) ==
    /\ Shaped(u) /\ Margins(u) /\ u.pos \in Int \X Int
    /\ u.cursor = t.cursor /\ u.ghosts = t.ghosts /\ u.hung = t.hung
    /\ Keeps(t, u)

LEMMA StrayedSwitched ==
    ASSUME NEW t, Settled(t), NEW u, Strayed(t, u)
    PROVE  Switched(t, u)
<1>1. u.cursor \in {t.pos, u.pos} \cup u.ghosts
    BY Zenon DEF Strayed, Settled
<1>2. Shows(t, u)
    BY Zenon DEF Strayed, Keeps, Shows
<1> QED BY <1>1, <1>2 DEF Switched, Strayed

\* It is drawn where it has come to.
LEMMA StrayedDrawn ==
    ASSUME NEW t, Settled(t), NEW u, Strayed(t, u), NEW cancel, NEW v, v = UpdateCursor(u, t.pos, cancel)
    PROVE  Switched(t, v)
<1>1. PICK old : old = t.pos
    OBVIOUS
<1>2. Shaped(u) /\ u.cursor \in {u.pos, old} \cup u.ghosts /\ v = UpdateCursor(u, old, cancel)
    BY <1>1, Zenon DEF Settled, Strayed
<1>3. Shaped(v) /\ Stays(u, v) /\ v.cursor \in {v.pos} \cup v.ghosts /\ Shows(u, v)
    BY <1>2, UpdateCursorDraws
<1>4. Margins(v)
    BY <1>3, MarginsStay DEF Strayed
<1>5. Shows(t, v)
    <2>1. Shows(t, u)
        BY Zenon DEF Strayed, Keeps, Shows
    <2> QED BY <1>3, <2>1, ShowsOn
<1>6. v.pos \in Int \X Int /\ v.hung = t.hung
    BY <1>3 DEF Stays, Strayed
<1>7. v.cursor \in {t.pos, v.pos} \cup v.ghosts
    BY <1>3
<1> QED BY <1>3, <1>4, <1>5, <1>6, <1>7 DEF Switched

\* The cursor goes home once origin, region or margins are set.
LEMMA GoesHome ==
    ASSUME NEW t, NEW u, Shaped(u), Margins(u), Looks(t, u), u.hung = t.hung, NEW v, v = [u EXCEPT !.pos = Home(u)]
    PROVE  Strayed(t, v)
<1>1. PICK home : home = Home(u) /\ home \in Int \X Int
    BY HomeIs
<1>2. v = [u EXCEPT !.pos = home]
    BY <1>1
<1>3. /\ Shaped(v) /\ Looks(u, v) /\ v.pos = home /\ v.top = u.top /\ v.bottom = u.bottom
      /\ v.left = u.left /\ v.right = u.right /\ v.tabs = u.tabs /\ v.saved = u.saved /\ v.hung = u.hung
    BY <1>2, PutsCursor
<1>4. Margins(v)
    BY <1>3, MarginsAlike
<1>5. Keeps(t, v) /\ v.cursor = t.cursor /\ v.ghosts = t.ghosts
    <2>1. Keeps(t, u) /\ Keeps(u, v)
        BY <1>3, LookKeeps
    <2>2. Keeps(t, v)
        BY <2>1, Zenon DEF Keeps
    <2> QED BY <1>3, <2>2 DEF Looks
<1> QED BY <1>1, <1>3, <1>4, <1>5 DEF Strayed

\* DECOM: the cursor goes home, and is drawn there.
LEMMA OriginSwitches ==
    ASSUME NEW t, Settled(t), NEW on, NEW u, u = Put(t, "origin", on), NEW h, h = [u EXCEPT !.pos = Home(u)],
           NEW cancel, NEW v, v = UpdateCursor(h, t.pos, cancel)
    PROVE  Switched(t, v)
<1>1. Drawn(t, u)
    <2>1. PICK mode : u = Put(t, mode, on)
        OBVIOUS
    <2> QED BY <2>1, PutMode DEF Settled, Sound
<1>2. Shaped(u) /\ Margins(u)
    BY <1>1, MarginsStay DEF Drawn, Settled, Sound
<1>3. Strayed(u, h)
    <2>1. Looks(u, u)
        BY DEF Looks
    <2> QED BY <1>2, <2>1, GoesHome
<1>4. Strayed(t, h)
    BY <1>1, <1>3, Zenon DEF Strayed, Drawn, Stays, Keeps
<1> QED BY <1>4, StrayedDrawn

LEMMA RestoreDamagedSwitches ==
    ASSUME NEW t, Settled(t), NEW rect, NEW d, d = Damage(t, rect), NEW v, v = RestoreCursor(d)
    PROVE  Switched(t, v)
<1>1. Drawn(t, d)
    BY DamageDraws DEF Settled, Sound
<1>2. Leaves(t, d)
    BY <1>1, DrawnSettles
<1>3. Leaves(d, v)
    BY <1>2, RestoreCursorSettles DEF Leaves
<1>4. Leaves(t, v)
    BY <1>2, <1>3, ShowsOn DEF Leaves
<1> QED BY <1>4, LeavesSwitched

\* set_dec_mode
LEMMA SetDecModeSwitches ==
    ASSUME NEW t, Settled(t), NEW num \in ArgValues, NEW on, NEW u, u = SetDecMode(t, num, on)
    PROVE  Switched(t, u)
<1>1. Sound(t) /\ Shaped(t) /\ t.cursor \in {t.pos} \cup t.ghosts
    BY DEF Settled, Sound
<1>2. CASE num = 5
    <2>1. u = SetReverse(t, on)
        BY <1>2 DEF SetDecMode
    <2> QED BY <1>1, <2>1, SetReverseDraws, DrawnSwitched
<1>3. CASE num = 6
    <2>1. PICK p, h, yes : p = Put(t, "origin", on) /\ h = [p EXCEPT !.pos = Home(p)] /\ yes = TRUE
        OBVIOUS
    <2>2. u = UpdateCursor(h, t.pos, yes)
        BY <1>3, <2>1 DEF SetDecMode
    <2> QED BY <2>1, <2>2, OriginSwitches
<1>4. CASE num = 69
    <2>1. CASE on
        <3>0. PICK yes, mode, p : yes = TRUE /\ mode = "leftright" /\ p = Put(t, mode, yes)
            OBVIOUS
        <3>1. PICK rows, info : u = SetLines(p, rows, info)
            <4>1. u = SetLines(p, 0 .. Rows - 1, SingleLine)
                BY <1>4, <2>1, <3>0 DEF SetDecMode
            <4> QED BY <4>1
        <3>2. Drawn(t, p)
            BY <1>1, <3>0, PutMode
        <3>3. Drawn(p, u)
            BY <3>1, <3>2, SetLinesDraws DEF Drawn
        <3> QED BY <1>1, <3>2, <3>3, DrawnOn, DrawnSwitched
    <2>2. CASE ~on
        <3>0. PICK mode, no : no = FALSE /\ mode = "leftright"
            OBVIOUS
        <3>1. u = Put(t, mode, no)
            <4>1. u = IF on THEN SetLines(Put(t, "leftright", TRUE), 0 .. Rows - 1, SingleLine)
                      ELSE Put(t, "leftright", FALSE)
                BY <1>4 DEF SetDecMode
            <4> QED BY <2>2, <3>0, <4>1, Zenon
        <3> QED BY <1>1, <3>1, PutMode, DrawnSwitched
    <2> QED BY <2>1, <2>2
<1>5. CASE num \in {1000, 1002, 1003}
    <2>0. PICK x : x = IF on THEN num ELSE 0
        OBVIOUS
    <2>1. u = [t EXCEPT !.mouse = x]
        BY <1>5, <2>0 DEF SetDecMode
    <2> QED BY <1>1, <2>1, Unseen, DrawnSwitched
<1>6. CASE num \in {1005, 1006, 1015}
    <2>0. PICK x : x = IF on THEN num ELSE 0
        OBVIOUS
    <2>1. u = [t EXCEPT !.protocol = x]
        BY <1>6, <2>0 DEF SetDecMode
    <2> QED BY <1>1, <2>1, Unseen, DrawnSwitched
<1>7. CASE num = 1047
    <2>1. u = t \/ \E rect : u = Damage(t, rect)
        BY <1>7 DEF SetDecMode
    <2> QED BY <1>1, <2>1, DrawnNothing, DamageDraws, DrawnSwitched
<1>8. CASE num = 1048 /\ on
    <2>1. u = SaveCursor(t)
        BY <1>8 DEF SetDecMode
    <2> QED BY <2>1, SaveCursorSettles, LeavesSwitched
<1>8a. CASE num = 1049 /\ on
    <2>1. u = SaveCursor(t)
        BY <1>8a DEF SetDecMode
    <2> QED BY <2>1, SaveCursorSettles, LeavesSwitched
<1>9. CASE num = 1048 /\ ~on
    <2>1. u = RestoreCursor(t)
        BY <1>9 DEF SetDecMode
    <2> QED BY <2>1, RestoreCursorSettles, LeavesSwitched
<1>10. CASE num = 1049 /\ ~on
    <2>1. PICK rect, d : d = Damage(t, rect) /\ u = RestoreCursor(d)
        BY <1>10 DEF SetDecMode
    <2> QED BY <2>1, RestoreDamagedSwitches
<1>11. CASE num \notin {5, 6, 69, 1000, 1002, 1003, 1005, 1006, 1015, 1047, 1048, 1049}
    <2>1. u = t \/ \E mode : u = Put(t, mode, on)
        <3>1. CASE num \in {1, 7, 12, 25, 1004, 2004}
            <4>1. u = Put(t, FlagOf(num), on)
                BY <1>11, <3>1 DEF SetDecMode
            <4> QED BY <4>1
        <3>2. CASE num \notin {1, 7, 12, 25, 1004, 2004}
            <4>0. /\ num # 5 /\ num # 6 /\ num # 69 /\ num \notin {1000, 1002, 1003} /\ num \notin {1005, 1006, 1015}
                  /\ num # 1047 /\ num # 1048 /\ num # 1049
                BY <1>11
            <4>1. u = t
                BY <3>2, <4>0 DEF SetDecMode
            <4> QED BY <4>1
        <3> QED BY <3>1, <3>2
    <2> QED BY <1>1, <2>1, DrawnNothing, PutMode, DrawnSwitched
<1> QED BY <1>2, <1>3, <1>4, <1>5, <1>6, <1>7, <1>8, <1>8a, <1>9, <1>10, <1>11

LEMMA SetModeDraws ==
    ASSUME NEW t, Shaped(t), NEW num, NEW on, NEW u, u = SetMode(t, num, on)
    PROVE  Drawn(t, u)
<1>1. u = t \/ \E mode : u = Put(t, mode, on)
    BY DEF SetMode
<1> QED BY <1>1, DrawnNothing, PutMode

LEMMA RegionFits ==
    ASSUME NEW x \in Int, NEW given \in Int, NEW top, top = Bound(x, 0, Rows),
           NEW bottom, bottom = IF top = 0 /\ given = Rows THEN -1 ELSE Bound(given, -1, Rows),
           (IF bottom > -1 THEN bottom ELSE Rows) > top
    PROVE  top \in RowNumbers /\ (bottom = -1 \/ bottom \in top + 1 .. Rows)
<1>1. Rows \in Nat /\ Rows > 0
    BY ScreenSizes
<1>2. top \in 0 .. Rows
    BY <1>1 DEF Bound
<1>3. bottom \in -1 .. Rows
    BY <1>1, <1>2 DEF Bound
<1> HIDE DEF Bound
<1> QED BY <1>1, <1>2, <1>3 DEF RowNumbers

LEMMA SetRegionGoes ==
    ASSUME NEW t, Sound(t), NEW a \in ArgValues, NEW b \in ArgValues, NEW v, v = SetRegion(t, a, b)
    PROVE  Strayed(t, v)
<1>1. PICK x, given, top : x = ArgOr(a, 1) - 1 /\ given = (IF b = Missing THEN -1 ELSE b) /\ top = Bound(x, 0, Rows)
    OBVIOUS
<1>2. PICK bottom : bottom = IF top = 0 /\ given = Rows THEN -1 ELSE Bound(given, -1, Rows)
    OBVIOUS
<1>3. PICK valid : valid = ((IF bottom > -1 THEN bottom ELSE Rows) > top)
    OBVIOUS
<1>4. PICK newTop, newBottom : newTop = (IF valid THEN top ELSE 0) /\ newBottom = (IF valid THEN bottom ELSE -1)
    OBVIOUS
<1>5. PICK u : u = [t EXCEPT !.top = newTop, !.bottom = newBottom]
    OBVIOUS
<1>6. v = [u EXCEPT !.pos = Home(u)]
    BY <1>1, <1>2, <1>3, <1>4, <1>5, Zenon DEF SetRegion
<1>7. x \in Int /\ given \in Int
    <2>1. ArgOr(a, 1) \in Nat
        BY ArgsAre
    <2> QED BY <1>1, <2>1 DEF ArgValues, Missing
<1>8. newTop \in RowNumbers /\ (newBottom = -1 \/ newBottom \in newTop + 1 .. Rows)
    <2>1. CASE valid
        BY <1>1, <1>2, <1>3, <1>4, <1>7, <2>1, RegionFits
    <2>2. CASE ~valid
        BY <1>4, <2>2, ZeroIsColumn
    <2> QED BY <2>1, <2>2
<1>9. DOMAIN t = TermFields
    BY DEF Sound, Shaped
<1>10. /\ u.cells = t.cells /\ u.picture = t.picture /\ u.cursor = t.cursor /\ u.ghosts = t.ghosts /\ u.info = t.info /\ u.tabs = t.tabs
       /\ DOMAIN u = TermFields /\ u.saved = t.saved /\ u.hung = t.hung
       /\ u.top = newTop /\ u.bottom = newBottom /\ u.left = t.left /\ u.right = t.right
    BY <1>5, <1>9 DEF TermFields
<1>11. u.reverse = t.reverse
    BY <1>5, <1>9, Zenon DEF TermFields
<1>12. Margins(u)
    BY <1>8, <1>10, Zenon DEF Sound, Margins
<1>13. Shaped(u) /\ Looks(t, u)
    BY <1>10, <1>11 DEF Sound, Shaped, Looks
<1> QED BY <1>6, <1>10, <1>12, <1>13, GoesHome

LEMMA MarginsFit ==
    ASSUME NEW x \in Int, NEW given \in Int, NEW left, left = Bound(x, 0, Cols),
           NEW right, right = IF left = 0 /\ given = Cols THEN -1 ELSE Bound(given, -1, Cols),
           right = -1 \/ right > left
    PROVE  left \in 0 .. Cols /\ (right = -1 \/ right \in left + 1 .. Cols)
<1>1. Cols \in Nat /\ Cols > 1
    BY ScreenSizes
<1>2. left \in 0 .. Cols
    BY <1>1 DEF Bound
<1>3. right \in -1 .. Cols
    BY <1>1, <1>2 DEF Bound
<1> QED BY <1>1, <1>2, <1>3

LEMMA SetMarginsGoes ==
    ASSUME NEW t, Sound(t), NEW a \in ArgValues, NEW b \in ArgValues,
           NEW v, v = SetMargins(t, a, b)
    PROVE  Strayed(t, v)
<1>1. PICK x, given, left : x = ArgOr(a, 1) - 1 /\ given = (IF b = Missing THEN -1 ELSE b) /\ left = Bound(x, 0, Cols)
    OBVIOUS
<1>2. PICK right : right = IF left = 0 /\ given = Cols THEN -1 ELSE Bound(given, -1, Cols)
    OBVIOUS
<1>3. PICK valid : valid = (right = -1 \/ right > left)
    OBVIOUS
<1>4. PICK newLeft, newRight : newLeft = (IF valid THEN left ELSE 0) /\ newRight = (IF valid THEN right ELSE -1)
    OBVIOUS
<1>5. PICK u : u = [t EXCEPT !.left = newLeft, !.right = newRight]
    OBVIOUS
<1>6. v = [u EXCEPT !.pos = Home(u)]
    BY <1>1, <1>2, <1>3, <1>4, <1>5, Zenon DEF SetMargins
<1>7. x \in Int /\ given \in Int
    <2>1. ArgOr(a, 1) \in Nat
        BY ArgsAre
    <2> QED BY <1>1, <2>1, ScreenSizes DEF ArgValues, Missing
<1>8. newLeft \in 0 .. Cols /\ (newRight = -1 \/ newRight \in newLeft + 1 .. Cols)
    <2>1. CASE valid
        BY <1>1, <1>2, <1>3, <1>4, <1>7, <2>1, MarginsFit
    <2>2. CASE ~valid
        BY <1>4, <2>2, ScreenSizes
    <2> QED BY <2>1, <2>2
<1>9. DOMAIN t = TermFields
    BY DEF Sound, Shaped
<1>10. /\ u.cells = t.cells /\ u.picture = t.picture /\ u.cursor = t.cursor /\ u.ghosts = t.ghosts /\ u.info = t.info /\ u.tabs = t.tabs
       /\ DOMAIN u = TermFields /\ u.saved = t.saved /\ u.hung = t.hung
       /\ u.top = t.top /\ u.bottom = t.bottom /\ u.left = newLeft /\ u.right = newRight
    BY <1>5, <1>9 DEF TermFields
<1>11. u.reverse = t.reverse
    BY <1>5, <1>9, Zenon DEF TermFields
<1>12. Margins(u)
    BY <1>8, <1>10, Zenon DEF Sound, Margins
<1>13. Shaped(u) /\ Looks(t, u)
    BY <1>10, <1>11 DEF Sound, Shaped, Looks
<1> QED BY <1>6, <1>10, <1>12, <1>13, GoesHome

LEMMA SetShapeDraws ==
    ASSUME NEW t, Shaped(t), NEW a, NEW u, u = SetShape(t, a)
    PROVE  Drawn(t, u)
<1>1. \/ u = t
      \/ \E mode, on, x : u = [Put(t, mode, on) EXCEPT !.shape = x]
    BY DEF SetShape
<1>2. ASSUME NEW mode, NEW on, NEW x, u = [Put(t, mode, on) EXCEPT !.shape = x] PROVE Drawn(t, u)
    <2>1. PICK p : p = Put(t, mode, on)
        OBVIOUS
    <2>2. Drawn(t, p)
        BY <2>1, PutMode
    <2>3. Drawn(p, u)
        BY <1>2, <2>1, <2>2, Unseen DEF Drawn
    <2> QED BY <2>2, <2>3, DrawnOn
<1> QED BY <1>1, <1>2, DrawnNothing

\* The switch of on_csi, for what it does not refuse.
LEMMA SwitchSwitches ==
    ASSUME NEW t, Settled(t), NEW name \in SequenceNames, NEW a \in ArgValues, NEW b \in ArgValues,
           ~Refused(name, a), NEW u, u = Switch(t, name, a, b)
    PROVE  Switched(t, u) \/ u = Hang(t)
<1>1. Sound(t) /\ Shaped(t) /\ t.cursor \in {t.pos} \cup t.ghosts
    BY DEF Settled, Sound
<1>2. Count(a) \in Nat
    BY ArgsAre
<1>3. CASE name \in Moves
    <2>1. u = [t EXCEPT !.pos = Moved(t, name, a, b), !.phantom = FALSE]
        BY <1>3 DEF Switch, Moves, Scrolls, Erasures
    <2> QED BY <1>3, <2>1, MovesSwitch
<1>4. CASE name \in Scrolls
    <2>1. PICK k : u = Scrolled(t, name, k)
        <3>1. u = Scrolled(t, name, Count(a))
            BY <1>4 DEF Switch, Moves, Scrolls, Erasures
        <3> QED BY <3>1
    <2> QED BY <1>1, <1>4, <2>1, ScrolledDraws, DrawnSwitched
<1>5. CASE name \in Erasures
    <2>1. u = Erased(t, name, a)
        BY <1>5 DEF Switch, Moves, Scrolls, Erasures
    <2> QED BY <1>1, <1>5, <2>1, ErasedDraws, DrawnSwitched
<1>6. CASE name = "CHT"
    <2>1. PICK k : k = Count(a)
        OBVIOUS
    <2>2. u = Tab(t, k)
        BY <1>6, <2>1 DEF Switch, Moves, Scrolls, Erasures
    <2> QED BY <1>1, <2>2, TabGoes, WentSwitched
<1>7. CASE name = "CBT"
    <2>1. PICK k : k = Count(a)
        OBVIOUS
    <2>2. u = BackTab(t, k)
        BY <1>7, <2>1 DEF Switch, Moves, Scrolls, Erasures
    <2> QED BY <1>1, <2>2, BackTabGoes, WentSwitched
<1>8. CASE name = "REP"
    <2>1. PICK k : k = Count(a)
        OBVIOUS
    <2>2. u = Repeated(t, k)
        BY <1>8, <2>1 DEF Switch, Moves, Scrolls, Erasures
    <2> QED BY <1>2, <2>1, <2>2, RepeatedSwitches
<1>9. CASE name = "TBC"
    <2>1. PICK tabs : tabs = IF a \in {3, 5} THEN {} ELSE IF a \in {Missing, 0} THEN t.tabs \ {Col(t)} ELSE t.tabs
        OBVIOUS
    <2>2. u = [t EXCEPT !.tabs = tabs]
        BY <1>9, <2>1 DEF Switch, Moves, Scrolls, Erasures
    <2>3. tabs \subseteq Nat
        BY <1>1, <2>1 DEF Sound, Margins
    <2> QED BY <1>1, <2>2, <2>3, SetTabGoes, WentSwitched
<1>10. CASE name = "SM"
    <2>1. PICK on : on = TRUE
        OBVIOUS
    <2>2. u = SetMode(t, a, on)
        BY <1>10, <2>1 DEF Switch, Moves, Scrolls, Erasures
    <2> QED BY <1>1, <2>2, SetModeDraws, DrawnSwitched
<1>11. CASE name = "RM"
    <2>1. PICK on : on = FALSE
        OBVIOUS
    <2>2. u = SetMode(t, a, on)
        BY <1>11, <2>1 DEF Switch, Moves, Scrolls, Erasures
    <2> QED BY <1>1, <2>2, SetModeDraws, DrawnSwitched
<1>12. CASE name = "DECSET"
    <2>1. PICK on : on = TRUE
        OBVIOUS
    <2>2. u = SetDecMode(t, a, on)
        BY <1>12, <2>1 DEF Switch, Moves, Scrolls, Erasures
    <2> QED BY <2>2, SetDecModeSwitches
<1>13. CASE name = "DECRST"
    <2>1. PICK on : on = FALSE
        OBVIOUS
    <2>2. u = SetDecMode(t, a, on)
        BY <1>13, <2>1 DEF Switch, Moves, Scrolls, Erasures
    <2> QED BY <2>2, SetDecModeSwitches
<1>14. CASE name = "SGR"
    <2>1. PICK x : x = IF a = 7 THEN [t.pen EXCEPT !.reverse = TRUE]
                       ELSE IF a = Missing THEN DefaultPen ELSE [t.pen EXCEPT !.colour = a]
        OBVIOUS
    <2>2. u = [t EXCEPT !.pen = x]
        BY <1>14, <2>1 DEF Switch, Moves, Scrolls, Erasures
    <2> QED BY <1>1, <2>2, Unseen, DrawnSwitched
<1>15. CASE name = "DSR"
    <2>1. PICK x : x = <<Row(t) + 1, Col(t) + 1>>
        OBVIOUS
    <2>2. u = t \/ u = [t EXCEPT !.reply = x]
        BY <1>15, <2>1 DEF Switch, Moves, Scrolls, Erasures, Reply
    <2> QED BY <1>1, <2>2, DrawnNothing, Unseen, DrawnSwitched
<1>16. CASE name = "DECRQM"
    <2>1. PICK x : x = <<a, RequestDecMode(t, a)>>
        OBVIOUS
    <2>2. u = [t EXCEPT !.reply = x]
        BY <1>16, <2>1 DEF Switch, Moves, Scrolls, Erasures, Reply
    <2> QED BY <1>1, <2>2, Unseen, DrawnSwitched
<1>17. CASE name = "DECSTR"
    <2>1. PICK hard : hard = FALSE
        OBVIOUS
    <2>2. u = Reset(t, hard)
        BY <1>17, <2>1 DEF Switch, Moves, Scrolls, Erasures
    <2> QED BY <1>1, <2>2, ResetGoes, WentSwitched
<1>18. CASE name = "DECSCUSR"
    <2>1. u = SetShape(t, a)
        BY <1>18 DEF Switch, Moves, Scrolls, Erasures
    <2> QED BY <1>1, <2>1, SetShapeDraws, DrawnSwitched
<1>19. CASE name = "DECSCA"
    <2>1. PICK x : x = IF a \in {Missing, 0, 2} THEN FALSE ELSE IF a = 1 THEN TRUE ELSE t.protected
        OBVIOUS
    <2>2. u = [t EXCEPT !.protected = x]
        <3>1. u = Protect(t, a)
            BY <1>19 DEF Switch, Moves, Scrolls, Erasures
        <3> QED BY <2>1, <3>1, Zenon DEF Protect
    <2> QED BY <1>1, <2>2, Unseen, DrawnSwitched
<1>20. CASE name = "DECSTBM"
    <2>1. u = SetRegion(t, a, b)
        BY <1>20 DEF Switch, Moves, Scrolls, Erasures
    <2> QED BY <1>1, <2>1, SetRegionGoes, StrayedSwitched
<1>21. CASE name = "DECSLRM"
    <2>1. u = SetMargins(t, a, b)
        BY <1>21 DEF Switch, Moves, Scrolls, Erasures
    <2> QED BY <1>1, <2>1, SetMarginsGoes, StrayedSwitched
<1> QED BY <1>3, <1>4, <1>5, <1>6, <1>7, <1>8, <1>9, <1>10, <1>11, <1>12, <1>13, <1>14,
           <1>15, <1>16, <1>17, <1>18, <1>19, <1>20, <1>21 DEF SequenceNames

\* A command leaves the picture current, or never returns.
Returns(t, v) == Leaves(t, v) \/ (Sound(v) /\ v.hung)

LEMMA OnCsiSettles ==
    ASSUME NEW t, Settled(t), ~t.hung, NEW name \in SequenceNames, NEW a \in ArgValues, NEW b \in ArgValues,
           NEW v, v = OnCsi(t, name, a, b)
    PROVE  Returns(t, v)
<1>1. CASE Refused(name, a)
    <2>1. v = t
        BY <1>1, Zenon DEF OnCsi
    <2> QED BY <2>1, Zenon DEF Returns, Leaves, Shows
<1>2. CASE ~Refused(name, a)
    <2>1. PICK done : done = Switch(t, name, a, b)
        OBVIOUS
    <2>2. Switched(t, done) \/ done = Hang(t)
        BY <1>2, <2>1, SwitchSwitches
    <2>3. CASE done = Hang(t)
        <3>1. Sound(done) /\ done.hung
            BY <2>3, Hangs DEF Settled
        <3>2. v = done
            BY <1>2, <2>1, <3>1, Zenon DEF OnCsi
        <3> QED BY <3>1, <3>2 DEF Returns
    <2>4. CASE Switched(t, done)
        <3>1. ~done.hung
            BY <2>4, Zenon DEF Switched
        <3>2. PICK wraps, pos : wraps = (name = "REP" /\ RepeatWraps(done)) /\ pos = Bounded(done).pos
            OBVIOUS
        <3>3. PICK phantom, cancel, ghosts : /\ phantom = (done.phantom \/ wraps) /\ cancel = ~wraps
                                             /\ ghosts = done.ghosts \cup LeftBehind(t, done, pos)
            OBVIOUS
        <3>4. PICK end : end = [done EXCEPT !.pos = pos, !.phantom = phantom, !.ghosts = ghosts]
            OBVIOUS
        <3>5. v = UpdateCursor(end, t.pos, cancel)
            BY <1>2, <2>1, <3>1, <3>2, <3>3, <3>4, Zenon DEF OnCsi
        <3>6. Ends(t, end)
            BY <2>4, <3>2, <3>3, <3>4, SwitchedSettles, Zenon
        <3> QED BY <3>5, <3>6, EndSettles, Zenon DEF Returns
    <2> QED BY <2>2, <2>3, <2>4
<1> QED BY <1>1, <1>2

-----------------------------------------------------------------------------
(* The terminal at the start *)

LEMMA SetLinesNothing ==
    ASSUME NEW t, NEW rows, NEW info, \A r \in RowNumbers : t.info[r] = info
    PROVE  SetLines(t, rows, info) = t
<1>1. PICK g : /\ g[0] = t
               /\ \A i \in 1 .. Rows : g[i] = (IF i - 1 \in rows THEN SetLineInfo(g[i - 1], i - 1, info) ELSE g[i - 1])
               /\ SetLines(t, rows, info) = g[Rows]
    BY SetLinesUpTo
<1>2. Rows \in Nat
    BY ScreenSizes
<1> DEFINE T == {k \in Nat : k <= Rows => g[k] = t}
<1>3. 0 \in T
    BY <1>1
<1>4. ASSUME NEW k \in T PROVE k + 1 \in T
    <2>1. k \in Nat
        OBVIOUS
    <2> SUFFICES ASSUME k + 1 <= Rows PROVE g[k + 1] = t
        BY <2>1
    <2>2. k <= Rows /\ k + 1 \in 1 .. Rows /\ (k + 1) - 1 = k /\ k \in RowNumbers
        BY <1>2, <2>1 DEF RowNumbers
    <2>3. PICK v, w : v = g[k] /\ w = g[k + 1]
        OBVIOUS
    <2>4. w = IF k \in rows THEN SetLineInfo(v, k, info) ELSE v
        BY <1>1, <2>2, <2>3
    <2>5. v = t
        BY <2>2, <2>3
    <2>6. SetLineInfo(t, k, info) = t
        BY <2>2 DEF SetLineInfo
    <2> QED BY <2>3, <2>4, <2>5, <2>6
<1> HIDE DEF T
<1>5. T = Nat
    <2>1. T \in SUBSET Nat
        BY DEF T
    <2> QED BY <1>3, <1>4, <2>1, CountingUp
<1> QED BY <1>1, <1>2, <1>5 DEF T

\* vterm_new before the first reset.
ZeroPen == [reverse |-> FALSE, colour |-> 0]
BlankSeen == [ch |-> Blank, colour |-> 1, reverse |-> FALSE]
Allocated ==
    [pos |-> <<0, 0>>, phantom |-> FALSE, top |-> 0, bottom |-> -1, left |-> 0, right |-> -1,
     tabs |-> {}, modes |-> {}, mouse |-> 0, protocol |-> 0, shape |-> "none", pen |-> ZeroPen,
     protected |-> FALSE, gl |-> 0, single |-> 0, charset |-> [i \in 0 .. 3 |-> "utf8"],
     saved |-> [pos |-> <<0, 0>>, pen |-> ZeroPen, shape |-> "none", modes |-> {}],
     last |-> [ch |-> Blank, pos |-> <<0, 0>>], reply |-> <<>>,
     info |-> [row \in 0 .. Rows - 1 |-> SingleLine],
     cells |-> [p \in Positions |-> ClearCell(ZeroPen)], reverse |-> FALSE,
     cursor |-> <<0, 0>>, ghosts |-> {<<0, 0>>}, hung |-> FALSE,
     picture |-> [p \in Positions |-> BlankSeen]]

LEMMA NewTermIs ==
    NewTerm = [Reset(Allocated, TRUE) EXCEPT !.picture = Allocated.picture]
BY Zenon DEF NewTerm, Allocated, ZeroPen, BlankSeen

LEMMA AllocatedIs ==
    /\ Sound(Allocated) /\ Allocated.cursor = <<0, 0>> /\ Allocated.reverse = FALSE
    /\ Allocated.ghosts = {<<0, 0>>} /\ Allocated.hung = FALSE
    /\ Allocated.picture = [p \in Positions |-> BlankSeen]
    /\ \A r \in RowNumbers : Allocated.info[r] = SingleLine
<1>1. DOMAIN Allocated = TermFields
    BY DEF Allocated, TermFields
<1>2. Allocated.info = [row \in 0 .. Rows - 1 |-> SingleLine]
    BY DEF Allocated
<1>3. Shaped(Allocated) /\ \A r \in RowNumbers : Allocated.info[r] = SingleLine
    BY <1>1, <1>2 DEF Shaped, RowNumbers
<1>4. /\ Allocated.pos = <<0, 0>> /\ Allocated.top = 0 /\ Allocated.bottom = -1 /\ Allocated.left = 0
      /\ Allocated.right = -1 /\ Allocated.tabs = {} /\ Allocated.cursor = <<0, 0>>
      /\ Allocated.saved.pos = <<0, 0>> /\ Allocated.saved.modes = {}
    BY DEF Allocated
<1>5. Allocated.picture = [p \in Positions |-> BlankSeen]
    BY DEF Allocated
<1>6. Allocated.reverse = FALSE
    BY DEF Allocated
<1>8. Allocated.ghosts = {<<0, 0>>}
    BY DEF Allocated
<1>9. Allocated.hung = FALSE
    BY DEF Allocated
<1>7. Margins(Allocated)
    <2>1. 0 \in 0 .. Cols /\ {} \subseteq Nat
        BY ScreenSizes
    <2> QED BY <1>4, <2>1, ZeroIsColumn DEF Margins
<1> QED BY <1>3, <1>4, <1>5, <1>6, <1>7, <1>8, <1>9, ZeroIsColumn DEF Sound

EmptyCell == ClearCell([DefaultPen EXCEPT !.colour = 1])

\* A hard reset of single lines empties every cell.
LEMMA ResetEmpties ==
    ASSUME NEW t, Shaped(t), \A r \in RowNumbers : t.info[r] = SingleLine, NEW u, u = Reset(t, TRUE)
    PROVE  /\ \A p \in Positions : u.cells[p] = EmptyCell
           /\ u.reverse = t.reverse /\ u.phantom = FALSE /\ u.modes = {"autowrap", "visible", "blink"}
<1>1. SetLines(t, 0 .. Rows - 1, SingleLine) = t
    BY SetLinesNothing
<1>2. PICK top, bottom, left, right, modes, mouse, tabs, ink, protected, shape, charset, gl, lone :
        /\ top = 0 /\ bottom = -1 /\ left = 0 /\ right = -1 /\ modes = {"autowrap", "visible", "blink"}
        /\ mouse = 0 /\ tabs = {c \in 0 .. Cols - 1 : c % 8 = 0} /\ ink = DefaultPen /\ protected = FALSE
        /\ shape = "block" /\ charset = [i \in 0 .. 3 |-> "utf8"] /\ gl = 0 /\ lone = 0
    OBVIOUS
<1>3. PICK soft : soft = [t EXCEPT !.top = top, !.bottom = bottom, !.left = left, !.right = right, !.modes = modes,
                        !.mouse = mouse, !.tabs = tabs, !.pen = ink, !.protected = protected, !.shape = shape,
                        !.charset = charset, !.gl = gl, !.single = lone]
    OBVIOUS
<1>4. PICK zero, no : zero = <<0, 0>> /\ no = FALSE
    OBVIOUS
<1>5. u = Erase([soft EXCEPT !.pos = zero, !.phantom = no], Positions, no)
    BY <1>1, <1>2, <1>3, <1>4, Zenon DEF Reset
<1>6. PICK home : home = [soft EXCEPT !.pos = zero, !.phantom = no]
    OBVIOUS
<1>7. DOMAIN t = TermFields
    BY DEF Shaped
<1>8. DOMAIN soft = TermFields /\ soft.pen = ink /\ soft.modes = modes
    BY <1>3, <1>7 DEF TermFields
<1>9. soft.reverse = t.reverse
    BY <1>3, <1>7, Zenon DEF TermFields
<1>10. DOMAIN home = TermFields /\ home.pen = ink /\ home.modes = modes
    BY <1>6, <1>8 DEF TermFields
<1>11. home.reverse = soft.reverse /\ home.phantom = no
    BY <1>6, <1>8, Zenon DEF TermFields
<1> DEFINE empty == ClearCell([DefaultPen EXCEPT !.colour = home.pen.colour])
           cells == [p \in Positions |-> IF p \in Positions /\ ~(no /\ home.cells[p].protected) THEN empty ELSE home.cells[p]]
<1>12. PICK e : e = [home EXCEPT !.cells = cells]
    OBVIOUS
<1>13. PICK new : u = [e EXCEPT !.picture = new]
    <2>1. e = EraseInternal(home, Positions, no)
        BY <1>12 DEF EraseInternal
    <2>2. u = Damage(e, Positions)
        BY <1>5, <1>6, <2>1 DEF Erase
    <2> QED BY <2>2 DEF Damage
<1>14. empty = EmptyCell
    <2>1. home.pen.colour = 1
        BY <1>2, <1>10 DEF DefaultPen
    <2> QED BY <2>1 DEF EmptyCell
<1> HIDE DEF empty
<1>15. \A p \in Positions : cells[p] = EmptyCell
    BY <1>4, <1>14, Zenon
<1> HIDE DEF cells
<1>16. DOMAIN e = TermFields /\ e.cells = cells /\ e.modes = modes
    BY <1>10, <1>12 DEF TermFields
<1>17. e.reverse = home.reverse /\ e.phantom = home.phantom
    BY <1>10, <1>12, Zenon DEF TermFields
<1>18. u.cells = cells /\ u.modes = modes
    BY <1>13, <1>16 DEF TermFields
<1>19. u.reverse = e.reverse /\ u.phantom = e.phantom
    BY <1>13, <1>16, Zenon DEF TermFields
<1>20. u.reverse = t.reverse /\ u.phantom = FALSE
    BY <1>4, <1>9, <1>11, <1>17, <1>19, Zenon
<1> QED BY <1>2, <1>15, <1>18, <1>20

\* Before anything is written only the cursor is missing on the picture.
LEMMA NewTermIsBlank ==
    Settled(NewTerm) /\ NewTerm.ghosts = {<<0, 0>>} /\ ~NewTerm.hung /\ CurrentBut(NewTerm, {<<0, 0>>})
<1>1. PICK t, yes : t = Allocated /\ yes = TRUE
    OBVIOUS
<1>2. PICK u : u = Reset(t, yes)
    OBVIOUS
<1>3. PICK n, new : n = NewTerm /\ new = t.picture
    OBVIOUS
<1>4. n = [u EXCEPT !.picture = new]
    BY <1>1, <1>2, <1>3, NewTermIs, Zenon
<1>5. /\ Sound(t) /\ t.cursor = <<0, 0>> /\ t.reverse = FALSE /\ t.ghosts = {<<0, 0>>} /\ t.hung = FALSE
      /\ new = [p \in Positions |-> BlankSeen]
      /\ \A r \in RowNumbers : t.info[r] = SingleLine
    BY <1>1, <1>3, AllocatedIs, Zenon
<1>6. Went(t, u) /\ u.pos = <<0, 0>>
    <2>1. Sound(t) /\ yes
        BY <1>1, <1>5
    <2> QED BY <1>2, <2>1, ResetGoes, Zenon
<1>7. /\ \A p \in Positions : u.cells[p] = EmptyCell
      /\ u.reverse = t.reverse /\ u.phantom = FALSE /\ u.modes = {"autowrap", "visible", "blink"}
    BY <1>1, <1>2, <1>5, ResetEmpties DEF Sound
<1>8. DOMAIN u = TermFields
    BY <1>6 DEF Went, Sound, Shaped
<1>9. /\ DOMAIN n = TermFields /\ n.pos = u.pos /\ n.top = u.top /\ n.bottom = u.bottom /\ n.left = u.left
      /\ n.right = u.right /\ n.tabs = u.tabs /\ n.saved = u.saved /\ n.cells = u.cells /\ n.cursor = u.cursor /\ n.ghosts = u.ghosts
      /\ n.info = u.info /\ n.modes = u.modes /\ n.picture = new
    BY <1>4, <1>8 DEF TermFields
<1>10. n.reverse = u.reverse /\ n.hung = u.hung
    BY <1>4, <1>8, Zenon DEF TermFields
<1>11. Settled(n)
    <2>1. Margins(n)
        BY <1>6, <1>9, MarginsAlike DEF Went, Sound
    <2>2. Shaped(n)
        BY <1>6, <1>9 DEF Went, Sound, Shaped
    <2> QED BY <1>5, <1>6, <1>9, <2>1, <2>2, ZeroIsColumn DEF Settled, Sound, Went
<1>12. n.ghosts = {<<0, 0>>} /\ ~n.hung
    BY <1>5, <1>6, <1>9, <1>10, Zenon DEF Went
<1>13. ASSUME NEW r \in RowNumbers, NEW c \in ColNumbers, <<r, c>> \notin {<<0, 0>>}
       PROVE  RightAt(n, <<r, c>>)
    <2>1. PICK p : p = <<r, c>>
        OBVIOUS
    <2>2. p \in Positions /\ p # <<0, 0>>
        BY <1>13, <2>1, PositionOf
    <2>3. n.picture[p] = BlankSeen
        BY <1>5, <1>9, <2>2, Zenon
    <2>4. n.cells[p] = EmptyCell /\ n.cursor # p /\ n.reverse = FALSE
        <3>1. n.cells[p] = EmptyCell
            BY <1>7, <1>9, <2>2
        <3>2. n.cursor # p
            BY <1>5, <1>6, <1>9, <2>2 DEF Went
        <3>3. n.reverse = FALSE
            BY <1>5, <1>7, <1>10, Zenon
        <3> QED BY <3>1, <3>2, <3>3
    <2>5. EmptyCell.ch = Blank /\ EmptyCell.pen.colour = 1 /\ EmptyCell.pen.reverse = FALSE
        BY DEF EmptyCell, ClearCell, DefaultPen
    <2>6. ((EmptyCell.pen.reverse # n.reverse) # (n.cursor = p)) = FALSE
        BY <2>4, <2>5, Zenon
    <2>7. Rendered(n, p) = BlankSeen
        BY <2>4, <2>5, <2>6, Zenon DEF Rendered, BlankSeen
    <2> QED BY <2>1, <2>3, <2>7 DEF RightAt
<1> QED BY <1>3, <1>11, <1>12, <1>13 DEF CurrentBut

\* The commands before one after the other.
LEMMA RanIs ==
    ASSUME NEW start, Len(start) \in Nat
    PROVE  \E g : /\ g[0] = NewTerm
                  /\ \A i \in 1 .. Len(start) : g[i] = Command(g[i - 1], start[i])
                  /\ Ran(start) = g
<1>1. PICK n : n = Len(start)
    OBVIOUS
<1>2. n \in Nat
    BY <1>1
<1> DEFINE upTo[i \in 0 .. n] == IF i = 0 THEN NewTerm ELSE Command(upTo[i - 1], start[i])
           IsUpTo(g) == g = [i \in 0 .. n |-> IF i = 0 THEN NewTerm ELSE Command(g[i - 1], start[i])]
           Up(g, k) == /\ g = [i \in 0 .. k |-> g[i]] /\ g[0] = NewTerm
                       /\ \A i \in 1 .. k : g[i] = Command(g[i - 1], start[i])
           T == {k \in Nat : \E g : Up(g, k)}
<1>3. 0 \in T
    <2> DEFINE g == [i \in 0 .. 0 |-> NewTerm]
    <2>1. g = [i \in 0 .. 0 |-> g[i]] /\ g[0] = NewTerm
        OBVIOUS
    <2>2. 1 .. 0 = {}
        OBVIOUS
    <2> HIDE DEF g
    <2>3. Up(g, 0)
        BY <2>1, <2>2
    <2> HIDE DEF Up
    <2> QED BY <2>3
<1>4. ASSUME NEW k \in T PROVE k + 1 \in T
    <2>1. k \in Nat
        OBVIOUS
    <2>2. PICK g : Up(g, k)
        <3> HIDE DEF Up
        <3> QED OBVIOUS
    <2>3. PICK new : new = Command(g[k], start[(k + 1)])
        OBVIOUS
    <2> DEFINE h == [i \in 0 .. k + 1 |-> IF i = k + 1 THEN new ELSE g[i]]
    <2>4. h = [i \in 0 .. k + 1 |-> h[i]] /\ h[0] = NewTerm
        <3>1. 0 \in 0 .. k + 1 /\ 0 # k + 1
            BY <2>1
        <3> QED BY <2>2, <3>1
    <2>5. ASSUME NEW i \in 1 .. k + 1 PROVE h[i] = Command(h[i - 1], start[i])
        <3>1. CASE i = k + 1
            <4>1. i \in 0 .. k + 1 /\ i - 1 \in 0 .. k + 1 /\ i - 1 = k /\ k # k + 1
                BY <2>1, <3>1
            <4>2. h[i] = new /\ h[i - 1] = g[k]
                BY <3>1, <4>1
            <4> QED BY <2>3, <3>1, <4>1, <4>2
        <3>2. CASE i # k + 1
            <4>1. i \in 1 .. k /\ i \in 0 .. k + 1 /\ i - 1 # k + 1 /\ i - 1 \in 0 .. k + 1
                BY <2>1, <3>2
            <4>2. h[i] = g[i] /\ h[i - 1] = g[i - 1]
                BY <3>2, <4>1
            <4> QED BY <2>2, <4>1, <4>2
        <3> QED BY <3>1, <3>2
    <2> HIDE DEF h
    <2>6. Up(h, k + 1)
        BY <2>4, <2>5
    <2> HIDE DEF Up
    <2> QED BY <2>1, <2>6
<1>5. PICK g : Up(g, n)
    <2> HIDE DEF T, Up
    <2>1. T \in SUBSET Nat
        BY DEF T
    <2>2. T = Nat
        BY <1>3, <1>4, <2>1, CountingUp
    <2> QED BY <1>2, <2>2 DEF T
<1>6. IsUpTo(upTo)
    <2>1. IsUpTo(g)
        <3>1. g = [i \in 0 .. n |-> g[i]]
            BY <1>5
        <3>2. ASSUME NEW i \in 0 .. n
              PROVE  g[i] = IF i = 0 THEN NewTerm ELSE Command(g[i - 1], start[i])
            <4>1. i = 0 \/ i \in 1 .. n
                BY <1>2
            <4> QED BY <1>5, <4>1
        <3> HIDE DEF Up
        <3> QED BY <3>1, <3>2
    <2>2. upTo = CHOOSE h : IsUpTo(h)
        OBVIOUS
    <2> HIDE DEF upTo, IsUpTo
    <2> QED BY <2>1, <2>2
<1>7. upTo[0] = NewTerm /\ \A i \in 1 .. n : upTo[i] = Command(upTo[i - 1], start[i])
    <2> HIDE DEF upTo
    <2>1. 0 \in 0 .. n
        BY <1>2
    <2>2. ASSUME NEW i \in 1 .. n PROVE i \in 0 .. n /\ i # 0
        BY <1>2
    <2> QED BY <1>6, <2>1, <2>2
<1>8. Ran(start) = upTo
    BY <1>1, Zenon DEF Ran
<1> HIDE DEF upTo
<1> QED BY <1>1, <1>7, <1>8

LEMMA CommandSettles ==
    ASSUME NEW t, Settled(t), ~t.hung, NEW c \in Commands, NEW v, v = Command(t, c)
    PROVE  Returns(t, v)
<1>1. CASE c[1] = "text"
    <2>1. PICK ch : ch = c[2]
        OBVIOUS
    <2>2. v = OnText(t, ch)
        BY <1>1, <2>1 DEF Command
    <2> QED BY <2>2, OnTextSettles DEF Returns
<1>2. CASE c[1] # "text"
    <2>1. c \in (Controls \cup Escapes \cup SequenceNames) \X ArgValues \X ArgValues
        BY <1>2 DEF Commands, ArgValues, Missing
    <2>2. PICK name, a, b : /\ name \in Controls \cup Escapes \cup SequenceNames /\ a \in ArgValues /\ b \in ArgValues
                            /\ c = <<name, a, b>>
        BY <2>1
    <2>3. v = IF name \in Controls THEN OnControl(t, name) ELSE IF name \in Escapes THEN OnEscape(t, name)
              ELSE OnCsi(t, name, a, b)
        BY <1>2, <2>2 DEF Command
    <2>4. CASE name \in Controls
        BY <2>3, <2>4, OnControlSettles DEF Returns
    <2>5. CASE name \notin Controls /\ name \in Escapes
        BY <2>3, <2>5, OnEscapeSettles DEF Returns
    <2>6. CASE name \notin Controls /\ name \notin Escapes
        <3>1. name \in SequenceNames
            BY <2>2, <2>6
        <3>2. v = OnCsi(t, name, a, b)
            BY <2>3, <2>6
        <3> QED BY <2>2, <3>1, <3>2, OnCsiSettles
    <2> QED BY <2>4, <2>5, <2>6
<1> QED BY <1>1, <1>2

\* Screen and picture agree but for the ghosts, and the cursor is drawn, as
\* long as the terminal answers.
ScreenInv(t) == Sound(t) /\ (~t.hung => Settled(t) /\ CurrentBut(t, t.ghosts))

LEMMA KeptCurrent ==
    ASSUME NEW t, ScreenInv(t), ~t.hung, NEW v, Returns(t, v)
    PROVE  ScreenInv(v)
BY Zenon DEF ScreenInv, Returns, Leaves, Shows, Settled

LEMMA StartedIsCurrent ==
    ASSUME NEW start \in Started
    PROVE  ScreenInv(After(start))
<1>1. start \in Seq(Commands)
    BY StartedAssumption
<1>2. PICK n : n = Len(start)
    OBVIOUS
<1>3. n \in Nat /\ \A i \in 1 .. n : start[i] \in Commands
    BY <1>1, <1>2
<1>4. PICK g : /\ g[0] = NewTerm
               /\ \A i \in 1 .. n : g[i] = Command(g[i - 1], start[i])
               /\ Ran(start) = g
    BY <1>2, <1>3, RanIs
<1> DEFINE T == {k \in Nat : k <= n => ScreenInv(g[k])}
<1>6. 0 \in T
    <2>1. PICK t : t = NewTerm
        OBVIOUS
    <2>2. Settled(t) /\ CurrentBut(t, t.ghosts)
        BY <2>1, NewTermIsBlank, Zenon
    <2>3. ScreenInv(t)
        BY <2>2, Zenon DEF ScreenInv, Settled
    <2> QED BY <1>4, <2>1, <2>3
<1>7. ASSUME NEW k \in T PROVE k + 1 \in T
    <2>1. k \in Nat
        OBVIOUS
    <2> SUFFICES ASSUME k + 1 <= n PROVE ScreenInv(g[k + 1])
        BY <2>1
    <2>2. k <= n /\ k + 1 \in 1 .. n /\ (k + 1) - 1 = k
        BY <1>3, <2>1
    <2>3. PICK t, v, c : t = g[k] /\ v = g[k + 1] /\ c = start[k + 1]
        OBVIOUS
    <2>4. v = Command(t, c) /\ c \in Commands
        BY <1>3, <1>4, <2>2, <2>3
    <2>5. ScreenInv(t)
        BY <2>2, <2>3
    <2>6. CASE t.hung
        <3>1. v = t
            BY <2>4, <2>6, Zenon DEF Command
        <3> QED BY <2>3, <2>5, <3>1
    <2>7. CASE ~t.hung
        <3>1. Returns(t, v)
            BY <2>4, <2>5, <2>7, CommandSettles DEF ScreenInv
        <3> QED BY <2>3, <2>5, <2>7, <3>1, KeptCurrent
    <2> QED BY <2>6, <2>7
<1> HIDE DEF T
<1>8. T = Nat
    <2>1. T \in SUBSET Nat
        BY DEF T
    <2> QED BY <1>6, <1>7, <2>1, CountingUp
<1>9. ScreenInv(g[n])
    BY <1>3, <1>8 DEF T
<1> QED BY <1>2, <1>4, <1>9 DEF After

\* Sequences that programs write are sequences that there are.
LEMMA WrittenAreCommands ==
    ASSUME NEW c \in SequencesWritten
    PROVE  \E name \in SequenceNames, a \in ArgValues, b \in ArgValues : c = <<name, a, b>>
<1>1. Counts \subseteq ArgValues /\ DecModes \subseteq ArgValues
    BY StateAssumption DEF ArgValues
<1>2. Args \subseteq ArgValues /\ Missing \in ArgValues
    BY <1>1 DEF Args, Missing, ArgValues
<1>3. 1 \in ArgValues /\ 2 \in ArgValues /\ 3 \in ArgValues /\ 4 \in ArgValues /\ 6 \in ArgValues
      /\ 7 \in ArgValues /\ 20 \in ArgValues
    BY DEF ArgValues
<1>4. c \in SequenceNames \X ArgValues \X ArgValues
    BY <1>1, <1>2, <1>3 DEF SequencesWritten, SequenceNames, Moves, Scrolls, Erasures
<1> QED BY <1>4

LEMMA TermStepSettles ==
    ASSUME ScreenInv(term), TermStep
    PROVE  ScreenInv(term')
<1>1. PICK t, v : t = term /\ v = term'
    OBVIOUS
<1>2. ScreenInv(t) /\ ~t.hung /\ Settled(t)
    BY <1>1 DEF ScreenInv, TermStep, WriteText, WriteCombining, WriteControl, WriteEscape, WriteSequence,
                AskStatus, Become
<1>3. CASE WriteText
    <2>1. PICK ch : v = OnText(t, ch)
        BY <1>1, <1>3 DEF WriteText, Become
    <2>2. Returns(t, v)
        BY <1>2, <2>1, OnTextSettles DEF Returns
    <2> QED BY <1>1, <1>2, <2>2, KeptCurrent
<1>4. CASE WriteCombining
    <2>1. v = OnCombining(t)
        BY <1>1, <1>4 DEF WriteCombining, Become
    <2>2. Returns(t, v)
        BY <1>2, <2>1, OnCombiningSettles DEF Returns
    <2> QED BY <1>1, <1>2, <2>2, KeptCurrent
<1>5. CASE WriteControl
    <2>1. PICK name : v = OnControl(t, name)
        BY <1>1, <1>5 DEF WriteControl, Become
    <2>2. Returns(t, v)
        BY <1>2, <2>1, OnControlSettles DEF Returns
    <2> QED BY <1>1, <1>2, <2>2, KeptCurrent
<1>6. CASE WriteEscape
    <2>1. PICK name \in Escapes : v = OnEscape(t, name)
        BY <1>1, <1>6 DEF WriteEscape, Become
    <2>2. Returns(t, v)
        BY <1>2, <2>1, OnEscapeSettles DEF Returns
    <2> QED BY <1>1, <1>2, <2>2, KeptCurrent
<1>7. CASE WriteSequence
    <2>1. PICK c \in SequencesWritten : v = OnCsi(t, c[1], c[2], c[3])
        BY <1>1, <1>7 DEF WriteSequence, Become
    <2>2. PICK name \in SequenceNames, a \in ArgValues, b \in ArgValues : c = <<name, a, b>>
        BY <2>1, WrittenAreCommands
    <2>3. v = OnCsi(t, name, a, b)
        BY <2>1, <2>2
    <2>4. Returns(t, v)
        BY <1>2, <2>2, <2>3, OnCsiSettles
    <2> QED BY <1>1, <1>2, <2>4, KeptCurrent
<1>8. CASE AskStatus
    <2>1. PICK x : v = [t EXCEPT !.reply = x]
        BY <1>1, <1>8 DEF AskStatus, Become, Reply
    <2>2. Returns(t, v)
        BY <1>2, <2>1, Unseen, DrawnSettles DEF Returns, Settled, Sound
    <2> QED BY <1>1, <1>2, <2>2, KeptCurrent
<1> QED BY <1>3, <1>4, <1>5, <1>6, <1>7, <1>8 DEF TermStep

LEMMA ScreenIsSound == TerminalSpec => []ScreenInv(term)
<1>1. TerminalInit => ScreenInv(term)
    <2> SUFFICES ASSUME TerminalInit PROVE ScreenInv(term)
        OBVIOUS
    <2>1. PICK start \in Started : term = After(start)
        BY DEF TerminalInit, TermInit
    <2> QED BY <2>1, StartedIsCurrent
<1>2. ScreenInv(term) /\ [TerminalNext]_<<part, parserVars, screenVars, penVars, keyboardVars, consoleVars>>
        => ScreenInv(term)'
    <2> SUFFICES ASSUME ScreenInv(term), [TerminalNext]_<<part, parserVars, screenVars, penVars, keyboardVars, consoleVars>>
                 PROVE  ScreenInv(term')
        OBVIOUS
    <2>1. TermStep \/ UNCHANGED screenVars
        BY DEF TerminalNext
    <2>2. CASE TermStep
        BY <2>2, TermStepSettles
    <2>3. CASE UNCHANGED screenVars
        BY <2>3 DEF screenVars
    <2> QED BY <2>1, <2>2, <2>3
<1> QED BY <1>1, <1>2, PTL DEF TerminalSpec

\* What the terminal program has drawn is what libvterm's screen holds, after
\* any text, controls, escapes and control sequences, for every size of the
\* terminal: scrolls, erasures, line widths, reverse video and the cursor are
\* all drawn again where they changed.  Excepted are the ghosts that
\* PictureIsCurrent names, and a terminal that REP has caught.
THEOREM PictureIsDrawn == TerminalSpec => []PictureIsCurrent
<1>1. ScreenInv(term) => PictureIsCurrent
    <2> SUFFICES ASSUME ScreenInv(term), ~term.hung PROVE PictureIsCurrent
        BY DEF PictureIsCurrent
    <2>1. ASSUME NEW p \in Positions \ term.ghosts, p[2] < RowWidth(term, p[1]) PROVE term.picture[p] = Rendered(term, p)
        <3>1. PICK r \in RowNumbers, c \in ColNumbers : p = <<r, c>>
            BY PositionsAre
        <3>2. c < RowWidth(term, r)
            BY <2>1, <3>1
        <3>3. RightAt(term, <<r, c>>)
            BY <3>1, <3>2 DEF ScreenInv, CurrentBut
        <3> QED BY <3>1, <3>3 DEF RightAt
    <2> QED BY <2>1 DEF PictureIsCurrent, ScreenInv, Settled
<1> QED BY <1>1, ScreenIsSound, PTL

\* What state.c asserts when it is built for debugging: the cursor is on the
\* screen, and the scroll region has at least a line, and a column unless the
\* left margin is behind the last one.
THEOREM CursorIsOnScreen == TerminalSpec => []CursorInBounds
<1>1. ScreenInv(term) => CursorInBounds
    <2> SUFFICES ASSUME ScreenInv(term) PROVE CursorInBounds
        OBVIOUS
    <2>1. PICK top, bottom, left, right :
            top = term.top /\ bottom = Bottom(term) /\ left = Left(term) /\ right = Right(term)
        OBVIOUS
    <2>2. top \in RowNumbers /\ bottom \in top + 1 .. Rows /\ (left < Cols => right > left)
        BY <2>1, MarginsAre DEF ScreenInv, Sound
    <2>3. bottom > top
        BY <2>2, ScreenSizes DEF RowNumbers
    <2> QED BY <2>1, <2>2, <2>3 DEF CursorInBounds, ScreenInv, Sound
<1> QED BY <1>1, ScreenIsSound, PTL

=============================================================================
