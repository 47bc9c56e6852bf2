------------------------------ MODULE QueueProofs ----------------------------
(****************************************************************************)
(* The pages of a message queue are a FIFO queue.                           *)
(*                                                                          *)
(* The invariant says that there is a numbering of the pages and of the     *)
(* messages of the queue: pages pl .. ph - 1 in the order of the list and   *)
(* messages ml .. mh - 1 in the order they were pushed; page k is at the    *)
(* address ord[k] and holds the messages st[k] .. st[k + 1] - 1; message i  *)
(* is in page pg[i] at the position pos[i]; tot[i] adds up the sizes.       *)
(* Numbers are never used again while the queue lives, so a push or a pop   *)
(* changes the numbering at one end only.                                   *)
(****************************************************************************)
EXTENDS TablesProofs, FiniteSetTheorems

-----------------------------------------------------------------------------
(* One page *)

PageData == UNION {[D -> PagedMessages] : D \in SUBSET Nat}

MqPageType ==
    [allocated : Nat, bytes : Nat, items : Nat, pop : Nat, push : Nat, next : Nat, data : PageData]

\* The messages from .. to - 1 lie in the page one behind the other, from the
\* pop to the push position, and nothing else is there to be read.
PageHolds(page, from, to, pos, msg) ==
    /\ page \in MqPageType
    /\ page.items = to - from
    /\ page.pop + page.bytes = page.push
    /\ page.push <= page.allocated
    /\ pos[from] = page.pop
    /\ \A i \in from .. to - 1 :
          /\ pos[i] \in DOMAIN page.data
          /\ page.data[pos[i]] = msg[i]
          /\ msg[i] \in PagedMessages
          /\ pos[i] + msg[i].size = IF i = to - 1 THEN page.push ELSE pos[i + 1]
    /\ \A i, j \in from .. to - 1 : i < j => pos[i] < pos[j]
    /\ \A d \in DOMAIN page.data : d >= page.pop => \E i \in from .. to - 1 : pos[i] = d

LEMMA MessageSize ==
    ASSUME NEW m \in PagedMessages
    PROVE  m.size \in MsgSizes /\ m.size \in Nat /\ m.size > 0
<1>1. m.size \in MsgSizes
    BY DEF PagedMessages
<1>2. m.size \in Nat \ {0}
    BY <1>1, PagedQueueAssumption
<1>3. \A n \in Nat \ {0} : n \in Nat /\ n > 0
    OBVIOUS
<1> QED BY <1>1, <1>2, <1>3, Zenon

LEMMA DataPut ==
    ASSUME NEW f \in PageData, NEW x \in Nat, NEW m \in PagedMessages
    PROVE  /\ Put(f, x, m) \in PageData
           /\ DOMAIN Put(f, x, m) = DOMAIN f \cup {x}
           /\ Put(f, x, m)[x] = m
           /\ \A y \in DOMAIN f : y # x => Put(f, x, m)[y] = f[y]
<1>1. PICK D \in SUBSET Nat : f \in [D -> PagedMessages]
    BY DEF PageData
<1>2. Put(f, x, m) \in [D \cup {x} -> PagedMessages]
    BY <1>1 DEF Put
<1>3. D \cup {x} \in SUBSET Nat
    OBVIOUS
<1>4. Put(f, x, m) \in PageData
    BY <1>2, <1>3 DEF PageData
<1> QED BY <1>1, <1>4 DEF Put

LEMMA DataDomain == \A f \in PageData : DOMAIN f \subseteq Nat
BY DEF PageData

\* Only the positions and messages of the page matter to it.
LEMMA HoldsAgree ==
    ASSUME NEW page, NEW from \in Nat, NEW to \in Nat, from < to,
           NEW pos, NEW msg, NEW pos2, NEW msg2,
           PageHolds(page, from, to, pos, msg),
           \A i \in from .. to - 1 : pos2[i] = pos[i] /\ msg2[i] = msg[i]
    PROVE  PageHolds(page, from, to, pos2, msg2)
<1>1. from \in from .. to - 1
    OBVIOUS
<1>2. \A i \in from .. to - 1 : i # to - 1 => i + 1 \in from .. to - 1
    OBVIOUS
<1> QED BY <1>1, <1>2 DEF PageHolds

\* Where the positions of a page are.
LEMMA HoldsBounds ==
    ASSUME NEW page, NEW from \in Nat, NEW to \in Nat, from < to, NEW pos, NEW msg,
           PageHolds(page, from, to, pos, msg)
    PROVE  \A i \in from .. to - 1 : pos[i] \in Nat /\ page.pop <= pos[i] /\ pos[i] < page.push
<1>1. page \in MqPageType /\ \A i \in from .. to - 1 : pos[i] \in Nat
    BY DataDomain DEF PageHolds, MqPageType
<1>2. from \in from .. to - 1 /\ to - 1 \in from .. to - 1
    OBVIOUS
<1>3. msg[to - 1] \in PagedMessages /\ pos[to - 1] + msg[to - 1].size = page.push
    BY <1>2 DEF PageHolds
<1>4. pos[to - 1] < page.push
    BY <1>1, <1>2, <1>3, MessageSize
<1> SUFFICES ASSUME NEW i \in from .. to - 1 PROVE page.pop <= pos[i] /\ pos[i] < page.push
    BY <1>1
<1>5. i = to - 1 \/ pos[i] < pos[to - 1]
    BY <1>2 DEF PageHolds
<1>6. i = from \/ pos[from] < pos[i]
    BY <1>2 DEF PageHolds
<1>7. pos[from] = page.pop
    BY DEF PageHolds
<1> QED BY <1>1, <1>2, <1>4, <1>5, <1>6, <1>7 DEF MqPageType

LEMMA HoldsWritten ==
    ASSUME NEW page, NEW from \in Nat, NEW to \in Nat, from < to,
           NEW pos \in [Nat -> Nat], NEW msg \in [Nat -> PagedMessages \cup {0}],
           PageHolds(page, from, to, pos, msg),
           NEW m \in PagedMessages, page.push + m.size <= page.allocated
    PROVE  PageHolds(PageWritten(page, m), from, to + 1,
                     [pos EXCEPT ![to] = page.push], [msg EXCEPT ![to] = m])
<1> DEFINE pos2 == [pos EXCEPT ![to] = page.push]
           msg2 == [msg EXCEPT ![to] = m]
           data2 == Put(page.data, page.push, m)
           page2 == PageWritten(page, m)
<1>1. page \in MqPageType /\ page.push \in Nat /\ page.data \in PageData
    BY DEF PageHolds, MqPageType
<1>2. m.size \in Nat /\ m.size > 0
    BY MessageSize
<1>3. /\ data2 \in PageData /\ DOMAIN data2 = DOMAIN page.data \cup {page.push}
      /\ data2[page.push] = m
      /\ \A y \in DOMAIN page.data : y # page.push => data2[y] = page.data[y]
    <2> DEFINE f == page.data
               x == page.push
    <2>1. f \in PageData /\ x \in Nat
        BY <1>1
    <2> HIDE DEF f, x
    <2>2. /\ Put(f, x, m) \in PageData /\ DOMAIN Put(f, x, m) = DOMAIN f \cup {x}
          /\ Put(f, x, m)[x] = m
          /\ \A y \in DOMAIN f : y # x => Put(f, x, m)[y] = f[y]
        BY <2>1, DataPut, ZenonT(40)
    <2> QED BY <2>2 DEF f, x
<1> HIDE DEF data2
<1>4. /\ page2.allocated = page.allocated /\ page2.bytes = page.bytes + m.size
      /\ page2.items = page.items + 1 /\ page2.pop = page.pop
      /\ page2.push = page.push + m.size /\ page2.next = page.next /\ page2.data = data2
      /\ page2 \in MqPageType
    <2> DEFINE push == page.push + m.size
               bytes == page.bytes + m.size
               items == page.items + 1
    <2>1. push \in Nat /\ bytes \in Nat /\ items \in Nat
        BY <1>1, <1>2 DEF MqPageType
    <2>2. page2 = [page EXCEPT !.data = data2, !.push = push, !.bytes = bytes, !.items = items]
        BY Zenon DEF PageWritten, data2
    <2> HIDE DEF push, bytes, items, page2
    <2>3. /\ page2 \in MqPageType
          /\ page2.data = data2 /\ page2.push = push /\ page2.bytes = bytes
          /\ page2.items = items /\ page2.pop = page.pop
          /\ page2.allocated = page.allocated /\ page2.next = page.next
        BY <1>1, <1>3, <2>1, <2>2 DEF MqPageType
    <2> QED BY <2>3 DEF push, bytes, items
<1> HIDE DEF page2
<1>5. page2 \in MqPageType
    BY <1>4
<1>6. \A i \in from .. to - 1 : pos[i] \in Nat /\ page.pop <= pos[i] /\ pos[i] < page.push
    BY HoldsBounds
<1>7. /\ pos2[to] = page.push /\ msg2[to] = m
      /\ \A i \in from .. to - 1 : pos2[i] = pos[i] /\ msg2[i] = msg[i]
    BY <1>1
<1> HIDE DEF pos2, msg2
<1>8. page2.items = to + 1 - from /\ pos2[from] = page2.pop
    BY <1>1, <1>4, <1>7 DEF PageHolds, MqPageType
<1>9. page2.pop + page2.bytes = page2.push /\ page2.push <= page2.allocated
    BY <1>1, <1>2, <1>4 DEF PageHolds, MqPageType
<1>10. ASSUME NEW i \in from .. to
       PROVE  /\ pos2[i] \in DOMAIN page2.data
              /\ page2.data[pos2[i]] = msg2[i]
              /\ msg2[i] \in PagedMessages
              /\ pos2[i] + msg2[i].size = IF i = to THEN page2.push ELSE pos2[i + 1]
    <2>1. CASE i = to
        BY <1>3, <1>4, <1>7, <2>1
    <2>2. CASE i \in from .. to - 1
        <3>1. /\ pos[i] \in DOMAIN page.data /\ page.data[pos[i]] = msg[i]
              /\ msg[i] \in PagedMessages
              /\ pos[i] + msg[i].size = IF i = to - 1 THEN page.push ELSE pos[i + 1]
            BY <2>2 DEF PageHolds
        <3>2. pos2[i] = pos[i] /\ msg2[i] = msg[i] /\ pos[i] # page.push
            BY <1>1, <1>6, <1>7, <2>2
        <3>3. pos2[i + 1] = IF i = to - 1 THEN page.push ELSE pos[i + 1]
            BY <1>7, <2>2
        <3> QED BY <1>3, <1>4, <2>2, <3>1, <3>2, <3>3
    <2> QED BY <2>1, <2>2
<1>11. \A i, j \in from .. to : i < j => pos2[i] < pos2[j]
    <2> SUFFICES ASSUME NEW i \in from .. to, NEW j \in from .. to, i < j PROVE pos2[i] < pos2[j]
        OBVIOUS
    <2>1. i \in from .. to - 1
        OBVIOUS
    <2>2. CASE j = to
        BY <1>6, <1>7, <2>1, <2>2
    <2>3. CASE j \in from .. to - 1
        BY <1>7, <2>1, <2>3 DEF PageHolds
    <2> QED BY <2>2, <2>3
<1>12. \A d \in DOMAIN page2.data : d >= page2.pop => \E i \in from .. to : pos2[i] = d
    <2> SUFFICES ASSUME NEW d \in DOMAIN page2.data, d >= page2.pop
                 PROVE  \E i \in from .. to : pos2[i] = d
        OBVIOUS
    <2>1. CASE d = page.push
        BY <1>7, <2>1
    <2>2. CASE d \in DOMAIN page.data
        <3>1. PICK i \in from .. to - 1 : pos[i] = d
            BY <1>4, <2>2 DEF PageHolds
        <3> QED BY <1>7, <3>1
    <2> QED BY <1>3, <1>4, <2>1, <2>2
<1> QED BY <1>5, <1>8, <1>9, <1>10, <1>11, <1>12 DEF PageHolds, page2, pos2, msg2

LEMMA HoldsPopped ==
    ASSUME NEW page, NEW from \in Nat, NEW to \in Nat, from + 1 < to,
           NEW pos \in [Nat -> Nat], NEW msg, PageHolds(page, from, to, pos, msg)
    PROVE  PageHolds(PagePopped(page, msg[from]), from + 1, to, pos, msg)
<1> DEFINE m == msg[from]
           page2 == PagePopped(page, m)
<1>1. page \in MqPageType /\ page.data \in PageData
    BY DEF PageHolds, MqPageType
<1>2. from \in from .. to - 1 /\ from + 1 \in from .. to - 1 /\ from # to - 1
    OBVIOUS
<1>3. m \in PagedMessages /\ m.size \in Nat /\ m.size > 0
    BY <1>2, MessageSize DEF PageHolds
<1>4. pos[from] = page.pop /\ pos[from + 1] = page.pop + m.size
    BY <1>2 DEF PageHolds
<1>5. page.pop + m.size < page.push
    <2>1. \A i \in from .. to - 1 : pos[i] \in Nat /\ page.pop <= pos[i] /\ pos[i] < page.push
        BY HoldsBounds
    <2> QED BY <1>2, <1>4, <2>1
<1> HIDE DEF m
<1>7. page.pop + page.bytes = page.push /\ page.items = to - from /\ page.push <= page.allocated
    BY DEF PageHolds
<1>6. /\ page2.allocated = page.allocated /\ page2.bytes = page.bytes - m.size
      /\ page2.items = page.items - 1 /\ page2.pop = page.pop + m.size
      /\ page2.push = page.push /\ page2.next = page.next /\ page2.data = page.data
      /\ page2 \in MqPageType
    <2> DEFINE pop == page.pop + m.size
               bytes == page.bytes - m.size
               items == page.items - 1
    <2>1. pop \in Nat /\ bytes \in Nat /\ items \in Nat
        BY <1>1, <1>3, <1>5, <1>7 DEF MqPageType
    <2>2. page2 = [page EXCEPT !.pop = pop, !.bytes = bytes, !.items = items]
        BY Zenon DEF PagePopped
    <2> HIDE DEF pop, bytes, items, page2
    <2>3. /\ page2 \in MqPageType
          /\ page2.pop = pop /\ page2.bytes = bytes /\ page2.items = items
          /\ page2.data = page.data /\ page2.push = page.push
          /\ page2.allocated = page.allocated /\ page2.next = page.next
        BY <1>1, <2>1, <2>2 DEF MqPageType
    <2> QED BY <2>3 DEF pop, bytes, items
<1> HIDE DEF page2
<1>8. /\ page2 \in MqPageType
      /\ page2.items = to - (from + 1)
      /\ page2.pop + page2.bytes = page2.push
      /\ page2.push <= page2.allocated
      /\ pos[from + 1] = page2.pop
    BY <1>1, <1>2, <1>3, <1>4, <1>5, <1>6, <1>7 DEF MqPageType
<1>9. \A i \in from + 1 .. to - 1 : i \in from .. to - 1
    OBVIOUS
<1>10. \A i \in from + 1 .. to - 1 :
          /\ pos[i] \in DOMAIN page2.data
          /\ page2.data[pos[i]] = msg[i]
          /\ msg[i] \in PagedMessages
          /\ pos[i] + msg[i].size = IF i = to - 1 THEN page2.push ELSE pos[i + 1]
    BY <1>6, <1>9 DEF PageHolds
<1>11. \A i, j \in from + 1 .. to - 1 : i < j => pos[i] < pos[j]
    BY <1>9 DEF PageHolds
<1>12. \A d \in DOMAIN page2.data : d >= page2.pop => \E i \in from + 1 .. to - 1 : pos[i] = d
    <2> SUFFICES ASSUME NEW d \in DOMAIN page.data, d >= page.pop + m.size
                 PROVE  \E i \in from + 1 .. to - 1 : pos[i] = d
        BY <1>6
    <2>1. d \in Nat /\ d >= page.pop /\ d # page.pop
        BY <1>1, <1>3, DataDomain DEF MqPageType
    <2>2. PICK i \in from .. to - 1 : pos[i] = d
        BY <2>1 DEF PageHolds
    <2> QED BY <1>4, <2>1, <2>2
<1> QED BY <1>8, <1>10, <1>11, <1>12 DEF PageHolds, page2, m

-----------------------------------------------------------------------------
(* The queue *)

\* The pages in use are those of the list, linked in the order of their
\* numbers.
ListIs(pl, ph, ord) ==
    /\ pl \in Nat /\ ph \in Nat /\ pl <= ph
    /\ ord \in [Nat -> Nat]
    /\ \A k \in pl .. ph - 1 : ord[k] \in PageAddr
    /\ \A k, l \in pl .. ph - 1 : ord[k] = ord[l] => k = l
    /\ DOMAIN mqPage = {ord[k] : k \in pl .. ph - 1}
    /\ mqPage = [a \in DOMAIN mqPage |-> mqPage[a]]
    /\ mqFirst = IF pl = ph THEN 0 ELSE ord[pl]
    /\ mqLast = IF pl = ph THEN 0 ELSE ord[ph - 1]
    /\ \A k \in pl .. ph - 1 : mqPage[ord[k]].next = IF k = ph - 1 THEN 0 ELSE ord[k + 1]

\* The messages are spread over the pages in order; each page has at least
\* one, so that there are never more pages than messages.
SpreadIs(pl, ph, st, ml, mh, pg) ==
    /\ ml \in Nat /\ mh \in Nat /\ ml <= mh /\ mh - ml <= MaxQueued
    /\ st \in [Nat -> Nat] /\ pg \in [Nat -> Nat]
    /\ st[pl] = ml /\ st[ph] = mh
    /\ \A k, l \in pl .. ph : k <= l => l - k <= st[l] - st[k]
    /\ \A i \in ml .. mh - 1 : /\ pg[i] \in pl .. ph - 1
                               /\ st[pg[i]] <= i /\ i < st[pg[i] + 1]

TotalsAre(ml, mh, msg, tot) ==
    /\ tot \in [Nat -> Nat]
    /\ \A i \in ml .. mh - 1 : msg[i] \in PagedMessages /\ tot[i + 1] = tot[i] + msg[i].size
    /\ mqItems = mh - ml
    /\ mqBytes = tot[mh] - tot[ml]
    /\ mqAverage \in Nat

QueueIs(pl, ph, ord, st, ml, mh, pg, pos, msg, tot) ==
    /\ ListIs(pl, ph, ord)
    /\ SpreadIs(pl, ph, st, ml, mh, pg)
    /\ pos \in [Nat -> Nat] /\ msg \in [Nat -> PagedMessages \cup {0}]
    /\ TotalsAre(ml, mh, msg, tot)
    /\ \A k \in pl .. ph - 1 : PageHolds(mqPage[ord[k]], st[k], st[k + 1], pos, msg)

\* The messages of the queue are q, which the numbering lays out in pages.
Keeps(q) ==
    \E pl, ph, ord, st, ml, mh, pg, pos, msg, tot :
        /\ QueueIs(pl, ph, ord, st, ml, mh, pg, pos, msg, tot)
        /\ q = [n \in 1 .. mh - ml |-> msg[ml + n - 1]]

PagedInv == \E q : Keeps(q)

\* Following the next pointers gives the pages in the order of their numbers.
LEMMA ChainIs ==
    ASSUME NEW pl, NEW ph, NEW ord, ListIs(pl, ph, ord), ph - pl <= MaxQueued
    PROVE  PageChain = [n \in 1 .. ph - pl |-> ord[pl + n - 1]]
<1> DEFINE at[n \in 0 .. MaxQueued] ==
               IF n = 0 THEN mqFirst
               ELSE IF at[n - 1] \in DOMAIN mqPage THEN mqPage[at[n - 1]].next ELSE 0
           IsAt(f) == f = [n \in 0 .. MaxQueued |->
                              IF n = 0 THEN mqFirst
                              ELSE IF f[n - 1] \in DOMAIN mqPage THEN mqPage[f[n - 1]].next ELSE 0]
           Page(n) == IF n < ph - pl THEN ord[pl + n] ELSE 0
           walk == [n \in 0 .. MaxQueued |-> Page(n)]
           stops == {n \in 0 .. MaxQueued : walk[n] = 0} \cup {MaxQueued}
<1>1. /\ pl \in Nat /\ ph \in Nat /\ pl <= ph /\ ord \in [Nat -> Nat] /\ MaxQueued \in Nat
      /\ mqFirst = IF pl = ph THEN 0 ELSE ord[pl]
    BY PagedQueueAssumption DEF ListIs
<1>2. 0 \notin DOMAIN mqPage /\ \A k \in pl .. ph - 1 : ord[k] # 0 /\ ord[k] \in DOMAIN mqPage
    BY DEF ListIs, PageAddr
<1>3. ASSUME NEW n \in 0 .. MaxQueued, n # 0
      PROVE  Page(n) = IF Page(n - 1) \in DOMAIN mqPage THEN mqPage[Page(n - 1)].next ELSE 0
    <2>1. CASE n - 1 < ph - pl
        <3>1. pl + n - 1 \in pl .. ph - 1 /\ Page(n - 1) = ord[pl + n - 1]
            <4>1. pl + (n - 1) = pl + n - 1 /\ pl + n - 1 \in pl .. ph - 1
                BY <1>1, <1>3, <2>1
            <4> QED BY <2>1, <4>1
        <3>2. mqPage[ord[pl + n - 1]].next = IF pl + n - 1 = ph - 1 THEN 0 ELSE ord[pl + n]
            <4>1. (pl + n - 1) + 1 = pl + n
                BY <1>1
            <4> QED BY <3>1, <4>1 DEF ListIs
        <3>3. n = ph - pl \/ n < ph - pl
            BY <1>1, <2>1
        <3> QED BY <1>1, <1>2, <3>1, <3>2, <3>3
    <2>2. CASE ~(n - 1 < ph - pl)
        BY <1>1, <1>2, <2>2
    <2> QED BY <2>1, <2>2
<1>4. IsAt(walk)
    <2>1. walk[0] = mqFirst
        BY <1>1
    <2>2. \A n \in 0 .. MaxQueued : n # 0 => n - 1 \in 0 .. MaxQueued
        BY <1>1
    <2> HIDE DEF Page
    <2>3. \A n \in 0 .. MaxQueued : walk[n] = Page(n)
        OBVIOUS
    <2>4. \A n \in 0 .. MaxQueued : n # 0 =>
              Page(n) = IF walk[n - 1] \in DOMAIN mqPage THEN mqPage[walk[n - 1]].next ELSE 0
        BY <1>3, <2>2
    <2> QED BY <2>1, <2>3, <2>4
<1>5. ASSUME NEW f, IsAt(f) PROVE f = walk
    <2> DEFINE same == {n \in Nat : n <= MaxQueued => f[n] = walk[n]}
    <2>1. 0 \in same
        <3>1. 0 \in 0 .. MaxQueued
            BY <1>1
        <3> HIDE DEF walk
        <3>2. f[0] = mqFirst
            BY <1>5, <3>1
        <3>3. walk[0] = mqFirst
            BY <1>4, <3>1
        <3> QED BY <3>2, <3>3
    <2>2. ASSUME NEW n \in same PROVE n + 1 \in same
        <3>1. n \in Nat /\ (n + 1) - 1 = n
            OBVIOUS
        <3> HIDE DEF walk
        <3>2. CASE n + 1 <= MaxQueued
            <4>1. n + 1 \in 0 .. MaxQueued /\ n + 1 # 0 /\ f[n] = walk[n]
                BY <1>1, <2>2, <3>1, <3>2
            <4>2. f[n + 1] = IF f[n] \in DOMAIN mqPage THEN mqPage[f[n]].next ELSE 0
                BY <1>5, <3>1, <4>1
            <4>3. walk[n + 1] = IF walk[n] \in DOMAIN mqPage THEN mqPage[walk[n]].next ELSE 0
                BY <1>4, <3>1, <4>1
            <4> QED BY <3>1, <4>1, <4>2, <4>3
        <3> QED BY <3>1, <3>2
    <2> HIDE DEF same
    <2>3. same = Nat
        <3>1. same \in SUBSET Nat
            BY DEF same
        <3> QED BY <2>1, <2>2, <3>1, NumberInduction
    <2>4. \A n \in 0 .. MaxQueued : f[n] = walk[n]
        <3> HIDE DEF walk
        <3>1. \A n \in 0 .. MaxQueued : n \in same /\ n <= MaxQueued
            BY <1>1, <2>3
        <3> QED BY <3>1 DEF same
    <2>5. f = [n \in 0 .. MaxQueued |-> f[n]]
        BY <1>5
    <2> QED BY <2>4, <2>5
<1>6. at = walk
    BY <1>4, <1>5
<1>7. PageChain = [n \in 1 .. Min({n \in 0 .. MaxQueued : at[n] = 0} \cup {MaxQueued}) |-> at[n - 1]]
    BY DEF PageChain
<1> HIDE DEF at
<1>8. PageChain = [n \in 1 .. Min(stops) |-> walk[n - 1]]
    <2> HIDE DEF walk
    <2> QED BY <1>6, <1>7
<1>9. Min(stops) = ph - pl
    <2> HIDE DEF walk
    <2>6. \A n \in 0 .. MaxQueued : walk[n] = IF n < ph - pl THEN ord[pl + n] ELSE 0
        BY DEF walk
    <2>1. stops \in SUBSET Nat /\ stops # {}
        BY <1>1
    <2>2. Min(stops) \in stops /\ \A m \in stops : Min(stops) <= m
        <3> HIDE DEF stops
        <3> QED BY <2>1, MinIs
    <2>3. ph - pl \in stops
        BY <1>1, <2>6
    <2>4. ASSUME NEW m \in stops PROVE m >= ph - pl
        <3>1. m \in 0 .. MaxQueued /\ (m = MaxQueued \/ walk[m] = 0)
            BY <1>1
        <3>2. m < ph - pl => pl + m \in pl .. ph - 1 /\ walk[m] = ord[pl + m]
            BY <1>1, <2>6, <3>1
        <3> QED BY <1>1, <1>2, <3>1, <3>2
    <2> HIDE DEF stops
    <2>5. Min(stops) \in Nat /\ Min(stops) <= ph - pl /\ Min(stops) >= ph - pl
        BY <2>1, <2>2, <2>3, <2>4
    <2> QED BY <1>1, <2>5
<1>10. \A n \in 1 .. ph - pl : walk[n - 1] = ord[pl + n - 1]
    BY <1>1
<1> HIDE DEF walk, stops
<1> QED BY <1>8, <1>9, <1>10

LEMMA CountFrom ==
    ASSUME NEW a \in Nat, NEW b \in Nat, a <= b, NEW f,
           \A i, j \in a .. b - 1 : f[i] = f[j] => i = j
    PROVE  /\ IsFiniteSet({f[i] : i \in a .. b - 1})
           /\ Cardinality({f[i] : i \in a .. b - 1}) = b - a
<1> DEFINE S == a .. b - 1
           T == {f[i] : i \in S}
           g == [i \in S |-> f[i]]
<1>1. g \in Bijection(S, T)
    BY DEF Bijection, Injection, Surjection, IsInjective
<1>2. ExistsBijection(S, T)
    BY <1>1 DEF ExistsBijection
<1>3. IsFiniteSet(S) /\ Cardinality(S) = b - a
    BY FS_Interval
<1> HIDE DEF S, T
<1>4. IsFiniteSet(T) /\ Cardinality(T) = Cardinality(S)
    BY <1>2, <1>3, FS_Bijection
<1> QED BY <1>3, <1>4 DEF S, T

\* Pages do not share messages: message i is in page k exactly if k is pg[i].
LEMMA PageOfMessage ==
    ASSUME NEW pl \in Nat, NEW ph \in Nat, NEW st, NEW ml, NEW mh, NEW pg,
           SpreadIs(pl, ph, st, ml, mh, pg),
           NEW k \in pl .. ph - 1, NEW i \in st[k] .. st[k + 1] - 1
    PROVE  i \in ml .. mh - 1 /\ pg[i] = k
<1>1. /\ ml \in Nat /\ mh \in Nat /\ st \in [Nat -> Nat] /\ pg \in [Nat -> Nat]
      /\ st[pl] = ml /\ st[ph] = mh
      /\ \A x, y \in pl .. ph : x <= y => y - x <= st[y] - st[x]
    BY DEF SpreadIs
<1>2. k \in pl .. ph /\ k + 1 \in pl .. ph /\ pl \in pl .. ph /\ ph \in pl .. ph
    OBVIOUS
<1>3. ml <= st[k] /\ st[k + 1] <= mh
    BY <1>1, <1>2
<1>4. i \in ml .. mh - 1
    BY <1>1, <1>2, <1>3
<1>5. pg[i] \in pl .. ph - 1 /\ st[pg[i]] <= i /\ i < st[pg[i] + 1]
    BY <1>4 DEF SpreadIs
<1>6. pg[i] + 1 \in pl .. ph /\ pg[i] \in pl .. ph
    BY <1>5
<1>7. ~(pg[i] < k)
    BY <1>1, <1>2, <1>5, <1>6
<1>8. ~(pg[i] > k)
    BY <1>1, <1>2, <1>5, <1>6
<1> QED BY <1>4, <1>5, <1>7, <1>8

\* What there is to be read, in the order of its positions, are the messages.
LEMMA QueuedIs ==
    ASSUME NEW pl, NEW ph, NEW ord, NEW st, NEW ml, NEW mh, NEW pg, NEW pos, NEW msg, NEW tot,
           QueueIs(pl, ph, ord, st, ml, mh, pg, pos, msg, tot)
    PROVE  /\ PageChain = [n \in 1 .. ph - pl |-> ord[pl + n - 1]]
           /\ \A k \in pl .. ph - 1 :
                 Unread(mqPage[ord[k]]) = {pos[i] : i \in st[k] .. st[k + 1] - 1}
           /\ Queued = [n \in 1 .. mh - ml |-> msg[ml + n - 1]]
<1> DEFINE At(i) == <<pg[i] - pl + 1, pos[i]>>
           at == [i \in ml .. mh - 1 |-> At(i)]
<1>1. ListIs(pl, ph, ord) /\ SpreadIs(pl, ph, st, ml, mh, pg)
    BY DEF QueueIs
<1>2. /\ pl \in Nat /\ ph \in Nat /\ pl <= ph /\ ord \in [Nat -> Nat]
      /\ ml \in Nat /\ mh \in Nat /\ ml <= mh /\ mh - ml <= MaxQueued /\ MaxQueued \in Nat
      /\ st \in [Nat -> Nat] /\ pg \in [Nat -> Nat] /\ pos \in [Nat -> Nat]
    BY <1>1, PagedQueueAssumption DEF ListIs, SpreadIs, QueueIs
<1>3. \A k, l \in pl .. ph : k <= l => l - k <= st[l] - st[k]
    BY <1>1 DEF SpreadIs
<1>4. PageChain = [n \in 1 .. ph - pl |-> ord[pl + n - 1]]
    <2>1. ph - pl <= MaxQueued
        <3>1. st[pl] = ml /\ st[ph] = mh /\ pl \in pl .. ph /\ ph \in pl .. ph
            BY <1>1, <1>2 DEF SpreadIs
        <3> QED BY <1>2, <1>3, <3>1
    <2> QED BY <1>1, <2>1, ChainIs
<1>5. ASSUME NEW k \in pl .. ph - 1
      PROVE  Unread(mqPage[ord[k]]) = {pos[i] : i \in st[k] .. st[k + 1] - 1}
    <2> DEFINE page == mqPage[ord[k]]
    <2>1. PageHolds(page, st[k], st[k + 1], pos, msg)
        BY DEF QueueIs
    <2>2. st[k] \in Nat /\ st[k + 1] \in Nat /\ st[k] < st[k + 1]
        BY <1>2, <1>3
    <2> HIDE DEF page
    <2>3. \A i \in st[k] .. st[k + 1] - 1 : pos[i] \in Nat /\ page.pop <= pos[i]
        BY <2>1, <2>2, HoldsBounds
    <2>4. \A i \in st[k] .. st[k + 1] - 1 : pos[i] \in DOMAIN page.data
        BY <2>1 DEF PageHolds
    <2>5. \A d \in DOMAIN page.data : d >= page.pop => \E i \in st[k] .. st[k + 1] - 1 : pos[i] = d
        BY <2>1 DEF PageHolds
    <2>6. page.pop \in Nat
        BY <2>1 DEF PageHolds, MqPageType
    <2>7. Unread(page) = {d \in DOMAIN page.data : d >= page.pop}
        BY DEF Unread
    <2>8. \A d \in Unread(page) : d \in {pos[i] : i \in st[k] .. st[k + 1] - 1}
        BY <2>5, <2>7
    <2>9. \A i \in st[k] .. st[k + 1] - 1 : pos[i] \in Unread(page)
        BY <2>3, <2>4, <2>6, <2>7
    <2> QED BY <2>8, <2>9 DEF page
<1>6. UnreadAt = {at[i] : i \in ml .. mh - 1}
    <2>1. ASSUME NEW x \in UnreadAt PROVE \E i \in ml .. mh - 1 : x = at[i]
        <3>1. PICK n \in DOMAIN PageChain : x \in {n} \X Unread(mqPage[PageChain[n]])
            BY DEF UnreadAt
        <3> DEFINE k == pl + n - 1
        <3>2. n \in 1 .. ph - pl /\ PageChain[n] = ord[k] /\ k \in pl .. ph - 1 /\ n = k - pl + 1
            BY <1>2, <1>4
        <3> HIDE DEF k
        <3>3. PICK d \in Unread(mqPage[ord[k]]) : x = <<n, d>>
            BY <3>1, <3>2
        <3>4. PICK i \in st[k] .. st[k + 1] - 1 : d = pos[i]
            BY <1>5, <3>2
        <3>5. i \in ml .. mh - 1 /\ pg[i] = k
            <4>1. pl \in Nat /\ ph \in Nat /\ SpreadIs(pl, ph, st, ml, mh, pg)
                BY <1>1, <1>2
            <4>2. k \in pl .. ph - 1 /\ i \in st[k] .. st[k + 1] - 1
                BY <3>2, <3>4
            <4> QED BY <4>1, <4>2, PageOfMessage
        <3> QED BY <3>2, <3>3, <3>4, <3>5
    <2>2. ASSUME NEW i \in ml .. mh - 1 PROVE at[i] \in UnreadAt
        <3> DEFINE k == pg[i]
                   n == k - pl + 1
        <3>1. k \in pl .. ph - 1 /\ st[k] <= i /\ i < st[k + 1]
            BY <1>1 DEF SpreadIs
        <3>2. n \in 1 .. ph - pl /\ pl + n - 1 = k
            BY <1>2, <3>1
        <3>3. i \in st[k] .. st[k + 1] - 1
            BY <1>2, <3>1
        <3>6. at[i] = <<n, pos[i]>>
            OBVIOUS
        <3> HIDE DEF n, k, at
        <3>4. n \in DOMAIN PageChain /\ PageChain[n] = ord[k]
            BY <1>4, <3>2
        <3>5. pos[i] \in Unread(mqPage[ord[k]])
            BY <1>5, <3>1, <3>3
        <3>7. at[i] \in {n} \X Unread(mqPage[PageChain[n]])
            BY <3>4, <3>5, <3>6
        <3> QED BY <3>4, <3>7 DEF UnreadAt
    <2> HIDE DEF at
    <2> QED BY <2>1, <2>2
<1>7. ASSUME NEW i \in ml .. mh - 1, NEW j \in ml .. mh - 1, i < j
      PROVE  Before(at[i], at[j]) /\ ~Before(at[j], at[i]) /\ at[i] # at[j]
    <2>1. /\ pg[i] \in pl .. ph - 1 /\ st[pg[i]] <= i /\ i < st[pg[i] + 1]
          /\ pg[j] \in pl .. ph - 1 /\ st[pg[j]] <= j /\ j < st[pg[j] + 1]
        BY <1>1 DEF SpreadIs
    <2>2. pg[j] + 1 \in pl .. ph /\ pg[i] \in pl .. ph
        BY <1>2, <2>1
    <2>3. ~(pg[j] < pg[i])
        BY <1>2, <1>3, <1>7, <2>1, <2>2, SMTT(30)
    <2>4. pg[i] = pg[j] => pos[i] < pos[j]
        <3> SUFFICES ASSUME pg[i] = pg[j] PROVE pos[i] < pos[j]
            OBVIOUS
        <3>1. PageHolds(mqPage[ord[pg[i]]], st[pg[i]], st[pg[i] + 1], pos, msg)
            BY <2>1 DEF QueueIs
        <3>2. i \in st[pg[i]] .. st[pg[i] + 1] - 1 /\ j \in st[pg[i]] .. st[pg[i] + 1] - 1
            BY <1>2, <2>1
        <3> QED BY <1>7, <3>1, <3>2 DEF PageHolds
    <2>5. at[i][1] = pg[i] - pl + 1 /\ at[i][2] = pos[i] /\ at[j][1] = pg[j] - pl + 1 /\ at[j][2] = pos[j]
        OBVIOUS
    <2>6. pos[i] \in Nat /\ pos[j] \in Nat /\ pg[i] \in Nat /\ pg[j] \in Nat
        BY <1>2
    <2> HIDE DEF at
    <2>7. CASE pg[i] < pg[j]
        <3>1. at[i][1] < at[j][1] /\ at[i][1] \in Int /\ at[j][1] \in Int
            BY <1>2, <2>5, <2>6, <2>7
        <3> QED BY <3>1 DEF Before
    <2>8. CASE pg[i] = pg[j]
        <3>1. at[i][1] = at[j][1] /\ at[i][1] \in Int /\ at[i][2] < at[j][2]
            BY <1>2, <2>4, <2>5, <2>6, <2>8
        <3>2. at[i][2] \in Nat /\ at[j][2] \in Nat
            BY <2>5, <2>6
        <3> QED BY <3>1, <3>2 DEF Before
    <2> QED BY <2>3, <2>6, <2>7, <2>8
<1> HIDE DEF at
<1>8. \A i, j \in ml .. mh - 1 : at[i] = at[j] => i = j
    BY <1>2, <1>7
<1>9. Cardinality(UnreadAt) = mh - ml
    <2>2. ml \in Nat /\ mh \in Nat /\ ml <= mh
        BY <1>2
    <2>1. Cardinality({at[i] : i \in ml .. mh - 1}) = mh - ml
        BY <1>8, <2>2, CountFrom
    <2> QED BY <1>6, <2>1, Zenon
<1>10. ASSUME NEW i \in ml .. mh - 1
       PROVE  Cardinality({y \in UnreadAt : Before(y, at[i])}) = i - ml
    <2>1. {y \in UnreadAt : Before(y, at[i])} = {at[j] : j \in ml .. i - 1}
        <3>1. \A j \in ml .. mh - 1 : Before(at[j], at[i]) => j < i
            <4> SUFFICES ASSUME NEW j \in ml .. mh - 1, ~(j < i) PROVE ~Before(at[j], at[i])
                OBVIOUS
            <4>1. CASE i < j
                BY <1>7, <4>1
            <4>2. CASE i = j
                BY <1>2, <4>2 DEF Before, at
            <4> QED BY <1>2, <4>1, <4>2
        <3>2. \A j \in ml .. i - 1 : j \in ml .. mh - 1 /\ Before(at[j], at[i])
            BY <1>2, <1>7
        <3>3. \A j \in ml .. mh - 1 : j < i => j \in ml .. i - 1
            BY <1>2
        <3> QED BY <1>6, <3>1, <3>2, <3>3
    <2>2. i \in Nat /\ ml <= i /\ \A j, l \in ml .. i - 1 : at[j] = at[l] => j = l
        BY <1>2, <1>8
    <2>3. Cardinality({at[j] : j \in ml .. i - 1}) = i - ml
        <3>1. ml \in Nat
            BY <1>2
        <3> QED BY <2>2, <3>1, CountFrom
    <2> QED BY <2>1, <2>3, Zenon
<1>11. ASSUME NEW n \in 1 .. mh - ml
       PROVE  Nth(n) = at[ml + n - 1]
    <2> DEFINE i == ml + n - 1
    <2>1. i \in ml .. mh - 1 /\ i - ml = n - 1
        BY <1>2
    <2> HIDE DEF i
    <2>2. at[i] \in UnreadAt /\ Cardinality({y \in UnreadAt : Before(y, at[i])}) = n - 1
        BY <1>6, <1>10, <2>1
    <2>3. ASSUME NEW x \in UnreadAt, Cardinality({y \in UnreadAt : Before(y, x)}) = n - 1
          PROVE  x = at[i]
        <3>1. PICK j \in ml .. mh - 1 : x = at[j]
            BY <1>6
        <3>2. j - ml = n - 1
            BY <1>10, <2>3, <3>1
        <3>3. j = i
            BY <1>2, <2>1, <3>2
        <3> QED BY <3>1, <3>3
    <2>4. Nth(n) = at[i]
        BY <2>2, <2>3 DEF Nth
    <2> QED BY <2>4 DEF i
<1>12. ASSUME NEW n \in 1 .. mh - ml
       PROVE  mqPage[PageChain[Nth(n)[1]]].data[Nth(n)[2]] = msg[ml + n - 1]
    <2> DEFINE i == ml + n - 1
    <2>1. i \in ml .. mh - 1 /\ Nth(n) = at[i]
        BY <1>2, <1>11
    <2> HIDE DEF i
    <2>2. pg[i] \in pl .. ph - 1 /\ st[pg[i]] <= i /\ i < st[pg[i] + 1]
        BY <1>1, <2>1 DEF SpreadIs
    <2>3. at[i][1] = pg[i] - pl + 1 /\ at[i][2] = pos[i]
        BY <2>1 DEF at
    <2>4. at[i][1] \in 1 .. ph - pl /\ pl + at[i][1] - 1 = pg[i]
        BY <1>2, <2>2, <2>3, SMTT(30)
    <2>5. PageChain[at[i][1]] = ord[pg[i]]
        BY <1>4, <2>4
    <2>6. PageHolds(mqPage[ord[pg[i]]], st[pg[i]], st[pg[i] + 1], pos, msg)
        BY <2>2 DEF QueueIs
    <2>7. i \in st[pg[i]] .. st[pg[i] + 1] - 1
        BY <1>2, <2>1, <2>2
    <2>8. mqPage[ord[pg[i]]].data[pos[i]] = msg[i]
        BY <2>6, <2>7 DEF PageHolds
    <2> QED BY <2>1, <2>3, <2>5, <2>8 DEF i
<1>13. Queued = [n \in 1 .. mh - ml |-> msg[ml + n - 1]]
    BY <1>9, <1>12 DEF Queued
<1> QED BY <1>4, <1>5, <1>13

LEMMA TotalIs ==
    ASSUME NEW ml \in Nat, NEW mh \in Nat, ml <= mh, NEW msg, NEW tot, TotalsAre(ml, mh, msg, tot),
           NEW s \in Seq(PagedMessages), s = [n \in 1 .. mh - ml |-> msg[ml + n - 1]]
    PROVE  TotalSize(s) = mqBytes
<1> DEFINE total[n \in 0 .. Len(s)] == IF n = 0 THEN 0 ELSE total[n - 1] + s[n].size
           IsTotal(f) == f = [n \in 0 .. Len(s) |-> IF n = 0 THEN 0 ELSE f[n - 1] + s[n].size]
           sum == [n \in 0 .. Len(s) |-> tot[ml + n] - tot[ml]]
<1>1. Len(s) = mh - ml /\ tot \in [Nat -> Nat] /\ Len(s) \in Nat
    <2>1. mh - ml \in Nat /\ DOMAIN s = 1 .. mh - ml
        OBVIOUS
    <2>2. Len(s) \in Nat /\ DOMAIN s = 1 .. Len(s)
        OBVIOUS
    <2>3. Len(s) = mh - ml
        BY <2>1, <2>2
    <2> QED BY <2>2, <2>3 DEF TotalsAre
<1>2. ASSUME NEW n \in 0 .. Len(s), n # 0
      PROVE  sum[n] = sum[n - 1] + s[n].size
    <2> DEFINE i == ml + n - 1
    <2>1. n \in Nat /\ n > 0 /\ n <= mh - ml
        BY <1>1, <1>2
    <2>5. /\ n \in 1 .. mh - ml /\ n - 1 \in 0 .. Len(s) /\ ml + (n - 1) = i /\ i + 1 = ml + n
          /\ i \in ml .. mh - 1
        BY <1>1, <2>1
    <2>6. s[n] = msg[i]
        BY <2>5
    <2>2. sum[n] = tot[ml + n] - tot[ml] /\ sum[n - 1] = tot[i] - tot[ml]
        BY <2>5
    <2> HIDE DEF i, sum
    <2>3. msg[i] \in PagedMessages /\ tot[i + 1] = tot[i] + msg[i].size
        BY <2>5 DEF TotalsAre
    <2>4. msg[i].size \in Nat /\ tot[i] \in Nat /\ tot[ml] \in Nat
        <3>1. i \in Nat
            BY <2>5
        <3> QED BY <1>1, <2>3, <3>1, MessageSize
    <2>7. tot[ml + n] = tot[i] + msg[i].size
        BY <2>3, <2>5
    <2> QED BY <2>2, <2>4, <2>6, <2>7, SMTT(30)
<1>3. sum[0] = 0
    BY <1>1
<1>4. IsTotal(sum)
    <2>1. sum = [n \in 0 .. Len(s) |-> sum[n]]
        OBVIOUS
    <2> HIDE DEF sum
    <2> QED BY <1>2, <1>3, <2>1
<1> HIDE DEF sum
<1>5. ASSUME NEW f, IsTotal(f) PROVE f = sum
    <2> DEFINE same == {n \in Nat : n <= Len(s) => f[n] = sum[n]}
    <2>6. 0 \in 0 .. Len(s)
        BY <1>1
    <2>7. f[0] = 0
        BY <1>5, <2>6
    <2>1. 0 \in same
        BY <1>3, <2>7
    <2>2. ASSUME NEW n \in same PROVE n + 1 \in same
        <3>1. n \in Nat /\ (n + 1) - 1 = n /\ (n <= Len(s) => f[n] = sum[n])
            BY <2>2
        <3>2. CASE n + 1 <= Len(s)
            <4>0. n \in Nat /\ Len(s) \in Nat /\ n + 1 <= Len(s)
                BY <1>1, <3>1, <3>2
            <4>5. n + 1 \in 0 .. Len(s) /\ n + 1 # 0 /\ n <= Len(s)
                BY <4>0
            <4>1. n + 1 \in 0 .. Len(s) /\ n + 1 # 0 /\ f[n] = sum[n]
                BY <3>1, <4>5
            <4>2. f[n + 1] = f[n] + s[n + 1].size
                BY <1>5, <3>1, <4>1
            <4>3. sum[n + 1] = sum[n] + s[n + 1].size
                BY <1>2, <3>1, <4>1
            <4> QED BY <3>1, <4>1, <4>2, <4>3
        <3> QED BY <3>1, <3>2
    <2> HIDE DEF same
    <2>3. same = Nat
        <3>1. same \in SUBSET Nat
            BY DEF same
        <3> QED BY <2>1, <2>2, <3>1, NumberInduction
    <2>4. \A n \in 0 .. Len(s) : f[n] = sum[n]
        <3>1. \A n \in 0 .. Len(s) : n \in same /\ n <= Len(s)
            BY <1>1, <2>3
        <3> QED BY <3>1 DEF same
    <2>5. f = [n \in 0 .. Len(s) |-> f[n]] /\ sum = [n \in 0 .. Len(s) |-> sum[n]]
        BY <1>5, <1>4
    <2> QED BY <2>4, <2>5
<1>6. total = sum
    BY <1>4, <1>5
<1>7. TotalSize(s) = total[Len(s)]
    BY DEF TotalSize
<1> HIDE DEF total
<1>8. sum[Len(s)] = tot[ml + Len(s)] - tot[ml]
    BY <1>1 DEF sum
<1>9. ml + Len(s) = mh
    BY <1>1
<1> QED BY <1>6, <1>7, <1>8, <1>9 DEF TotalsAre

-----------------------------------------------------------------------------
(* The steps of a queue keep the numbering *)

LEMMA NewQueue ==
    ASSUME mqFirst = 0, mqLast = 0, mqPage = <<>>, mqBytes = 0, mqItems = 0, mqAverage = 0
    PROVE  Keeps(<<>>)
<1> DEFINE z == [n \in Nat |-> 0]
<1>1. z \in [Nat -> Nat] /\ z \in [Nat -> PagedMessages \cup {0}] /\ z[0] = 0
    OBVIOUS
<1> HIDE DEF z
<1>2. ListIs(0, 0, z)
    BY <1>1 DEF ListIs
<1>3. SpreadIs(0, 0, z, 0, 0, z)
    BY <1>1, PagedQueueAssumption DEF SpreadIs
<1>4. TotalsAre(0, 0, z, z)
    BY <1>1 DEF TotalsAre
<1>5. QueueIs(0, 0, z, z, 0, 0, z, z, z, z)
    BY <1>1, <1>2, <1>3, <1>4 DEF QueueIs
<1>6. <<>> = [n \in 1 .. 0 - 0 |-> z[0 + n - 1]]
    OBVIOUS
<1> QED BY <1>5, <1>6 DEF Keeps

LEMMA NextKept ==
    ASSUME NEW page \in MqPageType, NEW m \in PagedMessages
    PROVE  PageWritten(page, m).next = page.next /\ PagePopped(page, m).next = page.next
BY DEF PageWritten, PagePopped, MqPageType

\* Linking another page behind a page changes nothing of what it holds.
LEMMA HoldsLinked ==
    ASSUME NEW page, NEW from, NEW to, NEW pos, NEW msg, NEW next \in Nat,
           PageHolds(page, from, to, pos, msg)
    PROVE  /\ PageHolds([page EXCEPT !.next = next], from, to, pos, msg)
           /\ [page EXCEPT !.next = next].next = next
<1> DEFINE page2 == [page EXCEPT !.next = next]
<1>1. page \in MqPageType
    BY DEF PageHolds
<1>2. page2 \in MqPageType /\ page2.next = next
    BY <1>1 DEF MqPageType
<1>3. /\ page2.data = page.data /\ page2.items = page.items /\ page2.pop = page.pop
      /\ page2.push = page.push /\ page2.bytes = page.bytes /\ page2.allocated = page.allocated
    BY <1>1 DEF MqPageType
<1> HIDE DEF page2
<1>4. PageHolds(page2, from, to, pos, msg)
    BY <1>2, <1>3 DEF PageHolds
<1> QED BY <1>2, <1>4 DEF page2

LEMMA SpreadSamePage ==
    ASSUME NEW pl \in Nat, NEW ph \in Nat, pl < ph, NEW st, NEW ml, NEW mh, NEW pg,
           SpreadIs(pl, ph, st, ml, mh, pg), mh - ml < MaxQueued
    PROVE  SpreadIs(pl, ph, [st EXCEPT ![ph] = mh + 1], ml, mh + 1, [pg EXCEPT ![mh] = ph - 1])
<1> DEFINE st2 == [st EXCEPT ![ph] = mh + 1]
           pg2 == [pg EXCEPT ![mh] = ph - 1]
<1>1. /\ ml \in Nat /\ mh \in Nat /\ ml <= mh /\ st \in [Nat -> Nat] /\ pg \in [Nat -> Nat]
      /\ st[pl] = ml /\ st[ph] = mh
      /\ \A k, l \in pl .. ph : k <= l => l - k <= st[l] - st[k]
      /\ MaxQueued \in Nat
    BY PagedQueueAssumption DEF SpreadIs
<1>2. /\ st2 \in [Nat -> Nat] /\ st2[ph] = mh + 1
      /\ \A k \in pl .. ph - 1 : st2[k] = st[k]
    BY <1>1
<1>3. /\ pg2 \in [Nat -> Nat] /\ pg2[mh] = ph - 1
      /\ \A i \in ml .. mh - 1 : pg2[i] = pg[i]
    BY <1>1
<1>4. \A k \in pl .. ph : k \in pl .. ph - 1 \/ k = ph
    OBVIOUS
<1>5. pl \in pl .. ph - 1 /\ ph - 1 \in pl .. ph - 1 /\ ph \in pl .. ph /\ ph - 1 \in pl .. ph
    OBVIOUS
<1>10. \A k \in pl .. ph - 1 : k \in pl .. ph
    OBVIOUS
<1> HIDE DEF st2, pg2
<1>6. ASSUME NEW k \in pl .. ph, NEW l \in pl .. ph, k <= l
      PROVE  l - k <= st2[l] - st2[k]
    <2>1. l - k <= st[l] - st[k] /\ st[l] \in Nat /\ st[k] \in Nat
        BY <1>1, <1>6
    <2>2. CASE l = ph /\ k = ph
        BY <1>2, <2>2
    <2>3. CASE l = ph /\ k \in pl .. ph - 1
        BY <1>1, <1>2, <2>1, <2>3
    <2>4. CASE l \in pl .. ph - 1
        <3>1. k \in pl .. ph - 1
            BY <1>6, <2>4
        <3> QED BY <1>2, <2>1, <2>4, <3>1
    <2> QED BY <1>4, <2>2, <2>3, <2>4
<1>7. ASSUME NEW i \in ml .. mh
      PROVE  pg2[i] \in pl .. ph - 1 /\ st2[pg2[i]] <= i /\ i < st2[pg2[i] + 1]
    <2>1. CASE i = mh
        <3>1. ph - (ph - 1) <= st[ph] - st[ph - 1]
            BY <1>1, <1>5
        <3>2. st[ph - 1] \in Nat /\ st2[ph - 1] = st[ph - 1] /\ (ph - 1) + 1 = ph
            BY <1>1, <1>2, <1>5
        <3> QED BY <1>1, <1>2, <1>3, <1>5, <2>1, <3>1, <3>2
    <2>2. CASE i \in ml .. mh - 1
        <3>1. pg[i] \in pl .. ph - 1 /\ st[pg[i]] <= i /\ i < st[pg[i] + 1]
            BY <2>2 DEF SpreadIs
        <3>2. pg2[i] = pg[i] /\ st2[pg[i]] = st[pg[i]]
            BY <1>2, <1>3, <2>2, <3>1
        <3>3. pg[i] + 1 \in pl .. ph
            BY <3>1
        <3>4. st2[pg[i] + 1] = st[pg[i] + 1] \/ (st[pg[i] + 1] = mh /\ st2[pg[i] + 1] = mh + 1)
            BY <1>1, <1>2, <1>4, <3>3
        <3> QED BY <1>1, <2>2, <3>1, <3>2, <3>4
    <2> QED BY <1>1, <2>1, <2>2
<1>8. st2[pl] = ml /\ mh + 1 \in Nat /\ ml <= mh + 1 /\ mh + 1 - ml <= MaxQueued
    BY <1>1, <1>2, <1>5
<1>9. mh + 1 - 1 = mh
    BY <1>1
<1> QED BY <1>1, <1>2, <1>3, <1>6, <1>7, <1>8, <1>9 DEF SpreadIs, st2, pg2

LEMMA SpreadNewPage ==
    ASSUME NEW pl \in Nat, NEW ph \in Nat, pl <= ph, NEW st, NEW ml, NEW mh, NEW pg,
           SpreadIs(pl, ph, st, ml, mh, pg), mh - ml < MaxQueued
    PROVE  SpreadIs(pl, ph + 1, [st EXCEPT ![ph + 1] = mh + 1], ml, mh + 1, [pg EXCEPT ![mh] = ph])
<1> DEFINE st2 == [st EXCEPT ![ph + 1] = mh + 1]
           pg2 == [pg EXCEPT ![mh] = ph]
<1>1. /\ ml \in Nat /\ mh \in Nat /\ ml <= mh /\ st \in [Nat -> Nat] /\ pg \in [Nat -> Nat]
      /\ st[pl] = ml /\ st[ph] = mh
      /\ \A k, l \in pl .. ph : k <= l => l - k <= st[l] - st[k]
      /\ MaxQueued \in Nat
    BY PagedQueueAssumption DEF SpreadIs
<1>2. /\ st2 \in [Nat -> Nat] /\ st2[ph + 1] = mh + 1
      /\ \A k \in pl .. ph : st2[k] = st[k]
    BY <1>1
<1>3. /\ pg2 \in [Nat -> Nat] /\ pg2[mh] = ph
      /\ \A i \in ml .. mh - 1 : pg2[i] = pg[i]
    BY <1>1
<1>4. \A k \in pl .. ph + 1 : k \in pl .. ph \/ k = ph + 1
    OBVIOUS
<1>5. pl \in pl .. ph /\ ph \in pl .. ph
    OBVIOUS
<1> HIDE DEF st2, pg2
<1>6. ASSUME NEW k \in pl .. ph + 1, NEW l \in pl .. ph + 1, k <= l
      PROVE  l - k <= st2[l] - st2[k]
    <2>2. CASE l = ph + 1 /\ k = ph + 1
        BY <1>2, <2>2
    <2>3. CASE l = ph + 1 /\ k \in pl .. ph
        <3>1. ph - k <= st[ph] - st[k] /\ st[k] \in Nat /\ st2[k] = st[k]
            BY <1>1, <1>2, <1>5, <2>3
        <3> QED BY <1>1, <1>2, <2>3, <3>1
    <2>4. CASE l \in pl .. ph
        <3>1. k \in pl .. ph
            BY <1>6, <2>4
        <3> QED BY <1>1, <1>2, <1>6, <2>4, <3>1
    <2> QED BY <1>4, <2>2, <2>3, <2>4
<1>7. ASSUME NEW i \in ml .. mh
      PROVE  pg2[i] \in pl .. (ph + 1) - 1 /\ st2[pg2[i]] <= i /\ i < st2[pg2[i] + 1]
    <2>1. CASE i = mh
        BY <1>1, <1>2, <1>3, <1>5, <2>1
    <2>2. CASE i \in ml .. mh - 1
        <3>1. pg[i] \in pl .. ph - 1 /\ st[pg[i]] <= i /\ i < st[pg[i] + 1]
            BY <2>2 DEF SpreadIs
        <3>2. pg[i] + 1 \in pl .. ph /\ pg[i] \in pl .. ph /\ pg[i] \in pl .. (ph + 1) - 1
            BY <3>1
        <3>3. pg2[i] = pg[i] /\ st2[pg[i]] = st[pg[i]] /\ st2[pg[i] + 1] = st[pg[i] + 1]
            BY <1>2, <1>3, <2>2, <3>2
        <3> QED BY <3>1, <3>2, <3>3
    <2> QED BY <1>1, <2>1, <2>2
<1>8. st2[pl] = ml /\ mh + 1 \in Nat /\ ml <= mh + 1 /\ mh + 1 - ml <= MaxQueued
    BY <1>1, <1>2, <1>5
<1>9. mh + 1 - 1 = mh
    BY <1>1
<1> QED BY <1>1, <1>2, <1>3, <1>6, <1>7, <1>8, <1>9 DEF SpreadIs, st2, pg2

LEMMA SpreadPopped ==
    ASSUME NEW pl \in Nat, NEW ph \in Nat, pl < ph, NEW st, NEW ml, NEW mh, NEW pg,
           SpreadIs(pl, ph, st, ml, mh, pg), ml + 1 < st[pl + 1]
    PROVE  SpreadIs(pl, ph, [st EXCEPT ![pl] = ml + 1], ml + 1, mh, pg)
<1> DEFINE st2 == [st EXCEPT ![pl] = ml + 1]
<1>1. /\ ml \in Nat /\ mh \in Nat /\ ml <= mh /\ st \in [Nat -> Nat] /\ pg \in [Nat -> Nat]
      /\ st[pl] = ml /\ st[ph] = mh /\ mh - ml <= MaxQueued
      /\ \A k, l \in pl .. ph : k <= l => l - k <= st[l] - st[k]
      /\ MaxQueued \in Nat
    BY PagedQueueAssumption DEF SpreadIs
<1>2. /\ st2 \in [Nat -> Nat] /\ st2[pl] = ml + 1
      /\ \A k \in pl + 1 .. ph : st2[k] = st[k]
    BY <1>1
<1>4. \A k \in pl .. ph : k \in pl + 1 .. ph \/ k = pl
    OBVIOUS
<1>5. pl + 1 \in pl + 1 .. ph /\ ph \in pl + 1 .. ph /\ pl + 1 \in pl .. ph /\ ph \in pl .. ph
    OBVIOUS
<1> HIDE DEF st2
<1>6. ASSUME NEW k \in pl .. ph, NEW l \in pl .. ph, k <= l
      PROVE  l - k <= st2[l] - st2[k]
    <2>2. CASE l = pl /\ k = pl
        BY <1>1, <1>2, <2>2
    <2>3. CASE k = pl /\ l \in pl + 1 .. ph
        <3>1. l - (pl + 1) <= st[l] - st[pl + 1] /\ st[l] \in Nat /\ st[pl + 1] \in Nat
            BY <1>1, <1>5, <2>3
        <3> QED BY <1>1, <1>2, <2>3, <3>1
    <2>4. CASE k \in pl + 1 .. ph
        <3>1. l \in pl + 1 .. ph
            BY <1>6, <2>4
        <3> QED BY <1>1, <1>2, <1>6, <2>4, <3>1
    <2> QED BY <1>4, <1>6, <2>2, <2>3, <2>4
<1>7. ASSUME NEW i \in ml + 1 .. mh - 1
      PROVE  pg[i] \in pl .. ph - 1 /\ st2[pg[i]] <= i /\ i < st2[pg[i] + 1]
    <2>1. i \in ml .. mh - 1 /\ ml + 1 <= i
        BY <1>1
    <2>2. pg[i] \in pl .. ph - 1 /\ st[pg[i]] <= i /\ i < st[pg[i] + 1]
        BY <2>1 DEF SpreadIs
    <2>3. pg[i] + 1 \in pl + 1 .. ph /\ pg[i] \in pl .. ph
        BY <2>2
    <2>4. st2[pg[i] + 1] = st[pg[i] + 1]
        BY <1>2, <2>3
    <2>5. st2[pg[i]] = st[pg[i]] \/ st2[pg[i]] = ml + 1
        BY <1>2, <1>4, <2>3
    <2> QED BY <2>1, <2>2, <2>4, <2>5
<1>8. ml + 1 \in Nat /\ ml + 1 <= mh /\ mh - (ml + 1) <= MaxQueued /\ st2[ph] = mh
    <2>1. ph - (pl + 1) <= st[ph] - st[pl + 1] /\ st[pl + 1] \in Nat
        BY <1>1, <1>5
    <2> QED BY <1>1, <1>2, <1>5, <2>1
<1> QED BY <1>1, <1>2, <1>6, <1>7, <1>8 DEF SpreadIs, st2

LEMMA SpreadPageGone ==
    ASSUME NEW pl \in Nat, NEW ph \in Nat, pl < ph, NEW st, NEW ml, NEW mh, NEW pg,
           SpreadIs(pl, ph, st, ml, mh, pg), ml + 1 = st[pl + 1]
    PROVE  SpreadIs(pl + 1, ph, st, ml + 1, mh, pg)
<1>1. /\ ml \in Nat /\ mh \in Nat /\ ml <= mh /\ st \in [Nat -> Nat] /\ pg \in [Nat -> Nat]
      /\ st[pl] = ml /\ st[ph] = mh /\ mh - ml <= MaxQueued
      /\ \A k, l \in pl .. ph : k <= l => l - k <= st[l] - st[k]
      /\ MaxQueued \in Nat
    BY PagedQueueAssumption DEF SpreadIs
<1>2. \A k \in pl + 1 .. ph : k \in pl .. ph
    OBVIOUS
<1>3. \A k, l \in pl + 1 .. ph : k <= l => l - k <= st[l] - st[k]
    BY <1>1, <1>2
<1>4. ASSUME NEW i \in ml + 1 .. mh - 1
      PROVE  pg[i] \in pl + 1 .. ph - 1 /\ st[pg[i]] <= i /\ i < st[pg[i] + 1]
    <2>1. i \in ml .. mh - 1 /\ ml + 1 <= i
        BY <1>1
    <2>2. pg[i] \in pl .. ph - 1 /\ st[pg[i]] <= i /\ i < st[pg[i] + 1]
        BY <2>1 DEF SpreadIs
    <2>3. pg[i] # pl
        BY <1>1, <2>1, <2>2
    <2> QED BY <2>2, <2>3
<1>5. ml + 1 \in Nat /\ ml + 1 <= mh /\ mh - (ml + 1) <= MaxQueued
    <2>1. pl + 1 \in pl .. ph /\ ph \in pl .. ph /\ pl + 1 <= ph
        OBVIOUS
    <2>2. ph - (pl + 1) <= st[ph] - st[pl + 1] /\ st[pl + 1] \in Nat
        BY <1>1, <2>1
    <2> QED BY <1>1, <2>1, <2>2
<1> QED BY <1>1, <1>3, <1>4, <1>5 DEF SpreadIs

LEMMA QueueTypes ==
    ASSUME NEW pl, NEW ph, NEW ord, NEW st, NEW ml, NEW mh, NEW pg, NEW pos, NEW msg, NEW tot,
           QueueIs(pl, ph, ord, st, ml, mh, pg, pos, msg, tot)
    PROVE  /\ pl \in Nat /\ ph \in Nat /\ pl <= ph /\ ord \in [Nat -> Nat]
           /\ ml \in Nat /\ mh \in Nat /\ ml <= mh /\ st \in [Nat -> Nat] /\ pg \in [Nat -> Nat]
           /\ st[pl] = ml /\ st[ph] = mh /\ ph - pl <= mh - ml
           /\ \A k \in pl .. ph - 1 : st[k] < st[k + 1]
           /\ MaxQueued \in Nat
<1>1. ListIs(pl, ph, ord) /\ SpreadIs(pl, ph, st, ml, mh, pg)
    BY DEF QueueIs
<1>2. /\ pl \in Nat /\ ph \in Nat /\ pl <= ph /\ ord \in [Nat -> Nat]
      /\ ml \in Nat /\ mh \in Nat /\ ml <= mh /\ st \in [Nat -> Nat] /\ pg \in [Nat -> Nat]
      /\ st[pl] = ml /\ st[ph] = mh
      /\ \A k, l \in pl .. ph : k <= l => l - k <= st[l] - st[k]
    BY <1>1 DEF ListIs, SpreadIs
<1>3. ph - pl <= mh - ml
    <2>1. pl \in pl .. ph /\ ph \in pl .. ph
        BY <1>2
    <2> QED BY <1>2, <2>1
<1>4. \A k \in pl .. ph - 1 : st[k] < st[k + 1]
    <2> SUFFICES ASSUME NEW k \in pl .. ph - 1 PROVE st[k] < st[k + 1]
        OBVIOUS
    <2>1. k \in pl .. ph /\ k + 1 \in pl .. ph /\ k <= k + 1 /\ k + 1 - k = 1
        BY <1>2
    <2>2. 1 <= st[k + 1] - st[k] /\ st[k] \in Nat /\ st[k + 1] \in Nat
        BY <1>2, <2>1
    <2> QED BY <2>2
<1> QED BY <1>2, <1>3, <1>4, PagedQueueAssumption

LEMMA AverageNat ==
    ASSUME mqAverage \in Nat, NEW size \in Nat
    PROVE  AverageWith(size) \in Nat
<1> DEFINE sum == mqAverage + size
<1>1. sum \in Nat
    OBVIOUS
<1>2. sum \div 2 \in Nat
    BY <1>1
<1> HIDE DEF sum
<1>3. AverageWith(size) = sum \div 2 \/ AverageWith(size) = sum
    BY DEF AverageWith, sum
<1> QED BY <1>1, <1>2, <1>3

\* A new page has room for the message it is allocated for.
LEMMA EmptyPageIs ==
    ASSUME mqAverage \in Nat, NEW size \in Nat
    PROVE  LET page == EmptyPage(size) IN
           /\ page \in MqPageType /\ size <= page.allocated
           /\ page.bytes = 0 /\ page.items = 0 /\ page.pop = 0 /\ page.push = 0
           /\ page.next = 0 /\ page.data = <<>>
<1> DEFINE target == AverageWith(size) * PageItemsTarget
           room == IF target < size THEN size ELSE target
<1>1. target \in Nat
    BY AverageNat, PagedQueueAssumption
<1>2. EmptyPage(size) = [allocated |-> room, bytes |-> 0, items |-> 0, pop |-> 0, push |-> 0,
                         next |-> 0, data |-> <<>>]
    BY DEF EmptyPage
<1> HIDE DEF target
<1>3. room \in Nat /\ size <= room
    BY <1>1
<1> HIDE DEF room
<1>4. <<>> \in PageData
    <2>1. {} \in SUBSET Nat /\ <<>> \in [{} -> PagedMessages]
        OBVIOUS
    <2> QED BY <2>1 DEF PageData
<1> QED BY <1>2, <1>3, <1>4 DEF MqPageType

LEMMA HoldsFresh ==
    ASSUME NEW page \in MqPageType, page.bytes = 0, page.items = 0, page.pop = 0, page.push = 0,
           page.data = <<>>, NEW m \in PagedMessages, m.size <= page.allocated,
           NEW to \in Nat, NEW pos \in [Nat -> Nat], NEW msg \in [Nat -> PagedMessages \cup {0}]
    PROVE  PageHolds(PageWritten(page, m), to, to + 1, [pos EXCEPT ![to] = 0], [msg EXCEPT ![to] = m])
<1> DEFINE pos2 == [pos EXCEPT ![to] = 0]
           msg2 == [msg EXCEPT ![to] = m]
           data2 == Put(page.data, page.push, m)
           page2 == PageWritten(page, m)
           size == m.size
<1>1. size \in Nat /\ size > 0
    BY MessageSize
<1>2. data2 \in PageData /\ DOMAIN data2 = {0} /\ data2[0] = m
    <2> DEFINE f == <<>>
    <2>1. f \in PageData
        BY DEF MqPageType
    <2>2. DOMAIN f = {}
        OBVIOUS
    <2>5. \A x \in Nat : Put(f, x, m) \in PageData /\ DOMAIN Put(f, x, m) = DOMAIN f \cup {x}
                          /\ Put(f, x, m)[x] = m
        <3> HIDE DEF f
        <3> QED BY <2>1, DataPut, ZenonT(40)
    <2> HIDE DEF f
    <2>3. Put(f, 0, m) \in PageData /\ DOMAIN Put(f, 0, m) = DOMAIN f \cup {0} /\ Put(f, 0, m)[0] = m
        <3>1. 0 \in Nat
            OBVIOUS
        <3> QED BY <2>5, <3>1, Zenon
    <2>4. data2 = Put(f, 0, m)
        BY DEF f
    <2> HIDE DEF data2
    <2> QED BY <2>2, <2>3, <2>4
<1> HIDE DEF data2
<1>3. page2 = [page EXCEPT !.data = data2, !.push = page.push + size, !.bytes = page.bytes + size,
                           !.items = page.items + 1]
    BY Zenon DEF PageWritten, data2
<1>4. page.push + size = size /\ page.bytes + size = size /\ page.items + 1 = 1
    BY <1>1
<1>5. page2 = [page EXCEPT !.data = data2, !.push = size, !.bytes = size, !.items = 1]
    BY <1>3, <1>4, Zenon
<1> HIDE DEF page2
<1>6. /\ page2 \in MqPageType
      /\ page2.data = data2 /\ page2.push = size /\ page2.bytes = size /\ page2.items = 1
      /\ page2.pop = 0 /\ page2.allocated = page.allocated
    <2>1. 1 \in Nat
        OBVIOUS
    <2> HIDE DEF size
    <2> QED BY <1>1, <1>2, <1>5, <2>1 DEF MqPageType
<1>7. pos2[to] = 0 /\ msg2[to] = m
    OBVIOUS
<1> HIDE DEF pos2, msg2
<1>8. to .. to + 1 - 1 = {to} /\ to = to + 1 - 1 /\ to + 1 - to = 1
    OBVIOUS
<1>9. \A i \in to .. to + 1 - 1 :
         /\ pos2[i] \in DOMAIN page2.data
         /\ page2.data[pos2[i]] = msg2[i]
         /\ msg2[i] \in PagedMessages
         /\ pos2[i] + msg2[i].size = IF i = to + 1 - 1 THEN page2.push ELSE pos2[i + 1]
    <2>1. /\ 0 \in DOMAIN page2.data /\ page2.data[0] = m /\ m \in PagedMessages
          /\ 0 + m.size = page2.push
        BY <1>1, <1>2, <1>6
    <2>2. \A i \in to .. to + 1 - 1 : i = to /\ i = to + 1 - 1
        OBVIOUS
    <2> HIDE DEF size
    <2> QED BY <1>7, <2>1, <2>2
<1>10. \A i, j \in to .. to + 1 - 1 : i < j => pos2[i] < pos2[j]
    BY <1>8
<1>11. \A d \in DOMAIN page2.data : d >= page2.pop => \E i \in to .. to + 1 - 1 : pos2[i] = d
    BY <1>2, <1>6, <1>7, <1>8
<1>12. /\ page2.items = to + 1 - to /\ page2.pop + page2.bytes = page2.push
       /\ page2.push <= page2.allocated /\ pos2[to] = page2.pop
    <2>1. size <= page.allocated
        OBVIOUS
    <2> HIDE DEF size
    <2> QED BY <1>1, <1>6, <1>7, <1>8, <2>1
<1>13. PageHolds(page2, to, to + 1, pos2, msg2)
    BY <1>6, <1>9, <1>10, <1>11, <1>12 DEF PageHolds
<1> QED BY <1>13 DEF page2, pos2, msg2

\* There is a free address as long as the queue is not full.
LEMMA FreeAddress ==
    ASSUME NEW pl, NEW ph, NEW ord, ListIs(pl, ph, ord), ph - pl < MaxQueued
    PROVE  Min(PageAddr \ DOMAIN mqPage) \in PageAddr \ DOMAIN mqPage
<1> DEFINE used == {ord[k] : k \in pl .. ph - 1}
<1>1. /\ pl \in Nat /\ ph \in Nat /\ pl <= ph /\ DOMAIN mqPage = used /\ used \subseteq PageAddr
      /\ \A k, l \in pl .. ph - 1 : ord[k] = ord[l] => k = l
    BY DEF ListIs
<1>2. Cardinality(used) = ph - pl
    BY <1>1, CountFrom
<1>3. MaxQueued \in Nat /\ Cardinality(PageAddr) = MaxQueued
    <2>1. MaxQueued \in Nat /\ 1 \in Int /\ MaxQueued \in Int
        BY PagedQueueAssumption
    <2>2. Cardinality(1 .. MaxQueued) = IF 1 > MaxQueued THEN 0 ELSE MaxQueued - 1 + 1
        BY <2>1, FS_Interval
    <2> QED BY <2>1, <2>2 DEF PageAddr
<1> HIDE DEF used
<1>4. PageAddr \ used # {}
    <2> SUFFICES ASSUME PageAddr = used PROVE FALSE
        BY <1>1
    <2> QED BY <1>1, <1>2, <1>3
<1>5. PageAddr \ used \in SUBSET Nat
    BY PagedQueueAssumption DEF PageAddr
<1> QED BY <1>1, <1>4, <1>5, MinIs

\* The totals after a message more.
LEMMA TotalsPushed ==
    ASSUME NEW ml \in Nat, NEW mh \in Nat, ml <= mh, NEW msg \in [Nat -> PagedMessages \cup {0}],
           NEW tot, TotalsAre(ml, mh, msg, tot), NEW m \in PagedMessages,
           mqAverage' = AverageWith(m.size), mqBytes' = mqBytes + m.size, mqItems' = mqItems + 1
    PROVE  TotalsAre(ml, mh + 1, [msg EXCEPT ![mh] = m], [tot EXCEPT ![mh + 1] = tot[mh] + m.size])'
<1> DEFINE msg2 == [msg EXCEPT ![mh] = m]
           tot2 == [tot EXCEPT ![mh + 1] = tot[mh] + m.size]
           size == m.size
<1>1. tot \in [Nat -> Nat] /\ mqAverage \in Nat /\ mqItems = mh - ml /\ mqBytes = tot[mh] - tot[ml]
    BY DEF TotalsAre
<1>2. size \in Nat
    BY MessageSize
<1>3. /\ tot2 \in [Nat -> Nat] /\ tot2[mh + 1] = tot[mh] + size
      /\ \A i \in ml .. mh : tot2[i] = tot[i]
    <2> DEFINE new == tot[mh] + size
    <2>1. new \in Nat
        BY <1>1, <1>2
    <2>2. tot2 = [tot EXCEPT ![mh + 1] = new]
        OBVIOUS
    <2> HIDE DEF new, size, tot2
    <2>3. mh + 1 \in Nat /\ \A i \in ml .. mh : i \in Nat /\ i # mh + 1
        OBVIOUS
    <2>4. /\ tot2 \in [Nat -> Nat] /\ tot2[mh + 1] = new
          /\ \A i \in ml .. mh : tot2[i] = tot[i]
        BY <1>1, <2>1, <2>2, <2>3
    <2> QED BY <2>4 DEF new
<1>4. msg2[mh] = m /\ \A i \in ml .. mh - 1 : msg2[i] = msg[i]
    OBVIOUS
<1>5. AverageWith(size) \in Nat
    BY <1>1, <1>2, AverageNat
<1> HIDE DEF msg2, tot2
<1>6. ASSUME NEW i \in ml .. mh
      PROVE  msg2[i] \in PagedMessages /\ tot2[i + 1] = tot2[i] + msg2[i].size
    <2>1. CASE i = mh
        BY <1>3, <1>4, <2>1
    <2>2. CASE i \in ml .. mh - 1
        <3>1. i \in ml .. mh /\ i + 1 \in ml .. mh
            BY <2>2
        <3>2. msg[i] \in PagedMessages /\ tot[i + 1] = tot[i] + msg[i].size
            BY <2>2 DEF TotalsAre
        <3> QED BY <1>3, <1>4, <2>2, <3>1, <3>2
    <2> QED BY <2>1, <2>2
<1>7. mqItems' = mh + 1 - ml
    BY <1>1
<1>8. mqBytes' = tot2[mh + 1] - tot2[ml]
    <2>1. ml \in ml .. mh /\ tot[mh] \in Nat /\ tot[ml] \in Nat
        BY <1>1
    <2>2. mqBytes' = (tot[mh] - tot[ml]) + size
        BY <1>1
    <2>3. tot2[ml] = tot[ml] /\ tot2[mh + 1] = tot[mh] + size
        BY <1>3, <2>1
    <2> HIDE DEF size
    <2> QED BY <1>2, <2>1, <2>2, <2>3
<1>9. mqAverage' \in Nat
    BY <1>5
<1>10. mh + 1 - 1 = mh
    OBVIOUS
<1>11. TotalsAre(ml, mh + 1, msg2, tot2)'
    <2>1. \A i \in ml .. mh + 1 - 1 : msg2[i] \in PagedMessages /\ tot2[i + 1] = tot2[i] + msg2[i].size
        BY <1>6, <1>10
    <2> QED BY <1>3, <1>7, <1>8, <1>9, <2>1 DEF TotalsAre
<1> QED BY <1>11 DEF msg2, tot2

\* mq_push to the last page.
LEMMA PushedSamePage ==
    ASSUME NEW pl, NEW ph, NEW ord, NEW st, NEW ml, NEW mh, NEW pg, NEW pos, NEW msg, NEW tot,
           QueueIs(pl, ph, ord, st, ml, mh, pg, pos, msg, tot),
           NEW m \in PagedMessages, MqPush(m), FitsLastPage(m.size)
    PROVE  \E st2, pg2, pos2, tot2 :
              QueueIs(pl, ph, ord, st2, ml, mh + 1, pg2, pos2, [msg EXCEPT ![mh] = m], tot2)'
<1>1. /\ pl \in Nat /\ ph \in Nat /\ pl <= ph /\ ord \in [Nat -> Nat]
      /\ ml \in Nat /\ mh \in Nat /\ ml <= mh /\ st \in [Nat -> Nat] /\ pg \in [Nat -> Nat]
      /\ st[pl] = ml /\ st[ph] = mh
      /\ \A k \in pl .. ph - 1 : st[k] < st[k + 1]
    BY QueueTypes
<1>2. /\ ListIs(pl, ph, ord) /\ SpreadIs(pl, ph, st, ml, mh, pg) /\ TotalsAre(ml, mh, msg, tot)
      /\ pos \in [Nat -> Nat] /\ msg \in [Nat -> PagedMessages \cup {0}]
    BY DEF QueueIs
<1>3. /\ mqPage' = [mqPage EXCEPT ![mqLast] = PageWritten(mqPage[mqLast], m)]
      /\ UNCHANGED <<mqFirst, mqLast>> /\ mqItems < MaxQueued
      /\ mqAverage' = AverageWith(m.size) /\ mqBytes' = mqBytes + m.size /\ mqItems' = mqItems + 1
    BY DEF MqPush, Written
<1>4. pl < ph /\ mqLast = ord[ph - 1] /\ ph - 1 \in pl .. ph - 1 /\ ph - 1 \in Nat /\ (ph - 1) + 1 = ph
    <2>1. mqLast # 0 /\ mqLast = IF pl = ph THEN 0 ELSE ord[ph - 1]
        BY <1>2 DEF FitsLastPage, ListIs
    <2>2. pl # ph /\ mqLast = ord[ph - 1]
        BY <2>1
    <2> QED BY <1>1, <2>2
<1>5. PICK page : page = mqPage[mqLast]
    OBVIOUS
<1>6. PageHolds(page, st[ph - 1], mh, pos, msg)
    BY <1>1, <1>4, <1>5 DEF QueueIs
<1>7. page \in MqPageType /\ page.push \in Nat /\ page.allocated \in Nat /\ m.size \in Nat
    BY <1>6, MessageSize DEF PageHolds, MqPageType
<1>8. page.push + m.size <= page.allocated
    <2>1. m.size <= page.allocated - page.push
        BY <1>5 DEF FitsLastPage
    <2> QED BY <1>7, <2>1
<1>9. PICK push \in Nat : push = page.push
    BY <1>7
<1> DEFINE st2 == [st EXCEPT ![ph] = mh + 1]
           pg2 == [pg EXCEPT ![mh] = ph - 1]
           pos2 == [pos EXCEPT ![mh] = push]
           msg2 == [msg EXCEPT ![mh] = m]
           tot2 == [tot EXCEPT ![mh + 1] = tot[mh] + m.size]
<1>10. SpreadIs(pl, ph, st2, ml, mh + 1, pg2)
    <2>1. mh - ml < MaxQueued
        BY <1>2, <1>3 DEF TotalsAre
    <2> QED BY <1>1, <1>2, <1>4, <2>1, SpreadSamePage
<1>11. TotalsAre(ml, mh + 1, msg2, tot2)'
    BY <1>1, <1>2, <1>3, TotalsPushed
<1>12. pos2 \in [Nat -> Nat] /\ msg2 \in [Nat -> PagedMessages \cup {0}]
    BY <1>1, <1>2
<1>13. /\ st2[ph] = mh + 1 /\ \A k \in pl .. ph - 1 : st2[k] = st[k]
    BY <1>1
<1>14. \A i \in ml .. mh - 1 : pos2[i] = pos[i] /\ msg2[i] = msg[i]
    BY <1>1, <1>2
<1>15. PageHolds(PageWritten(page, m), st[ph - 1], mh + 1, pos2, msg2)
    <2>1. st[ph - 1] \in Nat /\ st[ph - 1] < mh
        BY <1>1, <1>4
    <2>2. PageHolds(PageWritten(page, m), st[ph - 1], mh + 1,
                    [pos EXCEPT ![mh] = page.push], [msg EXCEPT ![mh] = m])
        BY <1>1, <1>2, <1>6, <1>8, <2>1, HoldsWritten
    <2> QED BY <1>9, <2>2, Zenon
<1> HIDE DEF st2, pg2, pos2, msg2, tot2
<1>16. /\ \A k \in pl .. ph - 1 : ord[k] \in DOMAIN mqPage
       /\ \A k \in pl .. ph - 1 : k # ph - 1 => ord[k] # mqLast
    BY <1>2, <1>4 DEF ListIs
<1>17. /\ DOMAIN mqPage' = DOMAIN mqPage
       /\ mqPage'[ord[ph - 1]] = PageWritten(page, m)
       /\ \A k \in pl .. ph - 1 : k # ph - 1 => mqPage'[ord[k]] = mqPage[ord[k]]
       /\ mqPage' = [a \in DOMAIN mqPage |-> mqPage'[a]]
    <2> DEFINE w == PageWritten(mqPage[mqLast], m)
    <2>1. mqPage' = [mqPage EXCEPT ![mqLast] = w] /\ w = PageWritten(page, m)
        BY <1>3, <1>5
    <2> HIDE DEF w
    <2> QED BY <1>4, <1>16, <2>1
<1>18. ListIs(pl, ph, ord)'
    <2>1. PageWritten(page, m).next = page.next
        BY <1>7, NextKept
    <2>2. \A k \in pl .. ph - 1 : mqPage'[ord[k]].next = mqPage[ord[k]].next
        BY <1>4, <1>5, <1>17, <2>1
    <2> QED BY <1>2, <1>3, <1>17, <2>2 DEF ListIs
<1>19. ASSUME NEW k \in pl .. ph - 1
       PROVE  PageHolds(mqPage'[ord[k]], st2[k], st2[k + 1], pos2, msg2)
    <2>1. CASE k = ph - 1
        BY <1>4, <1>13, <1>15, <1>17, <2>1
    <2>2. CASE k # ph - 1
        <3>1. k + 1 \in pl .. ph - 1
            BY <1>1, <2>2
        <3>2. st2[k] = st[k] /\ st2[k + 1] = st[k + 1] /\ mqPage'[ord[k]] = mqPage[ord[k]]
            BY <1>13, <1>17, <2>2, <3>1
        <3>3. PageHolds(mqPage[ord[k]], st[k], st[k + 1], pos, msg)
            BY DEF QueueIs
        <3>4. \A i \in st[k] .. st[k + 1] - 1 : pos2[i] = pos[i] /\ msg2[i] = msg[i]
            <4>1. ASSUME NEW i \in st[k] .. st[k + 1] - 1 PROVE i \in ml .. mh - 1
                <5>1. pl \in Nat /\ ph \in Nat /\ SpreadIs(pl, ph, st, ml, mh, pg)
                    BY <1>1, <1>2
                <5> QED BY <5>1, PageOfMessage
            <4> QED BY <1>14, <4>1
        <3>5. st[k] \in Nat /\ st[k + 1] \in Nat /\ st[k] < st[k + 1]
            BY <1>1
        <3>6. PageHolds(mqPage[ord[k]], st[k], st[k + 1], pos2, msg2)
            BY <3>3, <3>4, <3>5, HoldsAgree
        <3> QED BY <3>2, <3>6
    <2> QED BY <2>1, <2>2
<1>20. QueueIs(pl, ph, ord, st2, ml, mh + 1, pg2, pos2, msg2, tot2)'
    BY <1>10, <1>11, <1>12, <1>18, <1>19 DEF QueueIs
<1>21. QueueIs(pl, ph, ord, st2, ml, mh + 1, pg2, pos2, [msg EXCEPT ![mh] = m], tot2)'
    BY <1>20 DEF msg2
<1> QED BY <1>21

\* mq_push to a page allocated for it.
LEMMA PushedNewPage ==
    ASSUME NEW pl, NEW ph, NEW ord, NEW st, NEW ml, NEW mh, NEW pg, NEW pos, NEW msg, NEW tot,
           QueueIs(pl, ph, ord, st, ml, mh, pg, pos, msg, tot),
           NEW m \in PagedMessages, MqPush(m), ~FitsLastPage(m.size)
    PROVE  \E ord2, st2, pg2, pos2, tot2 :
              QueueIs(pl, ph + 1, ord2, st2, ml, mh + 1, pg2, pos2, [msg EXCEPT ![mh] = m], tot2)'
<1>1. /\ pl \in Nat /\ ph \in Nat /\ pl <= ph /\ ord \in [Nat -> Nat]
      /\ ml \in Nat /\ mh \in Nat /\ ml <= mh /\ st \in [Nat -> Nat] /\ pg \in [Nat -> Nat]
      /\ st[pl] = ml /\ st[ph] = mh /\ ph - pl <= mh - ml
      /\ \A k \in pl .. ph - 1 : st[k] < st[k + 1]
      /\ MaxQueued \in Nat
    BY QueueTypes
<1>2. /\ ListIs(pl, ph, ord) /\ SpreadIs(pl, ph, st, ml, mh, pg) /\ TotalsAre(ml, mh, msg, tot)
      /\ pos \in [Nat -> Nat] /\ msg \in [Nat -> PagedMessages \cup {0}]
    BY DEF QueueIs
<1>3. PICK new : new = Min(PageAddr \ DOMAIN mqPage)
    OBVIOUS
<1>4. /\ mqPage' = [WithPage(new, m.size) EXCEPT ![new] = PageWritten(WithPage(new, m.size)[new], m)]
      /\ mqFirst' = (IF mqFirst = 0 THEN new ELSE mqFirst) /\ mqLast' = new
      /\ mqItems < MaxQueued
      /\ mqAverage' = AverageWith(m.size) /\ mqBytes' = mqBytes + m.size /\ mqItems' = mqItems + 1
    BY <1>3 DEF MqPush, Written
<1>5. mh - ml < MaxQueued
    BY <1>2, <1>4 DEF TotalsAre
<1>6. new \in PageAddr /\ new \notin DOMAIN mqPage /\ new \in Nat /\ new # 0
    <2>1. ph - pl < MaxQueued
        BY <1>1, <1>5
    <2>2. new \in PageAddr \ DOMAIN mqPage
        BY <1>2, <1>3, <2>1, FreeAddress
    <2> QED BY <1>1, <2>2 DEF PageAddr
<1>7. PICK fresh : fresh = EmptyPage(m.size)
    OBVIOUS
<1>8. /\ fresh \in MqPageType /\ m.size <= fresh.allocated
      /\ fresh.bytes = 0 /\ fresh.items = 0 /\ fresh.pop = 0 /\ fresh.push = 0
      /\ fresh.next = 0 /\ fresh.data = <<>>
    <2>1. mqAverage \in Nat /\ m.size \in Nat
        BY <1>2, MessageSize DEF TotalsAre
    <2> QED BY <1>7, <2>1, EmptyPageIs
<1>25. PICK ord2 : ord2 = [ord EXCEPT ![ph] = new]
    OBVIOUS
<1> DEFINE st2 == [st EXCEPT ![ph + 1] = mh + 1]
           pg2 == [pg EXCEPT ![mh] = ph]
           pos2 == [pos EXCEPT ![mh] = 0]
           msg2 == [msg EXCEPT ![mh] = m]
           tot2 == [tot EXCEPT ![mh + 1] = tot[mh] + m.size]
           page2 == PageWritten(fresh, m)
<1>9. SpreadIs(pl, ph + 1, st2, ml, mh + 1, pg2)
    BY <1>1, <1>2, <1>5, SpreadNewPage
<1>10. TotalsAre(ml, mh + 1, msg2, tot2)'
    BY <1>1, <1>2, <1>4, TotalsPushed
<1>11. pos2 \in [Nat -> Nat] /\ msg2 \in [Nat -> PagedMessages \cup {0}]
    BY <1>1, <1>2
<1>12. /\ st2[ph + 1] = mh + 1 /\ st2[ph] = mh
       /\ \A k \in pl .. ph - 1 : st2[k] = st[k] /\ st2[k + 1] = st[k + 1]
    BY <1>1
<1>13. \A i \in ml .. mh - 1 : pos2[i] = pos[i] /\ msg2[i] = msg[i]
    BY <1>1, <1>2
<1>14. PageHolds(page2, mh, mh + 1, pos2, msg2) /\ page2.next = 0
    <2>1. PageHolds(page2, mh, mh + 1, pos2, msg2)
        BY <1>1, <1>2, <1>8, HoldsFresh
    <2>2. page2.next = fresh.next
        BY <1>8, NextKept
    <2> QED BY <1>8, <2>1, <2>2
<1>15. ord2 \in [Nat -> Nat] /\ ord2[ph] = new /\ \A k \in pl .. ph - 1 : ord2[k] = ord[k]
    BY <1>1, <1>6, <1>25
<1> HIDE DEF st2, pg2, pos2, msg2, tot2, page2
<1>16. /\ DOMAIN mqPage = {ord[k] : k \in pl .. ph - 1}
       /\ mqLast = IF pl = ph THEN 0 ELSE ord[ph - 1]
       /\ mqFirst = IF pl = ph THEN 0 ELSE ord[pl]
       /\ \A k \in pl .. ph - 1 : ord[k] \in PageAddr
       /\ \A k, l \in pl .. ph - 1 : ord[k] = ord[l] => k = l
       /\ \A k \in pl .. ph - 1 : mqPage[ord[k]].next = IF k = ph - 1 THEN 0 ELSE ord[k + 1]
    BY <1>2 DEF ListIs
<1>17. \A k \in pl .. ph - 1 : ord[k] \in DOMAIN mqPage /\ ord[k] # new /\ ord[k] # 0
    <2>1. \A a \in PageAddr : a # 0
        BY <1>1 DEF PageAddr
    <2>2. \A k \in pl .. ph - 1 : ord[k] \in DOMAIN mqPage /\ ord[k] \in PageAddr
        BY <1>16
    <2> QED BY <1>6, <2>1, <2>2, Zenon
<1>18. /\ DOMAIN mqPage' = DOMAIN mqPage \cup {new}
       /\ mqPage'[new] = page2
       /\ \A a \in DOMAIN mqPage :
             mqPage'[a] = IF a = mqLast THEN [mqPage[a] EXCEPT !.next = new] ELSE mqPage[a]
       /\ mqPage' = [a \in DOMAIN mqPage \cup {new} |-> mqPage'[a]]
    <2> DEFINE with == WithPage(new, m.size)
               ChainedOn(a) == IF a = mqLast THEN [mqPage[a] EXCEPT !.next = new] ELSE mqPage[a]
    <2>1. /\ with = [a \in DOMAIN mqPage \cup {new} |-> with[a]] /\ with[new] = fresh
          /\ \A a \in DOMAIN mqPage : with[a] = ChainedOn(a)
        <3>1. with = Put([a \in DOMAIN mqPage |-> ChainedOn(a)], new, fresh)
            BY <1>7 DEF WithPage
        <3> HIDE DEF with, ChainedOn
        <3> QED BY <1>6, <3>1 DEF Put
    <2>2. mqPage' = [with EXCEPT ![new] = page2]
        BY <1>4, <2>1 DEF page2
    <2> HIDE DEF with
    <2>3. /\ DOMAIN mqPage' = DOMAIN mqPage \cup {new}
          /\ mqPage'[new] = page2
          /\ \A a \in DOMAIN mqPage : mqPage'[a] = with[a]
        BY <1>6, <2>1, <2>2
    <2>4. mqPage' = [a \in DOMAIN mqPage \cup {new} |-> mqPage'[a]]
        BY <2>1, <2>2
    <2> QED BY <2>1, <2>3, <2>4
<1>19. ASSUME NEW k \in pl .. ph - 1
       PROVE  /\ PageHolds(mqPage'[ord2[k]], st2[k], st2[k + 1], pos2, msg2)
              /\ mqPage'[ord2[k]].next = ord2[k + 1]
    <2>1. PageHolds(mqPage[ord[k]], st[k], st[k + 1], pos, msg)
        BY DEF QueueIs
    <2>2. \A i \in st[k] .. st[k + 1] - 1 : pos2[i] = pos[i] /\ msg2[i] = msg[i]
        <3>1. ASSUME NEW i \in st[k] .. st[k + 1] - 1 PROVE i \in ml .. mh - 1
            <4>1. pl \in Nat /\ ph \in Nat /\ SpreadIs(pl, ph, st, ml, mh, pg)
                BY <1>1, <1>2
            <4> QED BY <4>1, PageOfMessage
        <3> QED BY <1>13, <3>1
    <2>3. st[k] \in Nat /\ st[k + 1] \in Nat /\ st[k] < st[k + 1]
        BY <1>1
    <2>4. PICK page : page = mqPage[ord[k]]
        OBVIOUS
    <2>5. PageHolds(page, st[k], st[k + 1], pos2, msg2)
        BY <2>1, <2>2, <2>3, <2>4, HoldsAgree
    <2>6. /\ PageHolds([page EXCEPT !.next = new], st[k], st[k + 1], pos2, msg2)
          /\ [page EXCEPT !.next = new].next = new
        BY <1>6, <2>5, HoldsLinked
    <2>7. st2[k] = st[k] /\ st2[k + 1] = st[k + 1] /\ ord2[k] = ord[k] /\ ord[k] \in DOMAIN mqPage
        BY <1>12, <1>15, <1>17
    <2>8. CASE k = ph - 1
        <3>1. ord[k] = mqLast /\ k + 1 = ph
            BY <1>1, <1>16, <2>8
        <3>2. mqPage'[ord[k]] = [page EXCEPT !.next = new]
            BY <1>18, <2>4, <2>7, <3>1
        <3> QED BY <1>15, <2>6, <2>7, <3>1, <3>2
    <2>9. CASE k # ph - 1
        <3>1. k + 1 \in pl .. ph - 1 /\ ph - 1 \in pl .. ph - 1 /\ pl # ph
            BY <1>1, <2>9
        <3>2. ord[k] # mqLast
            BY <1>16, <2>9, <3>1
        <3>3. mqPage'[ord[k]] = page
            BY <1>18, <2>4, <2>7, <3>2
        <3>4. page.next = ord[k + 1] /\ ord2[k + 1] = ord[k + 1]
            BY <1>15, <1>16, <2>4, <2>9, <3>1
        <3> QED BY <2>5, <2>7, <3>3, <3>4
    <2> QED BY <2>8, <2>9
<1>26. PICK ph2 : ph2 = ph + 1
    OBVIOUS
<1>27. ph2 \in Nat /\ ph2 - 1 = ph /\ pl <= ph2 /\ pl # ph2
    BY <1>1, <1>26
<1>20. \A k \in pl .. ph2 - 1 : k \in pl .. ph - 1 \/ k = ph
    BY <1>1, <1>27
<1>21. ListIs(pl, ph2, ord2)'
    <2>1. \A k \in pl .. ph2 - 1 : ord2[k] \in PageAddr
        BY <1>6, <1>15, <1>16, <1>20
    <2>2. \A k, l \in pl .. ph2 - 1 : ord2[k] = ord2[l] => k = l
        BY <1>15, <1>16, <1>17, <1>20
    <2>3. {ord2[k] : k \in pl .. ph2 - 1} = {ord[k] : k \in pl .. ph - 1} \cup {new}
        <3>1. ph \in pl .. ph2 - 1 /\ \A k \in pl .. ph - 1 : k \in pl .. ph2 - 1
            BY <1>1, <1>27
        <3> QED BY <1>15, <1>20, <3>1
    <2>4. mqFirst' = ord2[pl] /\ mqLast' = ord2[ph2 - 1] /\ pl # ph2
        <3>1. CASE pl = ph
            BY <1>1, <1>4, <1>15, <1>16, <1>27, <3>1
        <3>2. CASE pl # ph
            <4>1. pl \in pl .. ph - 1
                BY <1>1, <3>2
            <4> QED BY <1>1, <1>4, <1>15, <1>16, <1>17, <1>27, <3>2, <4>1
        <3> QED BY <3>1, <3>2
    <2>5. \A k \in pl .. ph2 - 1 : mqPage'[ord2[k]].next = IF k = ph2 - 1 THEN 0 ELSE ord2[k + 1]
        <3>1. ph = ph2 - 1 /\ \A k \in pl .. ph - 1 : k # ph2 - 1
            BY <1>1, <1>27
        <3>2. \A k \in pl .. ph - 1 : mqPage'[ord2[k]].next = ord2[k + 1]
            BY <1>19
        <3>3. mqPage'[ord2[ph]].next = 0
            BY <1>14, <1>15, <1>18
        <3> QED BY <1>20, <3>1, <3>2, <3>3
    <2>6. ph2 \in Nat /\ pl <= ph2
        BY <1>27
    <2>7. /\ DOMAIN mqPage' = {ord2[k] : k \in pl .. ph2 - 1}
          /\ mqPage' = [a \in DOMAIN mqPage' |-> mqPage'[a]]
        BY <1>16, <1>18, <2>3
    <2>8. /\ mqFirst' = (IF pl = ph2 THEN 0 ELSE ord2[pl])
          /\ mqLast' = (IF pl = ph2 THEN 0 ELSE ord2[ph2 - 1])
        BY <2>4
    <2>9. ord2 \in [Nat -> Nat] /\ pl \in Nat
        BY <1>1, <1>15
    <2>10. PageAddr' = PageAddr
        BY DEF PageAddr
    <2> QED BY <2>1, <2>2, <2>5, <2>6, <2>7, <2>8, <2>9, <2>10 DEF ListIs
<1>22. \A k \in pl .. ph2 - 1 : PageHolds(mqPage'[ord2[k]], st2[k], st2[k + 1], pos2, msg2)
    <2>1. PageHolds(mqPage'[ord2[ph]], st2[ph], st2[ph + 1], pos2, msg2)
        BY <1>12, <1>14, <1>15, <1>18
    <2>2. \A k \in pl .. ph - 1 : PageHolds(mqPage'[ord2[k]], st2[k], st2[k + 1], pos2, msg2)
        BY <1>19
    <2> QED BY <1>20, <2>1, <2>2
<1>23. QueueIs(pl, ph2, ord2, st2, ml, mh + 1, pg2, pos2, msg2, tot2)'
    <2>1. SpreadIs(pl, ph2, st2, ml, mh + 1, pg2)'
        BY <1>9, <1>26
    <2>2. (\A k \in pl .. ph2 - 1 : PageHolds(mqPage[ord2[k]], st2[k], st2[k + 1], pos2, msg2))'
        BY <1>22
    <2> QED BY <1>10, <1>11, <1>21, <2>1, <2>2 DEF QueueIs
<1>24. QueueIs(pl, ph2, ord2, st2, ml, mh + 1, pg2, pos2, [msg EXCEPT ![mh] = m], tot2)'
    BY <1>23 DEF msg2
<1> QED BY <1>24, <1>26

\* The oldest message is the one mq_peek finds.
LEMMA OldestIs ==
    ASSUME NEW pl, NEW ph, NEW ord, NEW st, NEW ml, NEW mh, NEW pg, NEW pos, NEW msg, NEW tot,
           QueueIs(pl, ph, ord, st, ml, mh, pg, pos, msg, tot), mqItems # 0
    PROVE  /\ pl < ph /\ ml < mh /\ mqFirst = ord[pl] /\ mqFirst \in DOMAIN mqPage
           /\ PageHolds(mqPage[mqFirst], ml, st[pl + 1], pos, msg)
           /\ Oldest = msg[ml] /\ msg[ml] \in PagedMessages
<1>1. /\ pl \in Nat /\ ph \in Nat /\ pl <= ph /\ ml \in Nat /\ mh \in Nat /\ ml <= mh
      /\ st \in [Nat -> Nat] /\ st[pl] = ml /\ st[ph] = mh
      /\ \A k \in pl .. ph - 1 : st[k] < st[k + 1]
    BY QueueTypes
<1>2. ListIs(pl, ph, ord) /\ mqItems = mh - ml
    BY DEF QueueIs, TotalsAre
<1>3. ml < mh /\ pl < ph /\ pl \in pl .. ph - 1
    BY <1>1, <1>2
<1>4. mqFirst = ord[pl] /\ mqFirst \in DOMAIN mqPage
    BY <1>1, <1>2, <1>3 DEF ListIs
<1>5. PageHolds(mqPage[mqFirst], ml, st[pl + 1], pos, msg)
    BY <1>1, <1>3, <1>4 DEF QueueIs
<1>6. ml \in ml .. st[pl + 1] - 1
    BY <1>1, <1>3
<1>7. /\ pos[ml] = mqPage[mqFirst].pop /\ mqPage[mqFirst].data[pos[ml]] = msg[ml]
      /\ msg[ml] \in PagedMessages
    BY <1>5, <1>6 DEF PageHolds
<1> QED BY <1>3, <1>4, <1>5, <1>7 DEF Oldest

LEMMA TotalsPopped ==
    ASSUME NEW ml \in Nat, NEW mh \in Nat, ml < mh, NEW msg, NEW tot, TotalsAre(ml, mh, msg, tot),
           mqBytes' = mqBytes - msg[ml].size, mqItems' = mqItems - 1, mqAverage' = mqAverage
    PROVE  TotalsAre(ml + 1, mh, msg, tot)'
<1>1. /\ tot \in [Nat -> Nat] /\ mqItems = mh - ml /\ mqBytes = tot[mh] - tot[ml] /\ mqAverage \in Nat
      /\ \A i \in ml .. mh - 1 : msg[i] \in PagedMessages /\ tot[i + 1] = tot[i] + msg[i].size
    BY DEF TotalsAre
<1>2. ml \in ml .. mh - 1 /\ \A i \in ml + 1 .. mh - 1 : i \in ml .. mh - 1
    OBVIOUS
<1>3. PICK size : size = msg[ml].size
    OBVIOUS
<1>4. size \in Nat /\ tot[ml + 1] = tot[ml] + size
    BY <1>1, <1>2, <1>3, MessageSize
<1>5. mqItems' = mh - (ml + 1)
    BY <1>1
<1>6. mqBytes' = tot[mh] - tot[ml + 1]
    <2>1. tot[mh] \in Nat /\ tot[ml] \in Nat /\ mqBytes' = (tot[mh] - tot[ml]) - size
        BY <1>1, <1>3
    <2> QED BY <1>4, <2>1
<1>7. \A i \in ml + 1 .. mh - 1 : msg[i] \in PagedMessages /\ tot[i + 1] = tot[i] + msg[i].size
    BY <1>1, <1>2
<1> QED BY <1>1, <1>5, <1>6, <1>7 DEF TotalsAre

\* mq_pop from a page with another message.
LEMMA PoppedMessage ==
    ASSUME NEW pl, NEW ph, NEW ord, NEW st, NEW ml, NEW mh, NEW pg, NEW pos, NEW msg, NEW tot,
           QueueIs(pl, ph, ord, st, ml, mh, pg, pos, msg, tot), mqItems # 0,
           mqBytes' = mqBytes - Oldest.size, mqItems' = mqItems - 1, mqAverage' = mqAverage,
           Popped[mqFirst].items # 0, mqPage' = Popped, UNCHANGED <<mqFirst, mqLast>>
    PROVE  \E st2 : QueueIs(pl, ph, ord, st2, ml + 1, mh, pg, pos, msg, tot)'
<1>1. /\ pl \in Nat /\ ph \in Nat /\ pl <= ph /\ ord \in [Nat -> Nat]
      /\ ml \in Nat /\ mh \in Nat /\ ml <= mh /\ st \in [Nat -> Nat] /\ pg \in [Nat -> Nat]
      /\ st[pl] = ml /\ st[ph] = mh
      /\ \A k \in pl .. ph - 1 : st[k] < st[k + 1]
    BY QueueTypes
<1>2. /\ ListIs(pl, ph, ord) /\ SpreadIs(pl, ph, st, ml, mh, pg) /\ TotalsAre(ml, mh, msg, tot)
      /\ pos \in [Nat -> Nat] /\ msg \in [Nat -> PagedMessages \cup {0}]
    BY DEF QueueIs
<1>3. /\ pl < ph /\ ml < mh /\ mqFirst = ord[pl] /\ mqFirst \in DOMAIN mqPage
      /\ PageHolds(mqPage[mqFirst], ml, st[pl + 1], pos, msg)
      /\ Oldest = msg[ml] /\ msg[ml] \in PagedMessages
    BY OldestIs
<1>4. PICK page : page = mqPage[mqFirst]
    OBVIOUS
<1>5. PICK page2 : page2 = PagePopped(page, msg[ml])
    OBVIOUS
<1>6. mqPage' = [mqPage EXCEPT ![mqFirst] = page2] /\ page2.items # 0
    <2>1. Popped = [mqPage EXCEPT ![mqFirst] = page2]
        BY <1>3, <1>4, <1>5 DEF Popped
    <2>2. Popped[mqFirst] = page2
        BY <1>3, <2>1
    <2> QED BY <2>1, <2>2
<1>7. page \in MqPageType /\ page.items \in Nat /\ page.items = st[pl + 1] - ml
    BY <1>3, <1>4 DEF PageHolds, MqPageType
<1>8. page2.items = page.items - 1 /\ page2.next = page.next
    <2>1. page2.items = page.items - 1
        BY <1>5, <1>7 DEF PagePopped, MqPageType
    <2> QED BY <1>3, <1>5, <1>7, <2>1, NextKept
<1>9. st[pl + 1] \in Nat /\ ml + 1 < st[pl + 1]
    <2>1. pl \in pl .. ph - 1 /\ pl + 1 \in Nat
        BY <1>1, <1>3
    <2>2. st[pl + 1] \in Nat /\ ml < st[pl + 1]
        BY <1>1, <2>1
    <2> QED BY <1>1, <1>6, <1>7, <1>8, <2>2
<1>10. PageHolds(page2, ml + 1, st[pl + 1], pos, msg)
    BY <1>1, <1>2, <1>3, <1>4, <1>5, <1>9, HoldsPopped
<1>11. PICK st2 : st2 = [st EXCEPT ![pl] = ml + 1]
    OBVIOUS
<1>12. SpreadIs(pl, ph, st2, ml + 1, mh, pg)
    BY <1>1, <1>2, <1>3, <1>9, <1>11, SpreadPopped
<1>13. st2[pl] = ml + 1 /\ \A k \in pl .. ph : k # pl => st2[k] = st[k]
    BY <1>1, <1>11
<1>14. TotalsAre(ml + 1, mh, msg, tot)'
    BY <1>1, <1>2, <1>3, TotalsPopped
<1>15. /\ \A k \in pl .. ph - 1 : ord[k] \in DOMAIN mqPage
       /\ \A k \in pl .. ph - 1 : k # pl => ord[k] # mqFirst
    <2>1. pl \in pl .. ph - 1
        BY <1>1, <1>3
    <2> QED BY <1>2, <1>3, <2>1 DEF ListIs
<1>16. /\ DOMAIN mqPage' = DOMAIN mqPage
       /\ mqPage'[ord[pl]] = page2
       /\ \A k \in pl .. ph - 1 : k # pl => mqPage'[ord[k]] = mqPage[ord[k]]
       /\ mqPage' = [a \in DOMAIN mqPage |-> mqPage'[a]]
    BY <1>3, <1>6, <1>15
<1>17. ListIs(pl, ph, ord)'
    <2>1. \A k \in pl .. ph - 1 : mqPage'[ord[k]].next = mqPage[ord[k]].next
        BY <1>3, <1>4, <1>8, <1>16
    <2> QED BY <1>2, <1>16, <2>1 DEF ListIs
<1>18. ASSUME NEW k \in pl .. ph - 1
       PROVE  PageHolds(mqPage'[ord[k]], st2[k], st2[k + 1], pos, msg)
    <2>1. k \in pl .. ph /\ k + 1 \in pl .. ph /\ k + 1 # pl
        BY <1>1
    <2>2. CASE k = pl
        BY <1>10, <1>13, <1>16, <2>1, <2>2
    <2>3. CASE k # pl
        <3>1. PageHolds(mqPage[ord[k]], st[k], st[k + 1], pos, msg)
            BY DEF QueueIs
        <3> QED BY <1>13, <1>16, <2>1, <2>3, <3>1
    <2> QED BY <2>2, <2>3
<1>19. QueueIs(pl, ph, ord, st2, ml + 1, mh, pg, pos, msg, tot)'
    BY <1>2, <1>12, <1>14, <1>17, <1>18 DEF QueueIs
<1> QED BY <1>19

\* mq_pop of the last message of a page, which is freed.
LEMMA PoppedPage ==
    ASSUME NEW pl, NEW ph, NEW ord, NEW st, NEW ml, NEW mh, NEW pg, NEW pos, NEW msg, NEW tot,
           QueueIs(pl, ph, ord, st, ml, mh, pg, pos, msg, tot), mqItems # 0,
           mqBytes' = mqBytes - Oldest.size, mqItems' = mqItems - 1, mqAverage' = mqAverage,
           Popped[mqFirst].items = 0,
           mqPage' = [a \in DOMAIN mqPage \ {mqFirst} |-> mqPage[a]],
           mqFirst' = mqPage[mqFirst].next,
           mqLast' = IF mqFirst = mqLast THEN 0 ELSE mqLast
    PROVE  QueueIs(pl + 1, ph, ord, st, ml + 1, mh, pg, pos, msg, tot)'
<1>1. /\ pl \in Nat /\ ph \in Nat /\ pl <= ph /\ ord \in [Nat -> Nat]
      /\ ml \in Nat /\ mh \in Nat /\ ml <= mh /\ st \in [Nat -> Nat] /\ pg \in [Nat -> Nat]
      /\ st[pl] = ml /\ st[ph] = mh
    BY QueueTypes
<1>2. /\ ListIs(pl, ph, ord) /\ SpreadIs(pl, ph, st, ml, mh, pg) /\ TotalsAre(ml, mh, msg, tot)
      /\ pos \in [Nat -> Nat] /\ msg \in [Nat -> PagedMessages \cup {0}]
    BY DEF QueueIs
<1>3. /\ pl < ph /\ ml < mh /\ mqFirst = ord[pl] /\ mqFirst \in DOMAIN mqPage
      /\ PageHolds(mqPage[mqFirst], ml, st[pl + 1], pos, msg)
      /\ Oldest = msg[ml] /\ msg[ml] \in PagedMessages
    BY OldestIs
<1>4. PICK page : page = mqPage[mqFirst]
    OBVIOUS
<1>5. page \in MqPageType /\ page.items \in Nat /\ page.items = st[pl + 1] - ml
    BY <1>3, <1>4 DEF PageHolds, MqPageType
<1>6. page.items - 1 = 0
    <2>1. Popped[mqFirst] = PagePopped(page, msg[ml])
        BY <1>3, <1>4 DEF Popped
    <2>2. PagePopped(page, msg[ml]).items = page.items - 1
        BY <1>5 DEF PagePopped, MqPageType
    <2> QED BY <2>1, <2>2
<1>7. ml + 1 = st[pl + 1]
    <2>1. pl + 1 \in Nat
        BY <1>1
    <2>2. st[pl + 1] \in Nat
        BY <1>1, <2>1
    <2> QED BY <1>1, <1>5, <1>6, <2>2
<1>8. PICK pl2 : pl2 = pl + 1
    OBVIOUS
<1>9. pl2 \in Nat /\ pl2 <= ph /\ (pl2 = ph <=> pl = ph - 1)
    BY <1>1, <1>3, <1>8
<1>10. SpreadIs(pl2, ph, st, ml + 1, mh, pg)
    BY <1>1, <1>2, <1>3, <1>7, <1>8, SpreadPageGone
<1>11. TotalsAre(ml + 1, mh, msg, tot)'
    BY <1>1, <1>2, <1>3, TotalsPopped
<1>12. /\ DOMAIN mqPage = {ord[k] : k \in pl .. ph - 1}
       /\ mqLast = ord[ph - 1]
       /\ \A k \in pl .. ph - 1 : ord[k] \in PageAddr
       /\ \A k, l \in pl .. ph - 1 : ord[k] = ord[l] => k = l
       /\ \A k \in pl .. ph - 1 : mqPage[ord[k]].next = IF k = ph - 1 THEN 0 ELSE ord[k + 1]
    BY <1>1, <1>2, <1>3 DEF ListIs
<1>13. /\ \A k \in pl2 .. ph - 1 : k \in pl .. ph - 1 /\ k # pl
       /\ \A k \in pl .. ph - 1 : k = pl \/ k \in pl2 .. ph - 1
       /\ pl \in pl .. ph - 1 /\ ph - 1 \in pl .. ph - 1
    BY <1>1, <1>3, <1>8
<1>14. DOMAIN mqPage' = {ord[k] : k \in pl2 .. ph - 1}
    <2>1. DOMAIN mqPage' = {ord[k] : k \in pl .. ph - 1} \ {ord[pl]}
        BY <1>3, <1>12
    <2>2. ASSUME NEW k \in pl2 .. ph - 1 PROVE ord[k] \in {ord[l] : l \in pl .. ph - 1} \ {ord[pl]}
        <3>1. k \in pl .. ph - 1 /\ k # pl
            BY <1>13
        <3> QED BY <1>12, <1>13, <3>1
    <2>3. ASSUME NEW k \in pl .. ph - 1, ord[k] # ord[pl] PROVE ord[k] \in {ord[l] : l \in pl2 .. ph - 1}
        BY <1>13, <2>3
    <2> QED BY <2>1, <2>2, <2>3
<1>15. \A k \in pl2 .. ph - 1 : mqPage'[ord[k]] = mqPage[ord[k]]
    BY <1>3, <1>12, <1>13
<1>16. mqFirst' = IF pl2 = ph THEN 0 ELSE ord[pl2]
    BY <1>3, <1>8, <1>9, <1>12, <1>13
<1>17. mqLast' = IF pl2 = ph THEN 0 ELSE ord[ph - 1]
    BY <1>3, <1>9, <1>12, <1>13
<1>18. ListIs(pl2, ph, ord)'
    <2>1. \A k \in pl2 .. ph - 1 : ord[k] \in PageAddr
        BY <1>12, <1>13
    <2>2. \A k, l \in pl2 .. ph - 1 : ord[k] = ord[l] => k = l
        BY <1>12, <1>13
    <2>3. \A k \in pl2 .. ph - 1 : mqPage'[ord[k]].next = IF k = ph - 1 THEN 0 ELSE ord[k + 1]
        BY <1>12, <1>13, <1>15
    <2>4. mqPage' = [a \in DOMAIN mqPage' |-> mqPage'[a]]
        OBVIOUS
    <2>5. PageAddr' = PageAddr
        BY DEF PageAddr
    <2>6. ph \in Nat /\ ord \in [Nat -> Nat]
        BY <1>1
    <2> QED BY <1>9, <1>14, <1>16, <1>17, <2>1, <2>2, <2>3, <2>4, <2>5, <2>6 DEF ListIs
<1>19. \A k \in pl2 .. ph - 1 : PageHolds(mqPage'[ord[k]], st[k], st[k + 1], pos, msg)
    BY <1>13, <1>15 DEF QueueIs
<1>20. QueueIs(pl2, ph, ord, st, ml + 1, mh, pg, pos, msg, tot)'
    <2>1. SpreadIs(pl2, ph, st, ml + 1, mh, pg)'
        BY <1>10
    <2>2. (\A k \in pl2 .. ph - 1 : PageHolds(mqPage[ord[k]], st[k], st[k + 1], pos, msg))'
        BY <1>19
    <2> QED BY <1>2, <1>11, <1>18, <2>1, <2>2 DEF QueueIs
<1> QED BY <1>8, <1>20

-----------------------------------------------------------------------------
(* The queue is a FIFO queue *)

LEMMA KeepsQueued == \A q : Keeps(q) => q = Queued
<1> SUFFICES ASSUME NEW q, Keeps(q) PROVE q = Queued
    OBVIOUS
<1>1. PICK pl, ph, ord, st, ml, mh, pg, pos, msg, tot :
         /\ QueueIs(pl, ph, ord, st, ml, mh, pg, pos, msg, tot)
         /\ q = [n \in 1 .. mh - ml |-> msg[ml + n - 1]]
    BY DEF Keeps
<1>2. Queued = [n \in 1 .. mh - ml |-> msg[ml + n - 1]]
    BY <1>1, QueuedIs
<1> QED BY <1>1, <1>2

LEMMA KeepsQueuedNext == (\A q : Keeps(q) => q = Queued)'
BY KeepsQueued, PTL

LEMMA KeepsMessages ==
    ASSUME NEW q, Keeps(q)
    PROVE  /\ q \in Seq(PagedMessages) /\ Len(q) = mqItems /\ mqItems \in Nat
           /\ mqItems # 0 => q # <<>> /\ Head(q) = Oldest
           /\ mqItems = 0 => q = <<>>
<1>1. PICK pl, ph, ord, st, ml, mh, pg, pos, msg, tot :
         /\ QueueIs(pl, ph, ord, st, ml, mh, pg, pos, msg, tot)
         /\ q = [n \in 1 .. mh - ml |-> msg[ml + n - 1]]
    BY DEF Keeps
<1>2. ml \in Nat /\ mh \in Nat /\ ml <= mh
    BY <1>1, QueueTypes
<1>3. mqItems = mh - ml /\ \A i \in ml .. mh - 1 : msg[i] \in PagedMessages
    BY <1>1 DEF QueueIs, TotalsAre
<1>4. \A n \in 1 .. mh - ml : ml + n - 1 \in ml .. mh - 1
    BY <1>2
<1>5. PICK len \in Nat : len = mh - ml
    BY <1>2
<1>6. \A n \in 1 .. len : msg[ml + n - 1] \in PagedMessages
    BY <1>3, <1>4, <1>5
<1>7. q \in Seq(PagedMessages) /\ Len(q) = len
    BY <1>1, <1>5, <1>6
<1>8. ASSUME mqItems # 0 PROVE q # <<>> /\ Head(q) = Oldest
    <2>1. Oldest = msg[ml]
        BY <1>1, <1>8, OldestIs
    <2>2. 1 \in 1 .. mh - ml /\ ml + 1 - 1 = ml
        BY <1>2, <1>3, <1>8
    <2>3. q[1] = msg[ml]
        BY <1>1, <2>2
    <2> QED BY <1>3, <1>5, <1>7, <1>8, <2>1, <2>3
<1>9. mqItems = 0 => q = <<>>
    BY <1>3, <1>5, <1>7
<1> QED BY <1>3, <1>5, <1>7, <1>8, <1>9

LEMMA PushKeeps ==
    ASSUME NEW q, Keeps(q), NEW m \in PagedMessages, MqPush(m)
    PROVE  \A q2 : q2 = Append(q, m) => Keeps(q2)'
<1>1. PICK pl, ph, ord, st, ml, mh, pg, pos, msg, tot :
         /\ QueueIs(pl, ph, ord, st, ml, mh, pg, pos, msg, tot)
         /\ q = [n \in 1 .. mh - ml |-> msg[ml + n - 1]]
    BY DEF Keeps
<1>2. ml \in Nat /\ mh \in Nat /\ ml <= mh
    BY <1>1, QueueTypes
<1>3. PICK msg2 : msg2 = [msg EXCEPT ![mh] = m]
    OBVIOUS
<1>4. \E ph2, ord2, st2, pg2, pos2, tot2 :
         QueueIs(pl, ph2, ord2, st2, ml, mh + 1, pg2, pos2, msg2, tot2)'
    <2>1. CASE FitsLastPage(m.size)
        BY <1>1, <1>3, <2>1, PushedSamePage
    <2>2. CASE ~FitsLastPage(m.size)
        BY <1>1, <1>3, <2>2, PushedNewPage
    <2> QED BY <2>1, <2>2
<1>8. PICK q2 : q2 = Append(q, m)
    OBVIOUS
<1>5. PICK mh2 : mh2 = mh + 1
    OBVIOUS
<1>6. q2 = [n \in 1 .. mh2 - ml |-> msg2[ml + n - 1]]
    <2>1. msg \in [Nat -> PagedMessages \cup {0}]
        BY <1>1 DEF QueueIs
    <2>2. PICK len \in Nat : len = mh - ml
        BY <1>2
    <2>3. mh2 - ml = len + 1
        BY <1>2, <1>5, <2>2
    <2>4. q \in Seq(PagedMessages) /\ Len(q) = len /\ \A n \in 1 .. len : q[n] = msg[ml + n - 1]
        <3>1. q \in Seq(PagedMessages)
            BY KeepsMessages
        <3>2. q = [n \in 1 .. len |-> msg[ml + n - 1]]
            BY <1>1, <2>2
        <3>3. DOMAIN q = 1 .. len
            BY <3>2
        <3>4. Len(q) \in Nat /\ DOMAIN q = 1 .. Len(q)
            BY <3>1
        <3>5. Len(q) = len
            BY <2>2, <3>3, <3>4
        <3> QED BY <3>1, <3>2, <3>5
    <2>5. /\ q2 \in Seq(PagedMessages) /\ Len(q2) = len + 1 /\ q2[len + 1] = m
          /\ \A n \in 1 .. len : q2[n] = q[n]
        BY <1>8, <2>2, <2>4
    <2>6. \A n \in 1 .. len + 1 : q2[n] = msg2[ml + n - 1]
        <3> SUFFICES ASSUME NEW n \in 1 .. len + 1 PROVE q2[n] = msg2[ml + n - 1]
            OBVIOUS
        <3>1. CASE n = len + 1
            <4>1. ml + n - 1 = mh
                BY <1>2, <2>2, <3>1
            <4>2. msg2[mh] = m
                BY <1>2, <1>3, <2>1
            <4> QED BY <2>5, <3>1, <4>1, <4>2
        <3>2. CASE n \in 1 .. len
            <4>1. ml + n - 1 \in Nat /\ ml + n - 1 # mh
                BY <1>2, <2>2, <3>2
            <4>2. msg2[ml + n - 1] = msg[ml + n - 1]
                BY <1>2, <1>3, <2>1, <4>1
            <4> QED BY <2>4, <2>5, <3>2, <4>2
        <3> QED BY <2>2, <3>1, <3>2
    <2>7. q2 = [n \in 1 .. len + 1 |-> q2[n]]
        BY <2>2, <2>5
    <2> QED BY <2>3, <2>6, <2>7
<1>7. \E ph2, ord2, st2, pg2, pos2, tot2 :
         QueueIs(pl, ph2, ord2, st2, ml, mh2, pg2, pos2, msg2, tot2)'
    BY <1>4, <1>5
<1>9. Keeps(q2)'
    BY <1>6, <1>7 DEF Keeps
<1> QED BY <1>8, <1>9

\* What mq_pop leaves of the queue when it returns a message.
LEMMA PopKeeps ==
    ASSUME NEW q, Keeps(q), mqItems # 0,
           mqBytes' = mqBytes - Oldest.size, mqItems' = mqItems - 1, mqAverage' = mqAverage,
           IF Popped[mqFirst].items # 0
           THEN mqPage' = Popped /\ UNCHANGED <<mqFirst, mqLast>>
           ELSE /\ mqPage' = [a \in DOMAIN mqPage \ {mqFirst} |-> mqPage[a]]
                /\ mqFirst' = mqPage[mqFirst].next
                /\ mqLast' = IF mqFirst = mqLast THEN 0 ELSE mqLast
    PROVE  Keeps(Tail(q))'
<1>1. PICK pl, ph, ord, st, ml, mh, pg, pos, msg, tot :
         /\ QueueIs(pl, ph, ord, st, ml, mh, pg, pos, msg, tot)
         /\ q = [n \in 1 .. mh - ml |-> msg[ml + n - 1]]
    BY DEF Keeps
<1>2. ml \in Nat /\ mh \in Nat /\ ml < mh
    BY <1>1, QueueTypes, OldestIs
<1>3. PICK ml2 : ml2 = ml + 1
    OBVIOUS
<1>4. \E pl2, st2 : QueueIs(pl2, ph, ord, st2, ml2, mh, pg, pos, msg, tot)'
    <2>1. CASE Popped[mqFirst].items # 0
        BY <1>1, <1>3, <2>1, PoppedMessage
    <2>2. CASE Popped[mqFirst].items = 0
        BY <1>1, <1>3, <2>2, PoppedPage
    <2> QED BY <2>1, <2>2
<1>5. PICK q2 : q2 = Tail(q)
    OBVIOUS
<1>6. q2 = [n \in 1 .. mh - ml2 |-> msg[ml2 + n - 1]]
    <2>1. PICK len \in Nat : len = mh - ml2
        BY <1>2, <1>3
    <2>2. q \in Seq(PagedMessages) /\ Len(q) = len + 1
        <3>1. q \in Seq(PagedMessages) /\ Len(q) = mqItems
            BY KeepsMessages
        <3>2. mqItems = mh - ml
            BY <1>1 DEF QueueIs, TotalsAre
        <3> QED BY <1>2, <1>3, <2>1, <3>1, <3>2
    <2>3. q2 \in Seq(PagedMessages) /\ Len(q2) = len /\ \A n \in 1 .. len : q2[n] = q[n + 1]
        BY <1>5, <2>1, <2>2
    <2>4. \A n \in 1 .. len : q[n + 1] = msg[ml2 + n - 1]
        <3> SUFFICES ASSUME NEW n \in 1 .. len PROVE q[n + 1] = msg[ml2 + n - 1]
            OBVIOUS
        <3>1. n + 1 \in 1 .. mh - ml /\ ml + (n + 1) - 1 = ml2 + n - 1
            BY <1>2, <1>3, <2>1
        <3>2. q[n + 1] = msg[ml + (n + 1) - 1]
            BY <1>1, <3>1
        <3> QED BY <3>1, <3>2
    <2>5. q2 = [n \in 1 .. len |-> q2[n]]
        BY <2>1, <2>3
    <2> QED BY <2>1, <2>3, <2>4, <2>5
<1>7. Keeps(q2)'
    BY <1>4, <1>6 DEF Keeps
<1> QED BY <1>5, <1>7

LEMMA KeepsNext ==
    ASSUME NEW pl, NEW ph, NEW ord, NEW st, NEW ml, NEW mh, NEW pg, NEW pos, NEW msg, NEW tot,
           QueueIs(pl, ph, ord, st, ml, mh, pg, pos, msg, tot)',
           NEW q, q = [n \in 1 .. mh - ml |-> msg[ml + n - 1]]
    PROVE  Keeps(q)'
BY DEF Keeps

LEMMA StillKeeps ==
    ASSUME NEW q, Keeps(q), UNCHANGED <<mqFirst, mqLast, mqPage, mqBytes, mqItems, mqAverage>>
    PROVE  Keeps(q)'
<1>1. PICK pl, ph, ord, st, ml, mh, pg, pos, msg, tot :
         /\ QueueIs(pl, ph, ord, st, ml, mh, pg, pos, msg, tot)
         /\ q = [n \in 1 .. mh - ml |-> msg[ml + n - 1]]
    BY DEF Keeps
<1>2. ListIs(pl, ph, ord)'
    BY <1>1 DEF QueueIs, ListIs
<1>3. TotalsAre(ml, mh, msg, tot)'
    BY <1>1 DEF QueueIs, TotalsAre
<1>4. QueueIs(pl, ph, ord, st, ml, mh, pg, pos, msg, tot)'
    BY <1>1, <1>2, <1>3 DEF QueueIs
<1> QED BY <1>1, <1>4, KeepsNext

LEMMA NewQueueNext ==
    (mqFirst = 0 /\ mqLast = 0 /\ mqPage = <<>> /\ mqBytes = 0 /\ mqItems = 0 /\ mqAverage = 0
        => Keeps(<<>>))'
<1>1. mqFirst = 0 /\ mqLast = 0 /\ mqPage = <<>> /\ mqBytes = 0 /\ mqItems = 0 /\ mqAverage = 0
        => Keeps(<<>>)
    BY NewQueue
<1> QED BY <1>1, PTL

\* A step of the queue keeps messages that a step of the FIFO queue leaves.
LEMMA QueueStep ==
    ASSUME NEW q, Keeps(q), q = Queued, PagedQueueStep
    PROVE  \E r : Keeps(r)' /\ r = Queued' /\ TheFifo!FifoNext
<1>1. q \in Seq(PagedMessages) /\ mqItems \in Nat
      /\ (mqItems # 0 => q # <<>> /\ Head(q) = Oldest) /\ (mqItems = 0 => q = <<>>)
    BY KeepsMessages
<1>2. \A r : Keeps(r)' => r = Queued'
    BY KeepsQueuedNext
<1>3. ASSUME NEW m \in PagedMessages, MqPush(m)
      PROVE  \E r : Keeps(r)' /\ r = Queued' /\ TheFifo!FifoNext
    <2>1. PICK r : r = Append(q, m)
        OBVIOUS
    <2>2. Keeps(r)'
        BY <1>3, <2>1, PushKeeps
    <2>3. r = Queued'
        BY <1>2, <2>2
    <2>4. mqAnswer' = [code |-> "0"]
        BY <1>3 DEF MqPush
    <2>5. TheFifo!FifoPush(m)
        BY <2>1, <2>3, <2>4 DEF TheFifo!FifoPush
    <2> QED BY <2>2, <2>3, <2>5 DEF TheFifo!FifoNext
<1>4. ASSUME NEW size \in MsgBuffers, MqPop(size)
      PROVE  \E r : Keeps(r)' /\ r = Queued' /\ TheFifo!FifoNext
    <2>1. ASSUME UNCHANGED <<mqFirst, mqLast, mqPage, mqBytes, mqItems, mqAverage>>
          PROVE  Keeps(q)' /\ q = Queued'
        <3>1. Keeps(q)'
            BY <2>1, StillKeeps
        <3> QED BY <1>2, <3>1
    <2>2. CASE /\ mqItems = 0 /\ mqAnswer' = [code |-> "ENOMSG"]
               /\ UNCHANGED <<mqFirst, mqLast, mqPage, mqBytes, mqItems, mqAverage>>
        <3>1. Keeps(q)' /\ q = Queued'
            BY <2>1, <2>2
        <3>2. TheFifo!FifoRead(size)
            BY <1>1, <2>2, <3>1 DEF TheFifo!FifoRead
        <3> QED BY <3>1, <3>2 DEF TheFifo!FifoNext
    <2>3. CASE /\ mqItems # 0 /\ Oldest.size > size /\ mqAnswer' = [code |-> "EMSGSIZE"]
               /\ UNCHANGED <<mqFirst, mqLast, mqPage, mqBytes, mqItems, mqAverage>>
        <3>1. Keeps(q)' /\ q = Queued'
            BY <2>1, <2>3
        <3>2. TheFifo!FifoRead(size)
            BY <1>1, <2>3, <3>1 DEF TheFifo!FifoRead
        <3> QED BY <3>1, <3>2 DEF TheFifo!FifoNext
    <2>4. CASE /\ mqItems # 0 /\ Oldest.size <= size
               /\ mqAnswer' = [code |-> "0", msg |-> Oldest]
               /\ mqBytes' = mqBytes - Oldest.size /\ mqItems' = mqItems - 1 /\ UNCHANGED mqAverage
               /\ IF Popped[mqFirst].items # 0
                  THEN mqPage' = Popped /\ UNCHANGED <<mqFirst, mqLast>>
                  ELSE /\ mqPage' = [a \in DOMAIN mqPage \ {mqFirst} |-> mqPage[a]]
                       /\ mqFirst' = mqPage[mqFirst].next
                       /\ mqLast' = IF mqFirst = mqLast THEN 0 ELSE mqLast
        <3>1. PICK r : r = Tail(q)
            OBVIOUS
        <3>2. Keeps(r)'
            BY <2>4, <3>1, PopKeeps
        <3>3. r = Queued'
            BY <1>2, <3>2
        <3>4. TheFifo!FifoRead(size)
            BY <1>1, <2>4, <3>1, <3>3 DEF TheFifo!FifoRead
        <3> QED BY <3>2, <3>3, <3>4 DEF TheFifo!FifoNext
    <2> QED BY <1>4, <2>2, <2>3, <2>4 DEF MqPop
<1>5. ASSUME MqFree
      PROVE  \E r : Keeps(r)' /\ r = Queued' /\ TheFifo!FifoNext
    <2>1. PICK r : r = <<>>
        OBVIOUS
    <2>2. Keeps(r)'
        BY <1>5, <2>1, NewQueueNext DEF MqFree
    <2>3. r = Queued'
        BY <1>2, <2>2
    <2>4. TheFifo!FifoClear
        BY <1>5, <2>1, <2>3 DEF MqFree, TheFifo!FifoClear
    <2> QED BY <2>2, <2>3, <2>4 DEF TheFifo!FifoNext
<1>6. ASSUME NEW size \in MsgSizes, MqPush([size |-> size, mark |-> mqItems % 2])
      PROVE  \E r : Keeps(r)' /\ r = Queued' /\ TheFifo!FifoNext
    <2>1. PICK m : m = [size |-> size, mark |-> mqItems % 2]
        OBVIOUS
    <2>2. mqItems % 2 \in {0, 1}
        BY <1>1
    <2>3. m \in PagedMessages
        BY <2>1, <2>2 DEF PagedMessages
    <2>4. MqPush(m)
        BY <1>6, <2>1
    <2> QED BY <1>3, <2>3, <2>4
<1> QED BY <1>4, <1>5, <1>6 DEF PagedQueueStep

LEMMA PagedStep ==
    PagedInv /\ [TablesNext]_tableVars => PagedInv' /\ [TheFifo!FifoNext]_<<Queued, mqAnswer>>
<1> SUFFICES ASSUME PagedInv, [TablesNext]_tableVars
             PROVE  PagedInv' /\ [TheFifo!FifoNext]_<<Queued, mqAnswer>>
    OBVIOUS
<1>1. PICK q : Keeps(q)
    BY DEF PagedInv
<1>2. q = Queued
    BY <1>1, KeepsQueued
<1>3. CASE UNCHANGED pagedVars
    <2>1. UNCHANGED <<mqFirst, mqLast, mqPage, mqBytes, mqItems, mqAverage>> /\ mqAnswer' = mqAnswer
        BY <1>3 DEF pagedVars
    <2>2. Keeps(q)'
        BY <1>1, <2>1, StillKeeps
    <2>3. q = Queued'
        BY <2>2, KeepsQueuedNext
    <2>4. PagedInv'
        BY <2>2 DEF PagedInv
    <2> QED BY <1>2, <2>1, <2>3, <2>4
<1>4. CASE PagedQueueStep
    <2>1. PICK r : Keeps(r)' /\ r = Queued' /\ TheFifo!FifoNext
        BY <1>1, <1>2, <1>4, QueueStep
    <2>2. PagedInv'
        BY <2>1 DEF PagedInv
    <2> QED BY <2>1, <2>2
<1> QED BY <1>3, <1>4 DEF TablesNext, tableVars

LEMMA PagedInit == TablesInit => PagedInv /\ Queued = <<>> /\ mqAnswer = [code |-> "none"]
<1> SUFFICES ASSUME TablesInit PROVE PagedInv /\ Queued = <<>> /\ mqAnswer = [code |-> "none"]
    OBVIOUS
<1>1. /\ mqFirst = 0 /\ mqLast = 0 /\ mqPage = <<>> /\ mqBytes = 0 /\ mqItems = 0 /\ mqAverage = 0
      /\ mqAnswer = [code |-> "none"]
    BY DEF TablesInit, PagedQueueInit
<1>2. Keeps(<<>>)
    BY <1>1, NewQueue
<1>3. <<>> = Queued
    BY <1>2, KeepsQueued
<1>4. PagedInv
    BY <1>2 DEF PagedInv
<1> QED BY <1>1, <1>3, <1>4

LEMMA PagedAlways == TablesSpec => []PagedInv
BY PagedInit, PagedStep, PTL DEF TablesSpec, tableVars

\* The pages of a message queue implement a FIFO queue, for every size of
\* messages, buffers and pages: each mq_push appends a message, each mq_pop
\* takes the oldest one or reports, and leaves the queue, when there is none
\* or the buffer is too small.
THEOREM QueuesAreFifo == TablesSpec => QueueIsFifo
<1>1. TablesInit => TheFifo!FifoInit
    BY PagedInit DEF TheFifo!FifoInit
<1> QED BY <1>1, PagedAlways, PagedStep, PTL
        DEF TablesSpec, tableVars, QueueIsFifo, TheFifo!FifoSpec

-----------------------------------------------------------------------------
(* What is accounted for *)

LEMMA PageAccounted ==
    ASSUME NEW page, NEW from \in Nat, NEW to \in Nat, from < to, NEW pos, NEW msg,
           PageHolds(page, from, to, pos, msg),
           Unread(page) = {pos[i] : i \in from .. to - 1}
    PROVE  /\ page.pop + page.bytes = page.push
           /\ page.push <= page.allocated
           /\ page.items = Cardinality(Unread(page))
           /\ page.pop \in Unread(page)
           /\ \A d \in Unread(page) : d + page.data[d].size \in Unread(page) \cup {page.push}
<1>1. /\ page.pop + page.bytes = page.push /\ page.push <= page.allocated
      /\ page.items = to - from /\ pos[from] = page.pop
    BY DEF PageHolds
<1>2. \A i \in from .. to - 1 : pos[i] \in Nat
    BY HoldsBounds
<1>3. \A i, j \in from .. to - 1 : pos[i] = pos[j] => i = j
    <2> SUFFICES ASSUME NEW i \in from .. to - 1, NEW j \in from .. to - 1, i # j PROVE pos[i] # pos[j]
        OBVIOUS
    <2>1. pos[i] < pos[j] \/ pos[j] < pos[i]
        BY DEF PageHolds
    <2> QED BY <1>2, <2>1
<1>4. Cardinality({pos[i] : i \in from .. to - 1}) = to - from
    <2>1. from <= to
        OBVIOUS
    <2> QED BY <1>3, <2>1, CountFrom
<1>5. page.pop \in Unread(page)
    <2>1. from \in from .. to - 1
        OBVIOUS
    <2> QED BY <1>1, <2>1
<1>6. ASSUME NEW d \in Unread(page)
      PROVE  d + page.data[d].size \in Unread(page) \cup {page.push}
    <2>1. PICK i \in from .. to - 1 : d = pos[i]
        OBVIOUS
    <2>2. page.data[d] = msg[i] /\ d + msg[i].size = IF i = to - 1 THEN page.push ELSE pos[i + 1]
        BY <2>1 DEF PageHolds
    <2>3. CASE i = to - 1
        BY <2>2, <2>3
    <2>4. CASE i # to - 1
        <3>1. i + 1 \in from .. to - 1
            BY <2>4
        <3> QED BY <2>2, <2>4, <3>1
    <2> QED BY <2>3, <2>4
<1>7. page.items = Cardinality(Unread(page))
    BY <1>1, <1>4, Zenon
<1> QED BY <1>1, <1>5, <1>6, <1>7

LEMMA PagedAccounts == PagedInv => PagesAccounted
<1> SUFFICES ASSUME PagedInv PROVE PagesAccounted
    OBVIOUS
<1>1. PICK q : Keeps(q)
    BY DEF PagedInv
<1>2. PICK pl, ph, ord, st, ml, mh, pg, pos, msg, tot :
         /\ QueueIs(pl, ph, ord, st, ml, mh, pg, pos, msg, tot)
         /\ q = [n \in 1 .. mh - ml |-> msg[ml + n - 1]]
    BY <1>1 DEF Keeps
<1>3. /\ pl \in Nat /\ ph \in Nat /\ pl <= ph /\ ml \in Nat /\ mh \in Nat /\ ml <= mh
      /\ st \in [Nat -> Nat] /\ \A k \in pl .. ph - 1 : st[k] < st[k + 1]
    BY <1>2, QueueTypes
<1>4. /\ PageChain = [n \in 1 .. ph - pl |-> ord[pl + n - 1]]
      /\ \A k \in pl .. ph - 1 :
            Unread(mqPage[ord[k]]) = {pos[i] : i \in st[k] .. st[k + 1] - 1}
      /\ Queued = q
    <2>1. QueueIs(pl, ph, ord, st, ml, mh, pg, pos, msg, tot)
        BY <1>2
    <2>2. /\ PageChain = [n \in 1 .. ph - pl |-> ord[pl + n - 1]]
          /\ \A k \in pl .. ph - 1 :
                Unread(mqPage[ord[k]]) = {pos[i] : i \in st[k] .. st[k + 1] - 1}
        BY <2>1, QueuedIs, SMTT(30)
    <2>3. Queued = q
        BY <1>1, KeepsQueued
    <2> QED BY <2>2, <2>3
<1>5. ListIs(pl, ph, ord) /\ TotalsAre(ml, mh, msg, tot)
    BY <1>2 DEF QueueIs
<1>6. PICK len \in Nat : len = ph - pl
    BY <1>3
<1>7. /\ PageChain = [n \in 1 .. len |-> ord[pl + n - 1]] /\ DOMAIN PageChain = 1 .. len
      /\ \A n \in 1 .. len : PageChain[n] = ord[pl + n - 1] /\ pl + n - 1 \in pl .. ph - 1
      /\ \A k \in pl .. ph - 1 : k - pl + 1 \in 1 .. len /\ pl + (k - pl + 1) - 1 = k
    <2>1. PageChain = [n \in 1 .. len |-> ord[pl + n - 1]]
        BY <1>4, <1>6
    <2>2. DOMAIN PageChain = 1 .. len /\ \A n \in 1 .. len : PageChain[n] = ord[pl + n - 1]
        BY <2>1
    <2>3. \A n \in 1 .. len : pl + n - 1 \in pl .. ph - 1
        BY <1>3, <1>6
    <2>4. \A k \in pl .. ph - 1 : k - pl + 1 \in 1 .. len /\ pl + (k - pl + 1) - 1 = k
        BY <1>3, <1>6
    <2> QED BY <2>1, <2>2, <2>3, <2>4
<1>8. DOMAIN mqPage = Range(PageChain)
    <2>1. DOMAIN mqPage = {ord[k] : k \in pl .. ph - 1}
        BY <1>5 DEF ListIs
    <2>2. \A k \in pl .. ph - 1 : ord[k] \in Range(PageChain)
        BY <1>7 DEF Range
    <2>3. \A a \in Range(PageChain) : a \in {ord[k] : k \in pl .. ph - 1}
        BY <1>7 DEF Range
    <2> QED BY <2>1, <2>2, <2>3
<1>9. mqLast = IF PageChain = <<>> THEN 0 ELSE Last(PageChain)
    <2>1. mqLast = IF pl = ph THEN 0 ELSE ord[ph - 1]
        BY <1>5 DEF ListIs
    <2>2. CASE len = 0
        <3>1. PageChain = <<>>
            BY <1>7, <2>2
        <3> QED BY <1>3, <1>6, <2>1, <2>2, <3>1
    <2>3. CASE len # 0
        <3>1. len \in 1 .. len /\ pl + len - 1 = ph - 1 /\ pl # ph
            BY <1>3, <1>6, <2>3
        <3>2. Len(PageChain) = len
            BY <1>6, <1>7
        <3>3. Last(PageChain) = ord[ph - 1]
            BY <1>7, <3>1, <3>2 DEF Last
        <3>4. PageChain # <<>>
            BY <3>1, <3>2
        <3> QED BY <2>1, <3>1, <3>3, <3>4
    <2> QED BY <2>2, <2>3
<1>10. mqItems = Len(Queued) /\ q \in Seq(PagedMessages)
    BY <1>1, <1>4, KeepsMessages
<1>11. mqBytes = TotalSize(Queued)
    BY <1>2, <1>3, <1>4, <1>5, <1>10, TotalIs
<1>12. ASSUME NEW n \in DOMAIN PageChain
       PROVE  LET page == mqPage[PageChain[n]] IN
              /\ page.pop + page.bytes = page.push
              /\ page.push <= page.allocated
              /\ page.items = Cardinality(Unread(page))
              /\ page.pop \in Unread(page)
              /\ \A d \in Unread(page) : d + page.data[d].size \in Unread(page) \cup {page.push}
    <2>1. PICK k \in pl .. ph - 1 : PageChain[n] = ord[k]
        BY <1>7
    <2>2. PICK page : page = mqPage[ord[k]]
        OBVIOUS
    <2>3. PageHolds(page, st[k], st[k + 1], pos, msg)
        BY <1>2, <2>2 DEF QueueIs
    <2>4. st[k] \in Nat /\ st[k + 1] \in Nat /\ st[k] < st[k + 1]
        BY <1>3
    <2>5. Unread(page) = {pos[i] : i \in st[k] .. st[k + 1] - 1}
        BY <1>4, <2>2
    <2>6. /\ page.pop + page.bytes = page.push
          /\ page.push <= page.allocated
          /\ page.items = Cardinality(Unread(page))
          /\ page.pop \in Unread(page)
          /\ \A d \in Unread(page) : d + page.data[d].size \in Unread(page) \cup {page.push}
        BY <2>3, <2>4, <2>5, PageAccounted
    <2> QED BY <2>1, <2>2, <2>6
<1> QED BY <1>8, <1>9, <1>10, <1>11, <1>12 DEF PagesAccounted

\* No message is written behind the end of its page, no page and no byte is
\* lost: counters, positions and the list of pages agree with the messages.
THEOREM QueuePagesAccounted == TablesSpec => []PagesAccounted
BY PagedAlways, PagedAccounts, PTL

=============================================================================
