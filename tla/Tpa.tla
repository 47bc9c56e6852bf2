--------------------------------- MODULE Tpa ---------------------------------
(****************************************************************************)
(* Thin provisioned array (src/kernel/tpa.h): the table behind mutexes,     *)
(* condition variables and message queues.  Entries live in pages, the      *)
(* pages in a doubly linked list sorted by their first index.  Addresses    *)
(* are given back to the allocator and handed out again, so a pointer to a  *)
(* page can outlive the page.                                               *)
(****************************************************************************)
EXTENDS Integers, FiniteSets, FiniteSetsExt, Sequences, SequencesExt

CONSTANTS
    EntriesPerPage,  \* entries_per_page()
    TpaPages,        \* bound: pages the indices used by callers fall into
    TpaValues        \* entries

ASSUME TpaAssumption ==
    EntriesPerPage \in Nat \ {0} /\ TpaPages \in Nat \ {0} /\ 0 \notin TpaValues

VARIABLES
    tpaFirst,   \* first
    tpaPage,    \* the pages by address; addresses not in the domain are free
    tpaTable,   \* what the callers have stored: the reference
    tpaWild     \* a pointer to a page that was given back has been written to

tpaVars == <<tpaFirst, tpaPage, tpaTable, tpaWild>>

NoPage == 0

TpaAddr == 1 .. TpaPages

TpaIndex == 0 .. TpaPages * EntriesPerPage - 1

Slot == 0 .. EntriesPerPage - 1

\* create(): no pages.  An entry whose marker is 0 has the value 0 here.
TpaInit ==
    /\ tpaFirst = NoPage
    /\ tpaPage = <<>>
    /\ tpaTable = <<>>
    /\ tpaWild = FALSE

-----------------------------------------------------------------------------
(* Walking the list *)

\* The pages in the order of the next pointers.
TpaChain ==
    LET at[n \in 0 .. TpaPages] ==
            IF n = 0 THEN tpaFirst
            ELSE IF at[n - 1] \in DOMAIN tpaPage THEN tpaPage[at[n - 1]].next
            ELSE NoPage
        len == Min({n \in 0 .. TpaPages : at[n] = NoPage} \cup {TpaPages})
    IN  [n \in 1 .. len |-> at[n - 1]]

StartIdx(n) == tpaPage[TpaChain[n]].start

\* The first of the positions where a loop over the list stops, 0 if it
\* falls off the end.
FirstPos(stops) == IF stops = {} THEN 0 ELSE Min(stops)

Covers(n, idx) == StartIdx(n) <= idx /\ idx < StartIdx(n) + EntriesPerPage

\* get_page_for_idx: stops at the first page behind the index.
GetPageForIdx(idx) ==
    LET n == FirstPos({k \in DOMAIN TpaChain : Covers(k, idx) \/ StartIdx(k) > idx})
    IN  IF n # 0 /\ Covers(n, idx) THEN TpaChain[n] ELSE NoPage

TpaGet(idx) ==
    LET page == GetPageForIdx(idx)
    IN  IF page = NoPage THEN 0 ELSE tpaPage[page].slots[idx - tpaPage[page].start]

TpaLength ==
    IF TpaChain = <<>> THEN -1 ELSE StartIdx(Len(TpaChain)) + EntriesPerPage

TpaEntries ==
    Cardinality({k \in (DOMAIN TpaChain) \X Slot : tpaPage[TpaChain[k[1]]].slots[k[2]] # 0})

\* Mutant: the page that ends at cur is skipped too, and then cur lies in
\* front of the first page looked at.
SeekStrict(cur) ==
    FirstPos({k \in DOMAIN TpaChain : StartIdx(k) + EntriesPerPage > cur})

\* The first loop of next().
SeekPage(cur) ==
    FirstPos({k \in DOMAIN TpaChain : StartIdx(k) + EntriesPerPage >= cur})

\* Where next(cur) starts in page k: in the first page at cur - start_idx,
\* which wraps around when the page starts behind cur and passes it over.
ScanFrom(cur, k) ==
    IF k > SeekPage(cur) THEN 0
    ELSE IF cur < StartIdx(k) THEN EntriesPerPage
    ELSE cur - StartIdx(k)

\* The entries the scan of next(cur) can come to.
Scanned(cur) ==
    {x \in (DOMAIN TpaChain) \X Slot :
        /\ SeekPage(cur) # 0
        /\ x[1] >= SeekPage(cur)
        /\ x[2] >= ScanFrom(cur, x[1])
        /\ tpaPage[TpaChain[x[1]]].slots[x[2]] # 0}

\* next(cur)
TpaNext(cur) ==
    LET found == {StartIdx(e[1]) + e[2] : e \in Scanned(cur)}
    IN  IF found = {} THEN 0 ELSE Min(found)

-----------------------------------------------------------------------------
(* Storing *)

\* Where a new page goes: behind the last of the leading pages with a smaller
\* start; the first page is looked at only when the loop has stopped.
InsertPos(start) ==
    IF TpaChain = <<>> THEN 0
    ELSE Max({k \in DOMAIN TpaChain : \A j \in 2 .. k : StartIdx(j) < start})

\* Mutant: the page behind the new one keeps its prev.
LinkedForwardOnly(new, start) ==
    LET n == InsertPos(start)
        cur == TpaChain[n]
        page == [start |-> start, slots |-> [s \in Slot |-> 0],
                 next |-> IF n = 0 THEN NoPage
                          ELSE IF StartIdx(n) < start THEN tpaPage[cur].next ELSE cur,
                 prev |-> IF n = 0 THEN NoPage
                          ELSE IF StartIdx(n) < start THEN cur ELSE tpaPage[cur].prev]
    IN  [a \in DOMAIN tpaPage \cup {new} |->
            IF a = new THEN page
            ELSE IF n # 0 /\ StartIdx(n) < start /\ a = cur
                 THEN [tpaPage[a] EXCEPT !.next = new]
            ELSE tpaPage[a]]

\* The list with the zeroed page `new' linked in.
Linked(new, start) ==
    LET n == InsertPos(start)
        cur == TpaChain[n]
        behind == n # 0 /\ StartIdx(n) < start
        follower == IF n = 0 THEN NoPage ELSE IF behind THEN tpaPage[cur].next ELSE cur
        page == [start |-> start, slots |-> [s \in Slot |-> 0], next |-> follower,
                 prev |-> IF n = 0 THEN NoPage ELSE IF behind THEN cur ELSE tpaPage[cur].prev]
    IN  [a \in DOMAIN tpaPage \cup {new} |->
            IF a = new THEN page
            ELSE IF a = follower THEN [tpaPage[a] EXCEPT !.prev = new]
            ELSE IF behind /\ a = cur THEN [tpaPage[a] EXCEPT !.next = new]
            ELSE tpaPage[a]]

FirstAfterLink(new, start) ==
    IF InsertPos(start) # 0 /\ StartIdx(InsertPos(start)) < start THEN tpaFirst ELSE new

StartFor(idx) == (idx \div EntriesPerPage) * EntriesPerPage

\* set(idx, data)
TpaSet(idx, value) ==
    /\ ~tpaWild
    /\ tpaTable' = [i \in DOMAIN tpaTable \cup {idx} |-> IF i = idx THEN value ELSE tpaTable[i]]
    /\ UNCHANGED tpaWild
    /\ LET page == GetPageForIdx(idx)
           start == StartFor(idx)
       IN  \/ /\ page # NoPage
              /\ tpaPage' = [tpaPage EXCEPT ![page].slots[idx - start] = value]
              /\ UNCHANGED tpaFirst
           \/ /\ page = NoPage
              /\ \E new \in TpaAddr \ DOMAIN tpaPage :
                    /\ tpaPage' = [Linked(new, start) EXCEPT ![new].slots[idx - start] = value]
                    /\ tpaFirst' = FirstAfterLink(new, start)

\* clean_page of a page whose last entry has gone: it is unlinked through its
\* prev and freed.  The prev of the page behind it is left as it is.
CleanPage(page, cleared) ==
    LET prev == cleared[page].prev
        rest == [a \in DOMAIN cleared \ {page} |->
                    IF a = prev THEN [cleared[a] EXCEPT !.next = cleared[page].next]
                    ELSE cleared[a]]
    IN  /\ tpaPage' = rest
        /\ tpaFirst' = IF prev = NoPage THEN cleared[page].next ELSE tpaFirst
        \* what prev points at is no page of the list in front of this one
        /\ tpaWild' = (prev # NoPage
                        /\ (prev \notin DOMAIN rest \/ tpaPage[prev].next # page))

\* set(idx, 0)
TpaClear(idx) ==
    LET page == GetPageForIdx(idx)
        cleared == [tpaPage EXCEPT ![page].slots[idx - tpaPage[page].start] = 0]
    IN
    /\ ~tpaWild
    /\ tpaTable' = [i \in DOMAIN tpaTable \ {idx} |-> tpaTable[i]]
    /\ IF page = NoPage THEN UNCHANGED <<tpaPage, tpaFirst, tpaWild>>
       ELSE IF \E s \in Slot : cleared[page].slots[s] # 0
       THEN tpaPage' = cleared /\ UNCHANGED <<tpaFirst, tpaWild>>
       ELSE CleanPage(page, cleared)

\* destroy(): every page reached from first is freed; a new table follows.
TpaDestroy ==
    /\ ~tpaWild
    /\ tpaFirst' = NoPage
    /\ tpaPage' = [a \in DOMAIN tpaPage \ Range(TpaChain) |-> tpaPage[a]]
    /\ tpaTable' = <<>>
    /\ UNCHANGED tpaWild

TpaStep ==
    \/ \E idx \in TpaIndex, value \in TpaValues : TpaSet(idx, value)
    \/ \E idx \in TpaIndex : TpaClear(idx)
    \/ TpaDestroy

-----------------------------------------------------------------------------
(* Properties *)

TpaContents == [idx \in {i \in TpaIndex : TpaGet(i) # 0} |-> TpaGet(idx)]

\* As long as no page is unlinked through a prev that is out of date, the list
\* is the table: get() returns what was stored last, the pages are sorted and
\* none is lost (destroy() frees all of them), entries() counts right and
\* length() is the end of the last page in use.
TpaIsTable ==
    ~tpaWild =>
        /\ TpaContents = tpaTable
        /\ Range(TpaChain) = DOMAIN tpaPage
        /\ \A k \in 1 .. Len(TpaChain) - 1 : StartIdx(k) < StartIdx(k + 1)
        /\ TpaEntries = Cardinality(DOMAIN tpaTable)
        /\ TpaLength = IF tpaTable = <<>> THEN -1
                       ELSE StartFor(Max(DOMAIN tpaTable)) + EntriesPerPage

\* A caller that goes on with next(i + 1) from an entry it has found misses
\* none: across full pages, page ends and gaps between pages next() returns
\* the lowest index behind i, and 0 only when there is none.
IterationFindsAll ==
    ~tpaWild =>
        \A i \in DOMAIN tpaTable :
            LET later == {j \in DOMAIN tpaTable : j > i}
            IN  TpaNext(i + 1) = IF later = {} THEN 0 ELSE Min(later)

=============================================================================
