------------------------------ MODULE PagedQueue -----------------------------
(****************************************************************************)
(* How a message queue keeps its messages (src/kernel/mq.cpp): in a list of *)
(* pages, sized by a running average of the messages, filled at the push    *)
(* position of the last page and emptied at the pop position of the first.  *)
(* The module MessageQueue uses a queue as the sequence of its messages;    *)
(* the refinement of Fifo below is why it may.                              *)
(****************************************************************************)
EXTENDS Integers, Sequences, FiniteSets, FiniteSetsExt, SequencesExt

CONSTANTS
    PageItemsTarget,  \* MessageQueuePageItemsTarget
    MsgSizes,         \* sizes of messages, header included
    MsgBuffers,       \* sizes readers poll with
    MaxQueued         \* bound: messages in the queue

ASSUME PagedQueueAssumption ==
    /\ PageItemsTarget \in Nat \ {0}
    /\ MsgSizes \subseteq Nat \ {0}
    /\ MsgBuffers \subseteq Nat
    /\ MaxQueued \in Nat

VARIABLES
    mqFirst, mqLast,  \* first_page, last_page; 0 is the null pointer
    mqPage,           \* the allocated pages by address
    mqBytes, mqItems, \* totals of the queue
    mqAverage,        \* average_message_size
    mqAnswer          \* what the last call returned

pagedVars == <<mqFirst, mqLast, mqPage, mqBytes, mqItems, mqAverage, mqAnswer>>

\* A message is told from the others by its mark, set to the parity of the
\* messages pushed before it.
PagedMessages == [size : MsgSizes, mark : {0, 1}]

\* At most one page per message.  Which free address a page gets makes no
\* difference to the queue; the model takes the lowest.
PageAddr == 1 .. MaxQueued

\* mq_create
PagedQueueInit ==
    /\ mqFirst = 0 /\ mqLast = 0
    /\ mqPage = <<>>
    /\ mqBytes = 0 /\ mqItems = 0
    /\ mqAverage = 0
    /\ mqAnswer = [code |-> "none"]

-----------------------------------------------------------------------------

\* average_message_size after a push: the first message is its own average.
AverageWith(size) ==
    LET sum == mqAverage + size IN IF sum # size THEN sum \div 2 ELSE sum

\* Mutant: one byte too many is let in.
FitsLoosely(size) ==
    mqLast # 0 /\ size <= mqPage[mqLast].allocated - mqPage[mqLast].push + 1

FitsLastPage(size) ==
    mqLast # 0 /\ size <= mqPage[mqLast].allocated - mqPage[mqLast].push

EmptyPage(size) ==
    LET target == AverageWith(size) * PageItemsTarget
    IN  [allocated |-> IF target < size THEN size ELSE target,
         bytes |-> 0, items |-> 0, pop |-> 0, push |-> 0, next |-> 0, data |-> <<>>]

\* f with the value v at x.
Put(f, x, v) == [y \in DOMAIN f \cup {x} |-> IF y = x THEN v ELSE f[y]]

\* Mutant: the page before is not told.
UnlinkedPage(new, size) == Put(mqPage, new, EmptyPage(size))

\* mq_alloc_page: the new page follows the last one.
WithPage(new, size) ==
    Put([a \in DOMAIN mqPage |->
            IF a = mqLast THEN [mqPage[a] EXCEPT !.next = new] ELSE mqPage[a]],
        new, EmptyPage(size))

\* The message at the push position of the page.
PageWritten(page, msg) ==
    [page EXCEPT !.data = Put(@, page.push, msg), !.push = @ + msg.size,
                 !.bytes = @ + msg.size, !.items = @ + 1]

Written(pages, a, msg) == [pages EXCEPT ![a] = PageWritten(pages[a], msg)]

\* mq_push
MqPush(msg) ==
    /\ mqItems < MaxQueued
    /\ mqAverage' = AverageWith(msg.size)
    /\ mqBytes' = mqBytes + msg.size
    /\ mqItems' = mqItems + 1
    /\ mqAnswer' = [code |-> "0"]
    /\ \/ /\ FitsLastPage(msg.size)
          /\ mqPage' = Written(mqPage, mqLast, msg)
          /\ UNCHANGED <<mqFirst, mqLast>>
       \/ /\ ~FitsLastPage(msg.size)
          /\ LET new == Min(PageAddr \ DOMAIN mqPage) IN
             /\ mqPage' = Written(WithPage(new, msg.size), new, msg)
             /\ mqFirst' = IF mqFirst = 0 THEN new ELSE mqFirst
             /\ mqLast' = new

\* mq_peek: the message at the pop position of the first page.
Oldest == mqPage[mqFirst].data[mqPage[mqFirst].pop]

PagePopped(page, msg) ==
    [page EXCEPT !.pop = @ + msg.size, !.bytes = @ - msg.size, !.items = @ - 1]

Popped == [mqPage EXCEPT ![mqFirst] = PagePopped(mqPage[mqFirst], Oldest)]

\* mq_pop, which peeks first; a page without messages is freed.
MqPop(size) ==
    \/ /\ mqItems = 0
       /\ mqAnswer' = [code |-> "ENOMSG"]
       /\ UNCHANGED <<mqFirst, mqLast, mqPage, mqBytes, mqItems, mqAverage>>
    \/ /\ mqItems # 0
       /\ Oldest.size > size
       /\ mqAnswer' = [code |-> "EMSGSIZE"]
       /\ UNCHANGED <<mqFirst, mqLast, mqPage, mqBytes, mqItems, mqAverage>>
    \/ /\ mqItems # 0
       /\ Oldest.size <= size
       /\ mqAnswer' = [code |-> "0", msg |-> Oldest]
       /\ mqBytes' = mqBytes - Oldest.size
       /\ mqItems' = mqItems - 1
       /\ UNCHANGED mqAverage
       /\ IF Popped[mqFirst].items # 0
          THEN mqPage' = Popped /\ UNCHANGED <<mqFirst, mqLast>>
          ELSE /\ mqPage' = [a \in DOMAIN mqPage \ {mqFirst} |-> mqPage[a]]
               /\ mqFirst' = mqPage[mqFirst].next
               /\ mqLast' = IF mqFirst = mqLast THEN 0 ELSE mqLast

\* mq_destroy frees the pages; the next queue starts empty.
MqFree ==
    /\ mqFirst' = 0 /\ mqLast' = 0
    /\ mqPage' = <<>>
    /\ mqBytes' = 0 /\ mqItems' = 0
    /\ mqAverage' = 0
    /\ mqAnswer' = [code |-> "none"]

PagedQueueStep ==
    \/ \E size \in MsgSizes :
          MqPush([size |-> size, mark |-> mqItems % 2])
    \/ \E size \in MsgBuffers : MqPop(size)
    \/ MqFree

-----------------------------------------------------------------------------
(* Properties *)

\* The pages from the first on, in the order of their next pointers.
PageChain ==
    LET at[n \in 0 .. MaxQueued] ==
            IF n = 0 THEN mqFirst
            ELSE IF at[n - 1] \in DOMAIN mqPage THEN mqPage[at[n - 1]].next ELSE 0
        len == Min({n \in 0 .. MaxQueued : at[n] = 0} \cup {MaxQueued})
    IN  [n \in 1 .. len |-> at[n - 1]]

\* Where the messages of a page are that are still to be read.
Unread(page) == {d \in DOMAIN page.data : d >= page.pop}

\* Those of all pages, with the number of their page, and their order.
UnreadAt ==
    UNION {{k} \X Unread(mqPage[PageChain[k]]) : k \in DOMAIN PageChain}

Before(x, y) == x[1] < y[1] \/ (x[1] = y[1] /\ x[2] < y[2])

Nth(n) == CHOOSE x \in UnreadAt : Cardinality({y \in UnreadAt : Before(y, x)}) = n - 1

\* The messages of the queue, oldest first.
Queued ==
    [n \in 1 .. Cardinality(UnreadAt) |-> mqPage[PageChain[Nth(n)[1]]].data[Nth(n)[2]]]

TheFifo == INSTANCE Fifo WITH
    FifoMessages <- PagedMessages,
    FifoBuffers <- MsgBuffers,
    fifo <- Queued,
    answer <- mqAnswer

\* The list of pages is a FIFO queue: whatever sizes make pages fill up, be
\* allocated and be freed, mq_pop returns the messages of mq_push in order,
\* each once, and the error codes tell an empty queue from a small buffer.
QueueIsFifo == TheFifo!FifoSpec

TotalSize(s) ==
    LET total[n \in 0 .. Len(s)] == IF n = 0 THEN 0 ELSE total[n - 1] + s[n].size
    IN  total[Len(s)]

\* Nothing is written behind the end of a page and no page is lost: positions
\* and counters of every page and of the queue agree with its messages, which
\* follow each other without a gap from the pop to the push position, no page
\* is kept without messages, and every allocated page is in the list, with
\* last_page at its end.
PagesAccounted ==
    /\ DOMAIN mqPage = Range(PageChain)
    /\ mqLast = (IF PageChain = <<>> THEN 0 ELSE Last(PageChain))
    /\ mqItems = Len(Queued)
    /\ mqBytes = TotalSize(Queued)
    /\ \A k \in DOMAIN PageChain :
          LET page == mqPage[PageChain[k]] IN
          /\ page.pop + page.bytes = page.push
          /\ page.push <= page.allocated
          /\ page.items = Cardinality(Unread(page))
          /\ page.pop \in Unread(page)
          /\ \A d \in Unread(page) :
                d + page.data[d].size \in Unread(page) \cup {page.push}

=============================================================================
