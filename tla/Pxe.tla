---------------------------------- MODULE Pxe --------------------------------
(****************************************************************************)
(* Files over the network (src/loader/pxe.c): opening a file reads all of   *)
(* it by TFTP into a buffer that grows until the file fits, read copies the *)
(* buffer.  Server and pool are external: any call may fail, and the file   *)
(* on the server may change between two calls.                              *)
(****************************************************************************)
EXTENDS Integers, FiniteSets

CONSTANTS
    FileSizes,    \* sizes a file on the server may have
    BufferStep,   \* what the buffer grows by
    MaxOpens      \* bound: files opened

ASSUME PxeAssumption ==
    /\ FileSizes \subseteq Nat
    /\ BufferStep \in Nat \ {0} /\ MaxOpens \in Nat

VARIABLES
    pxePhase,   \* where PxeFpOpen or load_file is
    server,     \* size of the file on the server
    pool,       \* allocations: "fp" and "buffer" of the file, fps left behind
    pxeFile,    \* bufferSize, and what the buffer holds
    readSize,   \* the size load_file asks for
    got,        \* size of what load_file got; the file when it was read
    opens

pxeVars == <<pxePhase, server, pool, pxeFile, readSize, got, opens>>

NoFile == [size |-> 0, content |-> -1]

PxeInit ==
    /\ pxePhase = "closed"
    /\ server \in FileSizes
    /\ pool = [fp |-> 0, buffer |-> 0, left |-> 0]
    /\ pxeFile = NoFile
    /\ readSize = 0
    /\ got = -1
    /\ opens = 0

\* The file is replaced while the loader runs.
ServerChanges ==
    /\ server' \in FileSizes \ {server}
    /\ UNCHANGED <<pxePhase, pool, pxeFile, readSize, got, opens>>

\* mk_pxefp_private
OpenFile ==
    /\ pxePhase = "closed"
    /\ opens < MaxOpens
    /\ opens' = opens + 1
    /\ pool' = [pool EXCEPT !.fp = @ + 1]
    /\ pxeFile' = NoFile
    /\ got' = -1
    /\ pxePhase' = "size"
    /\ UNCHANGED <<server, readSize>>

\* Open returns an error: freed is what it gives back before.
OpenFails(freed) ==
    /\ pool' = [x \in DOMAIN pool |-> IF x \in freed THEN pool[x] - 1 ELSE pool[x]]
    /\ pxePhase' = "closed"
    /\ UNCHANGED <<server, pxeFile, readSize, got, opens>>

\* The size of the file, or if the server does not know it, from a read
\* without a buffer.
AskSize ==
    /\ pxePhase = "size"
    /\ \/ /\ pxeFile' = [pxeFile EXCEPT !.size = server]
          /\ pxePhase' = "alloc"
          /\ UNCHANGED <<server, pool, readSize, got, opens>>
       \/ OpenFails({"fp"})

\* Mutant: the buffer that was too small is kept.
KeepBuffer == pool.buffer

BuffersAfterFree == 0

\* The old buffer is freed, a new one allocated.
AllocBuffer ==
    /\ pxePhase = "alloc"
    /\ \/ /\ pool' = [pool EXCEPT !.buffer = BuffersAfterFree + 1]
          /\ pxePhase' = "read"
          /\ UNCHANGED <<server, pxeFile, readSize, got, opens>>
       \/ /\ pool' = [pool EXCEPT !.fp = @ - 1, !.buffer = BuffersAfterFree]
          /\ pxePhase' = "closed"
          /\ UNCHANGED <<server, pxeFile, readSize, got, opens>>

\* Mutant: the size asked for stays the size of the file.
SizeAsked(size) == pxeFile.size

SizeRead(size) == size

\* Mtftp reads the file, if it fits.
ReadFile ==
    /\ pxePhase = "read"
    /\ \/ /\ server <= pxeFile.size
          /\ pxeFile' = [size |-> SizeRead(server), content |-> server]
          /\ pxePhase' = "open"
          /\ readSize' = 0
          /\ UNCHANGED <<server, pool, got, opens>>
       \/ /\ server > pxeFile.size
          /\ pxeFile' = [pxeFile EXCEPT !.size = @ + BufferStep]
          /\ pxePhase' = "alloc"
          /\ UNCHANGED <<server, pool, readSize, got, opens>>
       \/ OpenFails({"fp", "buffer"})

\* PxeFpRead as load_file calls it: once to learn the size, once to read.
Read ==
    /\ pxePhase = "open"
    /\ got = -1
    /\ IF readSize < pxeFile.size
       THEN readSize' = pxeFile.size /\ UNCHANGED got
       ELSE readSize' = pxeFile.size /\ got' = pxeFile.size
    /\ UNCHANGED <<pxePhase, server, pool, pxeFile, opens>>

\* PxeFpClose keeps the fp.
Close ==
    /\ pxePhase = "open"
    /\ got # -1
    /\ pool' = [pool EXCEPT !.buffer = @ - 1, !.fp = @ - 1, !.left = @ + 1]
    /\ pxeFile' = [pxeFile EXCEPT !.size = 0]
    /\ pxePhase' = "closed"
    /\ UNCHANGED <<server, readSize, got, opens>>

PxeStep ==
    \/ ServerChanges
    \/ OpenFile
    \/ AskSize
    \/ AllocBuffer
    \/ ReadFile
    \/ Read
    \/ Close

-----------------------------------------------------------------------------
(* Properties *)

\* Whatever fails on the way, Open either returns a file with its fp and one
\* buffer or leaves nothing in the pool.
PxePoolBalanced ==
    /\ pool.fp = IF pxePhase = "closed" THEN 0 ELSE 1
    /\ pxePhase = "closed" => pool.buffer = 0
    /\ pxePhase \in {"open", "read"} => pool.buffer = 1

\* The loader gets a file as long as it was when it was read, also if it has
\* grown or shrunk since its size was asked for.
PxeWholeFile == got # -1 => got = pxeFile.content

=============================================================================
