-------------------------------- MODULE Fifo ---------------------------------
(****************************************************************************)
(* What a message queue promises: messages come out in the order they went  *)
(* in, each once, and only into a buffer that holds them.                   *)
(****************************************************************************)
EXTENDS Naturals, Sequences

CONSTANTS
    FifoMessages,  \* records with a size
    FifoBuffers    \* sizes of the buffers readers bring

VARIABLES
    fifo,    \* messages not read yet, oldest first
    answer   \* what the last call returned

FifoInit == fifo = <<>> /\ answer = [code |-> "none"]

FifoPush(m) == fifo' = Append(fifo, m) /\ answer' = [code |-> "0"]

\* A reader that is too small is told so and leaves the message.
FifoRead(size) ==
    \/ fifo = <<>> /\ answer' = [code |-> "ENOMSG"] /\ UNCHANGED fifo
    \/ fifo # <<>> /\ Head(fifo).size > size /\ answer' = [code |-> "EMSGSIZE"] /\ UNCHANGED fifo
    \/ fifo # <<>> /\ Head(fifo).size <= size /\ answer' = [code |-> "0", msg |-> Head(fifo)]
       /\ fifo' = Tail(fifo)

FifoClear == fifo' = <<>> /\ answer' = [code |-> "none"]

FifoNext ==
    \/ \E m \in FifoMessages : FifoPush(m)
    \/ \E size \in FifoBuffers : FifoRead(size)
    \/ FifoClear

FifoSpec == FifoInit /\ [][FifoNext]_<<fifo, answer>>

=============================================================================
