---------------------------- MODULE BoundedFifo ----------------------------
(***************************************************************************)
(* What one direction of a worker session's transport promises to the code *)
(* above it, whatever shared-memory ring carries it: a bounded, loss-free, *)
(* duplicate-free FIFO of records that may be closed once and that still   *)
(* hands out, after the close, the records published before it.            *)
(***************************************************************************)
EXTENDS Naturals, Sequences

CONSTANTS Records,   \* the records a producer may publish
          Capacity   \* the number of record slots of the ring

VARIABLES queue,     \* published and not yet consumed, oldest first
          shut       \* the ring has been closed

fifoVars == <<queue, shut>>

FifoInit == queue = <<>> /\ shut = FALSE

Put(r) ==
    /\ Len(queue) < Capacity
    /\ queue' = Append(queue, r)
    /\ UNCHANGED shut

Take ==
    /\ queue # <<>>
    /\ queue' = Tail(queue)
    /\ UNCHANGED shut

Shut ==
    /\ ~shut
    /\ shut' = TRUE
    /\ UNCHANGED queue

FifoNext == (\E r \in Records : Put(r)) \/ Take \/ Shut

FifoSpec == FifoInit /\ [][FifoNext]_fifoVars
=============================================================================
