------------------------------ MODULE ByteFifo ------------------------------
(***************************************************************************)
(* What a direction of the serial port promises: the bytes that are let in *)
(* come out once each, in their order, through a hand that holds the byte  *)
(* on its way out.  A byte may be turned away, never changed or reordered. *)
(***************************************************************************)
EXTENDS Naturals, Sequences

CONSTANTS
    Bytes,
    NoByte,     \* the hand is empty
    Capacity

VARIABLES
    queue,
    hand

FifoInit == queue = <<>> /\ hand = NoByte

Put(b) ==
    /\ Len(queue) < Capacity
    /\ queue' = Append(queue, b)
    /\ UNCHANGED hand

Take ==
    /\ queue # <<>> /\ hand = NoByte
    /\ hand' = Head(queue)
    /\ queue' = Tail(queue)

Return ==
    /\ hand # NoByte
    /\ hand' = NoByte
    /\ UNCHANGED queue

FifoNext == (\E b \in Bytes : Put(b)) \/ Take \/ Return

FifoSpec == FifoInit /\ [][FifoNext]_<<queue, hand>>

=============================================================================
