----------------------------- MODULE UsartRing -----------------------------
(***************************************************************************)
(* The serial port of usart2.c: a ring for each direction, shared by the   *)
(* main program and two interrupt routines.                                *)
(*                                                                         *)
(* An interrupt routine runs without interruption.  USART2_Read and        *)
(* USART2_Write of the main program are split where an interrupt can come  *)
(* between; the count alone is changed with interrupts off.  Reading and   *)
(* writing wait in a loop, which is a guard here.  The USART's shift       *)
(* registers are external.                                                 *)
(***************************************************************************)
EXTENDS Integers, Sequences

CONSTANTS
    Bytes,
    NoByte,
    RxSize,     \* USART2_RX_BUFFER_SIZE, 64
    TxSize      \* USART2_TX_BUFFER_SIZE, 64

ASSUME RingAssumption ==
    /\ NoByte \notin Bytes
    /\ RxSize \in Nat \ {0, 1}
    /\ TxSize \in Nat \ {0, 1}

VARIABLES
    rxHead, rxTail, rxElements, rxbuf,
    txHead, txTail, txElements, txbuf,
    dreie,      \* is the data register empty interrupt enabled?
    txData,     \* TXDATAL
    pc          \* where the main program is inside the driver

rxVars   == <<rxHead, rxTail, rxElements, rxbuf>>
txVars   == <<txHead, txTail, txElements, txbuf, dreie, txData>>
ringVars == <<rxVars, txVars, pc>>

Reading == {"moved", "recounted"}
Writing == {"stored", "counted"}

RingTypeOK ==
    /\ rxHead \in 0 .. RxSize - 1 /\ rxTail \in 0 .. RxSize - 1
    /\ rxElements \in 0 .. RxSize
    /\ rxbuf \in [0 .. RxSize - 1 -> Bytes \cup {NoByte}]
    /\ txHead \in 0 .. TxSize - 1 /\ txTail \in 0 .. TxSize - 1
    /\ txElements \in 0 .. TxSize
    /\ txbuf \in [0 .. TxSize - 1 -> Bytes \cup {NoByte}]
    /\ dreie \in BOOLEAN
    /\ txData \in Bytes \cup {NoByte}
    /\ pc \in {"out"} \cup Reading \cup Writing

\* The buffers are static and zero; a zero is no byte anybody sent.
RingInit ==
    /\ rxHead = 0 /\ rxTail = 0 /\ rxElements = 0
    /\ rxbuf = [i \in 0 .. RxSize - 1 |-> NoByte]
    /\ txHead = 0 /\ txTail = 0 /\ txElements = 0
    /\ txbuf = [i \in 0 .. TxSize - 1 |-> NoByte]
    /\ dreie = FALSE
    /\ txData = NoByte
    /\ pc = "out"

\* The n-th place behind place i.  (i + 1) & MASK is the first one, the size being a
\* power of two.
Place(i, n, size) == IF i + n < size THEN i + n ELSE i + n - size

Next1(i, size) == Place(i, 1, size)

-----------------------------------------------------------------------------
(***************************************************************************)
(* The interrupt routines.                                                 *)
(***************************************************************************)

\* Mutant: the receive interrupt trusts the count, which USART2_Read changes late.
RxFullByCount == rxElements = RxSize

RxFull == Next1(rxHead, RxSize) = rxTail

\* A byte arrives; a full ring drops it.
DefaultRxIsrCb(b) ==
    /\ IF RxFull
       THEN UNCHANGED rxVars
       ELSE /\ rxHead' = Next1(rxHead, RxSize)
            /\ rxbuf' = [rxbuf EXCEPT ![Next1(rxHead, RxSize)] = b]
            /\ rxElements' = rxElements + 1
            /\ UNCHANGED rxTail
    /\ UNCHANGED <<txVars, pc>>

\* Mutant: the interrupt is disabled on the count from before the byte was taken.
DefaultTxIsrCbEarly ==
    /\ dreie /\ txData = NoByte
    /\ txElements # 0
    /\ txTail' = Next1(txTail, TxSize)
    /\ txData' = txbuf[Next1(txTail, TxSize)]
    /\ txElements' = txElements - 1
    /\ dreie' = (txElements > 2)
    /\ UNCHANGED <<txHead, txbuf, rxVars, pc>>

\* The data register is empty: the next byte is sent, and after the last one the
\* interrupt is disabled.
DefaultTxIsrCb ==
    /\ dreie /\ txData = NoByte
    /\ IF txElements # 0
       THEN /\ txTail' = Next1(txTail, TxSize)
            /\ txData' = txbuf[Next1(txTail, TxSize)]
            /\ txElements' = txElements - 1
       ELSE UNCHANGED <<txTail, txData, txElements>>
    /\ dreie' = (txElements > 1)
    /\ UNCHANGED <<txHead, txbuf, rxVars, pc>>

\* The USART has shifted the byte out.
Shift ==
    /\ txData # NoByte
    /\ txData' = NoByte
    /\ UNCHANGED <<txHead, txTail, txElements, txbuf, dreie, rxVars, pc>>

-----------------------------------------------------------------------------
(***************************************************************************)
(* The main program.                                                       *)
(***************************************************************************)

IsRxReady == rxElements # 0

\* Mutant: no waiting for a free place.
AlwaysTxReady == TRUE

IsTxReady == txElements # TxSize

\* USART2_Read: the tail is moved, ...
ReadMove ==
    /\ pc = "out" /\ IsRxReady
    /\ rxTail' = Next1(rxTail, RxSize)
    /\ pc' = "moved"
    /\ UNCHANGED <<rxHead, rxElements, rxbuf, txVars>>

\* ... the count is changed, ...
ReadCount ==
    /\ pc = "moved"
    /\ rxElements' = rxElements - 1
    /\ pc' = "recounted"
    /\ UNCHANGED <<rxHead, rxTail, rxbuf, txVars>>

\* ... and the byte is returned from its place in the ring.
ReadReturn ==
    /\ pc = "recounted"
    /\ pc' = "out"
    /\ UNCHANGED <<rxVars, txVars>>

ByteRead == rxbuf[rxTail]

\* USART2_Write: the byte is stored, ...
WriteStore(b) ==
    /\ pc = "out" /\ IsTxReady
    /\ txHead' = Next1(txHead, TxSize)
    /\ txbuf' = [txbuf EXCEPT ![Next1(txHead, TxSize)] = b]
    /\ pc' = "stored"
    /\ UNCHANGED <<txTail, txElements, dreie, txData, rxVars>>

\* ... counted, ...
WriteCount ==
    /\ pc = "stored"
    /\ txElements' = txElements + 1
    /\ pc' = "counted"
    /\ UNCHANGED <<txHead, txTail, txbuf, dreie, txData, rxVars>>

\* ... and the transmit interrupt is enabled.
WriteEnable ==
    /\ pc = "counted"
    /\ dreie' = TRUE
    /\ pc' = "out"
    /\ UNCHANGED <<txHead, txTail, txElements, txbuf, txData, rxVars>>

-----------------------------------------------------------------------------
RingNext ==
    \/ \E b \in Bytes : DefaultRxIsrCb(b)
    \/ DefaultTxIsrCb
    \/ Shift
    \/ ReadMove \/ ReadCount \/ ReadReturn
    \/ \E b \in Bytes : WriteStore(b)
    \/ WriteCount \/ WriteEnable

RingSpec == RingInit /\ [][RingNext]_ringVars

-----------------------------------------------------------------------------
\* The n bytes behind the tail.
Waiting(buf, tail, n, size) == [i \in 1 .. n |-> buf[Place(tail, i, size)]]

\* The count of the receive ring is late by the byte being read.
rxWaiting == IF pc = "moved" THEN rxElements - 1 ELSE rxElements

rxQueue == Waiting(rxbuf, rxTail, rxWaiting, RxSize)
rxHand  == IF pc \in Reading THEN ByteRead ELSE NoByte
txQueue == Waiting(txbuf, txTail, txElements, TxSize)

RxFifo == INSTANCE ByteFifo WITH
    Capacity <- RxSize - 1, queue <- rxQueue, hand <- rxHand

TxFifo == INSTANCE ByteFifo WITH
    Capacity <- TxSize, queue <- txQueue, hand <- txData

\* No byte that USART2_DefaultRxIsrCb accepted is lost, changed or reordered before
\* USART2_Read returns it, although the place it is returned from is already free.
RxIsFifo == RxFifo!FifoSpec

\* What USART2_Write stores is sent once and in order, with the ring filled to its last
\* place and the interrupt taking bytes at any point of the call.
TxIsFifo == TxFifo!FifoSpec

\* The transmit interrupt is disabled over bytes that wait only until the USART2_Write
\* that counted one enables it: it is never left off for good.
NeverStranded == txElements # 0 /\ ~dreie => pc = "counted"

=============================================================================
