-------------------------- MODULE UsartRingProofs --------------------------
(***************************************************************************)
(* The rings of usart2.c for every size and every set of bytes: types, the *)
(* transmit interrupt, and each direction as a bounded FIFO.               *)
(***************************************************************************)
EXTENDS UsartRing, SequenceTheorems, TLAPS

txStored == IF pc = "stored" THEN txElements + 1 ELSE txElements

\* The head is as far behind the tail as the count says, give or take the byte that is
\* moved and not counted yet.
RxCountAgrees ==
    /\ rxWaiting \in 0 .. RxSize - 1
    /\ rxHead = Place(rxTail, rxWaiting, RxSize)

TxCountAgrees ==
    /\ txStored \in 0 .. TxSize
    /\ txHead = Place(txTail, txStored, TxSize)

\* What waits, and what is being read, is a byte and no leftover of the buffer.
RxHoldsBytes ==
    /\ \A i \in 1 .. rxWaiting : rxbuf[Place(rxTail, i, RxSize)] \in Bytes
    /\ pc \in Reading => rxbuf[rxTail] \in Bytes

TxHoldsBytes == \A i \in 1 .. txStored : txbuf[Place(txTail, i, TxSize)] \in Bytes

RingInv ==
    /\ RingTypeOK
    /\ RxCountAgrees /\ RxHoldsBytes
    /\ TxCountAgrees /\ TxHoldsBytes
    /\ NeverStranded

-----------------------------------------------------------------------------
(***************************************************************************)
(* Places in a ring.                                                       *)
(***************************************************************************)

LEMMA PlaceInRing ==
    ASSUME NEW size \in Nat \ {0}, NEW i \in 0 .. size - 1, NEW n \in 0 .. size
    PROVE  Place(i, n, size) \in 0 .. size - 1
BY DEF Place

LEMMA PlaceOfPlace ==
    ASSUME NEW size \in Nat \ {0}, NEW i \in 0 .. size - 1,
           NEW m \in Nat, NEW n \in Nat, m + n <= size
    PROVE  Place(Place(i, m, size), n, size) = Place(i, m + n, size)
BY DEF Place

LEMMA PlacesDiffer ==
    ASSUME NEW size \in Nat \ {0}, NEW i \in 0 .. size - 1,
           NEW m \in 0 .. size, NEW n \in 0 .. size,
           Place(i, m, size) = Place(i, n, size), m < n
    PROVE  m = 0 /\ n = size
BY DEF Place

\* The ring is full when one place is left, the one the byte being read is in.
LEMMA FullRing ==
    ASSUME RingInv
    PROVE  RxFull <=> rxWaiting = RxSize - 1
<1>1. Next1(rxHead, RxSize) = Place(rxTail, rxWaiting + 1, RxSize)
  BY RingAssumption, PlaceOfPlace DEF RingInv, RingTypeOK, RxCountAgrees, Next1
<1>2. rxTail = Place(rxTail, 0, RxSize)
  BY RingAssumption DEF RingInv, RingTypeOK, Place
<1>3. rxTail = Place(rxTail, RxSize, RxSize)
  BY RingAssumption DEF RingInv, RingTypeOK, Place
<1>4. rxWaiting + 1 \in 1 .. RxSize
  BY RingAssumption DEF RingInv, RxCountAgrees
<1>5. rxTail \in 0 .. RxSize - 1
  BY DEF RingInv, RingTypeOK
<1>6. ASSUME Place(rxTail, 0, RxSize) = Place(rxTail, rxWaiting + 1, RxSize)
      PROVE  rxWaiting + 1 = RxSize
  <2>1. 0 \in 0 .. RxSize /\ rxWaiting + 1 \in 0 .. RxSize /\ 0 < rxWaiting + 1
    BY <1>4, RingAssumption
  <2> HIDE DEF rxWaiting
  <2> QED
    BY <1>5, <1>6, <2>1, RingAssumption, PlacesDiffer
<1>7. rxWaiting = RxSize - 1 <=> rxWaiting + 1 = RxSize
  <2>1. rxWaiting \in Nat /\ RxSize \in Nat
    BY RingAssumption DEF RingInv, RxCountAgrees
  <2> HIDE DEF rxWaiting
  <2> QED
    BY <2>1
<1> QED
  BY <1>1, <1>2, <1>3, <1>6, <1>7 DEF RxFull

-----------------------------------------------------------------------------
(***************************************************************************)
(* The inductive invariant.                                                *)
(***************************************************************************)

LEMMA InitInv == RingInit => RingInv
<1> SUFFICES ASSUME RingInit PROVE RingInv
  OBVIOUS
<1>1. RingTypeOK
  <2>1. rxbuf \in [0 .. RxSize - 1 -> Bytes \cup {NoByte}]
    BY DEF RingInit
  <2>2. txbuf \in [0 .. TxSize - 1 -> Bytes \cup {NoByte}]
    BY DEF RingInit
  <2>3. /\ rxHead \in 0 .. RxSize - 1 /\ rxTail \in 0 .. RxSize - 1
        /\ txHead \in 0 .. TxSize - 1 /\ txTail \in 0 .. TxSize - 1
        /\ rxElements \in 0 .. RxSize /\ txElements \in 0 .. TxSize
    BY RingAssumption DEF RingInit
  <2>4. dreie \in BOOLEAN /\ txData \in Bytes \cup {NoByte} /\ pc = "out"
    BY DEF RingInit
  <2> QED
    BY <2>1, <2>2, <2>3, <2>4 DEF RingTypeOK
<1>2. rxWaiting = 0 /\ txStored = 0
  BY DEF RingInit, rxWaiting, txStored
<1>3. RxCountAgrees /\ TxCountAgrees
  BY <1>2, RingAssumption DEF RingInit, RxCountAgrees, TxCountAgrees, Place
<1>4. RxHoldsBytes /\ TxHoldsBytes /\ NeverStranded
  BY <1>2 DEF RingInit, RxHoldsBytes, TxHoldsBytes, NeverStranded, Reading
<1> QED
  BY <1>1, <1>3, <1>4 DEF RingInv

\* The receive ring, for the steps that leave it alone.
LEMMA RxUntouched ==
    ASSUME RingInv, UNCHANGED rxVars,
           pc' = pc \/ {pc, pc'} \cap Reading = {}
    PROVE  RxCountAgrees' /\ RxHoldsBytes'
BY DEF RingInv, RxCountAgrees, RxHoldsBytes, rxWaiting, rxVars, Reading

LEMMA TxUntouched ==
    ASSUME RingInv, UNCHANGED txVars,
           pc' = pc \/ {pc, pc'} \cap Writing = {}
    PROVE  TxCountAgrees' /\ TxHoldsBytes' /\ NeverStranded'
BY DEF RingInv, TxCountAgrees, TxHoldsBytes, NeverStranded, txStored, txVars, Writing

LEMMA StepInv == RingInv /\ [RingNext]_ringVars => RingInv'
<1> SUFFICES ASSUME RingInv, [RingNext]_ringVars PROVE RingInv'
  OBVIOUS
<1> USE RingAssumption
<1>1. ASSUME NEW b \in Bytes, DefaultRxIsrCb(b) PROVE RingInv'
  <2>1. TxCountAgrees' /\ TxHoldsBytes' /\ NeverStranded'
    BY <1>1, TxUntouched DEF DefaultRxIsrCb
  <2>2. CASE RxFull
    BY <1>1, <2>1, <2>2, RxUntouched
    DEF DefaultRxIsrCb, rxVars, txVars, RingInv, RingTypeOK
  <2>3. CASE ~RxFull
    <3>1. /\ rxHead' = Next1(rxHead, RxSize)
          /\ rxbuf' = [rxbuf EXCEPT ![Next1(rxHead, RxSize)] = b]
          /\ rxElements' = rxElements + 1
          /\ rxTail' = rxTail /\ pc' = pc /\ UNCHANGED txVars
      BY <1>1, <2>3 DEF DefaultRxIsrCb
    <3>2. rxWaiting \in 0 .. RxSize - 2 /\ rxWaiting' = rxWaiting + 1
      BY <3>1, <2>3, FullRing DEF RingInv, RingTypeOK, RxCountAgrees, rxWaiting
    <3>3. rxHead' = Place(rxTail, rxWaiting + 1, RxSize) /\ rxHead' \in 0 .. RxSize - 1
      BY <3>1, <3>2, PlaceOfPlace, PlaceInRing
      DEF RingInv, RingTypeOK, RxCountAgrees, Next1
    <3>4. RxCountAgrees'
      BY <3>1, <3>2, <3>3 DEF RxCountAgrees
    <3>5. ASSUME NEW i \in 0 .. rxWaiting
          PROVE  Place(rxTail, i, RxSize) # rxHead'
      BY <3>2, <3>3, PlacesDiffer DEF RingInv, RingTypeOK
    <3>6. rxTail = Place(rxTail, 0, RxSize)
      BY DEF RingInv, RingTypeOK, Place
    <3>7. RxHoldsBytes'
      <4>1. ASSUME NEW i \in 1 .. rxWaiting'
            PROVE  rxbuf'[Place(rxTail', i, RxSize)] \in Bytes
        <5>1. CASE i = rxWaiting + 1
          BY <5>1, <3>1, <3>3 DEF RingInv, RingTypeOK
        <5>2. CASE i \in 1 .. rxWaiting
          <6>1. Place(rxTail, i, RxSize) # rxHead'
            BY <5>2, <3>2, <3>5
          <6>2. Place(rxTail, i, RxSize) \in 0 .. RxSize - 1
            <7>1. i \in 0 .. RxSize
              BY <5>2, <3>2
            <7> QED
              BY <7>1, PlaceInRing DEF RingInv, RingTypeOK
          <6> QED
            BY <5>2, <6>1, <6>2, <3>1 DEF RingInv, RingTypeOK, RxHoldsBytes
        <5> QED
          BY <3>2, <5>1, <5>2
      <4>2. pc \in Reading => rxbuf'[rxTail] \in Bytes
        BY <3>1, <3>2, <3>3, <3>5, <3>6 DEF RingInv, RingTypeOK, RxHoldsBytes
      <4> QED
        BY <4>1, <4>2, <3>1 DEF RxHoldsBytes
    <3>8. rxElements' \in 0 .. RxSize
      BY <3>1, <3>2 DEF RingInv, RingTypeOK, rxWaiting
    <3>9. rxbuf' \in [0 .. RxSize - 1 -> Bytes \cup {NoByte}]
      BY <3>1 DEF RingInv, RingTypeOK
    <3> QED
      BY <2>1, <3>1, <3>3, <3>4, <3>7, <3>8, <3>9 DEF RingInv, RingTypeOK, txVars
  <2> QED
    BY <2>2, <2>3
<1>2. CASE DefaultTxIsrCb
  <2>1. RxCountAgrees' /\ RxHoldsBytes'
    BY <1>2, RxUntouched DEF DefaultTxIsrCb
  <2>2. CASE txElements = 0
    BY <1>2, <2>1, <2>2
    DEF DefaultTxIsrCb, rxVars, RingInv, RingTypeOK, TxCountAgrees, TxHoldsBytes, txStored,
        NeverStranded
  <2>3. CASE txElements # 0
    <3>1. /\ txTail' = Next1(txTail, TxSize)
          /\ txData' = txbuf[Next1(txTail, TxSize)]
          /\ txElements' = txElements - 1
          /\ dreie' = (txElements > 1)
          /\ UNCHANGED <<txHead, txbuf, rxVars, pc>>
      BY <1>2, <2>3 DEF DefaultTxIsrCb
    <3>2. txStored \in 1 .. TxSize /\ txStored' = txStored - 1
      BY <3>1, <2>3 DEF RingInv, RingTypeOK, TxCountAgrees, txStored
    <3>3. \A i \in 0 .. txStored - 1 :
             Place(txTail', i, TxSize) = Place(txTail, i + 1, TxSize)
      BY <3>1, <3>2, PlaceOfPlace DEF RingInv, RingTypeOK, Next1
    <3>4. txTail' \in 0 .. TxSize - 1
      BY <3>1, PlaceInRing DEF RingInv, RingTypeOK, Next1
    <3>5. TxCountAgrees'
      BY <3>1, <3>2, <3>3 DEF RingInv, TxCountAgrees
    <3>6. TxHoldsBytes'
      BY <3>1, <3>2, <3>3 DEF RingInv, TxHoldsBytes
    <3>7. txData' \in Bytes
      BY <3>1, <3>2 DEF RingInv, TxHoldsBytes, Next1
    <3>8. NeverStranded'
      <4>1. CASE txElements = 1
        BY <4>1, <3>1 DEF NeverStranded
      <4>2. CASE txElements > 1
        BY <4>2, <3>1 DEF NeverStranded
      <4> QED
        BY <4>1, <4>2, <2>3 DEF RingInv, RingTypeOK
    <3>9. txElements' \in 0 .. TxSize /\ dreie' \in BOOLEAN
      BY <3>1, <2>3 DEF RingInv, RingTypeOK
    <3> QED
      BY <2>1, <3>1, <3>4, <3>5, <3>6, <3>7, <3>8, <3>9 DEF RingInv, RingTypeOK, rxVars
  <2> QED
    BY <2>2, <2>3
<1>3. CASE Shift
  <2>1. RxCountAgrees' /\ RxHoldsBytes'
    BY <1>3, RxUntouched DEF Shift
  <2> QED
    BY <1>3, <2>1
    DEF Shift, rxVars, RingInv, RingTypeOK, TxCountAgrees, TxHoldsBytes, txStored,
        NeverStranded
<1>4. CASE ReadMove
  <2>1. TxCountAgrees' /\ TxHoldsBytes' /\ NeverStranded'
    BY <1>4, TxUntouched DEF ReadMove, Writing
  <2>2. /\ pc = "out" /\ rxElements # 0
        /\ rxTail' = Next1(rxTail, RxSize)
        /\ pc' = "moved"
        /\ UNCHANGED <<rxHead, rxElements, rxbuf, txVars>>
    BY <1>4 DEF ReadMove, IsRxReady
  <2>3. rxWaiting \in 1 .. RxSize - 1 /\ rxWaiting' = rxWaiting - 1
    BY <2>2 DEF RingInv, RingTypeOK, RxCountAgrees, rxWaiting
  <2>4. \A i \in 0 .. rxWaiting - 1 :
           Place(rxTail', i, RxSize) = Place(rxTail, i + 1, RxSize)
    BY <2>2, <2>3, PlaceOfPlace DEF RingInv, RingTypeOK, Next1
  <2>5. rxTail' \in 0 .. RxSize - 1
    BY <2>2, PlaceInRing DEF RingInv, RingTypeOK, Next1
  <2>6. RxCountAgrees'
    BY <2>2, <2>3, <2>4 DEF RingInv, RxCountAgrees
  <2>7. rxbuf'[rxTail'] \in Bytes
    BY <2>2, <2>3 DEF RingInv, RxHoldsBytes, Next1
  <2>8. \A i \in 1 .. rxWaiting' : rxbuf'[Place(rxTail', i, RxSize)] \in Bytes
    BY <2>2, <2>3, <2>4 DEF RingInv, RxHoldsBytes
  <2> QED
    BY <2>1, <2>2, <2>5, <2>6, <2>7, <2>8
    DEF RingInv, RingTypeOK, RxHoldsBytes, Reading, Writing, txVars
<1>5. CASE ReadCount
  <2>1. TxCountAgrees' /\ TxHoldsBytes' /\ NeverStranded'
    BY <1>5, TxUntouched DEF ReadCount, Writing
  <2>2. rxWaiting' = rxWaiting /\ rxElements' \in 0 .. RxSize
    BY <1>5 DEF ReadCount, rxWaiting, RingInv, RingTypeOK, RxCountAgrees
  <2> QED
    BY <1>5, <2>1, <2>2
    DEF ReadCount, RingInv, RingTypeOK, RxCountAgrees, RxHoldsBytes, Reading, Writing, txVars
<1>6. CASE ReadReturn
  <2>1. TxCountAgrees' /\ TxHoldsBytes' /\ NeverStranded'
    BY <1>6, TxUntouched DEF ReadReturn, Writing
  <2>2. rxWaiting' = rxWaiting
    BY <1>6 DEF ReadReturn, rxWaiting, rxVars
  <2> QED
    BY <1>6, <2>1, <2>2
    DEF ReadReturn, RingInv, RingTypeOK, RxCountAgrees, RxHoldsBytes, Reading, Writing,
        rxVars, txVars
<1>7. ASSUME NEW b \in Bytes, WriteStore(b) PROVE RingInv'
  <2>1. RxCountAgrees' /\ RxHoldsBytes'
    BY <1>7, RxUntouched DEF WriteStore, Reading
  <2>2. /\ pc = "out" /\ txElements # TxSize
        /\ txHead' = Next1(txHead, TxSize)
        /\ txbuf' = [txbuf EXCEPT ![Next1(txHead, TxSize)] = b]
        /\ pc' = "stored"
        /\ UNCHANGED <<txTail, txElements, dreie, txData, rxVars>>
    BY <1>7 DEF WriteStore, IsTxReady
  <2>3. txStored \in 0 .. TxSize - 1 /\ txStored' = txStored + 1
    BY <2>2 DEF RingInv, RingTypeOK, TxCountAgrees, txStored
  <2>4. txHead' = Place(txTail, txStored + 1, TxSize) /\ txHead' \in 0 .. TxSize - 1
    BY <2>2, <2>3, PlaceOfPlace, PlaceInRing DEF RingInv, RingTypeOK, TxCountAgrees, Next1
  <2>5. ASSUME NEW i \in 1 .. txStored PROVE Place(txTail, i, TxSize) # txHead'
    BY <2>3, <2>4, PlacesDiffer DEF RingInv, RingTypeOK
  <2>6. ASSUME NEW i \in 1 .. txStored'
        PROVE  txbuf'[Place(txTail', i, TxSize)] \in Bytes
    <3>1. CASE i = txStored + 1
      BY <3>1, <2>2, <2>4 DEF RingInv, RingTypeOK
    <3>2. CASE i \in 1 .. txStored
      <4>1. Place(txTail, i, TxSize) # txHead'
        BY <3>2, <2>5
      <4>2. Place(txTail, i, TxSize) \in 0 .. TxSize - 1
        <5>1. i \in 0 .. TxSize
          BY <3>2, <2>3
        <5> QED
          BY <5>1, PlaceInRing DEF RingInv, RingTypeOK
      <4> QED
        BY <3>2, <4>1, <4>2, <2>2 DEF RingInv, RingTypeOK, TxHoldsBytes
    <3> QED
      BY <2>3, <3>1, <3>2
  <2>7. txbuf' \in [0 .. TxSize - 1 -> Bytes \cup {NoByte}]
    BY <2>2 DEF RingInv, RingTypeOK
  <2>8. TxCountAgrees'
    BY <2>2, <2>3, <2>4 DEF RingInv, TxCountAgrees
  <2>9. NeverStranded'
    BY <2>2 DEF RingInv, NeverStranded
  <2> QED
    BY <2>1, <2>2, <2>4, <2>6, <2>7, <2>8, <2>9
    DEF RingInv, RingTypeOK, TxHoldsBytes, Reading, Writing, rxVars
<1>8. CASE WriteCount
  <2>1. RxCountAgrees' /\ RxHoldsBytes'
    BY <1>8, RxUntouched DEF WriteCount, Reading
  <2>2. txStored' = txStored /\ txElements' \in 0 .. TxSize
    BY <1>8 DEF WriteCount, txStored, RingInv, RingTypeOK, TxCountAgrees
  <2> QED
    BY <1>8, <2>1, <2>2
    DEF WriteCount, RingInv, RingTypeOK, TxCountAgrees, TxHoldsBytes, NeverStranded,
        Reading, Writing, rxVars
<1>9. CASE WriteEnable
  <2>1. RxCountAgrees' /\ RxHoldsBytes'
    BY <1>9, RxUntouched DEF WriteEnable, Reading
  <2>2. txStored' = txStored
    BY <1>9 DEF WriteEnable, txStored
  <2> QED
    BY <1>9, <2>1, <2>2
    DEF WriteEnable, RingInv, RingTypeOK, TxCountAgrees, TxHoldsBytes, NeverStranded,
        Reading, Writing, rxVars
<1>10. CASE UNCHANGED ringVars
  BY <1>10, RxUntouched, TxUntouched DEF ringVars, rxVars, txVars, RingInv, RingTypeOK
<1> QED
  BY <1>1, <1>2, <1>3, <1>4, <1>5, <1>6, <1>7, <1>8, <1>9, <1>10 DEF RingNext

\* The program and both interrupt routines keep RingInv, whoever calls the driver.
THEOREM RingInvariant == RingSpec => []RingInv
BY InitInv, StepInv, PTL DEF RingSpec

\* Whatever the sizes of the rings, waiting bytes are never left with the transmit
\* interrupt off once USART2_Write has returned.
THEOREM NeverStrandedHolds == RingSpec => []NeverStranded
<1>1. RingInv => NeverStranded
  BY DEF RingInv
<1> QED
  BY <1>1, RingInvariant, PTL

-----------------------------------------------------------------------------
(***************************************************************************)
(* Each direction is a FIFO.                                               *)
(***************************************************************************)

LEMMA Grown ==
    ASSUME NEW S, NEW q \in Seq(S), NEW r \in Seq(S), Len(r) = Len(q) + 1,
           \A i \in 1 .. Len(q) : r[i] = q[i]
    PROVE  r = Append(q, r[Len(q) + 1])
<1>1. r[Len(q) + 1] \in S
  OBVIOUS
<1> QED
  BY <1>1, AppendProperties, SeqEqual

LEMMA Shrunk ==
    ASSUME NEW S, NEW q \in Seq(S), NEW r \in Seq(S), Len(q) = Len(r) + 1,
           \A i \in 1 .. Len(r) : r[i] = q[i + 1]
    PROVE  r = Tail(q) /\ q # <<>>
<1>1. Tail(q) \in Seq(S) /\ Len(Tail(q)) = Len(q) - 1 /\ q # <<>>
  BY LenProperties
<1>2. ASSUME NEW i \in 1 .. Len(r) PROVE r[i] = Tail(q)[i]
  BY LenProperties
<1> QED
  BY <1>1, <1>2, LenProperties, SeqEqual

LEMMA WaitingTyping ==
    ASSUME NEW buf, NEW tail, NEW n \in Nat, NEW size,
           \A i \in 1 .. n : buf[Place(tail, i, size)] \in Bytes
    PROVE  /\ Waiting(buf, tail, n, size) \in Seq(Bytes)
           /\ Len(Waiting(buf, tail, n, size)) = n
           /\ \A i \in 1 .. n : Waiting(buf, tail, n, size)[i] = buf[Place(tail, i, size)]
<1>1. Waiting(buf, tail, n, size) \in [1 .. n -> Bytes]
  BY DEF Waiting
<1> QED
  BY <1>1 DEF Waiting

LEMMA RxStutters ==
    ASSUME RingInv, RingInv', UNCHANGED <<rxHead, rxTail, rxbuf>>, rxWaiting' = rxWaiting,
           pc \in Reading <=> pc' \in Reading
    PROVE  UNCHANGED <<rxQueue, rxHand>>
BY DEF rxQueue, rxHand, Waiting, ByteRead

\* The receive interrupt puts the byte behind the others.
LEMMA RxPut ==
    ASSUME RingInv, RingInv', NEW b \in Bytes, DefaultRxIsrCb(b), ~RxFull
    PROVE  RxFifo!Put(b)
<1> USE RingAssumption
<1>1. /\ rxHead' = Next1(rxHead, RxSize)
      /\ rxbuf' = [rxbuf EXCEPT ![Next1(rxHead, RxSize)] = b]
      /\ rxTail' = rxTail /\ rxElements' = rxElements + 1 /\ pc' = pc
  BY DEF DefaultRxIsrCb
<1>2. rxWaiting \in 0 .. RxSize - 2 /\ rxWaiting' = rxWaiting + 1
  BY <1>1, FullRing DEF RingInv, RingTypeOK, RxCountAgrees, rxWaiting
<1>3. rxHead' = Place(rxTail, rxWaiting + 1, RxSize) /\ rxHead' \in 0 .. RxSize - 1
  BY <1>1, <1>2, PlaceOfPlace, PlaceInRing DEF RingInv, RingTypeOK, RxCountAgrees, Next1
<1>4. ASSUME NEW i \in 0 .. rxWaiting
      PROVE  /\ Place(rxTail, i, RxSize) \in 0 .. RxSize - 1
             /\ rxbuf'[Place(rxTail, i, RxSize)] = rxbuf[Place(rxTail, i, RxSize)]
  <2>1. i \in 0 .. RxSize /\ rxWaiting + 1 \in 0 .. RxSize /\ i < rxWaiting + 1
    BY <1>2
  <2>2. Place(rxTail, i, RxSize) \in 0 .. RxSize - 1
    BY <2>1, PlaceInRing DEF RingInv, RingTypeOK
  <2>3. Place(rxTail, i, RxSize) # rxHead'
    BY <2>1, <1>2, <1>3, PlacesDiffer DEF RingInv, RingTypeOK
  <2> QED
    BY <2>2, <2>3, <1>1 DEF RingInv, RingTypeOK
<1>5. /\ rxQueue \in Seq(Bytes) /\ Len(rxQueue) = rxWaiting
      /\ \A i \in 1 .. rxWaiting : rxQueue[i] = rxbuf[Place(rxTail, i, RxSize)]
  BY <1>2, WaitingTyping DEF RingInv, RxHoldsBytes, rxQueue
<1>6. /\ rxQueue' \in Seq(Bytes) /\ Len(rxQueue') = rxWaiting + 1
      /\ \A i \in 1 .. rxWaiting + 1 :
            rxQueue'[i] = rxbuf'[Place(rxTail, i, RxSize)]
  <2>1. \A i \in 1 .. rxWaiting + 1 : rxbuf'[Place(rxTail, i, RxSize)] \in Bytes
    BY <1>1, <1>2 DEF RingInv, RxHoldsBytes
  <2>2. rxQueue' = Waiting(rxbuf', rxTail, rxWaiting + 1, RxSize)
    BY <1>1, <1>2 DEF rxQueue
  <2>3. rxWaiting + 1 \in Nat
    BY <1>2
  <2> QED
    BY <2>1, <2>2, <2>3, WaitingTyping
<1>7. rxQueue'[rxWaiting + 1] = b
  BY <1>1, <1>2, <1>3, <1>6 DEF RingInv, RingTypeOK
<1>8. rxQueue' = Append(rxQueue, b)
  <2>1. \A i \in 1 .. Len(rxQueue) : rxQueue'[i] = rxQueue[i]
    BY <1>2, <1>4, <1>5, <1>6
  <2> HIDE DEF rxWaiting
  <2> QED
    BY <2>1, <1>5, <1>6, <1>7, Grown
<1>9. rxHand' = rxHand
  <2>1. rxTail = Place(rxTail, 0, RxSize) /\ 0 \in 0 .. rxWaiting
    BY <1>2 DEF RingInv, RingTypeOK, Place
  <2>2. rxbuf'[rxTail] = rxbuf[rxTail]
    BY <2>1, <1>4
  <2> QED
    BY <2>2, <1>1 DEF rxHand, ByteRead
<1> QED
  BY <1>2, <1>5, <1>8, <1>9 DEF RxFifo!Put

\* USART2_Read takes the first byte when it moves the tail, ...
LEMMA RxTake ==
    ASSUME RingInv, RingInv', ReadMove
    PROVE  RxFifo!Take
<1> USE RingAssumption
<1>1. /\ pc = "out" /\ rxElements # 0
      /\ rxTail' = Next1(rxTail, RxSize)
      /\ pc' = "moved"
      /\ UNCHANGED <<rxHead, rxElements, rxbuf>>
  BY DEF ReadMove, IsRxReady
<1>2. rxWaiting \in 1 .. RxSize - 1 /\ rxWaiting' = rxWaiting - 1
  BY <1>1 DEF RingInv, RingTypeOK, RxCountAgrees, rxWaiting
<1>3. \A i \in 0 .. rxWaiting - 1 :
         Place(rxTail', i, RxSize) = Place(rxTail, i + 1, RxSize)
  BY <1>1, <1>2, PlaceOfPlace DEF RingInv, RingTypeOK, Next1
<1>4. /\ rxQueue \in Seq(Bytes) /\ Len(rxQueue) = rxWaiting
      /\ \A i \in 1 .. rxWaiting : rxQueue[i] = rxbuf[Place(rxTail, i, RxSize)]
  <2>1. rxWaiting \in Nat
    BY <1>2
  <2>2. \A i \in 1 .. rxWaiting : rxbuf[Place(rxTail, i, RxSize)] \in Bytes
    BY DEF RingInv, RxHoldsBytes
  <2> HIDE DEF rxWaiting
  <2> QED
    BY <2>1, <2>2, WaitingTyping DEF rxQueue
<1>5. /\ rxQueue' \in Seq(Bytes) /\ Len(rxQueue') = rxWaiting - 1
      /\ \A i \in 1 .. rxWaiting - 1 :
            rxQueue'[i] = rxbuf[Place(rxTail', i, RxSize)]
  <2>1. \A i \in 1 .. rxWaiting - 1 : rxbuf[Place(rxTail', i, RxSize)] \in Bytes
    BY <1>1, <1>2 DEF RingInv, RxHoldsBytes
  <2>2. rxQueue' = Waiting(rxbuf, rxTail', rxWaiting - 1, RxSize)
    BY <1>1, <1>2 DEF rxQueue
  <2>3. rxWaiting - 1 \in Nat
    BY <1>2
  <2> QED
    BY <2>1, <2>2, <2>3, WaitingTyping
<1>6. rxQueue' = Tail(rxQueue) /\ rxQueue # <<>>
  <2>1. \A i \in 1 .. Len(rxQueue') : rxQueue'[i] = rxQueue[i + 1]
    BY <1>2, <1>3, <1>4, <1>5
  <2>2. Len(rxQueue) = Len(rxQueue') + 1
    BY <1>2, <1>4, <1>5
  <2> QED
    BY <2>1, <2>2, <1>4, <1>5, Shrunk
<1>7. rxHand = NoByte /\ rxHand' = rxbuf[Place(rxTail, 1, RxSize)]
  BY <1>1 DEF rxHand, ByteRead, Next1, Reading
<1>8. rxHand' = Head(rxQueue)
  BY <1>2, <1>4, <1>6, <1>7
<1> QED
  BY <1>6, <1>7, <1>8 DEF RxFifo!FifoNext, RxFifo!Take

\* ... and gives it to its caller when it returns.
LEMMA RxReturn ==
    ASSUME RingInv, RingInv', ReadReturn
    PROVE  RxFifo!Return
<1> USE RingAssumption
<1>1. rxWaiting' = rxWaiting /\ UNCHANGED rxVars /\ pc \in Reading /\ pc' \notin Reading
  BY DEF ReadReturn, rxWaiting, rxVars, Reading
<1>2. rxQueue' = rxQueue
  BY <1>1 DEF rxQueue, Waiting, rxVars
<1>3. rxHand = ByteRead /\ ByteRead \in Bytes /\ rxHand' = NoByte
  BY <1>1 DEF rxHand, RingInv, RxHoldsBytes, ByteRead
<1> QED
  BY <1>2, <1>3, RingAssumption DEF RxFifo!FifoNext, RxFifo!Return

LEMMA RxStep ==
    ASSUME RingInv, RingInv', [RingNext]_ringVars
    PROVE  [RxFifo!FifoNext]_<<rxQueue, rxHand>>
<1> USE RingAssumption
<1> DEFINE Stutter == UNCHANGED <<rxQueue, rxHand>>
<1>1. ASSUME NEW b \in Bytes, DefaultRxIsrCb(b), ~RxFull PROVE RxFifo!Put(b)
  BY <1>1, RxPut
<1>2. ASSUME NEW b \in Bytes, DefaultRxIsrCb(b), RxFull PROVE Stutter
  BY <1>2, RxStutters DEF DefaultRxIsrCb, rxVars, rxWaiting
<1>3. CASE ReadMove
  BY <1>3, RxTake DEF RxFifo!FifoNext
<1>4. CASE ReadCount
  <2>1. rxWaiting' = rxWaiting /\ UNCHANGED <<rxHead, rxTail, rxbuf>>
    BY <1>4 DEF ReadCount, rxWaiting, RingInv, RingTypeOK
  <2>2. pc \in Reading /\ pc' \in Reading
    BY <1>4 DEF ReadCount, Reading
  <2> QED
    BY <2>1, <2>2, RxStutters
<1>5. CASE ReadReturn
  BY <1>5, RxReturn DEF RxFifo!FifoNext
<1>6. ASSUME UNCHANGED rxVars, pc' = pc \/ {pc, pc'} \cap Reading = {} PROVE Stutter
  BY <1>6, RxStutters DEF rxVars, rxWaiting, Reading
<1>7. CASE DefaultTxIsrCb
  BY <1>6, <1>7 DEF DefaultTxIsrCb
<1>8. CASE Shift
  BY <1>6, <1>8 DEF Shift
<1>9. ASSUME NEW b \in Bytes, WriteStore(b) PROVE Stutter
  BY <1>6, <1>9 DEF WriteStore, Reading
<1>10. CASE WriteCount \/ WriteEnable
  BY <1>6, <1>10 DEF WriteCount, WriteEnable, Reading
<1>11. CASE UNCHANGED ringVars
  BY <1>6, <1>11 DEF ringVars
<1> HIDE DEF Stutter
<1>12. Stutter => [RxFifo!FifoNext]_<<rxQueue, rxHand>>
  BY DEF Stutter
<1> QED
  BY <1>1, <1>2, <1>3, <1>4, <1>5, <1>7, <1>8, <1>9, <1>10, <1>11, <1>12
  DEF RingNext, RxFifo!FifoNext

\* The receive ring is a FIFO of RxSize - 1 bytes for every size, with USART2_Read
\* interrupted anywhere.
THEOREM RxRefinesFifo == RingSpec => RxIsFifo
<1>1. RingInit => RxFifo!FifoInit
  BY DEF RingInit, RxFifo!FifoInit, rxQueue, rxHand, rxWaiting, Waiting, Reading
<1>2. RingInv /\ RingInv' /\ [RingNext]_ringVars => [RxFifo!FifoNext]_<<rxQueue, rxHand>>
  BY RxStep
<1> QED
  BY <1>1, <1>2, RingInvariant, PTL DEF RingSpec, RxIsFifo, RxFifo!FifoSpec

LEMMA TxStutters ==
    ASSUME UNCHANGED <<txTail, txElements, txData>>,
           txElements \in Nat,
           \A i \in 1 .. txElements :
              txbuf'[Place(txTail, i, TxSize)] = txbuf[Place(txTail, i, TxSize)]
    PROVE  UNCHANGED <<txQueue, txData>>
BY DEF txQueue, Waiting

LEMMA TxQueueTyping ==
    ASSUME RingInv
    PROVE  /\ txElements \in Nat
           /\ \A i \in 1 .. txElements : txbuf[Place(txTail, i, TxSize)] \in Bytes
           /\ txQueue \in Seq(Bytes) /\ Len(txQueue) = txElements
           /\ \A i \in 1 .. txElements : txQueue[i] = txbuf[Place(txTail, i, TxSize)]
<1>1. txElements \in Nat
  BY DEF RingInv, RingTypeOK
<1>2. \A i \in 1 .. txElements : i \in 1 .. txStored
  BY <1>1 DEF txStored
<1>3. \A i \in 1 .. txElements : txbuf[Place(txTail, i, TxSize)] \in Bytes
  BY <1>2 DEF RingInv, TxHoldsBytes
<1> QED
  BY <1>1, <1>3, WaitingTyping DEF txQueue

\* The same of the state after a step.
LEMMA TxQueueTypingNext ==
    ASSUME RingInv'
    PROVE  /\ txElements' \in Nat
           /\ txQueue' \in Seq(Bytes) /\ Len(txQueue') = txElements'
           /\ \A i \in 1 .. txElements' : txQueue'[i] = txbuf'[Place(txTail', i, TxSize)]
<1>1. txElements' \in Nat
  BY DEF RingInv, RingTypeOK
<1>2. txStored' = txElements' \/ txStored' = txElements' + 1
  BY <1>1 DEF txStored
<1>3. \A i \in 1 .. txElements' : txbuf'[Place(txTail', i, TxSize)] \in Bytes
  BY <1>1, <1>2 DEF RingInv, TxHoldsBytes
<1>4. txQueue' = Waiting(txbuf', txTail', txElements', TxSize)
  BY DEF txQueue
<1> QED
  BY <1>1, <1>3, <1>4, WaitingTyping

\* The transmit interrupt takes the first byte, ...
LEMMA TxTake ==
    ASSUME RingInv, RingInv', DefaultTxIsrCb, txElements # 0
    PROVE  TxFifo!Take
<1> USE RingAssumption
<1>1. /\ txData = NoByte
      /\ txTail' = Next1(txTail, TxSize)
      /\ txData' = txbuf[Next1(txTail, TxSize)]
      /\ txElements' = txElements - 1
      /\ txbuf' = txbuf
  BY DEF DefaultTxIsrCb
<1>2. ASSUME NEW i \in 1 .. txElements'
      PROVE  Place(txTail', i, TxSize) = Place(txTail, i + 1, TxSize)
  <2>1. 1 + i <= TxSize /\ i \in Nat
    BY TxQueueTyping, <1>1 DEF RingInv, RingTypeOK
  <2> QED
    BY <1>1, <2>1, PlaceOfPlace DEF RingInv, RingTypeOK, Next1
<1>3. ASSUME NEW i \in 1 .. Len(txQueue') PROVE txQueue'[i] = txQueue[i + 1]
  <2>1. i \in 1 .. txElements' /\ i + 1 \in 1 .. txElements
    BY TxQueueTyping, TxQueueTypingNext, <1>1
  <2>2. txQueue'[i] = txbuf[Place(txTail', i, TxSize)]
    BY TxQueueTypingNext, <1>1, <2>1
  <2>3. txQueue[i + 1] = txbuf[Place(txTail, i + 1, TxSize)]
    BY TxQueueTyping, <2>1
  <2> QED
    BY <1>2, <2>1, <2>2, <2>3
<1>4. Len(txQueue) = Len(txQueue') + 1
  BY TxQueueTyping, TxQueueTypingNext, <1>1
<1>5. txQueue' = Tail(txQueue) /\ txQueue # <<>>
  BY TxQueueTyping, TxQueueTypingNext, <1>3, <1>4, Shrunk
<1>6. txData' = Head(txQueue)
  BY TxQueueTyping, <1>1, <1>5 DEF Next1
<1> QED
  BY <1>1, <1>5, <1>6 DEF TxFifo!Take

\* ... a byte stored is behind the others once it is counted, ...
LEMMA TxPut ==
    ASSUME RingInv, RingInv', WriteCount
    PROVE  TxFifo!Put(txbuf[txHead])
<1> USE RingAssumption
<1>1. /\ pc = "stored" /\ txElements' = txElements + 1
      /\ UNCHANGED <<txTail, txbuf, txData>>
  BY DEF WriteCount
<1>2. txHead = Place(txTail, txElements + 1, TxSize) /\ txElements < TxSize
  BY <1>1, TxQueueTyping DEF RingInv, TxCountAgrees, txStored
<1>3. \A i \in 1 .. Len(txQueue) : txQueue'[i] = txQueue[i]
  BY TxQueueTyping, TxQueueTypingNext, <1>1
<1>4. txQueue'[Len(txQueue) + 1] = txbuf[txHead]
  BY TxQueueTyping, TxQueueTypingNext, <1>1, <1>2
<1>5. Len(txQueue') = Len(txQueue) + 1
  BY TxQueueTyping, TxQueueTypingNext, <1>1
<1>6. txQueue' = Append(txQueue, txbuf[txHead])
  BY TxQueueTyping, TxQueueTypingNext, <1>3, <1>4, <1>5, Grown
<1> QED
  BY TxQueueTyping, <1>1, <1>2, <1>6 DEF TxFifo!Put

\* ... and not before.
LEMMA TxStored ==
    ASSUME RingInv, RingInv', NEW b \in Bytes, WriteStore(b)
    PROVE  UNCHANGED <<txQueue, txData>> /\ txbuf'[txHead'] = b
<1> USE RingAssumption
<1>1. /\ pc = "out" /\ txElements # TxSize
      /\ txHead' = Next1(txHead, TxSize)
      /\ txbuf' = [txbuf EXCEPT ![Next1(txHead, TxSize)] = b]
      /\ UNCHANGED <<txTail, txElements, txData>>
  BY DEF WriteStore, IsTxReady
<1>2. txStored = txElements /\ txElements \in 0 .. TxSize - 1
  BY <1>1 DEF RingInv, RingTypeOK, txStored
<1>3. Next1(txHead, TxSize) = Place(txTail, txElements + 1, TxSize)
  <2>1. txHead = Place(txTail, txElements, TxSize) /\ txElements + 1 <= TxSize
    BY <1>2 DEF RingInv, TxCountAgrees
  <2>2. txTail \in 0 .. TxSize - 1 /\ TxSize \in Nat \ {0} /\ txElements \in Nat
    BY <1>2, RingAssumption DEF RingInv, RingTypeOK
  <2>3. Place(Place(txTail, txElements, TxSize), 1, TxSize)
            = Place(txTail, txElements + 1, TxSize)
    BY <2>1, <2>2, PlaceOfPlace
  <2> QED
    BY <2>1, <2>3 DEF Next1
<1>4. ASSUME NEW i \in 1 .. txElements
      PROVE  txbuf'[Place(txTail, i, TxSize)] = txbuf[Place(txTail, i, TxSize)]
  <2>1. i \in 0 .. TxSize /\ txElements + 1 \in 0 .. TxSize /\ i < txElements + 1 /\ i # 0
    BY <1>2
  <2>2. Place(txTail, i, TxSize) \in 0 .. TxSize - 1
    BY <2>1, PlaceInRing DEF RingInv, RingTypeOK
  <2>3. Place(txTail, i, TxSize) # Next1(txHead, TxSize)
    BY <2>1, <1>3, PlacesDiffer DEF RingInv, RingTypeOK
  <2> QED
    BY <2>2, <2>3, <1>1 DEF RingInv, RingTypeOK
<1>5. txbuf'[txHead'] = b
  BY <1>1, <1>3, PlaceInRing DEF RingInv, RingTypeOK, Next1
<1>6. txElements \in Nat
  BY <1>2
<1> QED
  BY <1>1, <1>4, <1>5, <1>6, TxStutters

LEMMA TxStep ==
    ASSUME RingInv, RingInv', [RingNext]_ringVars
    PROVE  [TxFifo!FifoNext]_<<txQueue, txData>>
<1> USE RingAssumption
<1> DEFINE Stutter == UNCHANGED <<txQueue, txData>>
<1>1. txElements \in Nat
  BY DEF RingInv, RingTypeOK
<1>2. ASSUME DefaultTxIsrCb, txElements # 0 PROVE TxFifo!Take
  BY <1>2, TxTake
<1>3. ASSUME DefaultTxIsrCb, txElements = 0 PROVE Stutter
  BY <1>1, <1>3, TxStutters DEF DefaultTxIsrCb
<1>4. ASSUME Shift PROVE TxFifo!Return
  <2>1. UNCHANGED <<txTail, txElements, txbuf>> /\ txData # NoByte /\ txData' = NoByte
    BY <1>4 DEF Shift
  <2>2. txQueue' = txQueue
    BY <2>1 DEF txQueue, Waiting
  <2> QED
    BY <2>1, <2>2 DEF TxFifo!Return
<1>5. ASSUME NEW b \in Bytes, WriteStore(b) PROVE Stutter
  BY <1>5, TxStored
<1>6. ASSUME WriteCount PROVE TxFifo!Put(txbuf[txHead])
  BY <1>6, TxPut
<1>7. ASSUME WriteCount PROVE txbuf[txHead] \in Bytes
  <2>1. txStored \in 1 .. TxSize /\ txHead = Place(txTail, txStored, TxSize)
    BY <1>7 DEF WriteCount, RingInv, RingTypeOK, TxCountAgrees, txStored
  <2> QED
    BY <2>1 DEF RingInv, TxHoldsBytes
<1>8. ASSUME UNCHANGED <<txTail, txElements, txbuf, txData>> PROVE Stutter
  BY <1>1, <1>8, TxStutters
<1>9. CASE \/ \E b \in Bytes : DefaultRxIsrCb(b)
           \/ ReadMove \/ ReadCount \/ ReadReturn \/ WriteEnable
           \/ UNCHANGED ringVars
  BY <1>8, <1>9
  DEF DefaultRxIsrCb, ReadMove, ReadCount, ReadReturn, WriteEnable, ringVars, txVars
<1> HIDE DEF Stutter
<1>10. Stutter => [TxFifo!FifoNext]_<<txQueue, txData>>
  BY DEF Stutter
<1> QED
  BY <1>2, <1>3, <1>4, <1>5, <1>6, <1>7, <1>9, <1>10 DEF RingNext, TxFifo!FifoNext

\* The transmit ring is a FIFO of TxSize bytes for every size: it is filled to its last
\* place, and the interrupt takes bytes at any point of USART2_Write.
THEOREM TxRefinesFifo == RingSpec => TxIsFifo
<1>1. RingInit => TxFifo!FifoInit
  BY DEF RingInit, TxFifo!FifoInit, txQueue, Waiting
<1>2. RingInv /\ RingInv' /\ [RingNext]_ringVars => [TxFifo!FifoNext]_<<txQueue, txData>>
  BY TxStep
<1> QED
  BY <1>1, <1>2, RingInvariant, PTL DEF RingSpec, TxIsFifo, TxFifo!FifoSpec

-----------------------------------------------------------------------------
(***************************************************************************)
(* All the bytes of a direction, the one in the hand before those that     *)
(* wait: what goes in at the end comes out at the front.                   *)
(***************************************************************************)

handed  == IF pc \in Reading THEN <<ByteRead>> ELSE <<>>
arrived == handed \o rxQueue

sending == IF txData = NoByte THEN <<>> ELSE <<txData>>
leaving == sending \o txQueue

LEMMA FirstAndRest ==
    ASSUME NEW S, NEW q \in Seq(S), q # <<>>
    PROVE  <<Head(q)>> \o Tail(q) = q
<1>1. /\ Head(q) \in S /\ Tail(q) \in Seq(S) /\ Len(Tail(q)) = Len(q) - 1
      /\ \A i \in 1 .. Len(Tail(q)) : Tail(q)[i] = q[i + 1]
  BY HeadTailProperties
<1>2. <<Head(q)>> \in Seq(S) /\ Len(<<Head(q)>>) = 1 /\ Head(q) = q[1]
  BY <1>1
<1>3. Len(q) \in Nat \ {0}
  BY EmptySeq
<1> DEFINE r == <<Head(q)>> \o Tail(q)
<1>4. /\ r \in Seq(S) /\ Len(r) = Len(q)
      /\ \A i \in 1 .. Len(q) : r[i] = IF i <= 1 THEN <<Head(q)>>[i] ELSE Tail(q)[i - 1]
  BY <1>1, <1>2, <1>3, ConcatProperties
<1> HIDE DEF r
<1>5. ASSUME NEW i \in 1 .. Len(q) PROVE r[i] = q[i]
  <2>1. CASE i = 1
    BY <1>2, <1>4, <2>1
  <2>2. CASE i # 1
    BY <1>1, <1>3, <1>4, <2>2
  <2> QED
    BY <2>1, <2>2
<1>6. r = q
  BY <1>4, <1>5, SeqEqual
<1> QED
  BY <1>6 DEF r

LEMMA AppendConcat ==
    ASSUME NEW S, NEW s \in Seq(S), NEW t \in Seq(S), NEW e \in S
    PROVE  /\ Append(s, e) \o t = s \o (<<e>> \o t)
           /\ s \o Append(t, e) = Append(s \o t, e)
<1>1. <<e>> \in Seq(S)
  OBVIOUS
<1>2. Append(s, e) = s \o <<e>> /\ Append(t, e) = t \o <<e>>
      /\ Append(s \o t, e) = (s \o t) \o <<e>>
  BY AppendIsConcat, ConcatProperties
<1> QED
  BY <1>1, <1>2, ConcatAssociative

LEMMA RxQueueTyping ==
    ASSUME RingInv
    PROVE  /\ rxQueue \in Seq(Bytes) /\ Len(rxQueue) = rxWaiting
           /\ rxWaiting \in Nat
<1>1. rxWaiting \in Nat /\ \A i \in 1 .. rxWaiting : rxbuf[Place(rxTail, i, RxSize)] \in Bytes
  BY RingAssumption DEF RingInv, RxCountAgrees, RxHoldsBytes
<1> HIDE DEF rxWaiting
<1> QED
  BY <1>1, WaitingTyping DEF rxQueue

LEMMA DirectionsTyping ==
    ASSUME RingInv
    PROVE  /\ handed \in Seq(Bytes) /\ arrived \in Seq(Bytes)
           /\ sending \in Seq(Bytes) /\ leaving \in Seq(Bytes)
<1>1. handed \in Seq(Bytes)
  BY DEF handed, ByteRead, RingInv, RxHoldsBytes
<1>2. sending \in Seq(Bytes)
  BY DEF sending, RingInv, RingTypeOK
<1> QED
  BY <1>1, <1>2, RxQueueTyping, TxQueueTyping, ConcatProperties DEF arrived, leaving

\* A byte the receive interrupt accepts is behind the others, ...
LEMMA ArrivedGrows ==
    ASSUME RingInv, RingInv', NEW b \in Bytes, DefaultRxIsrCb(b), ~RxFull
    PROVE  arrived' = Append(arrived, b)
<1>1. RxFifo!Put(b)
  BY RxPut
<1>2. rxQueue' = Append(rxQueue, b) /\ rxHand' = rxHand
  BY <1>1 DEF RxFifo!Put
<1>3. pc' = pc
  BY DEF DefaultRxIsrCb
<1>4. handed' = handed
  BY <1>2, <1>3 DEF handed, rxHand
<1> QED
  BY <1>2, <1>4, RxQueueTyping, DirectionsTyping, AppendConcat DEF arrived

\* ... the one USART2_Read returns is the first, ...
LEMMA ArrivedReturned ==
    ASSUME RingInv, RingInv', ReadReturn
    PROVE  arrived = <<ByteRead>> \o arrived' /\ ByteRead \in Bytes
<1>1. RxFifo!Return
  BY RxReturn
<1>2. rxQueue' = rxQueue /\ pc = "recounted" /\ pc' = "out"
  BY <1>1 DEF RxFifo!Return, ReadReturn
<1>3. handed = <<ByteRead>> /\ handed' = <<>>
  BY <1>2 DEF handed, Reading
<1>4. arrived' = rxQueue
  BY <1>2, <1>3, RxQueueTyping, ConcatEmptySeq DEF arrived
<1> QED
  BY <1>2, <1>3, <1>4 DEF arrived, RingInv, RxHoldsBytes, ByteRead, Reading

\* ... and nothing else changes them.
LEMMA ArrivedKept ==
    ASSUME RingInv, RingInv',
           \/ ReadMove \/ ReadCount
           \/ UNCHANGED rxVars /\ (pc' = pc \/ {pc, pc'} \cap Reading = {})
    PROVE  arrived' = arrived
<1>1. CASE ReadMove
  <2>1. RxFifo!Take
    BY <1>1, RxTake
  <2>2. rxQueue # <<>> /\ rxHand' = Head(rxQueue) /\ rxQueue' = Tail(rxQueue)
    BY <2>1 DEF RxFifo!Take
  <2>3. pc = "out" /\ pc' = "moved"
    BY <1>1 DEF ReadMove
  <2>4. handed = <<>> /\ handed' = <<Head(rxQueue)>>
    BY <2>2, <2>3 DEF handed, rxHand, Reading
  <2>5. arrived = rxQueue
    BY <2>4, RxQueueTyping, ConcatEmptySeq DEF arrived
  <2> QED
    BY <2>2, <2>4, <2>5, RxQueueTyping, FirstAndRest DEF arrived
<1>2. CASE ReadCount
  <2>1. rxWaiting' = rxWaiting /\ UNCHANGED <<rxHead, rxTail, rxbuf>>
    BY <1>2 DEF ReadCount, rxWaiting, RingInv, RingTypeOK
  <2>2. pc \in Reading /\ pc' \in Reading
    BY <1>2 DEF ReadCount, Reading
  <2> QED
    BY <2>1, <2>2, RxStutters DEF arrived, handed, rxHand
<1>3. CASE UNCHANGED rxVars /\ (pc' = pc \/ {pc, pc'} \cap Reading = {})
  <2>1. UNCHANGED rxQueue
    BY <1>3, RxStutters DEF rxVars, rxWaiting, Reading
  <2>2. UNCHANGED handed
    BY <1>3 DEF handed, ByteRead, rxVars
  <2> QED
    BY <2>1, <2>2 DEF arrived
<1> QED
  BY <1>1, <1>2, <1>3

\* A byte USART2_Write counts is behind the others, ...
LEMMA LeavingGrows ==
    ASSUME RingInv, RingInv', WriteCount
    PROVE  leaving' = Append(leaving, txbuf[txHead]) /\ txbuf[txHead] \in Bytes
<1>1. TxFifo!Put(txbuf[txHead])
  BY TxPut
<1>2. txQueue' = Append(txQueue, txbuf[txHead]) /\ txData' = txData
  BY <1>1 DEF TxFifo!Put
<1>3. txbuf[txHead] \in Bytes
  <2>1. txStored \in 1 .. TxSize /\ txHead = Place(txTail, txStored, TxSize)
    BY DEF WriteCount, RingInv, RingTypeOK, TxCountAgrees, txStored
  <2> QED
    BY <2>1 DEF RingInv, TxHoldsBytes
<1>4. sending' = sending
  BY <1>2 DEF sending
<1> QED
  BY <1>2, <1>3, <1>4, TxQueueTyping, DirectionsTyping, AppendConcat DEF leaving

\* ... the one the USART has shifted out was the first, ...
LEMMA LeavingSent ==
    ASSUME RingInv, RingInv', Shift
    PROVE  leaving = <<txData>> \o leaving' /\ txData \in Bytes
<1>1. UNCHANGED <<txTail, txElements, txbuf>> /\ txData # NoByte /\ txData' = NoByte
  BY DEF Shift
<1>2. txQueue' = txQueue
  BY <1>1 DEF txQueue, Waiting
<1>3. sending = <<txData>> /\ sending' = <<>>
  BY <1>1 DEF sending
<1>4. leaving' = txQueue
  BY <1>2, <1>3, TxQueueTyping, ConcatEmptySeq DEF leaving
<1> QED
  BY <1>1, <1>3, <1>4 DEF leaving, RingInv, RingTypeOK

\* ... and nothing else changes them.
LEMMA LeavingKept ==
    ASSUME RingInv, RingInv',
           \/ DefaultTxIsrCb \/ WriteEnable \/ UNCHANGED txVars
           \/ \E b \in Bytes : WriteStore(b)
    PROVE  leaving' = leaving
<1>1. CASE DefaultTxIsrCb /\ txElements # 0
  <2>1. TxFifo!Take
    BY <1>1, TxTake
  <2>2. txQueue # <<>> /\ txData = NoByte
        /\ txData' = Head(txQueue) /\ txQueue' = Tail(txQueue)
    BY <2>1 DEF TxFifo!Take
  <2>3. Head(txQueue) \in Bytes
    BY <2>2, TxQueueTyping, HeadTailProperties
  <2>4. sending = <<>> /\ sending' = <<Head(txQueue)>>
    BY <2>2, <2>3, RingAssumption DEF sending
  <2>5. leaving = txQueue
    BY <2>4, TxQueueTyping, ConcatEmptySeq DEF leaving
  <2> QED
    BY <2>2, <2>4, <2>5, TxQueueTyping, FirstAndRest DEF leaving
<1>2. CASE DefaultTxIsrCb /\ txElements = 0
  <2>1. UNCHANGED <<txTail, txElements, txbuf, txData>>
    BY <1>2 DEF DefaultTxIsrCb
  <2> QED
    BY <2>1 DEF leaving, sending, txQueue, Waiting
<1>3. CASE WriteEnable \/ UNCHANGED txVars
  BY <1>3 DEF WriteEnable, txVars, leaving, sending, txQueue, Waiting
<1>4. CASE \E b \in Bytes : WriteStore(b)
  <2>1. UNCHANGED <<txQueue, txData>>
    BY <1>4, TxStored
  <2> QED
    BY <2>1 DEF leaving, sending
<1> QED
  BY <1>1, <1>2, <1>3, <1>4

=============================================================================
