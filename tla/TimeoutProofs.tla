--------------------------- MODULE TimeoutProofs ---------------------------
(***************************************************************************)
(* The timer driver for every number of timers, every size of the counter  *)
(* and of the absolute times: the links of the lists and the refinement of *)
(* the abstract service hold over the wrap of the absolute times, their    *)
(* order until then.                                                       *)
(***************************************************************************)
EXTENDS Timeout, SequenceTheorems, FiniteSetTheorems, TLAPS

Nodes == Timers \cup {Dummy}

\* A list of running timers: each at most once, the dummy at most at its head.
WellLinked(list) ==
    /\ list \in Seq(Nodes)
    /\ IsInjective(list)
    /\ \A i \in 2 .. Len(list) : list[i] # Dummy

\* What the driver is doing fits the place where it is.
OpFitsPC ==
    /\ pc \in {"idle", "pop"} => op.kind = "none"
    /\ pc \in {"createAbs", "createInsert"} => op.kind = "create"
    /\ pc \in {"listSearch", "queueCheck", "queueSearch"} => op.kind # "none"
    /\ pc = "flush" => op.kind = "flush"
    /\ op.kind \in {"create", "delete"} => op.timer \in Timers
    /\ op.kind = "create" => op.timeout \in Timeouts
    /\ pc \in {"pop", "queueSearch"} => executeQueueHead # <<>>

\* No timer is in two lists, and a timer that has been looked for in a list is not
\* in it any more.
Unlinked ==
    /\ WellLinked(listHead)
    /\ IsInjective(executeQueueHead)
    /\ Range(listHead) \cap Range(executeQueueHead) = {}
    /\ pc \in {"createAbs", "createInsert"}
          => op.timer \notin Range(listHead) \cup Range(executeQueueHead)
    /\ pc \in {"queueCheck", "queueSearch"} /\ op.kind # "flush"
          => op.timer \notin Range(listHead)

\* timeout_flushAll has set the time base to 0 and deleted nothing yet.
FlushBegun ==
    /\ op.kind = "flush" /\ ~ovfIE
    /\ pc = "flush" \/ (pc = "listSearch" /\ op.timer = Head(listHead))

\* A dummy at the head is one period away from the time base, on the circle of words.
DummyWhole ==
    listHead # <<>> /\ Head(listHead) = Dummy =>
        FlushBegun \/ Sub32(absoluteTime[Dummy], absoluteTimeofLastTimeout) = MaxLoad

\* ArmedForHead, with the difference of the times taken on the circle of words, and in
\* timeout_flushAll too once it has deleted a timer.
Armed ==
    listHead # <<>> /\ ~FlushBegun =>
        /\ isRunning
        /\ lastTimerLoad + Sub32(absoluteTime[Head(listHead)], absoluteTimeofLastTimeout)
              = MaxLoad
        /\ pc # "createInsert" => ovfIE
        /\ pc = "pop" => tempIE

CriticalSection == pc = "createInsert" => ~ovfIE

LinkInv ==
    /\ TypeOK
    /\ OpFitsPC
    /\ Unlinked
    /\ DummyWhole
    /\ Armed
    /\ CriticalSection

\* The times that are not made yet will not wrap, and one that is made does not lie
\* before the time base.
TimesInv ==
    /\ ListSorted
    /\ op.kind = "create" /\ pc # "createInsert" => InTime(op.timeout)
    /\ pc = "createInsert" => absoluteTimeofLastTimeout <= absoluteTime[op.timer]

\* No absolute time wraps.
NoWrap == MaxTime + MaxLoad < Modulus

-----------------------------------------------------------------------------
(***************************************************************************)
(* Words.                                                                  *)
(***************************************************************************)

LEMMA WordsAreModular ==
    \A a, b \in Word :
        /\ Add32(a, b) = IF a + b < Modulus THEN a + b ELSE a + b - Modulus
        /\ Sub32(a, b) = IF b <= a THEN a - b ELSE a - b + Modulus
        /\ Add32(a, b) \in Word
        /\ Sub32(a, b) \in Word
BY CounterAssumption DEF Add32, Sub32, Word

\* Moving both times leaves their distance.
LEMMA DistanceKept ==
    ASSUME NEW a \in Word, NEW b \in Word, NEW c \in Word
    PROVE  Sub32(Sub32(a, c), Sub32(b, c)) = Sub32(a, b)
<1>1. Sub32(a, c) \in Word /\ Sub32(b, c) \in Word
  BY WordsAreModular
<1>2. /\ Sub32(a, c) = IF c <= a THEN a - c ELSE a - c + Modulus
      /\ Sub32(b, c) = IF c <= b THEN b - c ELSE b - c + Modulus
      /\ Sub32(a, b) = IF b <= a THEN a - b ELSE a - b + Modulus
      /\ Sub32(Sub32(a, c), Sub32(b, c)) =
            IF Sub32(b, c) <= Sub32(a, c) THEN Sub32(a, c) - Sub32(b, c)
            ELSE Sub32(a, c) - Sub32(b, c) + Modulus
  BY <1>1, WordsAreModular
<1> HIDE DEF Sub32
<1>3. a \in Nat /\ b \in Nat /\ c \in Nat /\ a < Modulus /\ b < Modulus /\ c < Modulus
      /\ Modulus \in Nat
  BY CounterAssumption DEF Word
<1> QED
  BY <1>1, <1>2, <1>3

LEMMA DistanceOfSum ==
    ASSUME NEW a \in Word, NEW b \in Word
    PROVE  Sub32(Add32(a, b), a) = b
<1>1. Add32(a, b) \in Word
  BY WordsAreModular
<1>2. /\ Add32(a, b) = IF a + b < Modulus THEN a + b ELSE a + b - Modulus
      /\ Sub32(Add32(a, b), a) = IF a <= Add32(a, b) THEN Add32(a, b) - a
                                 ELSE Add32(a, b) - a + Modulus
  BY <1>1, WordsAreModular
<1>3. a \in Nat /\ b \in Nat /\ a < Modulus /\ b < Modulus /\ Modulus \in Nat
  BY CounterAssumption DEF Word
<1> QED
  BY <1>1, <1>2, <1>3

-----------------------------------------------------------------------------
(***************************************************************************)
(* Lists.                                                                  *)
(***************************************************************************)

LEMMA HeadInRange ==
    ASSUME NEW S, NEW s \in Seq(S), s # <<>>
    PROVE  /\ Len(s) \in Nat \ {0}
           /\ Head(s) = s[1]
           /\ Head(s) \in Range(s)
           /\ Head(s) \in S
<1>1. Len(s) \in Nat \ {0} /\ DOMAIN s = 1 .. Len(s)
  BY LenProperties, EmptySeq
<1>2. Head(s) = s[1] /\ Head(s) \in S
  BY HeadTailProperties
<1> QED
  BY <1>1, <1>2 DEF Range

LEMMA TailOfList ==
    ASSUME NEW S, NEW s \in Seq(S), s # <<>>, IsInjective(s)
    PROVE  /\ Tail(s) \in Seq(S)
           /\ Len(Tail(s)) = Len(s) - 1
           /\ \A i \in 1 .. Len(s) - 1 : Tail(s)[i] = s[i + 1]
           /\ IsInjective(Tail(s))
           /\ Range(Tail(s)) = Range(s) \ {Head(s)}
<1>1. /\ Len(s) \in Nat \ {0} /\ DOMAIN s = 1 .. Len(s) /\ Head(s) = s[1]
  BY HeadInRange, LenProperties
<1>2. /\ Tail(s) \in Seq(S)
      /\ Len(Tail(s)) = Len(s) - 1
      /\ \A i \in 1 .. Len(s) - 1 : Tail(s)[i] = s[i + 1]
  BY HeadTailProperties
<1>3. DOMAIN Tail(s) = 1 .. Len(s) - 1
  BY <1>2, LenProperties
<1>4. IsInjective(Tail(s))
  BY <1>1, <1>2, <1>3 DEF IsInjective
<1>5. ASSUME NEW x \in Range(s) \ {Head(s)} PROVE x \in Range(Tail(s))
  <2>1. PICK i \in 1 .. Len(s) : s[i] = x
    BY <1>1 DEF Range
  <2>2. i - 1 \in 1 .. Len(s) - 1 /\ Tail(s)[i - 1] = x
    BY <1>1, <1>2, <2>1
  <2> QED
    BY <1>3, <2>2 DEF Range
<1>6. ASSUME NEW x \in Range(Tail(s)) PROVE x \in Range(s) \ {Head(s)}
  <2>1. PICK i \in 1 .. Len(s) - 1 : Tail(s)[i] = x
    BY <1>3 DEF Range
  <2>2. i + 1 \in 1 .. Len(s) /\ s[i + 1] = x /\ s[i + 1] # s[1]
    BY <1>1, <1>2, <2>1 DEF IsInjective
  <2> QED
    BY <1>1, <2>2 DEF Range
<1> QED
  BY <1>2, <1>4, <1>5, <1>6

LEMMA ConsOfList ==
    ASSUME NEW S, NEW s \in Seq(S), NEW x \in S, x \notin Range(s), IsInjective(s)
    PROVE  /\ <<x>> \o s \in Seq(S)
           /\ <<x>> \o s # <<>>
           /\ Len(<<x>> \o s) = Len(s) + 1
           /\ Head(<<x>> \o s) = x
           /\ (<<x>> \o s)[1] = x
           /\ \A i \in 2 .. Len(s) + 1 : (<<x>> \o s)[i] = s[i - 1]
           /\ IsInjective(<<x>> \o s)
           /\ Range(<<x>> \o s) = Range(s) \cup {x}
<1> DEFINE c == <<x>> \o s
<1>1. Len(s) \in Nat /\ DOMAIN s = 1 .. Len(s)
  BY LenProperties
<1>2. <<x>> \in Seq(S) /\ Len(<<x>>) = 1 /\ <<x>>[1] = x
  OBVIOUS
<1>3. /\ c \in Seq(S)
      /\ Len(c) = Len(s) + 1
      /\ \A i \in 1 .. Len(s) + 1 : c[i] = IF i <= 1 THEN <<x>>[i] ELSE s[i - 1]
  BY <1>1, <1>2, ConcatProperties
<1> HIDE DEF c
<1>4. c[1] = x /\ \A i \in 2 .. Len(s) + 1 : c[i] = s[i - 1]
  BY <1>1, <1>2, <1>3
<1>5. DOMAIN c = 1 .. Len(s) + 1 /\ c # <<>>
  BY <1>1, <1>3, LenProperties, EmptySeq
<1>6. \A i \in 1 .. Len(s) : s[i] # x
  BY <1>1 DEF Range
<1>7. IsInjective(c)
  <2> SUFFICES ASSUME NEW i \in 1 .. Len(s) + 1, NEW j \in 1 .. Len(s) + 1, c[i] = c[j]
               PROVE  i = j
    BY <1>5 DEF IsInjective
  <2>1. CASE i = 1 \/ j = 1
    BY <1>1, <1>4, <1>6, <2>1
  <2>2. CASE i # 1 /\ j # 1
    <3>1. i - 1 \in DOMAIN s /\ j - 1 \in DOMAIN s /\ s[i - 1] = s[j - 1]
      BY <1>1, <1>4, <2>2
    <3> QED
      BY <3>1 DEF IsInjective
  <2> QED
    BY <2>1, <2>2
<1>8. Range(c) = Range(s) \cup {x}
  <2>1. ASSUME NEW y \in Range(c) PROVE y \in Range(s) \cup {x}
    BY <1>1, <1>4, <1>5 DEF Range
  <2>2. ASSUME NEW y \in Range(s) PROVE y \in Range(c)
    <3>1. PICK i \in 1 .. Len(s) : s[i] = y
      BY <1>1 DEF Range
    <3>2. i + 1 \in 1 .. Len(s) + 1 /\ c[i + 1] = y
      BY <1>1, <1>4, <3>1
    <3> QED
      BY <1>5, <3>2 DEF Range
  <2>3. x \in Range(c)
    BY <1>1, <1>4, <1>5 DEF Range
  <2> QED
    BY <2>1, <2>2, <2>3
<1>9. Head(c) = x
  BY <1>3, <1>4, <1>5, HeadInRange
<1> QED
  BY <1>3, <1>4, <1>5, <1>7, <1>8, <1>9 DEF c

LEMMA AppendToList ==
    ASSUME NEW S, NEW s \in Seq(S), NEW x \in S, x \notin Range(s), IsInjective(s)
    PROVE  /\ Append(s, x) \in Seq(S)
           /\ Append(s, x) # <<>>
           /\ IsInjective(Append(s, x))
           /\ Range(Append(s, x)) = Range(s) \cup {x}
<1> DEFINE a == Append(s, x)
<1>1. Len(s) \in Nat /\ DOMAIN s = 1 .. Len(s)
  BY LenProperties
<1>2. /\ a \in Seq(S) /\ a # <<>> /\ Len(a) = Len(s) + 1
      /\ \A i \in 1 .. Len(s) : a[i] = s[i]
      /\ a[Len(s) + 1] = x
  BY AppendProperties
<1> HIDE DEF a
<1>3. DOMAIN a = 1 .. Len(s) + 1
  BY <1>2, LenProperties
<1>4. \A i \in 1 .. Len(s) : s[i] # x
  BY <1>1 DEF Range
<1>5. IsInjective(a)
  BY <1>1, <1>2, <1>3, <1>4 DEF IsInjective
<1>6. Range(a) = Range(s) \cup {x}
  <2>1. ASSUME NEW y \in Range(a) PROVE y \in Range(s) \cup {x}
    <3>1. PICK i \in 1 .. Len(s) + 1 : a[i] = y
      BY <1>3 DEF Range
    <3>2. i \in 1 .. Len(s) \/ i = Len(s) + 1
      BY <1>1
    <3> QED
      BY <1>1, <1>2, <3>1, <3>2 DEF Range
  <2>2. ASSUME NEW y \in Range(s) PROVE y \in Range(a)
    <3>1. PICK i \in 1 .. Len(s) : s[i] = y
      BY <1>1 DEF Range
    <3>2. i \in 1 .. Len(s) + 1
      BY <1>1
    <3> QED
      BY <1>2, <1>3, <3>1, <3>2 DEF Range
  <2>3. x \in Range(a)
    <3>1. Len(s) + 1 \in 1 .. Len(s) + 1
      BY <1>1
    <3> QED
      BY <1>2, <1>3, <3>1 DEF Range
  <2> QED
    BY <2>1, <2>2, <2>3
<1> QED
  BY <1>2, <1>5, <1>6 DEF a

\* What is left of a list when a timer has been taken out.
LEMMA RestOfList ==
    ASSUME NEW S, NEW s \in Seq(S), NEW x, IsInjective(s)
    PROVE  /\ Remaining(s, x) \in Seq(S)
           /\ IsInjective(Remaining(s, x))
           /\ Range(Remaining(s, x)) = Range(s) \ {x}
           /\ x \notin Range(s) => Remaining(s, x) = s
           /\ x \in Range(s) => \E p \in 1 .. Len(s) :
                 /\ s[p] = x
                 /\ Remaining(s, x) = RemoveAt(s, p)
                 /\ Len(Remaining(s, x)) = Len(s) - 1
                 /\ \A i \in 1 .. Len(s) - 1 :
                       Remaining(s, x)[i] = IF i < p THEN s[i] ELSE s[i + 1]
<1>1. Len(s) \in Nat /\ DOMAIN s = 1 .. Len(s) /\ \A i \in 1 .. Len(s) : s[i] \in S
  BY LenProperties, ElementOfSeq
<1>2. CASE x \notin Range(s)
  BY <1>2 DEF Remaining
<1>3. CASE x \in Range(s)
  <2>1. PICK p \in 1 .. Len(s) : s[p] = x
    BY <1>1, <1>3 DEF Range
  <2>2. \A i \in 1 .. Len(s) : s[i] = x <=> i = p
    BY <1>1, <2>1 DEF IsInjective
  <2>3. (CHOOSE i \in 1 .. Len(s) : s[i] = x /\ \A j \in 1 .. (i - 1) : s[j] # x) = p
    BY <1>1, <2>1, <2>2
  <2>4. Remaining(s, x) = RemoveAt(s, p)
    BY <1>3, <2>3 DEF Remaining
  <2> DEFINE a == SubSeq(s, 1, p - 1)
             b == SubSeq(s, p + 1, Len(s))
             r == RemoveAt(s, p)
  <2>5. /\ a \in Seq(S) /\ Len(a) = p - 1
        /\ \A i \in 1 .. p - 1 : a[i] = s[i]
    <3>1. \A i \in 1 .. p - 1 : s[i] \in S
      BY <1>1
    <3> QED
      BY <1>1, <3>1, SubSeqProperties
  <2>6. /\ b \in Seq(S) /\ Len(b) = Len(s) - p
        /\ \A i \in 1 .. Len(s) - p : b[i] = s[p + i]
    <3>1. \A i \in p + 1 .. Len(s) : s[i] \in S
      BY <1>1
    <3>2. p + 1 \in Int /\ Len(s) \in Int
      BY <1>1
    <3>3. /\ b \in Seq(S)
          /\ Len(b) = IF p + 1 <= Len(s) THEN Len(s) - (p + 1) + 1 ELSE 0
          /\ \A i \in 1 .. Len(s) - (p + 1) + 1 : b[i] = s[(p + 1) + i - 1]
      BY <3>1, <3>2, SubSeqProperties
    <3> HIDE DEF b
    <3>4. ASSUME NEW i \in 1 .. Len(s) - p PROVE b[i] = s[p + i]
      <4>1. i \in 1 .. Len(s) - (p + 1) + 1 /\ (p + 1) + i - 1 = p + i
        BY <1>1
      <4> QED
        BY <3>3, <4>1
    <3>5. Len(b) = Len(s) - p
      <4>1. p \in Nat /\ p <= Len(s)
        BY <1>1
      <4>2. CASE p + 1 <= Len(s)
        BY <1>1, <3>3, <4>1, <4>2
      <4>3. CASE ~(p + 1 <= Len(s))
        <5>0. Len(s) \in Nat
          BY <1>1
        <5>1. p = Len(s)
          BY <4>1, <4>3, <5>0
        <5>2. Len(b) = 0
          BY <3>3, <4>3
        <5> QED
          BY <1>1, <5>1, <5>2
      <4> QED
        BY <4>2, <4>3
    <3> QED
      BY <3>3, <3>4, <3>5
  <2>7. /\ r \in Seq(S) /\ Len(r) = Len(s) - 1
        /\ \A i \in 1 .. Len(s) - 1 : r[i] = IF i < p THEN s[i] ELSE s[i + 1]
    <3>1. r = a \o b
      BY DEF RemoveAt
    <3> HIDE DEF a, b, r
    <3>2. /\ r \in Seq(S) /\ Len(r) = Len(a) + Len(b)
          /\ \A i \in 1 .. Len(a) + Len(b) :
                r[i] = IF i <= Len(a) THEN a[i] ELSE b[i - Len(a)]
      BY <2>5, <2>6, <3>1, ConcatProperties
    <3>3. ASSUME NEW i \in 1 .. Len(s) - 1 PROVE r[i] = IF i < p THEN s[i] ELSE s[i + 1]
      <4>1. r[i] = IF i <= p - 1 THEN a[i] ELSE b[i - (p - 1)]
        BY <1>1, <2>5, <2>6, <3>2
      <4>2. CASE i < p
        BY <1>1, <2>5, <4>1, <4>2
      <4>3. CASE i >= p
        <5>1. i - (p - 1) \in 1 .. Len(s) - p /\ p + (i - (p - 1)) = i + 1
          BY <1>1, <4>3
        <5> QED
          BY <1>1, <2>6, <4>1, <4>3, <5>1
      <4> QED
        BY <1>1, <4>2, <4>3
    <3> QED
      BY <1>1, <2>5, <2>6, <3>2, <3>3
  <2> HIDE DEF a, b, r
  <2>8. DOMAIN r = 1 .. Len(s) - 1
    BY <2>7, LenProperties
  <2>9. IsInjective(r)
    BY <1>1, <2>7, <2>8 DEF IsInjective
  <2>10. ASSUME NEW y \in Range(r) PROVE y \in Range(s) \ {x}
    <3>1. PICK i \in 1 .. Len(s) - 1 : r[i] = y
      BY <2>8 DEF Range
    <3>2. PICK k \in 1 .. Len(s) : k # p /\ s[k] = y
      BY <1>1, <2>7, <3>1
    <3> QED
      BY <1>1, <2>2, <3>2 DEF Range
  <2>11. ASSUME NEW y \in Range(s) \ {x} PROVE y \in Range(r)
    <3>1. PICK k \in 1 .. Len(s) : s[k] = y
      BY <1>1 DEF Range
    <3>2. k # p
      BY <2>1, <3>1
    <3>3. PICK i \in 1 .. Len(s) - 1 : r[i] = y
      <4>1. CASE k < p
        <5>1. k \in 1 .. Len(s) - 1 /\ r[k] = y
          BY <1>1, <2>7, <3>1, <4>1
        <5> QED
          BY <5>1
      <4>2. CASE k > p
        <5>1. k - 1 \in 1 .. Len(s) - 1 /\ r[k - 1] = y
          BY <1>1, <2>7, <3>1, <4>2
        <5> QED
          BY <5>1
      <4> QED
        BY <3>2, <4>1, <4>2
    <3> QED
      BY <2>8, <3>3 DEF Range
  <2>12. Range(r) = Range(s) \ {x}
    BY <2>10, <2>11
  <2> QED
    BY <1>3, <2>1, <2>4, <2>7, <2>9, <2>12 DEF r
<1> QED
  BY <1>2, <1>3

LEMMA InsertIntoList ==
    ASSUME NEW S, NEW s \in Seq(S), NEW x \in S, x \notin Range(s), IsInjective(s),
           NEW p \in 1 .. Len(s) + 1
    PROVE  /\ InsertAt(s, p, x) \in Seq(S)
           /\ Len(InsertAt(s, p, x)) = Len(s) + 1
           /\ \A i \in 1 .. Len(s) + 1 :
                 InsertAt(s, p, x)[i] = IF i < p THEN s[i] ELSE IF i = p THEN x ELSE s[i - 1]
           /\ IsInjective(InsertAt(s, p, x))
           /\ Range(InsertAt(s, p, x)) = Range(s) \cup {x}
<1> DEFINE a == SubSeq(s, 1, p - 1)
           b == SubSeq(s, p, Len(s))
           r == InsertAt(s, p, x)
<1>1. Len(s) \in Nat /\ DOMAIN s = 1 .. Len(s) /\ \A i \in 1 .. Len(s) : s[i] \in S
  BY LenProperties, ElementOfSeq
<1>2. /\ a \in Seq(S) /\ Len(a) = p - 1
      /\ \A i \in 1 .. p - 1 : a[i] = s[i]
  <2>1. \A i \in 1 .. p - 1 : s[i] \in S
    BY <1>1
  <2> QED
    BY <1>1, <2>1, SubSeqProperties
<1>3. /\ b \in Seq(S) /\ Len(b) = Len(s) - p + 1
      /\ \A i \in 1 .. Len(s) - p + 1 : b[i] = s[p + i - 1]
  <2>1. \A i \in p .. Len(s) : s[i] \in S
    BY <1>1
  <2> QED
    BY <1>1, <2>1, SubSeqProperties
<1>4. /\ <<x>> \in Seq(S) /\ Len(<<x>>) = 1 /\ <<x>>[1] = x
  OBVIOUS
<1>5. /\ r \in Seq(S) /\ Len(r) = Len(s) + 1
      /\ \A i \in 1 .. Len(s) + 1 :
            r[i] = IF i < p THEN s[i] ELSE IF i = p THEN x ELSE s[i - 1]
  <2> DEFINE c == a \o <<x>>
  <2>1. r = c \o b
    BY DEF InsertAt
  <2> HIDE DEF a, b, r
  <2>2. /\ c \in Seq(S) /\ Len(c) = p
        /\ \A i \in 1 .. p : c[i] = IF i <= p - 1 THEN a[i] ELSE <<x>>[i - (p - 1)]
    BY <1>1, <1>2, <1>4, ConcatProperties
  <2> HIDE DEF c
  <2>3. /\ r \in Seq(S) /\ Len(r) = p + (Len(s) - p + 1)
        /\ \A i \in 1 .. p + (Len(s) - p + 1) : r[i] = IF i <= p THEN c[i] ELSE b[i - p]
    <3>1. /\ c \o b \in Seq(S) /\ Len(c \o b) = Len(c) + Len(b)
          /\ \A i \in 1 .. Len(c) + Len(b) :
                (c \o b)[i] = IF i <= Len(c) THEN c[i] ELSE b[i - Len(c)]
      BY <1>3, <2>2, ConcatProperties
    <3> QED
      BY <1>3, <2>1, <2>2, <3>1
  <2>4. \A i \in 1 .. p : r[i] = IF i < p THEN s[i] ELSE x
    BY <1>1, <1>2, <1>4, <2>2, <2>3
  <2>5. ASSUME NEW i \in p + 1 .. Len(s) + 1 PROVE r[i] = s[i - 1]
    <3>1. i - p \in 1 .. Len(s) - p + 1 /\ p + (i - p) - 1 = i - 1
      BY <1>1
    <3>2. i \in 1 .. p + (Len(s) - p + 1) /\ ~(i <= p)
      BY <1>1
    <3> QED
      BY <1>3, <2>3, <3>1, <3>2
  <2>6. Len(s) \in Nat
    BY <1>1
  <2>7. r \in Seq(S) /\ Len(r) = Len(s) + 1
    BY <2>3, <2>6
  <2>8. ASSUME NEW i \in 1 .. Len(s) + 1
        PROVE  r[i] = IF i < p THEN s[i] ELSE IF i = p THEN x ELSE s[i - 1]
    <3>1. CASE i <= p
      <4>1. i \in 1 .. p
        BY <3>1
      <4> QED
        BY <2>4, <3>1, <4>1
    <3>2. CASE i > p
      <4>1. i \in p + 1 .. Len(s) + 1 /\ ~(i < p) /\ i # p
        BY <2>6, <3>2
      <4> QED
        BY <2>5, <4>1
    <3> QED
      BY <3>1, <3>2
  <2> QED
    BY <2>7, <2>8
<1> HIDE DEF a, b, r
<1>6. DOMAIN r = 1 .. Len(s) + 1
  BY <1>5, LenProperties
<1>7. \A i \in 1 .. Len(s) : s[i] # x
  BY <1>1 DEF Range
<1>8. IsInjective(r)
  <2> SUFFICES ASSUME NEW i \in 1 .. Len(s) + 1, NEW j \in 1 .. Len(s) + 1, r[i] = r[j]
               PROVE  i = j
    BY <1>6 DEF IsInjective
  <2> DEFINE from(k) == IF k < p THEN k ELSE k - 1
  <2>1. CASE i = p \/ j = p
    BY <1>1, <1>5, <1>7, <2>1
  <2>2. CASE i # p /\ j # p
    <3>1. /\ from(i) \in DOMAIN s /\ from(j) \in DOMAIN s
          /\ s[from(i)] = s[from(j)]
      BY <1>1, <1>5, <2>2
    <3>2. from(i) = from(j)
      BY <3>1 DEF IsInjective
    <3> QED
      BY <1>1, <2>2, <3>2
  <2> QED
    BY <2>1, <2>2
<1>9. Range(r) = Range(s) \cup {x}
  <2>1. ASSUME NEW y \in Range(r) PROVE y \in Range(s) \cup {x}
    <3>1. PICK i \in 1 .. Len(s) + 1 : r[i] = y
      BY <1>6 DEF Range
    <3>2. y = x \/ \E k \in 1 .. Len(s) : s[k] = y
      <4>1. CASE i < p
        BY <1>1, <1>5, <3>1, <4>1
      <4>2. CASE i = p
        BY <1>1, <1>5, <3>1, <4>2
      <4>3. CASE i > p
        <5>1. i - 1 \in 1 .. Len(s) /\ s[i - 1] = y
          BY <1>1, <1>5, <3>1, <4>3
        <5> QED
          BY <5>1
      <4> QED
        BY <1>1, <4>1, <4>2, <4>3
    <3> QED
      BY <1>1, <3>2 DEF Range
  <2>2. ASSUME NEW y \in Range(s) PROVE y \in Range(r)
    <3>1. PICK k \in 1 .. Len(s) : s[k] = y
      BY <1>1 DEF Range
    <3>2. CASE k < p
      <4>1. k \in 1 .. Len(s) + 1 /\ r[k] = y
        BY <1>1, <1>5, <3>1, <3>2
      <4> QED
        BY <1>6, <4>1 DEF Range
    <3>3. CASE k >= p
      <4>1. k + 1 \in 1 .. Len(s) + 1 /\ r[k + 1] = y
        BY <1>1, <1>5, <3>1, <3>3
      <4> QED
        BY <1>6, <4>1 DEF Range
    <3> QED
      BY <3>2, <3>3
  <2>3. x \in Range(r)
    <3>1. p \in 1 .. Len(s) + 1 /\ r[p] = x
      BY <1>5
    <3> QED
      BY <1>6, <3>1 DEF Range
  <2> QED
    BY <2>1, <2>2, <2>3
<1> QED
  BY <1>5, <1>8, <1>9 DEF r

\* Every set of numbers that is not empty has a least one: the lower bounds of the set
\* are the numbers up to it.
LEMMA LeastNumber ==
    ASSUME NEW T \in SUBSET Nat, T # {}
    PROVE  \E x \in T : \A y \in T : x <= y
<1> DEFINE L == {m \in Nat : \A y \in T : m <= y}
<1>1. PICK t \in T : TRUE
  OBVIOUS
<1>2. L \in SUBSET Nat /\ \A m \in L : m <= t
  BY <1>1
<1>3. IsFiniteSet(L)
  BY <1>1, <1>2, FS_BoundedSetOfNaturals
<1> DEFINE c == Cardinality(L)
<1>4. c \in Nat
  BY <1>3, FS_CardinalityType
<1>5. \A m \in L, k \in Nat : k <= m => k \in L
  OBVIOUS
<1> HIDE DEF c
<1>6. c \notin L
  <2> SUFFICES ASSUME c \in L PROVE FALSE
    OBVIOUS
  <2>1. 0 .. c \in SUBSET L
    BY <1>4, <1>5
  <2> HIDE DEF L
  <2>2. Cardinality(0 .. c) <= Cardinality(L)
    BY <1>3, <2>1, FS_Subset
  <2>3. Cardinality(0 .. c) = c + 1
    BY <1>4, FS_Interval
  <2> QED
    BY <1>4, <2>2, <2>3 DEF c
<1>7. 0 \in L
  OBVIOUS
<1>8. c >= 1 /\ c - 1 \in L
  <2> SUFFICES ASSUME ~(c >= 1 /\ c - 1 \in L) PROVE FALSE
    OBVIOUS
  <2>1. c # 0
    BY <1>3, <1>7, FS_EmptySet DEF c
  <2>2. c >= 1 /\ c - 1 \notin L
    BY <1>4, <2>1
  <2>3. L \in SUBSET (0 .. c - 2)
    BY <1>4, <1>5, <2>2
  <2>4. IsFiniteSet(0 .. c - 2) /\ Cardinality(0 .. c - 2) = c - 1
    <3>1. 0 \in Int /\ c - 2 \in Int
      BY <1>4
    <3>2. IsFiniteSet(0 .. c - 2) /\ Cardinality(0 .. c - 2) = IF 0 > c - 2 THEN 0 ELSE c - 2 - 0 + 1
      BY <3>1, FS_Interval
    <3> QED
      BY <1>4, <2>2, <3>2
  <2> HIDE DEF L
  <2>5. Cardinality(L) <= Cardinality(0 .. c - 2)
    BY <2>3, <2>4, FS_Subset
  <2> QED
    BY <1>4, <2>4, <2>5 DEF c
<1>9. PICK x \in T : x < c
  BY <1>4, <1>6
<1>10. \A y \in T : c - 1 <= y
  BY <1>8
<1> QED
  BY <1>4, <1>9, <1>10

\* sortedInsert finds a place in every list.
LEMMA PlaceFound ==
    ASSUME NEW list \in Seq(Nodes), NEW abs \in [Nodes -> Word], NEW timer \in Nodes
    PROVE  /\ InsertPoint(list, abs, timer) \in 1 .. Len(list) + 1
           /\ InsertPoint(list, abs, timer) <= Len(list)
                 => abs[list[InsertPoint(list, abs, timer)]] > abs[timer]
           /\ \A j \in 1 .. InsertPoint(list, abs, timer) - 1 : abs[list[j]] <= abs[timer]
<1> DEFINE Fits(i) == i <= Len(list) => abs[list[i]] > abs[timer]
           T == {i \in 1 .. Len(list) + 1 : Fits(i)}
<1>1. Len(list) \in Nat /\ \A i \in 1 .. Len(list) : list[i] \in Nodes
  BY LenProperties, ElementOfSeq
<1>2. T \in SUBSET Nat /\ Len(list) + 1 \in T
  BY <1>1
<1>3. PICK x \in T : \A y \in T : x <= y
  <2> HIDE DEF T
  <2> QED
    BY <1>2, LeastNumber
<1>4. \A j \in 1 .. x - 1 : abs[list[j]] <= abs[timer]
  <2> SUFFICES ASSUME NEW j \in 1 .. x - 1 PROVE abs[list[j]] <= abs[timer]
    OBVIOUS
  <2>1. j \in 1 .. Len(list) /\ j \notin T
    BY <1>1, <1>2, <1>3
  <2>2. ~(abs[list[j]] > abs[timer])
    BY <1>1, <2>1
  <2>3. abs[list[j]] \in Int /\ abs[timer] \in Int
    BY <1>1, <2>1 DEF Word
  <2> QED
    BY <2>2, <2>3
<1>5. /\ x \in 1 .. Len(list) + 1 /\ Fits(x)
      /\ \A j \in 1 .. x - 1 : abs[list[j]] <= abs[timer]
  BY <1>3, <1>4
<1> QED
  BY <1>5 DEF InsertPoint

-----------------------------------------------------------------------------
(***************************************************************************)
(* What the driver does with the list of the running timers.               *)
(***************************************************************************)

\* The next state after the timer at the head of the list has been started, or kept
\* running: rest are the clients' timers that run.
HeadStarted(rest) ==
    /\ WellLinked(listHead')
    /\ Range(listHead') \ {Dummy} = rest
    /\ absoluteTime' \in [Nodes -> Word]
    /\ absoluteTimeofLastTimeout' \in Word
    /\ lastTimerLoad' \in 0 .. MaxLoad
    /\ cnt' \in 0 .. MaxLoad
    /\ isRunning' \in BOOLEAN
    /\ ovfIE' \in BOOLEAN
    /\ listHead' # <<>> =>
          /\ isRunning' /\ ovfIE'
          /\ lastTimerLoad' + Sub32(absoluteTime'[Head(listHead')], absoluteTimeofLastTimeout')
                = MaxLoad
    /\ listHead' # <<>> /\ Head(listHead') = Dummy =>
          Sub32(absoluteTime'[Dummy], absoluteTimeofLastTimeout') = MaxLoad

\* startTimerAtHead arms the counter for the head of the list it is given, and puts a
\* dummy before a head that is too far away.
LEMMA HeadIsStarted ==
    ASSUME TypeOK, NEW list, WellLinked(list), NEW abs \in [Nodes -> Word], NEW last \in Word,
           list # <<>> /\ Head(list) = Dummy => Sub32(abs[Dummy], last) = MaxLoad,
           startTimerAtHead(list, abs, last)
    PROVE  HeadStarted(Range(list) \ {Dummy})
<1>1. list \in Seq(Nodes) /\ IsInjective(list) /\ \A i \in 2 .. Len(list) : list[i] # Dummy
  BY DEF WellLinked
<1>2. /\ MaxLoad \in Nat \ {0} /\ MaxLoad \in Word /\ 0 \in Word /\ 0 \in 0 .. MaxLoad
      /\ cnt \in 0 .. MaxLoad
  BY CounterAssumption DEF TypeOK, Word
<1>3. CASE list = <<>>
  BY <1>2, <1>3 DEF startTimerAtHead, stopTimeouts, HeadStarted
<1>4. CASE list # <<>>
  <2> DEFINE period == Sub32(abs[Head(list)], last)
  <2>1. Head(list) \in Nodes /\ Head(list) = list[1] /\ Len(list) \in Nat \ {0}
    BY <1>1, <1>4, HeadInRange
  <2>2. period \in Nat
    <3>1. abs[Head(list)] \in Word
      BY <2>1
    <3>2. period \in Word
      BY <3>1, WordsAreModular
    <3> QED
      BY <3>2 DEF Word
  <2>3. CASE period <= MaxLoad
    <3>1. /\ absoluteTime' = abs /\ listHead' = list
          /\ lastTimerLoad' = MaxLoad - period /\ cnt' = MaxLoad - period
          /\ absoluteTimeofLastTimeout' = last
          /\ ovfIE' = TRUE /\ isRunning' = TRUE
      BY <1>2, <1>4, <2>2, <2>3 DEF startTimerAtHead, setTimerDuration
    <3>2. MaxLoad - period \in 0 .. MaxLoad /\ MaxLoad - period + period = MaxLoad
      BY <1>2, <2>2, <2>3
    <3> QED
      BY <3>1, <3>2 DEF HeadStarted
  <2>4. CASE period > MaxLoad
    <3>1. /\ absoluteTime' = [abs EXCEPT ![Dummy] = Add32(last, MaxLoad)]
          /\ listHead' = <<Dummy>> \o list
          /\ lastTimerLoad' = MaxLoad - MaxLoad /\ cnt' = MaxLoad - MaxLoad
          /\ absoluteTimeofLastTimeout' = last
          /\ ovfIE' = TRUE /\ isRunning' = TRUE
      BY <1>4, <2>4 DEF startTimerAtHead, setTimerDuration
    <3>2. Head(list) # Dummy
      BY <1>2, <1>4, <2>2, <2>4
    <3>3. Dummy \notin Range(list)
      BY <1>1, <2>1, <3>2, LenProperties DEF Range
    <3>4. Dummy \in Nodes
      BY DEF Nodes
    <3>5. /\ listHead' \in Seq(Nodes) /\ listHead' # <<>> /\ Head(listHead') = Dummy
          /\ Len(listHead') = Len(list) + 1
          /\ \A i \in 2 .. Len(list) + 1 : listHead'[i] = list[i - 1]
          /\ IsInjective(listHead') /\ Range(listHead') = Range(list) \cup {Dummy}
      BY <1>1, <3>1, <3>3, <3>4, ConsOfList
    <3>6. \A i \in 1 .. Len(list) : list[i] # Dummy
      BY <1>1, <2>1, <3>2
    <3>7. WellLinked(listHead')
      BY <2>1, <3>5, <3>6 DEF WellLinked
    <3>8. /\ absoluteTime' \in [Nodes -> Word]
          /\ absoluteTime'[Dummy] = Add32(last, MaxLoad)
      BY <1>2, <3>1, <3>4, WordsAreModular
    <3>9. Sub32(absoluteTime'[Dummy], last) = MaxLoad
      BY <1>2, <3>8, DistanceOfSum
    <3>10. lastTimerLoad' = 0 /\ cnt' = 0
      BY <1>2, <3>1
    <3>11. Range(listHead') \ {Dummy} = Range(list) \ {Dummy}
      BY <3>5
    <3>12. lastTimerLoad' + Sub32(absoluteTime'[Head(listHead')], absoluteTimeofLastTimeout')
              = MaxLoad
      BY <1>2, <3>1, <3>5, <3>9, <3>10
    <3> QED
      BY <1>2, <3>1, <3>5, <3>7, <3>8, <3>9, <3>10, <3>11, <3>12 DEF HeadStarted
  <2> QED
    BY <1>2, <2>2, <2>3, <2>4
<1> QED
  BY <1>3, <1>4

\* The tail of the list has no dummy.
LEMMA TailIsWellLinked ==
    ASSUME NEW list, WellLinked(list), list # <<>>
    PROVE  /\ WellLinked(Tail(list))
           /\ Dummy \notin Range(Tail(list))
           /\ Tail(list) # <<>> => Head(Tail(list)) # Dummy
           /\ Range(Tail(list)) = Range(list) \ {Head(list)}
<1>1. list \in Seq(Nodes) /\ IsInjective(list) /\ \A i \in 2 .. Len(list) : list[i] # Dummy
  BY DEF WellLinked
<1>2. /\ Len(list) \in Nat \ {0}
      /\ Tail(list) \in Seq(Nodes) /\ Len(Tail(list)) = Len(list) - 1
      /\ \A i \in 1 .. Len(list) - 1 : Tail(list)[i] = list[i + 1]
      /\ IsInjective(Tail(list))
      /\ Range(Tail(list)) = Range(list) \ {Head(list)}
  BY <1>1, HeadInRange, TailOfList
<1>3. \A i \in 1 .. Len(list) - 1 : Tail(list)[i] # Dummy
  BY <1>1, <1>2
<1>4. DOMAIN Tail(list) = 1 .. Len(list) - 1
  BY <1>2, LenProperties
<1>5. Dummy \notin Range(Tail(list))
  BY <1>3, <1>4 DEF Range
<1>6. Tail(list) # <<>> => Head(Tail(list)) \in Range(Tail(list))
  BY <1>2, HeadInRange
<1>7. WellLinked(Tail(list))
  BY <1>2, <1>3 DEF WellLinked
<1> QED
  BY <1>2, <1>5, <1>6, <1>7

\* So has the list after NoDummy.
LEMMA NoDummyDropsIt ==
    ASSUME NEW list, WellLinked(list)
    PROVE  /\ WellLinked(NoDummy(list))
           /\ Range(NoDummy(list)) = Range(list) \ {Dummy}
<1>1. CASE list # <<>> /\ Head(list) = Dummy
  BY <1>1, TailIsWellLinked DEF NoDummy
<1>2. CASE ~(list # <<>> /\ Head(list) = Dummy)
  <2>1. list \in Seq(Nodes) /\ DOMAIN list = 1 .. Len(list) /\ Len(list) \in Nat
    BY LenProperties DEF WellLinked
  <2>2. \A i \in 1 .. Len(list) : list[i] # Dummy
    <3> SUFFICES ASSUME NEW i \in 1 .. Len(list) PROVE list[i] # Dummy
      OBVIOUS
    <3>1. CASE i = 1
      <4>1. list # <<>>
        BY <2>1, EmptySeq
      <4> QED
        BY <1>2, <2>1, <3>1, <4>1, HeadInRange
    <3>2. CASE i # 1
      BY <2>1, <3>2 DEF WellLinked
    <3> QED
      BY <3>1, <3>2
  <2>3. Dummy \notin Range(list)
    BY <2>1, <2>2 DEF Range
  <2> QED
    BY <1>2, <2>3 DEF NoDummy
<1> QED
  BY <1>1, <1>2

\* sortedInsert puts the timer into the list and leaves the counter armed for its head.
LEMMA TimerIsInserted ==
    ASSUME TypeOK, WellLinked(listHead), NEW timer \in Timers, timer \notin Range(listHead),
           NEW abs \in [Nodes -> Word], NEW last \in Word,
           listHead # <<>> =>
               isRunning /\ lastTimerLoad + Sub32(abs[Head(listHead)], last) = MaxLoad,
           listHead # <<>> /\ Head(listHead) = Dummy => Sub32(abs[Dummy], last) = MaxLoad,
           insertAndStart(timer, abs, last)
    PROVE  HeadStarted((Range(listHead) \ {Dummy}) \cup {timer})
<1> DEFINE at == InsertPoint(listHead, abs, timer)
<1>1. /\ listHead \in Seq(Nodes) /\ IsInjective(listHead)
      /\ \A i \in 2 .. Len(listHead) : listHead[i] # Dummy
      /\ Len(listHead) \in Nat
  BY LenProperties DEF WellLinked
<1>2. timer \in Nodes /\ timer # Dummy
  BY TimerAssumption DEF Nodes
<1>3. at \in 1 .. Len(listHead) + 1
  BY <1>1, <1>2, PlaceFound
<1>4. CASE at = 1
  <2> DEFINE list == <<timer>> \o NoDummy(listHead)
  <2>1. startTimerAtHead(list, abs, last)
    BY <1>4 DEF insertAndStart
  <2>2. /\ NoDummy(listHead) \in Seq(Nodes) /\ IsInjective(NoDummy(listHead))
        /\ Range(NoDummy(listHead)) = Range(listHead) \ {Dummy}
    BY NoDummyDropsIt DEF WellLinked
  <2>3. timer \notin Range(NoDummy(listHead))
    BY <2>2
  <2>4. /\ list \in Seq(Nodes) /\ Head(list) = timer
        /\ Len(list) = Len(NoDummy(listHead)) + 1
        /\ \A i \in 2 .. Len(NoDummy(listHead)) + 1 : list[i] = NoDummy(listHead)[i - 1]
        /\ IsInjective(list) /\ Range(list) = (Range(listHead) \ {Dummy}) \cup {timer}
    BY <1>2, <2>2, <2>3, ConsOfList
  <2>5. Len(NoDummy(listHead)) \in Nat /\ DOMAIN NoDummy(listHead) = 1 .. Len(NoDummy(listHead))
    BY <2>2, LenProperties
  <2>6. \A i \in 1 .. Len(NoDummy(listHead)) : NoDummy(listHead)[i] # Dummy
    BY <2>2, <2>5 DEF Range
  <2> HIDE DEF list
  <2>7. WellLinked(list)
    BY <2>4, <2>5, <2>6 DEF WellLinked
  <2>8. HeadStarted(Range(list) \ {Dummy})
    BY <1>2, <2>1, <2>4, <2>7, HeadIsStarted
  <2>9. Range(list) \ {Dummy} = (Range(listHead) \ {Dummy}) \cup {timer}
    BY <1>2, <2>4
  <2> QED
    BY <2>8, <2>9
<1>5. CASE at # 1
  <2>1. /\ listHead' = InsertAt(listHead, at, timer)
        /\ absoluteTime' = abs /\ absoluteTimeofLastTimeout' = last
        /\ ovfIE' = isRunning
        /\ lastTimerLoad' = lastTimerLoad /\ isRunning' = isRunning /\ cnt' = cnt
    BY <1>5 DEF insertAndStart
  <2>2. listHead # <<>>
    BY <1>1, <1>3, <1>5, LenProperties, EmptySeq
  <2>3. /\ listHead' \in Seq(Nodes) /\ Len(listHead') = Len(listHead) + 1
        /\ \A i \in 1 .. Len(listHead) + 1 :
              listHead'[i] = IF i < at THEN listHead[i]
                             ELSE IF i = at THEN timer ELSE listHead[i - 1]
        /\ IsInjective(listHead') /\ Range(listHead') = Range(listHead) \cup {timer}
    <3> HIDE DEF at
    <3> QED
      BY <1>1, <1>2, <1>3, <2>1, InsertIntoList
  <2> HIDE DEF at
  <2>4. listHead' # <<>> /\ listHead'[1] = listHead[1]
    BY <1>1, <1>3, <1>5, <2>3, EmptySeq
  <2>5. Head(listHead') = Head(listHead)
    BY <1>1, <2>2, <2>3, <2>4, HeadInRange
  <2>6. \A i \in 2 .. Len(listHead) + 1 : listHead'[i] # Dummy
    <3> SUFFICES ASSUME NEW i \in 2 .. Len(listHead) + 1 PROVE listHead'[i] # Dummy
      OBVIOUS
    <3>1. CASE i < at
      <4>1. i \in 2 .. Len(listHead) /\ listHead'[i] = listHead[i]
        BY <1>1, <1>3, <2>3, <3>1
      <4> QED
        BY <1>1, <4>1
    <3>2. CASE i = at
      BY <1>1, <1>2, <2>3, <3>2
    <3>3. CASE i > at
      <4>1. i - 1 \in 2 .. Len(listHead) /\ listHead'[i] = listHead[i - 1]
        BY <1>1, <1>3, <1>5, <2>3, <3>3
      <4> QED
        BY <1>1, <4>1
    <3> QED
      BY <1>3, <3>1, <3>2, <3>3
  <2>7. WellLinked(listHead')
    BY <2>3, <2>6 DEF WellLinked
  <2>8. /\ lastTimerLoad \in 0 .. MaxLoad /\ cnt \in 0 .. MaxLoad /\ isRunning \in BOOLEAN
    BY DEF TypeOK
  <2>9. Range(listHead') \ {Dummy} = (Range(listHead) \ {Dummy}) \cup {timer}
    BY <1>2, <2>3
  <2>10. isRunning /\ lastTimerLoad + Sub32(abs[Head(listHead)], last) = MaxLoad
    BY <2>2
  <2>11. Head(listHead) = Dummy => Sub32(abs[Dummy], last) = MaxLoad
    BY <2>2
  <2> QED
    BY <2>1, <2>5, <2>7, <2>8, <2>9, <2>10, <2>11 DEF HeadStarted
<1> QED
  BY <1>4, <1>5
-----------------------------------------------------------------------------
(***************************************************************************)
(* The links of the lists are kept by every step.                          *)
(***************************************************************************)

\* What a step has to leave behind once the head of the list is started.
LEMMA HeadStartedKeeps ==
    ASSUME NEW rest, HeadStarted(rest),
           executeQueueHead' \in Seq(Timers), IsInjective(executeQueueHead'),
           rest \cap Range(executeQueueHead') = {},
           ovf' \in BOOLEAN, tempIE' \in BOOLEAN, fault' \in BOOLEAN,
           calling' \in Timers \cup {NoTimer}, pc' \in PCs,
           op' \in [kind : {"none", "create", "delete", "flush"},
                    timer : Timers \cup {Dummy, NoTimer}, timeout : {0} \cup Timeouts],
           OpFitsPC',
           pc' \in {"createAbs"}
               => op'.timer \notin rest \cup Range(executeQueueHead'),
           pc' \in {"queueCheck", "queueSearch"} /\ op'.kind # "flush"
               => op'.timer \notin rest,
           pc' = "pop" /\ listHead' # <<>> => tempIE',
           pc' # "createInsert"
    PROVE  LinkInv'
<1>1. Dummy \notin Timers
  BY TimerAssumption
<1>2. /\ listHead' \in Seq(Timers \cup {Dummy}) /\ Range(listHead') \ {Dummy} = rest
      /\ WellLinked(listHead')
      /\ absoluteTime' \in [Timers \cup {Dummy} -> Word]
      /\ absoluteTimeofLastTimeout' \in Word /\ lastTimerLoad' \in 0 .. MaxLoad
      /\ cnt' \in 0 .. MaxLoad /\ isRunning' \in BOOLEAN /\ ovfIE' \in BOOLEAN
  BY DEF HeadStarted, WellLinked, Nodes
<1>3. TypeOK'
  BY <1>2 DEF TypeOK
<1>4. Dummy \notin Range(executeQueueHead')
  BY <1>1, ElementOfSeq, LenProperties DEF Range
<1>5. pc' \in {"createAbs", "queueCheck", "queueSearch"} /\ op'.kind # "flush"
          => op'.timer # Dummy
  BY <1>1 DEF OpFitsPC
<1>6. Unlinked'
  BY <1>2, <1>4, <1>5 DEF Unlinked, OpFitsPC
<1>7. DummyWhole' /\ Armed'
  BY DEF HeadStarted, DummyWhole, Armed
<1> QED
  BY <1>3, <1>6, <1>7 DEF LinkInv, CriticalSection

\* Where the main program goes on when a search of timeout_delete ends.
LEMMA ReturnFits ==
    ASSUME TypeOK, OpFitsPC, op.kind # "none", Return
    PROVE  /\ pc' \in PCs
           /\ op' \in [kind : {"none", "create", "delete", "flush"},
                        timer : Timers \cup {Dummy, NoTimer}, timeout : {0} \cup Timeouts]
           /\ pc' \in {"createAbs", "flush", "idle"}
           /\ pc' = "createAbs" => op.kind = "create" /\ op' = op
           /\ OpFitsPC'
<1>1. op.kind \in {"create", "delete", "flush"}
  BY DEF TypeOK
<1>2. NoOp \in [kind : {"none", "create", "delete", "flush"},
                timer : Timers \cup {Dummy, NoTimer}, timeout : {0} \cup Timeouts]
  BY DEF NoOp
<1>3. CASE op.kind = "create"
  <2>1. pc' = "createAbs" /\ op' = op
    BY <1>3 DEF Return
  <2> QED
    BY <1>3, <2>1 DEF TypeOK, OpFitsPC, PCs
<1>4. CASE op.kind = "flush"
  <2>1. pc' = "flush" /\ op' = op
    BY <1>4 DEF Return
  <2> QED
    BY <1>4, <2>1 DEF TypeOK, OpFitsPC, PCs
<1>5. CASE op.kind = "delete"
  <2>1. pc' = "idle" /\ op' = NoOp
    BY <1>5 DEF Return
  <2> QED
    BY <1>2, <2>1 DEF OpFitsPC, PCs, NoOp
<1> QED
  BY <1>1, <1>3, <1>4, <1>5

\* A list that is left as it is, with the interrupt on, is still armed for its head.
LEMMA HeadStaysStarted ==
    ASSUME LinkInv, listHead # <<>> => ~FlushBegun,
           listHead' = listHead, absoluteTime' = absoluteTime, UNCHANGED <<base, cnt>>,
           ovfIE' \in BOOLEAN, listHead # <<>> => ovfIE'
    PROVE  HeadStarted(Range(listHead) \ {Dummy})
BY DEF LinkInv, TypeOK, Unlinked, Armed, DummyWhole, HeadStarted, base, Nodes

\* A timer behind the head is taken out of the list, and the head is left as it was.
LEMMA TimerIsTakenOut ==
    ASSUME NEW list, WellLinked(list), NEW x \in Range(list), x # Head(list)
    PROVE  /\ WellLinked(Remaining(list, x))
           /\ Remaining(list, x) # <<>> /\ list # <<>>
           /\ Head(Remaining(list, x)) = Head(list)
           /\ Range(Remaining(list, x)) = Range(list) \ {x}
<1> DEFINE r == Remaining(list, x)
<1>1. /\ list \in Seq(Nodes) /\ IsInjective(list) /\ DOMAIN list = 1 .. Len(list)
      /\ Len(list) \in Nat /\ \A i \in 2 .. Len(list) : list[i] # Dummy
  BY LenProperties DEF WellLinked
<1>2. PICK p \in 1 .. Len(list) :
          /\ list[p] = x
          /\ Len(r) = Len(list) - 1
          /\ \A i \in 1 .. Len(list) - 1 : r[i] = IF i < p THEN list[i] ELSE list[i + 1]
  <2>1. \E p \in 1 .. Len(list) :
          /\ list[p] = x
          /\ r = RemoveAt(list, p)
          /\ Len(r) = Len(list) - 1
          /\ \A i \in 1 .. Len(list) - 1 : r[i] = IF i < p THEN list[i] ELSE list[i + 1]
    <3>1. list \in Seq(Nodes) /\ IsInjective(list)
      BY <1>1
    <3>2. x \in Range(list) => \E p \in 1 .. Len(list) :
             /\ list[p] = x
             /\ Remaining(list, x) = RemoveAt(list, p)
             /\ Len(Remaining(list, x)) = Len(list) - 1
             /\ \A i \in 1 .. Len(list) - 1 :
                   Remaining(list, x)[i] = IF i < p THEN list[i] ELSE list[i + 1]
      BY <3>1, RestOfList, SMTT(60)
    <3> QED
      BY <3>2
  <2> QED
    BY <2>1
<1>3. r \in Seq(Nodes) /\ IsInjective(r) /\ Range(r) = Range(list) \ {x}
  BY <1>1, RestOfList
<1>4. list # <<>>
  BY <1>1, <1>2, EmptySeq
<1>5. Head(list) = list[1]
  BY <1>1, <1>4, HeadInRange
<1>6. p \in 2 .. Len(list)
  BY <1>1, <1>2, <1>5
<1> HIDE DEF r
<1>7. r # <<>> /\ r[1] = list[1]
  BY <1>1, <1>2, <1>3, <1>6, EmptySeq
<1>8. Head(r) = Head(list)
  BY <1>3, <1>5, <1>7, HeadInRange
<1>9. \A i \in 2 .. Len(r) : r[i] # Dummy
  BY <1>1, <1>2, <1>6
<1> QED
  BY <1>3, <1>4, <1>7, <1>8, <1>9 DEF WellLinked, r

LEMMA SearchListKeeps ==
    ASSUME LinkInv, SearchList
    PROVE  /\ LinkInv'
           /\ Range(listHead') \ {Dummy} = (Range(listHead) \ {Dummy}) \ {op.timer}
<1>1. TypeOK /\ OpFitsPC /\ Unlinked /\ DummyWhole /\ Armed
  BY DEF LinkInv
<1>2. /\ op.kind # "none" /\ pc = "listSearch"
      /\ op.kind # "flush" => op.timer \in Timers
  BY <1>1 DEF SearchList, OpFitsPC, TypeOK
<1>3. /\ executeQueueHead' = executeQueueHead /\ ovf' = ovf /\ tempIE' = tempIE
      /\ calling' = calling /\ fault' = fault
  BY DEF SearchList
<1>4. /\ executeQueueHead \in Seq(Timers) /\ IsInjective(executeQueueHead)
      /\ Range(listHead) \cap Range(executeQueueHead) = {}
      /\ WellLinked(listHead) /\ listHead \in Seq(Nodes) /\ IsInjective(listHead)
  BY <1>1 DEF TypeOK, Unlinked, WellLinked
<1>5. /\ absoluteTime \in [Nodes -> Word] /\ absoluteTimeofLastTimeout \in Word
      /\ ovf \in BOOLEAN /\ tempIE \in BOOLEAN /\ fault \in BOOLEAN
      /\ calling \in Timers \cup {NoTimer}
  BY <1>1 DEF TypeOK, Nodes
<1>6. CASE listHead # <<>> /\ Head(listHead) = op.timer
  <2>1. /\ startTimerAtHead(Tail(listHead), absoluteTime, absoluteTimeofLastTimeout)
        /\ Return
    BY <1>6 DEF SearchList
  <2>2. /\ WellLinked(Tail(listHead))
        /\ Tail(listHead) # <<>> => Head(Tail(listHead)) # Dummy
        /\ Range(Tail(listHead)) = Range(listHead) \ {op.timer}
    BY <1>4, <1>6, TailIsWellLinked
  <2>3. HeadStarted(Range(Tail(listHead)) \ {Dummy})
    BY <1>1, <1>5, <2>1, <2>2, HeadIsStarted
  <2>4. op.timer \in Range(listHead)
    BY <1>4, <1>6, HeadInRange
  <2>5. op.timer \notin Range(Tail(listHead)) \cup Range(executeQueueHead)
    BY <1>4, <2>2, <2>4
  <2>6. LinkInv'
    BY <1>1, <1>2, <1>3, <1>4, <1>5, <2>1, <2>2, <2>3, <2>5, ReturnFits, HeadStartedKeeps
  <2>7. Range(listHead') \ {Dummy} = Range(Tail(listHead)) \ {Dummy}
    BY <2>3 DEF HeadStarted
  <2> QED
    BY <2>2, <2>6, <2>7
<1>7. CASE ~(listHead # <<>> /\ Head(listHead) = op.timer)
  <2> DEFINE list == Remaining(listHead, op.timer)
  <2>1. /\ listHead' = list /\ ovfIE' = TRUE /\ absoluteTime' = absoluteTime
        /\ UNCHANGED <<base, cnt>>
        /\ IF op.timer \in Range(listHead) THEN Return
           ELSE pc' = "queueCheck" /\ UNCHANGED op
    BY <1>7 DEF SearchList
  <2>2. listHead # <<>> => ~FlushBegun
    BY <1>2, <1>7 DEF FlushBegun
  <2>3. CASE op.timer \in Range(listHead)
    <3>1. /\ WellLinked(list) /\ list # <<>> /\ listHead # <<>>
          /\ Head(list) = Head(listHead) /\ Range(list) = Range(listHead) \ {op.timer}
      <4>1. op.timer # Head(listHead)
        BY <1>4, <1>7, <2>3, LenProperties, EmptySeq DEF Range
      <4> QED
        BY <1>4, <2>3, <4>1, TimerIsTakenOut
    <3> HIDE DEF list
    <3>2. HeadStarted(Range(list) \ {Dummy})
      BY <1>1, <2>1, <2>2, <3>1 DEF TypeOK, Armed, DummyWhole, HeadStarted, base, Nodes
    <3>3. op.timer \notin Range(list) \cup Range(executeQueueHead)
      BY <1>4, <2>3, <3>1
    <3>4. Return
      BY <2>1, <2>3
    <3>5. LinkInv'
      BY <1>1, <1>2, <1>3, <1>4, <1>5, <3>1, <3>2, <3>3, <3>4, ReturnFits, HeadStartedKeeps
    <3> QED
      BY <2>1, <3>1, <3>5 DEF list
  <2>4. CASE op.timer \notin Range(listHead)
    <3>1. list = listHead
      BY <1>4, <2>4, RestOfList
    <3>2. listHead' = listHead /\ pc' = "queueCheck" /\ op' = op
      BY <2>1, <2>4, <3>1
    <3>3. HeadStarted(Range(listHead) \ {Dummy})
      BY <2>1, <2>2, <3>2, HeadStaysStarted
    <3>4. pc' \in PCs /\ OpFitsPC'
      BY <1>1, <1>2, <3>2 DEF OpFitsPC, PCs
    <3>5. op' \in [kind : {"none", "create", "delete", "flush"},
                  timer : Timers \cup {Dummy, NoTimer}, timeout : {0} \cup Timeouts]
      BY <1>1, <3>2 DEF TypeOK
    <3>6. LinkInv'
      BY <1>3, <1>4, <1>5, <2>4, <3>2, <3>3, <3>4, <3>5, HeadStartedKeeps
    <3> QED
      BY <2>4, <3>2, <3>6
  <2> QED
    BY <2>3, <2>4
<1> QED
  BY <1>6, <1>7

LEMMA CheckQueueKeeps ==
    ASSUME LinkInv, CheckQueue
    PROVE  LinkInv'
<1>1. TypeOK /\ OpFitsPC /\ Unlinked
  BY DEF LinkInv
<1>2. /\ op.kind # "none" /\ pc = "queueCheck"
      /\ op.kind # "flush" => op.timer \in Timers
  BY <1>1 DEF CheckQueue, OpFitsPC, TypeOK
<1>3. /\ listHead' = listHead /\ absoluteTime' = absoluteTime /\ UNCHANGED <<base, cnt>>
      /\ executeQueueHead' = executeQueueHead /\ ovf' = ovf /\ ovfIE' = ovfIE
      /\ tempIE' = tempIE /\ calling' = calling /\ fault' = fault
  BY DEF CheckQueue, lists, rtc
<1>4. /\ executeQueueHead \in Seq(Timers) /\ IsInjective(executeQueueHead)
      /\ Range(listHead) \cap Range(executeQueueHead) = {}
      /\ ovf \in BOOLEAN /\ tempIE \in BOOLEAN /\ fault \in BOOLEAN
      /\ calling \in Timers \cup {NoTimer}
  BY <1>1 DEF TypeOK, Unlinked
<1>5. HeadStarted(Range(listHead) \ {Dummy})
  <2>1. ~FlushBegun
    BY <1>2 DEF FlushBegun
  <2>2. ovfIE' \in BOOLEAN /\ (listHead # <<>> => ovfIE')
    BY <1>2, <1>3, <2>1 DEF LinkInv, Armed, TypeOK
  <2> QED
    BY <1>3, <2>1, <2>2, HeadStaysStarted
<1>6. CASE executeQueueHead = <<>>
  <2>1. Return
    BY <1>6 DEF CheckQueue
  <2>2. Range(executeQueueHead) = {}
    BY <1>6 DEF Range
  <2>3. op.kind # "flush" => op.timer \notin Range(listHead)
    BY <1>1, <1>2 DEF Unlinked
  <2> QED
    BY <1>1, <1>2, <1>3, <1>4, <1>5, <2>1, <2>2, <2>3, ReturnFits, HeadStartedKeeps
<1>7. CASE executeQueueHead # <<>>
  <2>1. pc' = "queueSearch" /\ op' = op
    BY <1>7 DEF CheckQueue
  <2>2. pc' \in PCs /\ OpFitsPC'
    BY <1>1, <1>2, <1>3, <1>7, <2>1 DEF OpFitsPC, PCs
  <2>3. op' \in [kind : {"none", "create", "delete", "flush"},
                timer : Timers \cup {Dummy, NoTimer}, timeout : {0} \cup Timeouts]
    BY <1>1, <2>1 DEF TypeOK
  <2>4. op.kind # "flush" => op.timer \notin Range(listHead)
    BY <1>1, <1>2 DEF Unlinked
  <2> QED
    BY <1>3, <1>4, <1>5, <2>1, <2>2, <2>3, <2>4, HeadStartedKeeps
<1> QED
  BY <1>6, <1>7

LEMMA SearchQueueKeeps ==
    ASSUME LinkInv, SearchQueue
    PROVE  /\ LinkInv'
           /\ Range(listHead') \ {Dummy} = Range(listHead) \ {Dummy}
           /\ executeQueueHead' = Remaining(executeQueueHead, op.timer)
<1>1. TypeOK /\ OpFitsPC /\ Unlinked /\ DummyWhole
  BY DEF LinkInv
<1>2. /\ op.kind # "none" /\ pc = "queueSearch"
      /\ op.kind # "flush" => op.timer \in Timers
  BY <1>1 DEF SearchQueue, OpFitsPC, TypeOK
<1>3. /\ executeQueueHead' = Remaining(executeQueueHead, op.timer)
      /\ ovf' = ovf /\ tempIE' = tempIE /\ calling' = calling /\ fault' = fault
      /\ Return
  BY DEF SearchQueue
<1>4. /\ Range(listHead) \cap Range(executeQueueHead) = {}
      /\ ovf \in BOOLEAN /\ tempIE \in BOOLEAN /\ fault \in BOOLEAN
      /\ calling \in Timers \cup {NoTimer}
      /\ absoluteTime \in [Nodes -> Word] /\ absoluteTimeofLastTimeout \in Word
      /\ WellLinked(listHead)
  BY <1>1 DEF TypeOK, Unlinked, Nodes
<1>5. /\ executeQueueHead' \in Seq(Timers) /\ IsInjective(executeQueueHead')
      /\ Range(executeQueueHead') = Range(executeQueueHead) \ {op.timer}
  BY <1>1, <1>3, RestOfList DEF TypeOK, Unlinked
<1>6. ~FlushBegun
  BY <1>2 DEF FlushBegun
<1>7. HeadStarted(Range(listHead) \ {Dummy})
  <2>1. CASE Head(executeQueueHead) = op.timer
    <3>1. startTimerAtHead(listHead, absoluteTime, absoluteTimeofLastTimeout)
      BY <2>1 DEF SearchQueue
    <3>2. listHead # <<>> /\ Head(listHead) = Dummy
              => Sub32(absoluteTime[Dummy], absoluteTimeofLastTimeout) = MaxLoad
      BY <1>1, <1>6 DEF DummyWhole
    <3> QED
      BY <1>1, <1>4, <3>1, <3>2, HeadIsStarted
  <2>2. CASE Head(executeQueueHead) # op.timer
    <3>1. /\ listHead' = listHead /\ absoluteTime' = absoluteTime
          /\ UNCHANGED <<base, cnt>> /\ ovfIE' = TRUE
      BY <2>2 DEF SearchQueue
    <3> QED
      BY <1>6, <3>1, HeadStaysStarted
  <2> QED
    BY <2>1, <2>2
<1>8. op.kind # "flush" => op.timer \notin Range(listHead)
  BY <1>1, <1>2 DEF Unlinked
<1>9. LinkInv'
  BY <1>1, <1>2, <1>3, <1>4, <1>5, <1>7, <1>8, ReturnFits, HeadStartedKeeps
<1> QED
  BY <1>3, <1>7, <1>9 DEF HeadStarted
\* The ticks gone by and every time makeAbsolute makes are words.
LEMMA TimesAreWords ==
    ASSUME TypeOK
    PROVE  /\ Elapsed \in 0 .. MaxLoad /\ Elapsed \in Word
           /\ \A timeout \in Word : makeAbsolute(timeout) \in Word
<1>1. /\ MaxLoad \in Nat /\ Modulus \in Nat /\ MaxLoad < Modulus
      /\ cnt \in 0 .. MaxLoad /\ lastTimerLoad \in 0 .. MaxLoad
      /\ absoluteTimeofLastTimeout \in Word
  BY CounterAssumption DEF TypeOK
<1>2. Elapsed \in 0 .. MaxLoad
  BY <1>1 DEF Elapsed
<1>3. Elapsed \in Word
  BY <1>1, <1>2 DEF Word
<1> QED
  BY <1>1, <1>2, <1>3, WordsAreModular DEF makeAbsolute

LEMMA CreateAbsKeeps ==
    ASSUME LinkInv, CreateAbs
    PROVE  LinkInv'
<1>1. TypeOK /\ OpFitsPC /\ Unlinked /\ DummyWhole /\ Armed
  BY DEF LinkInv
<1>2. /\ pc = "createAbs" /\ op.kind = "create" /\ op.timer \in Timers
      /\ op.timeout \in Timeouts /\ op.timer # Dummy
  BY <1>1, TimerAssumption DEF CreateAbs, OpFitsPC
<1>3. /\ ovfIE' = FALSE /\ pc' = "createInsert"
      /\ absoluteTime' = [absoluteTime EXCEPT ![op.timer] = makeAbsolute(op.timeout)]
      /\ listHead' = listHead /\ executeQueueHead' = executeQueueHead
      /\ absoluteTimeofLastTimeout' = absoluteTimeofLastTimeout
      /\ lastTimerLoad' = lastTimerLoad /\ isRunning' = isRunning
      /\ cnt' = cnt /\ ovf' = ovf /\ op' = op /\ tempIE' = tempIE
      /\ calling' = calling /\ fault' = fault
  BY DEF CreateAbs, base
<1>4. /\ op.timer \notin Range(listHead) \cup Range(executeQueueHead)
      /\ WellLinked(listHead)
  BY <1>1, <1>2 DEF Unlinked
<1>5. makeAbsolute(op.timeout) \in Word
  <2>1. op.timeout \in Word
    <3>1. op.timeout \in 1 .. (Modulus - 1) /\ Modulus \in Nat
      BY <1>2, CounterAssumption
    <3> QED
      BY <3>1 DEF Word
  <2> QED
    BY <1>1, <2>1, TimesAreWords
<1>6. TypeOK'
  BY <1>1, <1>3, <1>5 DEF TypeOK, PCs
<1>7. OpFitsPC'
  BY <1>2, <1>3 DEF OpFitsPC
<1>8. Unlinked'
  BY <1>1, <1>3, <1>4 DEF Unlinked
<1>9. listHead # <<>> => Head(listHead) # op.timer
  BY <1>4, HeadInRange DEF WellLinked
<1>10. absoluteTime'[Dummy] = absoluteTime[Dummy]
       /\ (listHead # <<>> => absoluteTime'[Head(listHead)] = absoluteTime[Head(listHead)])
  <2>1. listHead # <<>> => Head(listHead) \in Nodes
    BY <1>4, HeadInRange DEF WellLinked
  <2>2. absoluteTime \in [Nodes -> Word] /\ Dummy \in Nodes
    BY <1>1 DEF TypeOK, Nodes
  <2> QED
    BY <1>2, <1>3, <1>9, <2>1, <2>2
<1>11. ~FlushBegun /\ ~FlushBegun'
  BY <1>2, <1>3 DEF FlushBegun
<1>12. DummyWhole'
  BY <1>1, <1>3, <1>10, <1>11 DEF DummyWhole
<1>13. Armed'
  BY <1>1, <1>3, <1>10, <1>11 DEF Armed
<1> QED
  BY <1>3, <1>6, <1>7, <1>8, <1>12, <1>13 DEF LinkInv, CriticalSection

\* The times that sortedInsert gives insertAndStart keep the counter armed for the head,
\* whether they are rebased or not.
LEMMA RebaseKeepsDistances ==
    ASSUME LinkInv, CreateInsert
    PROVE  \E abs \in [Nodes -> Word], last \in Word :
              /\ insertAndStart(op.timer, abs, last)
              /\ listHead # <<>> => Sub32(abs[Head(listHead)], last)
                    = Sub32(absoluteTime[Head(listHead)], absoluteTimeofLastTimeout)
<1>1. TypeOK /\ OpFitsPC /\ Unlinked
  BY DEF LinkInv
<1>2. /\ pc = "createInsert" /\ op.timer \in Timers /\ sortedInsert(op.timer)
      /\ op.timer \notin Range(listHead)
  BY <1>1 DEF CreateInsert, OpFitsPC, Unlinked
<1>3. absoluteTime \in [Nodes -> Word] /\ absoluteTimeofLastTimeout \in Word
  BY <1>1 DEF TypeOK, Nodes
<1>4. CASE ~(absoluteTime[op.timer] < absoluteTimeofLastTimeout)
  BY <1>2, <1>3, <1>4 DEF sortedInsert
<1>5. CASE absoluteTime[op.timer] < absoluteTimeofLastTimeout
  <2> DEFINE now == makeAbsolute(0)
             mine == Add32(absoluteTime[op.timer], Sub32(MaxLoad + 1, now))
             abs == [rebaseList(now) EXCEPT ![op.timer] = mine]
             last == Sub32(absoluteTimeofLastTimeout, now)
  <2>1. insertAndStart(op.timer, abs, last)
    BY <1>2, <1>5 DEF sortedInsert
  <2>2. 0 \in Word /\ MaxLoad + 1 \in Word
    BY CounterAssumption DEF Word
  <2>3. now \in Word
    BY <1>1, <2>2, TimesAreWords
  <2> HIDE DEF now
  <2>4. op.timer \in Nodes
    BY <1>2 DEF Nodes
  <2>5. mine \in Word
    BY <1>3, <2>2, <2>3, <2>4, WordsAreModular
  <2>6. last \in Word
    BY <1>3, <2>3, WordsAreModular
  <2> HIDE DEF mine
  <2>7. rebaseList(now) \in [Nodes -> Word]
    BY <1>3, <2>3, WordsAreModular DEF rebaseList, Nodes
  <2>8. abs \in [Nodes -> Word]
    BY <2>4, <2>5, <2>7
  <2>9. ASSUME listHead # <<>>
        PROVE  Sub32(abs[Head(listHead)], last)
                  = Sub32(absoluteTime[Head(listHead)], absoluteTimeofLastTimeout)
    <3>1. Head(listHead) \in Range(listHead) /\ Head(listHead) \in Nodes
      BY <1>1, <2>9, HeadInRange DEF Unlinked, WellLinked
    <3>2. abs[Head(listHead)] = rebaseList(now)[Head(listHead)]
      BY <1>2, <2>7, <3>1
    <3>3. abs[Head(listHead)] = Sub32(absoluteTime[Head(listHead)], now)
      BY <3>1, <3>2 DEF rebaseList, Nodes
    <3> QED
      BY <1>3, <2>3, <3>1, <3>3, DistanceKept
  <2> HIDE DEF abs, last
  <2> QED
    BY <2>1, <2>6, <2>8, <2>9
<1> QED
  BY <1>4, <1>5

LEMMA CreateInsertKeeps ==
    ASSUME LinkInv, CreateInsert
    PROVE  LinkInv' /\ HeadStarted((Range(listHead) \ {Dummy}) \cup {op.timer})
<1>1. TypeOK /\ OpFitsPC /\ Unlinked /\ DummyWhole /\ Armed
  BY DEF LinkInv
<1>2. /\ pc = "createInsert" /\ op.kind = "create" /\ op.timer \in Timers
      /\ op.timer \notin Range(listHead) \cup Range(executeQueueHead)
      /\ WellLinked(listHead)
  BY <1>1 DEF CreateInsert, OpFitsPC, Unlinked
<1>3. PICK abs \in [Nodes -> Word], last \in Word :
              /\ insertAndStart(op.timer, abs, last)
              /\ listHead # <<>> => Sub32(abs[Head(listHead)], last)
                    = Sub32(absoluteTime[Head(listHead)], absoluteTimeofLastTimeout)
  BY RebaseKeepsDistances
<1>4. ~FlushBegun
  BY <1>2 DEF FlushBegun
<1>5. listHead # <<>> =>
          isRunning /\ lastTimerLoad + Sub32(abs[Head(listHead)], last) = MaxLoad
  BY <1>1, <1>3, <1>4 DEF Armed
<1>6. listHead # <<>> /\ Head(listHead) = Dummy => Sub32(abs[Dummy], last) = MaxLoad
  BY <1>1, <1>3, <1>4 DEF DummyWhole
<1>7. HeadStarted((Range(listHead) \ {Dummy}) \cup {op.timer})
  BY <1>1, <1>2, <1>3, <1>5, <1>6, TimerIsInserted
<1>8. /\ executeQueueHead' = executeQueueHead /\ ovf' = ovf /\ tempIE' = tempIE
      /\ calling' = calling /\ fault' = fault /\ pc' = "idle" /\ op' = NoOp
  BY DEF CreateInsert
<1>9. /\ executeQueueHead' \in Seq(Timers) /\ IsInjective(executeQueueHead')
      /\ ((Range(listHead) \ {Dummy}) \cup {op.timer}) \cap Range(executeQueueHead') = {}
      /\ ovf' \in BOOLEAN /\ tempIE' \in BOOLEAN /\ fault' \in BOOLEAN
      /\ calling' \in Timers \cup {NoTimer}
  BY <1>1, <1>2, <1>8 DEF TypeOK, Unlinked
<1>10. /\ pc' \in PCs /\ OpFitsPC'
       /\ op' \in [kind : {"none", "create", "delete", "flush"},
                   timer : Timers \cup {Dummy, NoTimer}, timeout : {0} \cup Timeouts]
  BY <1>8 DEF PCs, OpFitsPC, NoOp
<1> QED
  BY <1>7, <1>8, <1>9, <1>10, HeadStartedKeeps
\* A call of the driver that begins with a delete leaves lists and counter alone.
LEMMA CallBegins ==
    ASSUME LinkInv, NEW o, BeginDelete(o), pc \in {"idle", "flush"},
           o \in [kind : {"create", "delete", "flush"},
                  timer : Timers \cup {Dummy}, timeout : {0} \cup Timeouts],
           o.kind # "flush" => o.timer \in Timers,
           o.kind = "create" => o.timeout \in Timeouts,
           FlushBegun => o.kind = "flush" /\ (listHead # <<>> => o.timer = Head(listHead)),
           UNCHANGED <<lists, base, rtc, tempIE, fault>>,
           calling' \in Timers \cup {NoTimer}
    PROVE  LinkInv'
<1>1. TypeOK /\ OpFitsPC /\ Unlinked /\ DummyWhole /\ Armed
  BY DEF LinkInv
<1>2. /\ op' = o /\ pc' = IF listHead = <<>> THEN "queueCheck" ELSE "listSearch"
      /\ listHead' = listHead /\ executeQueueHead' = executeQueueHead
      /\ absoluteTime' = absoluteTime /\ cnt' = cnt /\ ovf' = ovf /\ ovfIE' = ovfIE
      /\ absoluteTimeofLastTimeout' = absoluteTimeofLastTimeout
      /\ lastTimerLoad' = lastTimerLoad /\ isRunning' = isRunning
      /\ tempIE' = tempIE /\ fault' = fault
  BY DEF BeginDelete, lists, base, rtc
<1>3. TypeOK'
  BY <1>1, <1>2 DEF TypeOK, PCs
<1>4. OpFitsPC'
  BY <1>2 DEF OpFitsPC
<1>5. listHead = <<>> => Range(listHead) = {}
  BY DEF Range
<1>6. Unlinked'
  BY <1>1, <1>2, <1>5 DEF Unlinked
<1>7. listHead # <<>> /\ FlushBegun => FlushBegun'
  BY <1>2 DEF FlushBegun
<1>8. DummyWhole' /\ Armed'
  BY <1>1, <1>2, <1>7 DEF DummyWhole, Armed
<1> QED
  BY <1>2, <1>3, <1>4, <1>6, <1>8 DEF LinkInv, CriticalSection

LEMMA FlushNextKeeps ==
    ASSUME LinkInv, FlushNext
    PROVE  LinkInv'
<1>1. TypeOK /\ OpFitsPC /\ Unlinked /\ DummyWhole /\ Armed
  BY DEF LinkInv
<1>2. /\ pc = "flush" /\ op.kind = "flush"
      /\ UNCHANGED <<lists, base, rtc, tempIE, calling, fault>>
      /\ calling \in Timers \cup {NoTimer}
  BY <1>1 DEF FlushNext, OpFitsPC, TypeOK
<1>3. CASE listHead # <<>>
  <2> DEFINE o == [op EXCEPT !.timer = Head(listHead)]
  <2>1. Head(listHead) \in Timers \cup {Dummy}
    BY <1>1, <1>3, HeadInRange DEF TypeOK
  <2>2. /\ o \in [kind : {"create", "delete", "flush"},
                  timer : Timers \cup {Dummy}, timeout : {0} \cup Timeouts]
        /\ o.kind = "flush" /\ o.timer = Head(listHead)
    BY <1>1, <1>2, <2>1 DEF TypeOK
  <2>3. BeginDelete(o)
    BY <1>3 DEF FlushNext
  <2> HIDE DEF o
  <2> QED
    BY <1>2, <2>2, <2>3, CallBegins
<1>4. CASE listHead = <<>> /\ executeQueueHead # <<>>
  <2> DEFINE o == [op EXCEPT !.timer = Head(executeQueueHead)]
  <2>1. Head(executeQueueHead) \in Timers
    BY <1>1, <1>4, HeadInRange DEF TypeOK
  <2>2. /\ o \in [kind : {"create", "delete", "flush"},
                  timer : Timers \cup {Dummy}, timeout : {0} \cup Timeouts]
        /\ o.kind = "flush"
    BY <1>1, <1>2, <2>1 DEF TypeOK
  <2>3. BeginDelete(o)
    BY <1>4 DEF FlushNext
  <2> HIDE DEF o
  <2> QED
    BY <1>2, <1>4, <2>2, <2>3, CallBegins
<1>5. CASE listHead = <<>> /\ executeQueueHead = <<>>
  <2>1. /\ pc' = "idle" /\ op' = NoOp /\ listHead' = listHead
        /\ executeQueueHead' = executeQueueHead
        /\ absoluteTime' = absoluteTime /\ cnt' = cnt /\ ovf' = ovf /\ ovfIE' = ovfIE
        /\ absoluteTimeofLastTimeout' = absoluteTimeofLastTimeout
        /\ lastTimerLoad' = lastTimerLoad /\ isRunning' = isRunning
        /\ tempIE' = tempIE /\ fault' = fault /\ calling' = calling
    BY <1>2, <1>5 DEF FlushNext, lists, base, rtc
  <2>2. TypeOK' /\ OpFitsPC' /\ Unlinked'
    BY <1>1, <2>1 DEF TypeOK, PCs, NoOp, OpFitsPC, Unlinked
  <2> QED
    BY <1>5, <2>1, <2>2 DEF LinkInv, DummyWhole, Armed, CriticalSection
<1> QED
  BY <1>3, <1>4, <1>5

\* A client's call, or the rescheduling of a callback, outside any other call.
LEMMA ClientCallKeeps ==
    ASSUME LinkInv,
           \/ \E timer \in Timers : Delete(timer)
           \/ \E timer \in Timers, timeout \in Timeouts : Create(timer, timeout)
           \/ \E reschedule \in Timeouts : CallbackReschedule(reschedule)
    PROVE  LinkInv'
<1>1. TypeOK /\ OpFitsPC
  BY DEF LinkInv
<1>2. calling \in Timers \cup {NoTimer} /\ (pc = "idle" => ~FlushBegun)
  BY <1>1 DEF TypeOK, OpFitsPC, FlushBegun
<1>3. ASSUME NEW timer \in Timers, Delete(timer) PROVE LinkInv'
  <2> DEFINE o == [kind |-> "delete", timer |-> timer, timeout |-> 0]
  <2>1. /\ BeginDelete(o) /\ pc = "idle"
        /\ UNCHANGED <<lists, base, rtc, tempIE, calling, fault>>
    BY <1>3 DEF Delete
  <2>2. /\ o \in [kind : {"create", "delete", "flush"},
                  timer : Timers \cup {Dummy}, timeout : {0} \cup Timeouts]
        /\ o.kind = "delete" /\ o.timer \in Timers
    OBVIOUS
  <2> HIDE DEF o
  <2> QED
    BY <1>2, <2>1, <2>2, CallBegins
<1>4. ASSUME NEW timer \in Timers, NEW timeout \in Timeouts, Create(timer, timeout)
      PROVE  LinkInv'
  <2> DEFINE o == [kind |-> "create", timer |-> timer, timeout |-> timeout]
  <2>1. /\ BeginDelete(o) /\ pc = "idle"
        /\ UNCHANGED <<lists, base, rtc, tempIE, calling, fault>>
    BY <1>4 DEF Create, BeginCreate
  <2>2. /\ o \in [kind : {"create", "delete", "flush"},
                  timer : Timers \cup {Dummy}, timeout : {0} \cup Timeouts]
        /\ o.kind = "create" /\ o.timer \in Timers /\ o.timeout \in Timeouts
    OBVIOUS
  <2> HIDE DEF o
  <2> QED
    BY <1>2, <2>1, <2>2, CallBegins
<1>5. ASSUME NEW reschedule \in Timeouts, CallbackReschedule(reschedule) PROVE LinkInv'
  <2> DEFINE o == [kind |-> "create", timer |-> calling, timeout |-> reschedule]
  <2>1. /\ BeginDelete(o) /\ pc = "idle" /\ calling # NoTimer /\ calling' = NoTimer
        /\ UNCHANGED <<lists, base, rtc, tempIE, fault>>
    BY <1>5 DEF CallbackReschedule, BeginCreate
  <2>2. /\ o \in [kind : {"create", "delete", "flush"},
                  timer : Timers \cup {Dummy}, timeout : {0} \cup Timeouts]
        /\ o.kind = "create" /\ o.timer \in Timers /\ o.timeout \in Timeouts
    BY <1>2, <2>1
  <2> HIDE DEF o
  <2> QED
    BY <1>2, <2>1, <2>2, CallBegins
<1> QED
  BY <1>3, <1>4, <1>5

LEMMA FlushAllKeeps ==
    ASSUME LinkInv, FlushAll
    PROVE  LinkInv'
<1>1. TypeOK /\ OpFitsPC /\ Unlinked
  BY DEF LinkInv
<1>2. /\ pc' = "flush" /\ op' = [kind |-> "flush", timer |-> NoTimer, timeout |-> 0]
      /\ ovfIE' = FALSE /\ absoluteTimeofLastTimeout' = 0 /\ lastTimerLoad' = 0
      /\ isRunning' = FALSE
      /\ listHead' = listHead /\ executeQueueHead' = executeQueueHead
      /\ absoluteTime' = absoluteTime /\ cnt' = cnt /\ ovf' = ovf
      /\ tempIE' = tempIE /\ fault' = fault /\ calling' = calling
  BY DEF FlushAll, stopTimeouts, lists
<1>3. 0 \in Word /\ 0 \in 0 .. MaxLoad
  BY CounterAssumption DEF Word
<1>4. TypeOK'
  BY <1>1, <1>2, <1>3 DEF TypeOK, PCs
<1>5. OpFitsPC' /\ Unlinked'
  BY <1>1, <1>2 DEF OpFitsPC, Unlinked
<1>6. FlushBegun'
  BY <1>2 DEF FlushBegun
<1> QED
  BY <1>2, <1>4, <1>5, <1>6 DEF LinkInv, DummyWhole, Armed, CriticalSection

LEMMA CallbackStepsKeep ==
    ASSUME LinkInv, CallNextCallback \/ Pop \/ CallbackDone
    PROVE  LinkInv'
<1>1. TypeOK /\ OpFitsPC /\ Unlinked /\ DummyWhole /\ Armed
  BY DEF LinkInv
<1>2. /\ listHead' = listHead /\ absoluteTime' = absoluteTime /\ cnt' = cnt /\ ovf' = ovf
      /\ absoluteTimeofLastTimeout' = absoluteTimeofLastTimeout
      /\ lastTimerLoad' = lastTimerLoad /\ isRunning' = isRunning
      /\ fault' = fault /\ op' = op
  BY DEF CallNextCallback, Pop, CallbackDone, lists, base, rtc
<1>3. pc \in {"idle", "pop"} /\ op.kind = "none" /\ pc' \in {"idle", "pop"}
  BY <1>1 DEF CallNextCallback, Pop, CallbackDone, OpFitsPC
<1>4. ~FlushBegun /\ ~FlushBegun'
  BY <1>2, <1>3 DEF FlushBegun
<1>5. DummyWhole'
  BY <1>1, <1>2, <1>4 DEF DummyWhole
<1>6. CASE CallNextCallback
  <2>1. /\ executeQueueHead' = executeQueueHead /\ executeQueueHead # <<>>
        /\ ovfIE' = ovfIE /\ tempIE' = ovfIE /\ calling' = calling
        /\ pc = "idle" /\ pc' = "pop"
    BY <1>6 DEF CallNextCallback, lists, rtc
  <2>2. TypeOK' /\ OpFitsPC' /\ Unlinked'
    BY <1>1, <1>2, <1>3, <2>1 DEF TypeOK, PCs, OpFitsPC, Unlinked
  <2>3. Armed'
    BY <1>1, <1>2, <1>4, <2>1 DEF Armed
  <2> QED
    BY <1>5, <2>1, <2>2, <2>3 DEF LinkInv, CriticalSection
<1>7. CASE Pop
  <2>1. /\ executeQueueHead' = Tail(executeQueueHead) /\ executeQueueHead # <<>>
        /\ calling' = Head(executeQueueHead)
        /\ ovfIE' = tempIE /\ tempIE' = tempIE
        /\ pc = "pop" /\ pc' = "idle"
    BY <1>1, <1>7 DEF Pop, OpFitsPC
  <2>2. executeQueueHead \in Seq(Timers) /\ IsInjective(executeQueueHead)
    BY <1>1 DEF TypeOK, Unlinked
  <2>3. /\ executeQueueHead' \in Seq(Timers) /\ IsInjective(executeQueueHead')
        /\ Range(executeQueueHead') \subseteq Range(executeQueueHead)
        /\ calling' \in Timers
    BY <2>1, <2>2, TailOfList, HeadInRange
  <2>4. TypeOK' /\ OpFitsPC'
    BY <1>1, <1>2, <1>3, <2>1, <2>3 DEF TypeOK, PCs, OpFitsPC
  <2>5. Unlinked'
    BY <1>1, <1>2, <2>1, <2>3 DEF Unlinked
  <2>6. Armed'
    BY <1>1, <1>2, <1>4, <2>1 DEF Armed
  <2> QED
    BY <1>5, <2>1, <2>4, <2>5, <2>6 DEF LinkInv, CriticalSection
<1>8. CASE CallbackDone
  <2>1. /\ executeQueueHead' = executeQueueHead
        /\ ovfIE' = ovfIE /\ tempIE' = tempIE /\ calling' = NoTimer
        /\ pc = "idle" /\ pc' = pc
    BY <1>8 DEF CallbackDone, lists, rtc
  <2>2. TypeOK' /\ OpFitsPC' /\ Unlinked'
    BY <1>1, <1>2, <1>3, <2>1 DEF TypeOK, PCs, OpFitsPC, Unlinked
  <2>3. Armed'
    BY <1>1, <1>2, <1>4, <2>1 DEF Armed
  <2> QED
    BY <1>5, <2>1, <2>2, <2>3 DEF LinkInv, CriticalSection
<1> QED
  BY <1>6, <1>7, <1>8

LEMMA HardwareKeeps ==
    ASSUME LinkInv, Tick \/ IsrNull \/ UNCHANGED vars
    PROVE  LinkInv'
<1>1. TypeOK
  BY DEF LinkInv
<1>2. /\ listHead' = listHead /\ executeQueueHead' = executeQueueHead
      /\ absoluteTime' = absoluteTime /\ ovfIE' = ovfIE
      /\ absoluteTimeofLastTimeout' = absoluteTimeofLastTimeout
      /\ lastTimerLoad' = lastTimerLoad /\ isRunning' = isRunning
      /\ tempIE' = tempIE /\ calling' = calling /\ pc' = pc /\ op' = op
  BY DEF Tick, IsrNull, vars, lists, base, rtc, main
<1>3. /\ cnt' = cnt \/ cnt' = IF cnt = MaxLoad THEN 0 ELSE cnt + 1
      /\ ovf' = ovf \/ ovf' = (ovf \/ cnt = MaxLoad)
      /\ fault' \in {fault, TRUE}
  BY DEF Tick, IsrNull, vars, lists, base, rtc, main
<1>4. cnt' \in 0 .. MaxLoad
  BY <1>1, <1>3, CounterAssumption DEF TypeOK
<1>5. ovf' \in BOOLEAN /\ fault' \in BOOLEAN
  BY <1>1, <1>3 DEF TypeOK
<1>6. TypeOK'
  BY <1>1, <1>2, <1>4, <1>5 DEF TypeOK
<1> QED
  BY <1>2, <1>6
     DEF LinkInv, OpFitsPC, Unlinked, DummyWhole, Armed, FlushBegun, CriticalSection

LEMMA IsrKeeps ==
    ASSUME LinkInv, Isr
    PROVE  /\ LinkInv'
           /\ HeadStarted(Range(Tail(listHead)) \ {Dummy})
           /\ Range(listHead') \ {Dummy} = (Range(listHead) \ {Dummy}) \ {Head(listHead)}
<1>1. TypeOK /\ OpFitsPC /\ Unlinked /\ DummyWhole /\ Armed /\ CriticalSection
  BY DEF LinkInv
<1>2. /\ listHead # <<>> /\ ovfIE /\ ovf' = FALSE
      /\ pc' = pc /\ op' = op /\ tempIE' = tempIE /\ calling' = calling /\ fault' = fault
      /\ startTimerAtHead(Tail(listHead), absoluteTime, absoluteTime[Head(listHead)])
  BY DEF Isr, main
<1>3. /\ WellLinked(listHead) /\ Head(listHead) \in Range(listHead)
      /\ Head(listHead) \in Nodes
  BY <1>1, <1>2, HeadInRange DEF Unlinked, WellLinked
<1>4. /\ absoluteTime \in [Nodes -> Word] /\ absoluteTime[Head(listHead)] \in Word
  BY <1>1, <1>3 DEF TypeOK, Nodes
<1>5. /\ WellLinked(Tail(listHead)) /\ Dummy \notin Range(Tail(listHead))
      /\ Tail(listHead) # <<>> => Head(Tail(listHead)) # Dummy
      /\ Range(Tail(listHead)) = Range(listHead) \ {Head(listHead)}
  BY <1>2, <1>3, TailIsWellLinked
<1> DEFINE rest == Range(Tail(listHead)) \ {Dummy}
<1>6. HeadStarted(rest)
  BY <1>1, <1>2, <1>4, <1>5, HeadIsStarted
<1>7. rest = (Range(listHead) \ {Dummy}) \ {Head(listHead)}
  BY <1>5
<1>8. /\ executeQueueHead' \in Seq(Timers) /\ IsInjective(executeQueueHead')
      /\ Range(executeQueueHead') \subseteq Range(executeQueueHead) \cup {Head(listHead)}
      /\ executeQueueHead # <<>> => executeQueueHead' # <<>>
  <2>1. executeQueueHead \in Seq(Timers) /\ IsInjective(executeQueueHead)
    BY <1>1 DEF TypeOK, Unlinked
  <2>2. CASE Head(listHead) = Dummy
    BY <2>1, <2>2 DEF Isr
  <2>3. CASE Head(listHead) # Dummy
    <3>1. executeQueueHead' = Append(executeQueueHead, Head(listHead))
      BY <2>3 DEF Isr, enqueueCallback
    <3>2. Head(listHead) \in Timers /\ Head(listHead) \notin Range(executeQueueHead)
      BY <1>1, <1>3, <2>3 DEF Unlinked, Nodes
    <3> QED
      BY <2>1, <3>1, <3>2, AppendToList
  <2> QED
    BY <2>2, <2>3
<1>9. pc # "createInsert"
  BY <1>1, <1>2 DEF CriticalSection
<1>10. ~FlushBegun
  BY <1>2 DEF FlushBegun
<1>11. /\ rest \cap Range(executeQueueHead') = {}
       /\ pc = "createAbs" => op.timer \notin rest \cup Range(executeQueueHead')
       /\ pc \in {"queueCheck", "queueSearch"} /\ op.kind # "flush" => op.timer \notin rest
  BY <1>1, <1>3, <1>7, <1>8 DEF Unlinked
<1>12. pc = "pop" => tempIE
  BY <1>1, <1>2, <1>10 DEF Armed
<1>13. OpFitsPC'
  BY <1>1, <1>2, <1>8 DEF OpFitsPC
<1>14. /\ pc \in PCs /\ tempIE \in BOOLEAN /\ fault \in BOOLEAN /\ ovf' \in BOOLEAN
       /\ calling \in Timers \cup {NoTimer}
       /\ op \in [kind : {"none", "create", "delete", "flush"},
                  timer : Timers \cup {Dummy, NoTimer}, timeout : {0} \cup Timeouts]
  BY <1>1, <1>2 DEF TypeOK
<1> HIDE DEF rest
<1>15. LinkInv'
  BY <1>2, <1>6, <1>8, <1>9, <1>11, <1>12, <1>13, <1>14, HeadStartedKeeps
<1>16. Range(listHead') \ {Dummy} = rest
  BY <1>6 DEF HeadStarted
<1> QED
  BY <1>6, <1>7, <1>15, <1>16 DEF rest

LEMMA LinksInit == Init => LinkInv
<1> SUFFICES ASSUME Init PROVE LinkInv
  OBVIOUS
<1>1. 0 \in Word /\ 0 \in 0 .. MaxLoad /\ MaxLoad \in Nat
  BY CounterAssumption DEF Word
<1>2. TypeOK
  <2>1. /\ listHead \in Seq(Timers \cup {Dummy}) /\ executeQueueHead \in Seq(Timers)
        /\ absoluteTime \in [Timers \cup {Dummy} -> Word]
    BY <1>1 DEF Init
  <2>2. op \in [kind : {"none", "create", "delete", "flush"},
               timer : Timers \cup {Dummy, NoTimer}, timeout : {0} \cup Timeouts]
    BY DEF Init, NoOp
  <2> QED
    BY <1>1, <2>1, <2>2 DEF Init, TypeOK, PCs
<1>3. /\ listHead = <<>> /\ executeQueueHead = <<>> /\ pc = "idle" /\ op.kind = "none"
  BY DEF Init, NoOp
<1>4. /\ Range(<<>>) = {} /\ IsInjective(<<>>) /\ <<>> \in Seq(Nodes) /\ Len(<<>>) = 0
  BY DEF Range, IsInjective
<1> QED
  BY <1>2, <1>3, <1>4
     DEF LinkInv, OpFitsPC, Unlinked, WellLinked, DummyWhole, Armed, CriticalSection

LEMMA LinksStep == LinkInv /\ [Next]_vars => LinkInv'
<1> SUFFICES ASSUME LinkInv, [Next]_vars PROVE LinkInv'
  OBVIOUS
<1>1. CASE SearchList
  BY <1>1, SearchListKeeps
<1>2. CASE CheckQueue
  BY <1>2, CheckQueueKeeps
<1>3. CASE SearchQueue
  BY <1>3, SearchQueueKeeps
<1>4. CASE CreateAbs
  BY <1>4, CreateAbsKeeps
<1>5. CASE CreateInsert
  BY <1>5, CreateInsertKeeps
<1>6. CASE FlushNext
  BY <1>6, FlushNextKeeps
<1>7. CASE CallNextCallback \/ Pop \/ CallbackDone
  BY <1>7, CallbackStepsKeep
<1>8. CASE \/ \E timer \in Timers : Delete(timer)
           \/ \E timer \in Timers, timeout \in Timeouts : Create(timer, timeout)
           \/ \E reschedule \in Timeouts : CallbackReschedule(reschedule)
  BY <1>8, ClientCallKeeps
<1>9. CASE FlushAll
  BY <1>9, FlushAllKeeps
<1>10. CASE Isr
  BY <1>10, IsrKeeps
<1>11. CASE Tick \/ IsrNull \/ UNCHANGED vars
  BY <1>11, HardwareKeeps
<1> QED
  BY <1>1, <1>2, <1>3, <1>4, <1>5, <1>6, <1>7, <1>8, <1>9, <1>10, <1>11
     DEF Next, MainStep, ClientCall
-----------------------------------------------------------------------------
(***************************************************************************)
(* What the links give, whatever the times do.                             *)
(***************************************************************************)

\* Every step of the driver, and the interrupt between any two, keeps LinkInv.
THEOREM LinksHold == Spec => []LinkInv
<1> QED
  BY LinksInit, LinksStep, PTL DEF Spec

\* Every field of the driver and of the counter keeps its type: uint32_t times that wrap,
\* a 16-bit counter, lists that hold only timers.
THEOREM TimerTypesHold == Spec => []TypeOK
<1>1. LinkInv => TypeOK
  BY DEF LinkInv
<1> QED
  BY <1>1, LinksHold, PTL

\* Two lists with nothing in common, one after the other.
LEMMA BothLists ==
    ASSUME NEW S, NEW a \in Seq(S), NEW b \in Seq(S), IsInjective(a), IsInjective(b),
           Range(a) \cap Range(b) = {}
    PROVE  /\ Range(a \o b) = Range(a) \cup Range(b)
           /\ \A i, j \in 1 .. Len(a \o b) : i # j => (a \o b)[i] # (a \o b)[j]
<1> DEFINE m == Len(a)
           n == Len(b)
           linked == a \o b
<1>1. /\ IsInjective(a) /\ IsInjective(b) /\ Range(a) \cap Range(b) = {}
  OBVIOUS
<1>2. /\ m \in Nat /\ n \in Nat
      /\ DOMAIN a = 1 .. m /\ DOMAIN b = 1 .. n
  BY LenProperties
<1>3. /\ linked \in Seq(S) /\ Len(linked) = m + n
      /\ \A i \in 1 .. m + n : linked[i] = IF i <= m THEN a[i] ELSE b[i - m]
  BY ConcatProperties
<1> HIDE DEF linked, m, n
<1>4. DOMAIN linked = 1 .. m + n
  BY <1>3, LenProperties
<1>5. \A i \in 1 .. m : a[i] \in Range(a)
  BY <1>2 DEF Range
<1>6. \A i \in 1 .. n : b[i] \in Range(b)
  BY <1>2 DEF Range
<1>7. \A i \in 1 .. m + n : i > m => i - m \in 1 .. n
  BY <1>2
<1>8. ASSUME NEW i \in 1 .. m + n, NEW j \in 1 .. m + n, i < j
      PROVE  linked[i] # linked[j]
  <2>1. CASE j <= m
    BY <1>1, <1>2, <1>3, <1>8, <2>1 DEF IsInjective
  <2>2. CASE i <= m /\ j > m
    <3>1. linked[i] \in Range(a) /\ linked[j] \in Range(b)
      BY <1>2, <1>3, <1>5, <1>6, <1>7, <2>2
    <3> QED
      BY <1>1, <3>1
  <2>3. CASE i > m
    <3>1. /\ i - m \in DOMAIN b /\ j - m \in DOMAIN b
          /\ i - m # j - m
          /\ linked[i] = b[i - m] /\ linked[j] = b[j - m]
      BY <1>2, <1>3, <1>8, <2>3
    <3> QED
      BY <1>1, <3>1 DEF IsInjective
  <2> QED
    BY <1>2, <1>8, <2>1, <2>2, <2>3
<1>9. \A i, j \in 1 .. Len(linked) : i # j => linked[i] # linked[j]
  <2> SUFFICES ASSUME NEW i \in 1 .. m + n, NEW j \in 1 .. m + n, i # j
               PROVE  linked[i] # linked[j]
    BY <1>3
  <2>1. i < j \/ j < i
    BY <1>2
  <2> QED
    BY <1>8, <2>1
<1>10. ASSUME NEW x \in Range(linked)
       PROVE  x \in Range(a) \cup Range(b)
  <2>1. PICK i \in 1 .. m + n : linked[i] = x
    BY <1>4 DEF Range
  <2>2. CASE i <= m
    BY <1>2, <1>3, <1>5, <2>1, <2>2
  <2>3. CASE i > m
    BY <1>2, <1>3, <1>6, <1>7, <2>1, <2>3
  <2> QED
    BY <1>2, <2>2, <2>3
<1>11. ASSUME NEW x \in Range(a) PROVE x \in Range(linked)
  <2>1. PICK i \in 1 .. m : a[i] = x
    BY <1>2 DEF Range
  <2>2. i \in 1 .. m + n /\ linked[i] = x
    BY <1>2, <1>3, <2>1
  <2> QED
    BY <1>4, <2>2 DEF Range
<1>12. ASSUME NEW x \in Range(b) PROVE x \in Range(linked)
  <2>1. PICK i \in 1 .. n : b[i] = x
    BY <1>2 DEF Range
  <2>2. m + i \in 1 .. m + n /\ ~(m + i <= m) /\ (m + i) - m = i
    BY <1>2
  <2>3. linked[m + i] = x
    BY <1>3, <2>1, <2>2
  <2> QED
    BY <1>4, <2>2, <2>3 DEF Range
<1> QED
  BY <1>9, <1>10, <1>11, <1>12 DEF linked

\* The two lists of the driver.
LEMMA LinkedOnce ==
    LinkInv => /\ Range(Linked) = Range(listHead) \cup Range(executeQueueHead)
               /\ \A i, j \in 1 .. Len(Linked) : i # j => Linked[i] # Linked[j]
<1> SUFFICES ASSUME LinkInv
             PROVE  /\ Range(Linked) = Range(listHead) \cup Range(executeQueueHead)
                    /\ \A i, j \in 1 .. Len(Linked) : i # j => Linked[i] # Linked[j]
  OBVIOUS
<1>1. /\ listHead \in Seq(Nodes) /\ executeQueueHead \in Seq(Timers)
      /\ IsInjective(listHead) /\ IsInjective(executeQueueHead)
      /\ Range(listHead) \cap Range(executeQueueHead) = {}
  BY DEF LinkInv, TypeOK, Unlinked, WellLinked
<1>2. executeQueueHead \in Seq(Nodes)
  <2>1. Timers \subseteq Nodes
    BY DEF Nodes
  <2> QED
    BY <1>1, <2>1
<1> QED
  BY <1>1, <1>2, BothLists DEF Linked

\* A timer is never linked twice: timeout_create inserts it only after timeout_delete has
\* found it in neither list, though the interrupt moves timers between the two searches.
THEOREM NeverLinkedTwiceHolds == Spec => []NeverLinkedTwice
<1>1. LinkInv => NeverLinkedTwice
  <2> SUFFICES ASSUME LinkInv PROVE NeverLinkedTwice
    OBVIOUS
  <2>1. pc \in {"createAbs", "createInsert"}
            => op.timer \notin Range(listHead) \cup Range(executeQueueHead)
    BY DEF LinkInv, Unlinked
  <2> QED
    BY <2>1, LinkedOnce DEF NeverLinkedTwice
<1> QED
  BY <1>1, LinksHold, PTL

\* timeout_delete returns only when its timer is in neither list.
LEMMA DeleteStep ==
    ASSUME LinkInv, [Next]_vars, op.kind = "delete", op'.kind = "none"
    PROVE  op.timer \notin Range(listHead') \cup Range(executeQueueHead')
<1>1. TypeOK /\ OpFitsPC /\ Unlinked
  BY DEF LinkInv
<1>2. op.timer \in Timers /\ op.timer # Dummy
  BY <1>1, TimerAssumption DEF OpFitsPC
<1>3. pc \in {"listSearch", "queueCheck", "queueSearch"}
  BY <1>1 DEF TypeOK, PCs, OpFitsPC
<1>4. op' # op
  OBVIOUS
<1>5. SearchList \/ CheckQueue \/ SearchQueue
  BY <1>3, <1>4
     DEF Next, MainStep, ClientCall, CreateAbs, CreateInsert, FlushNext, CallNextCallback, Pop,
         CallbackDone, Delete, Create, CallbackReschedule, FlushAll, Tick, Isr, IsrNull,
         vars, main
<1>6. CASE SearchList
  <2>1. /\ Range(listHead') \ {Dummy} = (Range(listHead) \ {Dummy}) \ {op.timer}
        /\ executeQueueHead' = executeQueueHead
    BY <1>6, SearchListKeeps DEF SearchList
  <2>2. op.timer \in Range(listHead)
    <3>1. CASE listHead # <<>> /\ Head(listHead) = op.timer
      BY <1>1, <3>1, HeadInRange DEF TypeOK
    <3>2. CASE ~(listHead # <<>> /\ Head(listHead) = op.timer)
      BY <1>4, <1>6, <3>2 DEF SearchList
    <3> QED
      BY <3>1, <3>2
  <2>3. op.timer \notin Range(executeQueueHead)
    BY <1>1, <2>2 DEF Unlinked
  <2> QED
    BY <1>2, <2>1, <2>3
<1>7. CASE CheckQueue
  <2>1. executeQueueHead = <<>> /\ executeQueueHead' = <<>> /\ listHead' = listHead
    BY <1>4, <1>7 DEF CheckQueue, lists
  <2>2. op.timer \notin Range(listHead)
    BY <1>1, <1>7 DEF Unlinked, CheckQueue
  <2> QED
    BY <2>1, <2>2 DEF Range
<1>8. CASE SearchQueue
  <2>1. /\ Range(listHead') \ {Dummy} = Range(listHead) \ {Dummy}
        /\ executeQueueHead' = Remaining(executeQueueHead, op.timer)
    BY <1>8, SearchQueueKeeps
  <2>2. op.timer \notin Range(listHead)
    BY <1>1, <1>8 DEF Unlinked, SearchQueue
  <2>3. op.timer \notin Range(executeQueueHead')
    BY <1>1, <2>1, RestOfList DEF TypeOK, Unlinked
  <2> QED
    BY <1>2, <2>1, <2>2, <2>3
<1> QED
  BY <1>5, <1>6, <1>7, <1>8

\* timeout_delete leaves the timer in neither the list nor the queue.
THEOREM DeleteUnlinksHolds == Spec => DeleteUnlinks
<1>1. LinkInv /\ LinkInv' /\ [Next]_vars =>
          [op.kind = "delete" /\ op'.kind = "none" => op.timer \notin Range(Linked')]_vars
  <2>1. ASSUME LinkInv'
        PROVE  Range(Linked') = Range(listHead') \cup Range(executeQueueHead')
    <3>1. /\ listHead' \in Seq(Nodes) /\ executeQueueHead' \in Seq(Timers)
          /\ IsInjective(listHead') /\ IsInjective(executeQueueHead')
          /\ Range(listHead') \cap Range(executeQueueHead') = {}
      BY <2>1 DEF LinkInv, TypeOK, Unlinked, WellLinked
    <3>2. executeQueueHead' \in Seq(Nodes)
      <4>1. Timers \subseteq Nodes
        BY DEF Nodes
      <4> QED
        BY <3>1, <4>1
    <3> QED
      BY <3>1, <3>2, BothLists DEF Linked
  <2> QED
    BY <2>1, DeleteStep
<1> QED
  BY <1>1, LinksInit, LinksStep, PTL DEF Spec, DeleteUnlinks

-----------------------------------------------------------------------------
(***************************************************************************)
(* The driver implements the service of timeout.h.                         *)
(***************************************************************************)

\* The clients' timers that run.
Running == Range(listHead) \ {Dummy}

\* A delete cancels the timer where it finds it, an insertion starts it, the interrupt
\* makes it expire, and the rest is invisible.
LEMMA ServiceStep ==
    ASSUME LinkInv, [Next]_vars
    PROVE  [Service!ServiceNext]_(Service!svars)
<1>1. TypeOK /\ OpFitsPC /\ Unlinked
  BY DEF LinkInv
<1>2. /\ listHead \in Seq(Nodes) /\ executeQueueHead \in Seq(Timers)
      /\ IsInjective(listHead) /\ IsInjective(executeQueueHead)
      /\ Range(listHead) \cap Range(executeQueueHead) = {}
  BY <1>1 DEF TypeOK, Unlinked, WellLinked
<1>3. CASE SearchList
  <2>1. /\ Running' = Running \ {op.timer} /\ executeQueueHead' = executeQueueHead
    BY <1>3, SearchListKeeps DEF SearchList, Running
  <2>2. CASE op.timer \in Running
    <3>1. op.timer \in Timers
      BY <1>1, <2>2, ElementOfSeq DEF Running, TypeOK, Range
    <3>2. Service!CancelRunning(op.timer)
      BY <2>1, <2>2 DEF Service!CancelRunning, Running
    <3> QED
      BY <3>1, <3>2 DEF Service!ServiceNext
  <2>3. CASE op.timer \notin Running
    BY <2>1, <2>3 DEF Service!svars, Running
  <2> QED
    BY <2>2, <2>3
<1>4. CASE SearchQueue
  <2>1. /\ Running' = Running
        /\ executeQueueHead' = Remaining(executeQueueHead, op.timer)
    BY <1>4, SearchQueueKeeps DEF Running
  <2>2. CASE op.timer \in Range(executeQueueHead)
    <3>1. PICK p \in 1 .. Len(executeQueueHead) :
                executeQueueHead' = RemoveAt(executeQueueHead, p)
      BY <1>2, <2>1, <2>2, RestOfList
    <3>2. Service!CancelExpired(p)
      BY <2>1, <3>1 DEF Service!CancelExpired, RemoveAt, Service!RemoveAt, Running
    <3> QED
      BY <3>2 DEF Service!ServiceNext
  <2>3. CASE op.timer \notin Range(executeQueueHead)
    BY <1>2, <2>1, <2>3, RestOfList DEF Service!svars, Running
  <2> QED
    BY <2>2, <2>3
<1>5. CASE CreateInsert
  <2>1. /\ op.timer \in Timers
        /\ op.timer \notin Range(listHead) \cup Range(executeQueueHead)
    BY <1>1, <1>5 DEF CreateInsert, OpFitsPC, Unlinked
  <2>2. Running' = Running \cup {op.timer} /\ executeQueueHead' = executeQueueHead
    BY <1>5, CreateInsertKeeps DEF CreateInsert, HeadStarted, Running
  <2>3. Service!Start(op.timer)
    BY <2>1, <2>2 DEF Service!Start, Range, Service!Range, Running
  <2> QED
    BY <2>1, <2>3 DEF Service!ServiceNext
<1>6. CASE Pop
  <2>1. /\ executeQueueHead' = Tail(executeQueueHead) /\ executeQueueHead # <<>>
        /\ Running' = Running
    BY <1>1, <1>6 DEF Pop, OpFitsPC, Running
  <2>2. Service!Serve
    BY <2>1 DEF Service!Serve, Running
  <2> QED
    BY <2>2 DEF Service!ServiceNext
<1>7. CASE Isr
  <2>1. Running' = Running \ {Head(listHead)} /\ listHead # <<>>
    BY <1>7, IsrKeeps DEF Isr, Running
  <2>2. Head(listHead) \in Range(listHead) /\ Head(listHead) \in Nodes
    BY <1>2, <2>1, HeadInRange
  <2>3. CASE Head(listHead) = Dummy
    <3>1. executeQueueHead' = executeQueueHead /\ Running' = Running
      BY <1>7, <2>1, <2>3 DEF Isr, Running
    <3> QED
      BY <3>1 DEF Service!svars, Running
  <2>4. CASE Head(listHead) # Dummy
    <3>1. executeQueueHead' = Append(executeQueueHead, Head(listHead))
      BY <1>7, <2>4 DEF Isr, enqueueCallback
    <3>2. Head(listHead) \in Running /\ Head(listHead) \in Timers
      BY <2>2, <2>4 DEF Running, Nodes
    <3>3. Service!Expire(Head(listHead))
      BY <2>1, <3>1, <3>2 DEF Service!Expire, Running
    <3> QED
      BY <3>2, <3>3 DEF Service!ServiceNext
  <2> QED
    BY <2>3, <2>4
<1>8. CASE \/ CheckQueue \/ CreateAbs \/ FlushNext \/ CallNextCallback \/ CallbackDone
           \/ ClientCall \/ Tick \/ IsrNull \/ UNCHANGED vars
  <2>1. listHead' = listHead /\ executeQueueHead' = executeQueueHead
    BY <1>8
       DEF CheckQueue, CreateAbs, FlushNext, CallNextCallback, CallbackDone, ClientCall,
           Delete, Create, CallbackReschedule, FlushAll, Tick, IsrNull, vars, lists
  <2> QED
    BY <2>1 DEF Service!svars
<1> QED
  BY <1>3, <1>4, <1>5, <1>6, <1>7, <1>8 DEF Next, MainStep

\* The driver implements the service: a timer expires only if it was started and not
\* cancelled since, and the expired ones are called once each in the order in which they
\* expired, whatever the interrupt does and whether times wrap or not.
THEOREM ImplementsServiceHolds == Spec => ImplementsService
<1>1. Init => Service!ServiceInit
  <2>1. Range(<<>>) = {}
    BY DEF Range
  <2> QED
    BY <2>1 DEF Init, Service!ServiceInit
<1>2. LinkInv /\ [Next]_vars => [Service!ServiceNext]_(Service!svars)
  BY ServiceStep
<1> QED
  BY <1>1, <1>2, LinksHold, PTL DEF Spec, ImplementsService, Service!ServiceSpec
-----------------------------------------------------------------------------
(***************************************************************************)
(* The order of the times, until they wrap.                                *)
(***************************************************************************)

\* list is sorted by the times abs, none of which lies before last.
Sorted(list, abs, last) ==
    /\ \A i, j \in 1 .. Len(list) : i < j => abs[list[i]] <= abs[list[j]]
    /\ list # <<>> => last <= abs[Head(list)]

\* A timer created now, or when one of list expires, would end in time.
EndsInTime(list, abs, last, timeout) ==
    /\ last + timeout <= MaxTime
    /\ \A i \in 1 .. Len(list) : abs[list[i]] + timeout <= MaxTime

LEMMA TimesTyped ==
    ASSUME NEW list, WellLinked(list), NEW abs \in [Nodes -> Word]
    PROVE  /\ Len(list) \in Nat
           /\ \A i \in 1 .. Len(list) : list[i] \in Nodes /\ abs[list[i]] \in Nat
           /\ list # <<>> => Len(list) # 0 /\ Head(list) = list[1]
           /\ list = <<>> => Len(list) = 0
<1>1. list \in Seq(Nodes)
  BY DEF WellLinked
<1>2. Len(list) \in Nat /\ \A i \in 1 .. Len(list) : list[i] \in Nodes
  BY <1>1, LenProperties, ElementOfSeq
<1>3. \A x \in Word : x \in Nat
  BY DEF Word
<1> QED
  BY <1>1, <1>2, <1>3, HeadInRange

LEMMA TailIsSorted ==
    ASSUME NEW list, WellLinked(list), list # <<>>, NEW abs \in [Nodes -> Word], NEW last \in Nat,
           Sorted(list, abs, last)
    PROVE  /\ Sorted(Tail(list), abs, last)
           /\ Sorted(Tail(list), abs, abs[Head(list)])
           /\ \A timeout \in Nat : EndsInTime(list, abs, last, timeout)
                 => /\ EndsInTime(Tail(list), abs, last, timeout)
                    /\ EndsInTime(Tail(list), abs, abs[Head(list)], timeout)
<1>1. /\ Len(list) \in Nat \ {0} /\ Head(list) = list[1]
      /\ \A i \in 1 .. Len(list) : abs[list[i]] \in Nat
  BY TimesTyped
<1>2. /\ Len(Tail(list)) = Len(list) - 1
      /\ \A i \in 1 .. Len(list) - 1 : Tail(list)[i] = list[i + 1]
      /\ Tail(list) \in Seq(Nodes)
  BY TailOfList DEF WellLinked
<1>3. Tail(list) # <<>> => Len(list) >= 2 /\ Head(Tail(list)) = list[2]
  BY <1>1, <1>2, HeadInRange
<1>4. \A i, j \in 1 .. Len(list) : i < j => abs[list[i]] <= abs[list[j]]
  BY DEF Sorted
<1>5. \A i, j \in 1 .. Len(list) - 1 :
          i < j => abs[Tail(list)[i]] <= abs[Tail(list)[j]]
  <2> SUFFICES ASSUME NEW i \in 1 .. Len(list) - 1, NEW j \in 1 .. Len(list) - 1, i < j
               PROVE  abs[Tail(list)[i]] <= abs[Tail(list)[j]]
    OBVIOUS
  <2>1. i + 1 \in 1 .. Len(list) /\ j + 1 \in 1 .. Len(list) /\ i + 1 < j + 1
    BY <1>1
  <2> QED
    BY <1>2, <1>4, <2>1
<1>6. Tail(list) # <<>> => abs[Head(list)] <= abs[Head(Tail(list))]
  <2> SUFFICES ASSUME Tail(list) # <<>> PROVE abs[Head(list)] <= abs[Head(Tail(list))]
    OBVIOUS
  <2>1. 1 \in 1 .. Len(list) /\ 2 \in 1 .. Len(list)
    BY <1>1, <1>3
  <2> QED
    BY <1>1, <1>3, <1>4, <2>1
<1>7. last <= abs[Head(list)]
  BY DEF Sorted
<1>8. Tail(list) # <<>> => last <= abs[Head(Tail(list))]
  <2> SUFFICES ASSUME Tail(list) # <<>> PROVE last <= abs[Head(Tail(list))]
    OBVIOUS
  <2>1. abs[Head(list)] \in Nat /\ abs[Head(Tail(list))] \in Nat
    BY <1>1, <1>3
  <2> QED
    BY <1>6, <1>7, <2>1
<1>9. ASSUME NEW timeout \in Nat, EndsInTime(list, abs, last, timeout)
      PROVE  /\ EndsInTime(Tail(list), abs, last, timeout)
             /\ EndsInTime(Tail(list), abs, abs[Head(list)], timeout)
  <2>1. \A i \in 1 .. Len(list) : abs[list[i]] + timeout <= MaxTime
    BY <1>9 DEF EndsInTime
  <2>2. ASSUME NEW i \in 1 .. Len(list) - 1 PROVE abs[Tail(list)[i]] + timeout <= MaxTime
    <3>1. i + 1 \in 1 .. Len(list)
      BY <1>1
    <3> QED
      BY <1>2, <2>1, <3>1
  <2>3. abs[Head(list)] + timeout <= MaxTime
    <3>1. 1 \in 1 .. Len(list)
      BY <1>1
    <3> QED
      BY <1>1, <2>1, <3>1
  <2> QED
    BY <1>2, <1>9, <2>2, <2>3 DEF EndsInTime
<1> QED
  BY <1>2, <1>5, <1>6, <1>8, <1>9 DEF Sorted

LEMMA RestIsSorted ==
    ASSUME NEW list, WellLinked(list), NEW x \in Range(list), x # Head(list),
           NEW abs \in [Nodes -> Word], NEW last \in Nat, Sorted(list, abs, last)
    PROVE  /\ Sorted(Remaining(list, x), abs, last)
           /\ \A timeout \in Nat : EndsInTime(list, abs, last, timeout)
                 => EndsInTime(Remaining(list, x), abs, last, timeout)
<1> DEFINE r == Remaining(list, x)
<1>1. /\ Len(list) \in Nat
      /\ \A i \in 1 .. Len(list) : abs[list[i]] \in Nat
  BY TimesTyped
<1>2. PICK p \in 1 .. Len(list) :
          /\ Len(r) = Len(list) - 1
          /\ \A i \in 1 .. Len(list) - 1 : r[i] = IF i < p THEN list[i] ELSE list[i + 1]
  <2>1. list \in Seq(Nodes) /\ IsInjective(list)
    BY DEF WellLinked
  <2>2. x \in Range(list) => \E p \in 1 .. Len(list) :
           /\ list[p] = x
           /\ Remaining(list, x) = RemoveAt(list, p)
           /\ Len(Remaining(list, x)) = Len(list) - 1
           /\ \A i \in 1 .. Len(list) - 1 :
                 Remaining(list, x)[i] = IF i < p THEN list[i] ELSE list[i + 1]
    BY <2>1, RestOfList, SMTT(60)
  <2> QED
    BY <2>2
<1>3. Head(r) = Head(list) /\ list # <<>>
  BY TimerIsTakenOut
<1> HIDE DEF r
<1>4. \A i, j \in 1 .. Len(list) : i < j => abs[list[i]] <= abs[list[j]]
  BY DEF Sorted
<1> DEFINE from(i) == IF i < p THEN i ELSE i + 1
<1>5. \A i \in 1 .. Len(list) - 1 : from(i) \in 1 .. Len(list) /\ r[i] = list[from(i)]
  BY <1>1, <1>2
<1>6. \A i, j \in 1 .. Len(list) - 1 : i < j => from(i) < from(j)
  BY <1>1
<1> HIDE DEF from
<1>7. \A i, j \in 1 .. Len(list) - 1 : i < j => abs[r[i]] <= abs[r[j]]
  BY <1>4, <1>5, <1>6
<1>8. last <= abs[Head(list)]
  BY <1>3 DEF Sorted
<1>9. ASSUME NEW timeout \in Nat, EndsInTime(list, abs, last, timeout)
      PROVE  EndsInTime(r, abs, last, timeout)
  BY <1>2, <1>5, <1>9 DEF EndsInTime
<1> QED
  BY <1>2, <1>3, <1>7, <1>8, <1>9 DEF Sorted, r

\* On a sorted list, startTimerAtHead leaves a sorted list: the dummy's time lies between
\* the time base and the head's, and no time lies later than before.
LEMMA StartIsSorted ==
    ASSUME TypeOK, NEW list, WellLinked(list), NEW abs \in [Nodes -> Word], NEW last \in Word,
           list # <<>> /\ Head(list) = Dummy => Sub32(abs[Dummy], last) = MaxLoad,
           Sorted(list, abs, last), startTimerAtHead(list, abs, last)
    PROVE  /\ ListSorted'
           /\ \A timeout \in Nat : EndsInTime(list, abs, last, timeout) => InTime(timeout)'
<1>1. /\ MaxLoad \in Nat \ {0} /\ MaxLoad \in Word /\ Modulus \in Nat /\ MaxTime \in Nat
      /\ last \in Nat /\ last < Modulus
  BY CounterAssumption DEF Word
<1>2. CASE list = <<>>
  <2>1. listHead' = <<>> /\ absoluteTimeofLastTimeout' = 0 /\ Len(<<>>) = 0
    BY <1>2 DEF startTimerAtHead, stopTimeouts
  <2>2. ListSorted'
    BY <2>1 DEF ListSorted
  <2>3. ASSUME NEW timeout \in Nat, EndsInTime(list, abs, last, timeout)
        PROVE  InTime(timeout)'
    <3>1. 0 + timeout <= MaxTime
      BY <1>1, <2>3 DEF EndsInTime
    <3> QED
      BY <2>1, <3>1 DEF InTime
  <2> QED
    BY <2>2, <2>3
<1>3. CASE list # <<>>
  <2> DEFINE period == Sub32(abs[Head(list)], last)
  <2>1. /\ Len(list) \in Nat \ {0} /\ Head(list) = list[1]
        /\ \A i \in 1 .. Len(list) : list[i] \in Nodes /\ abs[list[i]] \in Nat
    BY <1>3, TimesTyped
  <2>2. /\ \A i, j \in 1 .. Len(list) : i < j => abs[list[i]] <= abs[list[j]]
        /\ last <= abs[Head(list)]
    BY <1>3 DEF Sorted
  <2>3. Head(list) \in Nodes /\ abs[Head(list)] \in Word /\ abs[Head(list)] \in Nat
        /\ abs[Head(list)] < Modulus
    <3>1. 1 \in 1 .. Len(list)
      BY <2>1
    <3>2. Head(list) \in Nodes /\ abs[Head(list)] \in Word
      BY <2>1, <3>1
    <3> QED
      BY <1>1, <3>2 DEF Word
  <2>4. period = abs[Head(list)] - last
    BY <2>2, <2>3, WordsAreModular
  <2>5. CASE period <= MaxLoad
    <3>1. absoluteTime' = abs /\ listHead' = list /\ absoluteTimeofLastTimeout' = last
      BY <1>1, <1>3, <2>3, <2>4, <2>5 DEF startTimerAtHead
    <3> QED
      BY <2>2, <3>1 DEF ListSorted, InTime, EndsInTime
  <2>6. CASE period > MaxLoad
    <3>1. /\ absoluteTime' = [abs EXCEPT ![Dummy] = Add32(last, MaxLoad)]
          /\ listHead' = <<Dummy>> \o list /\ absoluteTimeofLastTimeout' = last
      BY <1>3, <2>6 DEF startTimerAtHead
    <3> HIDE DEF period
    <3>2. Add32(last, MaxLoad) = last + MaxLoad /\ last + MaxLoad <= abs[Head(list)]
      <4>1. last + MaxLoad <= abs[Head(list)]
        BY <1>1, <2>3, <2>4, <2>6
      <4>2. last + MaxLoad < Modulus
        BY <1>1, <2>3, <4>1
      <4>3. Add32(last, MaxLoad)
               = IF last + MaxLoad < Modulus THEN last + MaxLoad ELSE last + MaxLoad - Modulus
        BY <1>1, WordsAreModular
      <4> QED
        BY <4>1, <4>2, <4>3
    <3>3. Dummy \in Nodes
      BY DEF Nodes
    <3>4. list \in Seq(Nodes) /\ <<Dummy>> \in Seq(Nodes)
      BY <3>3 DEF WellLinked
    <3>5. /\ Len(listHead') = Len(list) + 1 /\ listHead'[1] = Dummy
          /\ \A i \in 2 .. Len(list) + 1 : listHead'[i] = list[i - 1]
          /\ listHead' \in Seq(Nodes)
      <4>1. /\ Len(listHead') = 1 + Len(list) /\ listHead' \in Seq(Nodes)
            /\ \A i \in 1 .. 1 + Len(list) :
                  listHead'[i] = IF i <= 1 THEN <<Dummy>>[i] ELSE list[i - 1]
        <5>1. Len(<<Dummy>>) = 1
          OBVIOUS
        <5> QED
          BY <3>1, <3>4, <5>1, ConcatProperties
      <4> QED
        BY <2>1, <4>1
    <3>6. absoluteTime'[Dummy] = last + MaxLoad
      BY <3>1, <3>2, <3>3
    <3>7. Head(listHead') = Dummy /\ listHead' # <<>>
      BY <2>1, <3>5, EmptySeq, HeadInRange
    <3>8. \A i \in 1 .. Len(list) : absoluteTime'[list[i]] = abs[list[i]]
      <4>1. Head(list) # Dummy
        BY <1>1, <1>3, <2>4, <2>6, <3>2 DEF period
      <4>2. \A i \in 1 .. Len(list) : list[i] # Dummy
        <5> SUFFICES ASSUME NEW i \in 1 .. Len(list) PROVE list[i] # Dummy
          OBVIOUS
        <5>1. i = 1 \/ i \in 2 .. Len(list)
          BY <2>1
        <5> QED
          BY <2>1, <4>1, <5>1 DEF WellLinked
      <4> QED
        BY <2>1, <3>1, <4>2
    <3>9. \A i \in 1 .. Len(list) : last + MaxLoad <= abs[list[i]]
      <4> SUFFICES ASSUME NEW i \in 1 .. Len(list) PROVE last + MaxLoad <= abs[list[i]]
        OBVIOUS
      <4>1. abs[Head(list)] <= abs[list[i]]
        <5>1. CASE i = 1
          BY <2>1, <2>3, <5>1
        <5>2. CASE i # 1
          <6>1. 1 \in 1 .. Len(list) /\ 1 < i
            BY <2>1, <5>2
          <6> QED
            BY <2>1, <2>2, <6>1
        <5> QED
          BY <5>1, <5>2
      <4>2. abs[list[i]] \in Nat
        BY <2>1
      <4> QED
        BY <1>1, <2>3, <3>2, <4>1, <4>2
    <3> DEFINE at(i) == absoluteTime'[listHead'[i]]
    <3>10. /\ at(1) = last + MaxLoad
           /\ \A i \in 2 .. Len(list) + 1 :
                 i - 1 \in 1 .. Len(list) /\ at(i) = abs[list[i - 1]]
      <4>1. \A i \in 2 .. Len(list) + 1 : i - 1 \in 1 .. Len(list)
        BY <2>1
      <4> QED
        BY <3>5, <3>6, <3>8, <4>1
    <3>11. /\ 1 .. Len(listHead') = 1 .. Len(list) + 1
           /\ \A i \in 1 .. Len(list) + 1 : i = 1 \/ i \in 2 .. Len(list) + 1
      BY <2>1, <3>5
    <3> HIDE DEF at
    <3>12. ASSUME NEW i \in 1 .. Len(list) + 1, NEW j \in 1 .. Len(list) + 1, i < j
           PROVE  at(i) <= at(j)
      <4>1. j \in 2 .. Len(list) + 1
        BY <2>1, <3>12
      <4>2. CASE i = 1
        BY <3>9, <3>10, <4>1, <4>2
      <4>3. CASE i # 1
        <5>1. i - 1 < j - 1 /\ i \in 2 .. Len(list) + 1
          BY <2>1, <3>12, <4>3
        <5> QED
          BY <2>2, <3>10, <4>1, <5>1
      <4> QED
        BY <4>2, <4>3
    <3>13. ListSorted'
      <4>1. last <= absoluteTime'[Head(listHead')]
        BY <1>1, <3>6, <3>7
      <4> QED
        BY <3>1, <3>11, <3>12, <4>1 DEF ListSorted, at
    <3>14. ASSUME NEW timeout \in Nat, EndsInTime(list, abs, last, timeout)
           PROVE  InTime(timeout)'
      <4>1. \A i \in 1 .. Len(list) : abs[list[i]] + timeout <= MaxTime
        BY <3>14 DEF EndsInTime
      <4>2. at(1) + timeout <= MaxTime
        <5>1. 1 \in 1 .. Len(list)
          BY <2>1
        <5>2. abs[list[1]] + timeout <= MaxTime /\ last + MaxLoad <= abs[list[1]]
              /\ abs[list[1]] \in Nat
          BY <2>1, <3>9, <4>1, <5>1
        <5> QED
          BY <1>1, <3>10, <5>2
      <4>3. \A i \in 2 .. Len(list) + 1 : at(i) + timeout <= MaxTime
        BY <3>10, <4>1
      <4>4. \A i \in 1 .. Len(list) + 1 : at(i) + timeout <= MaxTime
        BY <3>11, <4>2, <4>3
      <4> QED
        BY <3>1, <3>11, <3>14, <4>4 DEF InTime, EndsInTime, at
    <3> QED
      BY <3>13, <3>14
  <2> QED
    BY <1>1, <2>3, <2>4, <2>5, <2>6
<1> QED
  BY <1>2, <1>3

\* NoDummy keeps the order.
LEMMA NoDummyIsSorted ==
    ASSUME NEW list, WellLinked(list), NEW abs \in [Nodes -> Word], NEW last \in Nat,
           Sorted(list, abs, last)
    PROVE  Sorted(NoDummy(list), abs, last)
BY TailIsSorted DEF NoDummy

\* sortedInsert keeps the order: every timer before the place expires no later, the one at
\* the place expires later, and so do those after it.
LEMMA InsertIsSorted ==
    ASSUME TypeOK, WellLinked(listHead), NEW timer \in Timers, timer \notin Range(listHead),
           ListSorted, absoluteTimeofLastTimeout <= absoluteTime[timer],
           listHead # <<>> /\ Head(listHead) = Dummy
               => Sub32(absoluteTime[Dummy], absoluteTimeofLastTimeout) = MaxLoad,
           insertAndStart(timer, absoluteTime, absoluteTimeofLastTimeout)
    PROVE  ListSorted'
<1> DEFINE abs == absoluteTime
           last == absoluteTimeofLastTimeout
           at == InsertPoint(listHead, abs, timer)
<1>1. /\ abs \in [Nodes -> Word] /\ last \in Word /\ last \in Nat
      /\ timer \in Nodes /\ timer # Dummy /\ abs[timer] \in Nat
  BY TimerAssumption DEF TypeOK, Nodes, Word
<1>2. /\ listHead \in Seq(Nodes) /\ IsInjective(listHead) /\ Len(listHead) \in Nat
      /\ \A i \in 1 .. Len(listHead) : listHead[i] \in Nodes /\ abs[listHead[i]] \in Nat
      /\ listHead = <<>> => Len(listHead) = 0
      /\ listHead # <<>> => Head(listHead) = listHead[1]
  BY <1>1, TimesTyped DEF WellLinked
<1>3. Sorted(listHead, abs, last)
  BY DEF Sorted, ListSorted
<1>4. /\ at \in 1 .. Len(listHead) + 1
      /\ at <= Len(listHead) => abs[listHead[at]] > abs[timer]
      /\ \A j \in 1 .. at - 1 : abs[listHead[j]] <= abs[timer]
  BY <1>1, <1>2, PlaceFound
<1>5. \A i, j \in 1 .. Len(listHead) : i < j => abs[listHead[i]] <= abs[listHead[j]]
  BY <1>3 DEF Sorted
<1>6. \A i \in 1 .. Len(listHead) : i >= at => abs[timer] <= abs[listHead[i]]
  <2> SUFFICES ASSUME NEW i \in 1 .. Len(listHead), i >= at
               PROVE  abs[timer] <= abs[listHead[i]]
    OBVIOUS
  <2> HIDE DEF at, abs
  <2>1. at \in 1 .. Len(listHead) /\ abs[listHead[at]] > abs[timer]
    BY <1>2, <1>4
  <2>2. abs[listHead[at]] <= abs[listHead[i]]
    <3>1. CASE i = at
      BY <1>2, <2>1, <3>1
    <3>2. CASE i > at
      BY <1>5, <2>1, <3>2
    <3> QED
      BY <1>4, <3>1, <3>2
  <2> QED
    BY <1>1, <1>2, <2>1, <2>2
<1>7. CASE at = 1
  <2> DEFINE rest == NoDummy(listHead)
             list == <<timer>> \o rest
  <2>1. startTimerAtHead(list, abs, last)
    BY <1>7 DEF insertAndStart
  <2>2. /\ WellLinked(rest) /\ Range(rest) = Range(listHead) \ {Dummy}
        /\ rest \in Seq(Nodes) /\ IsInjective(rest) /\ timer \notin Range(rest)
        /\ DOMAIN rest = 1 .. Len(rest) /\ Len(rest) \in Nat
    <3>1. /\ WellLinked(rest) /\ Range(rest) = Range(listHead) \ {Dummy}
      BY NoDummyDropsIt
    <3> QED
      BY <3>1, LenProperties DEF WellLinked
  <2>3. Sorted(rest, abs, last)
    BY <1>1, <1>3, NoDummyIsSorted
  <2> HIDE DEF rest
  <2>4. /\ list \in Seq(Nodes) /\ Head(list) = timer /\ list[1] = timer /\ list # <<>>
        /\ Len(list) = Len(rest) + 1
        /\ \A i \in 2 .. Len(rest) + 1 : list[i] = rest[i - 1]
        /\ IsInjective(list)
    BY <1>1, <2>2, ConsOfList
  <2>5. \A i \in 1 .. Len(rest) : rest[i] # Dummy /\ rest[i] \in Range(listHead)
    BY <2>2 DEF Range
  <2>6. \A i \in 1 .. Len(rest) : abs[timer] <= abs[rest[i]]
    <3> SUFFICES ASSUME NEW i \in 1 .. Len(rest) PROVE abs[timer] <= abs[rest[i]]
      OBVIOUS
    <3>1. PICK k \in 1 .. Len(listHead) : listHead[k] = rest[i]
      BY <1>2, <2>5, LenProperties DEF Range
    <3>2. k >= at
      BY <1>2, <1>7
    <3> QED
      BY <1>6, <3>1, <3>2
  <2> HIDE DEF list, abs, last, at
  <2>7. WellLinked(list)
    BY <2>2, <2>4, <2>5 DEF WellLinked
  <2>8. Sorted(list, abs, last)
    <3>1. \A i, j \in 1 .. Len(rest) : i < j => abs[rest[i]] <= abs[rest[j]]
      BY <2>3 DEF Sorted
    <3>2. ASSUME NEW i \in 1 .. Len(rest) + 1, NEW j \in 1 .. Len(rest) + 1, i < j
          PROVE  abs[list[i]] <= abs[list[j]]
      <4>1. j \in 2 .. Len(rest) + 1 /\ j - 1 \in 1 .. Len(rest)
        BY <2>2, <3>2
      <4>2. CASE i = 1
        BY <2>4, <2>6, <4>1, <4>2
      <4>3. CASE i # 1
        <5>1. i \in 2 .. Len(rest) + 1 /\ i - 1 \in 1 .. Len(rest) /\ i - 1 < j - 1
          BY <2>2, <3>2, <4>3
        <5> QED
          BY <2>4, <3>1, <4>1, <5>1
      <4> QED
        BY <4>2, <4>3
    <3>3. last <= abs[Head(list)]
      BY <2>4 DEF abs, last
    <3> QED
      BY <2>4, <3>2, <3>3 DEF Sorted
  <2> QED
    BY <1>1, <2>1, <2>4, <2>7, <2>8, StartIsSorted
<1>8. CASE at # 1
  <2>1. /\ listHead' = InsertAt(listHead, at, timer)
        /\ absoluteTime' = abs /\ absoluteTimeofLastTimeout' = last
    BY <1>8 DEF insertAndStart
  <2> HIDE DEF abs, last, at
  <2>2. listHead # <<>>
    BY <1>2, <1>4, <1>8
  <2>3. /\ listHead' \in Seq(Nodes) /\ Len(listHead') = Len(listHead) + 1
        /\ \A i \in 1 .. Len(listHead) + 1 :
              listHead'[i] = IF i < at THEN listHead[i]
                             ELSE IF i = at THEN timer ELSE listHead[i - 1]
    BY <1>1, <1>2, <1>4, <2>1, InsertIntoList
  <2>4. Head(listHead') = Head(listHead)
    <3>1. listHead' # <<>> /\ listHead'[1] = listHead[1]
      BY <1>2, <1>4, <1>8, <2>3, EmptySeq
    <3> QED
      BY <1>2, <2>2, <2>3, <3>1, HeadInRange
  <2>5. \A j \in 1 .. Len(listHead) + 1 : j < at =>
            j \in 1 .. Len(listHead) /\ listHead'[j] = listHead[j]
            /\ abs[listHead'[j]] <= abs[timer]
    BY <1>2, <1>4, <2>3
  <2>6. \A j \in 1 .. Len(listHead) + 1 : j > at =>
            /\ j - 1 \in 1 .. Len(listHead) /\ listHead'[j] = listHead[j - 1]
            /\ abs[timer] <= abs[listHead'[j]]
    <3> SUFFICES ASSUME NEW j \in 1 .. Len(listHead) + 1, j > at
                 PROVE  /\ j - 1 \in 1 .. Len(listHead) /\ listHead'[j] = listHead[j - 1]
                        /\ abs[timer] <= abs[listHead'[j]]
      OBVIOUS
    <3>1. j - 1 \in 1 .. Len(listHead) /\ j - 1 >= at /\ ~(j < at) /\ j # at
      BY <1>2, <1>4
    <3> QED
      BY <1>6, <2>3, <3>1
  <2>7. listHead'[at] = timer
    BY <1>2, <1>4, <2>3
  <2>8. ASSUME NEW i \in 1 .. Len(listHead) + 1, NEW j \in 1 .. Len(listHead) + 1, i < j
        PROVE  abs[listHead'[i]] <= abs[listHead'[j]]
    <3>1. CASE j < at
      <4>1. i < at
        BY <1>2, <1>4, <2>8, <3>1
      <4> QED
        BY <1>5, <2>5, <2>8, <3>1, <4>1
    <3>2. CASE j = at
      BY <2>5, <2>7, <2>8, <3>2
    <3>3. CASE j > at /\ i = at
      BY <2>6, <2>7, <3>3
    <3>4. CASE j > at /\ i > at
      <4>1. i - 1 < j - 1
        BY <1>2, <2>8
      <4> QED
        BY <1>5, <2>6, <3>4, <4>1
    <3>5. CASE j > at /\ i < at
      <4>1. /\ abs[listHead'[i]] <= abs[timer] /\ abs[timer] <= abs[listHead'[j]]
            /\ abs[listHead'[i]] \in Nat /\ abs[listHead'[j]] \in Nat
        BY <1>2, <2>5, <2>6, <3>5
      <4> QED
        BY <1>1, <4>1
    <3> QED
      BY <1>2, <1>4, <3>1, <3>2, <3>3, <3>4, <3>5
  <2>9. last <= abs[Head(listHead')]
    BY <1>3, <2>2, <2>4 DEF Sorted
  <2> QED
    BY <2>1, <2>3, <2>8, <2>9 DEF ListSorted
<1> QED
  BY <1>7, <1>8
-----------------------------------------------------------------------------
(***************************************************************************)
(* The order is kept by every step while no time wraps.                    *)
(***************************************************************************)

LEMMA TimesInit == Init => TimesInv
<1> SUFFICES ASSUME Init PROVE TimesInv
  OBVIOUS
<1>1. listHead = <<>> /\ op.kind = "none" /\ pc = "idle" /\ Len(<<>>) = 0
  BY DEF Init, NoOp
<1> QED
  BY <1>1 DEF TimesInv, ListSorted

\* The searches of timeout_delete keep the order, and a delay that ended in time still does.
LEMMA SearchesKeepTimes ==
    ASSUME LinkInv, TimesInv, SearchList \/ CheckQueue \/ SearchQueue
    PROVE  TimesInv'
<1> DEFINE abs == absoluteTime
           last == absoluteTimeofLastTimeout
<1>1. TypeOK /\ OpFitsPC /\ WellLinked(listHead) /\ DummyWhole
  BY DEF LinkInv, Unlinked
<1>2. /\ abs \in [Nodes -> Word] /\ last \in Word /\ last \in Nat
      /\ listHead \in Seq(Nodes) /\ IsInjective(listHead)
  BY <1>1 DEF TypeOK, Nodes, Word, WellLinked
<1>3. Sorted(listHead, abs, last)
  BY DEF TimesInv, ListSorted, Sorted
<1>4. pc' \in {"createAbs", "flush", "idle", "queueCheck", "queueSearch"}
      /\ (op'.kind = "create" => op' = op)
  <2>1. op.kind # "none"
    BY <1>1 DEF SearchList, CheckQueue, SearchQueue, OpFitsPC
  <2>2. Return \/ (pc' \in {"queueCheck", "queueSearch"} /\ op' = op)
    BY DEF SearchList, CheckQueue, SearchQueue
  <2> QED
    BY <1>1, <2>1, <2>2, ReturnFits DEF Return, NoOp
<1>5. op.kind = "create" =>
          /\ op.timeout \in Nat
          /\ EndsInTime(listHead, abs, last, op.timeout)
  <2>1. ASSUME op.kind = "create" PROVE op.timeout \in Nat
    <3>1. op.timeout \in 1 .. (Modulus - 1)
      BY <1>1, <2>1, CounterAssumption DEF OpFitsPC
    <3> QED
      BY <3>1
  <2> QED
    BY <2>1 DEF TimesInv, InTime, EndsInTime, SearchList, CheckQueue, SearchQueue
<1>6. /\ ListSorted'
      /\ \A timeout \in Nat : EndsInTime(listHead, abs, last, timeout) => InTime(timeout)'
  <2>1. CASE /\ SearchList /\ listHead # <<>> /\ Head(listHead) = op.timer
    <3>1. startTimerAtHead(Tail(listHead), abs, last)
      BY <2>1 DEF SearchList
    <3>2. /\ WellLinked(Tail(listHead))
          /\ Tail(listHead) # <<>> => Head(Tail(listHead)) # Dummy
      BY <1>1, <2>1, TailIsWellLinked
    <3>3. /\ Sorted(Tail(listHead), abs, last)
          /\ \A timeout \in Nat : EndsInTime(listHead, abs, last, timeout)
                => EndsInTime(Tail(listHead), abs, last, timeout)
      BY <1>1, <1>2, <1>3, <2>1, TailIsSorted
    <3> HIDE DEF abs, last
    <3>4. /\ ListSorted'
          /\ \A timeout \in Nat :
                EndsInTime(Tail(listHead), abs, last, timeout) => InTime(timeout)'
      BY <1>1, <1>2, <3>1, <3>2, <3>3, StartIsSorted
    <3> QED
      BY <3>3, <3>4
  <2>2. CASE /\ SearchQueue /\ Head(executeQueueHead) = op.timer
    <3>1. startTimerAtHead(listHead, abs, last)
      BY <2>2 DEF SearchQueue
    <3>2. listHead # <<>> /\ Head(listHead) = Dummy => Sub32(abs[Dummy], last) = MaxLoad
      BY <1>1, <2>2 DEF DummyWhole, FlushBegun, SearchQueue
    <3> HIDE DEF abs, last
    <3> QED
      BY <1>1, <1>2, <1>3, <3>1, <3>2, StartIsSorted
  <2>3. CASE /\ absoluteTime' = abs /\ absoluteTimeofLastTimeout' = last
             /\ Sorted(listHead', abs, last)
             /\ \A timeout \in Nat : EndsInTime(listHead, abs, last, timeout)
                   => EndsInTime(listHead', abs, last, timeout)
    BY <2>3 DEF ListSorted, Sorted, InTime, EndsInTime
  <2>4. CASE /\ SearchList /\ ~(listHead # <<>> /\ Head(listHead) = op.timer)
    <3>1. /\ listHead' = Remaining(listHead, op.timer)
          /\ absoluteTime' = abs /\ absoluteTimeofLastTimeout' = last
      BY <2>4 DEF SearchList, base
    <3>2. CASE op.timer \in Range(listHead)
      <4>1. op.timer # Head(listHead)
        BY <1>2, <2>4, <3>2, LenProperties, EmptySeq DEF Range
      <4> QED
        BY <1>1, <1>2, <1>3, <2>3, <3>1, <3>2, <4>1, RestIsSorted
    <3>3. CASE op.timer \notin Range(listHead)
      BY <1>2, <1>3, <2>3, <3>1, <3>3, RestOfList
    <3> QED
      BY <3>2, <3>3
  <2>5. CASE CheckQueue \/ (SearchQueue /\ Head(executeQueueHead) # op.timer)
    <3>1. listHead' = listHead /\ absoluteTime' = abs /\ absoluteTimeofLastTimeout' = last
      BY <2>5 DEF CheckQueue, SearchQueue, lists, base
    <3> QED
      BY <1>3, <2>3, <3>1
  <2> QED
    BY <2>1, <2>2, <2>4, <2>5
<1>7. op'.kind = "create" => InTime(op.timeout)'
  BY <1>4, <1>5, <1>6
<1> QED
  BY <1>4, <1>6, <1>7 DEF TimesInv, InTime

LEMMA CreateAbsKeepsTimes ==
    ASSUME NoWrap, LinkInv, TimesInv, CreateAbs
    PROVE  TimesInv'
<1>1. TypeOK /\ OpFitsPC /\ Unlinked
  BY DEF LinkInv
<1>2. /\ pc = "createAbs" /\ op.kind = "create" /\ op.timer \in Timers
      /\ op.timeout \in 1 .. (Modulus - 1)
      /\ op.timer \notin Range(listHead)
      /\ InTime(op.timeout) /\ ListSorted
  BY <1>1, CounterAssumption DEF CreateAbs, OpFitsPC, Unlinked, TimesInv
<1>3. /\ absoluteTime' = [absoluteTime EXCEPT ![op.timer] = makeAbsolute(op.timeout)]
      /\ listHead' = listHead /\ absoluteTimeofLastTimeout' = absoluteTimeofLastTimeout
      /\ pc' = "createInsert" /\ op' = op
  BY DEF CreateAbs, base
<1>4. /\ listHead \in Seq(Nodes) /\ absoluteTime \in [Nodes -> Word]
      /\ absoluteTimeofLastTimeout \in Word
  BY <1>1 DEF Unlinked, WellLinked, TypeOK, Nodes
<1>5. \A i \in 1 .. Len(listHead) :
          listHead[i] \in Nodes /\ absoluteTime'[listHead[i]] = absoluteTime[listHead[i]]
  <2>1. \A i \in 1 .. Len(listHead) : listHead[i] \in Nodes /\ listHead[i] # op.timer
    BY <1>2, <1>4, ElementOfSeq, LenProperties DEF Range
  <2> QED
    BY <1>3, <1>4, <2>1
<1>6. listHead # <<>> => absoluteTime'[Head(listHead)] = absoluteTime[Head(listHead)]
  <2> SUFFICES ASSUME listHead # <<>>
               PROVE  absoluteTime'[Head(listHead)] = absoluteTime[Head(listHead)]
    OBVIOUS
  <2>1. Head(listHead) = listHead[1] /\ 1 \in 1 .. Len(listHead)
    BY <1>4, HeadInRange
  <2> QED
    BY <1>5, <2>1
<1>7. ListSorted'
  BY <1>2, <1>3, <1>5, <1>6 DEF ListSorted
<1>8. makeAbsolute(op.timeout) = op.timeout + absoluteTimeofLastTimeout + Elapsed
  <2>1. /\ Elapsed \in 0 .. MaxLoad /\ Elapsed \in Word
    BY <1>1, TimesAreWords
  <2>2. /\ MaxLoad \in Nat /\ Modulus \in Nat /\ MaxTime \in Nat
        /\ MaxTime + MaxLoad < Modulus
        /\ absoluteTimeofLastTimeout \in Nat /\ op.timeout \in Nat
        /\ absoluteTimeofLastTimeout + op.timeout <= MaxTime
        /\ op.timeout \in Word
    BY <1>2, <1>4, CounterAssumption DEF NoWrap, InTime, Word
  <2> DEFINE sum == op.timeout + absoluteTimeofLastTimeout
  <2>3. sum \in Nat /\ sum <= MaxTime /\ sum < Modulus
    BY <2>2
  <2>4. Add32(op.timeout, absoluteTimeofLastTimeout) = sum
    BY <1>4, <2>2, <2>3, WordsAreModular
  <2> HIDE DEF sum
  <2>5. sum \in Word
    BY <2>2, <2>3 DEF Word
  <2>6. sum + Elapsed < Modulus
    BY <2>1, <2>2, <2>3
  <2>7. Add32(sum, Elapsed) = sum + Elapsed
    BY <2>1, <2>5, <2>6, WordsAreModular
  <2> QED
    BY <2>4, <2>7 DEF makeAbsolute, sum
<1>9. absoluteTimeofLastTimeout <= absoluteTime'[op.timer]
  <2>1. Elapsed \in 0 .. MaxLoad
    BY <1>1, TimesAreWords
  <2>2. op.timer \in Nodes
    BY <1>2 DEF Nodes
  <2>3. absoluteTime'[op.timer] = op.timeout + absoluteTimeofLastTimeout + Elapsed
    BY <1>3, <1>4, <1>8, <2>2
  <2>4. absoluteTimeofLastTimeout \in Nat /\ op.timeout \in Nat /\ Elapsed \in Nat
    BY <1>2, <1>4, <2>1 DEF Word
  <2> QED
    BY <2>3, <2>4
<1> QED
  BY <1>3, <1>7, <1>9 DEF TimesInv

LEMMA CreateInsertKeepsTimes ==
    ASSUME LinkInv, TimesInv, CreateInsert
    PROVE  TimesInv'
<1>1. TypeOK /\ OpFitsPC /\ Unlinked /\ DummyWhole
  BY DEF LinkInv
<1>2. /\ pc = "createInsert" /\ op.kind = "create" /\ op.timer \in Timers
      /\ op.timer \notin Range(listHead) /\ WellLinked(listHead)
      /\ sortedInsert(op.timer) /\ pc' = "idle" /\ op'.kind = "none"
  BY <1>1 DEF CreateInsert, OpFitsPC, Unlinked, NoOp
<1>3. ListSorted /\ absoluteTimeofLastTimeout <= absoluteTime[op.timer]
  BY <1>2 DEF TimesInv
<1>4. absoluteTimeofLastTimeout \in Nat /\ absoluteTime[op.timer] \in Nat
  BY <1>1, <1>2 DEF TypeOK, Word
<1>5. insertAndStart(op.timer, absoluteTime, absoluteTimeofLastTimeout)
  BY <1>2, <1>3, <1>4 DEF sortedInsert
<1>6. listHead # <<>> /\ Head(listHead) = Dummy
          => Sub32(absoluteTime[Dummy], absoluteTimeofLastTimeout) = MaxLoad
  BY <1>1, <1>2 DEF DummyWhole, FlushBegun
<1>7. ListSorted'
  BY <1>1, <1>2, <1>3, <1>5, <1>6, InsertIsSorted
<1> QED
  BY <1>2, <1>7 DEF TimesInv

LEMMA IsrKeepsTimes ==
    ASSUME LinkInv, TimesInv, Isr
    PROVE  TimesInv'
<1> DEFINE abs == absoluteTime
           last == absoluteTime[Head(listHead)]
<1>1. /\ TypeOK /\ OpFitsPC /\ WellLinked(listHead) /\ CriticalSection
      /\ listHead # <<>> /\ ovfIE /\ pc' = pc /\ op' = op
      /\ startTimerAtHead(Tail(listHead), abs, last)
  BY DEF LinkInv, Unlinked, Isr, main
<1>2. Head(listHead) \in Nodes
  BY <1>1, HeadInRange DEF WellLinked
<1>3. abs \in [Nodes -> Word] /\ last \in Word /\ absoluteTimeofLastTimeout \in Nat
  BY <1>1, <1>2 DEF TypeOK, Nodes, Word
<1>4. Sorted(listHead, abs, absoluteTimeofLastTimeout)
  BY DEF TimesInv, ListSorted, Sorted
<1>5. /\ WellLinked(Tail(listHead))
      /\ Tail(listHead) # <<>> => Head(Tail(listHead)) # Dummy
  BY <1>1, TailIsWellLinked
<1>6. /\ Sorted(Tail(listHead), abs, last)
      /\ \A timeout \in Nat :
            EndsInTime(listHead, abs, absoluteTimeofLastTimeout, timeout)
               => EndsInTime(Tail(listHead), abs, last, timeout)
  BY <1>1, <1>3, <1>4, TailIsSorted
<1> HIDE DEF abs, last
<1>7. /\ ListSorted'
      /\ \A timeout \in Nat :
            EndsInTime(Tail(listHead), abs, last, timeout) => InTime(timeout)'
  BY <1>1, <1>3, <1>5, <1>6, StartIsSorted
<1>8. pc # "createInsert"
  BY <1>1 DEF CriticalSection
<1>9. op.kind = "create" => InTime(op.timeout)'
  <2> SUFFICES ASSUME op.kind = "create" PROVE InTime(op.timeout)'
    OBVIOUS
  <2>1. op.timeout \in Nat
    <3>1. op.timeout \in 1 .. (Modulus - 1)
      BY <1>1, CounterAssumption DEF OpFitsPC
    <3> QED
      BY <3>1
  <2>2. EndsInTime(listHead, abs, absoluteTimeofLastTimeout, op.timeout)
    BY <1>8 DEF TimesInv, InTime, EndsInTime, abs
  <2> QED
    BY <1>1, <1>6, <1>7, <2>1, <2>2 DEF InTime
<1> QED
  BY <1>1, <1>7, <1>8, <1>9 DEF TimesInv, InTime

LEMMA OthersKeepTimes ==
    ASSUME LinkInv, TimesInv,
           \/ FlushNext \/ CallNextCallback \/ Pop \/ CallbackDone \/ ClientCall
           \/ Tick \/ IsrNull \/ UNCHANGED vars
    PROVE  TimesInv'
<1>1. TypeOK /\ OpFitsPC /\ WellLinked(listHead) /\ ListSorted
  BY DEF LinkInv, Unlinked, TimesInv
<1>2. CASE FlushAll
  <2>1. /\ listHead' = listHead /\ absoluteTime' = absoluteTime
        /\ absoluteTimeofLastTimeout' = 0 /\ pc' = "flush" /\ op'.kind = "flush"
    BY <1>2 DEF FlushAll, stopTimeouts, lists
  <2>2. listHead # <<>> => 0 <= absoluteTime[Head(listHead)]
    <3>1. listHead # <<>> => Head(listHead) \in Nodes
      BY <1>1, HeadInRange DEF WellLinked
    <3> QED
      BY <1>1, <3>1 DEF TypeOK, Nodes, Word
  <2> QED
    BY <1>1, <2>1, <2>2 DEF TimesInv, ListSorted
<1>3. CASE ~FlushAll
  <2>1. /\ listHead' = listHead /\ absoluteTime' = absoluteTime
        /\ absoluteTimeofLastTimeout' = absoluteTimeofLastTimeout
    BY <1>3
       DEF FlushNext, CallNextCallback, Pop, CallbackDone, ClientCall, Delete, Create,
           CallbackReschedule, Tick, IsrNull, vars, lists, base
  <2>2. op' = op /\ pc' = pc => TimesInv'
    BY <2>1 DEF TimesInv, ListSorted, InTime
  <2>3. op'.kind # "create" /\ pc' # "createInsert" => TimesInv'
    BY <1>1, <2>1 DEF TimesInv, ListSorted
  <2>4. op'.kind = "create" /\ pc' # "createInsert" /\ InTime(op'.timeout) => TimesInv'
    BY <1>1, <2>1 DEF TimesInv, ListSorted, InTime
  <2>5. CASE Tick \/ IsrNull \/ UNCHANGED vars
    BY <2>2, <2>5 DEF Tick, IsrNull, vars, main
  <2>6. CASE CallNextCallback \/ Pop \/ CallbackDone
    <3>1. op.kind = "none" /\ op' = op /\ pc' # "createInsert"
      BY <1>1, <2>6 DEF CallNextCallback, Pop, CallbackDone, OpFitsPC
    <3> QED
      BY <2>3, <3>1
  <2>7. CASE FlushNext
    <3>1. op.kind = "flush"
      BY <1>1, <2>7 DEF FlushNext, OpFitsPC
    <3>2. op'.kind # "create" /\ pc' # "createInsert"
      BY <1>1, <2>7, <3>1 DEF FlushNext, BeginDelete, NoOp, TypeOK
    <3> QED
      BY <2>3, <3>2
  <2>8. CASE \E timer \in Timers : Delete(timer)
    BY <2>3, <2>8 DEF Delete, BeginDelete
  <2>9. CASE \/ \E timer \in Timers, timeout \in Timeouts : Create(timer, timeout)
             \/ \E reschedule \in Timeouts : CallbackReschedule(reschedule)
    BY <2>4, <2>9 DEF Create, CallbackReschedule, BeginCreate, BeginDelete
  <2> QED
    BY <1>3, <2>5, <2>6, <2>7, <2>8, <2>9 DEF ClientCall
<1> QED
  BY <1>2, <1>3

LEMMA TimesStep ==
    ASSUME NoWrap
    PROVE  LinkInv /\ TimesInv /\ [Next]_vars => TimesInv'
<1> SUFFICES ASSUME LinkInv, TimesInv, [Next]_vars PROVE TimesInv'
  OBVIOUS
<1>1. CASE SearchList \/ CheckQueue \/ SearchQueue
  BY <1>1, SearchesKeepTimes
<1>2. CASE CreateAbs
  BY <1>2, CreateAbsKeepsTimes
<1>3. CASE CreateInsert
  BY <1>3, CreateInsertKeepsTimes
<1>4. CASE Isr
  BY <1>4, IsrKeepsTimes
<1>5. CASE \/ FlushNext \/ CallNextCallback \/ Pop \/ CallbackDone \/ ClientCall
           \/ Tick \/ IsrNull \/ UNCHANGED vars
  BY <1>5, OthersKeepTimes
<1> QED
  BY <1>1, <1>2, <1>3, <1>4, <1>5 DEF Next, MainStep

\* As long as no time wraps, every step of the driver keeps the list sorted.
THEOREM TimesHold ==
    ASSUME NoWrap
    PROVE  Spec => [](LinkInv /\ TimesInv)
<1>1. LinkInv /\ TimesInv /\ [Next]_vars => TimesInv'
  BY TimesStep
<1> QED
  BY <1>1, TimesInit, LinksInit, LinksStep, PTL DEF Spec

\* While no time wraps, the list the interrupt takes its next timer from is sorted.
THEOREM ListSortedHolds ==
    ASSUME NoWrap
    PROVE  Spec => []ListSorted
<1>1. LinkInv /\ TimesInv => ListSorted
  BY DEF TimesInv
<1> QED
  BY <1>1, TimesHold, PTL

\* On a sorted list the distance of a head from the time base is their difference.
LEMMA HeadDistance ==
    ASSUME LinkInv, TimesInv, listHead # <<>>
    PROVE  /\ Sub32(absoluteTime[Head(listHead)], absoluteTimeofLastTimeout)
                = absoluteTime[Head(listHead)] - absoluteTimeofLastTimeout
           /\ absoluteTime[Head(listHead)] \in Nat /\ absoluteTimeofLastTimeout \in Nat
<1>1. Head(listHead) \in Nodes
  BY HeadInRange DEF LinkInv, Unlinked, WellLinked
<1>2. /\ absoluteTime[Head(listHead)] \in Word /\ absoluteTimeofLastTimeout \in Word
      /\ absoluteTimeofLastTimeout <= absoluteTime[Head(listHead)]
  BY <1>1 DEF LinkInv, TypeOK, Nodes, TimesInv, ListSorted
<1>3. absoluteTime[Head(listHead)] \in Nat /\ absoluteTimeofLastTimeout \in Nat
  BY <1>2 DEF Word
<1> QED
  BY <1>2, <1>3, WordsAreModular

\* While no time wraps, the dummy stands only before the first running timer, one whole
\* period after the time base.
THEOREM DummyOnlyAtHeadHolds ==
    ASSUME NoWrap
    PROVE  Spec => []DummyOnlyAtHead
<1>1. LinkInv /\ TimesInv => DummyOnlyAtHead
  <2> SUFFICES ASSUME LinkInv, TimesInv PROVE DummyOnlyAtHead
    OBVIOUS
  <2>1. \A i \in 2 .. Len(listHead) : listHead[i] # Dummy
    BY DEF LinkInv, Unlinked, WellLinked
  <2>2. ASSUME listHead # <<>>, Head(listHead) = Dummy, op.kind # "flush"
        PROVE  absoluteTime[Dummy] = absoluteTimeofLastTimeout + MaxLoad
    <3>1. Sub32(absoluteTime[Dummy], absoluteTimeofLastTimeout) = MaxLoad
      BY <2>2 DEF LinkInv, DummyWhole, FlushBegun
    <3>2. MaxLoad \in Nat
      BY CounterAssumption
    <3> QED
      BY <2>2, <3>1, <3>2, HeadDistance
  <2> QED
    BY <2>1, <2>2 DEF DummyOnlyAtHead
<1> QED
  BY <1>1, TimesHold, PTL

\* While no time wraps, outside timeout_flushAll and the critical section of timeout_create
\* a running timer has the interrupt on and the counter loaded for the head of the list.
THEOREM ArmedForHeadHolds ==
    ASSUME NoWrap
    PROVE  Spec => []ArmedForHead
<1>1. LinkInv /\ TimesInv => ArmedForHead
  <2> SUFFICES ASSUME LinkInv, TimesInv, listHead # <<>>, op.kind # "flush"
               PROVE  /\ isRunning
                      /\ lastTimerLoad + absoluteTime[Head(listHead)]
                            = absoluteTimeofLastTimeout + MaxLoad
                      /\ pc # "createInsert" => ovfIE
                      /\ pc = "pop" => tempIE
    BY DEF ArmedForHead
  <2>1. /\ isRunning
        /\ lastTimerLoad + Sub32(absoluteTime[Head(listHead)], absoluteTimeofLastTimeout)
              = MaxLoad
        /\ pc # "createInsert" => ovfIE
        /\ pc = "pop" => tempIE
    BY DEF LinkInv, Armed, FlushBegun
  <2>2. lastTimerLoad \in Nat /\ MaxLoad \in Nat
    BY CounterAssumption DEF LinkInv, TypeOK
  <2> QED
    BY <2>1, <2>2, HeadDistance
<1> QED
  BY <1>1, TimesHold, PTL
=============================================================================
