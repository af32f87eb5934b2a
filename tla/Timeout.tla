------------------------------ MODULE Timeout ------------------------------
(***************************************************************************)
(* The software timer driver (mcc_generated_files/drivers/timeout.c) over  *)
(* the RTC counter (src/rtc.c): one list of running timers sorted by their *)
(* absolute expiry, one FIFO of expired timers whose callbacks the         *)
(* superloop runs, and the overflow interrupt that moves the head of the   *)
(* first to the tail of the second.                                        *)
(*                                                                         *)
(* The main program and the interrupt share the two lists.  Each pc below  *)
(* is a point of the main program at which the interrupt can be taken, or  *)
(* at which the counter can advance inside a critical section.  The        *)
(* interrupt handler is one step: "assumes the callback completes before   *)
(* the next timer tick" (timeout.c:345).  A linked list is a sequence, its *)
(* head first.  A write of the counter takes effect at once.               *)
(***************************************************************************)
EXTENDS Integers, Sequences, SequencesExt

CONSTANTS
    Timers,       \* the timerStruct_t objects of the clients
    Dummy,        \* the driver's own timer, inserted before a far expiry
    NoTimer,      \* no timer at all
    MaxLoad,      \* 65535: the largest count of the RTC
    Modulus,      \* 2^32: absolute times are uint32_t
    Timeouts,     \* the delays clients ask for, in ticks
    MaxTime,      \* bound: no delay is asked for that would end after it
    Ops,          \* the operations clients use, of "create", "delete", "flush"
    SlowMain      \* may the main program leave the list empty for a whole counter
                  \* period (64 s) while callbacks are due or the interrupt is on?

ASSUME TimerAssumption ==
    /\ Dummy \notin Timers /\ NoTimer \notin Timers /\ Dummy # NoTimer
    /\ Ops \subseteq {"create", "delete", "flush"}
    /\ SlowMain \in BOOLEAN

ASSUME CounterAssumption ==
    /\ MaxLoad \in Nat \ {0}
    /\ Modulus \in Nat /\ Modulus > 2 * MaxLoad
    /\ MaxTime \in Nat
    /\ Timeouts \subseteq 1..(Modulus - 1)

VARIABLES
    listHead,                   \* running timers, nearest expiry first
    executeQueueHead,           \* expired timers, the first to call first
    absoluteTime,               \* the absoluteTime field of each timer
    absoluteTimeofLastTimeout,
    lastTimerLoad,
    isRunning,
    cnt,                        \* RTC.CNT
    ovf,                        \* the OVF flag of RTC.INTFLAGS
    ovfIE,                      \* the OVF enable bit of RTC.INTCTRL
    pc,                         \* where the main program is
    op,                         \* the driver call it is executing
    tempIE,                     \* the local of timeout_callNextCallback
    calling,                    \* the timer whose callback is running
    fault                       \* timeout_isr dereferenced a NULL listHead

lists == <<listHead, executeQueueHead, absoluteTime>>
base  == <<absoluteTimeofLastTimeout, lastTimerLoad, isRunning>>
rtc   == <<cnt, ovf, ovfIE>>
main  == <<pc, op, tempIE, calling>>
vars  == <<lists, base, rtc, main, fault>>

Word == 0..(Modulus - 1)
NoOp == [kind |-> "none", timer |-> NoTimer, timeout |-> 0]
PCs  == {"idle", "listSearch", "queueCheck", "queueSearch", "createAbs",
         "createInsert", "flush", "pop"}

TypeOK ==
    /\ listHead \in Seq(Timers \cup {Dummy})
    /\ executeQueueHead \in Seq(Timers)
    /\ absoluteTime \in [Timers \cup {Dummy} -> Word]
    /\ absoluteTimeofLastTimeout \in Word
    /\ lastTimerLoad \in 0..MaxLoad
    /\ isRunning \in BOOLEAN
    /\ cnt \in 0..MaxLoad
    /\ ovf \in BOOLEAN
    /\ ovfIE \in BOOLEAN
    /\ pc \in PCs
    /\ op \in [kind : {"none", "create", "delete", "flush"},
               timer : Timers \cup {Dummy, NoTimer}, timeout : {0} \cup Timeouts]
    /\ tempIE \in BOOLEAN
    /\ calling \in Timers \cup {NoTimer}
    /\ fault \in BOOLEAN

\* uint32_t addition and subtraction.
Add32(a, b) == (a + b) % Modulus
Sub32(a, b) == (a - b) % Modulus

(***************************************************************************)
(* The state after SYSTEM_Initialize: RTC_Initialize leaves the counter    *)
(* running from 0 with the overflow interrupt enabled.                     *)
(***************************************************************************)
Init ==
    /\ listHead = <<>>
    /\ executeQueueHead = <<>>
    /\ absoluteTime = [t \in Timers \cup {Dummy} |-> 0]
    /\ absoluteTimeofLastTimeout = 0
    /\ lastTimerLoad = 0
    /\ isRunning = FALSE
    /\ cnt = 0
    /\ ovf = FALSE
    /\ ovfIE = TRUE
    /\ pc = "idle"
    /\ op = NoOp
    /\ tempIE = FALSE
    /\ calling = NoTimer
    /\ fault = FALSE

-----------------------------------------------------------------------------
(***************************************************************************)
(* The helpers of the driver.                                              *)
(***************************************************************************)

\* The ticks makeAbsolute adds for the part of the current period gone by.
Elapsed ==
    IF ~isRunning THEN 0
    ELSE IF cnt < lastTimerLoad THEN MaxLoad - lastTimerLoad
    ELSE cnt - lastTimerLoad

makeAbsolute(timeout) ==
    Add32(Add32(timeout, absoluteTimeofLastTimeout), Elapsed)

\* RTC_ClearOVFInterruptFlag, called between the two writes of the counter,
\* leaves OVF as it is: INTFLAGS is cleared by writing ones, and it writes a 0.
setTimerDuration(duration) ==
    /\ lastTimerLoad' = MaxLoad - duration
    /\ cnt' = MaxLoad - duration

stopTimeouts ==
    /\ ovfIE' = FALSE
    /\ absoluteTimeofLastTimeout' = 0
    /\ lastTimerLoad' = 0
    /\ isRunning' = FALSE

\* Mutant: a period longer than the counter's is loaded without a dummy.
startTimerAtHeadNoDummy(list, abs, last) ==
    IF list = <<>>
    THEN /\ stopTimeouts
         /\ listHead' = list
         /\ absoluteTime' = abs
         /\ UNCHANGED cnt
    ELSE /\ setTimerDuration(Sub32(abs[Head(list)], last))
         /\ listHead' = list
         /\ absoluteTime' = abs
         /\ absoluteTimeofLastTimeout' = last
         /\ ovfIE' = TRUE
         /\ isRunning' = TRUE

\* startTimerAtHead on the running timers list, expiring at abs, counted from last.
startTimerAtHead(list, abs, last) ==
    IF list = <<>>
    THEN /\ stopTimeouts
         /\ listHead' = list
         /\ absoluteTime' = abs
         /\ UNCHANGED cnt
    ELSE LET period == Sub32(abs[Head(list)], last) IN
         /\ IF period > MaxLoad
            THEN /\ absoluteTime' = [abs EXCEPT ![Dummy] = Add32(last, MaxLoad)]
                 /\ listHead' = <<Dummy>> \o list
                 /\ setTimerDuration(MaxLoad)
            ELSE /\ absoluteTime' = abs
                 /\ listHead' = list
                 /\ setTimerDuration(period)
         /\ absoluteTimeofLastTimeout' = last
         /\ ovfIE' = TRUE
         /\ isRunning' = TRUE

\* Mutant: only the head of the list is compared.
InsertPointHeadOnly(list, abs, timer) ==
    IF list # <<>> /\ abs[Head(list)] <= abs[timer] THEN 2 ELSE 1

\* The place of timer in list: before the first entry that expires later.
InsertPoint(list, abs, timer) ==
    CHOOSE i \in 1..(Len(list) + 1) :
        /\ i <= Len(list) => abs[list[i]] > abs[timer]
        /\ \A j \in 1..(i - 1) : abs[list[j]] <= abs[timer]

\* Mutant: a dummy at the head stays behind the timer inserted before it.
NoDummyKept(list) == list

\* listHead after its dummy, if that is its head, is dropped.
NoDummy(list) == IF list # <<>> /\ Head(list) = Dummy THEN Tail(list) ELSE list

\* Mutant: an insertion behind the head leaves the interrupt disabled.
insertAndStartDisabled(timer, abs, last) ==
    LET at == InsertPoint(listHead, abs, timer) IN
    IF at = 1
    THEN startTimerAtHead(<<timer>> \o NoDummy(listHead), abs, last)
    ELSE /\ listHead' = InsertAt(listHead, at, timer)
         /\ absoluteTime' = abs
         /\ absoluteTimeofLastTimeout' = last
         /\ ovfIE' = FALSE
         /\ UNCHANGED <<lastTimerLoad, isRunning, cnt>>

\* sortedInsert and the last lines of timeout_create, on times abs counted from last.
insertAndStart(timer, abs, last) ==
    LET at == InsertPoint(listHead, abs, timer) IN
    IF at = 1
    THEN startTimerAtHead(<<timer>> \o NoDummy(listHead), abs, last)
    ELSE /\ listHead' = InsertAt(listHead, at, timer)
         /\ absoluteTime' = abs
         /\ absoluteTimeofLastTimeout' = last
         /\ ovfIE' = isRunning
         /\ UNCHANGED <<lastTimerLoad, isRunning, cnt>>

\* rebaseList: the running timers' times counted from now.
rebaseList(now) ==
    [t \in Timers \cup {Dummy} |->
        IF t \in Range(listHead) THEN Sub32(absoluteTime[t], now) ELSE absoluteTime[t]]

\* Mutant: a time that has wrapped is inserted as it is.
sortedInsertWrapped(timer) ==
    insertAndStart(timer, absoluteTime, absoluteTimeofLastTimeout)

sortedInsert(timer) ==
    IF absoluteTime[timer] < absoluteTimeofLastTimeout
    THEN LET now == makeAbsolute(0)
         IN  insertAndStart(timer,
                 [rebaseList(now) EXCEPT ![timer] =
                     Add32(absoluteTime[timer], Sub32(MaxLoad + 1, now))],
                 Sub32(absoluteTimeofLastTimeout, now))
    ELSE insertAndStart(timer, absoluteTime, absoluteTimeofLastTimeout)

-----------------------------------------------------------------------------
(***************************************************************************)
(* timeout_delete: the running list is searched first, the expired one     *)
(* after it.  The test for NULL is made before the interrupt is disabled.  *)
(***************************************************************************)

BeginDelete(o) ==
    /\ op' = o
    /\ pc' = IF listHead = <<>> THEN "queueCheck" ELSE "listSearch"

\* Where the caller of timeout_delete goes on.
Return ==
    CASE op.kind = "create" -> pc' = "createAbs" /\ UNCHANGED op
      [] op.kind = "flush"  -> pc' = "flush"     /\ UNCHANGED op
      [] OTHER              -> pc' = "idle"      /\ op' = NoOp

\* list without the first entry that is timer.
Remaining(list, timer) ==
    IF timer \in Range(list)
    THEN RemoveAt(list, CHOOSE i \in 1..Len(list) :
             list[i] = timer /\ \A j \in 1..(i - 1) : list[j] # timer)
    ELSE list

\* Mutant: a timer not found among the running ones is not looked for in the queue.
SearchListOnly ==
    /\ pc = "listSearch"
    /\ IF listHead # <<>> /\ Head(listHead) = op.timer
       THEN startTimerAtHead(Tail(listHead), absoluteTime, absoluteTimeofLastTimeout)
       ELSE /\ listHead' = Remaining(listHead, op.timer)
            /\ ovfIE' = TRUE
            /\ UNCHANGED <<absoluteTime, base, cnt>>
    /\ Return
    /\ UNCHANGED <<executeQueueHead, ovf, tempIE, calling, fault>>

\* timeout_deleteHelper(&listHead, timer) after the test for NULL.
SearchList ==
    /\ pc = "listSearch"
    /\ IF listHead # <<>> /\ Head(listHead) = op.timer
       THEN /\ startTimerAtHead(Tail(listHead), absoluteTime, absoluteTimeofLastTimeout)
            /\ Return
       ELSE /\ listHead' = Remaining(listHead, op.timer)
            /\ ovfIE' = TRUE
            /\ IF op.timer \in Range(listHead)
               THEN Return
               ELSE pc' = "queueCheck" /\ UNCHANGED op
            /\ UNCHANGED <<absoluteTime, base, cnt>>
    /\ UNCHANGED <<executeQueueHead, ovf, tempIE, calling, fault>>

CheckQueue ==
    /\ pc = "queueCheck"
    /\ IF executeQueueHead = <<>> THEN Return ELSE pc' = "queueSearch" /\ UNCHANGED op
    /\ UNCHANGED <<lists, base, rtc, tempIE, calling, fault>>

\* timeout_deleteHelper(&executeQueueHead, timer): deleting its head restarts the
\* timer at the head of the running list.
SearchQueue ==
    /\ pc = "queueSearch"
    /\ executeQueueHead' = Remaining(executeQueueHead, op.timer)
    /\ IF Head(executeQueueHead) = op.timer
       THEN startTimerAtHead(listHead, absoluteTime, absoluteTimeofLastTimeout)
       ELSE /\ ovfIE' = TRUE
            /\ UNCHANGED <<listHead, absoluteTime, base, cnt>>
    /\ Return
    /\ UNCHANGED <<ovf, tempIE, calling, fault>>

Delete(timer) ==
    /\ pc = "idle" /\ "delete" \in Ops
    /\ BeginDelete([kind |-> "delete", timer |-> timer, timeout |-> 0])
    /\ UNCHANGED <<lists, base, rtc, tempIE, calling, fault>>

-----------------------------------------------------------------------------
(***************************************************************************)
(* timeout_create: delete the timer, read the time, insert it.             *)
(***************************************************************************)

\* The bound on absolute times: nothing is created to expire after MaxTime.
InTime(timeout) ==
    /\ absoluteTimeofLastTimeout + timeout <= MaxTime
    /\ \A i \in 1..Len(listHead) : absoluteTime[listHead[i]] + timeout <= MaxTime

BeginCreate(timer, timeout) ==
    /\ InTime(timeout)
    /\ BeginDelete([kind |-> "create", timer |-> timer, timeout |-> timeout])

Create(timer, timeout) ==
    /\ pc = "idle" /\ "create" \in Ops
    /\ BeginCreate(timer, timeout)
    /\ UNCHANGED <<lists, base, rtc, tempIE, calling, fault>>

\* RTC_DisableOVFInterrupt and timer->absoluteTime = makeAbsolute(timeout).
CreateAbs ==
    /\ pc = "createAbs"
    /\ ovfIE' = FALSE
    /\ absoluteTime' = [absoluteTime EXCEPT ![op.timer] = makeAbsolute(op.timeout)]
    /\ pc' = "createInsert"
    /\ UNCHANGED <<listHead, executeQueueHead, base, cnt, ovf, op, tempIE, calling, fault>>

CreateInsert ==
    /\ pc = "createInsert"
    /\ sortedInsert(op.timer)
    /\ pc' = "idle" /\ op' = NoOp
    /\ UNCHANGED <<executeQueueHead, ovf, tempIE, calling, fault>>

-----------------------------------------------------------------------------
(***************************************************************************)
(* timeout_flushAll: stop, then delete the head of each list until NULL.   *)
(***************************************************************************)

FlushAll ==
    /\ pc = "idle" /\ "flush" \in Ops
    /\ stopTimeouts
    /\ pc' = "flush"
    /\ op' = [kind |-> "flush", timer |-> NoTimer, timeout |-> 0]
    /\ UNCHANGED <<lists, cnt, ovf, tempIE, calling, fault>>

FlushNext ==
    /\ pc = "flush"
    /\ IF listHead # <<>>
       THEN BeginDelete([op EXCEPT !.timer = Head(listHead)])
       ELSE IF executeQueueHead # <<>>
       THEN BeginDelete([op EXCEPT !.timer = Head(executeQueueHead)])
       ELSE pc' = "idle" /\ op' = NoOp
    /\ UNCHANGED <<lists, base, rtc, tempIE, calling, fault>>

-----------------------------------------------------------------------------
(***************************************************************************)
(* timeout_callNextCallback, called by the superloop.                      *)
(***************************************************************************)

\* Mutant: callbacks run only while a timer runs.
CallNextCallbackRunning ==
    /\ pc = "idle" /\ calling = NoTimer
    /\ executeQueueHead # <<>> /\ isRunning
    /\ tempIE' = ovfIE
    /\ pc' = "pop"
    /\ UNCHANGED <<lists, base, rtc, op, calling, fault>>

CallNextCallback ==
    /\ pc = "idle" /\ calling = NoTimer
    /\ executeQueueHead # <<>>
    /\ tempIE' = ovfIE
    /\ pc' = "pop"
    /\ UNCHANGED <<lists, base, rtc, op, calling, fault>>

\* The removal, between the disable and the restoring of the interrupt.
Pop ==
    /\ pc = "pop"
    /\ calling' = Head(executeQueueHead)
    /\ executeQueueHead' = Tail(executeQueueHead)
    /\ ovfIE' = tempIE
    /\ pc' = "idle"
    /\ UNCHANGED <<listHead, absoluteTime, base, cnt, ovf, op, tempIE, fault>>

\* The callback returns 0: the timer stays out of both lists, or where a call
\* the callback made has put it.
CallbackDone ==
    /\ pc = "idle" /\ calling # NoTimer
    /\ calling' = NoTimer
    /\ UNCHANGED <<lists, base, rtc, pc, op, tempIE, fault>>

\* Mutant: the timer is taken to be in no list and inserted without a delete.
CallbackRescheduleAtOnce(reschedule) ==
    /\ pc = "idle" /\ calling # NoTimer
    /\ InTime(reschedule)
    /\ pc' = "createAbs"
    /\ op' = [kind |-> "create", timer |-> calling, timeout |-> reschedule]
    /\ calling' = NoTimer
    /\ UNCHANGED <<lists, base, rtc, tempIE, fault>>

\* The callback returns reschedule > 0: timeout_create(callBackTimer, reschedule).
CallbackReschedule(reschedule) ==
    /\ pc = "idle" /\ calling # NoTimer
    /\ BeginCreate(calling, reschedule)
    /\ calling' = NoTimer
    /\ UNCHANGED <<lists, base, rtc, tempIE, fault>>

-----------------------------------------------------------------------------
(***************************************************************************)
(* The hardware and its interrupt.                                         *)
(***************************************************************************)

\* Nothing runs, nothing is due, and the interrupt is off.
Quiescent ==
    ~ovfIE /\ executeQueueHead = <<>> /\ pc = "idle" /\ calling = NoTimer

Tick ==
    /\ cnt = MaxLoad /\ listHead = <<>> => SlowMain \/ Quiescent
    /\ cnt' = IF cnt = MaxLoad THEN 0 ELSE cnt + 1
    /\ ovf' = (ovf \/ cnt = MaxLoad)
    /\ UNCHANGED <<lists, base, ovfIE, main, fault>>

\* Mutant: the expired timer is put before those already in the queue.
enqueueCallbackFirst(timer) == <<timer>> \o executeQueueHead

enqueueCallback(timer) == Append(executeQueueHead, timer)

\* ISR(RTC_CNT_vect): timeout_isr, then both flags are cleared.
Isr ==
    /\ ovf /\ ovfIE /\ listHead # <<>>
    /\ executeQueueHead' = IF Head(listHead) = Dummy THEN executeQueueHead
                           ELSE enqueueCallback(Head(listHead))
    /\ startTimerAtHead(Tail(listHead), absoluteTime, absoluteTime[Head(listHead)])
    /\ ovf' = FALSE
    /\ UNCHANGED <<main, fault>>

\* The same with listHead = NULL: listHead->next is read through a null pointer, and
\* nothing is known of the lists after that, so the model ends there.
IsrNull ==
    /\ ovf /\ ovfIE /\ listHead = <<>>
    /\ fault' = TRUE
    /\ UNCHANGED <<lists, base, rtc, main>>

MainStep ==
    \/ SearchList \/ CheckQueue \/ SearchQueue
    \/ CreateAbs \/ CreateInsert \/ FlushNext
    \/ CallNextCallback \/ Pop \/ CallbackDone

ClientCall ==
    \/ \E timer \in Timers : Delete(timer)
    \/ \E timer \in Timers, timeout \in Timeouts : Create(timer, timeout)
    \/ \E reschedule \in Timeouts : CallbackReschedule(reschedule)
    \/ FlushAll

Next ==
    \/ ~fault /\ (MainStep \/ ClientCall \/ Tick \/ Isr)
    \/ IsrNull

Spec == Init /\ [][Next]_vars

(***************************************************************************)
(* The superloop calls runScheduler in every iteration and every callback  *)
(* returns; the counter runs, and a pending interrupt is taken.            *)
(***************************************************************************)
Fairness ==
    /\ WF_vars(~fault /\ MainStep)
    /\ WF_vars(~fault /\ Tick)
    /\ WF_vars(~fault /\ Isr)

-----------------------------------------------------------------------------
(***************************************************************************)
(* Properties.                                                             *)
(***************************************************************************)

Linked == listHead \o executeQueueHead

\* A timer is in at most one list and at most once, and one that timeout_create
\* has deleted stays out of both until it inserts it, though the interrupt may
\* have moved it from one list to the other between the two searches.
NeverLinkedTwice ==
    /\ \A i, j \in 1..Len(Linked) : i # j => Linked[i] # Linked[j]
    /\ pc \in {"createAbs", "createInsert"} => op.timer \notin Range(Linked)

\* When timeout_delete returns, the timer is neither running nor expired, wherever
\* it was when the call began and whatever the interrupt did meanwhile.
DeleteUnlinks ==
    [][op.kind = "delete" /\ op'.kind = "none" => op.timer \notin Range(Linked')]_vars

\* The list the interrupt takes its next timer from is sorted by expiry, and no
\* expiry lies before the time base the next period is counted from.
ListSorted ==
    /\ \A i, j \in 1..Len(listHead) :
          i < j => absoluteTime[listHead[i]] <= absoluteTime[listHead[j]]
    /\ listHead # <<>> => absoluteTimeofLastTimeout <= absoluteTime[Head(listHead)]

\* The driver's own timer stands only before the first running timer, one whole
\* period away: behind it, a timer would be delayed by periods of the counter.
DummyOnlyAtHead ==
    /\ \A i \in 2..Len(listHead) : listHead[i] # Dummy
    /\ listHead # <<>> /\ Head(listHead) = Dummy /\ op.kind # "flush"
          => absoluteTime[Dummy] = absoluteTimeofLastTimeout + MaxLoad

\* Nothing that runs is stranded: outside timeout_flushAll and the critical section
\* of timeout_create, while a timer runs the overflow interrupt is enabled and the
\* counter was loaded to overflow at the expiry of the head of the list.
ArmedForHead ==
    listHead # <<>> /\ op.kind # "flush" =>
        /\ isRunning
        /\ lastTimerLoad + absoluteTime[Head(listHead)]
              = absoluteTimeofLastTimeout + MaxLoad
        /\ pc # "createInsert" => ovfIE
        /\ pc = "pop" => tempIE

\* The driver implements the service of timeout.h.
Service == INSTANCE TimerService
    WITH running <- Range(listHead) \ {Dummy}, expired <- executeQueueHead
ImplementsService == Service!ServiceSpec

\* The interrupt never finds the list empty: the searches of timeout_delete and the
\* restoring of the interrupt do not enable it when no timer runs.
NoNullDereference == ~fault

=============================================================================
